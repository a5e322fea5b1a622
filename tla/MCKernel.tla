------------------------------ MODULE MCKernel ------------------------------
(* Test suites, keys and bytes for checking the kernel. *)
EXTENDS Kernel

\* every test alone, and after or before one that prints
MCTestSuites ==
    {<<test>> : test \in TestNames}
        \cup {<<"println_simple", test>> : test \in TestNames}
        \cup {<<test, "trivial_assertion">> : test \in Failing}
MCPrintable == {".", "H", "i", "!", "c", "B", "P", "s", "o", "a", "L"}
=============================================================================
