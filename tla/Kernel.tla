------------------------------- MODULE Kernel -------------------------------
(***************************************************************************)
(* The kernel of src/Rust/os: its start, its interrupt handlers, its spin  *)
(* locks and its test harness on one processor.                            *)
(*                                                                         *)
(* A function of the kernel is the sequence of operations it performs, and *)
(* `frames' is the processor's stack: the flow that started at _start and, *)
(* above it, the handlers that interrupted it.  The top frame takes one    *)
(* operation at a time; an interrupt may come between any two of them when *)
(* the interrupt flag `enabled' allows it, an exception when one is raised.    *)
(***************************************************************************)
EXTENDS VgaBuffer, FiniteSets

CONSTANTS Entries,      \* which _start functions are run
          TestSuites,   \* the sequences of tests a harness is given
          Keys,         \* the keys of the keyboard
          MaxTicks, MaxKeys

\* The tests that suites are made of; TestBody says what each of them does.
TestNames == {"trivial_assertion", "println_simple", "println_output",
              "break_point_exception", "failing_assertion", "failing_output", "stack_overflow"}

ASSUME KernelAssumption ==
    /\ Entries \subseteq {"main", "main_test", "lib_test"}
    /\ TestSuites \subseteq Seq(TestNames)
    /\ BUFFER_HEIGHT > 1 /\ "o" \in Printable   \* what test_println_output looks at

VARIABLES entry, tests,
          frames, enabled,
          tables,       \* which of the TSS and the IDT are loaded
          locks,        \* the spin locks that are held
          pic,          \* offset, requested (irr) and in service (isr) lines
          port,         \* scancodes waiting in the keyboard's controller
          decoder,      \* KEYBOARD: what came before in a scancode sequence
          writer,       \* WRITER
          log,          \* every byte ever written to either device
          pressed, ticks,
          exit          \* how the machine was left

environment == <<pressed, ticks>>
vars == <<entry, tests, frames, enabled, tables, locks, pic, port, decoder, writer, log,
          pressed, ticks, exit>>

----------------------------------------------------------------------------
(* Operations and the functions made of them. *)

Op(name) == [op |-> name]
Lock(lock) == [op |-> "lock", lock |-> lock]
Unlock(lock) == [op |-> "unlock", lock |-> lock]
Write(device, text) == [op |-> "write", device |-> device, text |-> text, pos |-> 1]

\* A fault: printing with interrupts on.
print_interruptible(device, text) == <<Lock(device), Write(device, text), Unlock(device)>>

\* vga_buffer::_print and serial::_print
print(device, text) ==
    <<Op("without_interrupts"), Lock(device), Write(device, text), Unlock(device),
      Op("restore_interrupts")>>
println(text) == print("WRITER", text)
serial_print(word) == print("SERIAL1", <<word>>)

PIC_1_OFFSET == 32
InterruptIndex == [Timer |-> PIC_1_OFFSET, Keyboard |-> PIC_1_OFFSET + 1]
BREAKPOINT == 3
DOUBLE_FAULT == 8

notify_end_of_interrupt(vector) ==
    <<Lock("PICS"), [op |-> "end_of_interrupt", vector |-> vector], Unlock("PICS")>>

timer_interrupt_handler ==
    println(<<".">>) \o notify_end_of_interrupt(InterruptIndex.Timer)

\* A fault: a handler that signals no end of interrupt.
keyboard_handler_unsignalled ==
    <<Lock("KEYBOARD"), Op("read_scancode"), Unlock("KEYBOARD")>>

\* The lock is a local of the handler: it is dropped after the end of interrupt,
\* which is signalled for the timer's vector.
keyboard_handler ==
    <<Lock("KEYBOARD"), Op("read_scancode")>>
        \o notify_end_of_interrupt(InterruptIndex.Timer) \o <<Unlock("KEYBOARD")>>

breakpoint_handler == println(<<"B", "\n">>)
double_fault_handler == <<Op("panic")>>

IDT == [vector \in {BREAKPOINT, DOUBLE_FAULT, InterruptIndex.Timer, InterruptIndex.Keyboard} |->
            CASE vector = BREAKPOINT -> breakpoint_handler
              [] vector = DOUBLE_FAULT -> double_fault_handler
              [] vector = InterruptIndex.Timer -> timer_interrupt_handler
              [] vector = InterruptIndex.Keyboard -> keyboard_handler]

\* The vectors whose handlers run on a stack of their own, from the TSS.
OnOwnStack == {DOUBLE_FAULT}

gdt_init == <<Op("load_tss")>>
init_idt == <<Op("load_idt")>>
init == gdt_init \o init_idt
            \o <<Lock("PICS"), Op("initialize_pics"), Unlock("PICS"), Op("enable_interrupts")>>

hlt_loop == <<Op("hlt")>>
exit_qemu(code) == <<[op |-> "exit", code |-> code]>>

test_panic_handler ==
    serial_print("[failed]") \o serial_print("Error") \o exit_qemu("Failed") \o hlt_loop

panic == IF entry = "main" THEN println(<<"P", "\n">>) \o hlt_loop ELSE test_panic_handler

\* test_println_output: a line written, and looked at, under one lock
println_output(expected) ==
    <<Op("without_interrupts"), Lock("WRITER"), Write("WRITER", <<"\n", "o", "\n">>),
      [op |-> "assert_row", char |-> expected], Unlock("WRITER"), Op("restore_interrupts")>>

\* What the tests do: the crate's own, two whose assertions fail, one of them
\* under the writer's lock, and the recursion of tests/stack_overflow.rs.
TestBody(test) ==
    CASE test = "trivial_assertion" -> <<>>
      [] test = "println_simple" -> println(<<"s", "\n">>)
      [] test = "println_output" -> println_output("o")
      [] test = "break_point_exception" -> <<Op("int3")>>
      [] test = "failing_assertion" -> <<Op("panic")>>
      [] test = "failing_output" -> println_output("x")
      [] test = "stack_overflow" -> <<Op("overflow_stack")>>
Failing == {"failing_assertion", "failing_output", "stack_overflow"}

run(test) == serial_print(test) \o TestBody(test) \o serial_print("[ok]")

\* A fault: the loop over the tests ends after the first one.
for_test_once(suite) == IF suite = <<>> THEN <<>> ELSE run(Head(suite))

\* The loop of test_runner: its next turn, and the turns that are left.
for_test(suite) ==
    IF suite = <<>> THEN <<>> ELSE run(Head(suite)) \o <<[op |-> "for_test", suite |-> Tail(suite)]>>

test_runner(suite) ==
    serial_print("Running") \o for_test(suite) \o exit_qemu("Success")

\* main.rs, main.rs built for its tests, and lib.rs built for its tests
start(program, suite) ==
    CASE program = "main" -> println(<<"H", "i", "!", "\n">>) \o init \o println(<<"c", "\n">>) \o hlt_loop
      [] program = "main_test" -> println(<<"H", "i", "!", "\n">>) \o init \o test_runner(suite)
                                      \o println(<<"c", "\n">>) \o hlt_loop
      [] program = "lib_test" -> init \o test_runner(suite) \o hlt_loop

Init ==
    /\ entry \in Entries
    /\ tests \in (IF entry = "main" THEN {<<>>} ELSE TestSuites)
    /\ frames = <<[todo |-> start(entry, tests), flags |-> FALSE, saved |-> FALSE]>>
    /\ enabled = FALSE /\ tables = {} /\ locks = {}
    /\ pic = [offset |-> 8, irr |-> {}, isr |-> {}]
    /\ port = <<>> /\ decoder = "start"
    /\ writer = NewWriter
    /\ log = [WRITER |-> <<>>, SERIAL1 |-> <<>>]
    /\ pressed = <<>> /\ ticks = 0
    /\ exit = "none"

----------------------------------------------------------------------------
(* The top frame's next operation. *)

Top == Last(frames)
NextOp == Head(Top.todo)
At(name) == exit = "none" /\ Top.todo # <<>> /\ NextOp.op = name

Continue(todo) == [frames EXCEPT ![Len(frames)].todo = todo]
Rest == Tail(Top.todo)

WithoutInterrupts ==
    /\ At("without_interrupts")
    /\ frames' = [frames EXCEPT ![Len(frames)] = [@ EXCEPT !.todo = Rest, !.saved = enabled]]
    /\ enabled' = FALSE
    /\ UNCHANGED <<entry, tests, tables, locks, pic, port, decoder, writer, log, environment, exit>>

RestoreInterrupts ==
    /\ At("restore_interrupts")
    /\ enabled' = Top.saved
    /\ frames' = Continue(Rest)
    /\ UNCHANGED <<entry, tests, tables, locks, pic, port, decoder, writer, log, environment, exit>>

\* A spin lock: whoever finds it taken goes round and round.
Acquire ==
    /\ At("lock") /\ NextOp.lock \notin locks
    /\ locks' = locks \cup {NextOp.lock}
    /\ frames' = Continue(Rest)
    /\ UNCHANGED <<entry, tests, enabled, tables, pic, port, decoder, writer, log, environment, exit>>

Release ==
    /\ At("unlock")
    /\ locks' = locks \ {NextOp.lock}
    /\ frames' = Continue(Rest)
    /\ UNCHANGED <<entry, tests, enabled, tables, pic, port, decoder, writer, log, environment, exit>>

\* One byte of a message.
WriteOne ==
    /\ At("write")
    /\ LET w == NextOp IN
        /\ writer' = IF w.device = "WRITER" THEN WriteStringByte(writer, w.text[w.pos]) ELSE writer
        /\ log' = [log EXCEPT ![w.device] = Append(@, [text |-> w.text, pos |-> w.pos])]
        /\ frames' = Continue(IF w.pos = Len(w.text) THEN Rest
                              ELSE <<[w EXCEPT !.pos = @ + 1]>> \o Rest)
    /\ UNCHANGED <<entry, tests, enabled, tables, locks, pic, port, decoder, environment, exit>>

LoadTables ==
    /\ \/ At("load_tss") /\ tables' = tables \cup {"tss"}
       \/ At("load_idt") /\ tables' = tables \cup {"idt"}
    /\ frames' = Continue(Rest)
    /\ UNCHANGED <<entry, tests, enabled, locks, pic, port, decoder, writer, log, environment, exit>>

\* The controllers get the kernel's vectors; what was requested before may be lost.
InitializePics ==
    /\ At("initialize_pics")
    /\ \E irr \in {{}, pic.irr} : pic' = [offset |-> PIC_1_OFFSET, irr |-> irr, isr |-> {}]
    /\ frames' = Continue(Rest)
    /\ UNCHANGED <<entry, tests, enabled, tables, locks, port, decoder, writer, log, environment, exit>>

EnableInterrupts ==
    /\ At("enable_interrupts")
    /\ enabled' = TRUE
    /\ frames' = Continue(Rest)
    /\ UNCHANGED <<entry, tests, tables, locks, pic, port, decoder, writer, log, environment, exit>>

\* An unspecific end of interrupt: it clears the most urgent line in service.
EndOfInterrupt ==
    /\ At("end_of_interrupt")
    /\ pic' = IF NextOp.vector \in PIC_1_OFFSET..(PIC_1_OFFSET + 15)
              THEN [pic EXCEPT !.isr = {line \in @ : \E other \in @ : other < line}]
              ELSE pic
    /\ frames' = Continue(Rest)
    /\ UNCHANGED <<entry, tests, enabled, tables, locks, port, decoder, writer, log, environment, exit>>

----------------------------------------------------------------------------
(* The keyboard. *)

\* What a key sends when it is pressed and let go, and what it types.
Scancodes(key) == IF key = "left" THEN <<"e0", "left", "e0", "left_up">> ELSE <<key, "up">>
Types(key) == CASE key = "enter" -> <<"\n">> [] key = "left" -> <<"L">>
                [] key = "backspace" -> <<"bs">> [] OTHER -> <<key>>

\* add_byte and process_keyevent of pc_keyboard: the text of a scancode, empty for none
Decoded(state, code) ==
    IF code \in Keys /\ (code = "left" <=> state = "extended") THEN Types(code) ELSE <<>>

\* The read empties the controller's output buffer, which takes its next byte.
ReadScancode ==
    /\ At("read_scancode") /\ port # <<>>
    /\ LET text == Decoded(decoder, Head(port))
       IN  frames' = Continue(IF text = <<>> THEN Rest ELSE println(text) \o Rest)
    /\ decoder' = IF Head(port) = "e0" THEN "extended" ELSE "start"
    /\ port' = Tail(port)
    /\ pic' = IF port' = <<>> THEN pic ELSE [pic EXCEPT !.irr = @ \cup {1}]
    /\ UNCHANGED <<entry, tests, enabled, tables, locks, writer, log, environment, exit>>

\* The harness runs without a display or a keyboard.
PressKey ==
    /\ exit = "none" /\ entry = "main" /\ Len(pressed) < MaxKeys /\ pic.offset = PIC_1_OFFSET
    /\ \E key \in Keys :
        /\ pressed' = Append(pressed, key)
        /\ port' = port \o Scancodes(key)
    /\ pic' = IF port = <<>> THEN [pic EXCEPT !.irr = @ \cup {1}] ELSE pic
    /\ UNCHANGED <<entry, tests, frames, enabled, tables, locks, decoder, writer, log, ticks, exit>>

Tick ==
    /\ exit = "none" /\ ticks < MaxTicks
    /\ ticks' = ticks + 1
    /\ pic' = [pic EXCEPT !.irr = @ \cup {0}]
    /\ UNCHANGED <<entry, tests, frames, enabled, tables, locks, port, decoder, writer, log, pressed, exit>>

----------------------------------------------------------------------------
(* Interrupts, exceptions, and how the machine is left. *)

\* The processor enters a handler through its gate, with interrupts off.  A vector
\* without one is a double fault; a double fault that cannot be entered resets.
Enter(vector, below, stack_is_full) ==
    LET gate == IF vector \in DOMAIN IDT THEN vector ELSE DOUBLE_FAULT
        entered == /\ "idt" \in tables
                   /\ gate \in OnOwnStack => "tss" \in tables
                   /\ stack_is_full => gate \in OnOwnStack
    IN  IF entered
        THEN /\ frames' = Append(below, [todo |-> IDT[gate], flags |-> enabled, saved |-> FALSE])
             /\ enabled' = FALSE /\ exit' = exit
        ELSE exit' = "reset" /\ UNCHANGED <<frames, enabled>>

Interrupt(line) ==
    /\ exit = "none" /\ enabled
    /\ line \in pic.irr /\ \A other \in pic.isr \cup (pic.irr \ {line}) : line < other
    /\ pic' = [pic EXCEPT !.irr = @ \ {line}, !.isr = @ \cup {line}]
    /\ Enter(pic.offset + line, frames, FALSE)
    /\ UNCHANGED <<entry, tests, tables, locks, port, decoder, writer, log, environment>>

Except ==
    /\ \/ At("int3") /\ Enter(BREAKPOINT, Continue(Rest), FALSE)
       \/ At("overflow_stack") /\ Enter(14, Continue(Rest), TRUE)
    /\ UNCHANGED <<entry, tests, tables, locks, pic, port, decoder, writer, log, environment>>

ReturnFromInterrupt ==
    /\ exit = "none" /\ Len(frames) > 1 /\ Top.todo = <<>>
    /\ frames' = Front(frames)
    /\ enabled' = Top.flags
    /\ UNCHANGED <<entry, tests, tables, locks, pic, port, decoder, writer, log, environment, exit>>

\* A panic does not unwind: the locks its frame holds stay held.
Panic ==
    /\ At("panic")
    /\ frames' = Continue(panic)
    /\ UNCHANGED <<entry, tests, enabled, tables, locks, pic, port, decoder, writer, log, environment, exit>>

\* The assertion on the row above the last, made with the writer's lock held.
AssertRow ==
    /\ At("assert_row")
    /\ frames' = Continue(IF writer.chars[BUFFER_HEIGHT - 1][1].ascii_character = NextOp.char
                          THEN Rest ELSE panic)
    /\ UNCHANGED <<entry, tests, enabled, tables, locks, pic, port, decoder, writer, log, environment, exit>>

RunTests ==
    /\ At("for_test")
    /\ frames' = Continue(for_test(NextOp.suite) \o Rest)
    /\ UNCHANGED <<entry, tests, enabled, tables, locks, pic, port, decoder, writer, log, environment, exit>>

ExitQemu ==
    /\ At("exit")
    /\ exit' = NextOp.code
    /\ UNCHANGED <<entry, tests, frames, enabled, tables, locks, pic, port, decoder, writer, log, environment>>

Execute ==
    \/ WithoutInterrupts \/ RestoreInterrupts \/ Acquire \/ Release \/ WriteOne
    \/ LoadTables \/ InitializePics \/ EnableInterrupts \/ EndOfInterrupt
    \/ ReadScancode \/ Except \/ ReturnFromInterrupt \/ Panic \/ AssertRow \/ RunTests \/ ExitQemu

Next == Execute \/ (\E line \in {0, 1} : Interrupt(line)) \/ Tick \/ PressKey

\* The processor runs, and takes an interrupt it may take.
Fairness == WF_vars(Execute) /\ \A line \in {0, 1} : WF_vars(Interrupt(line))

Spec == Init /\ [][Next]_vars /\ Fairness

----------------------------------------------------------------------------
(* Properties. *)

Bytes(entries) == [i \in DOMAIN entries |-> entries[i].text[entries[i].pos]]

\* Every message begins at its first byte, after the last byte of another, and goes
\* on with the byte that follows.
WholeMessages(entries) ==
    \A i \in DOMAIN entries :
        LET this == entries[i] IN
            IF i = 1 \/ this.pos = 1
            THEN this.pos = 1 /\ (i > 1 => entries[i - 1].pos = Len(entries[i - 1].text))
            ELSE entries[i - 1] = [this EXCEPT !.pos = @ - 1]

\* No message is broken up by another, whoever interrupts whom, and the buffer
\* that write_byte, new_line and clear_row leave, row by row, is the end of the
\* text written so far (vga_buffer.rs:70-120, 153-155; serial.rs:18-23).
ScreenShowsWholeMessages ==
    /\ \A device \in DOMAIN log : WholeMessages(log[device])
    /\ writer.chars = Screen(Bytes(log.WRITER))

\* On one processor a lock found taken is held by the frame itself or by one it
\* interrupted, so whoever spins spins for ever; and no interrupt or exception
\* comes before its handler and its stack are in place (lib.rs:14-21,
\* interrupts.rs:31-44, vga_buffer.rs:153, serial.rs:17).
NeverWedged ==
    /\ ~(At("lock") /\ NextOp.lock \in locks)
    /\ exit # "reset"

\* The host has read the first n tests' names, each followed by its success.
Passed(said, n) ==
    /\ said[1] = "Running"
    /\ \A i \in 1..n : said[2 * i] = tests[i] /\ said[2 * i + 1] = "[ok]"

\* What the harness says: success only when every test was run and none fails,
\* and failure only at the first one that does, after which nothing is run
\* (lib.rs:44-57).
VerdictIsTrue ==
    LET said == Bytes(log.SERIAL1)
        failing == {i \in DOMAIN tests : tests[i] \in Failing}
    IN  /\ exit = "Success" =>
            failing = {} /\ Len(said) = 2 * Len(tests) + 1 /\ Passed(said, Len(tests))
        /\ exit = "Failed" => \E i \in failing :
                /\ \A j \in failing : i <= j
                /\ Len(said) = 2 * i + 2 /\ Passed(said, i - 1)
                /\ said[2 * i] = tests[i] /\ said[2 * i + 1] = "[failed]" /\ said[2 * i + 2] = "Error"

\* The program comes to its end: a test run leaves the machine, and the kernel
\* halts having answered every tick, and having typed every key once and in
\* order, although the keyboard's handler signals the end of the timer's
\* interrupt (interrupts.rs:46-86).
Typed == SelectSeq(log.WRITER, LAMBDA b : b.pos = 1 /\ \E key \in Keys : b.text = Types(key))
EverythingIsAnswered ==
    IF entry = "main"
    THEN <>[](/\ Top.todo = hlt_loop /\ pic.irr = {}
              /\ [i \in DOMAIN Typed |-> Typed[i].text] = [i \in DOMAIN pressed |-> Types(pressed[i])])
    ELSE <>(exit \in {"Success", "Failed"})
=============================================================================
