------------------------------ MODULE MCScreen ------------------------------
(***************************************************************************)
(* Two users of the screen crate: the firmware, and a program that writes  *)
(* text of any length on any row of a panel at either address.             *)
(***************************************************************************)
EXTENDS ScreenFirmware

CONSTANTS
    Rows, Lengths,          \* the rows and the lengths that a program writes
    MaxBoxes, MaxFlushes    \* bounds on the texts on its screen and on its flushes

ASSUME ProgramAssumption == Rows \subseteq Nat /\ Lengths \subseteq Nat

VARIABLES
    user,
    centred,   \* the boxes that were drawn with centered
    flushes    \* how often the program flushed

MCvars == <<firmware_vars, user, centred, flushes>>

ProgramInit ==
    /\ ScreenInit
    /\ pc = "boot" /\ now = 0 /\ boot = 0 /\ started = 0 /\ secs = 0 /\ frames = 0 /\ watched = 0

MCInit ==
    /\ user \in {"firmware", "program"}
    /\ IF user = "firmware" THEN FirmwareInit ELSE ProgramInit
    /\ centred = {}
    /\ flushes = 0

\* Screen::new and Screen::with_address
Open ==
    /\ pc = "boot"
    /\ \E wanted \in {DEFAULT_ADDRESS, ALTERNATE_ADDRESS} : build(wanted)
    /\ pc' = "idle"
    /\ UNCHANGED <<clock, centred, flushes>>

Draw(box) ==
    /\ framebuffer' = framebuffer \cup {box}
    /\ Cardinality(framebuffer') <= MaxBoxes
    /\ UNCHANGED <<strap, address, panel, page, pc, clock, flushes>>

Idle == pc = "idle" /\ page = PAGES

Line == Idle /\ \E row \in Rows, n \in Lengths : Draw(line(row, Text("text", n), n)) /\ UNCHANGED centred

Centered ==
    /\ Idle
    /\ \E row \in Rows, n \in Lengths :
         LET box == centered(row, Text("centred", n), n)
         IN  Draw(box) /\ centred' = centred \cup {box}

\* Screen::clear
Clear ==
    /\ Idle
    /\ framebuffer' = {} /\ centred' = {}
    /\ UNCHANGED <<strap, address, panel, page, pc, clock, flushes>>

Flush ==
    /\ Idle /\ flushes < MaxFlushes
    /\ begin_flush
    /\ flushes' = flushes + 1
    /\ UNCHANGED <<strap, address, framebuffer, panel, pc, clock, centred>>

Program ==
    \/ Open \/ Line \/ Centered \/ Clear \/ Flush
    \/ (SendPage \/ FlushFails) /\ UNCHANGED <<pc, clock, centred, flushes>>

MCNext ==
    /\ \/ user = "firmware" /\ FirmwareNext /\ UNCHANGED <<centred, flushes>>
       \/ user = "program" /\ Program
    /\ UNCHANGED user

MCSpec == MCInit /\ [][MCNext]_MCvars

\* The panel tells the truth, for both users: the text that a program draws is on the
\* panel, the firmware's frames are whole between two flushes, and they tell the time.
PanelIsTrue ==
    /\ user = "program" => TextIsOnThePanel(framebuffer, LAMBDA box : box \in centred)
    /\ user = "firmware" => FramesAreWhole /\ ClockIsRight
=============================================================================
