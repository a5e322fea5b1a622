--------------------------- MODULE ScreenFirmware ---------------------------
(***************************************************************************)
(* The screen's firmware (firmware/src/bin/main.rs): a splash, and then a  *)
(* frame a second with the uptime and a count of the frames.  Time passes  *)
(* in the flushes and the waits; a unit of it is half a second.            *)
(***************************************************************************)
EXTENDS Screen, Sequences

CONSTANTS
  BufBytes,  \* bytes of the text buffer
  Starts,    \* uptimes from which the program is watched, 0 for the boot
  MaxTicks   \* bound on the time it is watched

ASSUME FirmwareAssumption == BufBytes \in Nat /\ BufBytes >= 17 /\ Starts \subseteq Nat /\ MaxTicks \in Nat

VARIABLES
  pc,
  now,           \* the time
  boot,          \* when the splash was up
  started,       \* when the frame was begun
  secs, frames,  \* the uptime and the count it shows
  watched        \* the time at which watching it began

clock == <<now, boot, started, secs, frames, watched>>
firmware_vars == <<screen, pc, clock>>

SECOND == 2
SPLASH == 3
TICK == 2

-----------------------------------------------------------------------------
(* Buf: text that is formatted into BufBytes bytes. *)

NewBuf == [chars |-> 0, len |-> 0]

\* A character as many bytes wide is written, unless one before it did not fit.
Written(buf, width) ==
  IF buf.full \/ buf.len + width > BufBytes THEN [buf EXCEPT !.full = TRUE]
  ELSE [chars |-> buf.chars + 1, len |-> buf.len + width, full |-> FALSE]

\* Write::write_str: the buffer after each of the characters.
write_str(buf, widths) ==
  LET after[i \in 0 .. Len(widths)] ==
        IF i = 0 THEN [chars |-> buf.chars, len |-> buf.len, full |-> FALSE]
        ELSE Written(after[i - 1], widths[i])
  IN  after

Ascii(n) == [i \in 1 .. n |-> 1]

\* How many characters a new buffer has of so many.
Formatted(n) == write_str(NewBuf, Ascii(n))[n].chars

\* The number of decimal digits, of a number with ten of them at most.
Tens == <<10, 100, 1000, 10000, 100000, 1000000, 10000000, 100000000, 1000000000>>
Digits(n) == 1 + Cardinality({d \in 1 .. 9 : n >= Tens[d]})

\* How many characters of "{:02}:{:02}" and of "frames {}" are in the buffer.
UptimeChars(s) ==
  Formatted((IF s \div 60 < 10 THEN 2 ELSE Digits(s \div 60)) + 3)
CountChars(n) == Formatted(7 + Digits(n))

-----------------------------------------------------------------------------
(* What is drawn. *)

Splash == {centered(1, Text("GME12864", 0), 8), centered(3, Text("SSD1306 128x64", 0), 14)}

Border == [text |-> Text("border", 0), x |-> 0, y |-> 0, w |-> WIDTH, h |-> HEIGHT]

\* Integer division rounds towards zero.
Halved(n) == IF n >= 0 THEN n \div 2 ELSE -((-n) \div 2)

\* The uptime is in a larger font, and centred by hand.
Uptime(s) ==
  LET width == UptimeChars(s) * 9
  IN  [text |-> Text("uptime", s), x |-> Halved(WIDTH - width), y |-> 22, w |-> width, h |-> 18]

Count(n) == centered(5, Text("frames", n), CountChars(n))

Frame(s, n) == {Border, centered(0, Text("ESP32-S3 OLED", 0), 13), Uptime(s), Count(n)}

-----------------------------------------------------------------------------
\* The boot, or the wait after a frame when every frame so far was on time.
BootInit == ScreenInit /\ pc = "boot" /\ now = 0 /\ boot = 0 /\ started = 0 /\ secs = 0 /\ frames = 0

RunningInit(s) ==
  /\ strap = DEFAULT_ADDRESS /\ address = DEFAULT_ADDRESS
  /\ framebuffer = Frame(s, s)
  /\ panel = [p \in 0 .. PAGES - 1 |-> framebuffer]
  /\ page = PAGES
  /\ pc = "wait"
  /\ boot = 0 /\ started = SPLASH + (s - 1) * TICK /\ now = started
  /\ secs = s /\ frames = s

FirmwareInit ==
  /\ \E s \in Starts : IF s = 0 THEN BootInit ELSE RunningInit(s)
  /\ watched = now

Tick ==
  /\ now < watched + MaxTicks
  /\ now' = now + 1
  /\ UNCHANGED <<screen, pc, boot, started, secs, frames, watched>>

\* Screen::new
New ==
  /\ pc = "boot"
  /\ build(DEFAULT_ADDRESS)
  /\ pc' = "blank"
  /\ UNCHANGED clock

\* Nothing answers at the address: the expect panics, as it does when a flush fails.
NoDisplay ==
  /\ pc = "boot"
  /\ address' = DEFAULT_ADDRESS
  /\ pc' = "panicked"
  /\ UNCHANGED <<strap, framebuffer, panel, page, clock>>

Panic ==
  /\ FlushFails
  /\ pc' = "panicked"
  /\ UNCHANGED clock

ShowSplash ==
  /\ pc = "blank" /\ page = PAGES
  /\ framebuffer' = Splash
  /\ begin_flush
  /\ pc' = "splash"
  /\ UNCHANGED <<strap, address, panel, clock>>

SplashShown ==
  /\ pc = "splash" /\ page = PAGES
  /\ boot' = now
  /\ pc' = "pause"
  /\ UNCHANGED <<screen, now, started, secs, frames, watched>>

Due == \/ pc = "pause" /\ now >= boot + SPLASH
       \/ pc = "wait" /\ now >= started + TICK

\* A fault: the framebuffer is not cleared.
DrawnOver(boxes) == framebuffer \cup boxes

\* screen.clear(), and what is drawn then
Drawn(boxes) == boxes

DrawFrame ==
  /\ Due
  /\ started' = now
  /\ secs' = (now - boot) \div SECOND
  /\ frames' = frames + 1
  /\ framebuffer' = Drawn(Frame(secs', frames'))
  /\ begin_flush
  /\ pc' = "flush"
  /\ UNCHANGED <<strap, address, panel, now, boot, watched>>

FrameShown ==
  /\ pc = "flush" /\ page = PAGES
  /\ pc' = "wait"
  /\ UNCHANGED <<screen, clock>>

Send ==
  /\ pc # "panicked"
  /\ SendPage
  /\ UNCHANGED <<pc, clock>>

FirmwareNext ==
  Tick \/ New \/ NoDisplay \/ Panic \/ ShowSplash \/ SplashShown \/ DrawFrame \/ FrameShown \/ Send

-----------------------------------------------------------------------------
Apart(a, b) ==
  a.x + a.w <= b.x \/ b.x + b.w <= a.x \/ a.y + a.h <= b.y \/ b.y + b.h <= a.y

Shown == panel[0] \cup UNION {panel[p] : p \in 1 .. PAGES - 1}

\* Between two flushes the panel shows one frame, and no page of the one before it.
FramesAreWhole ==
  pc \in {"pause", "wait"} => \A p \in DOMAIN panel : panel[p] = framebuffer

\* The frame that is shown has the uptime and the count in full, and only the latest:
\* they are legible, apart from each other and inside the border, whatever their
\* length, and there has been no more than one frame for a second of uptime
\* (main.rs:131-185).
ClockIsRight ==
  pc = "wait" =>
    LET texts == Shown \ {Border} IN
    /\ Uptime(secs) \in texts /\ Count(frames) \in texts /\ Cardinality(texts) = 3
    /\ UptimeChars(secs) = Digits(secs \div 60) + (IF secs < 600 THEN 4 ELSE 3)
    /\ CountChars(frames) = 7 + Digits(frames)
    /\ \A a, b \in texts : a # b => Apart(a, b)
    /\ TextIsOnThePanel(texts, LAMBDA box : TRUE)
    /\ frames <= secs /\ now - boot >= secs * SECOND
=============================================================================
