------------------------------- MODULE Screen -------------------------------
(***************************************************************************)
(* The oled-screen crate: where text goes (layout.rs), and the Screen that *)
(* draws into a framebuffer and pushes it to the panel (screen.rs).        *)
(*                                                                         *)
(* What is drawn is a set of boxes, each with the text it shows.  The      *)
(* SSD1306 and its driver are external: a panel acknowledges its own       *)
(* address, keeps in its memory what was last sent to each of its pages,   *)
(* and any transfer may fail.                                              *)
(***************************************************************************)
EXTENDS Integers, FiniteSets

CONSTANT USIZE_MAX   \* the largest usize

ASSUME ScreenAssumption == USIZE_MAX \in Nat /\ USIZE_MAX >= 65535

VARIABLES
  strap,        \* the address of the panel, 0 when there is none
  address,      \* the address the driver talks to
  framebuffer,  \* what has been drawn
  panel,        \* what each page of the panel shows
  page          \* the next page that flush sends

screen == <<strap, address, framebuffer, panel, page>>

-----------------------------------------------------------------------------
(* layout.rs *)

WIDTH == 128
HEIGHT == 64
CHAR_W == 6
CHAR_H == 10
ROWS == HEIGHT \div CHAR_H

Lesser(x, y) == IF x <= y THEN x ELSE y

\* Rows past the bottom are clamped to the last one.
row_y(row) == Lesser(row, ROWS - 1) * CHAR_H

saturating_mul(a, b) == Lesser(a * b, USIZE_MAX)

\* Text wider than the panel is pinned to the left edge.
centered_x(chars) ==
  LET text_w == saturating_mul(chars, CHAR_W)
  IN  IF text_w >= WIDTH THEN 0 ELSE (WIDTH - text_w) \div 2

-----------------------------------------------------------------------------
(* screen.rs *)

DEFAULT_ADDRESS == 60
ALTERNATE_ADDRESS == 61
PAGES == HEIGHT \div 8

Text(what, n) == [what |-> what, n |-> n]   \* a label, and the number it shows

\* text_at: text of so many characters, from its top left corner.
Box(text, chars, x, y) == [text |-> text, x |-> x, y |-> y, w |-> chars * CHAR_W, h |-> CHAR_H]

\* What a panel shows that nobody has written to.
Confetti == {Box(Text("confetti", 0), 21, 0, 0)}

\* Screen::line and Screen::centered
line(row, text, chars) == Box(text, chars, 0, row_y(row))
centered(row, text, chars) == Box(text, chars, centered_x(chars), row_y(row))

ScreenInit ==
  /\ strap \in {0, DEFAULT_ADDRESS, ALTERNATE_ADDRESS}
  /\ address = 0
  /\ framebuffer = {}
  /\ panel = [p \in 0 .. PAGES - 1 |-> Confetti]
  /\ page = PAGES

Acknowledged == strap = address /\ strap # 0

\* Screen::build, as far as the blank that it flushes.
build(wanted) ==
  /\ address' = wanted
  /\ strap = wanted
  /\ framebuffer' = {}
  /\ page' = 0
  /\ UNCHANGED <<strap, panel>>

\* Screen::flush: the pages go out one after another.
begin_flush == page' = 0

SendPage ==
  /\ page < PAGES /\ Acknowledged
  /\ panel' = [panel EXCEPT ![page] = framebuffer]
  /\ page' = page + 1
  /\ UNCHANGED <<strap, address, framebuffer>>

\* A transfer is not acknowledged, and the rest is not sent.
FlushFails ==
  /\ page < PAGES
  /\ page' = PAGES
  /\ UNCHANGED <<strap, address, framebuffer, panel>>

-----------------------------------------------------------------------------
\* Text cannot vanish off the panel: whatever row it is drawn on it is between the
\* panel's edges, as much of it as fits, and it is centred to a pixel
\* (layout.rs:20-43).
TextIsOnThePanel(boxes, IsCentered(_)) ==
  \A box \in boxes :
    /\ box.y >= 0 /\ box.y + box.h <= HEIGHT
    /\ box.x >= 0
    /\ box.w <= WIDTH => box.x + box.w <= WIDTH
    /\ box.w > WIDTH => box.x = 0
    /\ IsCentered(box) /\ box.w <= WIDTH => (WIDTH - box.w) - 2 * box.x \in {0, 1}
=============================================================================
