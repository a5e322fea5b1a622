----------------------------- MODULE VgaBuffer -----------------------------
(***************************************************************************)
(* The kernel's text screen: Writer of src/Rust/os/src/vga_buffer.rs.      *)
(* A writer is a record of the struct's changing fields; the methods are   *)
(* operators from a writer to the writer they leave.  A byte is a string;  *)
(* rows and columns count from 1.                                          *)
(***************************************************************************)
EXTENDS Integers, Sequences, SequencesExt

CONSTANTS BUFFER_HEIGHT, BUFFER_WIDTH,
          Printable     \* the bytes 0x20..=0x7e of the instance

ASSUME BufferAssumption ==
    BUFFER_HEIGHT \in Nat \ {0} /\ BUFFER_WIDTH \in Nat \ {0}

\* The colours in use, of the sixteen.
Color == [Black |-> 0, LightGray |-> 7, Yellow |-> 14]

\* (background << 4) | foreground, both below 16
ColorCode(foreground, background) == background * 16 + foreground

\* The kernel writes in one colour only.
color_code == ColorCode(Color.Yellow, Color.Black)

ScreenChar(byte, code) == [ascii_character |-> byte, color_code |-> code]
Blank == ScreenChar(" ", color_code)

Rows == 1..BUFFER_HEIGHT
Columns == 1..BUFFER_WIDTH

\* What firmware and bootloader left on the screen.
BootChar == ScreenChar("boot", ColorCode(Color.LightGray, Color.Black))

\* WRITER: column 0, the buffer as it is found at 0xb8000.
NewWriter ==
    [column_position |-> 0, chars |-> [row \in Rows |-> [col \in Columns |-> BootChar]]]

ClearRow(w, row) ==
    [w EXCEPT !.chars[row] = [col \in Columns |-> Blank]]

\* Every row moves up by one, the last is cleared.
NewLine(w) ==
    LET scrolled == [w EXCEPT !.chars =
                        [row \in Rows |-> @[IF row < BUFFER_HEIGHT THEN row + 1 ELSE row]]]
    IN  [ClearRow(scrolled, BUFFER_HEIGHT) EXCEPT !.column_position = 0]

\* A fault: a full row stays until its newline comes, the next bytes go nowhere.
WriteByteClipped(w, byte) ==
    IF byte = "\n" THEN NewLine(w)
    ELSE IF w.column_position >= BUFFER_WIDTH THEN w
    ELSE [w EXCEPT !.chars[BUFFER_HEIGHT][w.column_position + 1] = ScreenChar(byte, color_code),
                   !.column_position = @ + 1]

\* A full row is left only when the next byte needs room.
WriteByte(w, byte) ==
    IF byte = "\n" THEN NewLine(w)
    ELSE LET v == IF w.column_position >= BUFFER_WIDTH THEN NewLine(w) ELSE w
         IN  [v EXCEPT !.chars[BUFFER_HEIGHT][v.column_position + 1] = ScreenChar(byte, color_code),
                       !.column_position = @ + 1]

\* What is written for a byte that is neither printable ASCII nor newline.
Shown(byte) == IF byte \in Printable \cup {"\n"} THEN byte ELSE "fe"

\* write_string, one byte of it
WriteStringByte(w, byte) == WriteByte(w, Shown(byte))

----------------------------------------------------------------------------
(* The screen as a reader sees it, without rows that move: text is a list  *)
(* of lines, broken at newlines and when a line is full, and the screen is *)
(* its end.  The first line is written over what the bootloader left.      *)

AddToLines(lines, byte) ==
    LET line == Last(lines)
    IN  CASE byte = "\n" -> Append(lines, <<>>)
          [] byte # "\n" /\ Len(line) = BUFFER_WIDTH -> Append(lines, <<Shown(byte)>>)
          [] OTHER -> [lines EXCEPT ![Len(lines)] = Append(line, Shown(byte))]

\* The lines after all the bytes; lines[n] is what they are after n of them.
Lines(bytes) ==
    LET lines[n \in 0..Len(bytes)] ==
            IF n = 0 THEN <<<<>>>> ELSE AddToLines(lines[n - 1], bytes[n])
    IN  lines[Len(bytes)]

Screen(bytes) ==
    LET lines == Lines(bytes)
        index(row) == Len(lines) - (BUFFER_HEIGHT - row)
    IN  [row \in Rows |-> [col \in Columns |->
            IF index(row) >= 1 /\ col <= Len(lines[index(row)])
            THEN ScreenChar(lines[index(row)][col], color_code)
            ELSE IF index(row) > 1 THEN Blank ELSE BootChar]]
=============================================================================
