------------------------------- MODULE Console -------------------------------
(***************************************************************************)
(* The text screen (video.cpp of the loader and of the kernel): Video::    *)
(* Write puts characters at a position that consists of a column, a row    *)
(* and a pointer to the row's first cell, and scrolls.                     *)
(*                                                                         *)
(* The two programs have the same text and two differences.  Scroll copies *)
(* with memcpy, and the kernel's copies a number of bytes that is not      *)
(* initialised (see LibC).  And in the kernel an exception can interrupt   *)
(* Out between any two of its assignments to the position; isr_handler     *)
(* then prints with the same variables, and never returns.  (In Scroll,    *)
(* which assigns csr_y last, one step stands for the copying.)             *)
(*                                                                         *)
(* Colours are left out, and of the characters only the printable ones are *)
(* told apart.                                                             *)
(***************************************************************************)
EXTENDS Integers, Sequences

CONSTANTS
  Width, Height,   \* 80 and 25
  Tab,             \* 8
  Letters,         \* printable characters
  Blank,
  MaxGone          \* bound on lines that scroll off the screen

Columns == 0 .. (Width - 1)
Rows == 0 .. (Height - 1)
BlankLine == [x \in Columns |-> Blank]

ASSUME ScreenAssumption ==
  /\ Width \in Nat \ {0} /\ Height \in Nat \ {0}
  /\ Tab \in Nat \ {0} /\ Width % Tab = 0
  /\ Blank \notin Letters

VARIABLES
  program,         \* "loader" or "kernel"
  screen,          \* VGA memory, row by row
  csr_x, csr_y,
  lineptr,         \* the row it points to
  cursor,          \* where the hardware cursor blinks
  at,              \* where in the code the writer is
  dumping,         \* an exception is being reported
  gone             \* history: the lines that scrolled off

position == <<csr_x, csr_y, lineptr>>
vars == <<program, screen, position, cursor, at, dumping, gone>>

Places == {"caller", "out", "wrap", "scroll", "line"}

TypeOK ==
  /\ program \in {"loader", "kernel"}
  /\ screen \in [Rows -> [Columns -> Letters \cup {Blank}]]
  /\ csr_x \in 0 .. Width
  /\ csr_y \in 0 .. (Height + 1)
  /\ lineptr \in Rows
  /\ cursor \in 0 .. (Width * (Height + 2))
  /\ at \in Places
  /\ dumping \in BOOLEAN
  /\ gone \in Seq([Columns -> Letters \cup {Blank}])

(* Video::Install, in boot or at the start of kmain. *)
Init ==
  /\ program \in {"loader", "kernel"}
  /\ screen = [y \in Rows |-> BlankLine]
  /\ csr_x = 0 /\ csr_y = 0 /\ lineptr = 0
  /\ cursor = 0
  /\ at = "caller"
  /\ dumping = FALSE
  /\ gone = <<>>

-----------------------------------------------------------------------------

Goto(here, there) == at = here /\ at' = there /\ UNCHANGED program

(* Video::Write: a string of characters, then the cursor. *)
Write ==
  /\ Goto("caller", "out")
  /\ UNCHANGED <<screen, position, cursor, dumping, gone>>

MoveCursor ==
  /\ Goto("out", "caller")
  /\ cursor' = csr_y * Width + csr_x
  /\ UNCHANGED <<screen, position, dumping, gone>>

(* Out, for each kind of character; "wrap" is the test at its end. *)
OutLetter(c) ==
  /\ Goto("out", "wrap")
  /\ screen' = [screen EXCEPT ![lineptr][csr_x] = c]
  /\ csr_x' = csr_x + 1
  /\ UNCHANGED <<csr_y, lineptr, cursor, dumping, gone>>

Backspace ==
  /\ Goto("out", "wrap")
  /\ csr_x' = IF csr_x = 0 THEN 0 ELSE csr_x - 1
  /\ UNCHANGED <<screen, csr_y, lineptr, cursor, dumping, gone>>

(* Mutant of TabStop: past the end of the line. *)
TabStopFar == csr_x + Tab

TabStop == Tab * ((csr_x + Tab) \div Tab)

OutTab ==
  /\ Goto("out", "wrap")
  /\ csr_x' = TabStop
  /\ UNCHANGED <<screen, csr_y, lineptr, cursor, dumping, gone>>

Return ==
  /\ Goto("out", "wrap")
  /\ csr_x' = 0
  /\ UNCHANGED <<screen, csr_y, lineptr, cursor, dumping, gone>>

(* Other characters print nothing. *)
Ignored ==
  /\ Goto("out", "wrap")
  /\ UNCHANGED <<screen, position, cursor, dumping, gone>>

(* A new line, for '\n' and at the end of a line, takes three steps: the    *)
(* row is counted, ...                                                      *)
CountRow ==
  /\ csr_x' = 0
  /\ csr_y' = csr_y + 1
  /\ at' = "scroll"
  /\ UNCHANGED <<program, screen, lineptr, cursor, dumping, gone>>

NewLine == at = "out" /\ CountRow

Wrap ==
  /\ at = "wrap"
  /\ IF csr_x >= Width THEN CountRow
     ELSE at' = "out" /\ UNCHANGED <<program, screen, position, cursor, dumping, gone>>

(* How many lines too far the position is, and the cells that move up then. *)
Exceeded == csr_y - Height + 1
CellsBelow == Width * (Height - Exceeded)

(* The screen when so many cells have moved up, the first ones first. *)
MovedUp(cells) ==
  [y \in Rows |-> [x \in Columns |->
     IF y * Width + x < cells THEN screen[y + Exceeded][x] ELSE screen[y][x]]]

Forget == gone' = gone \o [k \in 1 .. Exceeded |-> screen[k - 1]]

(* Mutants of ScrollUp: the new line is not cleared; the position stays one *)
(* line too far.                                                            *)
ScrollUncleared(cells) ==
  /\ Len(gone) + Exceeded <= MaxGone /\ Forget
  /\ screen' = MovedUp(cells)
  /\ csr_y' = Height - 1

ScrollByOne(cells) ==
  /\ Len(gone) + Exceeded <= MaxGone /\ Forget
  /\ screen' = [MovedUp(cells) EXCEPT ![Height - Exceeded] = BlankLine]
  /\ csr_y' = csr_y - 1

(* ... the lines move up, as far as the last row is exceeded, and one line  *)
(* is cleared, ...                                                          *)
ScrollUp(cells) ==
  /\ Len(gone) + Exceeded <= MaxGone /\ Forget
  /\ screen' = [MovedUp(cells) EXCEPT ![Height - Exceeded] = BlankLine]
  /\ csr_y' = Height - 1

(* Mutant of LoaderScroll: the last of the lines that stay is not copied. *)
LoaderScrollLess ==
  /\ program = "loader" /\ Goto("scroll", "line")
  /\ IF csr_y < Height THEN UNCHANGED <<screen, csr_y, gone>> ELSE ScrollUp(CellsBelow - Width)
  /\ UNCHANGED <<csr_x, lineptr, cursor, dumping>>

LoaderScroll ==
  /\ program = "loader" /\ Goto("scroll", "line")
  /\ IF csr_y < Height THEN UNCHANGED <<screen, csr_y, gone>> ELSE ScrollUp(CellsBelow)
  /\ UNCHANGED <<csr_x, lineptr, cursor, dumping>>

(* (If more is copied than asked for, what lies above the screen comes into *)
(* the lines below, of which the first is cleared.)                         *)
KernelScroll ==
  /\ program = "kernel" /\ Goto("scroll", "line")
  /\ IF csr_y < Height THEN UNCHANGED <<screen, csr_y, gone>>
     ELSE \E cells \in 0 .. CellsBelow : ScrollUp(cells)
  /\ UNCHANGED <<csr_x, lineptr, cursor, dumping>>

(* ... and the pointer follows.  After '\n' Out tests the column in vain.   *)
SetLine ==
  /\ Goto("line", "out")
  /\ lineptr' = csr_y
  /\ UNCHANGED <<screen, csr_x, csr_y, cursor, dumping, gone>>

Character ==
  \/ \E c \in Letters : OutLetter(c)
  \/ Backspace \/ OutTab \/ Return \/ NewLine \/ Ignored
  \/ Wrap \/ SetLine

(* isr_handler; its first character is a '\n'. *)
Exception ==
  /\ program = "kernel" /\ ~dumping
  /\ dumping' = TRUE
  /\ csr_x' = 0
  /\ csr_y' = csr_y + 1
  /\ at' = "scroll"
  /\ UNCHANGED <<program, screen, lineptr, cursor, gone>>

LoaderOut == LoaderScroll \/ (program = "loader" /\ Character)
KernelOut == KernelScroll \/ (program = "kernel" /\ Character)

Next == Write \/ LoaderOut \/ KernelOut \/ MoveCursor \/ Exception

Spec == Init /\ [][Next]_vars

-----------------------------------------------------------------------------

(* When no character is being put out, the three parts of the position      *)
(* agree and lie on the screen; they do after an exception has printed its  *)
(* first character, too, whatever it interrupted.                           *)
PositionSound ==
  at \in {"caller", "out"} => csr_y \in Rows /\ lineptr = csr_y /\ csr_x \in Columns

(* In either program, however little of the screen was moved, the line that *)
(* is written to next is blank.                                             *)
NewLineIsBlank == (at = "line" /\ ~dumping) => screen[csr_y] = BlankLine

(* The page a writer can think it writes on: the lines that are gone, and   *)
(* the screen up to the cursor's row.                                       *)
Page == gone \o [k \in 1 .. (IF csr_y < Height THEN csr_y + 1 ELSE Height) |-> screen[k - 1]]

Paper == INSTANCE Teletype WITH page <- Page, column <- csr_x

(* In the loader, scrolling, wrapping and the row pointer that is kept      *)
(* beside the row do not lose, repeat or misplace a character: the screen   *)
(* and the lines that are gone are a teletype's page.                       *)
ActsAsTeletype ==
  Paper!Init /\ [][program = "loader" => [Paper!Next]_(Paper!vars)]_vars
=============================================================================
