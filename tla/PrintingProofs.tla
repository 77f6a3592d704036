---------------------------- MODULE PrintingProofs ----------------------------
(***************************************************************************)
(* Proofs about what the programs print with.  The screen, of every size:  *)
(* the three parts of the position agree whenever no new line is under     *)
(* way, whatever an exception interrupted; the row that is written to next *)
(* is blank, however much of the screen Scroll moves; and the loader's     *)
(* screen is a teletype's page.  The library, for blocks and strings of    *)
(* every length: what it copies, fills and compares is what it was asked.  *)
(* And all that prints, with what PrintfProofs says of printf.             *)
(***************************************************************************)
EXTENDS Printing, PrintfProofs

(* Induction up to a bound, with a set in the place of the predicate. *)
LEMMA BoundedInduction ==
  ASSUME NEW N \in Nat, NEW S, 1 \in S,
         \A n \in 1 .. N : n \in S /\ n < N => n + 1 \in S
  PROVE  \A n \in 1 .. N : n \in S
<1> SUFFICES ASSUME (1 .. N) \ S # {} PROVE FALSE
  OBVIOUS
<1>1. PICK x \in (1 .. N) \ S : \A y \in (1 .. N) \ S : x <= y
  <2> DEFINE T == (1 .. N) \ S
  <2>1. T \subseteq Nat /\ T # {}
    OBVIOUS
  <2> HIDE DEF T
  <2>2. \E x \in T : \A y \in T : x <= y
    BY <2>1, LeastElement
  <2> QED
    BY <2>2 DEF T
<1>2. x # 1 /\ x - 1 \in 1 .. N
  BY <1>1
<1>3. x - 1 \in S
  BY <1>1, <1>2
<1> QED
  BY <1>1, <1>2, <1>3

-----------------------------------------------------------------------------
(* The screen.                                                              *)

(* A position off the screen is one that a new line has still to mend. *)
PositionInv ==
  /\ at \in Places
  /\ csr_x \in Nat /\ csr_y \in Nat
  /\ at \in {"caller", "out", "wrap"} => csr_y \in Rows /\ lineptr = csr_y
  /\ at \in {"caller", "out"} => csr_x < Width
  /\ at = "line" => csr_y \in Rows
  /\ at \in {"scroll", "line"} => csr_x = 0

(* Until an exception disturbs the rows, all below the cursor's are blank,  *)
(* and a new line enters at most one row too far.                           *)
Clean(first) == \A y \in Rows : y >= first => screen[y] = BlankLine

BlankInv ==
  /\ dumping \in BOOLEAN
  /\ DOMAIN screen = Rows /\ screen = [y \in Rows |-> screen[y]]
  /\ ~dumping =>
       /\ at \in {"caller", "out", "wrap"} => Clean(csr_y + 1)
       /\ at \in {"scroll", "line"} => Clean(csr_y)
       /\ csr_y <= Height

IInv == PositionInv /\ BlankInv

-----------------------------------------------------------------------------

(* A tab stop is a column. *)
LEMMA TabStopNat == ASSUME csr_x \in Nat PROVE TabStop \in Nat
<1> DEFINE q == (csr_x + Tab) \div Tab
<1>1. Tab \in Nat /\ Tab > 0
  BY ScreenAssumption
<1>2. q \in Nat
  <2>1. csr_x + Tab \in Nat
    BY <1>1
  <2> QED
    BY <1>1, <2>1, SMTT(30)
<1> HIDE DEF q
<1>3. \A m, n \in Nat : m * n \in Nat
  OBVIOUS
<1> QED
  BY <1>1, <1>2, <1>3 DEF TabStop, q

LEMMA InitInv == Init => IInv
<1> SUFFICES ASSUME Init PROVE IInv
  OBVIOUS
<1>1. Width \in Nat \ {0} /\ Height \in Nat \ {0}
  BY ScreenAssumption
<1>2. PositionInv
  BY <1>1 DEF Init, PositionInv, Places, Rows
<1>3. DOMAIN screen = Rows /\ screen = [y \in Rows |-> screen[y]]
  BY DEF Init
<1>4. Clean(csr_y + 1)
  BY DEF Init, Clean
<1>5. BlankInv
  <2>1. dumping \in BOOLEAN
    BY Zenon DEF Init
  <2>2. at = "caller" /\ csr_y <= Height
    BY <1>1 DEF Init
  <2> QED
    BY <1>3, <1>4, <2>1, <2>2 DEF BlankInv
<1> QED
  BY <1>2, <1>5 DEF IInv

(* Out between its assignments, apart from the scrolling. *)
LEMMA CharacterInv == ASSUME IInv, Character PROVE IInv'
<1> USE DEF IInv, PositionInv
<1>1. Width \in Nat \ {0} /\ Height \in Nat \ {0}
  BY ScreenAssumption
<1>2. ASSUME NEW c \in Letters, OutLetter(c) PROVE IInv'
  <2>1. PositionInv'
    BY <1>2, <1>1 DEF OutLetter, Goto, Places
  <2>2. BlankInv'
    <3>1. DOMAIN screen' = Rows /\ screen' = [y \in Rows |-> screen'[y]]
      BY <1>2 DEF OutLetter, BlankInv
    <3>2. ~dumping => Clean(csr_y + 1)'
      BY <1>2, <1>1 DEF OutLetter, Goto, BlankInv, Clean, Rows
    <3> QED
      BY <1>2, <3>1, <3>2 DEF OutLetter, Goto, BlankInv
  <2> QED
    BY <2>1, <2>2
<1>3. CASE Backspace \/ Return \/ Ignored \/ OutTab
  <2>1. csr_x' \in Nat
    BY <1>3, TabStopNat DEF Backspace, Return, Ignored, OutTab, position
  <2>2. /\ at = "out" /\ at' = "wrap"
        /\ UNCHANGED <<screen, csr_y, lineptr, dumping>>
    BY <1>3 DEF Backspace, Return, Ignored, OutTab, Goto, position
  <2> QED
    BY <2>1, <2>2 DEF Places, BlankInv, Clean
<1>4. CASE CountRow /\ at \in {"out", "wrap"}
  <2>1. PositionInv'
    BY <1>4 DEF CountRow, Places
  <2>2. csr_y + 1 <= Height
    BY <1>4, <1>1 DEF Rows
  <2>3. BlankInv'
    BY <1>4, <2>2 DEF CountRow, BlankInv, Clean
  <2> QED
    BY <2>1, <2>3
<1>5. CASE Wrap /\ csr_x < Width
  BY <1>5, <1>1 DEF Wrap, Places, position, BlankInv, Clean
<1>6. CASE SetLine
  <2>1. PositionInv'
    BY <1>6, <1>1 DEF SetLine, Goto, Places
  <2>2. BlankInv'
    BY <1>6 DEF SetLine, Goto, BlankInv, Clean, Rows
  <2> QED
    BY <2>1, <2>2
<1> QED
  BY <1>1, <1>2, <1>3, <1>4, <1>5, <1>6 DEF Character, NewLine, Wrap

(* However many cells were moved. *)
LEMMA ScrollInv ==
  ASSUME IInv, NEW cells, Goto("scroll", "line"),
         IF csr_y < Height THEN UNCHANGED <<screen, csr_y, gone>> ELSE ScrollUp(cells),
         UNCHANGED <<csr_x, lineptr, cursor, dumping>>
  PROVE  IInv'
<1> USE DEF IInv, PositionInv
<1>1. Width \in Nat \ {0} /\ Height \in Nat \ {0}
  BY ScreenAssumption
<1>2. at = "scroll" /\ at' = "line"
  BY DEF Goto
<1>3. CASE csr_y < Height
  BY <1>2, <1>3, <1>1 DEF Places, Rows, BlankInv, Clean
<1>4. CASE csr_y >= Height
  <2>1. /\ csr_y' = Height - 1
        /\ screen' = [MovedUp(cells) EXCEPT ![Height - Exceeded] = BlankLine]
    BY <1>4, <1>1 DEF ScrollUp
  <2>2. PositionInv'
    BY <1>2, <2>1, <1>1 DEF Places, Rows
  <2>3. DOMAIN screen' = Rows /\ screen' = [y \in Rows |-> screen'[y]]
    BY <2>1 DEF MovedUp
  <2>4. ASSUME ~dumping PROVE Clean(csr_y)'
    <3>1. csr_y = Height
      BY <2>4, <1>4, <1>1 DEF BlankInv
    <3>2. Height - Exceeded = Height - 1
      BY <3>1, <1>1 DEF Exceeded
    <3>3. Height - 1 \in Rows
      BY <1>1 DEF Rows
    <3>4. screen'[Height - 1] = BlankLine
      BY <2>1, <3>2, <3>3 DEF MovedUp
    <3>5. \A y \in Rows : y >= Height - 1 => y = Height - 1
      BY <1>1 DEF Rows
    <3>6. BlankLine' = BlankLine /\ Rows' = Rows
      BY DEF BlankLine, Columns, Rows
    <3> QED
      BY <2>1, <3>4, <3>5, <3>6 DEF Clean
  <2>5. BlankInv'
    BY <1>2, <2>1, <2>3, <2>4, <1>1 DEF BlankInv
  <2> QED
    BY <2>2, <2>5
<1> QED
  BY <1>1, <1>3, <1>4

LEMMA NextInv == IInv /\ [Next]_vars => IInv'
<1> SUFFICES ASSUME IInv, [Next]_vars PROVE IInv'
  OBVIOUS
<1>1. CASE Write
  BY <1>1 DEF Write, Goto, IInv, PositionInv, BlankInv, Clean, position, Places
<1>2. CASE LoaderScroll \/ KernelScroll
  BY <1>2, ScrollInv DEF LoaderScroll, KernelScroll
<1>3. CASE Character
  BY <1>3, CharacterInv
<1>4. CASE MoveCursor
  BY <1>4 DEF MoveCursor, Goto, IInv, PositionInv, BlankInv, Clean, position, Places
<1>5. CASE Exception
  BY <1>5 DEF Exception, IInv, PositionInv, BlankInv, Places
<1>6. CASE UNCHANGED vars
  BY <1>6 DEF vars, position, IInv, PositionInv, BlankInv, Clean
<1> QED
  BY <1>1, <1>2, <1>3, <1>4, <1>5, <1>6 DEF Next, LoaderOut, KernelOut

LEMMA InvAlways == Spec => []IInv
  BY InitInv, NextInv, PTL DEF Spec

-----------------------------------------------------------------------------

(* Whatever is printed, and whatever an exception interrupts to print its   *)
(* own, between two characters the column, the row and the pointer to the   *)
(* row agree and lie on the screen (Out and Scroll of video.cpp).           *)
THEOREM PositionAgrees == Spec => []PositionSound
<1>1. IInv => PositionSound
  <2>1. Width \in Nat /\ Height \in Nat
    BY ScreenAssumption
  <2> QED
    BY <2>1 DEF IInv, PositionInv, PositionSound, Columns
<1> QED
  BY <1>1, InvAlways, PTL

(* However little memcpy moves, a new line starts blank (Scroll's clearing  *)
(* of the one row that it empties is enough).                               *)
THEOREM NewLinesBlank == Spec => []NewLineIsBlank
<1>1. IInv => NewLineIsBlank
  BY DEF IInv, PositionInv, BlankInv, Clean, NewLineIsBlank, Rows
<1> QED
  BY <1>1, InvAlways, PTL

-----------------------------------------------------------------------------
(* Types.                                                                   *)

Line == [Columns -> Letters \cup {Blank}]

LEMMA Products ==
  ASSUME NEW a \in Nat, NEW b \in Nat, NEW c \in Nat
  PROVE  /\ a * b \in Nat /\ a * b = b * a
         /\ a < b => a * c + c <= b * c
<1>1. ASSUME a < b PROVE a * c + c <= b * c
  <2>1. PICK j \in Nat : b = a + 1 + j
    <3>1. b - a - 1 \in Nat /\ b = a + 1 + (b - a - 1)
      BY <1>1
    <3> QED
      BY <3>1
  <2>2. b * c = a * c + c + j * c /\ j * c >= 0
    BY <2>1
  <2> QED
    BY <2>2
<1> QED
  BY <1>1

(* A tab stop is a column, or the end of the line. *)
LEMMA TabStopFits ==
  ASSUME csr_x \in Nat, csr_x < Width
  PROVE  TabStop <= Width
<1>1. Tab \in Nat \ {0} /\ Width \in Nat \ {0} /\ Width % Tab = 0
  BY ScreenAssumption
<1> DEFINE q == (csr_x + Tab) \div Tab
           r == (csr_x + Tab) % Tab
           m == Width \div Tab
<1>2. q \in Nat /\ r \in Nat /\ csr_x + Tab = Tab * q + r
  <2>1. csr_x + Tab \in Nat
    BY <1>1
  <2> QED
    BY <1>1, <2>1, SMTT(30)
<1>3. m \in Nat /\ Width = Tab * m
  BY <1>1, SMTT(30)
<1> HIDE DEF q, r, m
<1>4. Tab * q < Tab * m + Tab /\ Tab * m = m * Tab /\ Tab * q = q * Tab
  BY <1>1, <1>2, <1>3
<1>5. q <= m
  <2>1. m < q => m * Tab + Tab <= q * Tab
    BY <1>1, <1>2, <1>3, Products
  <2>2. m * Tab \in Nat /\ q * Tab \in Nat
    BY <1>1, <1>2, <1>3, Products
  <2> QED
    BY <1>1, <1>2, <1>3, <1>4, <2>1, <2>2
<1>6. q * Tab <= m * Tab
  <2>1. q < m => q * Tab + Tab <= m * Tab
    BY <1>1, <1>2, <1>3, Products
  <2>2. m * Tab \in Nat /\ q * Tab \in Nat
    BY <1>1, <1>2, <1>3, Products
  <2> QED
    BY <1>1, <1>2, <1>3, <1>5, <2>1, <2>2
<1> QED
  BY <1>3, <1>4, <1>6 DEF TabStop, q

LEMMA ScrollType ==
  ASSUME IInv, TypeOK, NEW cells \in 0 .. CellsBelow, Goto("scroll", "line"),
         csr_y >= Height, ScrollUp(cells), UNCHANGED <<csr_x, lineptr, cursor, dumping>>
  PROVE  TypeOK'
<1>1. Width \in Nat \ {0} /\ Height \in Nat \ {0} /\ csr_y \in 0 .. (Height + 1)
  BY ScreenAssumption DEF TypeOK
<1>2. Exceeded \in 1 .. 2 /\ Exceeded <= Height
  <2>1. Exceeded \in 1 .. 2
    BY <1>1 DEF Exceeded
  <2>2. ASSUME Height < Exceeded PROVE FALSE
    <3>1. Height = 1 /\ Exceeded = 2
      BY <1>1, <2>1, <2>2
    <3>2. CellsBelow = 0 - Width
      BY <1>1, <3>1 DEF CellsBelow
    <3> QED
      BY <1>1, <3>2
  <2> QED
    BY <1>1, <2>1, <2>2
<1>3. ASSUME NEW y \in Rows, NEW x \in Columns, y * Width + x < cells
      PROVE  y + Exceeded \in Rows
  <2> DEFINE h == Height - Exceeded
  <2>1. y \in Nat /\ x \in Nat /\ h \in Nat /\ CellsBelow = Width * h /\ Width * h = h * Width
    BY <1>1, <1>2 DEF Rows, Columns, CellsBelow
  <2> HIDE DEF h
  <2>2. y * Width \in Nat /\ h * Width \in Nat /\ y * Width < h * Width
    BY <1>1, <1>3, <2>1, Products
  <2>3. ~(h < y) /\ h # y
    <3>1. h < y => h * Width + Width <= y * Width
      BY <1>1, <2>1, Products
    <3> QED
      BY <1>1, <2>1, <2>2, <3>1
  <2>4. y < h
    BY <2>1, <2>3
  <2> QED
    BY <1>1, <1>2, <2>1, <2>4 DEF h, Rows
<1>4. screen \in [Rows -> Line] /\ BlankLine \in Line
  BY DEF TypeOK, Line, BlankLine
<1>5. MovedUp(cells) \in [Rows -> Line]
  <2>1. ASSUME NEW y \in Rows, NEW x \in Columns
        PROVE  (IF y * Width + x < cells THEN screen[y + Exceeded][x] ELSE screen[y][x])
                 \in Letters \cup {Blank}
    <3>1. CASE y * Width + x < cells
      <4>1. screen[y + Exceeded] \in Line
        BY <1>3, <1>4, <3>1
      <4> QED
        BY <3>1, <4>1 DEF Line
    <3>2. CASE ~(y * Width + x < cells)
      <4>1. screen[y] \in Line
        BY <1>4
      <4> QED
        BY <3>2, <4>1 DEF Line
    <3> QED
      BY <3>1, <3>2
  <2> QED
    BY <2>1 DEF MovedUp, Line
<1>6. screen' \in [Rows -> Line]
  <2>1. screen' = [MovedUp(cells) EXCEPT ![Height - Exceeded] = BlankLine]
    BY DEF ScrollUp
  <2> QED
    BY <1>4, <1>5, <2>1
<1>7. gone' \in Seq(Line)
  <2> DEFINE top == [k \in 1 .. Exceeded |-> screen[k - 1]]
  <2>1. \A k \in 1 .. Exceeded : k - 1 \in Rows
    BY <1>1, <1>2 DEF Rows
  <2>2. \A k \in 1 .. Exceeded : screen[k - 1] \in Line
    BY <1>4, <2>1
  <2> HIDE DEF Line
  <2>3. top \in Seq(Line)
    BY <1>2, <2>2
  <2>4. gone \in Seq(Line) /\ gone' = gone \o top
    BY DEF TypeOK, Line, ScrollUp, Forget
  <2> HIDE DEF top
  <2> QED
    BY <2>3, <2>4
<1>8. csr_y' \in 0 .. (Height + 1)
  BY <1>1 DEF ScrollUp
<1> QED
  BY <1>6, <1>7, <1>8 DEF TypeOK, Line, Goto, Places

LEMMA CharacterType ==
  ASSUME IInv, TypeOK, Character
  PROVE  TypeOK'
<1>1. Width \in Nat \ {0} /\ Height \in Nat \ {0}
  BY ScreenAssumption
<1>2. ASSUME NEW c \in Letters, OutLetter(c)
      PROVE  TypeOK'
  <2>1. csr_x \in Columns /\ lineptr \in Rows /\ csr_x + 1 \in 0 .. Width
    BY <1>1, <1>2 DEF OutLetter, Goto, IInv, PositionInv, Columns
  <2>2. screen' \in [Rows -> [Columns -> Letters \cup {Blank}]]
    BY <1>2, <2>1 DEF OutLetter, TypeOK
  <2> QED
    BY <1>2, <2>1, <2>2 DEF OutLetter, Goto, TypeOK, Places
<1>3. CASE Backspace \/ Return \/ Ignored \/ OutTab
  <2>1. csr_x \in 0 .. Width /\ csr_x < Width
    BY <1>1, <1>3 DEF Backspace, Return, Ignored, OutTab, Goto, IInv, PositionInv, TypeOK
  <2>2. csr_x' \in 0 .. Width
    BY <1>1, <1>3, <2>1, TabStopNat, TabStopFits DEF Backspace, Return, Ignored, OutTab, position
  <2>3. at' = "wrap" /\ UNCHANGED <<program, screen, csr_y, lineptr, cursor, dumping, gone>>
    BY <1>3 DEF Backspace, Return, Ignored, OutTab, Goto, position
  <2> QED
    BY <2>2, <2>3 DEF TypeOK, Places
<1>4. CASE CountRow /\ at \in {"out", "wrap"}
  <2>1. csr_y + 1 \in 0 .. (Height + 1)
    BY <1>1, <1>4 DEF IInv, PositionInv, Rows
  <2> QED
    BY <1>1, <1>4, <2>1 DEF CountRow, TypeOK, Places
<1>5. CASE Wrap /\ csr_x < Width
  BY <1>1, <1>5 DEF Wrap, TypeOK, Places, position, IInv, PositionInv
<1>6. CASE SetLine
  <2>1. csr_y \in Rows
    BY <1>6 DEF SetLine, Goto, IInv, PositionInv
  <2> QED
    BY <1>6, <2>1 DEF SetLine, Goto, TypeOK, Places
<1> QED
  BY <1>1, <1>2, <1>3, <1>4, <1>5, <1>6 DEF Character, NewLine, Wrap, IInv, PositionInv

(* Exceptions are the kernel's. *)
Calm == program = "loader" => ~dumping

LEMMA NextType ==
  ASSUME IInv, TypeOK, Calm, [Next]_vars
  PROVE  TypeOK'
<1>1. Width \in Nat \ {0} /\ Height \in Nat \ {0}
  BY ScreenAssumption
<1>2. CASE Write
  BY <1>2 DEF Write, Goto, position, TypeOK, Places
<1>3. CASE Character
  BY <1>3, CharacterType
<1>4. CASE MoveCursor
  <2>1. csr_y \in Nat /\ csr_y < Height /\ csr_x \in Nat /\ csr_x < Width
    BY <1>1, <1>4 DEF MoveCursor, Goto, IInv, PositionInv, Rows
  <2>2. csr_y * Width \in Nat /\ csr_y * Width + Width <= Height * Width
        /\ Width * (Height + 2) = Height * Width + 2 * Width /\ Height * Width \in Nat
    BY <1>1, <2>1, Products
  <2>3. cursor' \in 0 .. (Width * (Height + 2))
    BY <1>1, <1>4, <2>1, <2>2 DEF MoveCursor
  <2> QED
    BY <1>4, <2>3 DEF MoveCursor, Goto, position, TypeOK, Places
<1>5. CASE Exception
  <2>1. csr_y + 1 \in 0 .. (Height + 1)
    BY <1>1, <1>5 DEF Exception, IInv, PositionInv, BlankInv
  <2> QED
    BY <1>1, <1>5, <2>1 DEF Exception, TypeOK, Places
<1>6. CASE LoaderScroll \/ KernelScroll
  <2>1. CASE csr_y < Height
    <3>1. at' = "line" /\ UNCHANGED <<program, screen, position, cursor, dumping, gone>>
      BY <1>6, <2>1 DEF LoaderScroll, KernelScroll, Goto, position
    <3> QED
      BY <3>1 DEF TypeOK, Places, position
  <2>2. CASE ~(csr_y < Height)
    <3>1. csr_y >= Height /\ csr_y \in 0 .. (Height + 1)
      BY <1>1, <2>2 DEF TypeOK
    <3>2. Goto("scroll", "line") /\ UNCHANGED <<csr_x, lineptr, cursor, dumping>>
      BY <1>6 DEF LoaderScroll, KernelScroll
    <3>3. CASE KernelScroll
      BY <2>2, <3>1, <3>2, <3>3, ScrollType DEF KernelScroll
    <3>4. CASE LoaderScroll
      <4>1. csr_y = Height
        <5>1. csr_y <= Height
        BY <3>4 DEF LoaderScroll, IInv, BlankInv, Calm
      <5> QED
        BY <1>1, <3>1, <5>1
      <4>2. CellsBelow \in 0 .. CellsBelow
        <5>1. CellsBelow = Width * (Height - 1) /\ Height - 1 \in Nat
          BY <1>1, <4>1 DEF CellsBelow, Exceeded
        <5>2. CellsBelow \in Nat
          BY <1>1, <5>1, Products
        <5> QED
          BY <5>2
      <4> QED
        BY <2>2, <3>1, <3>2, <3>4, <4>2, ScrollType DEF LoaderScroll
    <3> QED
      BY <1>6, <3>3, <3>4
  <2> QED
    BY <2>1, <2>2
<1>7. CASE UNCHANGED vars
  BY <1>7 DEF vars, position, TypeOK
<1> QED
  BY <1>2, <1>3, <1>4, <1>5, <1>6, <1>7 DEF Next, LoaderOut, KernelOut

ConsoleInv == IInv /\ TypeOK /\ Calm

LEMMA ConsoleStarts == Init => ConsoleInv
<1> SUFFICES ASSUME Init PROVE ConsoleInv
  OBVIOUS
<1>1. Width \in Nat \ {0} /\ Height \in Nat \ {0}
  BY ScreenAssumption
<1>2. screen \in [Rows -> [Columns -> Letters \cup {Blank}]]
  BY DEF Init, BlankLine
<1>3. Width * (Height + 2) \in Nat
  BY <1>1, Products
<1>4. csr_x \in 0 .. Width /\ csr_y \in 0 .. (Height + 1) /\ lineptr \in Rows
      /\ cursor \in 0 .. (Width * (Height + 2))
  BY <1>1, <1>3 DEF Init, Rows
<1>5. gone \in Seq([Columns -> Letters \cup {Blank}])
  BY DEF Init
<1>6. program \in {"loader", "kernel"} /\ at \in Places /\ dumping \in BOOLEAN /\ ~dumping
  BY DEF Init, Places
<1> QED
  BY <1>2, <1>4, <1>5, <1>6, InitInv DEF ConsoleInv, TypeOK, Calm

LEMMA ConsoleStep == ConsoleInv /\ [Next]_vars => ConsoleInv'
<1> SUFFICES ASSUME ConsoleInv, [Next]_vars PROVE ConsoleInv'
  OBVIOUS
<1>1. Calm'
  <2>1. CASE Exception
    BY <2>1 DEF Exception, Calm
  <2>2. CASE ~Exception
    <3>1. program' = program /\ dumping' = dumping
      BY <2>2 DEF Next, Write, LoaderOut, KernelOut, LoaderScroll, KernelScroll, MoveCursor,
         Character, OutLetter, Backspace, OutTab, Return, Ignored, NewLine, Wrap, CountRow,
         SetLine, Goto, vars
    <3> QED
      BY <3>1 DEF ConsoleInv, Calm
  <2> QED
    BY <2>1, <2>2
<1> QED
  BY <1>1, NextInv, NextType DEF ConsoleInv

(* The position, the screen and the cursor keep their types: a tab never    *)
(* leaves the line, and no scrolling, whatever it moves, reads a row that   *)
(* is not there.                                                            *)
THEOREM ConsoleTypeCorrect == Spec => []TypeOK
<1>1. ConsoleInv => TypeOK
  BY DEF ConsoleInv
<1> QED
  BY <1>1, ConsoleStarts, ConsoleStep, PTL DEF Spec

-----------------------------------------------------------------------------
(* The loader's screen as a teletype.                                       *)

(* The rows on the page, from the top, and the lines before them.           *)
RowsShown(y) == IF y < Height THEN y + 1 ELSE Height
Lines(s, n) == [k \in 1 .. n |-> s[k - 1]]

LEMMA LinesSeq ==
  ASSUME NEW s, NEW n \in Nat, \A y \in Rows : s[y] \in Line, n <= Height
  PROVE  /\ Lines(s, n) \in Seq(Line) /\ Len(Lines(s, n)) = n
         /\ \A k \in 1 .. n : Lines(s, n)[k] = s[k - 1]
<1>1. Height \in Nat
  BY ScreenAssumption
<1>2. \A k \in 1 .. n : s[k - 1] \in Line
  BY <1>1 DEF Rows
<1> HIDE DEF Line
<1> QED
  BY <1>2 DEF Lines

LEMMA PageIs ==
  /\ Page = gone \o Lines(screen, RowsShown(csr_y))
  /\ Page' = gone' \o Lines(screen', RowsShown(csr_y'))
  BY DEF Page, Lines, RowsShown

(* Sequences that go on. *)
LEMMA Longer ==
  ASSUME NEW S, NEW s \in Seq(S), NEW t \in Seq(S), NEW e \in S
  PROVE  s \o Append(t, e) = Append(s \o t, e)
  OBVIOUS

LEMMA LastChanged ==
  ASSUME NEW S, NEW s \in Seq(S), NEW t \in Seq(S), NEW e \in S, Len(t) > 0
  PROVE  [s \o t EXCEPT ![Len(s \o t)] = e] = s \o [t EXCEPT ![Len(t)] = e]
<1> DEFINE u == [t EXCEPT ![Len(t)] = e]
<1>1. u \in Seq(S) /\ Len(u) = Len(t) /\ Len(t) \in 1 .. Len(t) /\ u[Len(t)] = e
      /\ \A n \in 1 .. Len(t) : n # Len(t) => u[n] = t[n]
  OBVIOUS
<1> HIDE DEF u
<1>2. /\ s \o t \in Seq(S) /\ Len(s \o t) = Len(s) + Len(t)
      /\ s \o u \in Seq(S) /\ Len(s \o u) = Len(s) + Len(t)
  BY <1>1
<1>3. \A n \in 1 .. (Len(s) + Len(t)) :
        (s \o u)[n] = IF n = Len(s) + Len(t) THEN e ELSE (s \o t)[n]
  BY <1>1, SMTT(30)
<1> DEFINE w == [s \o t EXCEPT ![Len(s \o t)] = e]
<1>4. /\ w \in Seq(S) /\ Len(w) = Len(s) + Len(t)
      /\ \A n \in 1 .. (Len(s) + Len(t)) :
           w[n] = IF n = Len(s) + Len(t) THEN e ELSE (s \o t)[n]
  <2>1. PICK c \in Seq(S) : c = s \o t
    BY <1>2
  <2>2. PICK m \in 1 .. Len(c) : m = Len(c)
    BY <1>2, <2>1
  <2>3. /\ [c EXCEPT ![m] = e] \in Seq(S) /\ Len([c EXCEPT ![m] = e]) = Len(c)
        /\ \A n \in 1 .. Len(c) : [c EXCEPT ![m] = e][n] = IF n = m THEN e ELSE c[n]
    BY ExceptSeq
  <2>4. w = [c EXCEPT ![m] = e]
    BY <2>1, <2>2
  <2> HIDE DEF w
  <2> QED
    BY <1>2, <2>1, <2>2, <2>3, <2>4
<1> HIDE DEF w
<1>5. s \o u = w
  <2>1. PICK x, y \in Seq(S) : x = s \o u /\ y = w
    BY <1>2, <1>4
  <2>2. Len(x) = Len(y)
    BY <1>2, <1>4, <2>1
  <2>3. \A n \in 1 .. Len(x) : x[n] = y[n]
    BY <1>2, <1>3, <1>4, <2>1
  <2>4. x = y
    BY <2>2, <2>3, SeqEqual
  <2> QED
    BY <2>1, <2>4
<1> QED
  BY <1>5 DEF u, w

(* ... and their last elements. *)
LEMMA LastIsLast ==
  ASSUME NEW S, NEW s \in Seq(S), NEW t \in Seq(S), Len(t) > 0
  PROVE  (s \o t)[Len(s \o t)] = t[Len(t)] /\ Len(s \o t) \in DOMAIN (s \o t)
  BY ConcatProperties, LenProperties

LEMMA PaperWords ==
  /\ Paper!Columns = Columns /\ Paper!EmptyLine = BlankLine
  /\ Paper!vars = <<Page, csr_x>>
  BY DEF Paper!Columns, Paper!EmptyLine, Paper!vars, Columns, BlankLine

LEMMA SamePage ==
  ASSUME UNCHANGED <<screen, csr_y, gone>>
  PROVE  Page' = Page
  BY PageIs

(* A letter goes to the last line of the page. *)
LEMMA LetterTypes ==
  ASSUME ConsoleInv, NEW c \in Letters, OutLetter(c)
  PROVE  Paper!Type(c)
<1>1. Width \in Nat \ {0} /\ Height \in Nat \ {0}
  BY ScreenAssumption
<1>2. /\ at = "out" /\ csr_y \in Rows /\ lineptr = csr_y /\ csr_x \in Columns
      /\ screen' = [screen EXCEPT ![csr_y][csr_x] = c]
      /\ csr_x' = csr_x + 1 /\ UNCHANGED <<csr_y, gone>>
  BY <1>1 DEF OutLetter, Goto, ConsoleInv, IInv, PositionInv, Columns
<1>3. gone \in Seq(Line) /\ screen \in [Rows -> Line]
  BY DEF ConsoleInv, TypeOK, Line
<1> DEFINE n == csr_y + 1
           t == Lines(screen, n)
           e == [screen[csr_y] EXCEPT ![csr_x] = c]
<1>4. n \in Nat /\ n > 0 /\ n <= Height /\ RowsShown(csr_y) = n /\ RowsShown(csr_y') = n
  BY <1>1, <1>2 DEF RowsShown, Rows
<1>5. e \in Line /\ screen[csr_y] \in Line
  <2>1. screen[csr_y] \in Line
    BY <1>2, <1>3
  <2> QED
    BY <1>2, <2>1 DEF Line
<1>6. screen' = [screen EXCEPT ![csr_y] = e] /\ screen' \in [Rows -> Line]
  BY <1>2, <1>3, <1>5
<1> HIDE DEF e, n
<1>7. t \in Seq(Line) /\ Len(t) = n /\ t[n] = screen[csr_y]
  <2>1. \A y \in Rows : screen[y] \in Line
    BY <1>3
  <2>2. n - 1 = csr_y /\ n \in 1 .. n
    BY <1>1, <1>2, <1>4 DEF n, Rows
  <2> QED
    BY <1>4, <2>1, <2>2, LinesSeq
<1>8. Lines(screen', n) = [t EXCEPT ![n] = e]
  <2>1. \A k \in 1 .. n : k - 1 \in Rows /\ (k - 1 = csr_y <=> k = n)
    BY <1>1, <1>2, <1>4 DEF Rows, n
  <2>2. \A k \in 1 .. n : screen'[k - 1] = IF k = n THEN e ELSE screen[k - 1]
    BY <1>3, <1>6, <2>1
  <2>3. Lines(screen', n) = [k \in 1 .. n |-> IF k = n THEN e ELSE screen[k - 1]]
    BY <2>2 DEF Lines
  <2> QED
    BY <1>4, <2>3 DEF Lines
<1> HIDE DEF t
<1>9. Page = gone \o t /\ Page' = gone \o [t EXCEPT ![n] = e]
  BY <1>2, <1>4, <1>8, PageIs DEF t
<1> HIDE DEF Line
<1>10. PICK g, s \in Seq(Line), x \in Line : g = gone /\ s = t /\ x = e
  BY <1>3, <1>5, <1>7
<1>11. Len(s) > 0 /\ Len(s) = n
  BY <1>4, <1>7, <1>10
<1>12. Page' = [Page EXCEPT ![Len(Page)] = e]
  <2>1. [g \o s EXCEPT ![Len(g \o s)] = x] = g \o [s EXCEPT ![Len(s)] = x]
    BY <1>11, LastChanged, SMTT(30)
  <2> QED
    BY <1>9, <1>10, <1>11, <2>1
<1>13. Page[Len(Page)] = screen[csr_y] /\ Len(Page) \in DOMAIN Page
  <2>1. (g \o s)[Len(g \o s)] = s[Len(s)] /\ Len(g \o s) \in DOMAIN (g \o s)
    BY <1>11, LastIsLast
  <2> QED
    BY <1>7, <1>9, <1>10, <1>11, <2>1
<1>14. Page' = [Page EXCEPT ![Len(Page)][csr_x] = c]
  BY <1>12, <1>13 DEF e
<1> QED
  BY <1>2, <1>14, PaperWords DEF Paper!Type

(* A new line on the screen is one on the page. *)
LEMMA CountRowFeeds ==
  ASSUME ConsoleInv, Calm, program = "loader", CountRow, at \in {"out", "wrap"}
  PROVE  Paper!Feed \/ Paper!MoveCarriage
<1>1. Width \in Nat \ {0} /\ Height \in Nat \ {0}
  BY ScreenAssumption
<1>2. /\ csr_y \in Rows /\ csr_y' = csr_y + 1 /\ csr_x' = 0 /\ UNCHANGED <<screen, gone>>
      /\ Clean(csr_y + 1)
  BY DEF CountRow, ConsoleInv, IInv, PositionInv, BlankInv, Calm
<1>3. gone \in Seq(Line) /\ screen \in [Rows -> Line]
  BY DEF ConsoleInv, TypeOK, Line
<1>4. CASE csr_y + 1 < Height
  <2> DEFINE n == csr_y + 1
             t == Lines(screen, n)
  <2>1. n \in Nat /\ n <= Height /\ RowsShown(csr_y) = n /\ RowsShown(csr_y') = n + 1 /\ n + 1 <= Height
        /\ n \in Rows
    BY <1>1, <1>2, <1>4 DEF RowsShown, Rows
  <2>2. screen[n] = BlankLine /\ BlankLine \in Line
    BY <1>2, <2>1 DEF Clean, Line, BlankLine
  <2> HIDE DEF n
  <2>3. \A y \in Rows : screen[y] \in Line
    BY <1>3
  <2>4. t \in Seq(Line) /\ Len(t) = n /\ \A k \in 1 .. n : t[k] = screen[k - 1]
    BY <2>1, <2>3, LinesSeq
  <2>5. /\ Lines(screen, n + 1) \in Seq(Line) /\ Len(Lines(screen, n + 1)) = n + 1
        /\ \A k \in 1 .. (n + 1) : Lines(screen, n + 1)[k] = screen[k - 1]
    BY <2>1, <2>3, LinesSeq
  <2> HIDE DEF t
  <2>6. Lines(screen, n + 1) = Append(t, BlankLine)
    <3>1. /\ Append(t, BlankLine) \in Seq(Line) /\ Len(Append(t, BlankLine)) = n + 1
          /\ \A k \in 1 .. n : Append(t, BlankLine)[k] = t[k]
          /\ Append(t, BlankLine)[n + 1] = BlankLine
      BY <2>2, <2>4, AppendProperties
    <3>2. \A k \in 1 .. (n + 1) : k \in 1 .. n \/ (k = n + 1 /\ k - 1 = n)
      BY <2>1
    <3>3. \A k \in 1 .. (n + 1) : Lines(screen, n + 1)[k] = Append(t, BlankLine)[k]
      BY <2>2, <2>4, <2>5, <3>1, <3>2
    <3> QED
      BY <2>5, <3>1, <3>3, SeqEqual
  <2>7. Page = gone \o t /\ Page' = gone \o Append(t, BlankLine)
    BY <1>2, <2>1, <2>6, PageIs DEF t
  <2>8. Page' = Append(Page, BlankLine)
    BY <1>3, <2>2, <2>4, <2>7, Longer
  <2> QED
    BY <1>2, <2>8, PaperWords DEF Paper!Feed
<1>5. CASE ~(csr_y + 1 < Height)
  <2>1. RowsShown(csr_y) = Height /\ RowsShown(csr_y') = Height
    BY <1>1, <1>2, <1>5 DEF RowsShown, Rows
  <2>2. Page' = Page
    BY <1>2, <2>1, PageIs
  <2>3. csr_x' \in 0 .. Width
    BY <1>1, <1>2
  <2> QED
    BY <2>2, <2>3 DEF Paper!MoveCarriage
<1> QED
  BY <1>4, <1>5

(* Scrolling moves the first row from the screen to the lines before it. *)
LEMMA ScrollFeeds ==
  ASSUME ConsoleInv, LoaderScroll, ~(csr_y < Height)
  PROVE  Paper!Feed
<1>1. Width \in Nat \ {0} /\ Height \in Nat \ {0}
  BY ScreenAssumption
<1>2. csr_y = Height /\ csr_x = 0 /\ csr_x' = csr_x
  BY <1>1 DEF LoaderScroll, Goto, ConsoleInv, IInv, PositionInv, BlankInv, Calm
<1>3. gone \in Seq(Line) /\ screen \in [Rows -> Line] /\ BlankLine \in Line
  BY DEF ConsoleInv, TypeOK, Line, BlankLine
<1>4. Exceeded = 1 /\ CellsBelow = Width * (Height - 1)
  BY <1>1, <1>2 DEF Exceeded, CellsBelow
<1> DEFINE top == [k \in 1 .. 1 |-> screen[k - 1]]
           rest == [k \in 1 .. (Height - 1) |-> screen[k]]
<1>5. /\ gone' = gone \o top /\ csr_y' = Height - 1
      /\ screen' = [MovedUp(CellsBelow) EXCEPT ![Height - 1] = BlankLine]
  BY <1>4 DEF LoaderScroll, ScrollUp, Forget
<1>6. ASSUME NEW y \in 0 .. (Height - 2)
      PROVE  screen'[y] = screen[y + 1]
  <2>1. y \in Rows /\ y # Height - 1 /\ y + 1 \in Rows
    BY <1>1 DEF Rows
  <2>2. screen'[y] = MovedUp(CellsBelow)[y]
    BY <1>5, <2>1 DEF MovedUp
  <2>3. ASSUME NEW x \in Columns PROVE y * Width + x < CellsBelow
    <3>1. y * Width \in Nat /\ x \in Nat /\ x < Width /\ y * Width + Width <= (Height - 1) * Width
          /\ (Height - 1) * Width = Width * (Height - 1)
      BY <1>1, Products DEF Columns
    <3> QED
      BY <1>1, <1>4, <3>1
  <2>4. MovedUp(CellsBelow)[y] = [x \in Columns |-> screen[y + 1][x]]
    BY <1>4, <2>1, <2>3 DEF MovedUp
  <2>5. screen[y + 1] \in Line
    BY <1>3, <2>1
  <2> QED
    BY <2>2, <2>4, <2>5 DEF Line
<1>7. screen'[Height - 1] = BlankLine
  BY <1>1, <1>5 DEF MovedUp, Rows
<1>8. top \in Seq(Line) /\ rest \in Seq(Line) /\ Len(top) = 1 /\ Len(rest) = Height - 1
  <2>1. 0 \in Rows /\ \A k \in 1 .. (Height - 1) : k \in Rows
    BY <1>1 DEF Rows
  <2>2. \A k \in 1 .. 1 : k - 1 \in Rows
    BY <2>1
  <2>3. Height - 1 \in Nat
    BY <1>1
  <2> HIDE DEF Line
  <2> QED
    BY <1>3, <2>1, <2>2, <2>3
<1>9. Lines(screen, Height) = top \o rest
  <2>1. top \o rest \in Seq(Line) /\ Len(top \o rest) = Height
        /\ \A k \in 1 .. Height : (top \o rest)[k] = IF k <= 1 THEN top[k] ELSE rest[k - 1]
    <3> HIDE DEF top, rest, Line
    <3>1. PICK g, h \in Seq(Line) : g = top /\ h = rest
      BY <1>8
    <3>2. g \o h \in Seq(Line) /\ Len(g \o h) = Len(g) + Len(h)
          /\ \A k \in 1 .. (Len(g) + Len(h)) :
               (g \o h)[k] = IF k <= Len(g) THEN g[k] ELSE h[k - Len(g)]
      BY ConcatProperties
    <3>3. Len(g) = 1 /\ Len(h) = Height - 1
      BY <1>8, <3>1, Zenon
    <3>4. Len(g) + Len(h) = Height
      BY <1>1, <3>3
    <3> QED
      BY <3>1, <3>2, <3>3, <3>4
  <2>2. \A k \in 1 .. Height : (top \o rest)[k] = screen[k - 1]
    BY <1>1, <2>1
  <2>3. \A y \in Rows : screen[y] \in Line
    BY <1>3
  <2>4. /\ Lines(screen, Height) \in Seq(Line) /\ Len(Lines(screen, Height)) = Height
        /\ \A k \in 1 .. Height : Lines(screen, Height)[k] = screen[k - 1]
    BY <1>1, <2>3, LinesSeq
  <2> HIDE DEF top, rest
  <2> QED
    BY <2>1, <2>2, <2>4, SeqEqual
<1>10. Lines(screen', Height) = Append(rest, BlankLine)
  <2>1. \A y \in Rows : y \in 0 .. (Height - 2) \/ y = Height - 1
    BY <1>1 DEF Rows
  <2>2. \A y \in 0 .. (Height - 2) : y + 1 \in Rows
    BY <1>1 DEF Rows
  <2>3. \A y \in Rows : screen'[y] \in Line
    BY <1>3, <1>6, <1>7, <2>1, <2>2
  <2>4. /\ Lines(screen', Height) \in Seq(Line) /\ Len(Lines(screen', Height)) = Height
        /\ \A k \in 1 .. Height : Lines(screen', Height)[k] = screen'[k - 1]
    BY <1>1, <2>3, LinesSeq
  <2>5. /\ Append(rest, BlankLine) \in Seq(Line) /\ Len(Append(rest, BlankLine)) = Height
        /\ \A k \in 1 .. (Height - 1) : Append(rest, BlankLine)[k] = rest[k]
        /\ Append(rest, BlankLine)[Height] = BlankLine
    <3> HIDE DEF rest
    <3>1. (Height - 1) + 1 = Height
      BY <1>1
    <3> QED
      BY <1>3, <1>8, <3>1, AppendProperties
  <2>6. ASSUME NEW k \in 1 .. Height
        PROVE  screen'[k - 1] = Append(rest, BlankLine)[k]
    <3>1. CASE k = Height
      BY <1>7, <2>5, <3>1
    <3>2. CASE k # Height
      <4>1. k \in 1 .. (Height - 1) /\ k - 1 \in 0 .. (Height - 2) /\ (k - 1) + 1 = k
        BY <1>1, <3>2
      <4>2. rest[k] = screen[k]
        BY <4>1
      <4> HIDE DEF rest
      <4> QED
        BY <1>6, <2>5, <4>1, <4>2
    <3> QED
      BY <3>1, <3>2
  <2> HIDE DEF rest
  <2> QED
    BY <2>4, <2>5, <2>6, SeqEqual
<1>11. RowsShown(csr_y) = Height /\ RowsShown(csr_y') = Height
  BY <1>1, <1>2, <1>5 DEF RowsShown
<1> HIDE DEF top, rest
<1>12. Page = gone \o (top \o rest) /\ Page' = (gone \o top) \o Append(rest, BlankLine)
  BY <1>5, <1>9, <1>10, <1>11, PageIs
<1>13. Page' = Append(Page, BlankLine)
  <2>1. gone \o top \in Seq(Line) /\ (gone \o top) \o rest = gone \o (top \o rest)
    BY <1>3, <1>8, ConcatProperties, ConcatAssociative
  <2>2. (gone \o top) \o Append(rest, BlankLine) = Append((gone \o top) \o rest, BlankLine)
    BY <1>3, <1>8, <2>1, Longer, SMTT(30)
  <2> QED
    BY <1>12, <2>1, <2>2
<1> QED
  BY <1>2, <1>13, PaperWords DEF Paper!Feed

LEMMA StepTypes ==
  ASSUME ConsoleInv, program = "loader", [Next]_vars
  PROVE  [Paper!Next]_(Paper!vars)
<1>1. Width \in Nat \ {0} /\ Height \in Nat \ {0}
  BY ScreenAssumption
<1>2. ASSUME NEW c \in Letters, OutLetter(c)
      PROVE  Paper!Next
  BY <1>2, LetterTypes DEF Paper!Next
<1>3. CASE CountRow /\ at \in {"out", "wrap"}
  BY <1>3, CountRowFeeds DEF Paper!Next, ConsoleInv
<1>4. CASE Backspace \/ Return \/ Ignored \/ OutTab
  <2>1. csr_x \in 0 .. Width /\ csr_x < Width
    BY <1>1, <1>4 DEF Backspace, Return, Ignored, OutTab, Goto, ConsoleInv, IInv, PositionInv, TypeOK
  <2>2. csr_x' \in 0 .. Width
    BY <1>1, <1>4, <2>1, TabStopNat, TabStopFits DEF Backspace, Return, Ignored, OutTab, position
  <2>3. Page' = Page
    BY <1>4, SamePage DEF Backspace, Return, Ignored, OutTab, position
  <2> QED
    BY <2>2, <2>3 DEF Paper!Next, Paper!MoveCarriage
<1>5. CASE LoaderScroll /\ ~(csr_y < Height)
  BY <1>5, ScrollFeeds DEF Paper!Next
<1>6. CASE UNCHANGED <<screen, csr_y, csr_x, gone>>
  <2>1. Page' = Page /\ csr_x' = csr_x
    BY <1>6, SamePage
  <2> QED
    BY <2>1 DEF Paper!vars
<1>7. CASE Write \/ MoveCursor \/ SetLine \/ (LoaderScroll /\ csr_y < Height)
            \/ (Wrap /\ csr_x < Width) \/ UNCHANGED vars
  <2>1. UNCHANGED <<screen, csr_y, csr_x, gone>>
    BY <1>1, <1>7 DEF Write, MoveCursor, SetLine, LoaderScroll, Wrap, vars, position, ConsoleInv,
       TypeOK
  <2> QED
    BY <1>6, <2>1
<1>8. ~Exception /\ ~KernelScroll
  BY DEF Exception, KernelScroll
<1>9. CASE Wrap /\ ~(csr_x < Width)
  <2>1. CountRow /\ at = "wrap"
    BY <1>1, <1>9 DEF Wrap, ConsoleInv, TypeOK
  <2> QED
    BY <1>3, <2>1
<1>10. CASE NewLine
  BY <1>3, <1>10 DEF NewLine
<1>11. CASE Character
  BY <1>2, <1>4, <1>7, <1>9, <1>10, <1>11 DEF Character
<1> QED
  BY <1>5, <1>7, <1>8, <1>11 DEF Next, LoaderOut, KernelOut

(* The loader's screen, with the lines that have left it, is an endless     *)
(* page, for a screen and a tab of any size: in Out and Scroll no           *)
(* assignment to the column, the row or the row's pointer lets a character  *)
(* go astray.                                                               *)
THEOREM ActsLikeTeletype == Spec => ActsAsTeletype
<1>1. Init => Paper!Init
  <2> SUFFICES ASSUME Init PROVE Paper!Init
    OBVIOUS
  <2>1. Width \in Nat \ {0} /\ Height \in Nat \ {0}
    BY ScreenAssumption
  <2>2. csr_y = 0 /\ csr_x = 0 /\ gone = <<>> /\ screen = [y \in Rows |-> BlankLine]
    BY DEF Init
  <2>3. RowsShown(csr_y) = 1 /\ 0 \in Rows
    BY <2>1, <2>2 DEF RowsShown, Rows
  <2>4. Lines(screen, 1) = <<BlankLine>>
    BY <2>2, <2>3 DEF Lines
  <2>5. Page = <<BlankLine>>
    BY <2>2, <2>3, <2>4, PageIs
  <2> QED
    BY <2>2, <2>5, PaperWords DEF Paper!Init
<1>2. ConsoleInv /\ [Next]_vars => [program = "loader" => [Paper!Next]_(Paper!vars)]_vars
  BY StepTypes
<1> QED
  BY ConsoleStarts, ConsoleStep, <1>1, <1>2, PTL DEF Spec, ActsAsTeletype

-----------------------------------------------------------------------------

(* Accesses one behind the other, from done to total. *)
Ascends(accesses, done, total) ==
  /\ accesses \in Seq(Nat \X (1 .. 8))
  /\ accesses = <<>> => done = total
  /\ accesses # <<>> => /\ accesses[1][1] = done
                        /\ accesses[Len(accesses)][1] + accesses[Len(accesses)][2] = total
  /\ \A k \in 1 .. Len(accesses) : /\ accesses[k][1] + accesses[k][2] <= total
                                   /\ k < Len(accesses) =>
                                        accesses[k + 1][1] = accesses[k][1] + accesses[k][2]

LEMMA AscendsTail ==
  ASSUME NEW s, NEW done \in Nat, NEW total \in Nat, Ascends(s, done, total), s # <<>>
  PROVE  /\ Head(s) = s[1] /\ s[1] = <<done, s[1][2]>> /\ s[1][2] \in 1 .. 8
         /\ done + s[1][2] <= total
         /\ Ascends(Tail(s), done + s[1][2], total)
<1> DEFINE T == Nat \X (1 .. 8)
           t == Tail(s)
<1>1. s \in Seq(T) /\ s[1][1] = done /\ s[Len(s)][1] + s[Len(s)][2] = total
  BY DEF Ascends
<1>2. Len(s) \in Nat /\ Len(s) >= 1 /\ \A k \in 1 .. Len(s) : s[k] \in T
  <2> HIDE DEF T
  <2> QED
    BY <1>1
<1>3. \A k \in 1 .. Len(s) : /\ s[k] = <<s[k][1], s[k][2]>> /\ s[k][1] \in Nat /\ s[k][2] \in 1 .. 8
                             /\ s[k][1] + s[k][2] <= total
                             /\ k < Len(s) => s[k + 1][1] = s[k][1] + s[k][2]
  BY <1>2 DEF Ascends
<1>4. t \in Seq(T) /\ Len(t) = Len(s) - 1 /\ (\A k \in 1 .. Len(t) : t[k] = s[k + 1]) /\ Head(s) = s[1]
  <2> HIDE DEF T
  <2> QED
    BY <1>1, <1>2
<1>5. t = <<>> => Len(s) = 1
  <2> HIDE DEF t
  <2>1. t = <<>> => Len(t) = 0
    OBVIOUS
  <2> QED
    BY <1>2, <1>4, <2>1
<1>6. t # <<>> => Len(t) >= 1
  <2> HIDE DEF T
  <2> QED
    BY <1>4
<1> HIDE DEF t
<1>7. t # <<>> => t[1][1] = done + s[1][2] /\ t[Len(t)][1] + t[Len(t)][2] = total
  <2> SUFFICES ASSUME t # <<>> PROVE t[1][1] = done + s[1][2] /\ t[Len(t)][1] + t[Len(t)][2] = total
    OBVIOUS
  <2>1. Len(t) >= 1 /\ Len(s) >= 2 /\ Len(t) = Len(s) - 1
    BY <1>2, <1>4, <1>6
  <2>2. t[1] = s[2] /\ t[Len(t)] = s[Len(s)]
    BY <1>2, <1>4, <2>1
  <2>3. s[2][1] = done + s[1][2]
    BY <1>1, <1>2, <1>3, <2>1
  <2> QED
    BY <1>1, <2>2, <2>3
<1>8. t = <<>> => done + s[1][2] = total
  BY <1>1, <1>5
<1>9. \A k \in 1 .. Len(t) : /\ t[k][1] + t[k][2] <= total
                             /\ k < Len(t) => t[k + 1][1] = t[k][1] + t[k][2]
  <2> TAKE k \in 1 .. Len(t)
  <2>1. k + 1 \in 1 .. Len(s) /\ t[k] = s[k + 1]
    BY <1>2, <1>4
  <2>2. k < Len(t) => t[k + 1] = s[k + 2] /\ k + 1 < Len(s)
    <3>1. Len(t) = Len(s) - 1 /\ Len(s) \in Nat /\ k \in Nat
      BY <1>2, <1>4
    <3>2. k < Len(t) => k + 1 \in 1 .. Len(t) /\ k + 1 < Len(s)
      BY <3>1
    <3> QED
      BY <1>4, <3>2
  <2> QED
    BY <1>3, <2>1, <2>2
<1>10. Ascends(t, done + s[1][2], total)
  BY <1>4, <1>7, <1>8, <1>9 DEF Ascends
<1> QED
  BY <1>1, <1>2, <1>3, <1>4, <1>10 DEF t

(* Where n accesses of given widths begin, and where the last one ends. *)
Offsets(f, w, n, total) ==
  /\ n \in Nat /\ total \in Nat
  /\ w \in [1 .. n -> 1 .. 8] /\ f \in [1 .. n + 1 -> 0 .. total]
  /\ f[1] = 0 /\ f[n + 1] = total /\ \A k \in 1 .. n : f[k + 1] = f[k] + w[k]

LEMMA UpwardsAscends ==
  ASSUME NEW n, NEW w, NEW total, NEW f, Offsets(f, w, n, total)
  PROVE  /\ Upwards(w) = [k \in 1 .. n |-> <<f[k], w[k]>>]
         /\ Ascends(Upwards(w), 0, total)
<1> USE DEF Offsets
<1> DEFINE Is(g) == g = [k \in DOMAIN w |-> IF k = 1 THEN 0 ELSE g[k - 1] + w[k - 1]]
           offset == CHOOSE g : Is(g)
           up == [k \in 1 .. n |-> <<f[k], w[k]>>]
<1>1. DOMAIN w = 1 .. n
  OBVIOUS
<1>2. \E g : Is(g)
  <2> DEFINE g == [k \in 1 .. n |-> f[k]]
  <2>1. \A k \in 1 .. n : k # 1 => k - 1 \in 1 .. n /\ f[k] = f[k - 1] + w[k - 1]
    OBVIOUS
  <2>2. \A k \in 1 .. n : g[k] = IF k = 1 THEN 0 ELSE g[k - 1] + w[k - 1]
    BY <2>1
  <2>3. Is(g)
    BY <2>2, <1>1
  <2> QED
    BY <2>3
<1>3. Is(offset)
  BY <1>2
<1>4. Upwards(w) = [k \in DOMAIN w |-> <<offset[k], w[k]>>]
  BY Zenon DEF Upwards
<1> HIDE DEF offset
<1>5. \A k \in 1 .. n : offset[k] = f[k]
  <2> DEFINE S == {k \in 1 .. n + 1 : k <= n => offset[k] = f[k]}
  <2>1. 1 \in S
    BY <1>1, <1>3
  <2>2. \A k \in 1 .. n : k \in S /\ k < n => k + 1 \in S
    BY <1>1, <1>3
  <2> HIDE DEF S
  <2>3. \A k \in 1 .. n : k \in S
    BY <2>1, <2>2, BoundedInduction
  <2> QED
    BY <2>3 DEF S
<1>6. Upwards(w) = up
  BY <1>1, <1>4, <1>5
<1> HIDE DEF Is
<1>7. up \in Seq(Nat \X (1 .. 8)) /\ Len(up) = n /\ \A k \in 1 .. n : up[k][1] = f[k] /\ up[k][2] = w[k]
  <2> DEFINE T == Nat \X (1 .. 8)
  <2>1. \A k \in 1 .. n : up[k] = <<f[k], w[k]>>
    OBVIOUS
  <2>2. \A k \in 1 .. n : f[k] \in Nat /\ w[k] \in 1 .. 8
    OBVIOUS
  <2>3. \A k \in 1 .. n : <<f[k], w[k]>> \in T
    BY <2>2
  <2> HIDE DEF T
  <2>4. up \in [1 .. n -> T]
    BY <2>3
  <2>5. up \in Seq(T) /\ Len(up) = n
    BY <2>4
  <2> QED
    BY <2>1, <2>5 DEF T
<1> HIDE DEF up
<1>8. up = <<>> => n = 0
  BY <1>7
<1>9. up # <<>> => n >= 1
  BY <1>7
<1>10. \A k \in 1 .. n : /\ up[k][1] + up[k][2] <= total
                         /\ k < n => up[k + 1][1] = up[k][1] + up[k][2]
  <2> TAKE k \in 1 .. n
  <2>1. k + 1 \in 1 .. n + 1 /\ f[k + 1] \in 0 .. total /\ f[k + 1] = f[k] + w[k]
    OBVIOUS
  <2> QED
    BY <1>7, <2>1
<1>11. up # <<>> => up[1][1] = 0 /\ up[n][1] + up[n][2] = total
  BY <1>7, <1>9
<1>12. Ascends(up, 0, total)
  <2>1. up = <<>> => 0 = total
    BY <1>8
  <2> QED
    BY <1>7, <1>10, <1>11, <2>1 DEF Ascends
<1> QED
  BY <1>6, <1>12 DEF up
-----------------------------------------------------------------------------
(* The accesses of each function ascend, from 0 to the size asked for.      *)

LEMMA TimesAscends ==
  ASSUME NEW width \in {1, 2, 4}, NEW n \in Nat
  PROVE  /\ Upwards(Times(width, n)) = [k \in 1 .. n |-> <<width * (k - 1), width>>]
         /\ Ascends(Upwards(Times(width, n)), 0, width * n)
<1> DEFINE w == [k \in 1 .. n |-> width]
           f == [k \in 1 .. n + 1 |-> width * (k - 1)]
<1>1. Times(width, n) = w
  BY DEF Times
<1>2. w \in [1 .. n -> 1 .. 8] /\ width * n \in Nat
  OBVIOUS
<1>3. f \in [1 .. n + 1 -> 0 .. width * n]
  <2> SUFFICES ASSUME NEW k \in 1 .. n + 1 PROVE width * (k - 1) \in 0 .. width * n
    OBVIOUS
  <2> QED
    OBVIOUS
<1>4. f[1] = 0 /\ f[n + 1] = width * n /\ \A k \in 1 .. n : f[k + 1] = f[k] + w[k]
  OBVIOUS
<1>5. \A k \in 1 .. n : f[k] = width * (k - 1) /\ w[k] = width
  OBVIOUS
<1> HIDE DEF w, f
<1>6. /\ Upwards(w) = [k \in 1 .. n |-> <<f[k], w[k]>>]
      /\ Ascends(Upwards(w), 0, width * n)
  <2>1. Offsets(f, w, n, width * n)
    BY <1>2, <1>3, <1>4 DEF Offsets
  <2> QED
    BY <2>1, UpwardsAscends, Zenon
<1> QED
  BY <1>1, <1>5, <1>6

(* Words, and what is left after them. *)
LEMMA WordsAscend ==
  ASSUME NEW n \in Nat, NEW r \in Nat, NEW rest \in [1 .. r -> 1 .. 4],
         NEW g \in [1 .. r + 1 -> 0 .. n % 4],
         g[1] = 0, g[r + 1] = n % 4, \A k \in 1 .. r : g[k + 1] = g[k] + rest[k]
  PROVE  /\ Ascends(Upwards(Words(n) \o rest), 0, n)
         /\ \A k \in 1 .. Len(Upwards(Words(n) \o rest)) : Upwards(Words(n) \o rest)[k][2] <= 4
<1> DEFINE q == n \div 4
           w == [k \in 1 .. q + r |-> IF k <= q THEN 4 ELSE rest[k - q]]
           f == [k \in 1 .. q + r + 1 |-> IF k <= q THEN 4 * (k - 1) ELSE 4 * q + g[k - q]]
<1>1. q \in Nat /\ n % 4 \in Nat /\ n = 4 * q + (n % 4)
  OBVIOUS
<1>2. Words(n) = [k \in 1 .. q |-> 4]
  BY DEF Words, Times
<1> HIDE DEF q
<1>3. Words(n) \in Seq(Nat) /\ Len(Words(n)) = q
  BY <1>1, <1>2
<1>4. rest \in Seq(Nat) /\ Len(rest) = r
  OBVIOUS
<1>5. Words(n) \o rest = w
  <2> DEFINE both == Words(n) \o rest
  <2>0. /\ both \in Seq(Nat) /\ Len(both) = Len(Words(n)) + Len(rest)
        /\ \A k \in 1 .. Len(Words(n)) + Len(rest) :
             both[k] = IF k <= Len(Words(n)) THEN Words(n)[k] ELSE rest[k - Len(Words(n))]
    BY <1>3, <1>4, ConcatProperties
  <2> HIDE DEF both
  <2>1. both \in Seq(Nat) /\ Len(both) = q + r
    BY <1>3, <1>4, <2>0
  <2>2. ASSUME NEW k \in 1 .. q + r PROVE both[k] = w[k]
    <3>1. both[k] = IF k <= Len(Words(n)) THEN Words(n)[k] ELSE rest[k - Len(Words(n))]
      BY <1>1, <1>3, <1>4, <2>0
    <3> QED
      BY <1>1, <1>2, <1>3, <3>1
  <2>3. both = [k \in 1 .. q + r |-> both[k]]
    BY <2>1
  <2> QED
    BY <2>2, <2>3 DEF both
<1>6. w \in [1 .. q + r -> 1 .. 8] /\ \A k \in 1 .. q + r : w[k] <= 4
  <2>1. ASSUME NEW k \in 1 .. q + r PROVE w[k] \in 1 .. 4
    <3>1. k > q => k - q \in 1 .. r
      BY <1>1
    <3>2. k > q => rest[k - q] \in 1 .. 4
      BY <3>1
    <3> QED
      BY <1>1, <3>2
  <2>2. \A k \in 1 .. q + r : w[k] \in 1 .. 8 /\ w[k] <= 4
    BY <2>1
  <2> QED
    BY <2>2
<1>7. \A k \in 1 .. q + r + 1 : f[k] \in 0 .. n
  <2> TAKE k \in 1 .. q + r + 1
  <2>1. CASE k <= q
    BY <1>1, <2>1
  <2>2. CASE k > q
    <3>1. k - q \in 1 .. r + 1
      BY <1>1, <2>2
    <3>2. g[k - q] \in 0 .. n % 4
      BY <3>1
    <3>3. f[k] = 4 * q + g[k - q]
      BY <1>1, <2>2
    <3> QED
      BY <1>1, <3>2, <3>3
  <2> QED
    BY <1>1, <2>1, <2>2
<1>8. f[1] = 0 /\ f[q + r + 1] = n
  BY <1>1
<1>9. \A k \in 1 .. q + r : f[k + 1] = f[k] + w[k]
  <2> TAKE k \in 1 .. q + r
  <2>1. CASE k < q
    BY <1>1, <2>1
  <2>2. CASE k = q
    BY <1>1, <2>2
  <2>3. CASE k > q
    <3>1. k - q \in 1 .. r /\ k + 1 - q = (k - q) + 1
      BY <1>1, <2>3
    <3>2. g[k + 1 - q] = g[k - q] + rest[k - q]
      <4>1. g[(k - q) + 1] = g[k - q] + rest[k - q]
        BY <3>1
      <4> QED
        BY <3>1, <4>1
    <3>3. g[k - q] \in Nat /\ rest[k - q] \in Nat
      <4>1. k - q \in 1 .. r + 1
        BY <3>1
      <4>2. g[k - q] \in Nat
        BY <4>1
      <4>3. rest[k - q] \in 1 .. 4
        BY <3>1, Zenon
      <4> QED
        BY <3>1, <4>2, <4>3
    <3> QED
      BY <1>1, <2>3, <3>1, <3>2, <3>3
  <2> QED
    BY <1>1, <2>1, <2>2, <2>3
<1>10. f \in [1 .. q + r + 1 -> 0 .. n]
  BY <1>7
<1> DEFINE m == q + r
<1>11. m \in Nat
  BY <1>1
<1>16. /\ w \in [1 .. m -> 1 .. 8] /\ f \in [1 .. m + 1 -> 0 .. n]
      /\ f[1] = 0 /\ f[m + 1] = n /\ \A k \in 1 .. m : f[k + 1] = f[k] + w[k]
  BY <1>6, <1>8, <1>9, <1>10
<1> HIDE DEF w, f, m
<1>12. /\ Upwards(w) = [k \in 1 .. m |-> <<f[k], w[k]>>]
       /\ Ascends(Upwards(w), 0, n)
  <2>1. Offsets(f, w, m, n)
    BY <1>11, <1>16 DEF Offsets
  <2> QED
    BY <2>1, UpwardsAscends, Zenon
<1>13. Len(Upwards(w)) = m
  <2>1. Len([k \in 1 .. m |-> <<f[k], w[k]>>]) = m
    BY <1>11
  <2> QED
    BY <1>12, <2>1
<1>14. \A k \in 1 .. m : Upwards(w)[k][2] = w[k]
  BY <1>12
<1>15. \A k \in 1 .. Len(Upwards(w)) : Upwards(w)[k][2] <= 4
  BY <1>6, <1>13, <1>14 DEF m
<1> QED
  BY <1>5, <1>12, <1>15

LEMMA BytesAscend ==
  ASSUME NEW n \in Nat
  PROVE  /\ Ascends(GenericMemcpy(n), 0, n)
         /\ Ascends(GenericMemset(n), 0, n)
         /\ \A k \in 1 .. Len(GenericMemset(n)) : GenericMemset(n)[k][2] <= 4
<1>1. Ascends(GenericMemcpy(n), 0, n)
  <2> DEFINE r == n % 4
             rest == [k \in 1 .. r |-> 1]
             g == [k \in 1 .. r + 1 |-> k - 1]
  <2>1. r \in Nat
    OBVIOUS
  <2> HIDE DEF r
  <2>2. rest \in [1 .. r -> 1 .. 4] /\ g \in [1 .. r + 1 -> 0 .. r]
    BY <2>1
  <2>3. g[1] = 0 /\ g[r + 1] = r /\ \A k \in 1 .. r : g[k + 1] = g[k] + rest[k]
    BY <2>1
  <2>4. Times(1, r) = rest
    BY DEF Times
  <2> HIDE DEF g, rest
  <2>5. Ascends(Upwards(Words(n) \o rest), 0, n)
    BY <2>1, <2>2, <2>3, WordsAscend DEF r
  <2> QED
    BY <2>4, <2>5 DEF GenericMemcpy, r
<1>2. /\ GenericMemset(n) = [k \in 1 .. n |-> <<1 * (k - 1), 1>>]
      /\ Ascends(GenericMemset(n), 0, 1 * n)
  BY TimesAscends DEF GenericMemset
<1>3. \A k \in 1 .. Len(GenericMemset(n)) : GenericMemset(n)[k][2] <= 4
  <2>1. Len([k \in 1 .. n |-> <<1 * (k - 1), 1>>]) = n
    OBVIOUS
  <2> QED
    BY <1>2, <2>1
<1> QED
  BY <1>1, <1>2, <1>3

LEMMA ConstantAscend ==
  ASSUME NEW n \in Nat
  PROVE  /\ Ascends(Upwards(Words(n) \o Rest(n)), 0, n)
         /\ \A k \in 1 .. Len(Upwards(Words(n) \o Rest(n))) : Upwards(Words(n) \o Rest(n))[k][2] <= 4
<1> DEFINE r == n % 4
           Claim == /\ Ascends(Upwards(Words(n) \o Rest(n)), 0, n)
                   /\ \A k \in 1 .. Len(Upwards(Words(n) \o Rest(n))) : Upwards(Words(n) \o Rest(n))[k][2] <= 4
           Sums(m, rest, g) ==
             /\ m \in Nat /\ rest \in [1 .. m -> 1 .. 4] /\ g \in [1 .. m + 1 -> 0 .. r]
             /\ g[1] = 0 /\ g[m + 1] = r /\ \A k \in 1 .. m : g[k + 1] = g[k] + rest[k]
<1>1. r \in 0 .. 3
  OBVIOUS
<1>2. \A m, rest, g : Sums(m, rest, g) /\ Rest(n) = rest => Claim
  BY WordsAscend
<1> SUFFICES Claim
  OBVIOUS
<1> HIDE DEF Claim, Sums
<1>3. CASE r = 0
  <2> DEFINE m == 0
             rest == [k \in 1 .. 0 |-> 1]
             g == [k \in 1 .. 1 |-> 0]
  <2>1. Rest(n) = rest
    BY <1>3 DEF Rest
  <2>2. m \in Nat /\ rest \in [1 .. m -> 1 .. 4] /\ g \in [1 .. m + 1 -> 0 .. r] /\ g[1] = 0 /\ g[m + 1] = r
    BY <1>3
  <2>3. \A k \in 1 .. m : g[k + 1] = g[k] + rest[k]
    OBVIOUS
  <2>4. Sums(m, rest, g)
    BY <2>2, <2>3 DEF Sums
  <2> HIDE DEF m, g, rest
  <2> QED
    BY <1>2, <2>1, <2>4
<1>4. CASE r \in {1, 2}
  <2> DEFINE m == 1
             rest == [k \in 1 .. 1 |-> r]
             g == [k \in 1 .. 2 |-> IF k = 1 THEN 0 ELSE r]
  <2>1. Rest(n) = rest
    BY <1>4 DEF Rest
  <2>2. m \in Nat /\ rest \in [1 .. m -> 1 .. 4] /\ g \in [1 .. m + 1 -> 0 .. r] /\ g[1] = 0 /\ g[m + 1] = r
    BY <1>4
  <2>3. \A k \in 1 .. m : g[k + 1] = g[k] + rest[k]
    BY <1>4
  <2>4. Sums(m, rest, g)
    BY <2>2, <2>3 DEF Sums
  <2> HIDE DEF m, g, rest
  <2> QED
    BY <1>2, <2>1, <2>4
<1>5. CASE r = 3
  <2> DEFINE m == 2
             rest == [k \in 1 .. 2 |-> IF k = 1 THEN 2 ELSE 1]
             g == [k \in 1 .. 3 |-> IF k = 1 THEN 0 ELSE k]
  <2>1. Rest(n) = rest
    BY <1>5 DEF Rest
  <2>2. m \in Nat /\ rest \in [1 .. m -> 1 .. 4] /\ g \in [1 .. m + 1 -> 0 .. r] /\ g[1] = 0 /\ g[m + 1] = r
    BY <1>5
  <2>3. \A k \in 1 .. m : g[k + 1] = g[k] + rest[k]
    OBVIOUS
  <2>4. Sums(m, rest, g)
    BY <2>2, <2>3 DEF Sums
  <2> HIDE DEF m, g, rest
  <2> QED
    BY <1>2, <2>1, <2>4
<1> QED
  BY <1>1, <1>3, <1>4, <1>5

-----------------------------------------------------------------------------
(* A copy that goes up has brought the bytes below done, one that goes down *)
(* those from the n-th on, and a fill has written its pattern below done.   *)

MovedFrom(n) ==
  [a \in Addresses |-> IF a \in (call.to + n) .. (call.to + call.size - 1)
                        THEN Source + (a - call.to) ELSE a]

Pattern(fn) == CASE fn = "memsetw" -> Short [] fn = "memsetdw" -> Dword [] OTHER -> Characters
Unit(fn) == IF fn = "memsetw" THEN 2 ELSE 4

Filled(done) ==
  [a \in Addresses |-> IF a \in call.to .. (call.to + done - 1)
                        THEN call.pattern[((a - call.to) % Unit(call.fn)) + 1] ELSE a]

Apart == call.to <= Source \/ call.to >= Source + call.size
GoesDown == call.fn = "memmove" /\ Source < call.to
WritesEight == call.fn = "kernel memset" /\ call.size = 4

BlockInv ==
  call.fn \in Copies \cup Fills =>
    call.to \in 1 .. (2 * MaxSize + 1) /\ call.size \in 0 .. MaxSize

UpInv ==
  \E done, total \in 0 .. MaxSize :
    /\ Ascends(todo, done, total)
    /\ IF call.fn = "kernel __memcpy" THEN call.size = MaxSize ELSE total = call.size
    /\ (call.fn = "memmove" \/ Apart) => mem = Moved(done)

DownInv ==
  \E n \in 0 .. call.size :
    todo = [k \in 1 .. n |-> <<n - k, 1>>] /\ mem = MovedFrom(n)

CopyInv == call.fn \in Copies => IF GoesDown THEN DownInv ELSE UpInv

(* Whether accesses fit the pattern they store. *)
Fitting(accesses, fn) ==
  \A k \in 1 .. Len(accesses) :
    IF fn \in {"memsetw", "memsetdw"}
    THEN accesses[k][2] = Unit(fn) /\ accesses[k][1] % Unit(fn) = 0
    ELSE accesses[k][2] <= 4

FillInv ==
  call.fn \in Fills =>
    /\ call.pattern = Pattern(call.fn)
    /\ \E done, total \in 0 .. (MaxSize + 8) :
         /\ Ascends(todo, done, total)
         /\ ~WritesEight => total = call.size /\ Fitting(todo, call.fn) /\ mem = Filled(done)

CompareInv ==
  call.fn \in Comparisons =>
    /\ call.s \in Strings /\ call.t \in Strings /\ call.size = Len(call.s) - 1
    /\ pair \in 1 .. Len(call.s) /\ pair \in 1 .. Len(call.t)
    /\ \A k \in 1 .. (pair - 1) : call.s[k] = call.t[k] /\ call.s[k] # NUL

IdleInv ==
  /\ call.fn \in {"none"} \cup Comparisons => todo = <<>>
  /\ call = NoCall => mem = Memory /\ pair = 1

LibInv == LibCTypeOK /\ BlockInv /\ CopyInv /\ FillInv /\ CompareInv /\ IdleInv

-----------------------------------------------------------------------------

LEMMA Sizes ==
  MaxSize \in Nat /\ Source = MaxSize + 1 /\ 0 \in 0 .. MaxSize /\ 0 \in 0 .. (MaxSize + 8)
<1>1. MaxSize \in Nat
  BY LibCAssumption
<1>2. \A m \in Nat : 0 \in 0 .. m /\ m + 8 \in Nat
  OBVIOUS
<1> QED
  BY <1>1, <1>2 DEF Source

(* What an access leaves alone, and what it writes. *)
LEMMA AccessWrites ==
  ASSUME NEW done \in Nat, NEW width \in 1 .. 8, todo # <<>>, Head(todo) = <<done, width>>, Access
  PROVE  /\ todo' = Tail(todo) /\ UNCHANGED <<call, pair>>
         /\ mem' = [a \in Addresses |->
                       IF a \in (call.to + done) .. (call.to + done + width - 1)
                       THEN Stored(done, width)[a - (call.to + done) + 1] ELSE mem[a]]
<1>1. Head(todo)[1] = done /\ Head(todo)[2] = width
  OBVIOUS
<1> QED
  BY <1>1, Zenon DEF Access

LEMMA CopyUpStep ==
  ASSUME LibInv, call.fn \in Copies, ~GoesDown, Access
  PROVE  LibInv'
<1>1. PICK done \in 0 .. MaxSize, total \in 0 .. MaxSize :
        /\ Ascends(todo, done, total)
        /\ IF call.fn = "kernel __memcpy" THEN call.size = MaxSize ELSE total = call.size
        /\ (call.fn = "memmove" \/ Apart) => mem = Moved(done)
  BY DEF LibInv, CopyInv, UpInv
<1>2. todo # <<>> /\ done \in Nat /\ total \in Nat
  BY DEF Access
<1>3. PICK width \in 1 .. 8 :
      /\ Head(todo) = <<done, width>> /\ done + width <= total
      /\ Ascends(Tail(todo), done + width, total)
  BY <1>1, <1>2, AscendsTail
<1>4. /\ todo' = Tail(todo) /\ UNCHANGED <<call, pair>>
      /\ mem' = [a \in Addresses |->
                    IF a \in (call.to + done) .. (call.to + done + width - 1)
                    THEN Stored(done, width)[a - (call.to + done) + 1] ELSE mem[a]]
  BY <1>2, <1>3, AccessWrites
<1>5. /\ call.to \in Nat /\ call.to >= 1 /\ call.size \in 0 .. MaxSize /\ total <= call.size
      /\ mem \in [Addresses -> Int] /\ pair \in 1 .. MaxLength
  <2>1. call.to \in 1 .. (2 * MaxSize + 1) /\ call.size \in 0 .. MaxSize
    BY DEF LibInv, BlockInv
  <2>2. mem \in [Addresses -> Int] /\ pair \in 1 .. MaxLength
    BY DEF LibInv, LibCTypeOK
  <2>3. total <= call.size
    <3>1. total = call.size \/ call.size = MaxSize
      BY <1>1
    <3>2. total \in 0 .. MaxSize
      BY <1>1
    <3> QED
      BY <2>1, <3>1, <3>2, Sizes
  <2> QED
    BY <2>1, <2>2, <2>3, Arithmetic
<1>6. \A a \in Addresses : a \in (call.to + done) .. (call.to + done + width - 1) =>
        /\ Source + (a - call.to) \in Addresses
        /\ Stored(done, width)[a - (call.to + done) + 1] = mem[Source + (a - call.to)]
  <2> TAKE a \in Addresses
  <2> HAVE a \in (call.to + done) .. (call.to + done + width - 1)
  <2>1. a - (call.to + done) + 1 \in 1 .. width
    BY <1>3, <1>5, Arithmetic
  <2>2. Source + done + (a - (call.to + done) + 1) - 1 = Source + (a - call.to)
    BY <1>5, Sizes, Arithmetic
  <2>3. Source + (a - call.to) \in Addresses
    <3> DEFINE d == a - call.to
    <3>1. d \in 0 .. MaxSize
      BY <1>3, <1>5, Arithmetic
    <3> HIDE DEF d
    <3>2. MaxSize \in Nat /\ Source = MaxSize + 1
      BY Arithmetic
    <3>3. Source + d \in 1 .. (3 * MaxSize + 8)
      BY <3>1, <3>2
    <3> QED
      BY <3>3 DEF Addresses, d
  <2>4. Stored(done, width) = [k \in 1 .. width |-> mem[Source + done + k - 1]]
    BY DEF Stored
  <2> QED
    BY <2>1, <2>2, <2>3, <2>4
<1>7. mem' \in [Addresses -> Int]
  BY <1>4, <1>5, <1>6
<1>8. call.fn = "memmove" \/ Apart => mem' = Moved(done + width)
  <2> SUFFICES ASSUME call.fn = "memmove" \/ Apart PROVE mem' = Moved(done + width)
    OBVIOUS
  <2>1. mem = Moved(done)
    BY <1>1
  <2>2. call.to <= Source \/ call.to >= Source + call.size
    BY <1>5, Arithmetic DEF GoesDown, Apart
  <2>3. ASSUME NEW a \in Addresses
        PROVE  mem'[a] = IF a \in call.to .. (call.to + (done + width) - 1)
                         THEN Source + (a - call.to) ELSE Memory[a]
    <3>1. CASE a \in (call.to + done) .. (call.to + done + width - 1)
      <4> DEFINE x == Source + (a - call.to)
      <4>1. x \in Addresses /\ mem'[a] = mem[x]
        BY <1>4, <1>6, <3>1
      <4>2. x \notin call.to .. (call.to + done - 1)
        BY <1>3, <1>5, <2>2, <3>1, Arithmetic
      <4>3. mem[x] = Memory[x]
        BY <2>1, <4>1, <4>2 DEF Moved
      <4>4. a \in call.to .. (call.to + (done + width) - 1)
        BY <1>3, <1>5, <3>1, Arithmetic
      <4> QED
        BY <4>1, <4>3, <4>4, Arithmetic
    <3>2. CASE a \notin (call.to + done) .. (call.to + done + width - 1)
      <4>1. mem'[a] = mem[a]
        BY <1>4, <3>2
      <4>2. a \in call.to .. (call.to + (done + width) - 1) <=> a \in call.to .. (call.to + done - 1)
        BY <1>3, <1>5, <3>2, Arithmetic
      <4> QED
        BY <2>1, <4>1, <4>2 DEF Moved
    <3> QED
      BY <3>1, <3>2
  <2> QED
    BY <1>7, <2>3 DEF Moved
<1>9. UpInv'
  <2> DEFINE next == done + width
  <2>1. next \in 0 .. MaxSize
    <3>1. total \in 0 .. MaxSize /\ done \in 0 .. MaxSize
      BY <1>1
    <3> QED
      BY <1>3, <3>1, Sizes
  <2>2. /\ Ascends(todo', next, total)
        /\ IF call'.fn = "kernel __memcpy" THEN call'.size = MaxSize ELSE total = call'.size
        /\ (call'.fn = "memmove" \/ Apart') => mem' = Moved(next)'
    <3>1. Apart' <=> Apart
      BY <1>4 DEF Apart
    <3>2. Moved(next)' = Moved(next)
      BY <1>4 DEF Moved
    <3> QED
      BY <1>1, <1>3, <1>4, <1>8, <3>1, <3>2
  <2> HIDE DEF next
  <2> QED
    BY <2>1, <2>2 DEF UpInv
<1>10. call.fn \notin {"none"} \cup Fills \cup Comparisons /\ call # NoCall
  <2>1. call.fn \notin {"none"} \cup Fills \cup Comparisons
    BY DEF Copies, Fills, Comparisons
  <2>2. NoCall.fn = "none"
    BY DEF NoCall
  <2> QED
    BY <2>1, <2>2
<1> QED
  <2>1. LibCTypeOK' /\ BlockInv'
    BY <1>4, <1>7 DEF LibInv, LibCTypeOK, BlockInv
  <2>2. CopyInv'
    BY <1>4, <1>9 DEF CopyInv, GoesDown
  <2>3. FillInv' /\ CompareInv' /\ IdleInv'
    BY <1>4, <1>10 DEF FillInv, CompareInv, IdleInv
  <2> QED
    BY <2>1, <2>2, <2>3 DEF LibInv

LEMMA CopyDownStep ==
  ASSUME LibInv, call.fn \in Copies, GoesDown, Access
  PROVE  LibInv'
<1>1. PICK n \in 0 .. call.size :
        todo = [k \in 1 .. n |-> <<n - k, 1>>] /\ mem = MovedFrom(n)
  BY DEF LibInv, CopyInv, DownInv
<1>2. call.to \in 1 .. (2 * MaxSize + 1) /\ call.size \in 0 .. MaxSize /\ Source < call.to
  BY DEF LibInv, BlockInv, GoesDown
<1>3. mem \in [Addresses -> Int] /\ pair \in 1 .. MaxLength
  BY DEF LibInv, LibCTypeOK
<1>4. n \in Nat /\ n <= MaxSize
  BY <1>2, Sizes
<1>5. Len(todo) = n /\ todo \in Seq(Nat \X {1}) /\ \A k \in 1 .. n : todo[k] = <<n - k, 1>>
  <2> DEFINE T == Nat \X {1}
  <2>1. \A k \in 1 .. n : <<n - k, 1>> \in T
    BY <1>4
  <2> HIDE DEF T
  <2>2. todo \in [1 .. n -> T]
    BY <1>1, <2>1
  <2>3. todo \in Seq(T) /\ Len(todo) = n
    BY <1>4, <2>2
  <2> QED
    BY <1>1, <2>3 DEF T
<1>6. n # 0
  <2>1. todo # <<>>
    BY DEF Access
  <2> QED
    BY <1>5, <2>1
<1> DEFINE m == n - 1
<1>7. m \in Nat /\ m < n /\ m \in 0 .. call.size
  BY <1>2, <1>4, <1>6, Sizes
<1>8. todo # <<>> /\ Head(todo) = <<m, 1>> /\ Tail(todo) = [k \in 1 .. m |-> <<m - k, 1>>]
  <2> DEFINE T == Nat \X {1}
  <2>1. todo \in Seq(T)
    BY <1>5
  <2> HIDE DEF T
  <2>2. /\ todo # <<>> /\ Head(todo) = todo[1]
        /\ Tail(todo) \in Seq(T) /\ Len(Tail(todo)) = m
        /\ \A k \in 1 .. m : Tail(todo)[k] = todo[k + 1]
    BY <1>4, <1>5, <1>6, <2>1
  <2>3. \A k \in 1 .. m : Tail(todo)[k] = <<m - k, 1>>
    BY <1>4, <1>5, <1>6, <2>2
  <2>4. Tail(todo) = [k \in 1 .. m |-> Tail(todo)[k]]
    <3>1. \A s \in Seq(T) : s = [k \in 1 .. Len(s) |-> s[k]]
      OBVIOUS
    <3> QED
      BY <2>2, <3>1
  <2>5. Head(todo) = <<m, 1>>
    BY <1>4, <1>5, <1>6, <2>2
  <2> QED
    BY <2>2, <2>3, <2>4, <2>5
<1> HIDE DEF m
<1>9. /\ todo' = Tail(todo) /\ UNCHANGED <<call, pair>>
      /\ mem' = [a \in Addresses |->
                    IF a \in (call.to + m) .. (call.to + m + 1 - 1)
                    THEN Stored(m, 1)[a - (call.to + m) + 1] ELSE mem[a]]
  BY <1>7, <1>8, AccessWrites
<1>10. \A a \in Addresses : mem[a] = IF a \in (call.to + n) .. (call.to + call.size - 1)
                                      THEN Source + (a - call.to) ELSE a
  BY <1>1 DEF MovedFrom
<1> DEFINE x == Source + m
<1>11. x \in Addresses /\ mem[x] = x
  <2>1. x \in Addresses
    BY <1>4, <1>7, Sizes DEF Addresses
  <2>2. x \notin (call.to + n) .. (call.to + call.size - 1)
    BY <1>2, <1>7, Sizes
  <2> QED
    BY <1>10, <2>1, <2>2
<1> HIDE DEF x
<1>12. Stored(m, 1)[1] = x
  <2>1. Stored(m, 1) = [k \in 1 .. 1 |-> mem[Source + m + k - 1]]
    BY DEF Stored
  <2>2. Source + m + 1 - 1 = x
    BY <1>7, Sizes DEF x
  <2> QED
    BY <1>11, <2>1, <2>2
<1>13. \A a \in Addresses :
         mem'[a] = IF a \in (call.to + m) .. (call.to + call.size - 1)
                   THEN Source + (a - call.to) ELSE a
  <2> TAKE a \in Addresses
  <2>1. a \in Nat
    BY DEF Addresses
  <2>2. CASE a = call.to + m
    <3>1. a \in (call.to + m) .. (call.to + m + 1 - 1) /\ a - (call.to + m) + 1 = 1
      BY <1>2, <1>7, <2>2, Sizes
    <3>2. mem'[a] = x
      BY <1>9, <1>12, <3>1
    <3>3. a \in (call.to + m) .. (call.to + call.size - 1) /\ Source + (a - call.to) = x
      BY <1>2, <1>4, <1>7, <2>2, Sizes DEF x, m
    <3> QED
      BY <3>2, <3>3
  <2>3. CASE a # call.to + m
    <3>1. a \notin (call.to + m) .. (call.to + m + 1 - 1)
      BY <1>2, <1>7, <2>1, <2>3, Sizes
    <3>2. mem'[a] = mem[a]
      BY <1>9, <3>1
    <3>3. a \in (call.to + m) .. (call.to + call.size - 1) <=> a \in (call.to + n) .. (call.to + call.size - 1)
      BY <1>2, <1>4, <1>7, <2>1, <2>3, Sizes DEF m
    <3> QED
      BY <1>10, <3>2, <3>3
  <2> QED
    BY <2>2, <2>3
<1>14. mem' = MovedFrom(m)
  BY <1>9, <1>13 DEF MovedFrom
<1>15. mem' \in [Addresses -> Int]
  <2>1. \A a \in Addresses : mem'[a] \in Int
    BY <1>2, <1>13, Sizes DEF Addresses
  <2> QED
    BY <1>9, <2>1
<1>16. DownInv'
  <2>1. PICK w \in 0 .. call.size : w = m
    BY <1>7
  <2>2. todo' = [k \in 1 .. w |-> <<w - k, 1>>] /\ mem' = MovedFrom(w)'
    BY <1>8, <1>9, <1>14, <2>1 DEF MovedFrom
  <2> QED
    BY <1>9, <2>2 DEF DownInv
<1>17. call.fn \notin {"none"} \cup Fills \cup Comparisons /\ call # NoCall
  <2>1. call.fn \notin {"none"} \cup Fills \cup Comparisons
    BY DEF Copies, Fills, Comparisons
  <2>2. NoCall.fn = "none"
    BY DEF NoCall
  <2> QED
    BY <2>1, <2>2
<1> QED
  <2>1. LibCTypeOK' /\ BlockInv'
    BY <1>9, <1>15 DEF LibInv, LibCTypeOK, BlockInv
  <2>2. CopyInv'
    BY <1>9, <1>16 DEF CopyInv, GoesDown
  <2>3. FillInv' /\ CompareInv' /\ IdleInv'
    BY <1>9, <1>17 DEF FillInv, CompareInv, IdleInv
  <2> QED
    BY <2>1, <2>2, <2>3 DEF LibInv

(* The bytes of the patterns. *)
LEMMA Patterns ==
  ASSUME NEW fn \in Fills, NEW width \in 1 .. Len(Pattern(fn))
  PROVE  /\ SubSeq(Pattern(fn), 1, width) = [k \in 1 .. width |-> Pattern(fn)[k]]
         /\ \A k \in 1 .. width : Pattern(fn)[k] \in Int
         /\ fn \notin {"memsetw", "memsetdw"} => \A k \in 1 .. 4 : Pattern(fn)[k] = -1
<1>1. CASE fn = "memsetw"
  BY <1>1 DEF Pattern, Short
<1>2. CASE fn = "memsetdw"
  BY <1>2 DEF Pattern, Dword
<1>3. CASE fn \notin {"memsetw", "memsetdw"}
  BY <1>3 DEF Pattern, Characters
<1> QED
  BY <1>1, <1>2, <1>3

LEMMA FillStep ==
  ASSUME LibInv, call.fn \in Fills, Access
  PROVE  LibInv'
<1>1. PICK done \in 0 .. (MaxSize + 8), total \in 0 .. (MaxSize + 8) :
        /\ Ascends(todo, done, total)
        /\ ~WritesEight => total = call.size /\ Fitting(todo, call.fn) /\ mem = Filled(done)
  BY DEF LibInv, FillInv
<1>2. todo # <<>> /\ done \in Nat /\ total \in Nat
  BY DEF Access
<1>3. PICK width \in 1 .. 8 :
      /\ Head(todo) = <<done, width>> /\ done + width <= total /\ todo[1] = <<done, width>>
      /\ Ascends(Tail(todo), done + width, total)
  BY <1>1, <1>2, AscendsTail
<1>4. /\ todo' = Tail(todo) /\ UNCHANGED <<call, pair>>
      /\ mem' = [a \in Addresses |->
                    IF a \in (call.to + done) .. (call.to + done + width - 1)
                    THEN Stored(done, width)[a - (call.to + done) + 1] ELSE mem[a]]
  BY <1>2, <1>3, AccessWrites
<1>5. call.to \in Nat /\ mem \in [Addresses -> Int] /\ pair \in 1 .. MaxLength /\ call.size \in Nat
  <2>1. call.to \in 1 .. (2 * MaxSize + 1) /\ call.size \in 0 .. MaxSize
    BY DEF LibInv, BlockInv
  <2> QED
    BY <2>1, Sizes DEF LibInv, LibCTypeOK
<1>6. call.pattern = Pattern(call.fn)
  BY DEF LibInv, FillInv
<1>7. Len(todo) \in Nat /\ 1 \in 1 .. Len(todo)
  <2>1. todo \in Seq(Nat \X (1 .. 8))
    BY <1>1 DEF Ascends
  <2> DEFINE T == Nat \X (1 .. 8)
  <2> HIDE DEF T
  <2>2. todo \in Seq(T)
    BY <2>1 DEF T
  <2> QED
    BY <1>2, <2>2
<1>8. ~WritesEight => IF call.fn \in {"memsetw", "memsetdw"}
                      THEN width = Unit(call.fn) /\ done % Unit(call.fn) = 0 ELSE width <= 4
  BY <1>1, <1>3, <1>7 DEF Fitting
<1>9. width <= Len(Pattern(call.fn))
  <2>1. CASE call.fn = "memsetw"
    BY <1>8, <2>1 DEF Pattern, Short, Unit, WritesEight
  <2>2. CASE call.fn = "memsetdw"
    BY <1>8, <2>2 DEF Pattern, Dword, Unit, WritesEight
  <2>3. CASE call.fn \notin {"memsetw", "memsetdw"}
    BY <1>3, <2>3 DEF Pattern, Characters
  <2> QED
    BY <2>1, <2>2, <2>3
<1>10. /\ Stored(done, width) = [k \in 1 .. width |-> Pattern(call.fn)[k]]
       /\ \A k \in 1 .. width : Pattern(call.fn)[k] \in Int
       /\ call.fn \notin {"memsetw", "memsetdw"} => \A k \in 1 .. 4 : Pattern(call.fn)[k] = -1
  <2>1. call.fn \notin Copies
    BY DEF Copies, Fills
  <2>2. Stored(done, width) = SubSeq(call.pattern, 1, width)
    BY <2>1 DEF Stored
  <2>3. width \in 1 .. Len(Pattern(call.fn))
    BY <1>9 DEF Pattern, Short, Dword, Characters
  <2> QED
    BY <1>6, <2>2, <2>3, Patterns
<1>11. \A a \in Addresses : a \in (call.to + done) .. (call.to + done + width - 1) =>
         mem'[a] = Pattern(call.fn)[a - (call.to + done) + 1] /\ mem'[a] \in Int
  <2> TAKE a \in Addresses
  <2> HAVE a \in (call.to + done) .. (call.to + done + width - 1)
  <2>1. a - (call.to + done) + 1 \in 1 .. width
    <3>1. call.to + done \in Nat /\ width \in Nat
      BY <1>2, <1>5
    <3> QED
      BY <3>1
  <2> QED
    BY <1>4, <1>10, <2>1
<1>12. mem' \in [Addresses -> Int]
  <2>1. \A a \in Addresses : mem'[a] \in Int
    BY <1>4, <1>5, <1>11
  <2> QED
    BY <1>4, <2>1
<1>13. ~WritesEight => mem' = Filled(done + width)
  <2> SUFFICES ASSUME ~WritesEight PROVE mem' = Filled(done + width)
    OBVIOUS
  <2> DEFINE u == Unit(call.fn)
  <2>1. mem = Filled(done)
    BY <1>1
  <2>2. ASSUME NEW a \in Addresses
        PROVE  mem'[a] = IF a \in call.to .. (call.to + (done + width) - 1)
                         THEN call.pattern[((a - call.to) % u) + 1] ELSE a
    <3>0. a \in Nat
      BY DEF Addresses
    <3>1. CASE a \in (call.to + done) .. (call.to + done + width - 1)
      <4>1. a \in call.to .. (call.to + (done + width) - 1)
        BY <1>2, <1>5, <3>1
      <4> DEFINE d == a - (call.to + done)
      <4>2. d \in Nat /\ d < width /\ a - call.to = done + d /\ d + 1 \in 1 .. width
        <5>1. call.to + done <= a /\ a <= call.to + done + width - 1
          BY <1>2, <1>5, <3>0, <3>1
        <5>2. call.to \in Nat /\ done \in Nat /\ width \in Nat
          BY <1>2, <1>5
        <5>3. \A x, b, c, w \in Nat : b + c <= x /\ x <= b + c + w - 1 =>
                x - (b + c) \in Nat /\ x - (b + c) < w /\ x - b = c + (x - (b + c))
          OBVIOUS
        <5>4. d \in Nat /\ d < width /\ a - call.to = done + d
          BY <3>0, <5>1, <5>2, <5>3
        <5> HIDE DEF d
        <5> QED
          BY <5>2, <5>4
      <4>3. mem'[a] = Pattern(call.fn)[d + 1]
        BY <1>11, <3>1
      <4> HIDE DEF d
      <4>4. Pattern(call.fn)[d + 1] = Pattern(call.fn)[((a - call.to) % u) + 1]
        <5>1. CASE call.fn \in {"memsetw", "memsetdw"}
          <6>1. width = u /\ done % u = 0 /\ u \in {2, 4}
            BY <1>8, <5>1 DEF Unit
          <6>2. (done + d) % u = d
            <7>1. CASE u = 2
              BY <1>2, <4>2, <6>1, <7>1
            <7>2. CASE u = 4
              BY <1>2, <4>2, <6>1, <7>2
            <7> QED
              BY <6>1, <7>1, <7>2
          <6> QED
            BY <4>2, <6>2
        <5>2. CASE call.fn \notin {"memsetw", "memsetdw"}
          <6>1. width <= 4 /\ u = 4
            BY <1>8, <5>2 DEF Unit
          <6>2. d + 1 \in 1 .. 4 /\ ((a - call.to) % u) + 1 \in 1 .. 4
            BY <1>2, <4>2, <6>1
          <6> QED
            BY <1>10, <5>2, <6>2
        <5> QED
          BY <5>1, <5>2
      <4> QED
        BY <1>6, <4>1, <4>3, <4>4
    <3>2. CASE a \notin (call.to + done) .. (call.to + done + width - 1)
      <4>1. mem'[a] = mem[a]
        BY <1>4, <3>2
      <4>2. a \in call.to .. (call.to + (done + width) - 1) <=> a \in call.to .. (call.to + done - 1)
        <5>1. call.to \in Nat /\ done \in Nat /\ width \in Nat /\ width >= 1
          BY <1>2, <1>5
        <5>2. ~(call.to + done <= a /\ a <= call.to + done + width - 1)
          BY <3>0, <3>2, <5>1
        <5> QED
          BY <3>0, <5>1, <5>2
      <4> QED
        BY <2>1, <4>1, <4>2 DEF Filled
    <3> QED
      BY <3>1, <3>2
  <2> QED
    BY <1>12, <2>2 DEF Filled
<1>14. FillInv'
  <2> DEFINE next == done + width
  <2>1. next \in 0 .. (MaxSize + 8) /\ total \in 0 .. (MaxSize + 8)
    <3>1. total \in 0 .. (MaxSize + 8)
      BY <1>1
    <3> QED
      BY <1>2, <1>3, <3>1, Sizes
  <2>2. WritesEight' <=> WritesEight
    BY <1>4 DEF WritesEight
  <2>3. Fitting(todo, call.fn) => Fitting(Tail(todo), call.fn)
    <3> DEFINE T == Nat \X (1 .. 8)
    <3>1. todo \in Seq(T)
      BY <1>1 DEF Ascends
    <3> HIDE DEF T
    <3>2. Len(Tail(todo)) = Len(todo) - 1 /\ \A k \in 1 .. Len(Tail(todo)) : Tail(todo)[k] = todo[k + 1]
      BY <1>2, <3>1
    <3>3. \A k \in 1 .. Len(Tail(todo)) : k + 1 \in 1 .. Len(todo)
      BY <1>7, <3>2
    <3> QED
      BY <3>2, <3>3 DEF Fitting
  <2>4. Filled(next)' = Filled(next)
    BY <1>4 DEF Filled
  <2>5. /\ Ascends(todo', next, total)
        /\ ~WritesEight' => total = call'.size /\ Fitting(todo', call'.fn) /\ mem' = Filled(next)'
    BY <1>1, <1>3, <1>4, <1>13, <2>2, <2>3, <2>4
  <2> HIDE DEF next
  <2>6. call'.pattern = Pattern(call'.fn)
    BY <1>4, <1>6
  <2> QED
    BY <2>1, <2>5, <2>6 DEF FillInv
<1>15. call.fn \notin {"none"} \cup Copies \cup Comparisons /\ call # NoCall
  <2>1. call.fn \notin {"none"} \cup Copies \cup Comparisons
    BY DEF Copies, Fills, Comparisons
  <2>2. NoCall.fn = "none"
    BY DEF NoCall
  <2> QED
    BY <2>1, <2>2
<1> QED
  <2>1. LibCTypeOK' /\ BlockInv'
    BY <1>4, <1>12 DEF LibInv, LibCTypeOK, BlockInv
  <2>2. CopyInv' /\ CompareInv' /\ IdleInv'
    BY <1>4, <1>15 DEF CopyInv, CompareInv, IdleInv
  <2> QED
    BY <1>14, <2>1, <2>2 DEF LibInv

-----------------------------------------------------------------------------
(* Strings end where their NUL is. *)

LEMMA CompareStep ==
  ASSUME LibInv, Compare
  PROVE  LibInv'
<1>1. call.fn \in Comparisons /\ MoreAlike /\ pair' = pair + 1 /\ UNCHANGED <<mem, call, todo>>
  BY DEF Compare
<1>2. /\ call.s \in Strings /\ call.t \in Strings /\ call.size = Len(call.s) - 1
      /\ pair \in 1 .. Len(call.s) /\ pair \in 1 .. Len(call.t)
      /\ \A k \in 1 .. (pair - 1) : call.s[k] = call.t[k] /\ call.s[k] # NUL
  BY <1>1 DEF LibInv, CompareInv
<1>3. /\ Len(call.s) \in 1 .. MaxLength /\ \A k \in 1 .. Len(call.s) : call.s[k] = NUL <=> k = Len(call.s)
      /\ Len(call.t) \in 1 .. MaxLength /\ \A k \in 1 .. Len(call.t) : call.t[k] = NUL <=> k = Len(call.t)
  BY <1>2, StringsEnd
<1>4. call.s[pair] = call.t[pair] /\ call.s[pair] # NUL
  <2>1. call.s[pair] = call.t[pair] /\ (MemcmpMore \/ StrcmpMore)
    BY <1>1 DEF MoreAlike
  <2>2. MemcmpMore => pair # Len(call.s)
    BY <1>2, <1>3 DEF MemcmpMore
  <2> QED
    BY <1>2, <1>3, <2>1, <2>2 DEF StrcmpMore
<1>5. pair' \in 1 .. Len(call.s) /\ pair' \in 1 .. Len(call.t)
  BY <1>1, <1>2, <1>3, <1>4
<1>6. \A k \in 1 .. (pair' - 1) : call.s[k] = call.t[k] /\ call.s[k] # NUL
  <2> TAKE k \in 1 .. (pair' - 1)
  <2>1. k = pair \/ k \in 1 .. (pair - 1)
    BY <1>1, <1>2, <1>3
  <2> QED
    BY <1>2, <1>4, <2>1
<1>7. CompareInv'
  BY <1>1, <1>2, <1>5, <1>6 DEF CompareInv
<1>8. call.fn \notin Copies \cup Fills /\ call # NoCall
  <2>1. call.fn \notin {"none"} \cup Copies \cup Fills
    BY <1>1 DEF Copies, Fills, Comparisons
  <2>2. NoCall.fn = "none"
    BY DEF NoCall
  <2> QED
    BY <2>1, <2>2
<1>9. LibCTypeOK'
  <2>1. pair' \in 1 .. MaxLength
    BY <1>3, <1>5, Arithmetic
  <2> QED
    BY <1>1, <2>1 DEF LibInv, LibCTypeOK
<1> QED
  BY <1>1, <1>7, <1>8, <1>9 DEF LibInv, BlockInv, CopyInv, FillInv, IdleInv

-----------------------------------------------------------------------------
(* The beginning of a call. *)

LEMMA BeginBlock ==
  ASSUME LibInv, NEW fn \in Copies \cup Fills, NEW to \in 1 .. (2 * MaxSize + 1),
         NEW size \in 0 .. MaxSize, NEW pattern, NEW accesses,
         Begin(fn, to, size, pattern, accesses)
  PROVE  /\ call'.fn = fn /\ call'.to = to /\ call'.size = size /\ call'.pattern = pattern
         /\ todo' = accesses /\ mem' = Memory /\ mem' = Moved(0)' /\ mem' = Filled(0)'
         /\ LibCTypeOK' /\ BlockInv' /\ CompareInv' /\ IdleInv'
<1>1. call = NoCall /\ call' = [fn |-> fn, to |-> to, size |-> size, pattern |-> pattern]
      /\ todo' = accesses /\ UNCHANGED <<mem, pair>>
  BY Zenon DEF Begin
<1>2. call'.fn = fn /\ call'.to = to /\ call'.size = size /\ call'.pattern = pattern
  BY <1>1
<1>3. mem' = Memory
  BY <1>1 DEF LibInv, IdleInv
<1>4. to \in Nat /\ \A a \in Addresses : a \notin to .. (to + 0 - 1)
  BY Sizes DEF Addresses
<1>5. mem' = Moved(0)' /\ mem' = Filled(0)'
  BY <1>2, <1>3, <1>4 DEF Moved, Filled, Memory
<1>6. fn \notin {"none"} \cup Comparisons /\ call' # NoCall
  <2>1. fn \notin {"none"} \cup Comparisons
    BY DEF Copies, Fills, Comparisons
  <2>2. NoCall.fn = "none"
    BY DEF NoCall
  <2> QED
    BY <1>2, <2>1, <2>2
<1>7. LibCTypeOK' /\ BlockInv'
  BY <1>1, <1>2, <1>3, Arithmetic DEF LibInv, LibCTypeOK, BlockInv
<1>8. CompareInv' /\ IdleInv'
  BY <1>2, <1>6 DEF CompareInv, IdleInv
<1> QED
  BY <1>1, <1>2, <1>3, <1>5, <1>7, <1>8

LEMMA BeginUp ==
  ASSUME LibInv, NEW fn \in Copies, NEW to \in 1 .. (2 * MaxSize + 1),
         NEW size \in 0 .. MaxSize, NEW total \in 0 .. MaxSize, NEW accesses,
         Begin(fn, to, size, <<>>, accesses), Ascends(accesses, 0, total),
         IF fn = "kernel __memcpy" THEN size = MaxSize ELSE total = size,
         ~(fn = "memmove" /\ Source < to)
  PROVE  LibInv'
<1>1. fn \in Copies \cup Fills
  OBVIOUS
<1>2. /\ call'.fn = fn /\ call'.to = to /\ call'.size = size
      /\ todo' = accesses /\ mem' = Moved(0)'
      /\ LibCTypeOK' /\ BlockInv' /\ CompareInv' /\ IdleInv'
  BY <1>1, BeginBlock
<1>3. UpInv'
  <2>1. /\ Ascends(todo', 0, total)
        /\ IF call'.fn = "kernel __memcpy" THEN call'.size = MaxSize ELSE total = call'.size
        /\ (call'.fn = "memmove" \/ Apart') => mem' = Moved(0)'
    BY <1>2
  <2>2. 0 \in 0 .. MaxSize
    BY Sizes
  <2> QED
    BY <2>1, <2>2 DEF UpInv
<1>4. CopyInv'
  BY <1>2, <1>3 DEF CopyInv, GoesDown
<1>5. FillInv'
  BY <1>2 DEF FillInv, Copies, Fills
<1> QED
  BY <1>2, <1>4, <1>5 DEF LibInv

LEMMA BeginDown ==
  ASSUME LibInv, NEW to \in 1 .. (2 * MaxSize + 1), NEW size \in 0 .. MaxSize,
         Begin("memmove", to, size, <<>>, [k \in 1 .. size |-> <<size - k, 1>>]), Source < to
  PROVE  LibInv'
<1>1. "memmove" \in Copies \cup Fills
  BY DEF Copies
<1> DEFINE accesses == [k \in 1 .. size |-> <<size - k, 1>>]
<1> HIDE DEF accesses
<1>2. Begin("memmove", to, size, <<>>, accesses)
  BY DEF accesses
<1>3. /\ call'.fn = "memmove" /\ call'.to = to /\ call'.size = size
      /\ todo' = accesses /\ mem' = Memory
      /\ LibCTypeOK' /\ BlockInv' /\ CompareInv' /\ IdleInv'
  BY <1>1, <1>2, BeginBlock
<1>4. to \in Nat /\ size \in Nat /\ size \in 0 .. size
  BY Sizes
<1>5. \A a \in Addresses : a \notin (to + size) .. (to + size - 1)
  BY <1>4 DEF Addresses
<1>6. mem' = MovedFrom(size)'
  BY <1>3, <1>5 DEF MovedFrom, Memory
<1>7. DownInv'
  <2>1. todo' = [k \in 1 .. size |-> <<size - k, 1>>] /\ mem' = MovedFrom(size)' /\ size \in 0 .. call'.size
    BY <1>3, <1>4, <1>6 DEF accesses
  <2> QED
    BY <2>1 DEF DownInv
<1>8. CopyInv'
  BY <1>3, <1>7 DEF CopyInv, GoesDown
<1>9. FillInv'
  BY <1>3 DEF FillInv, Fills
<1> QED
  BY <1>3, <1>8, <1>9 DEF LibInv

LEMMA BeginFill ==
  ASSUME LibInv, NEW fn \in Fills, NEW to \in 1 .. (2 * MaxSize + 1),
         NEW size \in 0 .. MaxSize, NEW total \in 0 .. (MaxSize + 8), NEW accesses,
         Begin(fn, to, size, Pattern(fn), accesses), Ascends(accesses, 0, total),
         (fn = "kernel memset" /\ size = 4) \/ (total = size /\ Fitting(accesses, fn))
  PROVE  LibInv'
<1>1. fn \in Copies \cup Fills
  OBVIOUS
<1>2. /\ call'.fn = fn /\ call'.to = to /\ call'.size = size /\ call'.pattern = Pattern(fn)
      /\ todo' = accesses /\ mem' = Filled(0)'
      /\ LibCTypeOK' /\ BlockInv' /\ CompareInv' /\ IdleInv'
  BY <1>1, BeginBlock
<1>3. /\ Ascends(todo', 0, total)
      /\ ~WritesEight' => total = call'.size /\ Fitting(todo', call'.fn) /\ mem' = Filled(0)'
  BY <1>2 DEF WritesEight
<1>4. 0 \in 0 .. (MaxSize + 8)
  BY Sizes
<1>5. FillInv'
  <2>1. call'.pattern = Pattern(call'.fn)
    BY <1>2
  <2> QED
    BY <1>3, <1>4, <2>1 DEF FillInv
<1>6. CopyInv'
  BY <1>2 DEF CopyInv, Copies, Fills
<1> QED
  BY <1>2, <1>5, <1>6 DEF LibInv

LEMMA BeginCopy ==
  ASSUME LibInv, NEW distance \in Distances, NEW n \in 0 .. MaxSize,
         Copy(Source + distance, n) \/ (n = MaxSize /\ KernelMemcpy(Source + distance, n))
  PROVE  LibInv'
<1> DEFINE to == Source + distance
<1>1. to \in 1 .. (2 * MaxSize + 1)
  <2>1. distance \in (-MaxSize) .. MaxSize
    BY LibCAssumption
  <2> QED
    BY <2>1, Sizes
<1> HIDE DEF to
<1>2. n \in Nat /\ 0 \in 0 .. MaxSize
  BY Sizes
<1>3. CASE Begin("memcpy", to, n, <<>>, GenericMemcpy(n)) \/ Begin("memcpy", to, n, <<>>, ConstantMemcpy(n))
  <2>1. Ascends(GenericMemcpy(n), 0, n) /\ Ascends(ConstantMemcpy(n), 0, n)
    BY <1>2, BytesAscend, ConstantAscend DEF ConstantMemcpy
  <2>2. "memcpy" \in Copies
    BY DEF Copies
  <2>3. \A accesses : Begin("memcpy", to, n, <<>>, accesses) /\ Ascends(accesses, 0, n) => LibInv'
    BY <1>1, <2>2, BeginUp
  <2> QED
    BY <1>3, <2>1, <2>3
<1>4. CASE Begin("memmove", to, n, <<>>, Memmove(to, n))
  <2>1. "memmove" \in Copies
    BY DEF Copies
  <2>2. CASE Source < to
    <3>1. Memmove(to, n) = [k \in 1 .. n |-> <<n - k, 1>>]
      BY <2>2, Zenon DEF Memmove
    <3>2. Begin("memmove", to, n, <<>>, [k \in 1 .. n |-> <<n - k, 1>>])
      BY <1>4, <3>1
    <3> QED
      BY <1>1, <2>2, <3>2, BeginDown
  <2>3. CASE to < Source
    <3>1. Memmove(to, n) = Upwards(Times(1, n))
      BY <1>1, <2>3, Sizes DEF Memmove
    <3>2. Ascends(Memmove(to, n), 0, n)
      BY <1>2, <3>1, TimesAscends
    <3>3. ~(Source < to)
      BY <1>1, <2>3, Sizes
    <3> QED
      BY <1>1, <1>4, <2>1, <3>2, <3>3, BeginUp
  <2>4. CASE to = Source
    <3>1. Memmove(to, n) = <<>> /\ ~(Source < to)
      BY <1>1, <2>4, Sizes DEF Memmove
    <3>2. Begin("memmove", to, n, <<>>, <<>>)
      BY <1>4, <3>1
    <3>3. "memmove" \in Copies \cup Fills
      BY <2>1
    <3>4. /\ call'.fn = "memmove" /\ call'.to = to /\ call'.size = n
          /\ todo' = <<>> /\ mem' = Memory
          /\ LibCTypeOK' /\ BlockInv' /\ CompareInv' /\ IdleInv'
      BY <1>1, <3>2, <3>3, BeginBlock
    <3>5. mem' = Moved(n)'
      <4>1. \A a \in Addresses : Memory[a] = IF a \in to .. (to + n - 1) THEN Source + (a - to) ELSE Memory[a]
        BY <1>1, <2>4, Sizes, Arithmetic
      <4> QED
        BY <3>4, <4>1 DEF Moved, Memory
    <3>6. Ascends(<<>>, n, n)
      <4>1. Len(<<>>) = 0 /\ <<>> \in Seq(Nat \X (1 .. 8))
        OBVIOUS
      <4> QED
        BY <4>1 DEF Ascends
    <3>7. UpInv'
      <4>1. Ascends(todo', n, n) /\ call'.size = n /\ call'.fn # "kernel __memcpy" /\ mem' = Moved(n)'
        BY <3>4, <3>5, <3>6
      <4> QED
        BY <4>1 DEF UpInv
    <3>8. CopyInv' /\ FillInv'
      BY <3>1, <3>4, <3>7 DEF CopyInv, FillInv, Fills, GoesDown
    <3> QED
      BY <3>4, <3>8 DEF LibInv
  <2> QED
    BY <1>1, <2>2, <2>3, <2>4, Sizes
<1>5. CASE n = MaxSize /\ KernelMemcpy(to, n)
  <2>1. PICK size \in 0 .. MaxSize : Begin("kernel __memcpy", to, n, <<>>, GenericMemcpy(size))
    BY <1>5 DEF KernelMemcpy
  <2>2. size \in Nat
    BY Sizes
  <2>3. Ascends(GenericMemcpy(size), 0, size)
    BY <2>2, BytesAscend
  <2>4. "kernel __memcpy" \in Copies
    BY DEF Copies
  <2> QED
    BY <1>1, <1>5, <2>1, <2>3, <2>4, BeginUp
<1> QED
  BY <1>3, <1>4, <1>5 DEF Copy, to

LEMMA BeginAnyFill ==
  ASSUME LibInv, NEW distance \in Distances, NEW n \in 0 .. MaxSize, Fill(Source + distance, n)
  PROVE  LibInv'
<1> DEFINE to == Source + distance
<1>1. to \in 1 .. (2 * MaxSize + 1)
  <2>1. distance \in (-MaxSize) .. MaxSize
    BY LibCAssumption
  <2> QED
    BY <2>1, Sizes
<1> HIDE DEF to
<1>2. n \in Nat /\ n \in 0 .. (MaxSize + 8)
  BY Sizes
<1>3. /\ Pattern("memset") = Characters /\ Pattern("kernel memset") = Characters
      /\ Pattern("memsetw") = Short /\ Pattern("memsetdw") = Dword
  BY DEF Pattern
<1>4. Fills = {"memset", "kernel memset", "memsetw", "memsetdw"}
  BY DEF Fills
<1> DEFINE Fine(accesses) == Ascends(accesses, 0, n) /\ \A k \in 1 .. Len(accesses) : accesses[k][2] <= 4
<1>5. \A fn \in {"memset", "kernel memset"} : \A accesses :
        Begin(fn, to, n, Characters, accesses) /\ Fine(accesses) => LibInv'
  <2> SUFFICES ASSUME NEW fn \in {"memset", "kernel memset"}, NEW accesses,
                      Begin(fn, to, n, Characters, accesses), Fine(accesses)
               PROVE  LibInv'
    OBVIOUS
  <2>1. fn \in Fills /\ Begin(fn, to, n, Pattern(fn), accesses)
    BY <1>3, <1>4
  <2>2. Fitting(accesses, fn)
    BY DEF Fitting
  <2> QED
    BY <1>1, <1>2, <2>1, <2>2, BeginFill
<1>6. Fine(GenericMemset(n)) /\ Fine(Upwards(Words(n) \o Rest(n)))
  BY <1>2, BytesAscend, ConstantAscend
<1>7. Upwards(<<4>>) = <<<<0, 4>>>> /\ Upwards(<<8>>) = <<<<0, 8>>>>
  <2>1. ASSUME NEW m \in {4, 8}
        PROVE  Upwards(<<m>>) = <<<<0, m>>>>
    <3> DEFINE w == [k \in 1 .. 1 |-> m]
               f == [k \in 1 .. 1 + 1 |-> IF k = 1 THEN 0 ELSE m]
               one == 1
    <3>1. w = <<m>> /\ one \in Nat /\ m \in Nat
      OBVIOUS
    <3>2. w \in [1 .. one -> 1 .. 8] /\ f \in [1 .. one + 1 -> 0 .. m] /\ f[1] = 0 /\ f[one + 1] = m
      OBVIOUS
    <3>3. \A k \in 1 .. one : f[k + 1] = f[k] + w[k]
      OBVIOUS
    <3>4. [k \in 1 .. one |-> <<f[k], w[k]>>] = <<<<0, m>>>>
      OBVIOUS
    <3> HIDE DEF w, f, one
    <3>5. Upwards(w) = [k \in 1 .. one |-> <<f[k], w[k]>>]
      <4>1. Offsets(f, w, one, m)
        BY <3>1, <3>2, <3>3 DEF Offsets
      <4> QED
        BY <4>1, UpwardsAscends
    <3> QED
      BY <3>1, <3>4, <3>5
  <2> QED
    BY <2>1
<1>8. n = 4 => Fine(Upwards(<<4>>))
  <2>1. Len(<<<<0, 4>>>>) = 1 /\ <<<<0, 4>>>> \in Seq(Nat \X (1 .. 8))
    OBVIOUS
  <2> QED
    BY <1>7, <2>1 DEF Ascends
<1>9. Ascends(Upwards(<<8>>), 0, 8)
  <2>1. Len(<<<<0, 8>>>>) = 1 /\ <<<<0, 8>>>> \in Seq(Nat \X (1 .. 8))
    OBVIOUS
  <2> QED
    BY <1>7, <2>1 DEF Ascends
<1> HIDE DEF Fine
<1>10. CASE \/ Begin("memset", to, n, Characters, GenericMemset(n))
            \/ Begin("memset", to, n, Characters, ConstantMemset(n))
            \/ Begin("memset", to, n, Characters, LoaderCountMemset(n))
  <2>1. ConstantMemset(n) = Upwards(Words(n) \o Rest(n))
    BY DEF ConstantMemset
  <2>2. Fine(LoaderCountMemset(n))
    BY <1>6, <1>8 DEF LoaderCountMemset, CountMemset
  <2> QED
    BY <1>5, <1>6, <1>10, <2>1, <2>2
<1>11. CASE Begin("kernel memset", to, n, Characters, KernelCountMemset(n))
  <2>1. CASE n # 4
    <3>1. KernelCountMemset(n) = Upwards(Words(n) \o Rest(n))
      BY <2>1 DEF KernelCountMemset, CountMemset
    <3> QED
      BY <1>5, <1>6, <1>11, <3>1
  <2>2. CASE n = 4
    <3>1. Ascends(KernelCountMemset(n), 0, 8)
      BY <1>9, <2>2 DEF KernelCountMemset, CountMemset
    <3>2. "kernel memset" \in Fills /\ Begin("kernel memset", to, n, Pattern("kernel memset"), KernelCountMemset(n))
      BY <1>3, <1>4, <1>11
    <3>3. 8 \in 0 .. (MaxSize + 8)
      BY Sizes
    <3> QED
      BY <1>1, <2>2, <3>1, <3>2, <3>3, BeginFill
  <2> QED
    BY <2>1, <2>2
<1>12. CASE 2 * n <= MaxSize /\ Begin("memsetw", to, 2 * n, Short, Memsetw(n))
  <2>1. /\ Memsetw(n) = [k \in 1 .. n |-> <<2 * (k - 1), 2>>]
        /\ Ascends(Memsetw(n), 0, 2 * n)
    BY <1>2, TimesAscends DEF Memsetw
  <2>2. Fitting(Memsetw(n), "memsetw")
    <3>1. Len([k \in 1 .. n |-> <<2 * (k - 1), 2>>]) = n
      BY <1>2
    <3>2. \A k \in 1 .. n : (2 * (k - 1)) % 2 = 0
      BY <1>2
    <3> QED
      BY <2>1, <3>1, <3>2 DEF Fitting, Unit
  <2>3. 2 * n \in 0 .. MaxSize /\ 2 * n \in 0 .. (MaxSize + 8)
    BY <1>2, <1>12, Sizes
  <2>4. "memsetw" \in Fills /\ Begin("memsetw", to, 2 * n, Pattern("memsetw"), Memsetw(n))
    BY <1>3, <1>4, <1>12
  <2> QED
    BY <1>1, <2>1, <2>2, <2>3, <2>4, BeginFill
<1>13. CASE 4 * n <= MaxSize /\ Begin("memsetdw", to, 4 * n, Dword, Memsetdw(n))
  <2>1. /\ Memsetdw(n) = [k \in 1 .. n |-> <<4 * (k - 1), 4>>]
        /\ Ascends(Memsetdw(n), 0, 4 * n)
    BY <1>2, TimesAscends DEF Memsetdw
  <2>2. Fitting(Memsetdw(n), "memsetdw")
    <3>1. Len([k \in 1 .. n |-> <<4 * (k - 1), 4>>]) = n
      BY <1>2
    <3>2. \A k \in 1 .. n : (4 * (k - 1)) % 4 = 0
      BY <1>2
    <3> QED
      BY <2>1, <3>1, <3>2 DEF Fitting, Unit
  <2>3. 4 * n \in 0 .. MaxSize /\ 4 * n \in 0 .. (MaxSize + 8)
    BY <1>2, <1>13, Sizes
  <2>4. "memsetdw" \in Fills /\ Begin("memsetdw", to, 4 * n, Pattern("memsetdw"), Memsetdw(n))
    BY <1>3, <1>4, <1>13
  <2> QED
    BY <1>1, <2>1, <2>2, <2>3, <2>4, BeginFill
<1> QED
  BY <1>10, <1>11, <1>12, <1>13 DEF Fill, to

LEMMA BeginComparison ==
  ASSUME LibInv, NEW fn \in Comparisons, NEW s \in Strings, NEW t \in Strings, BeginCompare(fn, s, t)
  PROVE  LibInv'
<1>1. call = NoCall /\ call' = [fn |-> fn, s |-> s, t |-> t, size |-> Strlen(s)] /\ pair' = 1
      /\ UNCHANGED <<mem, todo>>
  BY Zenon DEF BeginCompare
<1>2. call'.fn = fn /\ call'.s = s /\ call'.t = t /\ call'.size = Len(s) - 1
  BY <1>1, StringsEnd
<1>3. CompareInv'
  <2>1. 1 \in 1 .. Len(s) /\ 1 \in 1 .. Len(t) /\ 1 .. (1 - 1) = {}
    BY StringsEnd
  <2> QED
    BY <1>1, <1>2, <2>1 DEF CompareInv
<1>4. fn \notin {"none"} \cup Copies \cup Fills /\ call' # NoCall
  <2>1. fn \notin {"none"} \cup Copies \cup Fills
    BY DEF Copies, Fills, Comparisons
  <2>2. NoCall.fn = "none"
    BY DEF NoCall
  <2> QED
    BY <1>2, <2>1, <2>2
<1>5. LibCTypeOK'
  <2>1. 1 \in 1 .. MaxLength
    BY Arithmetic
  <2> QED
    BY <1>1, <1>2, <2>1 DEF LibInv, LibCTypeOK
<1>6. todo = <<>>
  <2>1. NoCall.fn = "none"
    BY DEF NoCall
  <2> QED
    BY <1>1, <2>1 DEF LibInv, IdleInv
<1> QED
  BY <1>1, <1>2, <1>3, <1>4, <1>5, <1>6 DEF LibInv, BlockInv, CopyInv, FillInv, IdleInv

LEMMA LibStep == ASSUME LibInv, [LibCNext]_libc PROVE LibInv'
<1>1. ASSUME NEW distance \in Distances, NEW n \in 0 .. MaxSize,
             \/ Copy(Source + distance, n) \/ Fill(Source + distance, n)
             \/ (n = MaxSize /\ KernelMemcpy(Source + distance, n))
      PROVE  LibInv'
  BY <1>1, BeginCopy, BeginAnyFill
<1>2. CASE Access
  <2>1. call.fn \in Copies \cup Fills
    <3>1. todo # <<>>
      BY <1>2 DEF Access
    <3> QED
      BY <3>1 DEF LibInv, IdleInv, LibCTypeOK
  <2> QED
    BY <1>2, <2>1, CopyUpStep, CopyDownStep, FillStep
<1>3. ASSUME NEW fn \in Comparisons, NEW s \in Strings, NEW t \in Strings, BeginCompare(fn, s, t)
      PROVE  LibInv'
  BY <1>3, BeginComparison
<1>4. CASE Compare
  BY <1>4, CompareStep
<1>5. CASE UNCHANGED libc
  <2>1. UNCHANGED <<mem, call, todo, pair>>
    BY <1>5 DEF libc
  <2>2. LibCTypeOK' /\ BlockInv' /\ CompareInv' /\ IdleInv'
    BY <2>1 DEF LibInv, LibCTypeOK, BlockInv, CompareInv, IdleInv
  <2>3. (DownInv => DownInv') /\ (GoesDown' <=> GoesDown)
    BY <2>1 DEF DownInv, MovedFrom, GoesDown
  <2>4. UpInv => UpInv'
    BY <2>1 DEF UpInv, Apart, Moved
  <2>5. CopyInv'
    BY <2>1, <2>3, <2>4 DEF LibInv, CopyInv
  <2>6. FillInv'
    BY <2>1 DEF LibInv, FillInv, WritesEight, Filled
  <2> QED
    BY <2>2, <2>5, <2>6 DEF LibInv
<1> QED
  BY <1>1, <1>2, <1>3, <1>4, <1>5 DEF LibCNext

LEMMA LibStart == LibCInit => LibInv
<1> SUFFICES ASSUME LibCInit PROVE LibInv
  OBVIOUS
<1>1. call = NoCall /\ call.fn = "none" /\ mem = Memory /\ todo = <<>> /\ pair = 1
  BY DEF LibCInit, NoCall
<1>2. LibCTypeOK
  BY <1>1, Arithmetic DEF LibCTypeOK
<1> QED
  BY <1>1, <1>2 DEF LibInv, BlockInv, CopyInv, FillInv, CompareInv, IdleInv, Copies, Fills, Comparisons

-----------------------------------------------------------------------------

LEMMA CopiesDone == LibInv => CopiesAsAsked
<1> SUFFICES ASSUME LibInv, call.fn \in Copies, todo = <<>>,
                    call.fn = "memmove" \/ call.to <= Source \/ call.to >= Source + call.size
             PROVE  IF call.fn = "kernel __memcpy" THEN \E size \in 0 .. MaxSize : mem = Moved(size)
                    ELSE mem = Moved(call.size)
  BY DEF CopiesAsAsked
<1>1. CASE GoesDown
  <2>1. PICK n \in 0 .. call.size : todo = [k \in 1 .. n |-> <<n - k, 1>>] /\ mem = MovedFrom(n)
    BY <1>1 DEF LibInv, CopyInv, DownInv
  <2>2. call.size \in 0 .. MaxSize /\ call.to \in 1 .. (2 * MaxSize + 1) /\ n \in Nat
    BY Sizes DEF LibInv, BlockInv
  <2>3. n = 0
    <3>1. Len([k \in 1 .. n |-> <<n - k, 1>>]) = n
      BY <2>2
    <3> QED
      BY <2>1, <3>1
  <2>4. mem = Moved(call.size)
    <3>1. call.to + n = call.to
      BY <2>2, <2>3, Sizes
    <3> QED
      BY <2>1, <3>1 DEF MovedFrom, Moved, Memory
  <2> QED
    BY <1>1, <2>4 DEF GoesDown
<1>2. CASE ~GoesDown
  <2>1. PICK done \in 0 .. MaxSize, total \in 0 .. MaxSize :
          /\ Ascends(todo, done, total)
          /\ IF call.fn = "kernel __memcpy" THEN call.size = MaxSize ELSE total = call.size
          /\ (call.fn = "memmove" \/ Apart) => mem = Moved(done)
    BY <1>2 DEF LibInv, CopyInv, UpInv
  <2>2. done = total
    BY <2>1 DEF Ascends
  <2> QED
    BY <2>1, <2>2 DEF Apart
<1> QED
  BY <1>1, <1>2

LEMMA FillsDone == LibInv => FillsAsAsked
<1> SUFFICES ASSUME LibInv, call.fn \in Fills, todo = <<>>, ~(call.fn = "kernel memset" /\ call.size = 4)
             PROVE  mem = [a \in Addresses |->
                             IF a \in call.to .. (call.to + call.size - 1)
                             THEN call.pattern[((a - call.to) % (IF call.fn = "memsetw" THEN 2 ELSE 4)) + 1]
                             ELSE Memory[a]]
  BY DEF FillsAsAsked
<1>1. PICK done \in 0 .. (MaxSize + 8), total \in 0 .. (MaxSize + 8) :
        Ascends(todo, done, total) /\ total = call.size /\ mem = Filled(done)
  BY DEF LibInv, FillInv, WritesEight
<1>2. done = call.size
  BY <1>1 DEF Ascends
<1> QED
  BY <1>1, <1>2 DEF Filled, Unit, Memory

LEMMA ComparisonsDone == LibInv => ComparesAsAsked
<1> SUFFICES ASSUME LibInv, call.fn \in Comparisons PROVE ComparesAsAsked
  BY DEF ComparesAsAsked
<1> DEFINE s == call.s
           t == call.t
<1>1. /\ s \in Strings /\ t \in Strings /\ call.size = Len(s) - 1
      /\ pair \in 1 .. Len(s) /\ pair \in 1 .. Len(t)
      /\ \A k \in 1 .. (pair - 1) : s[k] = t[k] /\ s[k] # NUL
  BY DEF LibInv, CompareInv
<1>2. /\ s \in Seq(Alphabet) /\ Len(s) >= 1 /\ \A k \in 1 .. Len(s) : s[k] = NUL <=> k = Len(s)
      /\ t \in Seq(Alphabet) /\ Len(t) >= 1 /\ \A k \in 1 .. Len(t) : t[k] = NUL <=> k = Len(t)
      /\ Len(s) \in Nat /\ Len(t) \in Nat
  BY <1>1, StringsEnd
<1> HIDE DEF s, t
<1>3. pair <= Len(s) /\ pair <= Len(t)
  BY <1>1, <1>2
<1>4. ASSUME ~MoreAlike, call.fn = "strcmp" PROVE Zero <=> s = t
  <2>1. Zero <=> s[pair] = t[pair]
    BY <1>4 DEF Zero, s, t
  <2>2. s[pair] = t[pair] => s[pair] = NUL
    BY <1>4 DEF MoreAlike, StrcmpMore, s, t
  <2>3. s[pair] = t[pair] => s = t
    <3> SUFFICES ASSUME s[pair] = t[pair] PROVE s = t
      OBVIOUS
    <3>1. pair = Len(s) /\ pair = Len(t)
      BY <1>1, <1>2, <2>2
    <3>2. \A k \in 1 .. Len(s) : s[k] = t[k]
      BY <1>1, <1>2, <3>1
    <3>3. \A a, b \in Seq(Alphabet) : Len(a) = Len(b) /\ (\A k \in 1 .. Len(a) : a[k] = b[k]) => a = b
      OBVIOUS
    <3> QED
      BY <1>2, <3>1, <3>2, <3>3
  <2> QED
    BY <2>1, <2>3
<1>5. ASSUME ~MoreAlike, call.fn # "strcmp" PROVE Zero <=> IsPrefix(SubSeq(s, 1, call.size), t)
  <2>0. call.fn = "memcmp"
    BY <1>5 DEF Comparisons
  <2> DEFINE u == SubSeq(s, 1, call.size)
  <2>1. u \in Seq(Alphabet) /\ Len(u) = Len(s) - 1 /\ \A k \in 1 .. Len(u) : u[k] = s[k]
    <3>1. \A a \in Seq(Alphabet), n \in Nat : n <= Len(a) =>
            /\ SubSeq(a, 1, n) \in Seq(Alphabet) /\ Len(SubSeq(a, 1, n)) = n
            /\ \A k \in 1 .. n : SubSeq(a, 1, n)[k] = a[k]
      OBVIOUS
    <3>2. call.size \in Nat /\ call.size <= Len(s) /\ call.size = Len(s) - 1
      BY <1>1, <1>2
    <3>3. /\ SubSeq(s, 1, call.size) \in Seq(Alphabet) /\ Len(SubSeq(s, 1, call.size)) = call.size
          /\ \A k \in 1 .. call.size : SubSeq(s, 1, call.size)[k] = s[k]
      BY <1>2, <3>1, <3>2
    <3> QED
      BY <3>2, <3>3
  <2>2. Zero <=> pair = Len(s)
    BY <1>1, <1>2, <2>0 DEF Zero
  <2>3. pair < Len(s) => s[pair] # t[pair]
    BY <1>1, <1>2, <1>5, <2>0 DEF MoreAlike, MemcmpMore, s, t
  <2> HIDE DEF u
  <2>4. IsPrefix(u, t) <=> /\ Len(u) <= Len(t) /\ \A k \in 1 .. Len(u) : u[k] = t[k]
    <3>1. SubSeq(u, 1, Len(u)) = u
      BY <2>1
    <3>2. Len(u) <= Len(t) => /\ SubSeq(t, 1, Len(u)) \in Seq(Alphabet) /\ Len(SubSeq(t, 1, Len(u))) = Len(u)
                              /\ \A k \in 1 .. Len(u) : SubSeq(t, 1, Len(u))[k] = t[k]
      BY <1>2, <2>1
    <3>3. \A a, b \in Seq(Alphabet) : Len(a) = Len(b) /\ (\A k \in 1 .. Len(a) : a[k] = b[k]) => a = b
      OBVIOUS
    <3> QED
      BY <2>1, <3>1, <3>2, <3>3 DEF IsPrefix
  <2>5. Zero => IsPrefix(u, t)
    BY <1>1, <1>2, <2>1, <2>2, <2>4
  <2>6. ~Zero => ~IsPrefix(u, t)
    BY <1>1, <1>2, <2>1, <2>2, <2>3, <2>4
  <2> QED
    BY <2>5, <2>6 DEF u
<1> QED
  BY <1>3, <1>4, <1>5 DEF ComparesAsAsked, s, t

(* The library does what it is asked for blocks of every size and strings   *)
(* of every length, in every version the compiler may choose.               *)
THEOREM LibraryKeepsWord == LibCInit /\ [][LibCNext]_libc => []LibraryAsAsked
<1>1. LibCInit => LibInv
  BY LibStart
<1>2. LibInv /\ [LibCNext]_libc => LibInv'
  BY LibStep
<1>3. LibInv => LibraryAsAsked
  BY CopiesDone, FillsDone, ComparisonsDone DEF LibraryAsAsked
<1> QED
  BY <1>1, <1>2, <1>3, PTL
-----------------------------------------------------------------------------
(* All of it.                                                               *)

(* Side by side, each part behaves as its own specification says.           *)
THEOREM PrintingKeepsParts ==
  AllSpec => /\ Spec
             /\ LibCInit /\ [][LibCNext]_libc
             /\ PrintfInit /\ [][PrintfNext]_printf
<1>1. AllInit => Init /\ LibCInit /\ PrintfInit
  BY DEF AllInit
<1>2. ASSUME [AllNext]_<<vars, libc, printf>>
      PROVE  [Next]_vars /\ [LibCNext]_libc /\ [PrintfNext]_printf
  BY <1>2, Zenon DEF AllNext
<1> QED
  BY <1>1, <1>2, PTL DEF AllSpec, Spec

(* The types of the screen, of the library and of printf, whichever of them *)
(* a caller has called before.                                              *)
THEOREM PrintingTypesHold == AllSpec => []TypesOK
<1>1. LibInv => LibCTypeOK
  BY DEF LibInv
<1>2. TypeOK /\ LibCTypeOK /\ PrintfTypeOK => TypesOK
  BY DEF TypesOK
<1>3. LibCInit /\ [][LibCNext]_libc => []LibCTypeOK
  BY LibStart, LibStep, <1>1, PTL
<1> QED
  BY PrintingKeepsParts, ConsoleTypeCorrect, PrintfTypeCorrect, <1>2, <1>3, PTL

(* What each part promises holds of all of them together.                   *)
THEOREM PrintingKeepsPromises ==
  AllSpec => /\ []PositionSound /\ []NewLineIsBlank /\ ActsAsTeletype
             /\ []LibraryAsAsked /\ []FieldsRight /\ []ArgumentsInStep
  BY PrintingKeepsParts, PositionAgrees, NewLinesBlank, ActsLikeTeletype, LibraryKeepsWord,
     FieldsComeOut, ArgumentsKeepStep, PTL
=============================================================================
