------------------------------- MODULE Teletype -------------------------------
(***************************************************************************)
(* What a console promises its writers: text goes to the last line of an   *)
(* endless page, at the column of the carriage; what is on the lines above *)
(* it stays.                                                               *)
(***************************************************************************)
EXTENDS Naturals, Sequences

CONSTANTS
  Width,      \* columns of a line
  Letters,    \* what can be printed
  Blank       \* what is where nothing was printed

Columns == 0 .. (Width - 1)
EmptyLine == [x \in Columns |-> Blank]

VARIABLES
  page,       \* the lines up to the carriage
  column      \* of the carriage

vars == <<page, column>>

Init == page = <<EmptyLine>> /\ column = 0

Type(letter) ==
  /\ column \in Columns
  /\ page' = [page EXCEPT ![Len(page)][column] = letter]
  /\ column' = column + 1

(* Backspace, carriage return and tab print nothing. *)
MoveCarriage ==
  /\ column' \in 0 .. Width
  /\ UNCHANGED page

Feed ==
  /\ page' = Append(page, EmptyLine)
  /\ column' = 0

Next == (\E letter \in Letters : Type(letter)) \/ MoveCarriage \/ Feed

Spec == Init /\ [][Next]_vars
=============================================================================
