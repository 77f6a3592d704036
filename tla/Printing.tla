------------------------------ MODULE Printing ------------------------------
(* What the programs print: the screen, printf and the library under them,  *)
(* side by side.  They share nothing but characters, so a behaviour is one  *)
(* on the screen or calls of the library or of printf.                      *)
EXTENDS Console, Printf

ConsoleAtRest == Init /\ program = "loader"
LibraryAtRest == call = NoCall /\ stage = "idle"
AllInit == Init /\ LibCInit /\ PrintfInit
AllNext ==
  \/ LibraryAtRest /\ Next /\ UNCHANGED <<libc, printf>>
  \/ ConsoleAtRest /\ stage = "idle" /\ LibCNext /\ UNCHANGED <<vars, printf>>
  \/ ConsoleAtRest /\ call = NoCall /\ PrintfNext /\ UNCHANGED <<vars, libc>>
AllSpec == AllInit /\ [][AllNext]_<<vars, libc, printf>>

TypesOK == TypeOK /\ LibCTypeOK /\ PrintfTypeOK
=============================================================================
