------------------------------- MODULE RamDisk -------------------------------
(***************************************************************************)
(* What buildrd promises: the image on disk is a set of named files; an    *)
(* invocation works on a copy of it, and the copy replaces the image when  *)
(* the invocation ends normally.  Writing is not atomic.                   *)
(***************************************************************************)
EXTENDS Naturals

CONSTANTS Names, Data, NoImage, Broken

VARIABLES
  open,      \* an invocation is at work
  files,     \* its files, a function from names to data
  saved      \* the image: a function, NoImage, or Broken while it is written

vars == <<open, files, saved>>

Empty == [n \in {} |-> NoImage]

Init == open = FALSE /\ files = Empty /\ saved = NoImage

Open ==
  /\ ~open /\ open' = TRUE
  /\ saved # Broken
  /\ files' = IF saved = NoImage THEN Empty ELSE saved
  /\ UNCHANGED saved

Put(n, d) ==
  /\ open /\ UNCHANGED open
  /\ files' = [m \in DOMAIN files \cup {n} |-> IF m = n THEN d ELSE files[m]]
  /\ UNCHANGED saved

Drop(n) ==
  /\ open /\ UNCHANGED open
  /\ files' = [m \in DOMAIN files \ {n} |-> files[m]]
  /\ UNCHANGED saved

Close ==
  /\ open' = FALSE /\ files' = Empty
  /\ UNCHANGED saved

(* An empty set of files is never written. *)
BeginSave ==
  /\ open /\ files # Empty
  /\ UNCHANGED <<open, files>>
  /\ saved' = Broken

EndSave ==
  /\ open /\ open' = FALSE
  /\ saved = Broken /\ files' = Empty
  /\ saved' = files

(* The owner of the file deletes it. *)
Delete == ~open /\ UNCHANGED <<open, files>> /\ saved' = NoImage

Next ==
  \/ Open \/ Close \/ BeginSave \/ EndSave \/ Delete
  \/ \E n \in Names : Drop(n) \/ \E d \in Data : Put(n, d)

Spec == Init /\ [][Next]_vars
=============================================================================
