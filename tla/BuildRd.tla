------------------------------- MODULE BuildRd -------------------------------
(***************************************************************************)
(* buildrd, the host tool that keeps the initial ram disk: invocations one *)
(* after the other, each of which loads the image into a circular, doubly  *)
(* linked list, adds and removes files and writes the image anew.  The     *)
(* image is the one RdImage describes; the process can die while it writes *)
(* it.                                                                     *)
(***************************************************************************)
EXTENDS RdImage, FiniteSets

CONSTANTS
  Nodes,     \* bound on the list entries an invocation can malloc
  Null,
  NoImage, Broken    \* what RamDisk calls an image that is not there or not complete

ASSUME NodesAssumption == IsFiniteSet(Nodes) /\ Null \notin Nodes

(* What stands for an image that cannot be read is not an image. *)
ASSUME ImagesAssumption ==
  /\ NoImage # Broken
  /\ \A names \in SUBSET Names : NoImage \notin [names -> Data] /\ Broken \notin [names -> Data]

VARIABLES
  phase,           \* "load", "edit", "write" or "hung"; "idle" or "saved" in between
  todo,            \* files of the image still to be loaded
  name, data,      \* RdListEntry::name_ptr and data_ptr
  next_ptr, prev_ptr,
  fresh,           \* nodes malloc can still hand out
  m_list_head,
  image,           \* the image on disk, or being written
  written          \* parts of it on disk: 0 .. 4, or NoFile

NoFile == 5
ImageParts == 4
Ended == {"idle", "saved"}   \* no process, the last one did not, or did, get to Save's end

listVars == <<name, data, next_ptr, prev_ptr, fresh, m_list_head>>
diskVars == <<image, written>>
vars == <<phase, todo, listVars, diskVars>>

Blank == Layout(<<>>)

Init ==
  /\ phase = "idle"
  /\ todo = <<>>
  /\ name = [e \in Nodes |-> Null] /\ data = [e \in Nodes |-> Null]
  /\ next_ptr = [e \in Nodes |-> Null] /\ prev_ptr = [e \in Nodes |-> Null]
  /\ fresh = Nodes
  /\ m_list_head = Null
  /\ image = Blank
  /\ written = NoFile

-----------------------------------------------------------------------------
TypeOK ==
  /\ phase \in Ended \cup {"load", "edit", "write", "hung"}
  /\ todo \in Seq([name : Names, data : Data])
  /\ name \in [Nodes -> Names \cup {Null}]
  /\ data \in [Nodes -> Data \cup {Null}]
  /\ next_ptr \in [Nodes -> Nodes \cup {Null}]
  /\ prev_ptr \in [Nodes -> Nodes \cup {Null}]
  /\ fresh \subseteq Nodes
  /\ m_list_head \in Nodes \cup {Null}
  /\ written \in 0 .. NoFile
  /\ phase = "write" => written < ImageParts

-----------------------------------------------------------------------------
(* Walking the list: every loop starts at the head and ends when it is back *)
(* at the head.                                                             *)

Steps == 0 .. Cardinality(Nodes)

Visited ==
  LET visit[k \in Steps] == IF k = 0 THEN m_list_head ELSE next_ptr[visit[k - 1]]
  IN  visit

Laps == {k \in Steps \ {0} : Visited[k] = m_list_head}

Endless == m_list_head # Null /\ Laps = {}

Size == IF m_list_head = Null THEN 0 ELSE CHOOSE k \in Laps : \A l \in Laps : k <= l

Listed == IF m_list_head = Null THEN {} ELSE {Visited[k] : k \in Steps}

(* The files in the order the loops meet them. *)
InOrder == [k \in 1 .. Size |-> [name |-> name[Visited[k - 1]], data |-> data[Visited[k - 1]]]]

(* InitRd::Find returns an entry, or Null, unless it never comes back.     *)
Holding(n) == {e \in Listed : name[e] = n}
FindHangs(n) == Endless /\ Holding(n) = {}

-----------------------------------------------------------------------------

(* InitRd::AddFromMemory.  An entry that is replaced is linked in a second *)
(* time, although it is in the list already.                               *)
AddFromMemory(n, d) ==
  \E e \in IF Holding(n) = {} THEN fresh ELSE Holding(n) :
    /\ name' = [name EXCEPT ![e] = n]
    /\ data' = [data EXCEPT ![e] = d]
    /\ fresh' = fresh \ {e}
    /\ IF m_list_head = Null
       THEN /\ m_list_head' = e
            /\ next_ptr' = [next_ptr EXCEPT ![e] = e]
            /\ prev_ptr' = [prev_ptr EXCEPT ![e] = e]
       ELSE LET last == prev_ptr[m_list_head]                  \* before the entry is touched
                prev == [prev_ptr EXCEPT ![e] = last]
                next == [next_ptr EXCEPT ![e] = m_list_head]
            IN  /\ next_ptr' = [next EXCEPT ![prev[m_list_head]] = e]
                /\ prev_ptr' = [prev EXCEPT ![m_list_head] = e]
                /\ UNCHANGED m_list_head

(* Mutant of RemoveEntry: the next entry's back link stays. *)
RemoveOneLink(e) ==
  /\ name' = [name EXCEPT ![e] = Null]
  /\ data' = [data EXCEPT ![e] = Null]
  /\ next_ptr' = [next_ptr EXCEPT ![prev_ptr[e]] = next_ptr[e]]
  /\ prev_ptr' = prev_ptr
  /\ IF m_list_head = e
     THEN /\ m_list_head' = IF next_ptr'[e] = e THEN Null ELSE next_ptr'[e]
          /\ fresh' = fresh \cup {e}
     ELSE UNCHANGED <<m_list_head, fresh>>

(* InitRd::Remove.  Only an entry that was the head is freed. *)
RemoveEntry(e) ==
  LET prev == [prev_ptr EXCEPT ![next_ptr[e]] = prev_ptr[e]]
      next == [next_ptr EXCEPT ![prev[e]] = next_ptr[e]]
  IN  /\ name' = [name EXCEPT ![e] = Null]
      /\ data' = [data EXCEPT ![e] = Null]
      /\ prev_ptr' = prev
      /\ next_ptr' = next
      /\ IF m_list_head = e
         THEN /\ m_list_head' = IF next[e] = e THEN Null ELSE next[e]
              /\ fresh' = fresh \cup {e}
         ELSE UNCHANGED <<m_list_head, fresh>>

(* The process ends: its memory is gone. *)
Exit(how) ==
  /\ phase' = how
  /\ todo' = <<>>
  /\ name' = [e \in Nodes |-> Null] /\ data' = [e \in Nodes |-> Null]
  /\ next_ptr' = [e \in Nodes |-> Null] /\ prev_ptr' = [e \in Nodes |-> Null]
  /\ fresh' = Nodes
  /\ m_list_head' = Null

Hang == phase' = "hung" /\ UNCHANGED <<todo, listVars>>

-----------------------------------------------------------------------------

(* main calls Load: without a file it starts from an empty list, and an     *)
(* image that lost its header ends the invocation at once.                  *)
Invoke ==
  /\ phase \in Ended
  /\ \/ written = NoFile /\ phase' = "edit" /\ UNCHANGED todo
     \/ written = ImageParts /\ phase' = "load" /\ todo' = ReadInOrder(image)
  /\ UNCHANGED <<listVars, diskVars>>

(* One turn of Load's loop. *)
LoadFile ==
  /\ phase = "load"
  /\ todo # <<>>
  /\ AddFromMemory(Head(todo).name, Head(todo).data)
  /\ todo' = Tail(todo)
  /\ phase' = IF Tail(todo) = <<>> THEN "edit" ELSE "load"
  /\ UNCHANGED diskVars

(* -a with a name that is not in the image. *)
Add(n, d) ==
  /\ phase = "edit"
  /\ Holding(n) = {} /\ ~Endless
  /\ AddFromMemory(n, d)
  /\ UNCHANGED <<phase, todo, diskVars>>

(* -a with a name that is in the image already. *)
Replace(n, d) ==
  /\ phase = "edit"
  /\ Holding(n) # {}
  /\ AddFromMemory(n, d)
  /\ UNCHANGED <<phase, todo, diskVars>>

ReplaceSole(n, d) == Size = 1 /\ Replace(n, d)

(* -r *)
Remove(n) ==
  /\ phase = "edit"
  /\ \E e \in Holding(n) : RemoveEntry(e)
  /\ UNCHANGED <<phase, todo, diskVars>>

(* -a and -r look a name up in a list that has no end. *)
LookUp(n) ==
  /\ phase = "edit"
  /\ FindHangs(n)
  /\ Hang
  /\ UNCHANGED diskVars

(* -d, -e or an option that does not exist ends the invocation unsaved. *)
Quit ==
  /\ phase = "edit"
  /\ IF Endless THEN Hang ELSE Exit("idle")
  /\ UNCHANGED diskVars

(* InitRd::Save: an empty list is not written; fopen truncates the file     *)
(* before anything else happens.                                            *)
Save ==
  /\ phase = "edit"
  /\ IF m_list_head = Null
     THEN Exit("saved") /\ UNCHANGED diskVars
     ELSE /\ IF Endless THEN Hang /\ image' = image
                        ELSE /\ phase' = "write"
                             /\ image' = Layout(InOrder)
                             /\ UNCHANGED <<todo, listVars>>
          /\ written' = 0

(* Mutant of WritePart: one part too many. *)
WritePartMore ==
  /\ phase = "write"
  /\ written' = written + 1
  /\ IF written' > ImageParts THEN Exit("saved") ELSE UNCHANGED <<phase, todo, listVars>>
  /\ UNCHANGED image

(* Header, symbols, entries, contents. *)
WritePart ==
  /\ phase = "write"
  /\ written' = written + 1
  /\ IF written' = ImageParts THEN Exit("saved") ELSE UNCHANGED <<phase, todo, listVars>>
  /\ UNCHANGED image

(* The process is killed or the disk is full. *)
Die ==
  /\ phase \in {"load", "edit", "write"}
  /\ Exit("idle")
  /\ UNCHANGED diskVars

(* What is left of the image is deleted by hand. *)
DeleteImage ==
  /\ phase \in Ended
  /\ written' = NoFile
  /\ image' = Blank
  /\ UNCHANGED <<phase, todo, listVars>>

-----------------------------------------------------------------------------

Common ==
  \/ Invoke \/ LoadFile \/ Quit \/ Save \/ WritePart \/ Die \/ DeleteImage
  \/ \E n \in Names : Remove(n) \/ \E d \in Data : Add(n, d)

(* Users that only replace a file when it is the only one. *)
Next ==
  \/ Common
  \/ \E n \in Names, d \in Data : ReplaceSole(n, d)

Spec == Init /\ [][Next]_vars

(* Users that take "Add/Replace" at its word. *)
AnyNext ==
  \/ Common
  \/ \E n \in Names : LookUp(n) \/ \E d \in Data : Replace(n, d)

AnySpec == Init /\ [][AnyNext]_vars

-----------------------------------------------------------------------------

(* The list is a ring: both directions agree, every entry is allocated, and *)
(* no name occurs twice.                                                    *)
RingSound ==
  m_list_head # Null =>
    /\ ~Endless
    /\ Listed \cap fresh = {}
    /\ \A e \in Listed : prev_ptr[next_ptr[e]] = e /\ next_ptr[prev_ptr[e]] = e
    /\ \A e, f \in Listed : name[e] = name[f] => e = f

Held == [n \in {name[e] : e \in Listed} |-> data[CHOOSE e \in Holding(n) : TRUE]]

Disk == INSTANCE RamDisk WITH
          open <- phase \in {"edit", "write"},
          files <- IF phase \in {"edit", "write"} THEN Held ELSE [n \in {} |-> NoImage],
          saved <- IF written = NoFile THEN NoImage
                   ELSE IF written = ImageParts THEN FindFile(image)
                   ELSE Broken

(* Whatever is added and removed, in one invocation or over several, the    *)
(* loader finds exactly the files of the last invocation that saved: the    *)
(* list, the writer and the two readers of the image agree.                 *)
ImplementsRamDisk == Disk!Spec

(* main.cpp:37 "Add/Replace file": the other files are still there.         *)
ReplaceKeepsOthers ==
  [][\A n \in Names, d \in Data :
       Replace(n, d) => {name'[e] : e \in Listed'} = {name[e] : e \in Listed}]_vars
=============================================================================
