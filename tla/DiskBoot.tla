------------------------------ MODULE DiskBoot ------------------------------
(***************************************************************************)
(* The ram disk from the host to the loader: whenever buildrd has saved    *)
(* the image the machine may be started with it, or without one, or with a *)
(* module that is none, and switched off again.                            *)
(***************************************************************************)
EXTENDS BuildRd, InitRd

CONSTANT Refused     \* modules that are not an image of this version

ASSUME RefusedAssumption == \A header \in Refused : ~(header.magic /\ header.version)

VARIABLE kept      \* history: what the invocation that wrote the image held

Module(magic, version, contents) == [magic |-> magic, version |-> version, image |-> contents]

Headers ==
  IF written = NoFile THEN {NULL} \cup Refused
  ELSE IF phase = "saved" /\ written = ImageParts THEN {Module(TRUE, TRUE, image)} ELSE {}

Off == InitRdInit
SwitchOff ==
  /\ ~Off
  /\ m_header' = NULL /\ m_symbol_table' = NULL /\ m_entry_list' = NULL /\ init_rd' = NULL
  /\ wanted' = NULL /\ i' = 0 /\ file_info' = NULL /\ result' = NULL

BuildRdStep ==
  /\ Off /\ Next /\ UNCHANGED reader
  /\ kept' = IF written' # ImageParts THEN <<>>
             ELSE IF phase = "write" THEN Held ELSE kept

RamDiskInit == Init /\ InitRdInit /\ kept = <<>>
RamDiskNext ==
  \/ BuildRdStep
  \/ phase \in Ended /\ (InitRdNext(Headers) \/ SwitchOff) /\ UNCHANGED <<vars, kept>>
RamDiskSpec == RamDiskInit /\ [][RamDiskNext]_<<vars, reader, kept>>

TypesOK == TypeOK /\ InitRdTypeOK

(* What the loader's loop finds is what was in the list of the invocation    *)
(* that wrote the image, on the other side of Save.                          *)
LoaderFindsSaved == FindsWhatIsSaved(kept)
=============================================================================
