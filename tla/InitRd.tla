-------------------------------- MODULE InitRd --------------------------------
(***************************************************************************)
(* The class that reads the initial ram disk (initrd.cpp): the loader's    *)
(* kmain calls Load with the module it found, then ParseMadt and kmain     *)
(* call FindFile, which looks at one file per step.                        *)
(*                                                                         *)
(* Load sets m_header before it looks at what that points to, and kmain    *)
(* does not look at what Load returns.  After a module was refused,        *)
(* FindFile goes through a table at address 0, which may hold anything.    *)
(* The kernel has a copy of the class that nobody calls Load of.           *)
(***************************************************************************)
EXTENDS RdImage

CONSTANT NULL

Image ==
  [entry_count : Nat, symbol_size : Nat, size : Nat,
   symbols : Seq(Names \X Nat),
   entries : Seq([file_offset : Nat, file_size : Nat, symbol_offset : Nat]),
   contents : Seq(Data \X Nat)]

VARIABLES
  m_header,                      \* the module: magic, version, image
  m_symbol_table, m_entry_list,  \* the image they point into
  init_rd,                       \* of g_system_params: the module the kernel is told of
  wanted,                        \* the name FindFile is called with
  i,
  file_info,
  result                         \* of the last call; Busy until it returns

reader == <<m_header, m_symbol_table, m_entry_list, init_rd, wanted, i, file_info, result>>

INITRD_OK == "ok"
INITRD_FILE_NOT_FOUND == "not found"
INITRD_INVALID_FILE == "invalid"
INITRD_WRONG_VERSION == "wrong version"
Busy == "busy"

ASSUME NULLAssumption ==
  /\ NULL \notin Names /\ NULL \notin Image
  /\ NULL \notin {Busy, INITRD_OK, INITRD_FILE_NOT_FOUND, INITRD_INVALID_FILE,
                 INITRD_WRONG_VERSION}

(* A global object, in memory that was cleared. *)
InitRdInit ==
  /\ m_header = NULL /\ m_symbol_table = NULL /\ m_entry_list = NULL
  /\ init_rd = NULL
  /\ wanted = NULL /\ i = 0 /\ file_info = NULL
  /\ result = NULL

-----------------------------------------------------------------------------

Verdict(header) ==
  CASE header = NULL -> INITRD_FILE_NOT_FOUND
    [] header # NULL /\ ~header.magic -> INITRD_INVALID_FILE
    [] header # NULL /\ header.magic /\ ~header.version -> INITRD_WRONG_VERSION
    [] OTHER -> INITRD_OK

(* (MapRange is in LoadKernel.) *)
Load(header) ==
  /\ result = NULL
  /\ m_header' = header
  /\ result' = Verdict(header)
  /\ IF result' = INITRD_OK
     THEN m_symbol_table' = header.image /\ m_entry_list' = header.image /\ init_rd' = header
     ELSE UNCHANGED <<m_symbol_table, m_entry_list, init_rd>>
  /\ UNCHANGED <<wanted, i, file_info>>

(* The caller has the answer to its last call. *)
CallFindFile(n) ==
  /\ result \notin {NULL, Busy}
  /\ wanted' = n /\ i' = 0
  /\ result' = IF m_header = NULL THEN INITRD_FILE_NOT_FOUND ELSE Busy
  /\ UNCHANGED <<m_header, m_symbol_table, m_entry_list, init_rd, file_info>>

(* GetFile: the contents from the header on, the rest from the tables. *)
Files(k) ==
  IF m_entry_list = NULL THEN [name : Names \cup {Garbage}, data : Data \cup {Garbage}]
  ELSE {FileAt(m_header.image, m_symbol_table, m_entry_list.entries[k])}

NextFile ==
  /\ result = Busy /\ i # m_header.image.entry_count
  /\ \E file \in Files(i + 1) :
       IF file.name = wanted
       THEN file_info' = file /\ result' = INITRD_OK /\ UNCHANGED i
       ELSE i' = i + 1 /\ UNCHANGED <<file_info, result>>
  /\ UNCHANGED <<m_header, m_symbol_table, m_entry_list, init_rd, wanted>>

(* Mutant of NoMoreFiles: the last file is not looked at. *)
NoMoreFilesSoon ==
  /\ result = Busy /\ i + 1 = m_header.image.entry_count
  /\ result' = INITRD_FILE_NOT_FOUND
  /\ UNCHANGED <<m_header, m_symbol_table, m_entry_list, init_rd, wanted, i, file_info>>

NoMoreFiles ==
  /\ result = Busy /\ i = m_header.image.entry_count
  /\ result' = INITRD_FILE_NOT_FOUND
  /\ UNCHANGED <<m_header, m_symbol_table, m_entry_list, init_rd, wanted, i, file_info>>

InitRdNext(headers) ==
  \/ \E header \in headers : Load(header)
  \/ \E n \in Names : CallFindFile(n)
  \/ NextFile \/ NoMoreFiles

-----------------------------------------------------------------------------

InitRdTypeOK ==
  /\ init_rd # NULL => init_rd = m_header
  /\ wanted \in Names \cup {NULL}
  /\ i \in Nat
  /\ file_info # NULL => file_info \in [name : Names, data : Data \cup {Garbage}]
  /\ result \in {NULL, Busy, INITRD_OK, INITRD_FILE_NOT_FOUND, INITRD_INVALID_FILE,
                 INITRD_WRONG_VERSION}

(* When Load has accepted the module, FindFile tells of every name whether  *)
(* the ram disk has it, and returns its contents and no other's, also after *)
(* calls for other names; the answer does not depend on buildrd's order.    *)
FindsWhatIsSaved(saved) ==
  (init_rd # NULL /\ wanted # NULL /\ result # Busy) =>
    /\ result = INITRD_OK <=> wanted \in DOMAIN saved
    /\ result = INITRD_OK => file_info = [name |-> wanted, data |-> saved[wanted]]
===============================================================================
