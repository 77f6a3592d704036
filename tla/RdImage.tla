------------------------------- MODULE RdImage -------------------------------
(***************************************************************************)
(* The format of the initial ram disk: header, symbol table (names with    *)
(* their final NUL, back to back), table of entries, contents of the files *)
(* back to back.  buildrd writes it and reads it front to back; the loader *)
(* and the kernel find their way by the offsets in it.                     *)
(*                                                                         *)
(* A file is a record [name, data].  A name fills NameLength[name] cells   *)
(* of the symbol table and data fills DataSize[data] cells of the image;   *)
(* cell k of either is the pair <<x, k>>, so that reading from a wrong     *)
(* place, or too much or too little, gives something else.                 *)
(***************************************************************************)
EXTENDS Integers, Sequences

Seqs == INSTANCE SequencesExt

CONSTANTS
  Names, NameLength,     \* strlen + 1 of every name
  Data, DataSize,
  HeaderSize, EntrySize, \* 20 and 16
  Garbage                \* a name or contents read from the wrong place

(* A name has at least its NUL, and there is one way to contain nothing.    *)
ASSUME FormatAssumption ==
  /\ \A n \in Names : NameLength[n] \in Nat \ {0}
  /\ \A d \in Data : DataSize[d] \in Nat
  /\ \A d, e \in Data : DataSize[d] = 0 /\ DataSize[e] = 0 => d = e
  /\ HeaderSize \in Nat /\ EntrySize \in Nat
  /\ Garbage \notin Names

Cells(x, n) == [k \in 1 .. n |-> <<x, k>>]

(* Sum of the first k sizes. *)
SumTo(sizes, k) ==
  LET sum[j \in 0 .. Len(sizes)] == IF j = 0 THEN 0 ELSE sum[j - 1] + sizes[j]
  IN  sum[k]

Total(sizes) == SumTo(sizes, Len(sizes))

(* Mutant of Before: the offset is advanced before it is stored. *)
BeforeNext(sizes, k) == SumTo(sizes, k)

(* Where part k begins. *)
Before(sizes, k) == SumTo(sizes, k - 1)

(* InitRd::Save: the image of a list of files, in the order of the list. *)
Layout(files) ==
  LET n == Len(files)
      nameSizes == [k \in 1 .. n |-> NameLength[files[k].name]]
      fileSizes == [k \in 1 .. n |-> DataSize[files[k].data]]
      symbol_size == Total(nameSizes)
      body == HeaderSize + symbol_size + EntrySize * n
  IN  [entry_count |-> n,
       symbol_size |-> symbol_size,
       size |-> HeaderSize + Total(fileSizes) + symbol_size + EntrySize * n,
       symbols |-> Seqs!FlattenSeq([k \in 1 .. n |-> Cells(files[k].name, nameSizes[k])]),
       entries |-> [k \in 1 .. n |-> [file_offset |-> body + Before(fileSizes, k),
                                      file_size |-> fileSizes[k],
                                      symbol_offset |-> Before(nameSizes, k)]],
       contents |-> Seqs!FlattenSeq([k \in 1 .. n |-> Cells(files[k].data, fileSizes[k])])]

(* The n cells after the first from ones, if there are so many. *)
Slice(cells, from, n) ==
  IF from \in 0 .. (Len(cells) - n) THEN SubSeq(cells, from + 1, from + n) ELSE Cells(Garbage, 1)

(* The name that starts at an offset of the symbol table, and the data in a *)
(* stretch of cells.                                                        *)
NameAt(image, offset) ==
  LET found == {n \in Names : Slice(image.symbols, offset, NameLength[n])
                                = Cells(n, NameLength[n])}
  IN  IF found = {} THEN Garbage ELSE CHOOSE n \in found : TRUE

DataIn(cells) ==
  LET found == {d \in Data : cells = Cells(d, DataSize[d])}
  IN  IF found = {} THEN Garbage ELSE CHOOSE d \in found : TRUE

(* InitRd::Load of buildrd: names by symbol_offset, contents in sequence.  *)
ReadInOrder(image) ==
  LET sizes == [k \in 1 .. image.entry_count |-> image.entries[k].file_size]
  IN  [k \in 1 .. image.entry_count |->
         [name |-> NameAt(image, image.entries[k].symbol_offset),
          data |-> DataIn(Slice(image.contents, Before(sizes, k), sizes[k]))]]

(* Mutant of FileAt: offsets of contents count from the end of the header. *)
FileAtBody(header, symbol_table, entry) ==
  [name |-> NameAt(symbol_table, entry.symbol_offset),
   data |-> DataIn(Slice(header.contents, entry.file_offset - HeaderSize, entry.file_size))]

(* InitRd::GetFile of the loader and the kernel: by the offsets, that of    *)
(* the contents from the header on.                                         *)
FileAt(header, symbol_table, entry) ==
  LET body == HeaderSize + header.symbol_size + EntrySize * header.entry_count
  IN  [name |-> NameAt(symbol_table, entry.symbol_offset),
       data |-> DataIn(Slice(header.contents, entry.file_offset - body, entry.file_size))]
GetFile(image, k) == FileAt(image, image, image.entries[k])

(* InitRd::FindFile: every name it finds, with the first file of that name. *)
FindFile(image) ==
  LET all == [k \in 1 .. image.entry_count |-> GetFile(image, k)]
      First(n) == CHOOSE k \in DOMAIN all : /\ all[k].name = n
                                            /\ \A j \in 1 .. (k - 1) : all[j].name # n
  IN  [n \in {file.name : file \in Seqs!Range(all)} |-> all[First(n)].data]
=============================================================================
