--------------------------------- MODULE LibC ---------------------------------
(***************************************************************************)
(* The C library's memory and string functions (libc/string.h of the       *)
(* loader and of the kernel), one call after the other.  A copy or a fill  *)
(* is a sequence of accesses of 1, 2, 4 or 8 bytes, one step each: an      *)
(* access reads all it reads before it writes.  A comparison takes a step  *)
(* for each pair of characters it finds equal.                             *)
(*                                                                         *)
(* What is copied does not matter to a copy: every byte of memory holds    *)
(* its own address.  Strings are sequences that end with NUL.              *)
(***************************************************************************)
EXTENDS Integers, Sequences, SequencesExt

CONSTANTS
  MaxSize,     \* bound on the size of a block
  Distances,   \* from where blocks are copied to where they go
  Alphabet,    \* characters of strings, with NUL
  MaxLength    \* bound on their length, with NUL

NUL == ""

ASSUME LibCAssumption ==
  /\ MaxSize \in Nat /\ Distances \subseteq (-MaxSize) .. MaxSize
  /\ NUL \in Alphabet /\ MaxLength \in Nat \ {0}

Addresses == 1 .. (3 * MaxSize + 8)
Source == MaxSize + 1                     \* where blocks are copied from
Memory == [a \in Addresses |-> a]         \* before the call

Strings == {s \in UNION {[1 .. n -> Alphabet] : n \in 1 .. MaxLength} :
              \A i \in DOMAIN s : s[i] = NUL <=> i = Len(s)}

VARIABLES
  mem,
  call,        \* the call under way
  todo,        \* accesses it has still to make: offset and width
  pair         \* the characters a comparison looks at next

libc == <<mem, call, todo, pair>>

NoCall == [fn |-> "none"]
Copies == {"memcpy", "kernel __memcpy", "memmove"}
Fills == {"memset", "kernel memset", "memsetw", "memsetdw"}
Comparisons == {"memcmp", "strcmp"}

LibCInit ==
  /\ mem = Memory
  /\ call = NoCall
  /\ todo = <<>>
  /\ pair = 1

-----------------------------------------------------------------------------
(* The accesses of each function. *)

Times(width, n) == [i \in 1 .. n |-> width]
Words(n) == Times(4, n \div 4)

(* Mutant of Rest: the last of three bytes is forgotten. *)
RestShort(n) == << <<>>, <<1>>, <<2>>, <<2>> >>[(n % 4) + 1]

(* What is left after the words: a halfword, then a byte. *)
Rest(n) == << <<>>, <<1>>, <<2>>, <<2, 1>> >>[(n % 4) + 1]

(* From the lowest address to the highest. *)
Upwards(widths) ==
  LET offset[i \in DOMAIN widths] == IF i = 1 THEN 0 ELSE offset[i - 1] + widths[i - 1]
  IN  [i \in DOMAIN widths |-> <<offset[i], widths[i]>>]

GenericMemcpy(n) == Upwards(Words(n) \o Times(1, n % 4))
ConstantMemcpy(n) == Upwards(Words(n) \o Rest(n))

(* A block that moves up is copied from its end. *)
Memmove(to, n) ==
  IF Source < to THEN [i \in 1 .. n |-> <<n - i, 1>>]
  ELSE IF Source = to THEN <<>> ELSE Upwards(Times(1, n))

GenericMemset(n) == Upwards(Times(1, n))
ConstantMemset(n) == Upwards(Words(n) \o Rest(n))

(* Four bytes at once are stored as an unsigned long, which has eight in    *)
(* the kernel.                                                              *)
CountMemset(long, n) == Upwards(IF n = 4 THEN <<long>> ELSE Words(n) \o Rest(n))
LoaderCountMemset(n) == CountMemset(4, n)
KernelCountMemset(n) == CountMemset(8, n)

Memsetw(n) == Upwards(Times(2, n))
Memsetdw(n) == Upwards(Times(4, n))

-----------------------------------------------------------------------------
(* A copy is given where to and how much; a fill also what to store: the    *)
(* bytes of its pattern, of which an access stores as many as it is wide.   *)

Begin(fn, to, size, pattern, accesses) ==
  /\ call = NoCall
  /\ call' = [fn |-> fn, to |-> to, size |-> size, pattern |-> pattern]
  /\ todo' = accesses
  /\ UNCHANGED <<mem, pair>>

Copy(to, n) ==
  \/ Begin("memcpy", to, n, <<>>, GenericMemcpy(n))
  \/ Begin("memcpy", to, n, <<>>, ConstantMemcpy(n))
  \/ Begin("memmove", to, n, <<>>, Memmove(to, n))

(* The kernel's __memcpy goes by a variable that it initialises with        *)
(* itself, not by n.                                                        *)
KernelMemcpy(to, n) ==
  \E size \in 0 .. MaxSize : Begin("kernel __memcpy", to, n, <<>>, GenericMemcpy(size))

(* 0x01010101UL times a character, as an unsigned long; a short; an int. *)
Characters == <<-1, -1, -1, -1, 0, 0, 0, 0>>
Short == <<-1, -2>>
Dword == <<-1, -2, -3, -4>>

Fill(to, n) ==
  \/ Begin("memset", to, n, Characters, GenericMemset(n))
  \/ Begin("memset", to, n, Characters, ConstantMemset(n))
  \/ Begin("memset", to, n, Characters, LoaderCountMemset(n))
  \/ Begin("kernel memset", to, n, Characters, KernelCountMemset(n))
  \/ 2 * n <= MaxSize /\ Begin("memsetw", to, 2 * n, Short, Memsetw(n))
  \/ 4 * n <= MaxSize /\ Begin("memsetdw", to, 4 * n, Dword, Memsetdw(n))

(* The bytes an access stores. *)
Stored(offset, width) ==
  IF call.fn \in Copies THEN [i \in 1 .. width |-> mem[Source + offset + i - 1]]
  ELSE SubSeq(call.pattern, 1, width)

Access ==
  /\ todo # <<>>
  /\ LET first == call.to + Head(todo)[1]
         width == Head(todo)[2]
         bytes == Stored(Head(todo)[1], width)
     IN  mem' = [a \in Addresses |-> IF a \in first .. (first + width - 1)
                                     THEN bytes[a - first + 1] ELSE mem[a]]
  /\ todo' = Tail(todo)
  /\ UNCHANGED <<call, pair>>

-----------------------------------------------------------------------------
(* Strings. *)

Strlen(s) == CHOOSE n \in 0 .. (Len(s) - 1) : s[n + 1] = NUL /\ \A i \in 1 .. n : s[i] # NUL

(* memcmp as FindModuleByCmdLine calls it, with the length of the first. *)
BeginCompare(fn, s, t) ==
  /\ call = NoCall
  /\ call' = [fn |-> fn, s |-> s, t |-> t, size |-> Strlen(s)]
  /\ pair' = 1
  /\ UNCHANGED <<mem, todo>>

MemcmpMore == call.fn = "memcmp" /\ pair <= call.size

StrcmpMore == call.fn = "strcmp" /\ call.s[pair] # NUL /\ call.t[pair] # NUL

MoreAlike == (MemcmpMore \/ StrcmpMore) /\ call.s[pair] = call.t[pair]

Compare ==
  /\ call.fn \in Comparisons /\ MoreAlike
  /\ pair' = pair + 1
  /\ UNCHANGED <<mem, call, todo>>

(* What a comparison returns. *)
Zero == IF call.fn = "memcmp" THEN pair > call.size ELSE call.s[pair] = call.t[pair]

-----------------------------------------------------------------------------

LibCNext ==
  \/ \E distance \in Distances, n \in 0 .. MaxSize :
       LET to == Source + distance
       IN  Copy(to, n) \/ Fill(to, n) \/ (n = MaxSize /\ KernelMemcpy(to, n))
  \/ Access
  \/ \E fn \in Comparisons, s, t \in Strings : BeginCompare(fn, s, t)
  \/ Compare

LibCTypeOK ==
  /\ mem \in [Addresses -> Int]
  /\ call.fn \in {"none"} \cup Copies \cup Fills \cup Comparisons
  /\ pair \in 1 .. MaxLength

(* Memory when size bytes have been copied, each as it was before the call. *)
Moved(size) ==
  [a \in Addresses |-> IF a \in call.to .. (call.to + size - 1)
                        THEN Source + (a - call.to) ELSE Memory[a]]

(* A copy brings every byte as it was and touches nothing else, whatever    *)
(* the widths of its accesses: memmove always, memcpy also where the blocks *)
(* overlap if it moves down, as Scroll does with the screen.  The kernel's  *)
(* __memcpy does it with some number of bytes.                              *)
CopiesAsAsked ==
  (call.fn \in Copies /\ todo = <<>>
    /\ (call.fn = "memmove" \/ call.to <= Source \/ call.to >= Source + call.size)) =>
      IF call.fn = "kernel __memcpy" THEN \E size \in 0 .. MaxSize : mem = Moved(size)
      ELSE mem = Moved(call.size)

(* A fill writes its pattern over and over and nothing else, in each of the *)
(* versions that the compiler chooses from; but the kernel's, of four bytes *)
(* known at compile time, writes eight.                                     *)
FillsAsAsked ==
  (call.fn \in Fills /\ todo = <<>> /\ ~(call.fn = "kernel memset" /\ call.size = 4)) =>
    LET unit == IF call.fn = "memsetw" THEN 2 ELSE 4
    IN  mem = [a \in Addresses |-> IF a \in call.to .. (call.to + call.size - 1)
                                    THEN call.pattern[((a - call.to) % unit) + 1]
                                    ELSE Memory[a]]

(* Comparisons stop at the ends of both strings, although memcmp is not     *)
(* told the length of the second; strcmp finds equal strings equal, and     *)
(* memcmp strings that begin with the first.                                *)
ComparesAsAsked ==
  call.fn \in Comparisons =>
    /\ pair <= Len(call.s) /\ pair <= Len(call.t)
    /\ ~MoreAlike =>
         (Zero <=> IF call.fn = "strcmp" THEN call.s = call.t
                   ELSE IsPrefix(SubSeq(call.s, 1, call.size), call.t))

(* What the library is asked for is what it does, whatever version of it    *)
(* the compiler chose, but for the cases named above.                       *)
LibraryAsAsked == CopiesAsAsked /\ FillsAsAsked /\ ComparesAsAsked
=============================================================================
