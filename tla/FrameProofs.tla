----------------------------- MODULE FrameProofs -----------------------------
(* Proofs about the frame allocator, for every memory map, every sequence   *)
(* of reservations and requests, and every size of the table.               *)
EXTENDS Frame, SequenceTheorems, FiniteSetTheorems, TLAPS

-----------------------------------------------------------------------------
(* Page arithmetic. *)

LEMMA Division ==
  ASSUME NEW n \in Nat, NEW d \in Nat \ {0}
  PROVE  /\ n \div d \in Nat
         /\ n % d \in Nat /\ n % d <= n /\ n % d < d
         /\ n = (n \div d) * d + (n % d)
  OBVIOUS

LEMMA MultipleMod ==
  ASSUME NEW k \in Nat, NEW d \in Nat \ {0}
  PROVE  (k * d) % d = 0
  OBVIOUS

LEMMA AlignDownBounds ==
  ASSUME NEW a \in Nat
  PROVE  AlignDown(a) \in Nat /\ AlignDown(a) <= a /\ Aligned(AlignDown(a))
<1> DEFINE k == a \div PageSize
<1>1. k \in Nat /\ a % PageSize \in Nat /\ AlignDown(a) = k * PageSize
  BY Division, SizesAssumption DEF AlignDown
<1>2. AlignDown(a) \in Nat /\ AlignDown(a) <= a
  BY Division, SizesAssumption DEF AlignDown
<1> QED
  BY <1>1, <1>2, MultipleMod, SizesAssumption DEF Aligned

LEMMA AlignUpBounds ==
  ASSUME NEW a \in Nat
  PROVE  AlignUp(a) \in Nat /\ a <= AlignUp(a) /\ Aligned(AlignUp(a))
<1> DEFINE b == a + (PageSize - 1)
<1>1. b \in Nat
  BY SizesAssumption
<1>2. b % PageSize < PageSize /\ b % PageSize \in Nat
  BY <1>1, Division, SizesAssumption
<1> QED
  BY <1>1, <1>2, AlignDownBounds, SizesAssumption DEF AlignUp, AlignDown

LEMMA PtrBounds ==
  ASSUME NEW a \in Nat
  PROVE  Ptr(a) \in Nat /\ Ptr(a) <= a
  BY Division, SizesAssumption DEF Ptr

(* The uint8_t index moves to the next row or wraps to 0. *)
LEMMA NextIndex ==
  ASSUME NEW n \in Nat, n <= Slots
  PROVE  n % Slots = IF n = Slots THEN 0 ELSE n
<1>1. CASE n = Slots
  BY <1>1, MultipleMod, SizesAssumption
<1>2. CASE n < Slots
  BY <1>2, SizesAssumption
<1> QED
  BY <1>1, <1>2, SizesAssumption

-----------------------------------------------------------------------------
(* Rows. *)

LEMMA RowFields ==
  ASSUME NEW s \in Nat, NEW e \in Nat, NEW f \in Flags
  PROVE  /\ Row(s, e, f) \in RowType
         /\ Row(s, e, f).start = s
         /\ Row(s, e, f).end = e
         /\ Row(s, e, f).flag = f
         /\ Bytes(Row(s, e, f)) = s .. (e - 1)
  BY DEF Row, RowType, Bytes

LEMMA RowTypes ==
  ASSUME NEW r \in RowType
  PROVE  r.start \in Nat /\ r.end \in Nat /\ r.flag \in Flags
  BY DEF RowType

LEMMA FlagTypes == BusyFlags \subseteq Flags /\ FRAME_FREE \in Flags
  BY DEF Flags, BusyFlags

-----------------------------------------------------------------------------
(* What cutting [s, e) out of row i does to the table. *)

LEMMA CarveType ==
  ASSUME TypeOK, mem_index # Slots - 1,
         NEW i \in InUse, NEW s \in Nat, NEW e \in Nat, NEW type \in BusyFlags,
         Carve(i, s, e, type)
  PROVE  /\ g_mem' \in [Indices -> RowType]
         /\ mem_index' \in Indices
         /\ InUse' \subseteq InUse \cup {mem_index, mem_index + 1}
<1>1. mem_index \in Nat /\ mem_index < Slots - 1 /\ i \in Indices /\ mem_index \in Indices
      /\ mem_index + 1 \in Indices
  BY SizesAssumption DEF TypeOK, Indices, InUse
<1>2. (mem_index + 1) % Slots = mem_index + 1
      /\ (mem_index + 2) % Slots = IF mem_index + 2 = Slots THEN 0 ELSE mem_index + 2
  BY <1>1, NextIndex, SizesAssumption
<1>3. g_mem \in [Indices -> RowType] /\ g_mem[i] \in RowType
  BY <1>1 DEF TypeOK
<1>4. /\ Row(s, e, type) \in RowType
      /\ Row(e, g_mem[i].end, FRAME_FREE) \in RowType
      /\ Row(g_mem[i].start, s, g_mem[i].flag) \in RowType
  BY <1>3, FlagTypes, RowFields, RowTypes
<1>5. g_mem' \in [Indices -> RowType]
  BY <1>1, <1>3, <1>4 DEF Carve
<1>6. mem_index' \in {mem_index, mem_index + 1, (mem_index + 2) % Slots}
  BY <1>2 DEF Carve
<1>7. mem_index' \in Nat /\ mem_index' < Slots /\ mem_index' <= mem_index + 2
  BY <1>1, <1>2, <1>6, SizesAssumption
<1>8. mem_index' \in Indices
  BY <1>7, SizesAssumption DEF Indices
<1>9. InUse' \subseteq InUse \cup {mem_index, mem_index + 1}
  <2>1. InUse' = 0 .. (mem_index' - 1)
    BY DEF InUse
  <2>2. ASSUME NEW m \in Nat, NEW n \in Nat, n <= m + 2
        PROVE  \A j \in 0 .. (n - 1) : j < m \/ j = m \/ j = m + 1
    BY <2>2
  <2>3. \A j \in 0 .. (mem_index' - 1) : j < mem_index => j \in InUse
    BY <1>1, <1>7 DEF InUse
  <2> QED
    BY <1>1, <1>7, <2>1, <2>2, <2>3
<1> QED
  BY <1>5, <1>8, <1>9

(* After a cut, a row that was in use describes part of what it described,  *)
(* a row that is new describes part of what row i described, and the pieces *)
(* of row i do not meet.                                                    *)
LEMMA CarveRows ==
  ASSUME TypeOK, mem_index # Slots - 1,
         NEW i \in InUse, NEW s \in Nat, NEW e \in Nat, NEW type \in BusyFlags,
         s <= e, Holds(i, s, e), Carve(i, s, e, type)
  PROVE  /\ \A j \in InUse' : j \in InUse /\ j # i => g_mem'[j] = g_mem[j]
         /\ \A j \in InUse' : j \notin InUse \/ j = i
              => Bytes(g_mem'[j]) \subseteq Bytes(g_mem[i])
         /\ \A j, k \in InUse' : j # k /\ (j \notin InUse \/ j = i) /\ (k \notin InUse \/ k = i)
              => Bytes(g_mem'[j]) \cap Bytes(g_mem'[k]) = {}
<1>1. mem_index \in Nat /\ mem_index < Slots - 1 /\ i \in Indices /\ mem_index \in Indices
      /\ mem_index + 1 \in Indices /\ i < mem_index /\ i \in Nat
  BY SizesAssumption DEF TypeOK, Indices, InUse
<1>2. g_mem \in [Indices -> RowType] /\ g_mem[i] \in RowType
  BY <1>1 DEF TypeOK
<1>3. /\ g_mem[i].start \in Nat /\ g_mem[i].end \in Nat /\ g_mem[i].flag \in Flags
      /\ g_mem[i].start <= s /\ e <= g_mem[i].end
  BY <1>2, RowTypes DEF Holds
<1>4. InUse' \subseteq InUse \cup {mem_index, mem_index + 1}
  BY CarveType
<1>5. \A j \in InUse : j \in Indices /\ j # mem_index /\ j # mem_index + 1
  BY <1>1, SizesAssumption DEF InUse, Indices
<1> DEFINE Old == g_mem[i].start .. (g_mem[i].end - 1)
           Mid == s .. (e - 1)
           Low == g_mem[i].start .. (s - 1)
           High == e .. (g_mem[i].end - 1)
<1>6. Bytes(g_mem[i]) = Old
  BY DEF Bytes
<1>7. /\ Mid \subseteq Old /\ Low \subseteq Old /\ High \subseteq Old
      /\ Mid \cap Low = {} /\ Mid \cap High = {} /\ Low \cap High = {}
  BY <1>3
<1>8. /\ Bytes(Row(s, e, type)) = Mid
      /\ Bytes(Row(e, g_mem[i].end, FRAME_FREE)) = High
      /\ Bytes(Row(g_mem[i].start, s, g_mem[i].flag)) = Low
  <2>1. type \in Flags /\ FRAME_FREE \in Flags
    BY FlagTypes
  <2>2. Bytes(Row(s, e, type)) = Mid
    BY <2>1, RowFields
  <2>3. Bytes(Row(e, g_mem[i].end, FRAME_FREE)) = High
    BY <1>3, <2>1, RowFields
  <2>4. Bytes(Row(g_mem[i].start, s, g_mem[i].flag)) = Low
    BY <1>3, RowFields
  <2> QED
    BY <2>2, <2>3, <2>4
<1> HIDE DEF Old, Mid, Low, High
<1>9. CASE s = g_mem[i].start /\ e = g_mem[i].end
  <2>1. InUse' = InUse
    BY <1>9 DEF Carve, InUse
  <2>2. g_mem' = [g_mem EXCEPT ![i] = Row(s, e, type)]
    BY <1>9 DEF Carve
  <2> QED
    BY <1>1, <1>2, <1>5, <1>6, <1>7, <1>8, <2>1, <2>2
<1>10. CASE s = g_mem[i].start /\ e # g_mem[i].end
  <2>1. InUse' \subseteq InUse \cup {mem_index}
    <3>1. mem_index' = mem_index + 1
      BY <1>1, <1>10, NextIndex, SizesAssumption DEF Carve
    <3> QED
      BY <1>1, <3>1 DEF InUse
  <2>2. g_mem' = [g_mem EXCEPT ![mem_index] = Row(s, e, type),
                               ![i] = Row(e, g_mem[i].end, FRAME_FREE)]
    BY <1>10 DEF Carve
  <2>3. g_mem'[mem_index] = Row(s, e, type) /\ g_mem'[i] = Row(e, g_mem[i].end, FRAME_FREE)
        /\ \A j \in Indices : j # i /\ j # mem_index => g_mem'[j] = g_mem[j]
    BY <1>1, <1>2, <2>2
  <2> QED
    BY <1>5, <1>6, <1>7, <1>8, <2>1, <2>3
<1>11. CASE s # g_mem[i].start /\ e = g_mem[i].end
  <2>1. InUse' \subseteq InUse \cup {mem_index}
    <3>1. mem_index' = mem_index + 1
      BY <1>1, <1>11, NextIndex, SizesAssumption DEF Carve
    <3> QED
      BY <1>1, <3>1 DEF InUse
  <2>2. g_mem' = [g_mem EXCEPT ![mem_index] = Row(s, e, type),
                               ![i] = Row(g_mem[i].start, s, g_mem[i].flag)]
    BY <1>11 DEF Carve
  <2>3. g_mem'[mem_index] = Row(s, e, type)
        /\ g_mem'[i] = Row(g_mem[i].start, s, g_mem[i].flag)
        /\ \A j \in Indices : j # i /\ j # mem_index => g_mem'[j] = g_mem[j]
    BY <1>1, <1>2, <2>2
  <2> QED
    BY <1>5, <1>6, <1>7, <1>8, <2>1, <2>3
<1>12. CASE s # g_mem[i].start /\ e # g_mem[i].end
  <2>1. g_mem' = [g_mem EXCEPT ![mem_index] = Row(s, e, type),
                               ![mem_index + 1] = Row(e, g_mem[i].end, FRAME_FREE),
                               ![i] = Row(g_mem[i].start, s, g_mem[i].flag)]
    BY <1>12 DEF Carve
  <2>2. g_mem'[mem_index] = Row(s, e, type)
        /\ g_mem'[mem_index + 1] = Row(e, g_mem[i].end, FRAME_FREE)
        /\ g_mem'[i] = Row(g_mem[i].start, s, g_mem[i].flag)
        /\ \A j \in Indices : j # i /\ j # mem_index /\ j # mem_index + 1 => g_mem'[j] = g_mem[j]
    BY <1>1, <1>2, <2>1
  <2> QED
    BY <1>4, <1>5, <1>6, <1>7, <1>8, <2>2
<1> QED
  BY <1>9, <1>10, <1>11, <1>12

LEMMA CarveDisjoint ==
  ASSUME TypeOK, RowsDisjoint, mem_index # Slots - 1,
         NEW i \in InUse, NEW s \in Nat, NEW e \in Nat, NEW type \in BusyFlags,
         s <= e, Holds(i, s, e), Carve(i, s, e, type)
  PROVE  /\ RowsDisjoint'
         /\ \A j \in InUse' : \E k \in InUse : Bytes(g_mem'[j]) \subseteq Bytes(g_mem[k])
<1> DEFINE Old(j) == j \in InUse /\ j # i
<1>1. /\ \A j \in InUse' : Old(j) => g_mem'[j] = g_mem[j]
      /\ \A j \in InUse' : ~Old(j) => Bytes(g_mem'[j]) \subseteq Bytes(g_mem[i])
      /\ \A j, k \in InUse' : j # k /\ ~Old(j) /\ ~Old(k)
           => Bytes(g_mem'[j]) \cap Bytes(g_mem'[k]) = {}
  BY CarveRows
<1>2. \A j, k \in InUse : j # k => Bytes(g_mem[j]) \cap Bytes(g_mem[k]) = {}
  BY DEF RowsDisjoint
<1>3. \A j \in InUse' : Old(j) => j \in InUse /\ j # i
  OBVIOUS
<1> HIDE DEF Old
<1>4. \A j, k \in InUse' : j # k => Bytes(g_mem'[j]) \cap Bytes(g_mem'[k]) = {}
  BY <1>1, <1>2, <1>3
<1>5. RowsDisjoint'
  BY <1>4 DEF RowsDisjoint, Bytes
<1>6. ASSUME NEW j \in InUse'
      PROVE  \E k \in InUse : Bytes(g_mem'[j]) \subseteq Bytes(g_mem[k])
  BY <1>1, <1>3, <1>6
<1> QED
  BY <1>5, <1>6

(* A reservation refines the table, or leaves it alone. *)
LEMMA ReserveRows ==
  ASSUME TypeOK, RowsDisjoint,
         NEW addr \in Nat, NEW len \in Nat, NEW type \in BusyFlags, Reserve(addr, len, type)
  PROVE  /\ g_mem' \in [Indices -> RowType] /\ mem_index' \in Indices
         /\ RowsDisjoint'
         /\ \A j \in InUse' : \E k \in InUse : Bytes(g_mem'[j]) \subseteq Bytes(g_mem[k])
<1> DEFINE s == AlignDown(addr)
           e == AlignUp(addr + len)
<1>1. s \in Nat /\ e \in Nat /\ s <= e
  BY AlignDownBounds, AlignUpBounds
<1> HIDE DEF s, e
<1>2. CASE UNCHANGED <<g_mem, mem_index>>
  BY <1>2 DEF TypeOK, RowsDisjoint, InUse
<1>3. CASE mem_index # Slots - 1 /\ \E i \in InUse : FirstHolding(i, s, e) /\ Carve(i, s, e, type)
  <2>1. PICK i \in InUse : Holds(i, s, e) /\ Carve(i, s, e, type)
    BY <1>3 DEF FirstHolding
  <2> QED
    BY <1>1, <1>3, <2>1, CarveType, CarveDisjoint
<1> QED
  BY <1>2, <1>3 DEF Reserve, s, e

-----------------------------------------------------------------------------
(* The steps of the loader. *)

LEMMA MapEntry ==
  ASSUME NEW k \in 1 .. Len(MemoryMap)
  PROVE  /\ MemoryMap[k].addr \in Nat /\ MemoryMap[k].len \in Nat
         /\ k \in Usable <=> MemoryMap[k].type = 1
<1>1. MemoryMap[k] \in [addr : Nat, len : Nat, type : Nat]
  BY MemoryMapAssumption, ElementOfSeq
<1>2. k \in DOMAIN MemoryMap
  BY MemoryMapAssumption
<1> QED
  BY <1>1, <1>2 DEF Usable

LEMMA ReservationEntry ==
  ASSUME NEW k \in 1 .. Len(Reservations)
  PROVE  /\ Reservations[k].addr \in Nat /\ Reservations[k].len \in Nat
         /\ Reservations[k].type \in BusyFlags
<1>1. Reservations[k] \in [addr : Nat, len : Nat, type : BusyFlags]
  BY CallersAssumption, ElementOfSeq
<1> QED
  BY <1>1

LEMMA InitTypeOK == Init => TypeOK
<1> SUFFICES ASSUME Init PROVE TypeOK
  OBVIOUS
<1>1. FRAME_UNSET \in Flags /\ 0 \in Indices
  BY SizesAssumption DEF Flags, Indices
<1>2. g_mem \in [Indices -> RowType]
  BY <1>1, RowFields DEF Init
<1>3. Len(MemoryMap) \in Nat /\ Len(Reservations) \in Nat
  BY MemoryMapAssumption, CallersAssumption
<1> QED
  BY <1>1, <1>2, <1>3 DEF Init, TypeOK, NoLoan

(* Rows cover disjoint parts of the RAM reported so far.                    *)
RowInv == TypeOK /\ RowsDisjoint /\ RowsInRam

LEMMA AddRangeInv ==
  ASSUME RowInv, AddRange
  PROVE  RowInv'
<1> DEFINE k == added + 1
           m == MemoryMap[k]
           s == AlignUp(m.addr)
           e == AlignDown(m.addr + m.len)
<1>1. /\ added \in Nat /\ k \in 1 .. Len(MemoryMap) /\ added' = k /\ reserved' = reserved /\ loan' = loan
      /\ added' \in 0 .. Len(MemoryMap)
  BY MemoryMapAssumption DEF AddRange, RowInv, TypeOK
<1>2. m.addr \in Nat /\ m.len \in Nat /\ (k \in Usable <=> m.type = 1)
  BY <1>1, MapEntry
<1>3. s \in Nat /\ e \in Nat /\ m.addr <= s /\ e <= m.addr + m.len
  BY <1>2, AlignDownBounds, AlignUpBounds
<1>4. Ram \subseteq Ram'
  <2>1. \A l \in Usable : l \in Nat
    BY MemoryMapAssumption DEF Usable
  <2>2. \A l \in Usable : l <= added => l <= added'
    BY <1>1, <2>1
  <2> QED
    BY <2>2 DEF Ram
<1>5. CASE m.type # 1
  <2>1. g_mem' = g_mem /\ mem_index' = mem_index
    BY <1>5 DEF AddRange
  <2> QED
    BY <1>1, <1>4, <2>1 DEF RowInv, TypeOK, RowsDisjoint, RowsInRam, InUse
<1>6. CASE m.type = 1
  <2>1. /\ g_mem' = [g_mem EXCEPT ![mem_index] = Row(s, e, FRAME_FREE)]
        /\ mem_index' = (mem_index + 1) % Slots
    BY <1>6 DEF AddRange
  <2>2. Row(s, e, FRAME_FREE) \in RowType /\ Bytes(Row(s, e, FRAME_FREE)) = s .. (e - 1)
    BY <1>3, FlagTypes, RowFields
  <2>3. mem_index \in Nat /\ mem_index < Slots /\ mem_index \in Indices
    BY SizesAssumption DEF RowInv, TypeOK, Indices
  <2>4. mem_index' = IF mem_index + 1 = Slots THEN 0 ELSE mem_index + 1
    BY <2>1, <2>3, NextIndex, SizesAssumption
  <2>5. TypeOK'
    <3>1. mem_index' \in Indices
      BY <2>3, <2>4, SizesAssumption DEF Indices
    <3>2. g_mem' \in [Indices -> RowType]
      BY <2>1, <2>2, <2>3 DEF RowInv, TypeOK
    <3> QED
      BY <1>1, <3>1, <3>2 DEF RowInv, TypeOK
  <2>6. \A j \in InUse' : \/ j = mem_index /\ g_mem'[j] = Row(s, e, FRAME_FREE)
                          \/ j \in InUse /\ j # mem_index /\ g_mem'[j] = g_mem[j]
    <3>1. InUse' \subseteq InUse \cup {mem_index}
      BY <2>3, <2>4 DEF InUse
    <3>2. \A j \in InUse : j \in Indices /\ j # mem_index
      BY <2>3, SizesAssumption DEF InUse, Indices
    <3>3. g_mem \in [Indices -> RowType]
      BY DEF RowInv, TypeOK
    <3> QED
      BY <2>1, <2>3, <3>1, <3>2, <3>3
  <2>7. Bytes(Row(s, e, FRAME_FREE)) \subseteq RangeBytes(m)
    BY <1>2, <1>3, <2>2 DEF RangeBytes
  <2>8. RangeBytes(m) \subseteq Ram'
    BY <1>1, <1>2, <1>6 DEF Ram
  <2>9. RangeBytes(m) \cap Ram = {}
    <3>1. \A l \in Usable : l <= added => l # k
      BY <1>1
    <3> QED
      BY <1>2, <1>6, <3>1, MemoryMapAssumption DEF Ram
  <2>10. RowsInRam'
    <3>1. \A j \in InUse' : Bytes(g_mem'[j]) \subseteq Ram'
      BY <1>4, <2>6, <2>7, <2>8 DEF RowInv, RowsInRam
    <3> QED
      BY <3>1 DEF RowsInRam, Bytes
  <2>11. RowsDisjoint'
    <3>1. \A i \in InUse : Bytes(g_mem[i]) \cap Bytes(Row(s, e, FRAME_FREE)) = {}
      BY <2>7, <2>9 DEF RowInv, RowsInRam
    <3>2. \A i, j \in InUse' : i # j => Bytes(g_mem'[i]) \cap Bytes(g_mem'[j]) = {}
      BY <2>6, <3>1 DEF RowInv, RowsDisjoint
    <3> QED
      BY <3>2 DEF RowsDisjoint, Bytes
  <2> QED
    BY <2>5, <2>10, <2>11 DEF RowInv
<1> QED
  BY <1>5, <1>6

LEMMA ReserveRangeInv ==
  ASSUME RowInv, ReserveRange
  PROVE  RowInv'
<1> DEFINE r == Reservations[reserved + 1]
<1>1. /\ added' = added /\ loan' = loan
      /\ reserved + 1 \in 1 .. Len(Reservations) /\ reserved' \in 0 .. Len(Reservations)
      /\ Reserve(r.addr, r.len, r.type)
  BY CallersAssumption DEF ReserveRange, RowInv, TypeOK
<1>2. r.addr \in Nat /\ r.len \in Nat /\ r.type \in BusyFlags
  BY <1>1, ReservationEntry
<1>3. /\ g_mem' \in [Indices -> RowType] /\ mem_index' \in Indices
      /\ RowsDisjoint'
      /\ \A j \in InUse' : \E k \in InUse : Bytes(g_mem'[j]) \subseteq Bytes(g_mem[k])
  BY <1>1, <1>2, ReserveRows DEF RowInv
<1>4. RowsInRam'
  <2>1. Ram' = Ram
    BY <1>1 DEF Ram
  <2> QED
    BY <1>3, <2>1 DEF RowInv, RowsInRam, Bytes
<1> QED
  BY <1>1, <1>3, <1>4 DEF RowInv, TypeOK

LEMMA AllocInv ==
  ASSUME RowInv,
         NEW o \in Owners, NEW max \in Limits, NEW size \in Sizes, NEW type \in BusyFlags,
         Alloc(o, max, size, type)
  PROVE  RowInv'
<1> DEFINE n == AlignUp(size)
<1>1. n \in Nat
  BY CallersAssumption, AlignUpBounds
<1>2. added' = added /\ reserved' = reserved /\ Ram' = Ram
  BY DEF Alloc, Ram
<1>3. CASE NoneFits(max, n) /\ UNCHANGED <<g_mem, mem_index, loan>>
  BY <1>2, <1>3 DEF RowInv, TypeOK, RowsDisjoint, RowsInRam, InUse
<1>4. ASSUME NEW i \in InUse,
             Reserve(Ptr(g_mem[i].start), n, type),
             loan' = [loan EXCEPT ![o] = [start |-> Ptr(g_mem[i].start),
                                          end |-> Ptr(g_mem[i].start) + n]]
      PROVE  RowInv'
  <2>1. i \in Indices
    BY SizesAssumption DEF RowInv, TypeOK, InUse, Indices
  <2>2. g_mem[i].start \in Nat
    BY <2>1, RowTypes DEF RowInv, TypeOK
  <2>3. Ptr(g_mem[i].start) \in Nat
    BY <2>2, PtrBounds
  <2>4. /\ g_mem' \in [Indices -> RowType] /\ mem_index' \in Indices
        /\ RowsDisjoint'
        /\ \A j \in InUse' : \E k \in InUse : Bytes(g_mem'[j]) \subseteq Bytes(g_mem[k])
    BY <1>1, <1>4, <2>3, ReserveRows DEF RowInv
  <2>5. loan' \in [Owners -> [start : Nat, end : Nat]]
    BY <1>1, <1>4, <2>3 DEF RowInv, TypeOK
  <2>6. RowsInRam'
    BY <1>2, <2>4 DEF RowInv, RowsInRam, Bytes
  <2> QED
    BY <1>2, <2>4, <2>5, <2>6 DEF RowInv, TypeOK
<1> QED
  BY <1>3, <1>4 DEF Alloc

(* Free only writes the flag of a row. *)
LEMMA FreeAtRows ==
  ASSUME RowInv, NEW a, FreeAt(a), UNCHANGED <<mem_index, added, reserved>>,
         loan' \in [Owners -> [start : Nat, end : Nat]]
  PROVE  RowInv'
<1>1. CASE g_mem' = g_mem
  BY <1>1 DEF RowInv, TypeOK, RowsDisjoint, RowsInRam, InUse, Ram
<1>2. ASSUME NEW i \in InUse, g_mem[i].start = a,
             g_mem' = [g_mem EXCEPT ![i] = Row(a, g_mem[i].end, FRAME_FREE)]
      PROVE  RowInv'
  <2>1. i \in Indices /\ InUse \subseteq Indices /\ InUse' = InUse /\ Ram' = Ram
    BY SizesAssumption DEF RowInv, TypeOK, InUse, Indices, Ram
  <2>2. g_mem \in [Indices -> RowType] /\ g_mem[i] \in RowType
    BY <2>1 DEF RowInv, TypeOK
  <2>3. g_mem' = [g_mem EXCEPT ![i] = Row(g_mem[i].start, g_mem[i].end, FRAME_FREE)]
    BY <1>2
  <2>4. Row(g_mem[i].start, g_mem[i].end, FRAME_FREE) \in RowType
        /\ Bytes(Row(g_mem[i].start, g_mem[i].end, FRAME_FREE)) = Bytes(g_mem[i])
    BY <2>2, RowFields, RowTypes, FlagTypes, SMTT(30) DEF Bytes
  <2>5. g_mem' \in [Indices -> RowType]
    BY <2>2, <2>3, <2>4
  <2>6. \A j \in Indices : Bytes(g_mem'[j]) = Bytes(g_mem[j])
    BY <2>1, <2>2, <2>3, <2>4
  <2>7. RowsDisjoint' /\ RowsInRam'
    BY <2>1, <2>6 DEF RowInv, RowsDisjoint, RowsInRam, Bytes
  <2> QED
    BY <2>5, <2>7 DEF RowInv, TypeOK
<1> QED
  BY <1>1, <1>2 DEF FreeAt

LEMMA InitRowInv == Init => RowInv
<1>1. Init => RowsDisjoint /\ RowsInRam
  BY DEF Init, RowsDisjoint, RowsInRam, InUse
<1> QED
  BY <1>1, InitTypeOK DEF RowInv

LEMMA StepRowInv ==
  ASSUME RowInv, [CallersNext]_vars
  PROVE  RowInv'
<1>1. ASSUME NEW o \in Owners, Free(o)
      PROVE  RowInv'
  <2>1. NoLoan \in [start : Nat, end : Nat]
    BY DEF NoLoan
  <2>2. loan' \in [Owners -> [start : Nat, end : Nat]]
    BY <1>1, <2>1 DEF Free, RowInv, TypeOK
  <2> QED
    BY <1>1, <2>2, FreeAtRows DEF Free
<1>2. ASSUME NEW max \in Limits, NEW size \in Sizes, FreeRefused(max, size)
      PROVE  RowInv'
  BY <1>2, FreeAtRows DEF FreeRefused, RowInv, TypeOK
<1>3. CASE UNCHANGED vars
  BY <1>3 DEF vars, RowInv, TypeOK, RowsDisjoint, RowsInRam, InUse, Ram
<1> QED
  BY <1>1, <1>2, <1>3, AddRangeInv, ReserveRangeInv, AllocInv DEF CallersNext, Next, AllocOrFree

(* The table stays well typed, no two rows describe the same byte and no    *)
(* row describes a byte the firmware did not report, for every memory map,  *)
(* with the callers the loader has: even when mem_index wraps, when a       *)
(* reservation is dropped, when Alloc truncates an address or when address  *)
(* 0 is freed.                                                              *)
THEOREM RowsSound == CallersSpec => [](TypeOK /\ RowsDisjoint /\ RowsInRam)
<1>1. RowInv /\ [CallersNext]_vars => RowInv'
  BY StepRowInv
<1>2. RowInv => TypeOK /\ RowsDisjoint /\ RowsInRam
  BY DEF RowInv
<1> QED
  BY InitRowInv, <1>1, <1>2, PTL DEF CallersSpec

(* In particular no row, free or lent, ever describes memory that the       *)
(* firmware did not report: neither rounding to pages in AddRange nor the   *)
(* parts that a reservation is cut into reach outside of RAM.               *)
THEOREM RowsStayInRam == CallersSpec => []RowsInRam
<1>1. TypeOK /\ RowsDisjoint /\ RowsInRam => RowsInRam
  OBVIOUS
<1> QED
  BY RowsSound, <1>1, PTL

-----------------------------------------------------------------------------
(* Alignment. *)

LEMMA CarveAligned ==
  ASSUME TypeOK, RowsAligned, mem_index # Slots - 1,
         NEW i \in InUse, NEW s \in Nat, NEW e \in Nat, NEW type \in BusyFlags,
         Aligned(s), Aligned(e), Carve(i, s, e, type)
  PROVE  RowsAligned'
<1> DEFINE Whole(r) == Aligned(r.start) /\ Aligned(r.end)
<1>1. /\ i \in Indices /\ mem_index \in Indices /\ mem_index + 1 \in Indices
      /\ \A j \in InUse : j \in Indices
  BY SizesAssumption DEF TypeOK, Indices, InUse
<1>2. g_mem \in [Indices -> RowType] /\ g_mem[i] \in RowType
  BY <1>1 DEF TypeOK
<1>3. InUse' \subseteq InUse \cup {mem_index, mem_index + 1}
  BY CarveType
<1>4. \A j \in InUse : Whole(g_mem[j])
  BY DEF RowsAligned
<1>5. /\ Whole(Row(s, e, type))
      /\ Whole(Row(e, g_mem[i].end, FRAME_FREE))
      /\ Whole(Row(g_mem[i].start, s, g_mem[i].flag))
  BY <1>4 DEF Row
<1> HIDE DEF Whole
<1>6. CASE s = g_mem[i].start /\ e = g_mem[i].end
  <2>1. g_mem' = [g_mem EXCEPT ![i] = Row(s, e, type)] /\ InUse' = InUse
    BY <1>6 DEF Carve, InUse
  <2>2. \A j \in InUse' : Whole(g_mem'[j])
    BY <1>1, <1>2, <1>4, <1>5, <2>1
  <2> QED
    BY <2>2 DEF Whole, RowsAligned, Aligned
<1>7. CASE s = g_mem[i].start /\ e # g_mem[i].end
  <2>1. /\ g_mem' = [g_mem EXCEPT ![mem_index] = Row(s, e, type),
                                  ![i] = Row(e, g_mem[i].end, FRAME_FREE)]
        /\ mem_index' = (mem_index + 1) % Slots
    BY <1>7 DEF Carve
  <2>2. InUse' \subseteq InUse \cup {mem_index}
    <3>1. mem_index \in Nat /\ mem_index < Slots - 1
      BY SizesAssumption DEF TypeOK, Indices
    <3>2. mem_index' = mem_index + 1
      BY <2>1, <3>1, NextIndex, SizesAssumption
    <3> QED
      BY <3>1, <3>2 DEF InUse
  <2>3. \A j \in InUse' : Whole(g_mem'[j])
    BY <1>1, <1>2, <1>4, <1>5, <2>1, <2>2
  <2> QED
    BY <2>3 DEF Whole, RowsAligned, Aligned
<1>8. CASE s # g_mem[i].start /\ e = g_mem[i].end
  <2>1. /\ g_mem' = [g_mem EXCEPT ![mem_index] = Row(s, e, type),
                                  ![i] = Row(g_mem[i].start, s, g_mem[i].flag)]
        /\ mem_index' = (mem_index + 1) % Slots
    BY <1>8 DEF Carve
  <2>2. InUse' \subseteq InUse \cup {mem_index}
    <3>1. mem_index \in Nat /\ mem_index < Slots - 1
      BY SizesAssumption DEF TypeOK, Indices
    <3>2. mem_index' = mem_index + 1
      BY <2>1, <3>1, NextIndex, SizesAssumption
    <3> QED
      BY <3>1, <3>2 DEF InUse
  <2>3. \A j \in InUse' : Whole(g_mem'[j])
    BY <1>1, <1>2, <1>4, <1>5, <2>1, <2>2
  <2> QED
    BY <2>3 DEF Whole, RowsAligned, Aligned
<1>9. CASE s # g_mem[i].start /\ e # g_mem[i].end
  <2>1. g_mem' = [g_mem EXCEPT ![mem_index] = Row(s, e, type),
                               ![mem_index + 1] = Row(e, g_mem[i].end, FRAME_FREE),
                               ![i] = Row(g_mem[i].start, s, g_mem[i].flag)]
    BY <1>9 DEF Carve
  <2>2. \A j \in InUse' : Whole(g_mem'[j])
    BY <1>1, <1>2, <1>3, <1>4, <1>5, <2>1
  <2> QED
    BY <2>2 DEF Whole, RowsAligned, Aligned
<1> QED
  BY <1>6, <1>7, <1>8, <1>9

LEMMA ReserveAligned ==
  ASSUME TypeOK, RowsAligned,
         NEW addr \in Nat, NEW len \in Nat, NEW type \in BusyFlags, Reserve(addr, len, type)
  PROVE  RowsAligned'
<1> DEFINE s == AlignDown(addr)
           e == AlignUp(addr + len)
<1>1. s \in Nat /\ e \in Nat /\ Aligned(s) /\ Aligned(e)
  BY AlignDownBounds, AlignUpBounds
<1> HIDE DEF s, e
<1>2. CASE UNCHANGED <<g_mem, mem_index>>
  BY <1>2 DEF RowsAligned, Aligned, InUse
<1>3. CASE mem_index # Slots - 1 /\ \E i \in InUse : FirstHolding(i, s, e) /\ Carve(i, s, e, type)
  BY <1>1, <1>3, CarveAligned
<1> QED
  BY <1>2, <1>3 DEF Reserve, s, e

LEMMA AddRangeAligned ==
  ASSUME RowInv, RowsAligned, AddRange
  PROVE  RowsAligned'
<1> DEFINE m == MemoryMap[added + 1]
           r == Row(AlignUp(m.addr), AlignDown(m.addr + m.len), FRAME_FREE)
<1>1. added + 1 \in 1 .. Len(MemoryMap)
  BY MemoryMapAssumption DEF AddRange, RowInv, TypeOK
<1>2. m.addr \in Nat /\ m.len \in Nat
  BY <1>1, MapEntry
<1>3. Aligned(r.start) /\ Aligned(r.end)
  BY <1>2, AlignDownBounds, AlignUpBounds DEF Row
<1>4. CASE UNCHANGED <<g_mem, mem_index>>
  BY <1>4 DEF RowsAligned, Aligned, InUse
<1>5. CASE g_mem' = [g_mem EXCEPT ![mem_index] = r] /\ mem_index' = (mem_index + 1) % Slots
  <2>1. mem_index \in Indices /\ InUse \subseteq Indices /\ g_mem \in [Indices -> RowType]
    BY SizesAssumption DEF RowInv, TypeOK, Indices, InUse
  <2>2. InUse' \subseteq InUse \cup {mem_index}
    <3>1. mem_index \in Nat /\ mem_index + 1 <= Slots
      BY SizesAssumption DEF RowInv, TypeOK, Indices
    <3>2. mem_index' \in {0, mem_index + 1}
      BY <1>5, <3>1, NextIndex, SizesAssumption
    <3>3. CASE mem_index' = 0
      <4>1. InUse' = {}
        BY <3>3 DEF InUse
      <4> QED
        BY <4>1
    <3>4. CASE mem_index' = mem_index + 1
      <4>1. InUse' = 0 .. mem_index
        BY <3>1, <3>4 DEF InUse
      <4>2. 0 .. mem_index = (0 .. (mem_index - 1)) \cup {mem_index}
        BY <3>1
      <4> QED
        BY <4>1, <4>2 DEF InUse
    <3> QED
      BY <3>2, <3>3, <3>4
  <2> HIDE DEF r
  <2>3. \A j \in InUse' : g_mem'[j] = r \/ (j \in InUse /\ g_mem'[j] = g_mem[j])
    BY <1>5, <2>1, <2>2
  <2> QED
    BY <1>3, <2>3 DEF RowsAligned, Aligned
<1> QED
  BY <1>4, <1>5 DEF AddRange

(* Free keeps a row's bounds. *)
LEMMA FreeAtAligned ==
  ASSUME RowInv, RowsAligned, NEW a, FreeAt(a), UNCHANGED mem_index
  PROVE  RowsAligned'
<1>1. InUse \subseteq Indices /\ g_mem \in [Indices -> RowType] /\ InUse' = InUse
  BY SizesAssumption DEF RowInv, TypeOK, Indices, InUse
<1>2. CASE UNCHANGED g_mem
  BY <1>1, <1>2 DEF RowsAligned, Aligned
<1>3. ASSUME NEW i \in InUse, g_mem[i].start = a,
             g_mem' = [g_mem EXCEPT ![i] = Row(a, g_mem[i].end, FRAME_FREE)]
      PROVE  RowsAligned'
  <2>1. \A j \in InUse : g_mem'[j].start = g_mem[j].start /\ g_mem'[j].end = g_mem[j].end
    BY <1>1, <1>3 DEF Row
  <2> QED
    BY <1>1, <2>1 DEF RowsAligned, Aligned
<1> QED
  BY <1>2, <1>3 DEF FreeAt

LEMMA StepAligned ==
  ASSUME RowInv, RowsAligned, [CallersNext]_vars
  PROVE  RowsAligned'
<1>1. CASE AddRange
  BY <1>1, AddRangeAligned
<1>2. CASE ReserveRange
  <2>1. reserved + 1 \in 1 .. Len(Reservations)
    BY <1>2, CallersAssumption DEF ReserveRange, RowInv, TypeOK
  <2> QED
    BY <1>2, <2>1, ReservationEntry, ReserveAligned DEF ReserveRange, RowInv
<1>3. ASSUME NEW o \in Owners, NEW max \in Limits, NEW size \in Sizes, NEW type \in BusyFlags,
             Alloc(o, max, size, type)
      PROVE  RowsAligned'
  <2>1. AlignUp(size) \in Nat
    BY CallersAssumption, AlignUpBounds
  <2>2. CASE UNCHANGED <<g_mem, mem_index>>
    BY <2>2 DEF RowsAligned, Aligned, InUse
  <2>3. ASSUME NEW i \in InUse, Reserve(Ptr(g_mem[i].start), AlignUp(size), type)
        PROVE  RowsAligned'
    <3>1. i \in Indices
      BY SizesAssumption DEF RowInv, TypeOK, InUse, Indices
    <3>2. Ptr(g_mem[i].start) \in Nat
      BY <3>1, RowTypes, PtrBounds DEF RowInv, TypeOK
    <3> QED
      BY <2>1, <2>3, <3>2, ReserveAligned DEF RowInv
  <2> QED
    BY <1>3, <2>2, <2>3 DEF Alloc
<1>4. ASSUME NEW o \in Owners, Free(o)
      PROVE  RowsAligned'
  BY <1>4, FreeAtAligned DEF Free
<1>5. ASSUME NEW max \in Limits, NEW size \in Sizes, FreeRefused(max, size)
      PROVE  RowsAligned'
  BY <1>5, FreeAtAligned DEF FreeRefused
<1>6. CASE UNCHANGED vars
  BY <1>6 DEF vars, RowsAligned, Aligned, InUse
<1> QED
  BY <1>1, <1>2, <1>3, <1>4, <1>5, <1>6 DEF CallersNext, Next, AllocOrFree

(* Rows stay page aligned, so that the flags fit into the low bits of their *)
(* first word: also for addresses that Alloc has truncated, for ranges the  *)
(* firmware did not align and when address 0 is freed.                      *)
THEOREM RowsStayAligned == CallersSpec => []RowsAligned
<1>1. Init => RowsAligned
  BY DEF Init, RowsAligned, InUse
<1>2. RowInv /\ RowsAligned /\ [CallersNext]_vars => RowInv' /\ RowsAligned'
  BY StepRowInv, StepAligned
<1> QED
  BY InitRowInv, <1>1, <1>2, PTL DEF CallersSpec

-----------------------------------------------------------------------------
(* No row is empty, when nobody asks for nothing and the firmware reports   *)
(* no range that is shorter than a page.                                    *)

WholeRequests ==
  /\ \A k \in Usable : AlignUp(MemoryMap[k].addr) < AlignDown(MemoryMap[k].addr + MemoryMap[k].len)
  /\ \A k \in 1 .. Len(Reservations) : Reservations[k].len > 0
  /\ 0 \notin Sizes

RowsWhole == \A i \in InUse : g_mem[i].start < g_mem[i].end

(* Rows lie in the whole pages of the RAM reported so far.                  *)
RowsInPages == \A i \in InUse : Bytes(g_mem[i]) \subseteq RamPages

(* The rows after [s, e) was cut out of row i: the others, the row that was *)
(* asked for, and what is left of row i on either side of it, if anything.  *)
LEMMA CarveExactly ==
  ASSUME TypeOK, mem_index + 2 < Slots,
         NEW i \in InUse, NEW s \in Nat, NEW e \in Nat, NEW type \in BusyFlags,
         Holds(i, s, e), Carve(i, s, e, type)
  PROVE  /\ \A j \in InUse : j # i => j \in InUse' /\ g_mem'[j] = g_mem[j]
         /\ \E j \in InUse' : g_mem'[j] = Row(s, e, type)
         /\ s # g_mem[i].start => \E j \in InUse' : g_mem'[j] = Row(g_mem[i].start, s, FRAME_FREE)
         /\ e # g_mem[i].end => \E j \in InUse' : g_mem'[j] = Row(e, g_mem[i].end, FRAME_FREE)
<1>1. /\ mem_index \in Nat /\ InUse \subseteq Indices
      /\ mem_index \in Indices /\ mem_index + 1 \in Indices
      /\ mem_index \notin InUse /\ mem_index + 1 \notin InUse /\ i # mem_index /\ i # mem_index + 1
  BY SizesAssumption DEF TypeOK, Indices, InUse
<1>2. (mem_index + 1) % Slots = mem_index + 1 /\ (mem_index + 2) % Slots = mem_index + 2
  BY <1>1, NextIndex, SizesAssumption
<1>3. g_mem \in [Indices -> RowType] /\ g_mem[i].flag = FRAME_FREE
  BY DEF TypeOK, Holds
<1> DEFINE Mid == Row(s, e, type)
           Low == Row(g_mem[i].start, s, FRAME_FREE)
           High == Row(e, g_mem[i].end, FRAME_FREE)
<1>4. CASE s = g_mem[i].start /\ e = g_mem[i].end
  <2>1. g_mem' = [g_mem EXCEPT ![i] = Mid] /\ InUse' = InUse
    BY <1>4 DEF Carve, InUse
  <2> HIDE DEF Mid
  <2>2. g_mem'[i] = Mid /\ \A j \in InUse : j # i => g_mem'[j] = g_mem[j]
    BY <1>1, <1>3, <2>1
  <2> QED
    BY <1>4, <2>1, <2>2 DEF Mid
<1>5. CASE s = g_mem[i].start /\ e # g_mem[i].end
  <2>1. g_mem' = [g_mem EXCEPT ![mem_index] = Mid, ![i] = High] /\ mem_index' = mem_index + 1
    BY <1>2, <1>5 DEF Carve
  <2>2. InUse \subseteq InUse' /\ mem_index \in InUse'
    BY <1>1, <2>1 DEF InUse
  <2> HIDE DEF Mid, High
  <2>3. /\ g_mem'[i] = High /\ g_mem'[mem_index] = Mid
        /\ \A j \in InUse : j # i => g_mem'[j] = g_mem[j]
    BY <1>1, <1>3, <2>1
  <2> QED
    BY <1>5, <2>2, <2>3 DEF Mid, High
<1>6. CASE s # g_mem[i].start /\ e = g_mem[i].end
  <2>1. g_mem' = [g_mem EXCEPT ![mem_index] = Mid, ![i] = Low] /\ mem_index' = mem_index + 1
    BY <1>2, <1>3, <1>6 DEF Carve
  <2>2. InUse \subseteq InUse' /\ mem_index \in InUse'
    BY <1>1, <2>1 DEF InUse
  <2> HIDE DEF Mid, Low
  <2>3. /\ g_mem'[i] = Low /\ g_mem'[mem_index] = Mid
        /\ \A j \in InUse : j # i => g_mem'[j] = g_mem[j]
    BY <1>1, <1>3, <2>1
  <2> QED
    BY <1>6, <2>2, <2>3 DEF Mid, Low
<1>7. CASE s # g_mem[i].start /\ e # g_mem[i].end
  <2>1. /\ g_mem' = [g_mem EXCEPT ![mem_index] = Mid, ![mem_index + 1] = High, ![i] = Low]
        /\ mem_index' = mem_index + 2
    BY <1>2, <1>3, <1>7 DEF Carve
  <2>2. InUse \subseteq InUse' /\ mem_index \in InUse' /\ mem_index + 1 \in InUse'
    BY <1>1, <2>1 DEF InUse
  <2> HIDE DEF Mid, Low, High
  <2>3. /\ g_mem'[i] = Low /\ g_mem'[mem_index] = Mid /\ g_mem'[mem_index + 1] = High
        /\ \A j \in InUse : j # i => g_mem'[j] = g_mem[j]
    BY <1>1, <1>3, <2>1
  <2> QED
    BY <1>7, <2>2, <2>3 DEF Mid, Low, High
<1> QED
  BY <1>4, <1>5, <1>6, <1>7

(* A cut leaves no empty row, whether or not the index wraps. *)
LEMMA CarveWhole ==
  ASSUME TypeOK, RowsWhole, mem_index # Slots - 1,
         NEW i \in InUse, NEW s \in Nat, NEW e \in Nat, NEW type \in BusyFlags,
         s < e, Holds(i, s, e), Carve(i, s, e, type)
  PROVE  RowsWhole'
<1> DEFINE Full(r) == r.start < r.end
<1>1. /\ i \in Indices /\ mem_index \in Indices /\ mem_index + 1 \in Indices
      /\ \A j \in InUse : j \in Indices
  BY SizesAssumption DEF TypeOK, Indices, InUse
<1>2. /\ g_mem \in [Indices -> RowType] /\ g_mem[i] \in RowType
      /\ g_mem[i].start <= s /\ e <= g_mem[i].end
  BY <1>1 DEF TypeOK, Holds
<1>3. g_mem[i].start \in Nat /\ g_mem[i].end \in Nat
  BY <1>2, RowTypes
<1>4. \A j \in InUse : Full(g_mem[j])
  BY DEF RowsWhole
<1>5. /\ Full(Row(s, e, type))
      /\ e # g_mem[i].end => Full(Row(e, g_mem[i].end, FRAME_FREE))
      /\ s # g_mem[i].start => Full(Row(g_mem[i].start, s, g_mem[i].flag))
  BY <1>2, <1>3 DEF Row
<1> HIDE DEF Full
<1>6. ASSUME \A j \in InUse' : Full(g_mem'[j])
      PROVE  RowsWhole'
  BY <1>6 DEF RowsWhole, Full
<1>7. CASE s = g_mem[i].start /\ e = g_mem[i].end
  <2>1. g_mem' = [g_mem EXCEPT ![i] = Row(s, e, type)] /\ InUse' = InUse
    BY <1>7 DEF Carve, InUse
  <2> QED
    BY <1>1, <1>2, <1>4, <1>5, <1>6, <2>1
<1>8. mem_index' = (mem_index + 1) % Slots => InUse' \subseteq InUse \cup {mem_index}
  <2>1. mem_index \in Nat /\ mem_index < Slots - 1
    BY SizesAssumption DEF TypeOK, Indices
  <2>2. (mem_index + 1) % Slots = mem_index + 1
    BY <2>1, NextIndex, SizesAssumption
  <2> QED
    BY <2>1, <2>2 DEF InUse
<1>9. CASE s = g_mem[i].start /\ e # g_mem[i].end
  <2>1. /\ g_mem' = [g_mem EXCEPT ![mem_index] = Row(s, e, type),
                                  ![i] = Row(e, g_mem[i].end, FRAME_FREE)]
        /\ InUse' \subseteq InUse \cup {mem_index}
    BY <1>8, <1>9 DEF Carve
  <2> QED
    BY <1>1, <1>2, <1>4, <1>5, <1>6, <1>9, <2>1
<1>10. CASE s # g_mem[i].start /\ e = g_mem[i].end
  <2>1. /\ g_mem' = [g_mem EXCEPT ![mem_index] = Row(s, e, type),
                                  ![i] = Row(g_mem[i].start, s, g_mem[i].flag)]
        /\ InUse' \subseteq InUse \cup {mem_index}
    BY <1>8, <1>10 DEF Carve
  <2> QED
    BY <1>1, <1>2, <1>4, <1>5, <1>6, <1>10, <2>1
<1>11. CASE s # g_mem[i].start /\ e # g_mem[i].end
  <2>1. g_mem' = [g_mem EXCEPT ![mem_index] = Row(s, e, type),
                               ![mem_index + 1] = Row(e, g_mem[i].end, FRAME_FREE),
                               ![i] = Row(g_mem[i].start, s, g_mem[i].flag)]
    BY <1>11 DEF Carve
  <2>2. InUse' \subseteq InUse \cup {mem_index, mem_index + 1}
    BY CarveType
  <2> QED
    BY <1>1, <1>2, <1>4, <1>5, <1>6, <1>11, <2>1, <2>2
<1> QED
  BY <1>7, <1>9, <1>10, <1>11

LEMMA ReserveWhole ==
  ASSUME TypeOK, RowsWhole,
         NEW addr \in Nat, NEW len \in Nat, len > 0,
         NEW type \in BusyFlags, Reserve(addr, len, type)
  PROVE  RowsWhole'
<1> DEFINE s == AlignDown(addr)
           e == AlignUp(addr + len)
<1>1. s \in Nat /\ e \in Nat /\ s < e
  BY AlignDownBounds, AlignUpBounds
<1> HIDE DEF s, e
<1>2. CASE UNCHANGED <<g_mem, mem_index>>
  BY <1>2 DEF RowsWhole, InUse
<1>3. CASE mem_index # Slots - 1 /\ \E i \in InUse : FirstHolding(i, s, e) /\ Carve(i, s, e, type)
  BY <1>1, <1>3, CarveWhole DEF FirstHolding
<1> QED
  BY <1>2, <1>3 DEF Reserve, s, e

LEMMA AllocatesWhole ==
  ASSUME WholeRequests, RowInv, RowsWhole,
         NEW o \in Owners, NEW max \in Limits, NEW size \in Sizes, NEW type \in BusyFlags,
         Alloc(o, max, size, type)
  PROVE  RowsWhole'
<1>1. AlignUp(size) \in Nat /\ AlignUp(size) > 0
  BY CallersAssumption, AlignUpBounds DEF WholeRequests
<1>2. CASE UNCHANGED <<g_mem, mem_index>>
  BY <1>2 DEF RowsWhole, InUse
<1>3. ASSUME NEW i \in InUse, Reserve(Ptr(g_mem[i].start), AlignUp(size), type)
      PROVE  RowsWhole'
  <2>1. i \in Indices
    BY SizesAssumption DEF RowInv, TypeOK, InUse, Indices
  <2>2. Ptr(g_mem[i].start) \in Nat
    BY <2>1, RowTypes, PtrBounds DEF RowInv, TypeOK
  <2> QED
    BY <1>1, <1>3, <2>2, ReserveWhole DEF RowInv
<1> QED
  BY <1>2, <1>3 DEF Alloc

(* What a range of the memory map adds: a row of its own whole pages. *)
NewRow(k) ==
  Row(AlignUp(MemoryMap[k].addr), AlignDown(MemoryMap[k].addr + MemoryMap[k].len), FRAME_FREE)

LEMMA NewRowFields ==
  ASSUME NEW k \in 1 .. Len(MemoryMap)
  PROVE  /\ NewRow(k) \in RowType /\ NewRow(k).flag = FRAME_FREE
         /\ NewRow(k).start = AlignUp(MemoryMap[k].addr)
         /\ NewRow(k).end = AlignDown(MemoryMap[k].addr + MemoryMap[k].len)
<1> DEFINE m == MemoryMap[k]
<1>1. m.addr \in Nat /\ m.len \in Nat /\ m.addr + m.len \in Nat
  BY MapEntry
<1> HIDE DEF m
<1>2. AlignUp(m.addr) \in Nat /\ AlignDown(m.addr + m.len) \in Nat
  BY <1>1, AlignDownBounds, AlignUpBounds
<1> USE DEF m
<1> QED
  BY <1>2, FlagTypes, RowFields DEF NewRow

LEMMA AddedRow ==
  ASSUME RowInv, AddRange
  PROVE  /\ added + 1 \in 1 .. Len(MemoryMap) /\ added' = added + 1 /\ added \in Nat
         /\ added + 1 \notin Usable => UNCHANGED <<g_mem, mem_index>>
         /\ added + 1 \in Usable =>
              /\ mem_index + 1 < Slots => mem_index' = mem_index + 1
              /\ g_mem'[mem_index] = NewRow(added + 1)
              /\ \A j \in InUse : g_mem'[j] = g_mem[j]
              /\ \A j \in InUse' : j = mem_index \/ j \in InUse
<1>1. added + 1 \in 1 .. Len(MemoryMap) /\ added' = added + 1 /\ added \in Nat
  BY MemoryMapAssumption DEF AddRange, RowInv, TypeOK
<1>2. added + 1 \in Usable <=> MemoryMap[added + 1].type = 1
  BY <1>1, MapEntry
<1>3. added + 1 \notin Usable => UNCHANGED <<g_mem, mem_index>>
  BY <1>2 DEF AddRange
<1>4. CASE added + 1 \in Usable
  <2>1. g_mem' = [g_mem EXCEPT ![mem_index] = NewRow(added + 1)]
        /\ mem_index' = (mem_index + 1) % Slots
    BY <1>2, <1>4 DEF AddRange, NewRow
  <2>2. /\ mem_index \in Nat /\ mem_index + 1 <= Slots /\ mem_index \in Indices
        /\ InUse \subseteq Indices /\ mem_index \notin InUse /\ g_mem \in [Indices -> RowType]
    BY SizesAssumption DEF RowInv, TypeOK, Indices, InUse
  <2>3. mem_index' = IF mem_index + 1 = Slots THEN 0 ELSE mem_index + 1
    BY <2>1, <2>2, NextIndex, SizesAssumption
  <2>4. \A j \in InUse' : j = mem_index \/ j \in InUse
    <3>1. CASE mem_index' = 0
      BY <3>1 DEF InUse
    <3>2. CASE mem_index' = mem_index + 1
      BY <2>2, <3>2 DEF InUse
    <3> QED
      BY <2>3, <3>1, <3>2
  <2> QED
    BY <1>1, <1>4, <2>1, <2>2, <2>3, <2>4
<1> QED
  BY <1>1, <1>3, <1>4

LEMMA AddsWhole ==
  ASSUME WholeRequests, RowInv, RowsWhole, RowsInPages, AddRange
  PROVE  RowsWhole' /\ RowsInPages'
<1> DEFINE k == added + 1
<1>1. /\ k \in 1 .. Len(MemoryMap) /\ added' = k /\ added \in Nat
      /\ k \in Usable =>
           \A j \in InUse' : g_mem'[j] = NewRow(k) \/ (j \in InUse /\ g_mem'[j] = g_mem[j])
      /\ k \notin Usable => UNCHANGED <<g_mem, mem_index>>
  BY AddedRow
<1>2. RamPages \subseteq RamPages' /\ (k \in Usable => Bytes(NewRow(k)) \subseteq RamPages')
  <2>1. \A l \in Usable : l <= added => l <= added'
    BY <1>1, MemoryMapAssumption DEF Usable
  <2>2. NewRow(k).start = AlignUp(MemoryMap[k].addr)
        /\ NewRow(k).end = AlignDown(MemoryMap[k].addr + MemoryMap[k].len)
    BY <1>1, NewRowFields
  <2> QED
    BY <1>1, <2>1, <2>2 DEF RamPages, Bytes
<1>3. CASE k \notin Usable
  BY <1>1, <1>2, <1>3 DEF RowsWhole, RowsInPages, InUse
<1>4. CASE k \in Usable
  <2>1. NewRow(k).start < NewRow(k).end
    BY <1>1, <1>4, NewRowFields DEF WholeRequests
  <2> HIDE DEF k
  <2>2. RowsWhole'
    BY <1>1, <1>4, <2>1 DEF RowsWhole
  <2>3. \A j \in InUse' : Bytes(g_mem'[j]) \subseteq RamPages'
    BY <1>1, <1>2, <1>4 DEF RowsInPages
  <2> QED
    BY <2>2, <2>3 DEF RowsInPages, Bytes
<1> QED
  BY <1>3, <1>4

(* Free leaves a row's bounds alone. *)
LEMMA FreeAtBounds ==
  ASSUME RowInv, NEW a, FreeAt(a), UNCHANGED mem_index
  PROVE  /\ InUse' = InUse
         /\ \A j \in InUse : g_mem'[j].start = g_mem[j].start /\ g_mem'[j].end = g_mem[j].end
<1>1. InUse \subseteq Indices /\ g_mem \in [Indices -> RowType] /\ InUse' = InUse
  BY SizesAssumption DEF RowInv, TypeOK, Indices, InUse
<1>2. CASE UNCHANGED g_mem
  BY <1>1, <1>2
<1>3. ASSUME NEW i \in InUse, g_mem[i].start = a,
             g_mem' = [g_mem EXCEPT ![i] = Row(a, g_mem[i].end, FRAME_FREE)]
      PROVE  \A j \in InUse : g_mem'[j].start = g_mem[j].start /\ g_mem'[j].end = g_mem[j].end
  BY <1>1, <1>3 DEF Row
<1> QED
  BY <1>1, <1>2, <1>3 DEF FreeAt

LEMMA FreeAtWhole ==
  ASSUME RowInv, RowsWhole, RowsInPages, NEW a, FreeAt(a), UNCHANGED <<mem_index, added>>
  PROVE  RowsWhole' /\ RowsInPages'
<1>1. /\ InUse' = InUse /\ RamPages' = RamPages
      /\ \A j \in InUse : g_mem'[j].start = g_mem[j].start /\ g_mem'[j].end = g_mem[j].end
  BY FreeAtBounds DEF RamPages
<1> QED
  BY <1>1 DEF RowsWhole, RowsInPages, Bytes

(* Where a reservation or an Alloc leaves the rows: in those there were. *)
LEMMA StaysInPages ==
  ASSUME RowInv, RowsInPages, UNCHANGED added,
         NEW addr \in Nat, NEW len \in Nat, NEW type \in BusyFlags, Reserve(addr, len, type)
  PROVE  RowsInPages'
<1>1. \A j \in InUse' : \E k \in InUse : Bytes(g_mem'[j]) \subseteq Bytes(g_mem[k])
  BY ReserveRows DEF RowInv
<1>2. RamPages' = RamPages
  BY DEF RamPages
<1> QED
  BY <1>1, <1>2 DEF RowsInPages, Bytes

LEMMA StepWhole ==
  ASSUME WholeRequests, RowInv, RowsWhole, RowsInPages, [CallersNext]_vars
  PROVE  RowsWhole' /\ RowsInPages'
<1>1. CASE AddRange
  BY <1>1, AddsWhole
<1>2. CASE ReserveRange
  <2>1. reserved + 1 \in 1 .. Len(Reservations)
    BY <1>2, CallersAssumption DEF ReserveRange, RowInv, TypeOK
  <2>2. Reservations[reserved + 1].len > 0
    BY <2>1 DEF WholeRequests
  <2> QED
    BY <1>2, <2>1, <2>2, ReservationEntry, ReserveWhole, StaysInPages DEF ReserveRange, RowInv
<1>3. ASSUME NEW o \in Owners, NEW max \in Limits, NEW size \in Sizes, NEW type \in BusyFlags,
             Alloc(o, max, size, type)
      PROVE  RowsWhole' /\ RowsInPages'
  <2>1. AlignUp(size) \in Nat /\ added' = added
    BY <1>3, CallersAssumption, AlignUpBounds DEF Alloc
  <2>2. CASE UNCHANGED <<g_mem, mem_index>>
    BY <2>1, <2>2 DEF RowsWhole, RowsInPages, InUse, RamPages
  <2>3. ASSUME NEW i \in InUse, Reserve(Ptr(g_mem[i].start), AlignUp(size), type)
        PROVE  RowsInPages'
    <3>1. i \in Indices
      BY SizesAssumption DEF RowInv, TypeOK, InUse, Indices
    <3>2. Ptr(g_mem[i].start) \in Nat
      BY <3>1, RowTypes, PtrBounds DEF RowInv, TypeOK
    <3> QED
      BY <2>1, <2>3, <3>2, StaysInPages
  <2> QED
    BY <1>3, <2>2, <2>3, AllocatesWhole DEF Alloc
<1>4. ASSUME NEW o \in Owners, Free(o)
      PROVE  RowsWhole' /\ RowsInPages'
  BY <1>4, FreeAtWhole DEF Free
<1>5. ASSUME NEW max \in Limits, NEW size \in Sizes, FreeRefused(max, size)
      PROVE  RowsWhole' /\ RowsInPages'
  BY <1>5, FreeAtWhole DEF FreeRefused
<1>6. CASE UNCHANGED vars
  BY <1>6 DEF vars, RowsWhole, RowsInPages, InUse, RamPages
<1> QED
  BY <1>1, <1>2, <1>3, <1>4, <1>5, <1>6 DEF CallersNext, Next, AllocOrFree

LEMMA PagesFinite ==
  /\ IsFiniteSet(PagesOf(0 .. MemTop)) /\ PagesOf(RamPages) \subseteq PagesOf(0 .. MemTop)
  /\ IsFiniteSet(PagesOf(RamPages))
<1>1. \A k \in Usable : AlignDown(MemoryMap[k].addr + MemoryMap[k].len) <= MemTop
                        /\ AlignUp(MemoryMap[k].addr) \in Nat
                        /\ AlignDown(MemoryMap[k].addr + MemoryMap[k].len) \in Nat
  <2> SUFFICES ASSUME NEW k \in Usable
               PROVE  /\ AlignDown(MemoryMap[k].addr + MemoryMap[k].len) <= MemTop
                      /\ AlignUp(MemoryMap[k].addr) \in Nat
                      /\ AlignDown(MemoryMap[k].addr + MemoryMap[k].len) \in Nat
    OBVIOUS
  <2>1. k \in 1 .. Len(MemoryMap)
    BY MemoryMapAssumption DEF Usable
  <2>2. MemoryMap[k].addr \in Nat /\ MemoryMap[k].len \in Nat
        /\ MemoryMap[k].addr + MemoryMap[k].len <= MemTop
    BY <2>1, MapEntry, MemoryMapAssumption
  <2> QED
    BY <2>2, AlignDownBounds, AlignUpBounds, SizesAssumption
<1>2. RamPages \subseteq 0 .. MemTop
  BY <1>1, SizesAssumption DEF RamPages
<1>3. IsFiniteSet(0 .. MemTop)
  BY FS_Interval, SizesAssumption
<1> QED
  BY <1>2, <1>3, FS_Subset DEF PagesOf

(* Rows that are disjoint and not empty start in pages of their own.        *)
LEMMA RowsFitPages ==
  ASSUME RowInv, RowsAligned, RowsWhole, RowsInPages
  PROVE  OneRowPerPage
<1> DEFINE f == [i \in InUse |-> g_mem[i].start]
<1>1. mem_index \in Nat /\ InUse \subseteq Indices
  BY SizesAssumption DEF RowInv, TypeOK, Indices, InUse
<1>2. \A i \in InUse : g_mem[i].start \in Bytes(g_mem[i]) /\ g_mem[i].start \in PagesOf(RamPages)
  <2>1. \A i \in InUse : g_mem[i].start \in Nat /\ g_mem[i].end \in Nat
    BY <1>1, RowTypes DEF RowInv, TypeOK
  <2>2. \A i \in InUse : g_mem[i].start \in Bytes(g_mem[i])
    BY <2>1 DEF RowsWhole, Bytes
  <2> QED
    BY <2>2 DEF RowsInPages, RowsAligned, PagesOf
<1>3. \A i, j \in InUse : f[i] = f[j] => i = j
  BY <1>2 DEF RowInv, RowsDisjoint
<1>4. f \in Injection(InUse, PagesOf(RamPages))
  BY <1>2, <1>3 DEF Injection, IsInjective
<1>5. Cardinality(InUse) <= Cardinality(PagesOf(RamPages))
  BY <1>4, PagesFinite, FS_Injection
<1>6. Cardinality(InUse) = mem_index
  BY <1>1, FS_Interval DEF InUse
<1> QED
  BY <1>5, <1>6 DEF OneRowPerPage

WholeInv == RowInv /\ RowsAligned /\ RowsWhole /\ RowsInPages

LEMMA InitWhole == Init => WholeInv
  BY InitRowInv DEF Init, WholeInv, RowsAligned, RowsWhole, RowsInPages, InUse

LEMMA StepWholeInv ==
  ASSUME WholeRequests, WholeInv, [CallersNext]_vars
  PROVE  WholeInv'
  BY StepRowInv, StepAligned, StepWhole DEF WholeInv

(* When nothing that is asked for is empty and every range of RAM has a     *)
(* whole page, the table never holds more rows than there are pages, however *)
(* often blocks are lent and returned and whoever frees address 0.          *)
THEOREM RowsStayFew == WholeRequests => (CallersSpec => []OneRowPerPage)
<1> SUFFICES ASSUME WholeRequests PROVE CallersSpec => []OneRowPerPage
  OBVIOUS
<1>1. WholeInv /\ [CallersNext]_vars => WholeInv'
  BY StepWholeInv
<1>2. WholeInv => OneRowPerPage
  BY RowsFitPages DEF WholeInv
<1> QED
  BY InitWhole, <1>1, <1>2, PTL DEF CallersSpec

-----------------------------------------------------------------------------
(* The table as a map of uses.                                              *)

(* There is room for what a request may add to the table. *)
HasRoom == mem_index + 2 < Slots

(* Every block that is lent has a row of its own, which is busy.            *)
LoansHaveRows ==
  \A o \in Owners : loan[o] # NoLoan =>
    \E i \in InUse : /\ g_mem[i].start = loan[o].start /\ g_mem[i].end = loan[o].end
                     /\ g_mem[i].flag \in BusyFlags

LoansApart ==
  \A o, p \in Owners :
    o # p /\ loan[o] # NoLoan /\ loan[p] # NoLoan => loan[o].start # loan[p].start

LoanInv == WholeInv /\ LoansHaveRows /\ LoansApart

LEMMA ChosenRow ==
  ASSUME NEW g, NEW I, \A i, j \in I : i # j => Bytes(g[i]) \cap Bytes(g[j]) = {},
         NEW i \in I, NEW a \in Bytes(g[i])
  PROVE  /\ {j \in I : a \in Bytes(g[j])} # {}
         /\ (CHOOSE j \in {k \in I : a \in Bytes(g[k])} : TRUE) = i
<1>1. {j \in I : a \in Bytes(g[j])} = {i}
  OBVIOUS
<1> QED
  BY <1>1

LEMMA UseInRow ==
  ASSUME RowsDisjoint, NEW i \in InUse, NEW a \in Bytes(g_mem[i])
  PROVE  UseOf(a) = g_mem[i].flag
<1>1. \A j, k \in InUse : j # k => Bytes(g_mem[j]) \cap Bytes(g_mem[k]) = {}
  BY DEF RowsDisjoint
<1> QED
  BY <1>1, ChosenRow DEF UseOf, Covering

LEMMA UseInRowNext ==
  ASSUME RowsDisjoint', NEW i \in InUse', NEW a \in Bytes(g_mem'[i])
  PROVE  UseOf(a)' = g_mem'[i].flag
<1>1. \A j, k \in InUse' : j # k => Bytes(g_mem'[j]) \cap Bytes(g_mem'[k]) = {}
  BY DEF RowsDisjoint, Bytes
<1>2. UseOf(a)' = IF {j \in InUse' : a \in Bytes(g_mem'[j])} = {} THEN FRAME_UNSET
                  ELSE g_mem'[CHOOSE j \in {k \in InUse' : a \in Bytes(g_mem'[k])} : TRUE].flag
  BY DEF UseOf, Covering, Bytes
<1> QED
  BY <1>1, <1>2, ChosenRow

LEMMA UseNowhere ==
  ASSUME NEW a
  PROVE  /\ (\A i \in InUse : a \notin Bytes(g_mem[i])) => UseOf(a) = FRAME_UNSET
         /\ (\A i \in InUse' : a \notin Bytes(g_mem'[i])) => UseOf(a)' = FRAME_UNSET
  BY DEF UseOf, Covering, Bytes

(* Rows of one start are one row. *)
LEMMA StartsApart ==
  ASSUME WholeInv, NEW i \in InUse, NEW j \in InUse, g_mem[i].start = g_mem[j].start
  PROVE  i = j
<1>1. InUse \subseteq Indices
  BY SizesAssumption DEF WholeInv, RowInv, TypeOK, InUse, Indices
<1>2. \A k \in InUse : g_mem[k].start \in Bytes(g_mem[k])
  BY <1>1, RowTypes DEF WholeInv, RowInv, TypeOK, RowsWhole, Bytes
<1> QED
  BY <1>2 DEF WholeInv, RowInv, RowsDisjoint

(* What a cut does to the uses: the range that was free gets its type.      *)
LEMMA CarveUse ==
  ASSUME WholeInv, HasRoom,
         NEW i \in InUse, NEW s \in Nat, NEW e \in Nat, NEW type \in BusyFlags,
         s < e, Holds(i, s, e), Carve(i, s, e, type)
  PROVE  \A a : /\ a \in s .. (e - 1) => UseOf(a) = FRAME_FREE
                /\ UseOf(a)' = IF a \in s .. (e - 1) THEN type ELSE UseOf(a)
<1>1. TypeOK /\ RowsDisjoint /\ mem_index # Slots - 1 /\ mem_index + 2 < Slots
  <2>1. TypeOK /\ RowsDisjoint
    BY DEF WholeInv, RowInv
  <2>2. mem_index \in Nat
    BY <2>1, SizesAssumption DEF TypeOK, Indices
  <2> QED
    BY <2>1, <2>2, SizesAssumption DEF HasRoom
<1>2. i \in Indices /\ g_mem[i] \in RowType
  BY <1>1, SizesAssumption DEF TypeOK, InUse, Indices
<1>3. /\ g_mem[i].start \in Nat /\ g_mem[i].end \in Nat /\ g_mem[i].flag = FRAME_FREE
      /\ g_mem[i].start <= s /\ e <= g_mem[i].end
  BY <1>2, RowTypes DEF Holds
<1>4. Bytes(g_mem[i]) = g_mem[i].start .. (g_mem[i].end - 1)
  BY DEF Bytes
<1>5. RowsDisjoint' /\ \A j \in InUse' : \E k \in InUse : Bytes(g_mem'[j]) \subseteq Bytes(g_mem[k])
  BY <1>1, CarveDisjoint
<1>6. /\ \A j \in InUse : j # i => j \in InUse' /\ g_mem'[j] = g_mem[j]
      /\ \E j \in InUse' : g_mem'[j] = Row(s, e, type)
      /\ s # g_mem[i].start => \E j \in InUse' : g_mem'[j] = Row(g_mem[i].start, s, FRAME_FREE)
      /\ e # g_mem[i].end => \E j \in InUse' : g_mem'[j] = Row(e, g_mem[i].end, FRAME_FREE)
  BY <1>1, CarveExactly
<1> SUFFICES ASSUME NEW a
             PROVE  /\ a \in s .. (e - 1) => UseOf(a) = FRAME_FREE
                    /\ UseOf(a)' = IF a \in s .. (e - 1) THEN type ELSE UseOf(a)
  OBVIOUS
<1>7. a \in Bytes(g_mem[i]) => UseOf(a) = FRAME_FREE
  BY <1>1, <1>3, UseInRow
<1>8. CASE a \in s .. (e - 1)
  <2>1. PICK j \in InUse' : g_mem'[j] = Row(s, e, type)
    BY <1>6
  <2>2. a \in Bytes(g_mem'[j]) /\ g_mem'[j].flag = type
    BY <1>8, <2>1 DEF Row, Bytes
  <2>3. UseOf(a)' = type
    BY <1>5, <2>2, UseInRowNext
  <2> QED
    BY <1>3, <1>4, <1>7, <1>8, <2>3
<1>9. CASE a \in Bytes(g_mem[i]) /\ a \notin s .. (e - 1)
  <2>1. a \in g_mem[i].start .. (s - 1) \/ a \in e .. (g_mem[i].end - 1)
    BY <1>3, <1>4, <1>9
  <2>2. CASE a \in g_mem[i].start .. (s - 1)
    <3>1. PICK j \in InUse' : g_mem'[j] = Row(g_mem[i].start, s, FRAME_FREE)
      BY <1>3, <1>6, <2>2
    <3>2. a \in Bytes(g_mem'[j]) /\ g_mem'[j].flag = FRAME_FREE
      BY <2>2, <3>1 DEF Row, Bytes
    <3> QED
      BY <1>5, <1>7, <1>9, <3>2, UseInRowNext
  <2>3. CASE a \in e .. (g_mem[i].end - 1)
    <3>1. PICK j \in InUse' : g_mem'[j] = Row(e, g_mem[i].end, FRAME_FREE)
      BY <1>3, <1>6, <2>3
    <3>2. a \in Bytes(g_mem'[j]) /\ g_mem'[j].flag = FRAME_FREE
      BY <2>3, <3>1 DEF Row, Bytes
    <3> QED
      BY <1>5, <1>7, <1>9, <3>2, UseInRowNext
  <2> QED
    BY <2>1, <2>2, <2>3
<1>10. ASSUME NEW j \in InUse, j # i, a \in Bytes(g_mem[j])
       PROVE  UseOf(a)' = UseOf(a) /\ a \notin s .. (e - 1)
  <2>1. j \in InUse' /\ g_mem'[j] = g_mem[j]
    BY <1>6, <1>10
  <2>2. UseOf(a) = g_mem[j].flag /\ UseOf(a)' = g_mem[j].flag
    BY <1>1, <1>5, <1>10, <2>1, UseInRow, UseInRowNext
  <2>3. a \notin Bytes(g_mem[i])
    BY <1>1, <1>10 DEF RowsDisjoint
  <2> QED
    BY <1>3, <1>4, <2>2, <2>3
<1>11. CASE (\A j \in InUse : a \notin Bytes(g_mem[j])) /\ a \notin s .. (e - 1)
  <2>1. \A j \in InUse' : a \notin Bytes(g_mem'[j])
    BY <1>5, <1>11
  <2> QED
    BY <1>11, <2>1, UseNowhere
<1> QED
  BY <1>8, <1>9, <1>10, <1>11

(* What a range of the memory map does to the uses: some bytes become free  *)
(* that had no use.                                                         *)
LEMMA AddUse ==
  ASSUME WholeInv, HasRoom, AddRange
  PROVE  \A a : UseOf(a)' = UseOf(a) \/ (UseOf(a) = FRAME_UNSET /\ UseOf(a)' = FRAME_FREE)
<1>1. RowInv /\ TypeOK /\ RowsDisjoint /\ RowsDisjoint'
  BY AddRangeInv DEF WholeInv, RowInv
<1>2. CASE UNCHANGED <<g_mem, mem_index>>
  BY <1>2 DEF UseOf, Covering, InUse
<1>3. CASE added + 1 \in Usable
  <2>1. mem_index \in Nat /\ mem_index + 1 < Slots
    BY <1>1, SizesAssumption DEF TypeOK, Indices, HasRoom
  <2>2. /\ mem_index' = mem_index + 1 /\ g_mem'[mem_index] = NewRow(added + 1)
        /\ \A j \in InUse : g_mem'[j] = g_mem[j]
        /\ \A j \in InUse' : j = mem_index \/ j \in InUse
    BY <1>1, <1>3, <2>1, AddedRow
  <2>3. NewRow(added + 1).flag = FRAME_FREE
    BY <1>1, AddedRow, NewRowFields
  <2>4. InUse \subseteq InUse' /\ mem_index \in InUse'
    BY <2>1, <2>2 DEF InUse
  <2> SUFFICES ASSUME NEW a
               PROVE  UseOf(a)' = UseOf(a) \/ (UseOf(a) = FRAME_UNSET /\ UseOf(a)' = FRAME_FREE)
    OBVIOUS
  <2>5. ASSUME NEW j \in InUse, a \in Bytes(g_mem[j])
        PROVE  UseOf(a)' = UseOf(a)
    BY <1>1, <2>2, <2>4, <2>5, UseInRow, UseInRowNext
  <2>6. CASE \A j \in InUse : a \notin Bytes(g_mem[j])
    <3>1. CASE a \in Bytes(g_mem'[mem_index])
      BY <1>1, <2>2, <2>3, <2>4, <2>6, <3>1, UseNowhere, UseInRowNext
    <3>2. CASE a \notin Bytes(g_mem'[mem_index])
      BY <2>2, <2>6, <3>2, UseNowhere
    <3> QED
      BY <3>1, <3>2
  <2> QED
    BY <2>5, <2>6
<1> QED
  BY <1>1, <1>2, <1>3, AddedRow

(* What Free does, to the row that starts there. *)
LEMMA FreeUse ==
  ASSUME WholeInv, NEW i \in InUse, FreeAt(g_mem[i].start), UNCHANGED <<mem_index, added, reserved>>,
         loan' \in [Owners -> [start : Nat, end : Nat]]
  PROVE  /\ InUse' = InUse
         /\ \A j \in InUse : j # i => g_mem'[j] = g_mem[j]
         /\ \A a : UseOf(a)' = IF a \in Bytes(g_mem[i]) THEN FRAME_FREE ELSE UseOf(a)
<1>1. InUse' = InUse /\ InUse \subseteq Indices /\ g_mem \in [Indices -> RowType]
  BY SizesAssumption DEF WholeInv, RowInv, TypeOK, Indices, InUse
<1>2. g_mem' = [g_mem EXCEPT ![i] = Row(g_mem[i].start, g_mem[i].end, FRAME_FREE)]
  BY StartsApart DEF FreeAt
<1>3. /\ \A j \in InUse : j # i => g_mem'[j] = g_mem[j]
      /\ g_mem'[i] = Row(g_mem[i].start, g_mem[i].end, FRAME_FREE)
  BY <1>1, <1>2
<1>4. Bytes(g_mem'[i]) = Bytes(g_mem[i]) /\ g_mem'[i].flag = FRAME_FREE
  BY <1>3 DEF Row, Bytes
<1>5. RowsDisjoint /\ RowsDisjoint'
  BY FreeAtRows DEF WholeInv, RowInv
<1>6. ASSUME NEW a
      PROVE  UseOf(a)' = IF a \in Bytes(g_mem[i]) THEN FRAME_FREE ELSE UseOf(a)
  <2>1. CASE a \in Bytes(g_mem[i])
    BY <1>1, <1>4, <1>5, <2>1, UseInRowNext
  <2>2. ASSUME NEW j \in InUse, j # i, a \in Bytes(g_mem[j])
        PROVE  UseOf(a)' = UseOf(a) /\ a \notin Bytes(g_mem[i])
    BY <1>1, <1>3, <1>5, <2>2, UseInRow, UseInRowNext, SMTT(30) DEF RowsDisjoint
  <2>3. CASE \A j \in InUse : a \notin Bytes(g_mem[j])
    BY <1>1, <1>3, <1>4, <2>3, UseNowhere
  <2> QED
    BY <2>1, <2>2, <2>3
<1> QED
  BY <1>1, <1>3, <1>6

-----------------------------------------------------------------------------
(* Alloc, when a size_t holds every address: what is cut is the end of the  *)
(* search, the block that is returned.                                      *)

LEMMA AlignedSum ==
  ASSUME NEW a \in Nat, NEW b \in Nat, Aligned(a), Aligned(b)
  PROVE  Aligned(a + b)
<1> DEFINE k == a \div PageSize
           l == b \div PageSize
<1>1. k \in Nat /\ a = k * PageSize /\ l \in Nat /\ b = l * PageSize
  BY Division, SizesAssumption DEF Aligned
<1>2. k + l \in Nat /\ a + b = (k + l) * PageSize
  BY <1>1, SizesAssumption
<1> QED
  BY <1>2, MultipleMod, SizesAssumption DEF Aligned

(* Two multiples less than one divisor apart are the same. *)
LEMMA MultiplesApart ==
  ASSUME NEW k \in Nat, NEW m \in Nat, NEW d \in Nat \ {0},
         k * d <= m * d, m * d < k * d + d
  PROVE  m * d = k * d
<1>1. CASE k = m
  BY <1>1
<1>2. CASE m < k
  <2>1. PICK j \in Nat : k = m + 1 + j
    <3>1. k - m - 1 \in Nat /\ k = m + 1 + (k - m - 1)
      BY <1>2
    <3> QED
      BY <3>1
  <2>2. k * d = m * d + d + j * d /\ j * d >= 0
    BY <2>1
  <2> QED
    BY <2>2
<1>3. CASE k < m
  <2>1. PICK j \in Nat : m = k + 1 + j
    <3>1. m - k - 1 \in Nat /\ m = k + 1 + (m - k - 1)
      BY <1>3
    <3> QED
      BY <3>1
  <2>2. m * d = k * d + d + j * d /\ j * d >= 0
    BY <2>1
  <2> QED
    BY <2>2
<1> QED
  BY <1>1, <1>2, <1>3

LEMMA AlignedStays ==
  ASSUME NEW a \in Nat, Aligned(a)
  PROVE  AlignDown(a) = a /\ AlignUp(a) = a
<1>1. AlignDown(a) = a
  BY DEF Aligned, AlignDown
<1> DEFINE k == a \div PageSize
<1>2. k \in Nat /\ a = k * PageSize
  BY Division, SizesAssumption DEF Aligned
<1>3. AlignUp(a) \in Nat /\ a <= AlignUp(a) /\ Aligned(AlignUp(a)) /\ AlignUp(a) < a + PageSize
  <2>1. AlignDown(a + (PageSize - 1)) <= a + (PageSize - 1)
    BY AlignDownBounds, SizesAssumption
  <2> QED
    BY <2>1, AlignUpBounds, SizesAssumption DEF AlignUp
<1> DEFINE m == AlignUp(a) \div PageSize
<1>4. m \in Nat /\ AlignUp(a) = m * PageSize
  BY <1>3, Division, SizesAssumption DEF Aligned
<1>5. AlignUp(a) = a
  <2>1. PICK i \in Nat, j \in Nat, d \in Nat \ {0} : i = k /\ j = m /\ d = PageSize
    BY <1>2, <1>4, SizesAssumption
  <2>2. a = i * d /\ AlignUp(a) = j * d
    BY <1>2, <1>4, <2>1
  <2>3. i * d <= j * d /\ j * d < i * d + d
    <3>1. a <= AlignUp(a) /\ AlignUp(a) < a + d
      BY <1>3, <2>1
    <3> QED
      BY <2>2, <3>1, Zenon
  <2> QED
    BY <2>2, <2>3, MultiplesApart, Zenon
<1> QED
  BY <1>1, <1>5

LEMMA RowsBelowTop ==
  ASSUME WholeInv, NEW i \in InUse
  PROVE  /\ g_mem[i].start \in Nat /\ g_mem[i].end \in Nat /\ g_mem[i].start < g_mem[i].end
         /\ g_mem[i].end <= MemTop
<1>1. i \in Indices
  BY SizesAssumption DEF WholeInv, RowInv, TypeOK, InUse, Indices
<1>2. g_mem[i].start \in Nat /\ g_mem[i].end \in Nat /\ g_mem[i].start < g_mem[i].end
  BY <1>1, RowTypes DEF WholeInv, RowInv, TypeOK, RowsWhole
<1>3. g_mem[i].end - 1 \in Ram
  BY <1>2 DEF WholeInv, RowInv, RowsInRam, Bytes
<1>4. \A k \in Usable : MemoryMap[k].addr \in Nat /\ MemoryMap[k].len \in Nat
  BY MapEntry, MemoryMapAssumption DEF Usable
<1>5. \A a \in Ram : a \in Int /\ a < MemTop
  BY <1>4, MemoryMapAssumption, SizesAssumption, SMTT(30) DEF Ram, RangeBytes
<1> QED
  BY <1>2, <1>3, <1>5, SizesAssumption

LEMMA PtrExact ==
  ASSUME MemTop < PtrLimit, NEW a \in Nat, a <= MemTop
  PROVE  Ptr(a) = a
  BY SizesAssumption DEF Ptr

(* What Alloc asks Reserve for is what it found. *)
LEMMA AllocCarves ==
  ASSUME MemTop < PtrLimit, WholeInv, HasRoom,
         NEW i \in InUse, NEW max, NEW n \in Nat, n > 0, Aligned(n), NEW type \in BusyFlags,
         Fits(i, max, n), Reserve(Ptr(g_mem[i].start), n, type)
  PROVE  LET s == g_mem[i].start
         IN  /\ Ptr(s) = s
             /\ Holds(i, s, s + n) /\ Carve(i, s, s + n, type)
<1> DEFINE s == g_mem[i].start
<1>1. s \in Nat /\ g_mem[i].end \in Nat /\ g_mem[i].end <= MemTop /\ s <= MemTop
  BY RowsBelowTop, SizesAssumption
<1>2. Ptr(s) = s /\ Ptr(g_mem[i].end) = g_mem[i].end
  BY <1>1, PtrExact
<1>3. Aligned(s)
  BY DEF WholeInv, RowsAligned
<1>4. AlignDown(s) = s /\ AlignUp(s + n) = s + n
  BY <1>1, <1>3, AlignedSum, AlignedStays
<1>5. Holds(i, s, s + n)
  BY <1>1, <1>2 DEF Fits, Holds
<1>6. PICK j \in InUse : FirstHolding(j, s, s + n) /\ Carve(j, s, s + n, type)
  <2>1. mem_index # Slots - 1
    BY SizesAssumption DEF HasRoom, WholeInv, RowInv, TypeOK, Indices
  <2> QED
    BY <1>2, <1>4, <1>5, <2>1 DEF Reserve
<1>7. j = i
  <2>1. s \in Bytes(g_mem[i])
    BY <1>1, RowsBelowTop DEF Bytes
  <2>2. s \in Bytes(g_mem[j])
    BY <1>1, <1>6, RowsBelowTop DEF FirstHolding, Holds, Bytes
  <2> QED
    BY <2>1, <2>2 DEF WholeInv, RowInv, RowsDisjoint
<1> QED
  BY <1>2, <1>5, <1>6, <1>7

(* What the steps that take memory do to the table: nothing, or a cut out   *)
(* of a free row.                                                           *)
LEMMA ReserveCuts ==
  ASSUME WholeRequests, WholeInv, ReserveRange
  PROVE  \/ UNCHANGED <<g_mem, mem_index>>
         \/ \E i \in InUse, s, e \in Nat, type \in BusyFlags :
              s < e /\ Holds(i, s, e) /\ Carve(i, s, e, type)
<1> DEFINE r == Reservations[reserved + 1]
           s == AlignDown(r.addr)
           e == AlignUp(r.addr + r.len)
<1>1. reserved + 1 \in 1 .. Len(Reservations)
  BY CallersAssumption DEF ReserveRange, WholeInv, RowInv, TypeOK
<1>2. r.addr \in Nat /\ r.len \in Nat /\ r.type \in BusyFlags /\ r.len > 0
  BY <1>1, ReservationEntry DEF WholeRequests
<1>3. s \in Nat /\ e \in Nat /\ s < e
  BY <1>2, AlignDownBounds, AlignUpBounds
<1>4. Reserve(r.addr, r.len, r.type)
  BY DEF ReserveRange
<1> HIDE DEF r, s, e
<1>5. \/ UNCHANGED <<g_mem, mem_index>>
      \/ \E i \in InUse : FirstHolding(i, s, e) /\ Carve(i, s, e, r.type)
  BY <1>4 DEF Reserve, s, e
<1> QED
  BY <1>2, <1>3, <1>5 DEF FirstHolding

LEMMA AllocCuts ==
  ASSUME MemTop < PtrLimit, WholeRequests, WholeInv, HasRoom,
         NEW o \in Owners, NEW max \in Limits, NEW size \in Sizes, NEW type \in BusyFlags,
         Alloc(o, max, size, type)
  PROVE  \/ UNCHANGED <<g_mem, mem_index, loan>>
         \/ \E i \in InUse, s, e \in Nat :
              /\ s < e /\ Holds(i, s, e) /\ Carve(i, s, e, type)
              /\ loan' = [loan EXCEPT ![o] = [start |-> s, end |-> e]]
<1> DEFINE n == AlignUp(size)
<1>1. n \in Nat /\ n > 0 /\ Aligned(n)
  BY CallersAssumption, AlignUpBounds DEF WholeRequests
<1> HIDE DEF n
<1>2. ASSUME NEW i \in InUse, Fits(i, max, n), Reserve(Ptr(g_mem[i].start), n, type),
             loan' = [loan EXCEPT ![o] = [start |-> Ptr(g_mem[i].start),
                                          end |-> Ptr(g_mem[i].start) + n]]
      PROVE  \E s, e \in Nat :
               /\ s < e /\ Holds(i, s, e) /\ Carve(i, s, e, type)
               /\ loan' = [loan EXCEPT ![o] = [start |-> s, end |-> e]]
  <2> DEFINE s == g_mem[i].start
  <2>1. s \in Nat /\ s + n \in Nat /\ s < s + n
    BY <1>1, RowsBelowTop
  <2>2. Ptr(s) = s /\ Holds(i, s, s + n) /\ Carve(i, s, s + n, type)
    BY <1>1, <1>2, AllocCarves
  <2> HIDE DEF s
  <2>3. loan' = [loan EXCEPT ![o] = [start |-> s, end |-> s + n]]
    BY <1>2, <2>2 DEF s
  <2> QED
    BY <2>1, <2>2, <2>3
<1> QED
  BY <1>2 DEF Alloc, LastFitting, n

(* A cut leaves the rows of the blocks that are lent alone, and what it     *)
(* takes starts where no block does.                                        *)
LEMMA CutSparesLoans ==
  ASSUME LoanInv, HasRoom,
         NEW i \in InUse, NEW s \in Nat, NEW e \in Nat, NEW type \in BusyFlags,
         s < e, Holds(i, s, e), Carve(i, s, e, type)
  PROVE  /\ \A o \in Owners : loan[o] # NoLoan =>
              /\ loan[o].start # s
              /\ \E j \in InUse' : /\ g_mem'[j].start = loan[o].start /\ g_mem'[j].end = loan[o].end
                                   /\ g_mem'[j].flag \in BusyFlags
         /\ \E j \in InUse' : g_mem'[j] = Row(s, e, type)
<1>1. TypeOK /\ mem_index + 2 < Slots /\ RowsDisjoint
  BY DEF LoanInv, WholeInv, RowInv, HasRoom
<1>2. /\ \A j \in InUse : j # i => j \in InUse' /\ g_mem'[j] = g_mem[j]
      /\ \E j \in InUse' : g_mem'[j] = Row(s, e, type)
  BY <1>1, CarveExactly
<1>3. ASSUME NEW o \in Owners, loan[o] # NoLoan
      PROVE  /\ loan[o].start # s
             /\ \E j \in InUse' : /\ g_mem'[j].start = loan[o].start /\ g_mem'[j].end = loan[o].end
                                  /\ g_mem'[j].flag \in BusyFlags
  <2>1. PICK j \in InUse : /\ g_mem[j].start = loan[o].start /\ g_mem[j].end = loan[o].end
                           /\ g_mem[j].flag \in BusyFlags
    BY <1>3 DEF LoanInv, LoansHaveRows
  <2>2. j # i
    BY <2>1 DEF Holds, BusyFlags, FRAME_FREE, FRAME_USED, FRAME_AVAILABLE
  <2>3. g_mem[j].start \in Bytes(g_mem[j])
    BY RowsBelowTop DEF LoanInv, Bytes
  <2>4. s \in Bytes(g_mem[i])
    BY RowsBelowTop DEF LoanInv, Holds, Bytes
  <2>5. g_mem[j].start # s
    BY <1>1, <2>2, <2>3, <2>4 DEF RowsDisjoint
  <2> QED
    BY <1>2, <2>1, <2>2, <2>5
<1> QED
  BY <1>2, <1>3

LEMMA AddSparesLoans ==
  ASSUME LoanInv, HasRoom, AddRange
  PROVE  LoansHaveRows' /\ LoansApart'
<1>1. RowInv /\ loan' = loan
  BY DEF LoanInv, WholeInv, AddRange
<1>2. CASE UNCHANGED <<g_mem, mem_index>>
  BY <1>1, <1>2 DEF LoanInv, LoansHaveRows, LoansApart, InUse
<1>3. CASE added + 1 \in Usable
  <2>1. mem_index \in Nat /\ mem_index + 1 < Slots
    BY <1>1, SizesAssumption DEF RowInv, TypeOK, Indices, HasRoom
  <2>2. mem_index' = mem_index + 1 /\ \A j \in InUse : g_mem'[j] = g_mem[j]
    BY <1>1, <1>3, <2>1, AddedRow
  <2>3. InUse \subseteq InUse'
    BY <2>1, <2>2 DEF InUse
  <2> QED
    BY <1>1, <2>2, <2>3 DEF LoanInv, LoansHaveRows, LoansApart
<1> QED
  BY <1>1, <1>2, <1>3, AddedRow

(* What is given back is the row of that block, and no other block's.       *)
LEMMA FreesRow ==
  ASSUME LoanInv, NEW o \in Owners, Free(o)
  PROVE  /\ \E i \in InUse :
              /\ Bytes(g_mem[i]) = Bytes(loan[o])
              /\ \A a : UseOf(a)' = IF a \in Bytes(g_mem[i]) THEN FRAME_FREE ELSE UseOf(a)
         /\ LoansHaveRows' /\ LoansApart'
<1>1. PICK i \in InUse : g_mem[i].start = loan[o].start /\ g_mem[i].end = loan[o].end
  BY DEF LoanInv, LoansHaveRows, Free
<1>2. NoLoan \in [start : Nat, end : Nat] /\ loan \in [Owners -> [start : Nat, end : Nat]]
  BY DEF NoLoan, LoanInv, WholeInv, RowInv, TypeOK
<1>3. loan' = [loan EXCEPT ![o] = NoLoan] /\ loan' \in [Owners -> [start : Nat, end : Nat]]
  BY <1>2 DEF Free
<1>4. /\ InUse' = InUse
      /\ \A j \in InUse : j # i => g_mem'[j] = g_mem[j]
      /\ \A a : UseOf(a)' = IF a \in Bytes(g_mem[i]) THEN FRAME_FREE ELSE UseOf(a)
  BY <1>1, <1>3, FreeUse DEF Free, LoanInv
<1>5. \A p \in Owners : loan'[p] = IF p = o THEN NoLoan ELSE loan[p]
  BY <1>2, <1>3
<1>6. ASSUME NEW p \in Owners, loan'[p] # NoLoan
      PROVE  \E j \in InUse' : /\ g_mem'[j].start = loan'[p].start /\ g_mem'[j].end = loan'[p].end
                               /\ g_mem'[j].flag \in BusyFlags
  <2>1. p # o /\ loan[p] # NoLoan /\ loan'[p] = loan[p]
    BY <1>5, <1>6
  <2>2. loan[p].start # loan[o].start
    BY <2>1 DEF LoanInv, LoansApart, Free
  <2>3. PICK j \in InUse : /\ g_mem[j].start = loan[p].start /\ g_mem[j].end = loan[p].end
                           /\ g_mem[j].flag \in BusyFlags
    BY <2>1 DEF LoanInv, LoansHaveRows
  <2> QED
    BY <1>1, <1>4, <2>1, <2>2, <2>3
<1>7. LoansApart'
  BY <1>5 DEF LoanInv, LoansApart
<1>8. Bytes(g_mem[i]) = Bytes(loan[o])
  BY <1>1 DEF Bytes
<1> QED
  BY <1>4, <1>6, <1>7, <1>8 DEF LoansHaveRows

LEMMA StepLoans ==
  ASSUME MemTop < PtrLimit, WholeRequests, LoanInv, HasRoom, [Next]_vars
  PROVE  LoanInv'
<1>1. WholeInv'
  BY StepWholeInv DEF LoanInv, CallersNext
<1>2. CASE ReserveRange
  <2>1. loan' = loan
    BY <1>2 DEF ReserveRange
  <2>2. CASE UNCHANGED <<g_mem, mem_index>>
    BY <1>1, <2>1, <2>2 DEF LoanInv, LoansHaveRows, LoansApart, InUse
  <2>3. ASSUME NEW i \in InUse, NEW s \in Nat, NEW e \in Nat, NEW type \in BusyFlags,
               s < e, Holds(i, s, e), Carve(i, s, e, type)
        PROVE  LoanInv'
    <3>1. LoansHaveRows'
      BY <2>1, <2>3, CutSparesLoans DEF LoansHaveRows
    <3> QED
      BY <1>1, <2>1, <3>1 DEF LoanInv, LoansApart
  <2> QED
    BY <1>2, <2>2, <2>3, ReserveCuts DEF LoanInv
<1>3. ASSUME NEW o \in Owners, NEW max \in Limits, NEW size \in Sizes, NEW type \in BusyFlags,
             Alloc(o, max, size, type)
      PROVE  LoanInv'
  <2>1. CASE UNCHANGED <<g_mem, mem_index, loan>>
    BY <1>1, <2>1 DEF LoanInv, LoansHaveRows, LoansApart, InUse
  <2>2. ASSUME NEW i \in InUse, NEW s \in Nat, NEW e \in Nat,
               s < e, Holds(i, s, e), Carve(i, s, e, type),
               loan' = [loan EXCEPT ![o] = [start |-> s, end |-> e]]
        PROVE  LoanInv'
    <3>1. loan'[o] = [start |-> s, end |-> e] /\ \A p \in Owners : p # o => loan'[p] = loan[p]
      BY <2>2 DEF LoanInv, WholeInv, RowInv, TypeOK
    <3>2. /\ \A p \in Owners : loan[p] # NoLoan =>
               /\ loan[p].start # s
               /\ \E j \in InUse' : /\ g_mem'[j].start = loan[p].start /\ g_mem'[j].end = loan[p].end
                                    /\ g_mem'[j].flag \in BusyFlags
          /\ \E j \in InUse' : g_mem'[j] = Row(s, e, type)
      BY <2>2, CutSparesLoans
    <3>3. LoansHaveRows'
      <4>1. \E j \in InUse' : /\ g_mem'[j].start = loan'[o].start /\ g_mem'[j].end = loan'[o].end
                              /\ g_mem'[j].flag \in BusyFlags
        BY <3>1, <3>2 DEF Row
      <4> QED
        BY <3>1, <3>2, <4>1 DEF LoansHaveRows
    <3>4. LoansApart'
      BY <3>1, <3>2 DEF LoanInv, LoansApart
    <3> QED
      BY <1>1, <3>3, <3>4 DEF LoanInv
  <2> QED
    BY <1>3, <2>1, <2>2, AllocCuts DEF LoanInv
<1>4. ASSUME NEW o \in Owners, Free(o)
      PROVE  LoanInv'
  BY <1>1, <1>4, FreesRow DEF LoanInv
<1>5. CASE UNCHANGED vars
  BY <1>1, <1>5 DEF vars, LoanInv, LoansHaveRows, LoansApart, InUse
<1>6. CASE AddRange
  BY <1>1, <1>6, AddSparesLoans DEF LoanInv
<1> QED
  BY <1>2, <1>3, <1>4, <1>5, <1>6 DEF Next, AllocOrFree

LEMMA InitLoans == Init => LoanInv
  BY InitWhole DEF Init, LoanInv, LoansHaveRows, LoansApart

-----------------------------------------------------------------------------
(* The allocator implements FrameMap.                                       *)


LEMMA NothingHeld == Bytes(NoLoan) = {}
  BY DEF Bytes, NoLoan

LEMMA InitMaps == Init => Map!Init
<1> SUFFICES ASSUME Init PROVE Map!Init
  OBVIOUS
<1>1. \A a : UseOf(a) = FRAME_UNSET
  BY DEF Init, UseOf, Covering, InUse
<1>2. \A o \in Owners : Bytes(loan[o]) = {}
  BY NothingHeld DEF Init
<1> QED
  BY <1>1, <1>2 DEF Map!Init

LEMMA AddMaps ==
  ASSUME WholeInv, HasRoom, AddRange
  PROVE  Map!Discover
<1>1. loan' = loan
  BY DEF AddRange
<1>2. \A a : UseOf(a)' = UseOf(a) \/ (UseOf(a) = FRAME_UNSET /\ UseOf(a)' = FRAME_FREE)
  BY AddUse
<1> QED
  BY <1>1, <1>2 DEF Map!Discover, Map!Changed, Map!AllIn, Map!Mark, Bytes

(* A cut that lends nothing sets the range aside. *)
LEMMA CutMapsToSetAside ==
  ASSUME WholeInv, HasRoom, loan' = loan,
         NEW i \in InUse, NEW s \in Nat, NEW e \in Nat, NEW type \in BusyFlags,
         s < e, Holds(i, s, e), Carve(i, s, e, type)
  PROVE  Map!SetAside(type)
<1>1. \A a : /\ a \in s .. (e - 1) => UseOf(a) = FRAME_FREE
             /\ UseOf(a)' = IF a \in s .. (e - 1) THEN type ELSE UseOf(a)
  BY CarveUse
<1>2. \A a : UseOf(a)' = UseOf(a) \/ (UseOf(a) = FRAME_FREE /\ UseOf(a)' = type)
  BY <1>1
<1> QED
  BY <1>2 DEF Map!SetAside, Map!Changed, Map!AllIn, Map!Mark, Bytes

LEMMA CutMapsToLend ==
  ASSUME LoanInv, HasRoom, NEW o \in Owners, loan[o] = NoLoan,
         NEW i \in InUse, NEW s \in Nat, NEW e \in Nat, NEW type \in BusyFlags,
         s < e, Holds(i, s, e), Carve(i, s, e, type),
         loan' = [loan EXCEPT ![o] = [start |-> s, end |-> e]]
  PROVE  Map!Lend(o, type)
<1>1. \A a : /\ a \in s .. (e - 1) => UseOf(a) = FRAME_FREE
             /\ UseOf(a)' = IF a \in s .. (e - 1) THEN type ELSE UseOf(a)
  BY CarveUse DEF LoanInv
<1>2. loan \in [Owners -> [start : Nat, end : Nat]]
  BY DEF LoanInv, WholeInv, RowInv, TypeOK
<1>3. /\ Bytes(loan[o]) = {}
      /\ \A p \in Owners : Bytes(loan'[p]) = IF p = o THEN s .. (e - 1) ELSE Bytes(loan[p])
  BY <1>2, NothingHeld DEF Bytes
<1>4. s .. (e - 1) \subseteq Addresses
  BY RowsBelowTop, SizesAssumption DEF LoanInv, Holds, Addresses
<1> DEFINE use == [a \in Addresses |-> UseOf(a)]
           usep == [a \in Addresses |-> UseOf(a)']
           held == [p \in Owners |-> Bytes(loan[p])]
           heldp == [p \in Owners |-> Bytes(loan'[p])]
<1>5. held[o] = {} /\ heldp[o] = s .. (e - 1)
  BY <1>3
<1>6. heldp = [held EXCEPT ![o] = heldp[o]]
  BY <1>3
<1>7. /\ \A a \in s .. (e - 1) : use[a] = FRAME_FREE
      /\ usep = [a \in Addresses |-> IF a \in s .. (e - 1) THEN type ELSE use[a]]
  BY <1>1, <1>4
<1>8. use' = usep /\ held' = heldp
  BY DEF Bytes
<1> HIDE DEF use, usep, held, heldp
<1>9. /\ held[o] = {}
      /\ held'[o] \subseteq Addresses
      /\ held' = [held EXCEPT ![o] = held'[o]]
      /\ \A a \in held'[o] : use[a] = FRAME_FREE
      /\ use' = [a \in Addresses |-> IF a \in held'[o] THEN type ELSE use[a]]
  BY <1>4, <1>5, <1>6, <1>7, <1>8
<1> QED
  BY <1>9 DEF Map!Lend, Map!AllIn, Map!Mark, use, held

LEMMA FreeMaps ==
  ASSUME LoanInv, NEW o \in Owners, Free(o)
  PROVE  Map!Return(o)
<1>1. \A a : UseOf(a)' = IF a \in Bytes(loan[o]) THEN FRAME_FREE ELSE UseOf(a)
  BY FreesRow
<1>2. loan \in [Owners -> [start : Nat, end : Nat]]
  BY DEF LoanInv, WholeInv, RowInv, TypeOK
<1>3. \A p \in Owners : Bytes(loan'[p]) = IF p = o THEN {} ELSE Bytes(loan[p])
  BY <1>2, NothingHeld DEF Free
<1> QED
  BY <1>1, <1>3 DEF Map!Return, Map!Mark, Bytes

LEMMA StepMaps ==
  ASSUME MemTop < PtrLimit, WholeRequests, LoanInv, HasRoom, [Next]_vars
  PROVE  [Map!Next]_(Map!vars)
<1>1. ASSUME UNCHANGED <<g_mem, mem_index, loan>>
      PROVE  UNCHANGED Map!vars
  <2>1. \A a : UseOf(a)' = UseOf(a)
    BY <1>1 DEF UseOf, Covering, InUse
  <2> QED
    BY <1>1, <2>1 DEF Map!vars, Bytes
<1>2. CASE AddRange
  BY <1>2, AddMaps DEF LoanInv, Map!Next
<1>3. CASE ReserveRange
  BY <1>1, <1>3, ReserveCuts, CutMapsToSetAside DEF LoanInv, Map!Next, ReserveRange
<1>4. ASSUME NEW o \in Owners, NEW max \in Limits, NEW size \in Sizes, NEW type \in BusyFlags,
             Alloc(o, max, size, type)
      PROVE  [Map!Next]_(Map!vars)
  <2>1. loan[o] = NoLoan
    BY <1>4 DEF Alloc
  <2> QED
    BY <1>1, <1>4, <2>1, AllocCuts, CutMapsToLend DEF LoanInv, Map!Next
<1>5. ASSUME NEW o \in Owners, Free(o)
      PROVE  [Map!Next]_(Map!vars)
  BY <1>5, FreeMaps DEF Map!Next
<1>6. CASE UNCHANGED vars
  BY <1>1, <1>6 DEF vars
<1> QED
  BY <1>2, <1>3, <1>4, <1>5, <1>6 DEF Next, AllocOrFree

(* The allocator keeps the promises of FrameMap for every memory map, every *)
(* sequence of reservations and requests and every number of owners, as     *)
(* long as the table has room for what a cut adds, a size_t holds every     *)
(* address, and nothing that is asked for is empty.                         *)
THEOREM KeepsThePromises ==
  MemTop < PtrLimit /\ WholeRequests => (Spec /\ []HasRoom => ImplementsFrameMap)
<1> SUFFICES ASSUME MemTop < PtrLimit, WholeRequests
             PROVE  Spec /\ []HasRoom => ImplementsFrameMap
  OBVIOUS
<1>1. LoanInv /\ HasRoom /\ [Next]_vars => LoanInv'
  BY StepLoans
<1>2. LoanInv /\ HasRoom /\ [Next]_vars => [Map!Next]_(Map!vars)
  BY StepMaps
<1> QED
  BY InitLoans, InitMaps, <1>1, <1>2, PTL DEF Spec, ImplementsFrameMap, Map!Spec

(* The hypothesis that there is room is not needed of a machine with fewer  *)
(* pages than the table has rows: no sequence of calls can fill the table.  *)
THEOREM SmallMachinesNeverFill ==
  MemTop < PtrLimit /\ WholeRequests /\ Cardinality(PagesOf(0 .. MemTop)) + 2 < Slots
    => (Spec => ImplementsFrameMap)
<1> SUFFICES ASSUME MemTop < PtrLimit, WholeRequests, Cardinality(PagesOf(0 .. MemTop)) + 2 < Slots
             PROVE  Spec => ImplementsFrameMap
  OBVIOUS
<1>1. WholeInv => HasRoom
  <2> SUFFICES ASSUME WholeInv PROVE HasRoom
    OBVIOUS
  <2>1. mem_index <= Cardinality(PagesOf(RamPages))
    BY RowsFitPages DEF WholeInv, OneRowPerPage
  <2>2. Cardinality(PagesOf(RamPages)) <= Cardinality(PagesOf(0 .. MemTop))
    BY PagesFinite, FS_Subset
  <2>3. /\ Cardinality(PagesOf(RamPages)) \in Nat /\ Cardinality(PagesOf(0 .. MemTop)) \in Nat
        /\ mem_index \in Nat
    BY PagesFinite, FS_CardinalityType, SizesAssumption DEF WholeInv, RowInv, TypeOK, Indices
  <2> QED
    BY <2>1, <2>2, <2>3, SizesAssumption DEF HasRoom
<1>2. WholeInv /\ [Next]_vars => WholeInv'
  BY StepWholeInv DEF CallersNext
<1>3. Spec => []HasRoom
  BY InitWhole, <1>1, <1>2, PTL DEF Spec
<1> QED
  BY <1>3, KeepsThePromises, PTL

-----------------------------------------------------------------------------
(* What follows from the abstract map.                                      *)

Abstract == INSTANCE FrameMapProofs WITH
              Addr <- Addresses,
              Absent <- FRAME_UNSET,
              FreeUse <- FRAME_FREE,
              BusyUses <- BusyFlags,
              use <- [a \in Addresses |-> UseOf(a)],
              held <- [o \in Owners |-> Bytes(loan[o])]

LEMMA UsesDiffer == Abstract!UsesDistinct
  BY DEF Abstract!UsesDistinct, BusyFlags, FRAME_UNSET, FRAME_FREE, FRAME_USED, FRAME_AVAILABLE

LEMMA SameMap == ImplementsFrameMap => Abstract!Spec
<1>1. Map!Init => Abstract!Init
  BY DEF Map!Init, Abstract!Init
<1>2. [Map!Next]_(Map!vars) => [Abstract!Next]_(Abstract!vars)
  BY DEF Map!Next, Map!Discover, Map!SetAside, Map!Return, Map!Lend, Map!vars, Map!Changed,
         Map!AllIn, Map!Mark, Abstract!Next, Abstract!Discover, Abstract!SetAside,
         Abstract!Return, Abstract!Lend, Abstract!vars, Abstract!Changed, Abstract!AllIn,
         Abstract!Mark
<1> QED
  BY <1>1, <1>2, PTL DEF ImplementsFrameMap, Map!Spec, Abstract!Spec

(* No byte of what Alloc returned is held by two callers at the same time.  *)
THEOREM LentOnce ==
  MemTop < PtrLimit /\ WholeRequests => (Spec /\ []HasRoom => []Map!HeldOnce)
<1>1. Abstract!Spec => []Abstract!HeldOnce
  BY UsesDiffer, Abstract!NeverLentTwice
<1>2. Abstract!HeldOnce => Map!HeldOnce
  BY DEF Abstract!HeldOnce, Map!HeldOnce
<1> QED
  BY <1>1, <1>2, SameMap, KeepsThePromises, PTL

(* What ReserveRange has set aside, the low page, the modules and the       *)
(* loader itself, no later call of Alloc lends and none of Free frees.      *)
THEOREM SetAsideIsKept ==
  MemTop < PtrLimit /\ WholeRequests => (Spec /\ []HasRoom => Map!SetAsideForGood)
<1>1. Abstract!Spec => Abstract!SetAsideForGood
  BY UsesDiffer, Abstract!SetAsideStays
<1>2. Abstract!SetAsideForGood => Map!SetAsideForGood
  BY DEF Map!SetAsideForGood, Abstract!SetAsideForGood, Map!vars, Abstract!vars
<1> QED
  BY <1>1, <1>2, SameMap, KeepsThePromises
=============================================================================
