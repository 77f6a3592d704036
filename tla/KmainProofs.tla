------------------------------ MODULE KmainProofs ------------------------------
(***************************************************************************)
(* Proofs about the loader, in two parts.  Its page tables and the         *)
(* handover to the kernel: for any number of levels, entries and pages,    *)
(* any frames and any kernel that is linked as link.ld says.  Then what    *)
(* it makes of the tables it is given: the search for the processors       *)
(* whatever firmware left, and kmain whatever GRUB left.                   *)
(***************************************************************************)
EXTENDS Kmain, WellFoundedInduction, SequenceTheorems, FiniteSetTheorems, TLAPS

-----------------------------------------------------------------------------
(* Induction over the natural numbers, for sets.                            *)

LEMMA NatWellFounded == IsWellFoundedOn({ss \in Nat \X Nat : ss[1] < ss[2]}, Nat)
  BY NatLessThanWellFounded DEF OpToRel

LEMMA LeastElement ==
  ASSUME NEW T, T \subseteq Nat, T # {}
  PROVE  \E x \in T : \A y \in T : x <= y
<1> DEFINE R == {ss \in Nat \X Nat : ss[1] < ss[2]}
<1>1. IsWellFoundedOn(R, Nat)
  BY NatWellFounded
<1> HIDE DEF R
<1>2. PICK x \in T : \A y \in T : <<y, x>> \notin R
  BY <1>1, WFMin
<1>3. \A y \in T : ~(y < x)
  BY <1>2 DEF R
<1> QED
  BY <1>3

LEMMA SetInduction ==
  ASSUME NEW S, 0 \in S, \A n \in Nat : n \in S => n + 1 \in S
  PROVE  Nat \subseteq S
<1> SUFFICES ASSUME Nat \ S # {} PROVE FALSE
  OBVIOUS
<1>1. PICK x \in Nat \ S : \A y \in Nat \ S : x <= y
  BY LeastElement
<1>2. x # 0 /\ x - 1 \in Nat
  BY <1>1
<1>3. x - 1 \in S
  BY <1>1, <1>2
<1> QED
  BY <1>1, <1>2, <1>3

(* The same up to a bound. *)
LEMMA BoundedInduction ==
  ASSUME NEW N \in Nat, NEW S, 0 \in S,
         \A n \in 0 .. N : n \in S /\ n < N => n + 1 \in S
  PROVE  \A n \in 0 .. N : n \in S
<1> DEFINE U == {n \in Nat : n \in S \/ n > N}
<1>1. 0 \in U
  OBVIOUS
<1>2. \A n \in Nat : n \in U => n + 1 \in U
  OBVIOUS
<1> HIDE DEF U
<1>3. Nat \subseteq U
  BY <1>1, <1>2, SetInduction
<1> QED
  BY <1>3 DEF U

-----------------------------------------------------------------------------
(* Division. *)

LEMMA Division ==
  ASSUME NEW n \in Nat, NEW d \in Nat \ {0}
  PROVE  /\ n \div d \in Nat
         /\ n % d \in Nat /\ n % d < d
         /\ n = (n \div d) * d + (n % d)
  OBVIOUS

LEMMA Quotient ==
  ASSUME NEW q \in Nat, NEW s \in Nat, NEW r \in Nat, NEW t \in Nat, NEW d \in Nat \ {0},
         r < d, t < d, q * d + r = s * d + t
  PROVE  q = s /\ r = t
<1>1. ASSUME NEW x \in Nat, NEW y \in Nat, NEW u \in Nat, NEW v \in Nat,
             u < d, v < d, x * d + u = y * d + v
      PROVE  ~(x < y)
  <2> SUFFICES ASSUME x < y PROVE FALSE
    OBVIOUS
  <2>1. PICK j \in Nat : y = x + 1 + j
    <3>1. y - x - 1 \in Nat /\ y = x + 1 + (y - x - 1)
      OBVIOUS
    <3> QED
      BY <3>1
  <2>2. y * d = x * d + d + j * d /\ j * d >= 0
    BY <2>1
  <2> QED
    BY <1>1, <2>2
<1>2. q = s
  BY <1>1
<1> QED
  BY <1>2

LEMMA QuotientOfQuotient ==
  ASSUME NEW v \in Nat, NEW a \in Nat \ {0}, NEW f \in Nat \ {0}
  PROVE  v \div (f * a) = (v \div a) \div f
<1> DEFINE q == v \div a
           r == v % a
           p == q \div f
           s == q % f
<1>1. q \in Nat /\ r \in Nat /\ r < a /\ v = q * a + r
  BY Division
<1>2. p \in Nat /\ s \in Nat /\ s < f /\ q = p * f + s
  BY <1>1, Division
<1>3. f * a \in Nat \ {0}
  OBVIOUS
<1> DEFINE x == v \div (f * a)
           y == v % (f * a)
<1>4. x \in Nat /\ y \in Nat /\ y < f * a /\ v = x * (f * a) + y
  BY <1>3, Division
<1> HIDE DEF q, r, p, s, x, y
<1>5. v = p * (f * a) + (s * a + r)
  BY <1>1, <1>2
<1>6. s * a + r \in Nat /\ s * a + r < f * a
  <2>1. PICK j \in Nat : f = s + 1 + j
    <3>1. f - s - 1 \in Nat /\ f = s + 1 + (f - s - 1)
      BY <1>2
    <3> QED
      BY <3>1
  <2>2. f * a = s * a + a + j * a /\ j * a >= 0
    BY <1>2, <2>1
  <2> QED
    BY <1>1, <1>2, <2>2
<1>7. x = p
  BY <1>2, <1>3, <1>4, <1>5, <1>6, Quotient
<1> QED
  BY <1>7 DEF x, p, q

-----------------------------------------------------------------------------
(* Pages below an entry.                                                    *)

LEMMA SpanUnfolds ==
  Span = [n \in 0 .. Levels |-> IF n = 0 THEN 1 ELSE Fanout * Span[n - 1]]
<1> DEFINE IsPart(g, n) == g = [k \in 0 .. n |-> IF k = 0 THEN 1 ELSE Fanout * g[k - 1]]
           S == {n \in Nat : \E g : IsPart(g, n)}
<1>1. 0 \in S
  <2>1. IsPart([k \in 0 .. 0 |-> 1], 0)
    OBVIOUS
  <2> QED
    BY <2>1
<1>2. ASSUME NEW n \in Nat, n \in S
      PROVE  n + 1 \in S
  <2>1. PICK g : IsPart(g, n)
    BY <1>2
  <2> DEFINE h == [k \in 0 .. (n + 1) |-> IF k \in 0 .. n THEN g[k] ELSE Fanout * g[k - 1]]
  <2>2. IsPart(h, n + 1)
    <3>1. \A k \in 0 .. (n + 1) : h[k] = IF k = 0 THEN 1 ELSE Fanout * h[k - 1]
      BY <2>1
    <3>2. h = [k \in 0 .. (n + 1) |-> h[k]]
      OBVIOUS
    <3> HIDE DEF h
    <3> QED
      BY <3>1, <3>2, Zenon
  <2> HIDE DEF h, IsPart
  <2> QED
    BY <2>2
<1>3. \E g : IsPart(g, Levels)
  <2> HIDE DEF S
  <2>1. Levels \in S
    BY <1>1, <1>2, SetInduction, TablesAssumption
  <2> QED
    BY <2>1 DEF S
<1> QED
  BY <1>3, Zenon DEF Span

LEMMA SpanValues ==
  /\ Span[0] = 1
  /\ \A n \in 0 .. (Levels - 1) : Span[n + 1] = Fanout * Span[n]
  /\ \A n \in 0 .. Levels : Span[n] \in Nat \ {0}
<1>1. \A n \in 0 .. Levels : Span[n] = IF n = 0 THEN 1 ELSE Fanout * Span[n - 1]
  BY SpanUnfolds
<1>2. Levels \in Nat /\ Levels > 0 /\ Fanout \in Nat \ {0}
  BY TablesAssumption
<1>3. Span[0] = 1
  BY <1>1, <1>2
<1>4. \A n \in 0 .. (Levels - 1) : Span[n + 1] = Fanout * Span[n]
  BY <1>1, <1>2
<1> DEFINE S == {n \in 0 .. Levels : Span[n] \in Nat \ {0}}
<1>5. 0 \in S
  BY <1>2, <1>3
<1>6. \A n \in 0 .. Levels : n \in S /\ n < Levels => n + 1 \in S
  <2> SUFFICES ASSUME NEW n \in 0 .. Levels, n \in S, n < Levels PROVE n + 1 \in S
    OBVIOUS
  <2>1. Span[n + 1] = Fanout * Span[n] /\ n + 1 \in 0 .. Levels
    BY <1>2, <1>4
  <2>2. ASSUME NEW a \in Nat \ {0}, NEW b \in Nat \ {0} PROVE a * b \in Nat \ {0}
    BY <2>2
  <2> QED
    BY <1>2, <2>1, <2>2
<1> HIDE DEF S
<1>7. \A n \in 0 .. Levels : n \in S
  BY <1>2, <1>5, <1>6, BoundedInduction
<1> QED
  BY <1>3, <1>4, <1>7 DEF S

(* A virtual page is the indices on the way to it. *)
LEMMA IndicesName ==
  ASSUME NEW u \in VirtualPages, NEW v \in VirtualPages,
         \A l \in 1 .. Levels : Index(u, l) = Index(v, l)
  PROVE  u = v
<1> USE TablesAssumption
<1> DEFINE S == {n \in 0 .. Levels : u \div Span[Levels - n] = v \div Span[Levels - n]}
<1>1. u \in Nat /\ v \in Nat /\ u < Span[Levels] /\ v < Span[Levels] /\ Span[Levels] \in Nat \ {0}
  BY SpanValues DEF VirtualPages
<1>2. 0 \in S
  <2>1. ASSUME NEW x \in Nat, x < Span[Levels] PROVE x \div Span[Levels] = 0
    <3>1. x \div Span[Levels] \in Nat /\ x % Span[Levels] \in Nat /\ x % Span[Levels] < Span[Levels]
          /\ x = (x \div Span[Levels]) * Span[Levels] + (x % Span[Levels])
      BY <1>1, <2>1, Division
    <3>2. 0 * Span[Levels] = 0
      BY <1>1
    <3> DEFINE q == x \div Span[Levels]
               r == x % Span[Levels]
               d == Span[Levels]
    <3> HIDE DEF q, r, d
    <3>3. /\ q \in Nat /\ 0 \in Nat /\ r \in Nat /\ d \in Nat \ {0} /\ r < d /\ x < d
          /\ q * d + r = 0 * d + x
      BY <1>1, <2>1, <3>1, <3>2 DEF q, r, d
    <3>4. q = 0
      BY <2>1, <3>3, Quotient
    <3> QED
      BY <3>4 DEF q
  <2> QED
    BY <1>1, <2>1
<1>3. ASSUME NEW n \in 0 .. Levels, n \in S, n < Levels
      PROVE  n + 1 \in S
  <2> DEFINE l == Levels - n
             a == Span[l - 1]
  <2>1. l \in 1 .. Levels /\ l - 1 \in 0 .. (Levels - 1) /\ (l - 1) + 1 = l
    BY <1>3
  <2>2. a \in Nat \ {0} /\ Span[l] = Fanout * a
    BY <2>1, SpanValues
  <2>3. (u \div a) \div Fanout = (v \div a) \div Fanout
    BY <1>1, <1>3, <2>2, QuotientOfQuotient
  <2>4. (u \div a) % Fanout = (v \div a) % Fanout
    BY <2>1 DEF Index
  <2>5. u \div a \in Nat /\ v \div a \in Nat
    BY <1>1, <2>2, Division
  <2>6. u \div a = v \div a
    <3> DEFINE p == u \div a
               q == v \div a
    <3> HIDE DEF p, q
    <3>1. p = (p \div Fanout) * Fanout + (p % Fanout) /\ q = (q \div Fanout) * Fanout + (q % Fanout)
      BY <2>5, Division DEF p, q
    <3> QED
      BY <2>3, <2>4, <3>1 DEF p, q
  <2>7. Levels - (n + 1) = l - 1 /\ n + 1 \in 0 .. Levels
    BY <1>3
  <2> QED
    BY <2>6, <2>7
<1> HIDE DEF S
<1>4. Levels \in S
  BY <1>2, <1>3, BoundedInduction
<1>5. u \div Span[0] = v \div Span[0]
  BY <1>4 DEF S
<1> QED
  BY <1>1, <1>5, SpanValues

-----------------------------------------------------------------------------
(* Ways through the tables, for any contents m of memory and any page to    *)
(* start from: Walk and TablesAt before and after a step.                   *)

Hop(m, v, l, page) ==
  IF page = Unset THEN Unset ELSE m[page][Index(v, Levels + 1 - l)]

WalkIn(m, top, v) ==
  LET met[l \in 0 .. Levels] == IF l = 0 THEN top ELSE Hop(m, v, l, met[l - 1])
  IN  met

Entered(m, tables) == {m[t][ix] : t \in tables, ix \in Indices} \ {Unset}

TablesIn(m, roots) ==
  LET met[l \in 0 .. (Levels - 1)] == IF l = 0 THEN roots ELSE Entered(m, met[l - 1])
  IN  met

LEMMA WalkUnfolds ==
  ASSUME NEW m, NEW top, NEW v
  PROVE  WalkIn(m, top, v) =
           [l \in 0 .. Levels |->
              IF l = 0 THEN top ELSE Hop(m, v, l, WalkIn(m, top, v)[l - 1])]
<1> DEFINE IsPart(g, n) ==
             g = [l \in 0 .. n |->
                    IF l = 0 THEN top ELSE Hop(m, v, l, g[l - 1])]
           S == {n \in Nat : \E g : IsPart(g, n)}
<1>1. 0 \in S
  <2>1. IsPart([l \in 0 .. 0 |-> top], 0)
    OBVIOUS
  <2> QED
    BY <2>1
<1>2. ASSUME NEW n \in Nat, n \in S
      PROVE  n + 1 \in S
  <2>1. PICK g : IsPart(g, n)
    BY <1>2
  <2> DEFINE h == [l \in 0 .. (n + 1) |->
                     IF l \in 0 .. n THEN g[l] ELSE Hop(m, v, l, g[l - 1])]
  <2>2. IsPart(h, n + 1)
    <3>1. \A l \in 0 .. (n + 1) : h[l] = IF l = 0 THEN top ELSE Hop(m, v, l, h[l - 1])
      BY <2>1
    <3>2. h = [l \in 0 .. (n + 1) |-> h[l]]
      OBVIOUS
    <3> HIDE DEF h
    <3> QED
      BY <3>1, <3>2, Zenon
  <2> HIDE DEF h, IsPart
  <2> QED
    BY <2>2
<1>3. \E g : IsPart(g, Levels)
  <2> HIDE DEF S
  <2>1. Levels \in S
    BY <1>1, <1>2, SetInduction, TablesAssumption
  <2> QED
    BY <2>1 DEF S
<1> QED
  BY <1>3, Zenon DEF WalkIn

LEMMA TablesUnfold ==
  ASSUME NEW m, NEW roots
  PROVE  TablesIn(m, roots) =
           [l \in 0 .. (Levels - 1) |->
              IF l = 0 THEN roots ELSE Entered(m, TablesIn(m, roots)[l - 1])]
<1> DEFINE IsPart(g, n) ==
             g = [l \in 0 .. n |->
                    IF l = 0 THEN roots ELSE Entered(m, g[l - 1])]
           S == {n \in Nat : \E g : IsPart(g, n)}
<1>1. 0 \in S
  <2>1. IsPart([l \in 0 .. 0 |-> roots], 0)
    OBVIOUS
  <2> QED
    BY <2>1
<1>2. ASSUME NEW n \in Nat, n \in S
      PROVE  n + 1 \in S
  <2>1. PICK g : IsPart(g, n)
    BY <1>2
  <2> DEFINE h == [l \in 0 .. (n + 1) |->
                     IF l \in 0 .. n THEN g[l] ELSE Entered(m, g[l - 1])]
  <2>2. IsPart(h, n + 1)
    <3>1. \A l \in 0 .. (n + 1) : h[l] = IF l = 0 THEN roots ELSE Entered(m, h[l - 1])
      BY <2>1
    <3>2. h = [l \in 0 .. (n + 1) |-> h[l]]
      OBVIOUS
    <3> HIDE DEF h
    <3> QED
      BY <3>1, <3>2, Zenon
  <2> HIDE DEF h, IsPart
  <2> QED
    BY <2>2
<1>3. \E g : IsPart(g, Levels - 1)
  <2> HIDE DEF S
  <2>1. Levels - 1 \in S
    BY <1>1, <1>2, SetInduction, TablesAssumption
  <2> QED
    BY <2>1 DEF S
<1> QED
  BY <1>3, Zenon DEF TablesIn

LEMMA WalkValues ==
  ASSUME NEW m, NEW top, NEW v
  PROVE  /\ WalkIn(m, top, v)[0] = top
         /\ \A l \in 0 .. (Levels - 1) :
              WalkIn(m, top, v)[l + 1] =
                IF WalkIn(m, top, v)[l] = Unset THEN Unset
                ELSE m[WalkIn(m, top, v)[l]][Index(v, Levels - l)]
<1> DEFINE w == WalkIn(m, top, v)
<1>1. w = [l \in 0 .. Levels |-> IF l = 0 THEN top ELSE Hop(m, v, l, w[l - 1])]
  BY WalkUnfolds
<1> HIDE DEF w
<1>2. Levels \in Nat /\ Levels > 0
  BY TablesAssumption
<1>3. w[0] = top
  BY <1>1, <1>2
<1>4. ASSUME NEW l \in 0 .. (Levels - 1)
      PROVE  w[l + 1] = Hop(m, v, l + 1, w[l])
  <2>1. l + 1 \in 0 .. Levels /\ l + 1 # 0 /\ (l + 1) - 1 = l
    BY <1>2
  <2> QED
    BY <1>1, <2>1
<1>5. \A l \in 0 .. (Levels - 1) : Levels + 1 - (l + 1) = Levels - l
  BY <1>2
<1> QED
  BY <1>3, <1>4, <1>5 DEF w, Hop

LEMMA TablesValues ==
  ASSUME NEW m, NEW roots
  PROVE  /\ TablesIn(m, roots)[0] = roots
         /\ \A l \in 0 .. (Levels - 2) :
              TablesIn(m, roots)[l + 1] = Entered(m, TablesIn(m, roots)[l])
<1> DEFINE T == TablesIn(m, roots)
<1>1. T = [l \in 0 .. (Levels - 1) |-> IF l = 0 THEN roots ELSE Entered(m, T[l - 1])]
  BY TablesUnfold
<1> HIDE DEF T
<1>2. Levels \in Nat /\ Levels > 0
  BY TablesAssumption
<1>3. T[0] = roots
  BY <1>1, <1>2
<1>4. ASSUME NEW l \in 0 .. (Levels - 2)
      PROVE  T[l + 1] = Entered(m, T[l])
  <2>1. l + 1 \in 0 .. (Levels - 1) /\ l + 1 # 0 /\ (l + 1) - 1 = l
    BY <1>2
  <2> QED
    BY <1>1, <2>1
<1> QED
  BY <1>3, <1>4 DEF T

(* Walk and TablesAt are these, of the memory before and after a step. *)
LEMMA WalkIsWalkIn ==
  ASSUME NEW v
  PROVE  /\ Walk(v) = WalkIn(mem, pml4_table, v)
         /\ Walk(v)' = WalkIn(mem', pml4_table', v)
  BY DEF Walk, WalkIn, Hop

LEMMA TablesAtIsTablesIn ==
  /\ TablesAt = TablesIn(mem, {pml4_table})
  /\ TablesAt' = TablesIn(mem', {pml4_table'})
  BY DEF TablesAt, TablesIn, Entered

LEMMA WalkFacts ==
  ASSUME NEW v
  PROVE  /\ Walk(v)[0] = pml4_table
         /\ \A l \in 0 .. (Levels - 1) :
              Walk(v)[l + 1] = IF Walk(v)[l] = Unset THEN Unset
                               ELSE mem[Walk(v)[l]][Index(v, Levels - l)]
         /\ Walk(v)'[0] = pml4_table'
         /\ \A l \in 0 .. (Levels - 1) :
              Walk(v)'[l + 1] = IF Walk(v)'[l] = Unset THEN Unset
                                ELSE mem'[Walk(v)'[l]][Index(v, Levels - l)]
  BY WalkIsWalkIn, WalkValues

LEMMA TablesFacts ==
  /\ TablesAt[0] = {pml4_table}
  /\ \A l \in 0 .. (Levels - 2) : TablesAt[l + 1] = Entered(mem, TablesAt[l])
  /\ TablesAt'[0] = {pml4_table'}
  /\ \A l \in 0 .. (Levels - 2) : TablesAt'[l + 1] = Entered(mem', TablesAt'[l])
  BY TablesAtIsTablesIn, TablesValues

LEMMA IndexType ==
  ASSUME NEW v \in VirtualPages, NEW l \in 1 .. Levels
  PROVE  Index(v, l) \in Indices
<1>1. v \in Nat /\ l - 1 \in 0 .. Levels /\ Fanout \in Nat \ {0}
  BY TablesAssumption, SpanValues DEF VirtualPages
<1>2. Span[l - 1] \in Nat \ {0}
  BY <1>1, SpanValues
<1>3. v \div Span[l - 1] \in Nat
  BY <1>1, <1>2, Division
<1>4. Index(v, l) \in Nat /\ Index(v, l) < Fanout
  BY <1>1, <1>3, Division DEF Index
<1> QED
  BY <1>1, <1>4 DEF Indices

-----------------------------------------------------------------------------
(* The mapper.                                                              *)

(* The page Install takes for the PML4 holds nothing.                       *)
CleanStarts == \A p \in Frames : p - 1 \notin Frames => p \notin Dirty

(* Frame::Alloc has a page whenever a table is needed.                      *)
FramesLeft ==
  (pml4_table = Unset \/ (todo # <<>> /\ level > 1 /\ mem[table][Here] = Unset)) => free # {}

(* TablesApart is inductive only with what the mapper is about: it stands   *)
(* on the way to the page it maps.                                          *)
Nothing ==
  /\ table = Unset /\ level = Levels /\ todo = <<>> /\ free = Frames
  /\ \A p \in Pages \ Dirty : mem[p] = Clear

OnTheWay ==
  /\ table # Unset
  /\ level = Levels => table = pml4_table
  /\ todo = <<>> => level = Levels
  /\ todo # <<>> => table = WalkIn(mem, pml4_table, Virt)[Levels - level]

PagingInv ==
  /\ TypeOK
  /\ pml4_table = Unset => Nothing
  /\ pml4_table # Unset => OnTheWay
  /\ TablesApart

(* The parts of TablesApart. *)
LEMMA Apart ==
  ASSUME TablesApart, pml4_table # Unset
  PROVE  /\ \A l \in 0 .. (Levels - 1) : TablesAt[l] \subseteq Frames \ free
         /\ \A l, k \in 0 .. (Levels - 1) : l # k => TablesAt[l] \cap TablesAt[k] = {}
         /\ \A l \in 0 .. (Levels - 2) : \A t, u \in TablesAt[l] : \A ix, j \in Indices :
              (mem[t][ix] # Unset /\ mem[t][ix] = mem[u][j]) => (t = u /\ ix = j)
  BY DEF TablesApart

LEMMA WalkStaysInTables ==
  ASSUME NEW v \in VirtualPages, pml4_table # Unset
  PROVE  \A l \in 0 .. (Levels - 1) : Walk(v)[l] = Unset \/ Walk(v)[l] \in TablesAt[l]
<1> USE TablesAssumption
<1> DEFINE S == {l \in 0 .. (Levels - 1) : Walk(v)[l] = Unset \/ Walk(v)[l] \in TablesAt[l]}
<1>1. 0 \in S
  BY WalkFacts, TablesFacts
<1>2. ASSUME NEW l \in 0 .. (Levels - 1), l \in S, l < Levels - 1
      PROVE  l + 1 \in S
  <2>1. l \in 0 .. (Levels - 2) /\ l + 1 \in 0 .. (Levels - 1) /\ Levels - l \in 1 .. Levels
    BY <1>2
  <2>2. Walk(v)[l + 1] = IF Walk(v)[l] = Unset THEN Unset
                         ELSE mem[Walk(v)[l]][Index(v, Levels - l)]
    BY WalkFacts
  <2>3. Index(v, Levels - l) \in Indices
    BY <2>1, IndexType
  <2>4. TablesAt[l + 1] = {mem[t][ix] : t \in TablesAt[l], ix \in Indices} \ {Unset}
    BY <2>1, TablesFacts DEF Entered
  <2>5. Walk(v)[l + 1] = Unset \/ Walk(v)[l + 1] \in TablesAt[l + 1]
    BY <1>2, <2>2, <2>3, <2>4
  <2> QED
    BY <2>1, <2>5
<1> HIDE DEF S
<1>3. Levels - 1 \in Nat
  OBVIOUS
<1>4. \A l \in 0 .. (Levels - 1) : l \in S
  BY <1>1, <1>2, <1>3, BoundedInduction
<1> QED
  BY <1>4 DEF S

(* A way that has got somewhere has been somewhere at every step. *)
LEMMA WalkGoesOn ==
  ASSUME NEW v
  PROVE  \A l \in 0 .. (Levels - 1) : Walk(v)[l] = Unset => Walk(v)[l + 1] = Unset
  BY WalkFacts

(* The head of the work to do. *)
LEMMA HeadOfWork ==
  ASSUME TypeOK, todo # <<>>
  PROVE  /\ Phys \in Pages /\ Virt \in VirtualPages
         /\ Head(todo) \in Ranges /\ Head(todo).size \in Nat \ {0}
         /\ Tail(todo) \in Seq({r \in Ranges : r.size > 0})
<1>1. Head(todo) \in {r \in Ranges : r.size > 0} /\ Tail(todo) \in Seq({r \in Ranges : r.size > 0})
  BY HeadTailProperties DEF TypeOK
<1> QED
  BY <1>1 DEF Ranges, Phys, Virt

-----------------------------------------------------------------------------
(* Install: one table, with nothing in it.                                  *)

LEMMA WorkType ==
  ASSUME NEW r \in Ranges
  PROVE  /\ Work(r) \in Seq({q \in Ranges : q.size > 0})
         /\ Work(r) # <<>> => Head(Work(r)) = r
<1>1. CASE r.size > 0
  <2> DEFINE S == {q \in Ranges : q.size > 0}
  <2>1. r \in S
    BY <1>1
  <2> HIDE DEF S
  <2>2. <<r>> \in Seq(S) /\ Head(<<r>>) = r
    BY <2>1
  <2> QED
    BY <1>1, <2>2 DEF Work, S
<1>2. CASE ~(r.size > 0)
  BY <1>2 DEF Work
<1> QED
  BY <1>1, <1>2

LEMMA LowRange == [phys |-> 0, virt |-> 0, size |-> LowPages] \in Ranges
<1>1. 0 \in Pages /\ 0 \in VirtualPages
  BY TablesAssumption, SpanValues DEF Pages, VirtualPages
<1> QED
  BY <1>1, TablesAssumption, SpanValues DEF Ranges

LEMMA NothingMapped ==
  ASSUME pml4_table = Unset, NEW v
  PROVE  Translate(v) = Unset
<1> USE TablesAssumption
<1> DEFINE S == {l \in 0 .. Levels : Walk(v)[l] = Unset}
<1>1. 0 \in S
  BY WalkFacts
<1>2. ASSUME NEW l \in 0 .. Levels, l \in S, l < Levels
      PROVE  l + 1 \in S
  BY <1>2, WalkGoesOn
<1> HIDE DEF S
<1>3. Levels \in S
  BY <1>1, <1>2, BoundedInduction, SMTT(30)
<1> QED
  BY <1>3 DEF S, Translate

LEMMA InstallStep ==
  ASSUME CleanStarts, PagingInv, FramesLeft, Install
  PROVE  /\ PagingInv'
         /\ \A v \in VirtualPages : Translate(v)' = Unset
<1> USE TablesAssumption
<1>1. PICK p \in AllocPage : pml4_table' = p /\ table' = p /\ free' = free \ {p}
  BY DEF Install
<1>2. /\ pml4_table = Unset /\ mem' = mem /\ level' = level /\ level = Levels /\ free = Frames
      /\ \A q \in Pages \ Dirty : mem[q] = Clear
      /\ todo' = Work([phys |-> 0, virt |-> 0, size |-> LowPages])
  BY DEF Install, PagingInv, Nothing
<1>3. p \in Frames /\ p \in Pages /\ mem[p] = Clear /\ p # Unset
  <2>1. free # {}
    BY <1>2 DEF FramesLeft
  <2>2. p \in free /\ p - 1 \notin free
    BY <2>1 DEF AllocPage, Starts
  <2> QED
    BY <1>2, <2>2 DEF CleanStarts, Pages
<1>4. TypeOK'
  <2>1. todo' \in Seq({r \in Ranges : r.size > 0})
    BY <1>2, LowRange, WorkType
  <2> QED
    BY <1>1, <1>2, <1>3, <2>1 DEF PagingInv, TypeOK, Entry
<1>5. \A ix \in Indices : mem'[p][ix] = Unset
  BY <1>2, <1>3 DEF Clear
<1>6. \A l \in 0 .. (Levels - 1) : l = 0 \/ TablesAt'[l] = {}
  <2> DEFINE S == {l \in 0 .. (Levels - 1) : l = 0 \/ TablesAt'[l] = {}}
  <2>1. 0 \in S
    OBVIOUS
  <2>2. ASSUME NEW l \in 0 .. (Levels - 1), l \in S, l < Levels - 1
        PROVE  l + 1 \in S
    <3>1. TablesAt'[l + 1] = Entered(mem', TablesAt'[l]) /\ TablesAt'[0] = {p}
      BY <1>1, <2>2, TablesFacts
    <3>2. TablesAt'[l] = {} \/ TablesAt'[l] = {p}
      BY <2>2, <3>1
    <3>3. TablesAt'[l + 1] = {}
      BY <1>5, <3>1, <3>2 DEF Entered
    <3> QED
      BY <2>2, <3>3
  <2> HIDE DEF S
  <2>3. Levels - 1 \in Nat
    OBVIOUS
  <2>4. \A l \in 0 .. (Levels - 1) : l \in S
    BY <2>1, <2>2, <2>3, BoundedInduction
  <2> QED
    BY <2>4 DEF S
<1>7. TablesApart'
  <2>1. TablesAt'[0] = {p}
    BY <1>1, TablesFacts
  <2>2. \A l \in 0 .. (Levels - 1) : TablesAt'[l] \subseteq {p}
    BY <1>6, <2>1
  <2>3. \A l \in 0 .. (Levels - 1) : TablesAt'[l] \subseteq Frames \ free'
    BY <1>1, <1>3, <2>2
  <2>4. \A l, k \in 0 .. (Levels - 1) : l # k => TablesAt'[l] \cap TablesAt'[k] = {}
    BY <1>6
  <2>5. \A l \in 0 .. (Levels - 2) : \A t, u \in TablesAt'[l] : \A ix, j \in Indices :
          ~(mem'[t][ix] # Unset /\ mem'[t][ix] = mem'[u][j])
    BY <1>5, <2>2
  <2> QED
    BY <2>3, <2>4, <2>5 DEF TablesApart
<1>8. OnTheWay'
  <2>1. table' = WalkIn(mem', pml4_table', Virt')[Levels - level']
    <3>1. Levels - level' = 0
      BY <1>2
    <3> QED
      BY <1>1, <3>1, WalkValues
  <2> QED
    BY <1>1, <1>2, <1>3, <2>1 DEF OnTheWay
<1>9. ASSUME NEW v \in VirtualPages
      PROVE  Translate(v)' = Unset
  <2> DEFINE S == {l \in 0 .. Levels : l = 0 \/ Walk(v)'[l] = Unset}
  <2>1. 0 \in S
    OBVIOUS
  <2>2. ASSUME NEW l \in 0 .. Levels, l \in S, l < Levels
        PROVE  l + 1 \in S
    <3>1. l \in 0 .. (Levels - 1) /\ Levels - l \in 1 .. Levels
      BY <2>2
    <3>2. Walk(v)'[l] = Unset \/ Walk(v)'[l] = p
      BY <1>1, <2>2, WalkFacts
    <3>3. Walk(v)'[l + 1] = Unset
      BY <1>5, <3>1, <3>2, WalkFacts, IndexType
    <3> QED
      BY <2>2, <3>3
  <2> HIDE DEF S
  <2>3. Levels \in S
    BY <2>1, <2>2, BoundedInduction
  <2> QED
    BY <2>3 DEF S, Translate
<1> QED
  BY <1>1, <1>3, <1>4, <1>7, <1>8, <1>9 DEF PagingInv

-----------------------------------------------------------------------------
(* Steps that leave the tables as they are.                                 *)

LEMMA SameTables ==
  ASSUME mem' = mem, pml4_table' = pml4_table
  PROVE  /\ TablesAt' = TablesAt
         /\ \A v : Walk(v)' = Walk(v) /\ Translate(v)' = Translate(v)
  BY WalkIsWalkIn, TablesAtIsTablesIn DEF Translate

LEMMA StillApart ==
  ASSUME TablesApart, mem' = mem, pml4_table' = pml4_table, free' \subseteq free
  PROVE  TablesApart'
<1>1. TablesAt' = TablesAt
  BY SameTables
<1>2. ASSUME pml4_table # Unset
      PROVE  TablesApart'
  <2>1. \A l \in 0 .. (Levels - 1) : TablesAt'[l] \subseteq Frames \ free'
    BY <1>1, <1>2, Apart
  <2>2. \A l, k \in 0 .. (Levels - 1) : l # k => TablesAt'[l] \cap TablesAt'[k] = {}
    BY <1>1, <1>2, Apart
  <2>3. \A l \in 0 .. (Levels - 2) : \A t, u \in TablesAt'[l] : \A ix, j \in Indices :
          (mem'[t][ix] # Unset /\ mem'[t][ix] = mem'[u][j]) => <<t, ix>> = <<u, j>>
    BY <1>1, <1>2, Apart
  <2> QED
    BY <2>1, <2>2, <2>3 DEF TablesApart
<1> QED
  BY <1>2 DEF TablesApart

(* A call of MapRange, and whatever else takes pages, between two of them.  *)
LEMMA CallStep ==
  ASSUME PagingInv, pml4_table # Unset, todo = <<>>,
         UNCHANGED <<mem, pml4_table, level, table>>, free' \subseteq free,
         todo' \in Seq({r \in Ranges : r.size > 0})
  PROVE  PagingInv' /\ \A v : Translate(v)' = Translate(v)
<1>1. TypeOK'
  BY DEF PagingInv, TypeOK
<1>2. level = Levels /\ table = pml4_table
  BY DEF PagingInv, OnTheWay
<1>3. OnTheWay'
  <2>1. Levels - level' = 0
    BY <1>2, TablesAssumption
  <2>2. WalkIn(mem', pml4_table', Virt')[0] = pml4_table'
    BY WalkValues
  <2> QED
    BY <1>2, <2>1, <2>2 DEF OnTheWay
<1>4. TablesApart'
  BY StillApart DEF PagingInv
<1> QED
  BY <1>1, <1>3, <1>4, SameTables DEF PagingInv

(* Where Map is. *)
LEMMA AtTable ==
  ASSUME PagingInv, todo # <<>>
  PROVE  /\ pml4_table # Unset /\ pml4_table \in Pages /\ table \in Pages
         /\ Levels - level \in 0 .. (Levels - 1)
         /\ table = Walk(Virt)[Levels - level]
         /\ table \in TablesAt[Levels - level]
         /\ Here \in Indices /\ Virt \in VirtualPages /\ Phys \in Pages
         /\ Here = Index(Virt, level)
<1>1. pml4_table # Unset /\ OnTheWay /\ TypeOK
  BY DEF PagingInv, Nothing
<1>2. pml4_table \in Pages /\ table \in Pages
  BY <1>1 DEF OnTheWay, TypeOK, Entry
<1>3. level \in 1 .. Levels /\ Levels - level \in 0 .. (Levels - 1)
  BY <1>1, TablesAssumption DEF TypeOK
<1>4. Virt \in VirtualPages /\ Phys \in Pages
  BY <1>1, HeadOfWork
<1>5. table = Walk(Virt)[Levels - level]
  BY <1>1 DEF OnTheWay, Walk, WalkIn, Hop
<1>6. table \in TablesAt[Levels - level]
  <2>1. PICK v \in VirtualPages : v = Virt
    BY <1>4
  <2>2. Walk(v)[Levels - level] = table
    BY <1>5, <2>1
  <2> QED
    BY <1>1, <1>3, <2>2, WalkStaysInTables DEF OnTheWay
<1> QED
  BY <1>1, <1>2, <1>3, <1>4, <1>5, <1>6, IndexType DEF Here

LEMMA DescendStep ==
  ASSUME PagingInv, Descend
  PROVE  PagingInv' /\ \A v : Translate(v)' = Translate(v)
<1> USE TablesAssumption
<1>1. /\ todo # <<>> /\ level > 1 /\ mem[table][Here] # Unset
      /\ table' = mem[table][Here] /\ level' = level - 1
      /\ UNCHANGED <<mem, free, pml4_table, todo>>
  BY DEF Descend
<1>2. /\ pml4_table # Unset /\ table \in Pages /\ Here \in Indices /\ Here = Index(Virt, level)
      /\ Levels - level \in 0 .. (Levels - 1) /\ table # Unset
  BY <1>1, AtTable DEF PagingInv, OnTheWay
<1>3. TypeOK'
  <2>1. mem[table][Here] \in Entry
    BY <1>2 DEF PagingInv, TypeOK
  <2>2. level' \in 1 .. Levels
    BY <1>1 DEF PagingInv, TypeOK
  <2> QED
    BY <1>1, <2>1, <2>2 DEF PagingInv, TypeOK
<1>4. OnTheWay'
  <2>1. Virt' = Virt
    BY <1>1 DEF Virt
  <2>2. Levels - level' = (Levels - level) + 1 /\ level' # Levels /\ Levels - (Levels - level) = level
    BY <1>1 DEF PagingInv, TypeOK
  <2>3. table = WalkIn(mem, pml4_table, Virt)[Levels - level]
    BY <1>1, <1>2 DEF PagingInv, OnTheWay
  <2>4. WalkIn(mem, pml4_table, Virt)[(Levels - level) + 1] = mem[table][Index(Virt, level)]
    BY <1>2, <2>2, <2>3, WalkValues
  <2> QED
    BY <1>1, <1>2, <2>1, <2>2, <2>4 DEF OnTheWay
<1>5. TablesApart'
  BY <1>1, StillApart DEF PagingInv
<1> QED
  BY <1>1, <1>2, <1>3, <1>4, <1>5, SameTables DEF PagingInv

-----------------------------------------------------------------------------
(* A new table: an empty page is entered where nothing was.                 *)

Enters(p) ==
  /\ p \in Pages /\ p # Unset /\ p # table
  /\ \A l \in 0 .. (Levels - 1) : p \notin TablesAt[l]
  /\ pml4_table' = pml4_table
  /\ \A ix \in Indices : mem'[p][ix] = Unset
  /\ mem'[table][Here] = p /\ mem[table][Here] = Unset
  /\ \A ix \in Indices : ix # Here => mem'[table][ix] = mem[table][ix]
  /\ \A q \in Pages : q # p /\ q # table => mem'[q] = mem[q]

LEMMA NewTableMemory ==
  ASSUME PagingInv, FramesLeft, NewTable
  PROVE  \E p \in free :
           /\ Enters(p)
           /\ table' = p /\ free' = free \ {p} /\ level' = level - 1 /\ todo' = todo
           /\ mem' \in [Pages -> [Indices -> Entry]]
<1> USE TablesAssumption
<1>1. PICK p \in AllocPage : /\ mem' = [mem EXCEPT ![p] = Clear, ![table][Here] = p]
                             /\ table' = p /\ free' = free \ {p}
  BY DEF NewTable
<1>2. /\ todo # <<>> /\ level > 1 /\ mem[table][Here] = Unset
      /\ level' = level - 1 /\ UNCHANGED <<pml4_table, todo>>
  BY DEF NewTable
<1>3. p \in free /\ p \in Pages /\ p # Unset
  <2>1. p \in free
    BY <1>2 DEF FramesLeft, AllocPage, Starts
  <2> QED
    BY <2>1 DEF PagingInv, TypeOK, Pages
<1>4. /\ table \in Pages /\ Here \in Indices /\ pml4_table # Unset
      /\ Levels - level \in 0 .. (Levels - 1) /\ table \in TablesAt[Levels - level]
  BY <1>2, AtTable
<1>5. \A l \in 0 .. (Levels - 1) : p \notin TablesAt[l]
  BY <1>3, <1>4, Apart DEF PagingInv
<1>6. p # table
  BY <1>4, <1>5
<1>7. mem \in [Pages -> [Indices -> Entry]] /\ p \in Entry /\ Clear \in [Indices -> Entry]
  BY <1>3 DEF PagingInv, TypeOK, Clear, Entry
<1> HIDE DEF Clear, Here
<1>8. /\ mem'[p] = Clear
      /\ mem'[table] = [mem[table] EXCEPT ![Here] = p]
      /\ \A q \in Pages : q # p /\ q # table => mem'[q] = mem[q]
      /\ mem' \in [Pages -> [Indices -> Entry]]
  BY <1>1, <1>3, <1>4, <1>6, <1>7
<1>9. \A ix \in Indices : Clear[ix] = Unset
  BY DEF Clear
<1>10. mem[table] \in [Indices -> Entry]
  BY <1>4, <1>7
<1> QED
  BY <1>1, <1>2, <1>3, <1>4, <1>5, <1>6, <1>8, <1>9, <1>10 DEF Enters

(* The new page is a table of the next level, and no other changes place.   *)
LEMMA NewTableTables ==
  ASSUME PagingInv, todo # <<>>, level > 1, NEW p, Enters(p)
  PROVE  \A l \in 0 .. (Levels - 1) :
           TablesAt'[l] = TablesAt[l] \cup (IF l = Levels - level + 1 THEN {p} ELSE {})
<1> USE TablesAssumption DEF Enters
<1> DEFINE d == Levels - level
           Extra(l) == IF l = d + 1 THEN {p} ELSE {}
           S == {l \in 0 .. (Levels - 1) : TablesAt'[l] = TablesAt[l] \cup Extra(l)}
<1>1. /\ pml4_table # Unset /\ table \in Pages /\ d \in 0 .. (Levels - 1)
      /\ table \in TablesAt[d] /\ Here \in Indices
  BY AtTable
<1>2. 0 \in S
  <2>1. 0 # d + 1
    BY <1>1
  <2>2. TablesAt'[0] = TablesAt[0]
    BY TablesFacts
  <2>3. 0 \in 0 .. (Levels - 1)
    OBVIOUS
  <2> QED
    BY <2>1, <2>2, <2>3
<1>3. \A l \in 0 .. (Levels - 1) : TablesAt[l] \subseteq Pages /\ (l # d => table \notin TablesAt[l])
  BY <1>1, Apart DEF PagingInv, Pages
<1>4. ASSUME NEW l \in 0 .. (Levels - 1), l \in S, l < Levels - 1
      PROVE  l + 1 \in S
  <2>1. l \in 0 .. (Levels - 2) /\ l + 1 \in 0 .. (Levels - 1)
    BY <1>4
  <2>2. TablesAt[l + 1] = {mem[t][ix] : t \in TablesAt[l], ix \in Indices} \ {Unset}
    BY <2>1, TablesFacts DEF Entered
  <2>3. TablesAt'[l + 1] = {mem'[t][ix] : t \in TablesAt'[l], ix \in Indices} \ {Unset}
    BY <2>1, TablesFacts DEF Entered
  <2>4. TablesAt'[l] = TablesAt[l] \cup Extra(l)
    BY <1>4
  <2>5. \A t \in TablesAt[l] : t # table => mem'[t] = mem[t]
    BY <1>3
  <2> HIDE DEF Extra
  <2>6. CASE l = d
    <3>1. Extra(l) = {} /\ Extra(l + 1) = {p}
      BY <1>1, <2>6 DEF Extra
    <3>2. TablesAt'[l + 1] \subseteq TablesAt[l + 1] \cup {p}
      <4> SUFFICES ASSUME NEW x \in TablesAt'[l + 1] PROVE x \in TablesAt[l + 1] \/ x = p
        OBVIOUS
      <4>1. PICK t \in TablesAt[l], ix \in Indices : x = mem'[t][ix] /\ x # Unset
        BY <2>3, <2>4, <3>1
      <4>2. CASE t = table /\ ix = Here
        BY <4>1, <4>2
      <4>3. CASE ~(t = table /\ ix = Here)
        <5>1. x = mem[t][ix]
          BY <2>5, <4>1, <4>3
        <5> QED
          BY <2>2, <4>1, <5>1
      <4> QED
        BY <4>2, <4>3
    <3>3. p \in TablesAt'[l + 1]
      BY <1>1, <2>3, <2>4, <2>6, <3>1
    <3>4. ASSUME NEW x \in TablesAt[l + 1]
          PROVE  x \in TablesAt'[l + 1]
      <4>1. PICK t \in TablesAt[l], ix \in Indices : x = mem[t][ix] /\ x # Unset
        BY <2>2, <3>4
      <4>2. x = mem'[t][ix]
        BY <2>5, <4>1
      <4> QED
        BY <2>3, <2>4, <3>1, <4>1, <4>2
    <3> QED
      BY <2>1, <3>1, <3>2, <3>3, <3>4
  <2>7. CASE l # d
    <3>1. Extra(l + 1) = {}
      BY <1>1, <2>1, <2>7 DEF Extra
    <3>2. \A t \in TablesAt[l] : mem'[t] = mem[t]
      BY <1>3, <2>5, <2>7
    <3>3. \A t \in Extra(l) : t = p
      BY DEF Extra
    <3>4. TablesAt'[l + 1] = TablesAt[l + 1]
      <4>1. ASSUME NEW x \in TablesAt'[l + 1]
            PROVE  x \in TablesAt[l + 1]
        <5>1. PICK t \in TablesAt'[l], ix \in Indices : x = mem'[t][ix] /\ x # Unset
          BY <2>3, <4>1
        <5>2. t \in TablesAt[l]
          BY <2>4, <3>3, <5>1
        <5> QED
          BY <2>2, <3>2, <5>1, <5>2
      <4>2. ASSUME NEW x \in TablesAt[l + 1]
            PROVE  x \in TablesAt'[l + 1]
        <5>1. PICK t \in TablesAt[l], ix \in Indices : x = mem[t][ix] /\ x # Unset
          BY <2>2, <4>2
        <5>2. x = mem'[t][ix]
          BY <3>2, <5>1
        <5> QED
          BY <2>3, <2>4, <5>1, <5>2
      <4> QED
        BY <4>1, <4>2
    <3> QED
      BY <2>1, <3>1, <3>4
  <2> QED
    BY <2>6, <2>7
<1> HIDE DEF S
<1>5. Levels - 1 \in Nat
  OBVIOUS
<1>6. \A l \in 0 .. (Levels - 1) : l \in S
  BY <1>2, <1>4, <1>5, BoundedInduction
<1> QED
  BY <1>6 DEF S

(* Only the way that ended where the page was entered gets any further, and *)
(* it ends in that page.                                                    *)
LEMMA NewTableWalk ==
  ASSUME PagingInv, todo # <<>>, level > 1, NEW p, Enters(p), NEW v \in VirtualPages
  PROVE  \A l \in 0 .. Levels :
           Walk(v)'[l] = IF l = Levels - level + 1 /\ Walk(v)[l - 1] = table /\ Index(v, level) = Here
                         THEN p ELSE Walk(v)[l]
<1> USE TablesAssumption
<1> DEFINE d == Levels - level
           Here2 == Walk(v)[d] = table /\ Index(v, level) = Here
           S == {l \in 0 .. Levels :
                   Walk(v)'[l] = IF l = d + 1 /\ Here2 THEN p ELSE Walk(v)[l]}
<1>1. /\ pml4_table # Unset /\ table \in Pages /\ d \in 0 .. (Levels - 1)
      /\ table \in TablesAt[d] /\ Here \in Indices /\ table # Unset
  BY AtTable DEF PagingInv, OnTheWay
<1>2. d < Levels - 1 /\ Levels - d = level
  BY DEF PagingInv, TypeOK
<1>3. \A l \in 0 .. (Levels - 1) : /\ TablesAt[l] \subseteq Pages
                                   /\ l # d => table \notin TablesAt[l]
                                   /\ p \notin TablesAt[l]
  BY <1>1, Apart DEF PagingInv, Pages, Enters
<1>4. \A l \in 0 .. (Levels - 1) : Walk(v)[l] = Unset \/ Walk(v)[l] \in TablesAt[l]
  BY <1>1, WalkStaysInTables
<1>5. 0 \in S
  <2>1. 0 # d + 1
    BY <1>1
  <2>2. Walk(v)'[0] = Walk(v)[0]
    BY WalkFacts DEF Enters
  <2> QED
    BY <2>1, <2>2
<1>6. ASSUME NEW l \in 0 .. Levels, l \in S, l < Levels
      PROVE  l + 1 \in S
  <2> HIDE DEF Here2
  <2>1. l \in 0 .. (Levels - 1) /\ l + 1 \in 0 .. Levels /\ Levels - l \in 1 .. Levels
    BY <1>6
  <2>2. /\ Walk(v)[l + 1] = IF Walk(v)[l] = Unset THEN Unset
                            ELSE mem[Walk(v)[l]][Index(v, Levels - l)]
        /\ Walk(v)'[l + 1] = IF Walk(v)'[l] = Unset THEN Unset
                             ELSE mem'[Walk(v)'[l]][Index(v, Levels - l)]
    BY <2>1, WalkFacts
  <2>3. Walk(v)'[l] = IF l = d + 1 /\ Here2 THEN p ELSE Walk(v)[l]
    BY <1>6
  <2>4. Index(v, Levels - l) \in Indices
    BY <2>1, IndexType
  <2>5. CASE l = d + 1 /\ Here2
    <3>1. Walk(v)'[l + 1] = Unset
      BY <2>2, <2>3, <2>4, <2>5 DEF Enters
    <3>2. Walk(v)[d + 1] = mem[table][Here]
      BY <1>1, <1>2, <2>5, WalkFacts DEF Here2
    <3>3. Walk(v)[l + 1] = Unset
      BY <2>2, <2>5, <3>2 DEF Enters
    <3>4. l + 1 # d + 1
      BY <1>1, <2>5
    <3> QED
      BY <2>1, <3>1, <3>3, <3>4
  <2>6. CASE ~(l = d + 1 /\ Here2)
    <3>1. Walk(v)'[l] = Walk(v)[l]
      BY <2>3, <2>6
    <3>2. CASE Walk(v)[l] = Unset
      <4>1. ~(l + 1 = d + 1 /\ Here2)
        BY <1>1, <2>1, <3>2 DEF Here2
      <4> QED
        BY <2>1, <2>2, <3>1, <3>2, <4>1
    <3>3. CASE Walk(v)[l] # Unset /\ l # d
      <4>1. Walk(v)[l] \in Pages /\ Walk(v)[l] # table /\ Walk(v)[l] # p
        BY <1>3, <1>4, <2>1, <3>3
      <4>2. Walk(v)'[l + 1] = Walk(v)[l + 1]
        BY <2>2, <3>1, <4>1 DEF Enters
      <4>3. l + 1 # d + 1
        BY <1>1, <2>1, <3>3
      <4> QED
        BY <2>1, <4>2, <4>3
    <3>4. CASE Walk(v)[l] # Unset /\ l = d
      <4>1. Walk(v)[d] \in Pages /\ Walk(v)[d] # p
        BY <1>3, <1>4, <2>1, <3>4
      <4>2. /\ Walk(v)'[l + 1] = mem'[Walk(v)[d]][Index(v, level)]
            /\ Walk(v)[l + 1] = mem[Walk(v)[d]][Index(v, level)]
            /\ Index(v, level) \in Indices
        BY <1>2, <2>2, <2>4, <3>1, <3>4
      <4>3. CASE Here2
        BY <2>1, <3>4, <4>2, <4>3 DEF Here2, Enters
      <4>4. CASE ~Here2
        <5>1. mem'[Walk(v)[d]][Index(v, level)] = mem[Walk(v)[d]][Index(v, level)]
          BY <4>1, <4>2, <4>4 DEF Here2, Enters
        <5> QED
          BY <2>1, <4>2, <4>4, <5>1
      <4> QED
        BY <4>3, <4>4
    <3> QED
      BY <3>2, <3>3, <3>4
  <2> QED
    BY <2>5, <2>6
<1>7. \A l \in 0 .. Levels : l \in S
  <2> HIDE DEF S
  <2> QED
    BY <1>5, <1>6, BoundedInduction
<1>8. ASSUME NEW l \in 0 .. Levels
      PROVE  Walk(v)'[l] = IF l = d + 1 /\ Walk(v)[l - 1] = table /\ Index(v, level) = Here
                           THEN p ELSE Walk(v)[l]
  <2>1. Walk(v)'[l] = IF l = d + 1 /\ Here2 THEN p ELSE Walk(v)[l]
    BY <1>7
  <2>2. l = d + 1 => l - 1 = d
    BY <1>1
  <2> QED
    BY <2>1, <2>2
<1> QED
  BY <1>8

LEMMA NewTableStep ==
  ASSUME PagingInv, FramesLeft, NewTable
  PROVE  PagingInv' /\ \A v \in VirtualPages : Translate(v)' = Translate(v)
<1> USE TablesAssumption
<1> DEFINE d == Levels - level
<1>1. PICK p \in free :
        /\ Enters(p)
        /\ table' = p /\ free' = free \ {p} /\ level' = level - 1 /\ todo' = todo
        /\ mem' \in [Pages -> [Indices -> Entry]]
  BY NewTableMemory
<1>2. todo # <<>> /\ level > 1 /\ level \in 1 .. Levels
  BY DEF NewTable, PagingInv, TypeOK
<1>3. /\ pml4_table # Unset /\ table \in Pages /\ d \in 0 .. (Levels - 1)
      /\ table \in TablesAt[d] /\ Here \in Indices /\ table # Unset
      /\ Virt \in VirtualPages /\ Here = Index(Virt, level)
  BY <1>2, AtTable DEF PagingInv, OnTheWay
<1>4. d + 1 \in 0 .. (Levels - 1) /\ d + 1 # Levels
  BY <1>2
<1>5. p \in Pages /\ p # Unset /\ p \in Frames /\ pml4_table' = pml4_table
  BY <1>1 DEF Enters, PagingInv, TypeOK
<1>6. TypeOK'
  <2>1. level' \in 1 .. Levels
    BY <1>1, <1>2
  <2> QED
    BY <1>1, <1>5, <2>1 DEF PagingInv, TypeOK, Entry
<1>7. \A l \in 0 .. (Levels - 1) :
        TablesAt'[l] = TablesAt[l] \cup (IF l = d + 1 THEN {p} ELSE {})
  BY <1>1, <1>2, NewTableTables
<1>8. \A l \in 0 .. (Levels - 1) : TablesAt[l] \subseteq Frames \ free /\ p \notin TablesAt[l]
  BY <1>1, <1>3, Apart DEF PagingInv, Enters
<1>9. TablesApart'
  <2>1. \A l \in 0 .. (Levels - 1) : TablesAt'[l] \subseteq Frames \ free'
    BY <1>1, <1>5, <1>7, <1>8
  <2>2. \A l, k \in 0 .. (Levels - 1) : l # k => TablesAt'[l] \cap TablesAt'[k] = {}
    BY <1>3, <1>7, <1>8, Apart DEF PagingInv
  <2>3. ASSUME NEW l \in 0 .. (Levels - 2), NEW t \in TablesAt'[l], NEW u \in TablesAt'[l],
               NEW ix \in Indices, NEW j \in Indices, mem'[t][ix] # Unset, mem'[t][ix] = mem'[u][j]
        PROVE  t = u /\ ix = j
    <3>1. \A q \in TablesAt'[l] : q = p \/ q \in TablesAt[l]
      BY <1>7
    <3>2. t # p /\ u # p
      BY <1>1, <2>3 DEF Enters
    <3>3. t \in TablesAt[l] /\ u \in TablesAt[l]
      BY <3>1, <3>2
    <3>4. ASSUME NEW q \in TablesAt[l], NEW k \in Indices
          PROVE  /\ q = table /\ k = Here => mem'[q][k] = p
                 /\ ~(q = table /\ k = Here) => mem'[q][k] = mem[q][k] /\ mem[q][k] # p
      <4>1. q = table /\ k = Here => mem'[q][k] = p
        BY <1>1 DEF Enters
      <4>2. ~(q = table /\ k = Here) => mem'[q][k] = mem[q][k]
        <5>1. q \in Pages /\ q # p
          <6>1. l \in 0 .. (Levels - 1)
            BY <2>3
          <6>2. TablesAt[l] \subseteq Pages /\ p \notin TablesAt[l]
            BY <1>8, <6>1
          <6> QED
            BY <3>4, <6>2
        <5> QED
          BY <1>1, <5>1 DEF Enters
      <4>3. mem[q][k] # p
        <5>1. TablesAt[l + 1] = {mem[x][y] : x \in TablesAt[l], y \in Indices} \ {Unset}
          BY TablesFacts DEF Entered
        <5>2. mem[q][k] = Unset \/ mem[q][k] \in TablesAt[l + 1]
          BY <5>1
        <5>3. l + 1 \in 0 .. (Levels - 1)
          OBVIOUS
        <5> QED
          BY <1>5, <1>8, <5>2, <5>3
      <4> QED
        BY <4>1, <4>2, <4>3
    <3>5. CASE t = table /\ ix = Here
      BY <2>3, <3>3, <3>4, <3>5
    <3>6. CASE ~(t = table /\ ix = Here)
      <4>1. mem'[t][ix] = mem[t][ix] /\ mem[t][ix] # p
        BY <3>3, <3>4, <3>6
      <4>2. ~(u = table /\ j = Here)
        BY <2>3, <3>3, <3>4, <4>1
      <4>3. mem'[u][j] = mem[u][j]
        BY <3>3, <3>4, <4>2
      <4>4. mem[t][ix] # Unset /\ mem[t][ix] = mem[u][j]
        BY <2>3, <4>1, <4>3
      <4> QED
        BY <1>3, <3>3, <4>4, Apart DEF PagingInv
    <3> QED
      BY <3>5, <3>6
  <2> QED
    BY <2>1, <2>2, <2>3 DEF TablesApart
<1>10. OnTheWay'
  <2>1. PICK v \in VirtualPages : v = Virt
    BY <1>3
  <2>2. Virt' = v /\ Levels - level' = d + 1 /\ level' # Levels
    BY <1>1, <1>2, <2>1 DEF Virt
  <2>3. Walk(v)[d] = table /\ Index(v, level) = Here
    BY <1>2, <1>3, <2>1, AtTable
  <2>4. Walk(v)'[d + 1] = p
    <3>1. d + 1 \in 0 .. Levels /\ d + 1 = Levels - level + 1 /\ (d + 1) - 1 = d
      BY <1>2, <1>4
    <3> HIDE DEF d
    <3> QED
      BY <1>1, <1>2, <2>3, <3>1, NewTableWalk
  <2>5. table' = WalkIn(mem', pml4_table', Virt')[Levels - level']
    BY <1>1, <2>2, <2>4, WalkIsWalkIn
  <2> QED
    BY <1>1, <1>2, <1>5, <2>2, <2>5 DEF OnTheWay
<1>11. ASSUME NEW v \in VirtualPages
       PROVE  Translate(v)' = Translate(v)
  <2>1. Levels \in 0 .. Levels /\ Levels # Levels - level + 1
    BY <1>2
  <2>2. Walk(v)'[Levels] = Walk(v)[Levels]
    BY <1>1, <1>2, <2>1, NewTableWalk
  <2> QED
    BY <2>2 DEF Translate
<1> QED
  BY <1>3, <1>5, <1>6, <1>9, <1>10, <1>11 DEF PagingInv

-----------------------------------------------------------------------------
(* The entry of a page: since no table is entered twice, no other page's    *)
(* way leads there.                                                         *)

LEMMA EnteredOnce ==
  ASSUME NEW m, NEW T, NEW x \in T, NEW y \in T, NEW ix \in Indices, NEW j \in Indices,
         \A a, b \in T : \A h, k \in Indices :
           (m[a][h] # Unset /\ m[a][h] = m[b][k]) => (a = b /\ h = k),
         m[x][ix] # Unset, m[x][ix] = m[y][j]
  PROVE  x = y /\ ix = j
  OBVIOUS

LEMMA WaysApart ==
  ASSUME TablesApart, pml4_table # Unset, NEW u \in VirtualPages, NEW v \in VirtualPages,
         Walk(u)[Levels - 1] = Walk(v)[Levels - 1], Walk(u)[Levels - 1] # Unset,
         Index(u, 1) = Index(v, 1)
  PROVE  u = v
<1> USE TablesAssumption
<1> DEFINE S == {n \in 0 .. (Levels - 1) :
                   /\ Walk(u)[Levels - 1 - n] = Walk(v)[Levels - 1 - n]
                   /\ Walk(u)[Levels - 1 - n] # Unset
                   /\ \A l \in 1 .. (n + 1) : Index(u, l) = Index(v, l)}
<1>1. 0 \in S
  <2>1. \A l \in 1 .. (0 + 1) : l = 1
    OBVIOUS
  <2>2. Levels - 1 - 0 = Levels - 1
    OBVIOUS
  <2> QED
    BY <2>1, <2>2
<1>2. ASSUME NEW n \in 0 .. (Levels - 1), n \in S, n < Levels - 1
      PROVE  n + 1 \in S
  <2> DEFINE k == Levels - 1 - (n + 1)
  <2>1. /\ k \in 0 .. (Levels - 2) /\ k \in 0 .. (Levels - 1) /\ k + 1 = Levels - 1 - n
        /\ Levels - k = n + 2 /\ n + 2 \in 1 .. Levels
    BY <1>2
  <2> HIDE DEF k
  <2>2. Walk(u)[k + 1] = Walk(v)[k + 1] /\ Walk(u)[k + 1] # Unset
    BY <1>2, <2>1
  <2>3. Walk(u)[k] # Unset /\ Walk(v)[k] # Unset
    BY <2>1, <2>2, WalkGoesOn
  <2>4. /\ Walk(u)[k + 1] = mem[Walk(u)[k]][Index(u, n + 2)]
        /\ Walk(v)[k + 1] = mem[Walk(v)[k]][Index(v, n + 2)]
    BY <2>1, <2>3, WalkFacts
  <2>5. Walk(u)[k] \in TablesAt[k] /\ Walk(v)[k] \in TablesAt[k]
    BY <2>1, <2>3, WalkStaysInTables
  <2>6. Index(u, n + 2) \in Indices /\ Index(v, n + 2) \in Indices
    BY <2>1, IndexType
  <2>7. Walk(u)[k] = Walk(v)[k] /\ Index(u, n + 2) = Index(v, n + 2)
    <3>1. \A x, y \in TablesAt[k] : \A ix, j \in Indices :
            (mem[x][ix] # Unset /\ mem[x][ix] = mem[y][j]) => (x = y /\ ix = j)
      BY <2>1, Apart
    <3>2. /\ mem[Walk(u)[k]][Index(u, n + 2)] # Unset
          /\ mem[Walk(u)[k]][Index(u, n + 2)] = mem[Walk(v)[k]][Index(v, n + 2)]
      BY <2>2, <2>4
    <3> QED
      BY <2>5, <2>6, <3>1, <3>2, EnteredOnce
  <2>8. \A l \in 1 .. (n + 1 + 1) : l \in 1 .. (n + 1) \/ l = n + 2
    BY <1>2
  <2>9. \A l \in 1 .. (n + 1 + 1) : Index(u, l) = Index(v, l)
    BY <1>2, <2>7, <2>8
  <2>10. Walk(u)[Levels - 1 - (n + 1)] = Walk(v)[Levels - 1 - (n + 1)]
         /\ Walk(u)[Levels - 1 - (n + 1)] # Unset
    BY <2>3, <2>7 DEF k
  <2> QED
    BY <1>2, <2>9, <2>10
<1>3. Levels - 1 \in S
  <2> HIDE DEF S
  <2>1. Levels - 1 \in Nat
    OBVIOUS
  <2> QED
    BY <1>1, <1>2, <2>1, BoundedInduction
<1>4. \A l \in 1 .. Levels : Index(u, l) = Index(v, l)
  BY <1>3
<1> QED
  BY <1>4, IndicesName

LEMMA SetEntryMemory ==
  ASSUME PagingInv, SetEntry
  PROVE  /\ level = 1 /\ todo # <<>> /\ pml4_table # Unset
         /\ table \in TablesAt[Levels - 1] /\ table \in Pages /\ Here \in Indices
         /\ table = Walk(Virt)[Levels - 1] /\ Here = Index(Virt, 1)
         /\ mem' \in [Pages -> [Indices -> Entry]]
         /\ mem'[table][Here] = Phys
         /\ \A ix \in Indices : ix # Here => mem'[table][ix] = mem[table][ix]
         /\ \A q \in Pages : q # table => mem'[q] = mem[q]
<1>1. level = 1 /\ todo # <<>> /\ mem' = [mem EXCEPT ![table][Here] = Phys]
  BY DEF SetEntry
<1>2. /\ pml4_table # Unset /\ table \in TablesAt[Levels - 1] /\ table \in Pages /\ Here \in Indices
      /\ table = Walk(Virt)[Levels - 1] /\ Here = Index(Virt, 1) /\ Phys \in Entry
  BY <1>1, AtTable DEF Entry
<1>3. mem \in [Pages -> [Indices -> Entry]]
  BY DEF PagingInv, TypeOK
<1> HIDE DEF Here, Phys, Virt
<1>4. /\ mem'[table] = [mem[table] EXCEPT ![Here] = Phys]
      /\ \A q \in Pages : q # table => mem'[q] = mem[q]
      /\ mem' \in [Pages -> [Indices -> Entry]]
  BY <1>1, <1>2, <1>3
<1>5. mem[table] \in [Indices -> Entry]
  BY <1>2, <1>3
<1> QED
  BY <1>1, <1>2, <1>4, <1>5

LEMMA SetEntryTables ==
  ASSUME PagingInv, SetEntry
  PROVE  \A l \in 0 .. (Levels - 1) : TablesAt'[l] = TablesAt[l]
<1> USE TablesAssumption
<1> DEFINE S == {l \in 0 .. (Levels - 1) : TablesAt'[l] = TablesAt[l]}
<1>1. 0 \in S
  <2>1. pml4_table' = pml4_table
    BY DEF SetEntry
  <2>2. TablesAt'[0] = TablesAt[0]
    BY <2>1, TablesFacts
  <2> QED
    BY <2>2
<1>2. ASSUME NEW l \in 0 .. (Levels - 1), l \in S, l < Levels - 1
      PROVE  l + 1 \in S
  <2>1. l \in 0 .. (Levels - 2) /\ l # Levels - 1
    BY <1>2
  <2>2. \A t \in TablesAt[l] : t \in Pages /\ t # table
    BY <1>2, <2>1, SetEntryMemory, Apart DEF PagingInv
  <2>3. \A t \in TablesAt[l] : mem'[t] = mem[t]
    BY <2>2, SetEntryMemory
  <2>4. Entered(mem', TablesAt[l]) = Entered(mem, TablesAt[l])
    BY <2>3 DEF Entered
  <2> QED
    BY <1>2, <2>1, <2>4, TablesFacts
<1> HIDE DEF S
<1>3. Levels - 1 \in Nat
  OBVIOUS
<1>4. \A l \in 0 .. (Levels - 1) : l \in S
  BY <1>1, <1>2, <1>3, BoundedInduction
<1> QED
  BY <1>4 DEF S

LEMMA SetEntryWalk ==
  ASSUME PagingInv, SetEntry, NEW v \in VirtualPages
  PROVE  /\ Walk(v)'[Levels - 1] = Walk(v)[Levels - 1]
         /\ Translate(v)' = IF v = Virt THEN Phys ELSE Translate(v)
<1> USE TablesAssumption
<1> DEFINE S == {l \in 0 .. (Levels - 1) : Walk(v)'[l] = Walk(v)[l]}
<1>1. 0 \in S
  BY WalkFacts DEF SetEntry
<1>2. \A l \in 0 .. (Levels - 1) : /\ Walk(v)[l] = Unset \/ Walk(v)[l] \in TablesAt[l]
                                   /\ TablesAt[l] \subseteq Pages
                                   /\ l # Levels - 1 => table \notin TablesAt[l]
  BY SetEntryMemory, WalkStaysInTables, Apart DEF PagingInv
<1>3. ASSUME NEW l \in 0 .. (Levels - 1), l \in S, l < Levels - 1
      PROVE  l + 1 \in S
  <2>1. Walk(v)[l] # Unset => mem'[Walk(v)[l]] = mem[Walk(v)[l]]
    BY <1>2, <1>3, SetEntryMemory
  <2>2. Walk(v)'[l + 1] = Walk(v)[l + 1]
    BY <1>3, <2>1, WalkFacts
  <2> QED
    BY <1>3, <2>2
<1>4. Walk(v)'[Levels - 1] = Walk(v)[Levels - 1]
  <2> HIDE DEF S
  <2>1. Levels - 1 \in Nat
    OBVIOUS
  <2>2. Levels - 1 \in S
    BY <1>1, <1>3, <2>1, BoundedInduction
  <2> QED
    BY <2>2 DEF S
<1> DEFINE t == Walk(v)[Levels - 1]
<1>5. /\ Translate(v) = IF t = Unset THEN Unset ELSE mem[t][Index(v, 1)]
      /\ Translate(v)' = IF t = Unset THEN Unset ELSE mem'[t][Index(v, 1)]
  <2>1. Levels - 1 \in 0 .. (Levels - 1) /\ (Levels - 1) + 1 = Levels /\ Levels - (Levels - 1) = 1
    OBVIOUS
  <2> QED
    BY <1>4, <2>1, WalkFacts DEF Translate
<1>6. Index(v, 1) \in Indices
  BY IndexType
<1>7. t = Unset \/ t \in Pages
  BY <1>2
<1>8. PICK w \in VirtualPages : w = Virt
  BY SetEntryMemory, HeadOfWork DEF PagingInv
<1>9. Walk(w)[Levels - 1] = table /\ Index(w, 1) = Here /\ table # Unset
  BY <1>8, SetEntryMemory DEF PagingInv, OnTheWay
<1>10. CASE v = w
  <2>1. t = table /\ Index(v, 1) = Here
    BY <1>9, <1>10
  <2>2. Translate(v)' = Phys
    BY <1>5, <1>9, <2>1, SetEntryMemory
  <2> QED
    BY <1>4, <1>8, <1>10, <2>2
<1>11. CASE v # w
  <2>1. ~(t = table /\ Index(v, 1) = Here)
    BY <1>9, <1>11, WaysApart, SetEntryMemory DEF PagingInv
  <2>2. t # Unset => mem'[t][Index(v, 1)] = mem[t][Index(v, 1)]
    BY <1>6, <1>7, <2>1, SetEntryMemory
  <2> QED
    BY <1>4, <1>5, <1>8, <1>11, <2>2
<1> QED
  BY <1>4, <1>8, <1>10, <1>11

LEMMA SetEntryStep ==
  ASSUME PagingInv, SetEntry
  PROVE  PagingInv'
<1> USE TablesAssumption
<1> DEFINE S == {r \in Ranges : r.size > 0}
<1>1. TypeOK /\ todo # <<>> /\ level' = Levels /\ table' = pml4_table /\ pml4_table' = pml4_table
      /\ free' = free
  BY DEF SetEntry, PagingInv
<1>2. todo' \in Seq(S)
  <2> DEFINE rest == [phys |-> Phys + 1, virt |-> Virt + 1, size |-> Head(todo).size - 1]
  <2>1. Head(todo) \in Ranges /\ Head(todo).size \in Nat \ {0} /\ Tail(todo) \in Seq(S)
    BY <1>1, HeadOfWork
  <2>2. CASE Head(todo).size = 1
    BY <2>1, <2>2 DEF SetEntry
  <2>3. CASE Head(todo).size # 1
    <3>1. rest \in S
      <4>1. PICK r \in Ranges : r = Head(todo)
        BY <2>1
      <4>2. /\ r.phys \in Pages /\ r.virt \in VirtualPages /\ r.size \in Nat /\ r.size > 1
            /\ r.phys + r.size <= PageCount /\ r.virt + r.size <= Span[Levels]
        BY <2>1, <2>3, <4>1 DEF Ranges
      <4>3. Levels \in 0 .. Levels /\ Span[Levels] \in Nat
        BY SpanValues
      <4>4. r.phys + 1 \in Pages /\ r.virt + 1 \in VirtualPages /\ r.size - 1 \in Nat
            /\ r.size - 1 > 0
        BY <4>2, <4>3 DEF Pages, VirtualPages
      <4>5. rest = [phys |-> r.phys + 1, virt |-> r.virt + 1, size |-> r.size - 1]
        BY <4>1 DEF Phys, Virt
      <4>6. /\ (r.phys + 1) + (r.size - 1) <= PageCount
            /\ (r.virt + 1) + (r.size - 1) <= Span[Levels]
        BY <4>2, <4>3 DEF Pages, VirtualPages
      <4> QED
        BY <4>4, <4>5, <4>6 DEF Ranges
    <3>2. todo' = <<rest>> \o Tail(todo)
      BY <2>3 DEF SetEntry
    <3> HIDE DEF rest, S
    <3>3. <<rest>> \in Seq(S)
      BY <3>1
    <3> QED
      BY <2>1, <3>2, <3>3, ConcatProperties
  <2> QED
    BY <2>2, <2>3
<1>3. TypeOK'
  BY <1>1, <1>2, SetEntryMemory DEF TypeOK
<1>4. OnTheWay'
  <2>1. Levels - level' = 0
    BY <1>1
  <2>2. WalkIn(mem', pml4_table', Virt')[0] = pml4_table'
    BY WalkValues
  <2>3. pml4_table # Unset
    BY SetEntryMemory
  <2> QED
    BY <1>1, <2>1, <2>2, <2>3 DEF OnTheWay
<1>5. TablesApart'
  <2>1. \A l \in 0 .. (Levels - 1) : TablesAt'[l] = TablesAt[l]
    BY SetEntryTables
  <2>2. /\ \A l \in 0 .. (Levels - 1) : TablesAt'[l] \subseteq Frames \ free'
        /\ \A l, k \in 0 .. (Levels - 1) : l # k => TablesAt'[l] \cap TablesAt'[k] = {}
    BY <1>1, <2>1, SetEntryMemory, Apart DEF PagingInv
  <2>3. ASSUME NEW l \in 0 .. (Levels - 2)
        PROVE  \A t \in TablesAt[l] : mem'[t] = mem[t]
    <3>1. l \in 0 .. (Levels - 1) /\ Levels - 1 \in 0 .. (Levels - 1) /\ l # Levels - 1
      OBVIOUS
    <3>2. \A t \in TablesAt[l] : t \in Pages /\ t # table
      BY <3>1, SetEntryMemory, Apart DEF PagingInv, Pages
    <3> QED
      BY <3>2, SetEntryMemory
  <2>4. \A l \in 0 .. (Levels - 2) : \A t, u \in TablesAt'[l] : \A ix, j \in Indices :
          (mem'[t][ix] # Unset /\ mem'[t][ix] = mem'[u][j]) => <<t, ix>> = <<u, j>>
    BY <2>1, <2>3, SetEntryMemory, Apart DEF PagingInv
  <2> QED
    BY <2>2, <2>4 DEF TablesApart
<1> QED
  BY <1>1, <1>3, <1>4, <1>5, SetEntryMemory DEF PagingInv

(* A step of Map changes what the processor sees at the page it sets.       *)
LEMMA MapStep ==
  ASSUME PagingInv, FramesLeft, Map
  PROVE  /\ PagingInv' /\ pml4_table # Unset /\ pml4_table' = pml4_table
         /\ \A v \in VirtualPages :
              Translate(v)' = IF SetEntry /\ v = Virt THEN Phys ELSE Translate(v)
<1>1. CASE Descend
  <2>1. ~SetEntry /\ pml4_table' = pml4_table /\ todo # <<>>
    BY <1>1 DEF Descend, SetEntry
  <2> QED
    BY <1>1, <2>1, DescendStep, AtTable
<1>2. CASE NewTable
  <2>1. ~SetEntry /\ pml4_table' = pml4_table /\ todo # <<>>
    BY <1>2 DEF NewTable, SetEntry
  <2> QED
    BY <1>2, <2>1, NewTableStep, AtTable
<1>3. CASE SetEntry
  <2>1. pml4_table' = pml4_table
    BY <1>3 DEF SetEntry
  <2> QED
    BY <1>3, <2>1, SetEntryStep, SetEntryWalk, SetEntryMemory
<1> QED
  BY <1>1, <1>2, <1>3 DEF Map

-----------------------------------------------------------------------------
(* The mapper on its own.                                                   *)

LEMMA PagingStarts == Init => PagingInv
<1> SUFFICES ASSUME Init PROVE PagingInv
  OBVIOUS
<1> USE TablesAssumption
<1>1. mem \in [Pages -> [Indices -> Entry]]
  BY DEF Init, Clear, Entry
<1>2. Unset \in Entry /\ Levels \in 1 .. Levels /\ <<>> \in Seq({r \in Ranges : r.size > 0})
  BY DEF Entry
<1>3. TypeOK
  BY <1>1, <1>2 DEF Init, TypeOK
<1>4. Nothing
  BY DEF Init, Nothing
<1> QED
  BY <1>3, <1>4 DEF Init, PagingInv, TablesApart

LEMMA RequestStep ==
  ASSUME PagingInv, NEW r \in Requests, MapRange(r)
  PROVE  PagingInv' /\ \A v : Translate(v)' = Translate(v)
<1>1. r \in Ranges
  BY TablesAssumption
<1>2. todo' \in Seq({q \in Ranges : q.size > 0})
  BY <1>1, WorkType DEF MapRange
<1> QED
  BY <1>2, CallStep DEF MapRange

LEMMA SameVars ==
  ASSUME PagingInv, UNCHANGED vars
  PROVE  PagingInv'
<1>1. TablesApart'
  BY StillApart DEF PagingInv, vars
<1>2. TypeOK' /\ Virt' = Virt
  BY DEF PagingInv, vars, TypeOK, Virt
<1> QED
  BY <1>1, <1>2 DEF PagingInv, vars, Nothing, OnTheWay

LEMMA PagingStep ==
  ASSUME CleanStarts, PagingInv, FramesLeft, [Next]_vars
  PROVE  PagingInv'
<1>1. CASE Install
  BY <1>1, InstallStep
<1>2. CASE Map
  BY <1>2, MapStep
<1>3. ASSUME NEW r \in Requests, MapRange(r)
      PROVE  PagingInv'
  BY <1>3, RequestStep
<1>4. CASE UNCHANGED vars
  BY <1>4, SameVars
<1> QED
  BY <1>1, <1>2, <1>3, <1>4 DEF Next

LEMMA PagingHolds == CleanStarts => (Spec /\ []FramesLeft => []PagingInv)
<1> SUFFICES ASSUME CleanStarts
             PROVE  Spec /\ []FramesLeft => []PagingInv
  OBVIOUS
<1>1. PagingInv /\ FramesLeft /\ [Next]_vars => PagingInv'
  BY PagingStep
<1> QED
  BY <1>1, PagingStarts, PTL DEF Spec

(* Every table is a page of its own, entered in one place: Map on its way   *)
(* down never meets a page that is not a table, or a table twice, however   *)
(* many levels, entries and pages there are and whatever MapRange is asked, *)
(* if the page of the PML4, which Install does not clear, was clear.        *)
THEOREM TablesStayApart == CleanStarts => (Spec /\ []FramesLeft => []TablesApart)
<1>1. PagingInv => TablesApart
  BY DEF PagingInv
<1> QED
  BY <1>1, PagingHolds, PTL

(* A step of the mapper changes the translation of the one page it was      *)
(* asked to map, and of no other.                                           *)
THEOREM MapsWhatIsAsked == CleanStarts => (Spec /\ []FramesLeft => MapsAsAsked)
<1> SUFFICES ASSUME CleanStarts
             PROVE  Spec /\ []FramesLeft => MapsAsAsked
  OBVIOUS
<1>1. ASSUME PagingInv, FramesLeft, [Next]_vars
      PROVE  [Translation' = IF SetEntry THEN [Translation EXCEPT ![Virt] = Phys]
                                         ELSE Translation]_vars
  <2>1. CASE Install
    <3>1. pml4_table = Unset /\ todo = <<>>
      BY <1>1, <2>1 DEF Install, PagingInv, Nothing
    <3>2. ~SetEntry
      BY <3>1 DEF SetEntry
    <3>3. \A v \in VirtualPages : Translate(v)' = Translate(v)
      BY <1>1, <2>1, <3>1, InstallStep, NothingMapped
    <3> QED
      BY <3>2, <3>3 DEF Translation
  <2>2. CASE Map
    <3>1. \A v \in VirtualPages :
            Translate(v)' = IF SetEntry /\ v = Virt THEN Phys ELSE Translate(v)
      BY <1>1, <2>2, MapStep
    <3>2. Translation' = [v \in VirtualPages |-> IF SetEntry /\ v = Virt THEN Phys ELSE Translate(v)]
      BY <3>1 DEF Translation
    <3>3. SetEntry => Virt \in VirtualPages
      BY <1>1, HeadOfWork DEF SetEntry, PagingInv
    <3> HIDE DEF Virt, Phys
    <3> QED
      BY <3>2, <3>3 DEF Translation
  <2>3. ASSUME NEW r \in Requests, MapRange(r)
        PROVE  Translation' = Translation /\ ~SetEntry
    <3>1. ~SetEntry
      BY <2>3 DEF MapRange, SetEntry
    <3>2. \A v \in VirtualPages : Translate(v)' = Translate(v)
      BY <1>1, <2>3, RequestStep
    <3> QED
      BY <3>1, <3>2 DEF Translation
  <2>4. CASE UNCHANGED vars
    BY <2>4
  <2> QED
    BY <1>1, <2>1, <2>2, <2>3, <2>4 DEF Next
<1> QED
  BY <1>1, PagingHolds, PTL DEF Spec, MapsAsAsked

-----------------------------------------------------------------------------
(* The handover.  A page keeps its translation when every call still under  *)
(* way that covers it maps it to the same page.                             *)

WantedBy(r, v) == IF v \in Block(r.virt, r.size) THEN {r.phys + (v - r.virt)} ELSE {}
Wanted(s, v) == UNION {WantedBy(s[n], v) : n \in DOMAIN s}

(* v is mapped to p, or will be once the calls under way are done.          *)
Settles(v, p) ==
  /\ Wanted(todo, v) \subseteq {p}
  /\ Translate(v) = p \/ Wanted(todo, v) # {}

(* Page k of section i is in page p and will be found there.                *)
Placed(ix, k, p) ==
  /\ p \in Pages \ free
  /\ data[p] = Content(ix, k)
  /\ Settles(Sections[ix].addr + k, p)

SectionsPlaced ==
  \A ix \in 1 .. section : Sections[ix].type \in InMemory =>
    \A k \in 0 .. (Sections[ix].size - 1) : \E p \in Pages : Placed(ix, k, p)

EntryFound ==
  entry # 0 =>
    /\ \E ix \in 1 .. section :
         /\ Sections[ix].type \in InMemory
         /\ EntryPoint \in Block(Sections[ix].addr, Sections[ix].size)
    /\ entry \in Frames
    /\ Settles(EntryPoint, entry) /\ Settles(entry, entry)

ImagesStay ==
  /\ phase \in {"initrd", "acpi", "find", "elf", "handoff", "kernel"} =>
       \A v \in Block(Loader.first, Loader.size) : Settles(v, v)
  /\ phase \in {"acpi", "find", "elf", "handoff", "kernel"} =>
       \A v \in Block(RamDisk.first, RamDisk.size) : Settles(v, v)

InOrder ==
  /\ phase = "install" <=> pml4_table = Unset
  /\ phase = "install" => section = 0 /\ entry = 0
  /\ phase \in {"handoff", "kernel"} => todo = <<>> /\ section = Len(Sections) /\ entry # 0

HandoverInv ==
  /\ PagingInv
  /\ LoadTypeOK
  /\ InOrder
  /\ ImagesStay
  /\ SectionsPlaced
  /\ EntryFound

LEMMA WantedConcat ==
  ASSUME NEW S, NEW s \in Seq(S), NEW t \in Seq(S), NEW v
  PROVE  Wanted(s \o t, v) = Wanted(s, v) \cup Wanted(t, v)
<1>1. /\ Len(s) \in Nat /\ Len(t) \in Nat
      /\ DOMAIN s = 1 .. Len(s) /\ DOMAIN t = 1 .. Len(t)
      /\ DOMAIN (s \o t) = 1 .. (Len(s) + Len(t))
      /\ \A n \in 1 .. (Len(s) + Len(t)) :
           (s \o t)[n] = IF n <= Len(s) THEN s[n] ELSE t[n - Len(s)]
  BY ConcatProperties, LenProperties
<1>2. ASSUME NEW n \in DOMAIN (s \o t)
      PROVE  WantedBy((s \o t)[n], v) \subseteq Wanted(s, v) \cup Wanted(t, v)
  <2>1. CASE n <= Len(s)
    <3>1. n \in DOMAIN s /\ (s \o t)[n] = s[n]
      BY <1>1, <1>2, <2>1
    <3> QED
      BY <3>1 DEF Wanted
  <2>2. CASE ~(n <= Len(s))
    <3>1. n - Len(s) \in DOMAIN t /\ (s \o t)[n] = t[n - Len(s)]
      BY <1>1, <1>2, <2>2
    <3> QED
      BY <3>1 DEF Wanted
  <2> QED
    BY <2>1, <2>2
<1>3. ASSUME NEW n \in DOMAIN s
      PROVE  WantedBy(s[n], v) \subseteq Wanted(s \o t, v)
  <2>1. n \in DOMAIN (s \o t) /\ (s \o t)[n] = s[n]
    BY <1>1
  <2> QED
    BY <2>1 DEF Wanted
<1>4. ASSUME NEW n \in DOMAIN t
      PROVE  WantedBy(t[n], v) \subseteq Wanted(s \o t, v)
  <2>1. Len(s) + n \in DOMAIN (s \o t) /\ (s \o t)[Len(s) + n] = t[n]
    BY <1>1
  <2> QED
    BY <2>1 DEF Wanted
<1> QED
  BY <1>2, <1>3, <1>4 DEF Wanted

LEMMA WantedOne ==
  ASSUME NEW r, NEW v
  PROVE  Wanted(<<r>>, v) = WantedBy(r, v) /\ Wanted(<<>>, v) = {}
<1>1. DOMAIN <<r>> = {1} /\ <<r>>[1] = r
  OBVIOUS
<1>2. DOMAIN <<>> = {}
  OBVIOUS
<1> HIDE DEF WantedBy
<1>3. Wanted(<<r>>, v) = WantedBy(r, v)
  BY <1>1 DEF Wanted
<1> QED
  BY <1>2, <1>3 DEF Wanted

LEMMA WantedCons ==
  ASSUME NEW S, NEW r \in S, NEW t \in Seq(S), NEW v
  PROVE  Wanted(<<r>> \o t, v) = WantedBy(r, v) \cup Wanted(t, v)
<1>1. <<r>> \in Seq(S)
  OBVIOUS
<1> DEFINE s == <<r>>
<1>2. s \in Seq(S) /\ Wanted(s, v) = WantedBy(r, v)
  BY <1>1, WantedOne
<1> HIDE DEF s
<1>3. Wanted(s \o t, v) = Wanted(s, v) \cup Wanted(t, v)
  BY <1>2, WantedConcat
<1> QED
  BY <1>2, <1>3 DEF s

LEMMA WantedWork ==
  ASSUME NEW r \in Ranges, NEW v
  PROVE  Wanted(Work(r), v) = WantedBy(r, v)
<1>1. CASE r.size > 0
  BY <1>1, WantedOne DEF Work
<1>2. CASE ~(r.size > 0)
  <2>1. Block(r.virt, r.size) = {}
    BY <1>2 DEF Ranges, Block, VirtualPages
  <2> QED
    BY <1>2, <2>1, WantedOne DEF Work, WantedBy
<1> QED
  BY <1>1, <1>2

LEMMA SetEntryWanted ==
  ASSUME PagingInv, SetEntry, NEW v \in VirtualPages
  PROVE  Wanted(todo, v) = (IF v = Virt THEN {Phys} ELSE {}) \cup Wanted(todo', v)
<1> DEFINE S == {r \in Ranges : r.size > 0}
           rest == [phys |-> Phys + 1, virt |-> Virt + 1, size |-> Head(todo).size - 1]
<1>1. /\ todo # <<>> /\ todo \in Seq(S) /\ Head(todo) \in Ranges /\ Tail(todo) \in Seq(S)
      /\ Head(todo).size \in Nat \ {0}
  BY HeadOfWork DEF SetEntry, PagingInv, TypeOK
<1>2. Wanted(todo, v) = WantedBy(Head(todo), v) \cup Wanted(Tail(todo), v)
  <2>1. Head(todo) \in S
    BY <1>1
  <2> HIDE DEF S
  <2>2. PICK h \in S, s \in Seq(S) : h = Head(todo) /\ s = Tail(todo)
    BY <1>1, <2>1
  <2>3. todo = <<h>> \o s
    BY <1>1, <2>2
  <2>4. Wanted(<<h>> \o s, v) = WantedBy(h, v) \cup Wanted(s, v)
    BY WantedCons
  <2> QED
    BY <2>2, <2>3, <2>4
<1>3. PICK r \in Ranges : r = Head(todo)
  BY <1>1
<1>4. r.phys \in Nat /\ r.virt \in Nat /\ r.size \in Nat \ {0} /\ v \in Nat
      /\ Phys = r.phys /\ Virt = r.virt
  BY <1>1, <1>3, SpanValues DEF Ranges, Pages, VirtualPages, Phys, Virt
<1>5. CASE r.size = 1
  <2>1. WantedBy(r, v) = IF v = Virt THEN {Phys} ELSE {}
    <3>1. v \in Block(r.virt, r.size) <=> v = r.virt
      BY <1>4, <1>5 DEF Block
    <3>2. r.phys + (r.virt - r.virt) = r.phys
      BY <1>4
    <3> QED
      BY <1>4, <3>1, <3>2 DEF WantedBy
  <2>2. todo' = Tail(todo)
    BY <1>3, <1>5 DEF SetEntry
  <2> QED
    BY <1>2, <1>3, <2>1, <2>2
<1>6. CASE r.size # 1
  <2>1. todo' = <<rest>> \o Tail(todo)
    BY <1>3, <1>6 DEF SetEntry
  <2>2. rest = [phys |-> r.phys + 1, virt |-> r.virt + 1, size |-> r.size - 1]
    BY <1>3, <1>4
  <2>3. WantedBy(r, v) = (IF v = Virt THEN {Phys} ELSE {}) \cup WantedBy(rest, v)
    <3>1. CASE v = r.virt
      <4>1. WantedBy(r, v) = {r.phys}
        BY <1>4, <3>1 DEF WantedBy, Block
      <4>2. WantedBy(rest, v) = {}
        BY <1>4, <2>2, <3>1 DEF WantedBy, Block
      <4> QED
        BY <1>4, <3>1, <4>1, <4>2
    <3>2. CASE v # r.virt
      <4>1. v \in Block(r.virt, r.size) <=> v \in Block(r.virt + 1, r.size - 1)
        BY <1>4, <3>2 DEF Block
      <4>2. r.phys + (v - r.virt) = (r.phys + 1) + (v - (r.virt + 1))
        BY <1>4
      <4> QED
        BY <1>4, <2>2, <3>2, <4>1, <4>2 DEF WantedBy
    <3> QED
      BY <3>1, <3>2
  <2>4. Wanted(todo', v) = WantedBy(rest, v) \cup Wanted(Tail(todo), v)
    <3> DEFINE A == S \cup {rest}
    <3>1. Tail(todo) \in Seq(A) /\ rest \in A
      <4> HIDE DEF S, rest
      <4>1. \A n \in 1 .. Len(Tail(todo)) : Tail(todo)[n] \in A
        BY <1>1, ElementOfSeq
      <4>2. Tail(todo) \in Seq(A)
        BY <1>1, <4>1, SeqDef
      <4> QED
        BY <4>2
    <3> HIDE DEF A, rest
    <3>2. PICK q \in A, s \in Seq(A) : q = rest /\ s = Tail(todo)
      BY <3>1
    <3>3. Wanted(<<q>> \o s, v) = WantedBy(q, v) \cup Wanted(s, v)
      BY WantedCons
    <3> QED
      BY <2>1, <3>2, <3>3
  <2> QED
    BY <1>2, <1>3, <2>3, <2>4
<1> QED
  BY <1>5, <1>6

(* A step of Map settles nothing otherwise.                                 *)
LEMMA MapSettles ==
  ASSUME PagingInv, FramesLeft, Map, NEW v \in VirtualPages, NEW p, Settles(v, p)
  PROVE  Settles(v, p)'
<1>1. Translate(v)' = IF SetEntry /\ v = Virt THEN Phys ELSE Translate(v)
  BY MapStep
<1>2. CASE SetEntry
  <2>1. Wanted(todo, v) = (IF v = Virt THEN {Phys} ELSE {}) \cup Wanted(todo', v)
    BY <1>2, SetEntryWanted
  <2> QED
    BY <1>1, <1>2, <2>1 DEF Settles
<1>3. CASE ~SetEntry
  <2>1. todo' = todo
    BY <1>3 DEF Map, Descend, NewTable
  <2> QED
    BY <1>1, <1>3, <2>1 DEF Settles
<1> QED
  BY <1>2, <1>3

(* A new call that does not cover v, or agrees with what v is mapped to.    *)
LEMMA CallSettles ==
  ASSUME todo = <<>>, NEW v, NEW p, Settles(v, p), Translate(v)' = Translate(v),
         Wanted(todo', v) \subseteq {p}
  PROVE  Settles(v, p)'
<1>1. Translate(v) = p
  BY WantedOne DEF Settles
<1> QED
  BY <1>1 DEF Settles

LEMMA Settled ==
  ASSUME todo = <<>>, NEW v, NEW p, Settles(v, p)
  PROVE  Translate(v) = p
  BY WantedOne DEF Settles

(* Where the images and the sections are.                                   *)
LEMMA PagesAreVirtual == Pages \subseteq VirtualPages
  BY ImagesAssumption, TablesAssumption, SpanValues DEF Pages, VirtualPages

LEMMA OneToOneRange ==
  ASSUME NEW q \in Pages, NEW n \in Nat, q + n <= PageCount
  PROVE  /\ OneToOne([first |-> q, size |-> n]) \in Ranges
         /\ Block(q, n) \subseteq Pages
         /\ \A v \in VirtualPages :
              WantedBy(OneToOne([first |-> q, size |-> n]), v) = IF v \in Block(q, n) THEN {v} ELSE {}
<1>1. q \in VirtualPages /\ q \in Nat /\ Levels \in 0 .. Levels /\ Span[Levels] \in Nat
      /\ PageCount \in Nat
  BY PagesAreVirtual, TablesAssumption, SpanValues DEF Pages
<1>2. q + n <= Span[Levels]
  BY <1>1, ImagesAssumption
<1>3. OneToOne([first |-> q, size |-> n]) = [phys |-> q, virt |-> q, size |-> n]
  BY DEF OneToOne
<1>4. [phys |-> q, virt |-> q, size |-> n] \in Ranges
  BY <1>1, <1>2 DEF Ranges
<1>5. Block(q, n) \subseteq Pages
  BY <1>1 DEF Block, Pages
<1>6. ASSUME NEW v \in VirtualPages
      PROVE  q + (v - q) = v
  BY <1>1, SpanValues DEF VirtualPages
<1>7. ASSUME NEW v \in VirtualPages
      PROVE  WantedBy([phys |-> q, virt |-> q, size |-> n], v) = IF v \in Block(q, n) THEN {v} ELSE {}
  BY <1>6 DEF WantedBy
<1> QED
  BY <1>3, <1>4, <1>5, <1>7

LEMMA ImagePages ==
  ASSUME NEW image \in {Loader, RamDisk}
  PROVE  /\ OneToOne(image) \in Ranges
         /\ Block(image.first, image.size) \subseteq Pages
         /\ \A v \in VirtualPages :
              WantedBy(OneToOne(image), v) = IF v \in Block(image.first, image.size) THEN {v} ELSE {}
<1>1. /\ image \in [first : Pages, size : Nat] /\ image.first + image.size <= PageCount
  BY ImagesAssumption
<1>2. image = [first |-> image.first, size |-> image.size]
  BY <1>1
<1>3. image.first \in Pages /\ image.size \in Nat
  BY <1>1
<1> QED
  BY <1>1, <1>2, <1>3, OneToOneRange

LEMMA SectionPages ==
  ASSUME NEW ix \in DOMAIN Sections, Sections[ix].type \in InMemory
  PROVE  /\ Block(Sections[ix].addr, Sections[ix].size) \subseteq VirtualPages
         /\ Sections[ix].addr \in VirtualPages /\ Sections[ix].size \in Nat
         /\ Sections[ix].addr + Sections[ix].size <= Span[Levels]
         /\ \A k \in 0 .. (Sections[ix].size - 1) :
              Sections[ix].addr + k \in Block(Sections[ix].addr, Sections[ix].size)
         /\ \A v \in Block(Sections[ix].addr, Sections[ix].size) :
              /\ v \notin Frames
              /\ v \notin Block(Loader.first, Loader.size)
              /\ v \notin Block(RamDisk.first, RamDisk.size)
              /\ \A j \in DOMAIN Sections :
                   ix # j /\ Sections[j].type \in InMemory
                     => v \notin Block(Sections[j].addr, Sections[j].size)
<1>1. Sections[ix] \in [type : {"PROGBITS", "NOBITS", "other"}, addr : VirtualPages, size : Nat]
  <2> DEFINE S == [type : {"PROGBITS", "NOBITS", "other"}, addr : VirtualPages, size : Nat]
  <2>1. Sections \in Seq(S)
    BY SectionsAssumption
  <2> HIDE DEF S
  <2>2. ix \in 1 .. Len(Sections)
    BY <2>1, LenProperties
  <2>3. Sections[ix] \in S
    BY <2>1, <2>2, ElementOfSeq
  <2> QED
    BY <2>3 DEF S
<1>2. Sections[ix].addr + Sections[ix].size <= Span[Levels]
  BY SectionsAssumption
<1>3. Sections[ix].addr \in Nat /\ Sections[ix].size \in Nat /\ Levels \in 0 .. Levels
      /\ Span[Levels] \in Nat
  BY <1>1, SpanValues, TablesAssumption DEF VirtualPages
<1>4. Block(Sections[ix].addr, Sections[ix].size) \subseteq VirtualPages
  BY <1>2, <1>3 DEF Block, VirtualPages
<1>5. \A k \in 0 .. (Sections[ix].size - 1) :
        Sections[ix].addr + k \in Block(Sections[ix].addr, Sections[ix].size)
  BY <1>3 DEF Block
<1>6. \A v \in Block(Sections[ix].addr, Sections[ix].size) :
        /\ v \notin Frames
        /\ v \notin Block(Loader.first, Loader.size)
        /\ v \notin Block(RamDisk.first, RamDisk.size)
        /\ \A j \in DOMAIN Sections :
             ix # j /\ Sections[j].type \in InMemory
               => v \notin Block(Sections[j].addr, Sections[j].size)
  BY LinkAssumption
<1> QED
  BY <1>1, <1>2, <1>4, <1>5, <1>6

(* What is placed stays so in a step that moves none of it.                 *)
LEMMA StaysPlaced ==
  ASSUME HandoverInv, section' = section, entry' \in {entry, 0}, free' \subseteq free,
         \A q \in Pages \ free : data'[q] = data[q],
         \A v \in VirtualPages, p \in Pages :
           /\ \/ v = p
              \/ v \notin Block(Loader.first, Loader.size) \cup Block(RamDisk.first, RamDisk.size)
           /\ Settles(v, p)
           => Settles(v, p)'
  PROVE  SectionsPlaced' /\ EntryFound'
<1>1. section \in 0 .. Len(Sections) /\ DOMAIN Sections = 1 .. Len(Sections)
  BY SectionsAssumption, LenProperties DEF HandoverInv, LoadTypeOK
<1>2. 1 .. section \subseteq DOMAIN Sections
  BY <1>1
<1>3. ASSUME NEW ix \in 1 .. section, Sections[ix].type \in InMemory,
             NEW k \in 0 .. (Sections[ix].size - 1)
      PROVE  \E p \in Pages : Placed(ix, k, p)'
  <2>1. PICK p \in Pages : Placed(ix, k, p)
    BY <1>3 DEF HandoverInv, SectionsPlaced
  <2>2. /\ Sections[ix].addr + k \in VirtualPages
        /\ Sections[ix].addr + k
             \notin Block(Loader.first, Loader.size) \cup Block(RamDisk.first, RamDisk.size)
    BY <1>2, <1>3, SectionPages
  <2>3. Settles(Sections[ix].addr + k, p)'
    BY <2>1, <2>2 DEF Placed
  <2>4. p \in Pages \ free' /\ data'[p] = Content(ix, k)
    BY <2>1 DEF Placed
  <2> QED
    BY <2>3, <2>4 DEF Placed
<1>4. SectionsPlaced'
  BY <1>3 DEF SectionsPlaced
<1>5. ASSUME entry' # 0
      PROVE  /\ \E ix \in 1 .. section' :
                  /\ Sections[ix].type \in InMemory
                  /\ EntryPoint \in Block(Sections[ix].addr, Sections[ix].size)
             /\ entry' \in Frames
             /\ Settles(EntryPoint, entry)' /\ Settles(entry, entry)'
  <2>1. entry # 0 /\ entry' = entry
    BY <1>5
  <2>2. PICK ix \in 1 .. section :
          /\ Sections[ix].type \in InMemory
          /\ EntryPoint \in Block(Sections[ix].addr, Sections[ix].size)
    BY <2>1 DEF HandoverInv, EntryFound
  <2>3. PICK e \in Frames : e = entry
    BY <2>1 DEF HandoverInv, EntryFound
  <2>4. /\ EntryPoint \in VirtualPages
        /\ EntryPoint \notin Block(Loader.first, Loader.size) \cup Block(RamDisk.first, RamDisk.size)
    BY <1>2, <2>2, SectionPages
  <2>5. e \in Pages /\ e \in VirtualPages
    BY TablesAssumption, PagesAreVirtual
  <2>6. Settles(EntryPoint, e) /\ Settles(e, e)
    BY <2>1, <2>3 DEF HandoverInv, EntryFound
  <2>7. Settles(EntryPoint, e)' /\ Settles(e, e)'
    BY <2>4, <2>5, <2>6
  <2>8. Settles(EntryPoint, entry)' /\ Settles(entry, entry)'
    BY <2>1, <2>3, <2>7 DEF Settles
  <2> QED
    BY <2>1, <2>2, <2>3, <2>8
<1>6. EntryFound'
  BY <1>5 DEF EntryFound
<1> QED
  BY <1>4, <1>6

LEMMA SameSettles ==
  ASSUME UNCHANGED vars, NEW v, NEW p
  PROVE  Settles(v, p)' = Settles(v, p)
<1>1. Translate(v)' = Translate(v) /\ todo' = todo
  BY SameTables DEF vars
<1> QED
  BY <1>1 DEF Settles

(* Steps of kmain in which no table changes and no call is made.            *)
LEMMA QuietStep ==
  ASSUME HandoverInv, UNCHANGED vars, UNCHANGED <<section, data>>, entry' \in {entry, 0},
         phase' \in Phases, InOrder',
         phase' \in {"initrd", "acpi", "find", "elf", "handoff", "kernel"} =>
           phase \in {"initrd", "acpi", "find", "elf", "handoff", "kernel"},
         phase' \in {"acpi", "find", "elf", "handoff", "kernel"} =>
           phase \in {"acpi", "find", "elf", "handoff", "kernel"}
  PROVE  HandoverInv'
<1>1. PagingInv'
  BY SameVars DEF HandoverInv
<1>2. LoadTypeOK'
  BY <1>1, TablesAssumption DEF HandoverInv, LoadTypeOK, PagingInv, Pages
<1>3. ImagesStay'
  BY SameSettles DEF HandoverInv, ImagesStay
<1>4. free' = free
  BY DEF vars
<1>5. SectionsPlaced' /\ EntryFound'
  BY <1>4, SameSettles, StaysPlaced
<1> QED
  BY <1>1, <1>2, <1>3, <1>5 DEF HandoverInv

LEMMA ImageStep ==
  ASSUME HandoverInv, todo = <<>>, phase # "install", NEW image \in {Loader, RamDisk},
         Calls(OneToOne(image)), UNCHANGED <<section, entry, data>>,
         phase' \in {"initrd", "acpi"},
         phase' = "initrd" => image = Loader,
         phase' = "acpi" => image = RamDisk /\ phase = "initrd"
  PROVE  HandoverInv'
<1>1. /\ pml4_table # Unset /\ UNCHANGED <<mem, free, pml4_table, level, table>>
      /\ todo' = Work(OneToOne(image))
  BY DEF HandoverInv, InOrder, Calls
<1>2. todo' \in Seq({r \in Ranges : r.size > 0})
  BY <1>1, ImagePages, WorkType
<1>3. PagingInv' /\ \A v : Translate(v)' = Translate(v)
  BY <1>1, <1>2, CallStep DEF HandoverInv
<1>4. \A v \in VirtualPages :
        Wanted(todo', v) = IF v \in Block(image.first, image.size) THEN {v} ELSE {}
  BY <1>1, ImagePages, WantedWork
<1>5. ASSUME NEW v \in VirtualPages, NEW p, v = p \/ v \notin Block(image.first, image.size),
             Settles(v, p)
      PROVE  Settles(v, p)'
  BY <1>3, <1>4, <1>5, CallSettles
<1>6. Block(image.first, image.size) \subseteq VirtualPages
  BY ImagePages, PagesAreVirtual
<1>7. \A v \in Block(image.first, image.size) : Settles(v, v)'
  BY <1>4, <1>6 DEF Settles
<1>8. SectionsPlaced' /\ EntryFound'
  <2>1. \A v \in VirtualPages, p \in Pages :
          /\ \/ v = p
             \/ v \notin Block(Loader.first, Loader.size) \cup Block(RamDisk.first, RamDisk.size)
          /\ Settles(v, p)
          => Settles(v, p)'
    BY <1>5
  <2> QED
    BY <1>1, <2>1, StaysPlaced
<1>9. ImagesStay'
  <2>1. CASE phase' = "initrd"
    BY <1>7, <2>1 DEF ImagesStay
  <2>2. CASE phase' = "acpi"
    <3>1. \A v \in Block(Loader.first, Loader.size) : v \in VirtualPages /\ Settles(v, v)
      BY <2>2, ImagePages, PagesAreVirtual DEF HandoverInv, ImagesStay
    <3>2. \A v \in Block(Loader.first, Loader.size) : Settles(v, v)'
      BY <1>5, <3>1
    <3> QED
      BY <1>7, <2>2, <3>2 DEF ImagesStay
  <2> QED
    BY <2>1, <2>2
<1>10. LoadTypeOK' /\ InOrder'
  BY <1>1, <1>3 DEF HandoverInv, LoadTypeOK, InOrder, PagingInv, Phases
<1> QED
  BY <1>3, <1>8, <1>9, <1>10 DEF HandoverInv

LEMMA InstallTablesStep ==
  ASSUME CleanStarts, FramesLeft, HandoverInv, InstallTables
  PROVE  HandoverInv'
<1>1. /\ phase = "install" /\ Install /\ phase' = "loader" /\ section' = 0 /\ entry' = 0
      /\ data' = data
  BY DEF InstallTables, At, HandoverInv, InOrder
<1>2. PagingInv'
  BY <1>1, InstallStep DEF HandoverInv
<1>3. pml4_table' # Unset
  BY <1>1, <1>2, InstallStep, TablesAssumption DEF HandoverInv, PagingInv, Nothing, Install,
     AllocPage, FramesLeft, Starts, TypeOK, Pages
<1>4. LoadTypeOK'
  BY <1>1, <1>2, TablesAssumption DEF HandoverInv, LoadTypeOK, PagingInv, Phases, Pages
<1>5. InOrder' /\ ImagesStay' /\ SectionsPlaced' /\ EntryFound'
  BY <1>1, <1>3 DEF InOrder, ImagesStay, SectionsPlaced, EntryFound
<1> QED
  BY <1>2, <1>4, <1>5 DEF HandoverInv

LEMMA MapPageStep ==
  ASSUME FramesLeft, HandoverInv, MapPage
  PROVE  HandoverInv'
<1>1. /\ Map /\ UNCHANGED <<phase, section, entry>> /\ todo # <<>>
      /\ data' = IF free' = free THEN data ELSE [data EXCEPT ![table'] = NoData]
  BY DEF MapPage, Map, Descend, NewTable, SetEntry
<1>2. PagingInv' /\ pml4_table # Unset /\ pml4_table' = pml4_table
  BY <1>1, MapStep DEF HandoverInv
<1>3. ASSUME NEW v \in VirtualPages, NEW p, Settles(v, p)
      PROVE  Settles(v, p)'
  BY <1>1, <1>3, MapSettles DEF HandoverInv
<1>4. free' \subseteq free /\ (free' # free => table' \in free)
  <2>1. CASE NewTable
    BY <2>1, NewTableMemory DEF HandoverInv
  <2>2. CASE Descend \/ SetEntry
    BY <2>2 DEF Descend, SetEntry
  <2> QED
    BY <1>1, <2>1, <2>2 DEF Map
<1>5. /\ data' \in [Pages -> {NoData, Zeroes} \cup ((DOMAIN Sections) \X Nat)]
      /\ \A q \in Pages \ free : data'[q] = data[q]
  <2>1. data \in [Pages -> {NoData, Zeroes} \cup ((DOMAIN Sections) \X Nat)]
    BY DEF HandoverInv, LoadTypeOK
  <2>2. NoData \in {NoData, Zeroes} \cup ((DOMAIN Sections) \X Nat)
    OBVIOUS
  <2>3. CASE free' = free
    BY <1>1, <2>1, <2>3
  <2>4. CASE free' # free
    <3>1. data' = [data EXCEPT ![table'] = NoData] /\ table' \in free
      BY <1>1, <1>4, <2>4
    <3> HIDE DEF NoData
    <3> QED
      BY <2>1, <2>2, <3>1
  <2> QED
    BY <2>3, <2>4
<1>6. SectionsPlaced' /\ EntryFound'
  BY <1>1, <1>3, <1>4, <1>5, StaysPlaced
<1>7. ImagesStay'
  <2>1. /\ Block(Loader.first, Loader.size) \subseteq VirtualPages
        /\ Block(RamDisk.first, RamDisk.size) \subseteq VirtualPages
    BY ImagePages, PagesAreVirtual
  <2> QED
    BY <1>1, <1>3, <2>1 DEF HandoverInv, ImagesStay
<1>8. LoadTypeOK' /\ InOrder'
  BY <1>1, <1>2, <1>5 DEF HandoverInv, LoadTypeOK, InOrder, PagingInv
<1> QED
  BY <1>2, <1>6, <1>7, <1>8 DEF HandoverInv

LEMMA SkipSectionStep ==
  ASSUME HandoverInv, SkipSection
  PROVE  HandoverInv'
<1>1. /\ UNCHANGED vars /\ UNCHANGED <<phase, entry, data>> /\ phase = "elf"
      /\ section < Len(Sections) /\ section' = section + 1
      /\ Sections[section + 1].type \notin InMemory
  BY DEF SkipSection, At, Current
<1>2. section \in 0 .. Len(Sections) /\ Len(Sections) \in Nat
  BY SectionsAssumption, LenProperties DEF HandoverInv, LoadTypeOK
<1>3. \A ix \in 1 .. section' : ix \in 1 .. section \/ Sections[ix].type \notin InMemory
  BY <1>1, <1>2
<1>4. PagingInv'
  BY <1>1, SameVars DEF HandoverInv
<1>5. LoadTypeOK' /\ InOrder'
  <2>1. section' \in 0 .. Len(Sections)
    BY <1>1, <1>2
  <2> QED
    BY <1>1, <1>4, <2>1 DEF HandoverInv, LoadTypeOK, InOrder, PagingInv, vars
<1>6. ImagesStay'
  BY <1>1, SameSettles DEF HandoverInv, ImagesStay
<1>7. SectionsPlaced'
  <2>1. \A ix, k, p : Placed(ix, k, p) => Placed(ix, k, p)'
    BY <1>1, SameSettles DEF Placed, vars
  <2> QED
    BY <1>3, <2>1 DEF HandoverInv, SectionsPlaced
<1>8. EntryFound'
  <2>1. 1 .. section \subseteq 1 .. section'
    BY <1>1, <1>2
  <2>2. /\ Settles(EntryPoint, entry)' = Settles(EntryPoint, entry)
        /\ Settles(entry, entry)' = Settles(entry, entry)
    BY <1>1, SameTables DEF Settles, vars
  <2> QED
    BY <1>1, <2>1, <2>2 DEF HandoverInv, EntryFound
<1> QED
  BY <1>4, <1>5, <1>6, <1>7, <1>8 DEF HandoverInv

(* A section gets pages of its own.                                         *)
LEMMA LoadSectionStep ==
  ASSUME HandoverInv, LoadSection
  PROVE  HandoverInv'
<1>1. /\ phase = "elf" /\ phase' = phase /\ todo = <<>> /\ section < Len(Sections)
      /\ section' = section + 1 /\ Sections[section + 1].type \in InMemory
      /\ UNCHANGED <<mem, pml4_table, level, table>>
  BY DEF LoadSection, At, Current
<1>2. section \in 0 .. Len(Sections) /\ Len(Sections) \in Nat /\ DOMAIN Sections = 1 .. Len(Sections)
  BY SectionsAssumption, LenProperties DEF HandoverInv, LoadTypeOK
<1>3. PICK n \in DOMAIN Sections : n = section + 1 /\ section' = n /\ Sections[n].type \in InMemory
  BY <1>1, <1>2
<1> DEFINE addr == Sections[n].addr
           size == Sections[n].size
           there == Block(addr, size)
<1>4. PICK p \in Blocks(size) :
        /\ free' = free \ Block(p, size)
        /\ data' = Filled(p)
        /\ todo' = Work(ToSection(p)) \o Work(OneToOne([first |-> p, size |-> size]))
        /\ entry' = EntryIn(p)
  BY <1>3 DEF LoadSection, Current
<1>5. /\ addr \in VirtualPages /\ size \in Nat /\ addr \in Nat /\ there \subseteq VirtualPages
      /\ addr + size <= Span[Levels]
  BY <1>3, SectionPages, SpanValues DEF VirtualPages
<1>6. /\ p \in Pages /\ p \in Nat /\ p + size <= PageCount /\ Block(p, size) \subseteq free
      /\ Block(p, size) \subseteq Frames
  <2>1. /\ p \in free /\ Block(p, size) \subseteq free /\ free \subseteq Frames
        /\ Frames \subseteq Pages /\ PageCount \in Nat
    BY <1>4, TablesAssumption DEF Blocks, Starts, HandoverInv, LoadTypeOK, TypeOK
  <2>2. p \in Nat /\ p < PageCount
    BY <2>1 DEF Pages
  <2>3. p + size <= PageCount
    <3>1. CASE size = 0
      BY <2>1, <2>2, <3>1
    <3>2. CASE size # 0
      <4>1. p + size - 1 \in Block(p, size)
        BY <1>5, <2>2, <3>2 DEF Block
      <4>2. p + size - 1 \in Pages
        BY <2>1, <4>1
      <4> QED
        BY <1>5, <2>1, <2>2, <4>2 DEF Pages
    <3> QED
      BY <3>1, <3>2
  <2> QED
    BY <2>1, <2>2, <2>3
<1>7. ToSection(p) = [phys |-> p, virt |-> addr, size |-> size] /\ ToSection(p) \in Ranges
  BY <1>3, <1>5, <1>6 DEF ToSection, Current, Ranges
<1> DEFINE own == OneToOne([first |-> p, size |-> size])
<1>8. /\ own \in Ranges
      /\ \A v \in VirtualPages : WantedBy(own, v) = IF v \in Block(p, size) THEN {v} ELSE {}
  BY <1>5, <1>6, OneToOneRange
<1> HIDE DEF own
<1>9. /\ Work(ToSection(p)) \in Seq({r \in Ranges : r.size > 0})
      /\ Work(own) \in Seq({r \in Ranges : r.size > 0})
      /\ todo' = Work(ToSection(p)) \o Work(own)
  BY <1>4, <1>7, <1>8, WorkType DEF own
<1>10. todo' \in Seq({r \in Ranges : r.size > 0})
  <2> DEFINE S == {r \in Ranges : r.size > 0}
  <2>1. Work(ToSection(p)) \in Seq(S) /\ Work(own) \in Seq(S)
    BY <1>9
  <2> HIDE DEF S
  <2>2. todo' \in Seq(S)
    BY <1>9, <2>1, ConcatProperties
  <2> QED
    BY <2>2 DEF S
<1>11. PagingInv' /\ \A v : Translate(v)' = Translate(v)
  <2>1. free' \subseteq free /\ pml4_table # Unset
    BY <1>1, <1>4 DEF HandoverInv, InOrder
  <2> QED
    BY <1>1, <1>10, <2>1, CallStep DEF HandoverInv
(* The pages under way. *)
<1>12. ASSUME NEW v \in VirtualPages
       PROVE  Wanted(todo', v) = (IF v \in there THEN {p + (v - addr)} ELSE {})
                                 \cup (IF v \in Block(p, size) THEN {v} ELSE {})
  <2>1. Wanted(todo', v) = Wanted(Work(ToSection(p)), v) \cup Wanted(Work(own), v)
    <3>1. PICK s \in Seq({r \in Ranges : r.size > 0}), t \in Seq({r \in Ranges : r.size > 0}) :
            s = Work(ToSection(p)) /\ t = Work(own)
      BY <1>9
    <3>2. Wanted(s \o t, v) = Wanted(s, v) \cup Wanted(t, v)
      BY WantedConcat
    <3> QED
      BY <1>9, <3>1, <3>2
  <2>2. PICK r \in Ranges : r = ToSection(p)
    BY <1>7
  <2>3. Wanted(Work(r), v) = IF v \in there THEN {p + (v - addr)} ELSE {}
    <3>1. r.virt = addr /\ r.size = size /\ r.phys = p
      BY <1>7, <2>2
    <3>2. Wanted(Work(r), v) = WantedBy(r, v)
      BY WantedWork
    <3> QED
      BY <3>1, <3>2 DEF WantedBy
  <2>4. Wanted(Work(own), v) = IF v \in Block(p, size) THEN {v} ELSE {}
    BY <1>8, WantedWork
  <2> QED
    BY <2>1, <2>2, <2>3, <2>4
<1>13. \A v \in there : v \in VirtualPages /\ v \notin Block(p, size)
  BY <1>3, <1>5, <1>6, SectionPages
<1>14. \A v \in there : Settles(v, p + (v - addr))'
  BY <1>12, <1>13 DEF Settles
<1>15. \A v \in Block(p, size) : Settles(v, v)'
  <2>1. \A v \in Block(p, size) : v \in VirtualPages /\ v \notin there
    BY <1>6, <1>13, PagesAreVirtual, TablesAssumption
  <2> QED
    BY <1>12, <2>1 DEF Settles
<1>16. ASSUME NEW v \in VirtualPages, NEW q, v \notin there, v = q \/ v \notin Frames, Settles(v, q)
       PROVE  Settles(v, q)'
  <2>1. Wanted(todo', v) \subseteq {q}
    BY <1>6, <1>12, <1>16
  <2> QED
    BY <1>1, <1>11, <1>16, <2>1, CallSettles
(* What the section's pages hold. *)
<1>17. \A q \in Pages : data'[q] = IF q \notin Block(p, size) THEN data[q]
                                  ELSE IF Sections[n].type = "NOBITS" THEN Zeroes ELSE <<n, q - p>>
  BY <1>3, <1>4 DEF Filled, Current
<1>18. 1 .. section \subseteq DOMAIN Sections /\ n \notin 1 .. section
       /\ \A ix \in 1 .. n : ix \in 1 .. section \/ ix = n
  BY <1>2, <1>3
<1>19. ASSUME NEW ix \in 1 .. section, Sections[ix].type \in InMemory,
              NEW k \in 0 .. (Sections[ix].size - 1)
       PROVE  \E q \in Pages : Placed(ix, k, q)'
  <2>1. PICK q \in Pages : Placed(ix, k, q)
    BY <1>19 DEF HandoverInv, SectionsPlaced
  <2>2. ix \in DOMAIN Sections /\ ix # n
    BY <1>18
  <2>3. /\ Sections[ix].addr + k \in VirtualPages
        /\ Sections[ix].addr + k \notin there /\ Sections[ix].addr + k \notin Frames
    BY <1>3, <1>19, <2>2, SectionPages
  <2>4. Settles(Sections[ix].addr + k, q)'
    BY <1>16, <2>1, <2>3 DEF Placed
  <2>5. q \in Pages \ free' /\ data'[q] = Content(ix, k)
    BY <1>4, <1>6, <1>17, <2>1 DEF Placed
  <2> QED
    BY <2>4, <2>5 DEF Placed
<1>20. ASSUME NEW k \in 0 .. (size - 1)
       PROVE  Placed(n, k, p + k)' /\ p + k \in Pages
  <2>1. p + k \in Block(p, size) /\ addr + k \in there /\ (p + k) - p = k /\ (addr + k) - addr = k
    BY <1>5, <1>6 DEF Block
  <2>2. p + k \in Pages \ free'
    BY <1>4, <1>6, <2>1, TablesAssumption
  <2>3. data'[p + k] = Content(n, k)
    BY <1>17, <2>1, <2>2 DEF Content
  <2>4. Settles(addr + k, p + k)'
    BY <1>14, <2>1
  <2> QED
    BY <2>2, <2>3, <2>4 DEF Placed
<1>21. SectionsPlaced'
  <2>1. ASSUME NEW ix \in 1 .. section', Sections[ix].type \in InMemory,
               NEW k \in 0 .. (Sections[ix].size - 1)
        PROVE  \E q \in Pages : Placed(ix, k, q)'
    <3>1. CASE ix \in 1 .. section
      BY <1>19, <2>1, <3>1
    <3>2. CASE ix = n
      BY <1>20, <2>1, <3>2
    <3> QED
      BY <1>3, <1>18, <2>1, <3>1, <3>2
  <2> QED
    BY <2>1 DEF SectionsPlaced
(* The entry point. *)
<1>22. entry' = entry \/ (EntryPoint \in there /\ entry' = p + (EntryPoint - addr))
  <2>1. EntryPoint \in Nat /\ EntryPoint # addr + size
    BY <1>3, SectionsAssumption, LinkAssumption, SpanValues DEF VirtualPages
  <2>2. EntryPoint \in addr .. (addr + size) => EntryPoint \in there
    BY <1>5, <2>1 DEF Block
  <2>3. p + EntryPoint - addr = p + (EntryPoint - addr)
    BY <1>5, <1>6, <2>1
  <2> QED
    BY <1>3, <1>4, <2>2, <2>3 DEF EntryIn, Current
<1>23. ASSUME EntryPoint \in there, entry' = p + (EntryPoint - addr)
       PROVE  EntryFound' /\ entry' \in Pages
  <2>1. PICK e \in Block(p, size) : e = p + (EntryPoint - addr)
    BY <1>5, <1>6, <1>23 DEF Block
  <2>2. e \in Frames /\ Settles(EntryPoint, e)' /\ Settles(e, e)' /\ entry' = e
    BY <1>6, <1>14, <1>15, <1>23, <2>1
  <2>3. Settles(EntryPoint, entry)' /\ Settles(entry, entry)'
    BY <2>2 DEF Settles
  <2>4. n \in 1 .. section'
    BY <1>2, <1>3
  <2>5. EntryFound'
    BY <1>3, <1>23, <2>2, <2>3, <2>4 DEF EntryFound
  <2>6. entry' \in Pages
    BY <2>2, TablesAssumption
  <2> QED
    BY <2>5, <2>6
<1>24. ASSUME entry' = entry
       PROVE  EntryFound' /\ entry' \in Pages
  <2>1. ASSUME entry # 0
        PROVE  EntryFound'
    <3>1. PICK ix \in 1 .. section :
            /\ Sections[ix].type \in InMemory
            /\ EntryPoint \in Block(Sections[ix].addr, Sections[ix].size)
      BY <2>1 DEF HandoverInv, EntryFound
    <3>2. ix \in DOMAIN Sections /\ ix # n /\ ix \in 1 .. section'
      BY <1>2, <1>3, <1>18
    <3>3. EntryPoint \in VirtualPages /\ EntryPoint \notin there /\ EntryPoint \notin Frames
      BY <1>3, <3>1, <3>2, SectionPages
    <3>4. PICK e \in Frames : e = entry
      BY <2>1 DEF HandoverInv, EntryFound
    <3>5. e \in VirtualPages /\ e \notin there
      BY <1>3, PagesAreVirtual, TablesAssumption, SectionPages
    <3>6. Settles(EntryPoint, e) /\ Settles(e, e)
      BY <2>1, <3>4 DEF HandoverInv, EntryFound
    <3>7. Settles(EntryPoint, e)' /\ Settles(e, e)'
      BY <1>16, <3>3, <3>5, <3>6
    <3>8. Settles(EntryPoint, entry)' /\ Settles(entry, entry)'
      BY <1>24, <3>4, <3>7 DEF Settles
    <3> QED
      BY <1>24, <3>1, <3>2, <3>4, <3>8 DEF EntryFound
  <2>2. entry' \in Pages
    BY <1>24 DEF HandoverInv, LoadTypeOK
  <2> QED
    BY <1>24, <2>1, <2>2 DEF EntryFound
<1>25. EntryFound' /\ entry' \in Pages
  BY <1>22, <1>23, <1>24
<1>26. ImagesStay'
  <2>1. ASSUME NEW image \in {Loader, RamDisk}, NEW v \in Block(image.first, image.size)
        PROVE  v \in VirtualPages /\ v \notin there
    BY <1>3, ImagePages, PagesAreVirtual, SectionPages
  <2>2. \A v \in Block(Loader.first, Loader.size) \cup Block(RamDisk.first, RamDisk.size) :
          Settles(v, v) /\ v \in VirtualPages /\ v \notin there
    BY <1>1, <2>1 DEF HandoverInv, ImagesStay
  <2>3. \A v \in Block(Loader.first, Loader.size) \cup Block(RamDisk.first, RamDisk.size) :
          Settles(v, v)'
    BY <1>16, <2>2
  <2> QED
    BY <2>3 DEF ImagesStay
<1>27. LoadTypeOK'
  <2> DEFINE D == {NoData, Zeroes} \cup ((DOMAIN Sections) \X Nat)
  <2>1. data' \in [Pages -> D]
    <3>1. data' = [q \in Pages |-> data'[q]]
      BY <1>4 DEF Filled
    <3>2. ASSUME NEW q \in Pages
          PROVE  data'[q] \in D
      <4>1. q \in Block(p, size) => q - p \in Nat
        BY <1>5, <1>6 DEF Block
      <4>2. data[q] \in D
        BY DEF HandoverInv, LoadTypeOK
      <4>3. Zeroes \in D /\ (q \in Block(p, size) => <<n, q - p>> \in D)
        BY <1>3, <4>1
      <4> HIDE DEF D, NoData, Zeroes
      <4> QED
        BY <1>17, <4>2, <4>3
    <3> HIDE DEF D
    <3> QED
      BY <3>1, <3>2
  <2>2. section' \in 0 .. Len(Sections)
    BY <1>2, <1>3
  <2> QED
    BY <1>1, <1>11, <1>25, <2>1, <2>2 DEF HandoverInv, LoadTypeOK, PagingInv
<1>28. InOrder'
  BY <1>1 DEF HandoverInv, InOrder
<1> QED
  BY <1>11, <1>21, <1>25, <1>26, <1>27, <1>28 DEF HandoverInv

LEMMA HandoverStarts == LoadInit => HandoverInv
<1> SUFFICES ASSUME LoadInit PROVE HandoverInv
  OBVIOUS
<1>1. PagingInv /\ pml4_table = Unset
  BY PagingStarts DEF LoadInit, Init
<1>2. 0 \in Pages /\ Len(Sections) \in Nat
  BY TablesAssumption, SectionsAssumption, LenProperties DEF Pages
<1>3. LoadTypeOK
  BY <1>1, <1>2 DEF LoadInit, LoadTypeOK, PagingInv, Phases
<1> QED
  BY <1>1, <1>3 DEF LoadInit, HandoverInv, InOrder, ImagesStay, SectionsPlaced, EntryFound

LEMMA HandoverStep ==
  ASSUME CleanStarts, FramesLeft, HandoverInv, [LoadNext]_allVars
  PROVE  HandoverInv'
<1>1. CASE InstallTables
  BY <1>1, InstallTablesStep
<1>2. CASE MapLoader
  BY <1>2, ImageStep DEF MapLoader, At
<1>3. CASE LoadRamDisk
  BY <1>3, ImageStep DEF LoadRamDisk, At
<1>4. CASE StartProcessors
  BY <1>4, QuietStep DEF StartProcessors, At, HandoverInv, InOrder, Phases, vars
<1>5. CASE FindKernel
  BY <1>5, QuietStep DEF FindKernel, At, HandoverInv, InOrder, Phases, vars
<1>6. CASE GiveUp
  BY <1>6, QuietStep DEF GiveUp, At, HandoverInv, InOrder, Phases, vars
<1>7. CASE SkipSection
  BY <1>7, SkipSectionStep
<1>8. CASE LoadSection
  BY <1>8, LoadSectionStep
<1>9. CASE NoRoom
  BY <1>9, QuietStep DEF NoRoom, At, HandoverInv, InOrder, Phases, vars
<1>10. CASE Loaded
  BY <1>10, QuietStep DEF Loaded, At, HandoverInv, InOrder, Phases, vars
<1>11. CASE MapPage
  BY <1>11, MapPageStep
<1>12. CASE EnablePaging
  BY <1>12, QuietStep DEF EnablePaging, At, HandoverInv, InOrder, Phases, vars
<1>13. CASE UNCHANGED allVars
  BY <1>13, QuietStep DEF allVars, loadVars, HandoverInv, InOrder, LoadTypeOK, vars
<1> QED
  BY <1>1, <1>2, <1>3, <1>4, <1>5, <1>6, <1>7, <1>8, <1>9, <1>10, <1>11, <1>12, <1>13
  DEF LoadNext

LEMMA HandoverHolds == CleanStarts => (LoadSpec /\ []FramesLeft => []HandoverInv)
<1> SUFFICES ASSUME CleanStarts
             PROVE  LoadSpec /\ []FramesLeft => []HandoverInv
  OBVIOUS
<1>1. HandoverInv /\ FramesLeft /\ [LoadNext]_allVars => HandoverInv'
  BY HandoverStep
<1> QED
  BY <1>1, HandoverStarts, PTL DEF LoadSpec

(* The types of all that kmain and the mapper keep.                         *)
THEOREM LoadTypesHold == CleanStarts => (LoadSpec /\ []FramesLeft => []LoadTypeOK)
<1>1. HandoverInv => LoadTypeOK
  BY DEF HandoverInv
<1> QED
  BY <1>1, HandoverHolds, PTL

(* When Elf::Load has returned an entry point, every page of every section  *)
(* holds what kernel.bin has there and is mapped where the linker put it:   *)
(* no table made later, no section copied later and no later call of        *)
(* MapRange has taken it away.                                              *)
THEOREM KernelStaysInPlace == CleanStarts => (LoadSpec /\ []FramesLeft => []KernelInPlace)
<1>1. HandoverInv => KernelInPlace
  <2> SUFFICES ASSUME HandoverInv, phase \in {"handoff", "kernel"},
                      NEW ix \in DOMAIN Sections, Sections[ix].type \in InMemory,
                      NEW k \in 0 .. (Sections[ix].size - 1)
               PROVE  /\ Translate(Sections[ix].addr + k) # Unset
                      /\ data[Translate(Sections[ix].addr + k)] = Content(ix, k)
    BY DEF KernelInPlace
  <2>1. todo = <<>> /\ ix \in 1 .. section
    BY SectionsAssumption, LenProperties DEF HandoverInv, InOrder
  <2>2. PICK p \in Pages : Placed(ix, k, p)
    BY <2>1 DEF HandoverInv, SectionsPlaced
  <2>3. Translate(Sections[ix].addr + k) = p
    BY <2>1, <2>2, Settled DEF Placed
  <2> QED
    BY <2>2, <2>3, TablesAssumption DEF Placed, Pages
<1> QED
  BY <1>1, HandoverHolds, PTL

(* The loader and the ram disk are still mapped one to one when paging is   *)
(* turned on: no call of MapRange for the kernel moves them.                *)
THEOREM LoaderIsStillThere == CleanStarts => (LoadSpec /\ []FramesLeft => []LoaderStaysMapped)
<1>1. HandoverInv => LoaderStaysMapped
  <2> SUFFICES ASSUME HandoverInv, phase \in {"handoff", "kernel"},
                      NEW v \in Block(Loader.first, Loader.size)
                                \cup Block(RamDisk.first, RamDisk.size)
               PROVE  Translate(v) = v
    BY DEF LoaderStaysMapped
  <2>1. todo = <<>> /\ Settles(v, v)
    BY DEF HandoverInv, InOrder, ImagesStay
  <2> QED
    BY <2>1, Settled
<1> QED
  BY <1>1, HandoverHolds, PTL

(* The address Elf::Load returns, physical as it is, and the entry point    *)
(* the kernel was linked for are one page on the far side of paging.        *)
THEOREM KernelStarts == CleanStarts => (LoadSpec /\ []FramesLeft => []EntryRuns)
<1>1. HandoverInv => EntryRuns
  <2> SUFFICES ASSUME HandoverInv, phase = "kernel"
               PROVE  /\ Translate(EntryPoint) # Unset
                      /\ Translate(entry) = Translate(EntryPoint)
    BY DEF EntryRuns
  <2>1. todo = <<>> /\ entry # 0
    BY DEF HandoverInv, InOrder
  <2>2. entry \in Frames /\ Settles(EntryPoint, entry) /\ Settles(entry, entry)
    BY <2>1 DEF HandoverInv, EntryFound
  <2>3. Translate(EntryPoint) = entry /\ Translate(entry) = entry
    BY <2>1, <2>2, Settled
  <2> QED
    BY <2>2, <2>3, TablesAssumption DEF Pages
<1> QED
  BY <1>1, HandoverHolds, PTL

-----------------------------------------------------------------------------
(* What the loader makes of the tables it is given.                         *)

(* The place that FindRsdp has to return.                                    *)
FirstGood ==
  LET area == IF Good(firmware.bios) # {} THEN firmware.bios ELSE firmware.ebda
  IN  place \in Good(area) /\ \A p \in Good(area) : place <= p

NoneGood == Good(firmware.bios) = {} /\ Good(firmware.ebda) = {}

(* FoundIsGood needs what the places passed over were.                       *)
SearchInv ==
  /\ at \in {"idle", "bios", "ebda"} => started = <<>>
  /\ at \in {"idle", "bios"} => \A p \in Good(firmware.bios) : place <= p
  /\ at = "ebda" => Good(firmware.bios) = {} /\ \A p \in Good(firmware.ebda) : place <= p
  /\ at \in {"rsdp", "tables", "madt", "start"} => FirstGood
  /\ at = "done" => (FirstGood \/ NoneGood)
  /\ NoneGood => started = <<>>

(* RsdtInside needs where the number of tables came from.                    *)
CountInv ==
  /\ at \in {"tables", "madt", "start"} => table_count = TableCount(firmware.rsdt.length)
  /\ at \in {"madt", "start"} => i # table_count

IInv == AcpiTypeOK /\ SearchInv /\ CountInv

-------------------------------------------------------------------------------

(* Division by four, and the length of an RSDT that has its header.          *)
LEMMA Quarters ==
  ASSUME NEW n \in Nat
  PROVE  n \div 4 \in Nat /\ 4 * (n \div 4) <= n /\ n \div 4 <= n
BY SMT

LEMMA Wrapped ==
  ASSUME NEW x \in Int
  PROVE  x % Word \in 0 .. Word - 1
BY WordAssumption, SMT DEF MadtSize

LEMMA Unwrapped ==
  ASSUME NEW x \in 0 .. Word - 1
  PROVE  x % Word = x
BY WordAssumption, SMT DEF MadtSize

LEMMA TableCountType ==
  ASSUME NEW length \in Nat
  PROVE  TableCount(length) \in 0 .. Word - 1
<1> DEFINE rest == (length - RsdtSize) % Word
<1>1. rest \in 0 .. Word - 1
  BY Wrapped DEF RsdtSize
<1>2. rest \in Nat /\ rest < Word
  BY <1>1, WordAssumption
<1> HIDE DEF rest
<1>3. rest \div 4 \in Nat /\ rest \div 4 <= rest
  BY <1>2, Quarters
<1>4. TableCount(length) = rest \div 4
  BY DEF TableCount, rest
<1> QED
  BY <1>2, <1>3, <1>4, WordAssumption

(* The k-th pointer lies inside of an RSDT of this length.                   *)
LEMMA TableCountFits ==
  ASSUME NEW length \in 0 .. Word - 1, length >= RsdtSize,
         NEW k \in 0 .. TableCount(length), k # TableCount(length)
  PROVE  RsdtSize + 4 * k + 4 <= length
<1> DEFINE rest == length - RsdtSize
<1>1. rest \in 0 .. Word - 1
  BY WordAssumption DEF RsdtSize
<1>2. rest % Word = rest
  BY <1>1, Unwrapped
<1>3. rest \in Nat /\ length = rest + RsdtSize
  BY <1>1, WordAssumption DEF RsdtSize
<1>4. TableCount(length) = rest \div 4
  BY <1>2 DEF TableCount
<1> HIDE DEF rest
<1>5. rest \div 4 \in Nat /\ 4 * (rest \div 4) <= rest
  BY <1>3, Quarters
<1>6. k \in Nat /\ k + 1 <= rest \div 4
  BY <1>4, <1>5
<1> QED
  BY <1>3, <1>5, <1>6 DEF RsdtSize

-------------------------------------------------------------------------------

LEMMA InitIInv == AcpiInit => IInv
<1> SUFFICES ASSUME AcpiInit PROVE IInv
  OBVIOUS
<1>1. NoMadt \in Tables
  BY WordAssumption DEF NoMadt, Tables, MadtSize
<1>2. AcpiTypeOK
  BY <1>1, WordAssumption DEF AcpiInit, AcpiTypeOK, MadtSize, NoMadt
<1>3. SearchInv
  BY FirmwareAssumption DEF AcpiInit, SearchInv, Good, AllFirmware
<1>4. CountInv
  BY DEF AcpiInit, CountInv
<1> QED
  BY <1>2, <1>3, <1>4 DEF IInv

(* What the parts of firmware are.                                           *)
LEMMA FirmwareType ==
  ASSUME IInv
  PROVE  /\ firmware \in AllFirmware
         /\ firmware.bios \in Seq(Places) /\ firmware.ebda \in Seq(Places)
         /\ firmware.rsdt.length \in 0 .. Word - 1
         /\ firmware.rsdt.tables \in Seq(Tables)
BY FirmwareAssumption DEF IInv, AcpiTypeOK, AllFirmware

(* A step of the search in an area that the search is in.                    *)
LEMMA SearchStep ==
  ASSUME NEW area \in Seq(Places), place \in Nat \ {0},
         \A p \in Good(area) : place <= p
  PROVE  /\ place > Len(area) => Good(area) = {}
         /\ (place <= Len(area) /\ IsRsdp(area[place])) => place \in Good(area)
         /\ (place <= Len(area) /\ ~IsRsdp(area[place])) => \A p \in Good(area) : place + 1 <= p
BY DEF Good, IsRsdp

LEMMA SearchBiosIInv == IInv /\ SearchBios => IInv'
<1> SUFFICES ASSUME IInv, SearchBios PROVE IInv'
  OBVIOUS
<1> USE DEF SearchBios, Search
<1>1. AcpiTypeOK'
  BY DEF IInv, AcpiTypeOK, walk
<1>2. SearchInv'
  <2>1. firmware.bios \in Seq(Places) /\ firmware.ebda \in Seq(Places)
    BY FirmwareType
  <2>2. /\ at = "bios" /\ place \in Nat \ {0} /\ started = <<>>
        /\ \A p \in Good(firmware.bios) : place <= p
    BY DEF IInv, AcpiTypeOK, SearchInv
  <2>3. /\ place > Len(firmware.bios) => Good(firmware.bios) = {}
        /\ (place <= Len(firmware.bios) /\ IsRsdp(firmware.bios[place])) => place \in Good(firmware.bios)
        /\ (place <= Len(firmware.bios) /\ ~IsRsdp(firmware.bios[place])) =>
             \A p \in Good(firmware.bios) : place + 1 <= p
    BY <2>1, <2>2, SearchStep
  <2>4. CASE place > Len(firmware.bios)
    <3>1. \A p \in Good(firmware.ebda) : 1 <= p
      BY <2>1 DEF Good
    <3> QED
      BY <2>2, <2>3, <2>4, <3>1 DEF SearchInv
  <2>5. CASE place <= Len(firmware.bios) /\ IsRsdp(firmware.bios[place])
    BY <2>1, <2>2, <2>3, <2>5 DEF SearchInv, FirstGood
  <2>6. CASE place <= Len(firmware.bios) /\ ~IsRsdp(firmware.bios[place])
    BY <2>1, <2>2, <2>3, <2>6 DEF SearchInv
  <2> QED
    BY <2>1, <2>2, <2>4, <2>5, <2>6
<1>3. CountInv'
  BY DEF IInv, CountInv
<1> QED
  BY <1>1, <1>2, <1>3 DEF IInv

LEMMA SearchEbdaIInv == IInv /\ SearchEbda => IInv'
<1> SUFFICES ASSUME IInv, SearchEbda PROVE IInv'
  OBVIOUS
<1> USE DEF SearchEbda, Search
<1>1. AcpiTypeOK'
  BY DEF IInv, AcpiTypeOK, walk
<1>2. SearchInv'
  <2>1. firmware.ebda \in Seq(Places)
    BY FirmwareType
  <2>2. /\ at = "ebda" /\ place \in Nat \ {0} /\ started = <<>>
        /\ Good(firmware.bios) = {} /\ \A p \in Good(firmware.ebda) : place <= p
    BY DEF IInv, AcpiTypeOK, SearchInv
  <2>3. /\ place > Len(firmware.ebda) => Good(firmware.ebda) = {}
        /\ (place <= Len(firmware.ebda) /\ IsRsdp(firmware.ebda[place])) => place \in Good(firmware.ebda)
        /\ (place <= Len(firmware.ebda) /\ ~IsRsdp(firmware.ebda[place])) =>
             \A p \in Good(firmware.ebda) : place + 1 <= p
    BY <2>1, <2>2, SearchStep
  <2>4. CASE place > Len(firmware.ebda)
    BY <2>2, <2>3, <2>4 DEF SearchInv, NoneGood
  <2>5. CASE place <= Len(firmware.ebda) /\ IsRsdp(firmware.ebda[place])
    BY <2>1, <2>2, <2>3, <2>5 DEF SearchInv, FirstGood
  <2>6. CASE place <= Len(firmware.ebda) /\ ~IsRsdp(firmware.ebda[place])
    BY <2>1, <2>2, <2>3, <2>6 DEF SearchInv
  <2> QED
    BY <2>1, <2>2, <2>4, <2>5, <2>6
<1>3. CountInv'
  BY DEF IInv, CountInv
<1> QED
  BY <1>1, <1>2, <1>3 DEF IInv

-------------------------------------------------------------------------------

LEMMA AcpiInstallIInv == IInv /\ AcpiInstall => IInv'
BY DEF IInv, AcpiInstall, AcpiTypeOK, SearchInv, CountInv, FirstGood, NoneGood, walk

(* After the search neither the firmware nor the place changes.              *)
LEMMA SearchOver ==
  ASSUME IInv, at \in {"rsdp", "tables", "madt", "start"},
         at' \in {"tables", "madt", "start", "done"}, UNCHANGED <<firmware, place>>
  PROVE  SearchInv'
<1>1. FirstGood /\ ~NoneGood
  BY DEF IInv, SearchInv, FirstGood, NoneGood
<1>2. FirstGood' /\ ~NoneGood'
  BY <1>1 DEF FirstGood, NoneGood
<1> QED
  BY <1>2 DEF SearchInv

LEMMA ParseRsdpIInv == IInv /\ ParseRsdp => IInv'
<1> SUFFICES ASSUME IInv, ParseRsdp PROVE IInv'
  OBVIOUS
<1> USE DEF ParseRsdp
<1>1. SearchInv'
  BY SearchOver
<1>2. TableCount(firmware.rsdt.length) \in 0 .. Word - 1
  <2>1. firmware.rsdt.length \in Nat
    BY FirmwareType, WordAssumption
  <2> QED
    BY <2>1, TableCountType
<1>3. AcpiTypeOK'
  BY <1>2, WordAssumption DEF IInv, AcpiTypeOK, walk
<1>4. CountInv'
  BY DEF CountInv
<1> QED
  BY <1>1, <1>3, <1>4 DEF IInv

LEMMA NextTableIInv == IInv /\ NextTable => IInv'
<1> SUFFICES ASSUME IInv, NextTable PROVE IInv'
  OBVIOUS
<1> USE DEF NextTable
<1>1. PICK tbl \in PointedTo(i + 1) :
        IF tbl.apic
        THEN /\ at' = "madt" /\ madt' = tbl
             /\ sub' = 1 /\ ctr' = MadtSize /\ cpu_count' = 0
             /\ UNCHANGED i
        ELSE i' = i + 1 /\ UNCHANGED <<at, walk>>
  BY DEF NextTable
<1>2. SearchInv'
  BY <1>1, SearchOver DEF walk
<1>3. i \in Nat /\ i + 1 \in Nat \ {0} /\ i \in 0 .. table_count /\ table_count \in 0 .. Word - 1
  BY WordAssumption DEF IInv, AcpiTypeOK
<1>4. tbl \in Tables
  <2>1. CASE i + 1 <= Len(firmware.rsdt.tables)
    BY <2>1, <1>3, FirmwareType DEF PointedTo
  <2>2. CASE ~(i + 1 <= Len(firmware.rsdt.tables))
    BY <2>2, FirmwareAssumption DEF PointedTo
  <2> QED
    BY <2>1, <2>2
<1>5. tbl.subs \in Seq(SubTables)
  BY <1>4 DEF Tables
<1>6. 1 \in 1 .. Len(tbl.subs) + 1
  BY <1>5
<1>7. AcpiTypeOK'
  <2>1. CASE tbl.apic
    BY <2>1, <1>1, <1>4, <1>6, WordAssumption DEF IInv, AcpiTypeOK, MadtSize
  <2>2. CASE ~tbl.apic
    <3>1. i' \in 0 .. table_count'
      BY <2>2, <1>1, <1>3
    <3> QED
      BY <2>2, <1>1, <3>1 DEF IInv, AcpiTypeOK, walk
  <2> QED
    BY <2>1, <2>2
<1>8. CountInv'
  BY <1>1 DEF IInv, CountInv, walk
<1> QED
  BY <1>2, <1>7, <1>8 DEF IInv

LEMMA NoMoreTablesIInv == IInv /\ NoMoreTables => IInv'
<1> SUFFICES ASSUME IInv, NoMoreTables PROVE IInv'
  OBVIOUS
<1>1. SearchInv'
  BY SearchOver DEF NoMoreTables
<1> QED
  BY <1>1 DEF IInv, NoMoreTables, AcpiTypeOK, CountInv, walk

LEMMA NextSubTableIInv == IInv /\ NextSubTable => IInv'
<1> SUFFICES ASSUME IInv, NextSubTable PROVE IInv'
  OBVIOUS
<1>1. PICK tbl \in SubTablesAt(sub) :
        /\ cpu_count' = IF tbl.type = LOCAL_APIC THEN (cpu_count + 1) % Word ELSE cpu_count
        /\ ctr' = (ctr + tbl.length) % Word
        /\ at' = IF Break(tbl) THEN "start" ELSE "madt"
  BY DEF NextSubTable
<1>2. SearchInv'
  BY <1>1, SearchOver DEF NextSubTable
<1>3. /\ sub \in 1 .. Len(madt.subs) + 1 /\ madt.subs \in Seq(SubTables)
      /\ ctr \in Int /\ cpu_count \in Int /\ cpu_count \in 0 .. Word - 1
  BY WordAssumption DEF IInv, AcpiTypeOK, Tables
<1>4. tbl \in SubTables
  <2>1. CASE sub <= Len(madt.subs)
    BY <2>1, <1>3 DEF SubTablesAt
  <2>2. CASE ~(sub <= Len(madt.subs))
    BY <2>2 DEF SubTablesAt
  <2> QED
    BY <2>1, <2>2
<1>5. tbl.length \in Int
  BY <1>4, WordAssumption DEF SubTables
<1>6. ctr' \in 0 .. Word - 1
  <2>1. ctr + tbl.length \in Int
    BY <1>3, <1>5
  <2>2. (ctr + tbl.length) % Word \in 0 .. Word - 1
    BY <2>1, Wrapped
  <2> QED
    BY <2>2, <1>1
<1>7. cpu_count' \in 0 .. Word - 1
  <2>1. cpu_count + 1 \in Int
    BY <1>3
  <2>2. (cpu_count + 1) % Word \in 0 .. Word - 1
    BY <2>1, Wrapped
  <2> QED
    BY <2>2, <1>1, <1>3
<1>8. sub' \in 1 .. Len(madt.subs) + 1
  BY <1>3 DEF NextSubTable
<1>9. AcpiTypeOK'
  BY <1>1, <1>6, <1>7, <1>8 DEF IInv, AcpiTypeOK, NextSubTable
<1>10. CountInv'
  BY <1>1 DEF IInv, CountInv, NextSubTable
<1> QED
  BY <1>2, <1>9, <1>10 DEF IInv

LEMMA NoMoreSubTablesIInv == IInv /\ NoMoreSubTables => IInv'
<1> SUFFICES ASSUME IInv, NoMoreSubTables PROVE IInv'
  OBVIOUS
<1>1. SearchInv'
  BY SearchOver DEF NoMoreSubTables
<1> QED
  BY <1>1 DEF IInv, NoMoreSubTables, AcpiTypeOK, CountInv, walk

LEMMA StartUpIInv == IInv /\ StartUp => IInv'
<1> SUFFICES ASSUME IInv, StartUp PROVE IInv'
  OBVIOUS
<1>1. SearchInv'
  BY SearchOver DEF StartUp
<1>2. i \in 0 .. table_count /\ table_count \in 0 .. Word - 1 /\ i # table_count
  BY DEF IInv, AcpiTypeOK, CountInv, StartUp
<1>3. i' \in 0 .. table_count
  BY <1>2, WordAssumption DEF StartUp
<1>4. started' \in Seq(1 .. Word - 1)
  <2>1. CASE WillStart
    <3>1. cpu_count \in 1 .. Word - 1
      BY <2>1, WordAssumption DEF WillStart, IInv, AcpiTypeOK
    <3> QED
      BY <2>1, <3>1 DEF IInv, AcpiTypeOK, StartUp
  <2>2. CASE ~WillStart
    BY <2>2 DEF IInv, AcpiTypeOK, StartUp
  <2> QED
    BY <2>1, <2>2
<1>5. AcpiTypeOK'
  BY <1>3, <1>4 DEF IInv, AcpiTypeOK, StartUp, walk
<1>6. CountInv'
  BY DEF IInv, CountInv, StartUp
<1> QED
  BY <1>1, <1>5, <1>6 DEF IInv

LEMMA StutterIInv == IInv /\ UNCHANGED acpi => IInv'
BY DEF IInv, acpi, walk, AcpiTypeOK, SearchInv, CountInv, FirstGood, NoneGood

-------------------------------------------------------------------------------

LEMMA AlwaysIInv == AcpiSpec => []IInv
<1>1. AcpiInit => IInv
  BY InitIInv
<1>2. IInv /\ [AcpiNext]_acpi => IInv'
  BY AcpiInstallIInv, SearchBiosIInv, SearchEbdaIInv, ParseRsdpIInv, NextTableIInv, NoMoreTablesIInv,
     NextSubTableIInv, NoMoreSubTablesIInv, StartUpIInv, StutterIInv DEF AcpiNext
<1> QED
  BY <1>1, <1>2, PTL DEF AcpiSpec

(* The counters stay within a word and the walks within their tables'        *)
(* contents or the arbitrary memory behind them.                             *)
THEOREM AcpiTypeCorrect == AcpiSpec => []AcpiTypeOK
<1>1. IInv => AcpiTypeOK
  BY DEF IInv
<1> QED
  BY <1>1, AlwaysIInv, PTL

(* For any BIOS area and any EBDA the first good RSDP is the one followed.   *)
THEOREM FirstRsdpFound == AcpiSpec => []FoundIsGood
<1>1. IInv => FoundIsGood
  <2> SUFFICES ASSUME IInv PROVE FoundIsGood
    OBVIOUS
  <2>1. at \in {"idle", "bios", "ebda", "rsdp", "tables", "madt", "start", "done"} /\ SearchInv
    BY DEF IInv, AcpiTypeOK
  <2> QED
    BY <2>1 DEF SearchInv, FoundIsGood, FirstGood, NoneGood
<1> QED
  BY <1>1, AlwaysIInv, PTL

(* For any firmware with an RSDT of at least its header's size no pointer is *)
(* read outside of it.                                                       *)
THEOREM TablesReadInside == AcpiSpec => []RsdtInside
<1>1. IInv => RsdtInside
  <2> SUFFICES ASSUME IInv, firmware.rsdt.length >= RsdtSize,
                      \/ at = "tables" /\ i # table_count
                      \/ at \in {"madt", "start"}
               PROVE  RsdtSize + 4 * i + 4 <= firmware.rsdt.length
    BY DEF RsdtInside
  <2>1. table_count = TableCount(firmware.rsdt.length) /\ i # table_count /\ i \in 0 .. table_count
    BY DEF IInv, CountInv, AcpiTypeOK
  <2>2. firmware.rsdt.length \in 0 .. Word - 1
    BY FirmwareType
  <2> QED
    BY <2>1, <2>2, TableCountFits
<1> QED
  BY <1>1, AlwaysIInv, PTL
-------------------------------------------------------------------------------
(* Recursive functions on sequences.                                         *)

(* Induction over the natural numbers, with a set in the predicate's place.  *)
(* What is built step by step is there.                                      *)
Builds(g, n, T, a, F) ==
  g \in [0 .. n -> T] /\ g[0] = a /\ \A j \in 1 .. n : g[j] = F[<<j, g[j - 1]>>]

LEMMA StepByStep ==
  ASSUME NEW n \in Nat, NEW T, NEW a \in T, NEW F \in [(1 .. n) \X T -> T]
  PROVE  \E g : Builds(g, n, T, a, F)
<1> DEFINE S == {m \in Nat : m <= n => \E g : Builds(g, m, T, a, F)}
<1>1. 0 \in S
  <2>1. Builds([k \in 0 .. 0 |-> a], 0, T, a, F)
    BY DEF Builds
  <2> QED
    BY <2>1
<1>2. ASSUME NEW m \in Nat, m \in S
      PROVE  m + 1 \in S
  <2> SUFFICES ASSUME m + 1 <= n PROVE \E g : Builds(g, m + 1, T, a, F)
    OBVIOUS
  <2>1. PICK g : Builds(g, m, T, a, F)
    BY <1>2
  <2> DEFINE h == [k \in 0 .. (m + 1) |-> IF k \in 0 .. m THEN g[k] ELSE F[<<k, g[k - 1]>>]]
  <2>2. g[m] \in T /\ m + 1 \in 1 .. n
    BY <2>1 DEF Builds
  <2>3. F[<<m + 1, g[m]>>] \in T
    BY <2>2
  <2>4. \A k \in 0 .. m : h[k] = g[k] /\ g[k] \in T
    BY <2>1 DEF Builds
  <2>5. h[m + 1] = F[<<m + 1, g[m]>>]
    OBVIOUS
  <2>6. h \in [0 .. (m + 1) -> T]
    BY <2>1, <2>3 DEF Builds
  <2> HIDE DEF h
  <2>7. \A j \in 1 .. (m + 1) : h[j] = F[<<j, h[j - 1]>>]
    <3>1. \A j \in 1 .. m : j - 1 \in 0 .. m /\ j \in 0 .. m
      OBVIOUS
    <3>2. \A j \in 1 .. m : h[j] = F[<<j, h[j - 1]>>]
      BY <2>1, <2>4, <3>1 DEF Builds
    <3>3. h[m + 1] = F[<<m + 1, h[(m + 1) - 1]>>]
      BY <2>4, <2>5
    <3>4. \A j \in 1 .. (m + 1) : j \in 1 .. m \/ j = m + 1
      OBVIOUS
    <3> QED
      BY <3>2, <3>3, <3>4
  <2>8. Builds(h, m + 1, T, a, F)
    BY <2>1, <2>4, <2>6, <2>7 DEF Builds
  <2> QED
    BY <2>8
<1> HIDE DEF S
<1>3. n \in S
  BY <1>1, <1>2, SetInduction
<1> QED
  BY <1>3 DEF S

(* Its values, when it is known to be stepwise.                              *)
LEMMA StaysIn ==
  ASSUME NEW n \in Nat, NEW T, NEW f, f[0] \in T,
         \A k \in 1 .. n : f[k - 1] \in T => f[k] \in T
  PROVE  \A k \in 0 .. n : f[k] \in T
<1> DEFINE S == {k \in Nat : k <= n => f[k] \in T}
<1>1. 0 \in S
  OBVIOUS
<1>2. ASSUME NEW k \in Nat, k \in S
      PROVE  k + 1 \in S
  <2> SUFFICES ASSUME k + 1 <= n PROVE f[k + 1] \in T
    OBVIOUS
  <2>1. f[k] \in T /\ k + 1 \in 1 .. n /\ (k + 1) - 1 = k
    BY <1>2
  <2> QED
    BY <2>1
<1> HIDE DEF S
<1>3. Nat \subseteq S
  BY <1>1, <1>2, SetInduction
<1> QED
  BY <1>3 DEF S

LEMMA ReachUnfolds ==
  ASSUME NEW t \in Tables
  PROVE  /\ Reach(t)[0] = MadtSize
         /\ \A k \in 0 .. Len(t.subs) : Reach(t)[k] \in Nat
         /\ \A k \in 1 .. Len(t.subs) : Reach(t)[k] = Reach(t)[k - 1] + t.subs[k].length
<1> DEFINE n == Len(t.subs)
           Is(g) == g = [k \in 0 .. n |-> IF k = 0 THEN MadtSize ELSE g[k - 1] + t.subs[k].length]
           reach == CHOOSE g : Is(g)
           F == [p \in (1 .. n) \X Nat |-> p[2] + t.subs[p[1]].length]
<1>1. /\ n \in Nat /\ MadtSize \in Nat
      /\ \A k \in 1 .. n : t.subs[k].length \in Nat
  <2>1. t.subs \in Seq(SubTables) /\ \A s \in SubTables : s.length \in Nat
    BY WordAssumption DEF Tables, SubTables
  <2> QED
    BY <2>1 DEF MadtSize
<1>2. F \in [(1 .. n) \X Nat -> Nat]
  BY <1>1
<1>3. PICK g : Builds(g, n, Nat, MadtSize, F)
  <2> HIDE DEF F, n
  <2> QED
    BY <1>1, <1>2, StepByStep, Zenon
<1>4. Is(g)
  <2>1. g \in [0 .. n -> Nat] /\ g[0] = MadtSize /\ \A j \in 1 .. n : g[j] = F[<<j, g[j - 1]>>]
    BY <1>3 DEF Builds
  <2>2. \A j \in 1 .. n : g[j] = g[j - 1] + t.subs[j].length
    <3>1. \A j \in 1 .. n : g[j - 1] \in Nat
      BY <2>1
    <3> QED
      BY <2>1, <3>1
  <2>3. \A j \in 0 .. n : g[j] = IF j = 0 THEN MadtSize ELSE g[j - 1] + t.subs[j].length
    BY <2>1, <2>2
  <2>4. g = [j \in 0 .. n |-> g[j]]
    BY <2>1
  <2> QED
    BY <2>3, <2>4, Zenon
<1>5. Is(reach)
  BY <1>4, Zenon
<1>6. Reach(t) = reach
  BY Zenon DEF Reach
<1> HIDE DEF reach
<1>7. \A j \in 0 .. n : reach[j] = IF j = 0 THEN MadtSize ELSE reach[j - 1] + t.subs[j].length
  BY <1>5
<1> HIDE DEF Is, n
<1>8. /\ reach[0] = MadtSize
      /\ \A j \in 1 .. n : reach[j] = reach[j - 1] + t.subs[j].length
  BY <1>1, <1>7
<1>9. \A j \in 0 .. n : reach[j] \in Nat
  <2>1. \A j \in 1 .. n : reach[j - 1] \in Nat => reach[j] \in Nat
    BY <1>1, <1>8
  <2> QED
    BY <1>1, <1>8, <2>1, StaysIn
<1> QED
  BY <1>6, <1>8, <1>9, Zenon DEF n

(* The processors that are among the first k sub-tables.                     *)
LEMMA ProcessorsUnfold ==
  ASSUME NEW t
  PROVE  /\ ProcessorsTo(t, 0) = 0
         /\ \A k \in Nat : /\ ProcessorsTo(t, k) \in Nat
                           /\ ProcessorsTo(t, k) <= k
                           /\ ProcessorsTo(t, k + 1) =
                                ProcessorsTo(t, k) + IF t.subs[k + 1].type = LOCAL_APIC THEN 1 ELSE 0
<1> DEFINE P(k) == {j \in 1 .. k : t.subs[j].type = LOCAL_APIC}
<1>1. P(0) = {}
  OBVIOUS
<1>2. ASSUME NEW k \in Nat
      PROVE  /\ IsFiniteSet(P(k)) /\ Cardinality(P(k)) \in Nat /\ Cardinality(P(k)) <= k
             /\ P(k + 1) = IF t.subs[k + 1].type = LOCAL_APIC THEN P(k) \cup {k + 1} ELSE P(k)
             /\ k + 1 \notin P(k)
  <2>1. IsFiniteSet(1 .. k) /\ Cardinality(1 .. k) = k
    BY FS_Interval
  <2>2. P(k) \subseteq 1 .. k
    OBVIOUS
  <2>3. IsFiniteSet(P(k)) /\ Cardinality(P(k)) <= k
    BY <2>1, <2>2, FS_Subset
  <2>4. Cardinality(P(k)) \in Nat
    BY <2>3, FS_CardinalityType
  <2> QED
    BY <2>3, <2>4
<1>3. ASSUME NEW k \in Nat
      PROVE  Cardinality(P(k + 1)) =
               Cardinality(P(k)) + IF t.subs[k + 1].type = LOCAL_APIC THEN 1 ELSE 0
  <2> HIDE DEF P
  <2>1. CASE t.subs[k + 1].type = LOCAL_APIC
    BY <1>2, <2>1, FS_AddElement
  <2>2. CASE t.subs[k + 1].type # LOCAL_APIC
    <3>1. P(k + 1) = P(k)
      BY <1>2, <2>2, Zenon
    <3>2. PICK c : c = Cardinality(P(k))
      OBVIOUS
    <3>3. Cardinality(P(k + 1)) = c /\ c \in Nat
      BY <1>2, <3>1, <3>2, Zenon
    <3>4. c = c + 0
      BY <3>3
    <3> QED
      BY <2>2, <3>2, <3>3, <3>4
  <2> QED
    BY <2>1, <2>2
<1>4. Cardinality(P(0)) = 0
  BY <1>1, FS_EmptySet
<1>5. \A k : ProcessorsTo(t, k) = Cardinality(P(k))
  BY DEF ProcessorsTo
<1> HIDE DEF P
<1> QED
  BY <1>2, <1>3, <1>4, <1>5

LEMMA ProcessorsType ==
  ASSUME NEW t \in Tables
  PROVE  Processors(t) \in Nat
<1>1. Len(t.subs) \in Nat
  BY DEF Tables
<1> QED
  BY <1>1, ProcessorsUnfold DEF Processors

LEMMA CountsUnfold ==
  ASSUME firmware.rsdt.tables \in Seq(Tables)
  PROVE  LET tables == firmware.rsdt.tables
         IN  /\ Counts[0] = <<>>
             /\ \A k \in 0 .. Len(tables) : Counts[k] \in Seq(Nat)
             /\ \A k \in 1 .. Len(tables) :
                  Counts[k] = IF tables[k].apic /\ Processors(tables[k]) > 0
                              THEN Append(Counts[k - 1], Processors(tables[k]))
                              ELSE Counts[k - 1]
<1> DEFINE tables == firmware.rsdt.tables
           n == Len(tables)
           Step(k, c) == IF tables[k].apic /\ Processors(tables[k]) > 0
                         THEN Append(c, Processors(tables[k])) ELSE c
           Is(g) == g = [k \in 0 .. n |-> IF k = 0 THEN <<>> ELSE Step(k, g[k - 1])]
           counts == CHOOSE g : Is(g)
           F == [p \in (1 .. n) \X Seq(Nat) |-> Step(p[1], p[2])]
<1>1. n \in Nat /\ <<>> \in Seq(Nat)
  OBVIOUS
<1>2. \A k \in 1 .. n : \A c \in Seq(Nat) : Step(k, c) \in Seq(Nat)
  <2> SUFFICES ASSUME NEW k \in 1 .. n, NEW c \in Seq(Nat) PROVE Step(k, c) \in Seq(Nat)
    OBVIOUS
  <2>1. PICK t : t = tables[k]
    OBVIOUS
  <2>2. t \in Tables
    BY <2>1
  <2>3. Processors(t) \in Nat
    BY <2>2, ProcessorsType
  <2>4. Processors(tables[k]) \in Nat
    BY <2>1, <2>3
  <2> HIDE DEF tables
  <2> QED
    BY <2>4, AppendProperties
<1> HIDE DEF Step
<1>3. F \in [(1 .. n) \X Seq(Nat) -> Seq(Nat)]
  <2> HIDE DEF n, tables
  <2> QED
    BY <1>2
<1>4. PICK g : Builds(g, n, Seq(Nat), <<>>, F)
  <2> HIDE DEF F, n
  <2> QED
    BY <1>1, <1>3, StepByStep, Zenon
<1>5. Is(g)
  <2>1. g \in [0 .. n -> Seq(Nat)] /\ g[0] = <<>> /\ \A j \in 1 .. n : g[j] = F[<<j, g[j - 1]>>]
    BY <1>4 DEF Builds
  <2>2. \A j \in 1 .. n : g[j] = Step(j, g[j - 1])
    <3>1. \A j \in 1 .. n : g[j - 1] \in Seq(Nat)
      BY <1>1, <2>1
    <3> HIDE DEF n, tables
    <3> QED
      BY <2>1, <3>1
  <2> HIDE DEF F
  <2>3. \A j \in 0 .. n : g[j] = IF j = 0 THEN <<>> ELSE Step(j, g[j - 1])
    BY <1>1, <2>1, <2>2
  <2>4. g = [j \in 0 .. n |-> g[j]]
    BY <2>1
  <2> QED
    BY <2>3, <2>4, Zenon
<1>6. Is(counts)
  BY <1>5, Zenon
<1>7. Counts = counts
  BY Zenon DEF Counts, Step
<1> HIDE DEF counts
<1>8. \A j \in 0 .. n : counts[j] = IF j = 0 THEN <<>> ELSE Step(j, counts[j - 1])
  BY <1>6
<1> HIDE DEF Is, n, tables
<1>9. counts[0] = <<>> /\ \A j \in 1 .. n : counts[j] = Step(j, counts[j - 1])
  BY <1>1, <1>8
<1>10. \A j \in 0 .. n : counts[j] \in Seq(Nat)
  <2>1. \A j \in 1 .. n : counts[j - 1] \in Seq(Nat) => counts[j] \in Seq(Nat)
    BY <1>2, <1>9
  <2> QED
    BY <1>1, <1>9, <2>1, StaysIn
<1> QED
  BY <1>7, <1>9, <1>10, Zenon DEF n, tables, Step

-------------------------------------------------------------------------------
(* What the walk over sound tables has done.                                 *)

ListInv ==
  LET tables == firmware.rsdt.tables
  IN  (Sound /\ firmware.trampoline) =>
        /\ at \in {"idle", "bios", "ebda", "rsdp"} => started = <<>>
        /\ at \in {"tables", "madt", "start"} => table_count = Len(tables) /\ started = Counts[i]
        /\ at \in {"madt", "start"} => i < Len(tables) /\ madt = tables[i + 1] /\ madt.apic
        /\ at = "madt" => cpu_count = ProcessorsTo(madt, sub - 1) /\ ctr = Reach(madt)[sub - 1]
        /\ at = "start" => cpu_count = Processors(madt)
        /\ at = "done" => started \in {<<>>, Counts[Len(tables)]}

(* No sub-table of a sound MADT is empty, so each begins behind the others.  *)
LEMMA ReachGrows ==
  ASSUME NEW t \in Tables, \A k \in DOMAIN t.subs : t.subs[k].length > 0
  PROVE  \A k \in 0 .. Len(t.subs) : \A j \in 0 .. k : Reach(t)[j] + (k - j) <= Reach(t)[k]
<1> DEFINE n == Len(t.subs)
           R(k) == Reach(t)[k]
           S == {k \in Nat : k <= n => \A j \in 0 .. k : R(j) + (k - j) <= R(k)}
<1>1. /\ n \in Nat /\ \A k \in 0 .. n : R(k) \in Nat
      /\ \A k \in 1 .. n : t.subs[k].length \in Nat /\ t.subs[k].length > 0
      /\ \A k \in 1 .. n : R(k) = R(k - 1) + t.subs[k].length
  <2>1. t.subs \in Seq(SubTables) /\ \A s \in SubTables : s.length \in Nat
    BY WordAssumption DEF Tables, SubTables
  <2> QED
    BY <2>1, ReachUnfolds
<1> HIDE DEF R, n
<1>2. 0 \in S
  <2>1. \A j \in 0 .. 0 : j = 0
    OBVIOUS
  <2> QED
    BY <1>1, <2>1
<1>3. ASSUME NEW k \in Nat, k \in S
      PROVE  k + 1 \in S
  <2> SUFFICES ASSUME k + 1 <= n, NEW j \in 0 .. (k + 1) PROVE R(j) + ((k + 1) - j) <= R(k + 1)
    OBVIOUS
  <2>1. k + 1 \in 1 .. n /\ k \in 0 .. n /\ (k + 1) - 1 = k /\ j \in 0 .. n
    BY <1>1
  <2>2. R(k) + 1 <= R(k + 1) /\ R(k) \in Nat /\ R(k + 1) \in Nat /\ R(j) \in Nat
    BY <1>1, <2>1
  <2>3. CASE j = k + 1
    BY <2>2, <2>3
  <2>4. CASE j # k + 1
    <3>1. j \in 0 .. k
      BY <2>4
    <3>2. R(j) + (k - j) <= R(k)
      BY <1>3, <2>1, <3>1
    <3> QED
      BY <2>2, <3>1, <3>2
  <2> QED
    BY <2>3, <2>4
<1> HIDE DEF S
<1>4. Nat \subseteq S
  BY <1>2, <1>3, SetInduction
<1>5. \A k \in 0 .. n : k \in Nat /\ k <= n
  BY <1>1
<1>6. \A k \in 0 .. n : \A j \in 0 .. k : R(j) + (k - j) <= R(k)
  BY <1>4, <1>5 DEF S
<1> QED
  BY <1>6 DEF R, n

(* The counter of ParseMadt behind k sub-tables of a sound MADT.             *)
LEMMA SoundSteps ==
  ASSUME NEW t \in Tables, SoundMadt(t), NEW k \in 0 .. Len(t.subs)
  PROVE  /\ Reach(t)[k] \in Nat
         /\ Reach(t)[k] < t.length <=> k < Len(t.subs)
         /\ k < Len(t.subs) =>
              /\ t.subs[k + 1].length # 0
              /\ (Reach(t)[k] + t.subs[k + 1].length) % Word = Reach(t)[k + 1]
              /\ Reach(t)[k + 1] # Reach(t)[k]
              /\ k + 1 \in 0 .. Word - 1
<1> DEFINE n == Len(t.subs)
<1>1. n \in Nat /\ t.length \in 0 .. Word - 1 /\ t.length = Reach(t)[n]
  BY DEF Tables, SoundMadt
<1>2. \A i_1 \in 0 .. n : \A j \in 0 .. i_1 : Reach(t)[j] + (i_1 - j) <= Reach(t)[i_1]
  BY ReachGrows DEF SoundMadt
<1>3. /\ Reach(t)[0] = MadtSize
      /\ \A j \in 0 .. n : Reach(t)[j] \in Nat
      /\ \A j \in 1 .. n : Reach(t)[j] = Reach(t)[j - 1] + t.subs[j].length
  BY ReachUnfolds
<1> HIDE DEF n
<1>4. k \in 0 .. n /\ n \in 0 .. n /\ k \in 0 .. k
  BY <1>1 DEF n
<1>5. Reach(t)[k] + (n - k) <= Reach(t)[n] /\ Reach(t)[k] \in Nat /\ Reach(t)[n] \in Nat
  BY <1>2, <1>3, <1>4
<1>6. Reach(t)[k] < t.length <=> k < n
  <2>1. k = n \/ k < n
    BY <1>1, <1>4
  <2> QED
    BY <1>1, <1>4, <1>5, <2>1
<1>7. ASSUME k < n
      PROVE  /\ t.subs[k + 1].length # 0
             /\ (Reach(t)[k] + t.subs[k + 1].length) % Word = Reach(t)[k + 1]
             /\ Reach(t)[k + 1] # Reach(t)[k]
             /\ k + 1 \in 0 .. Word - 1
  <2>1. k + 1 \in 1 .. n /\ k + 1 \in 0 .. n /\ (k + 1) - 1 = k /\ k \in 0 .. (k + 1) /\ 0 \in 0 .. (k + 1)
        /\ k + 1 \in 0 .. (k + 1) /\ k \in Nat
    BY <1>1, <1>4, <1>7
  <2>2. PICK next \in Nat : next = Reach(t)[k + 1]
    BY <1>3, <2>1
  <2>3. PICK this \in Nat : this = Reach(t)[k]
    BY <1>5
  <2>4. PICK all \in 0 .. Word - 1 : all = Reach(t)[n]
    BY <1>1
  <2>5. this + 1 <= next /\ MadtSize + (k + 1) <= next
    <3>1. Reach(t)[k] + ((k + 1) - k) <= Reach(t)[k + 1] /\ Reach(t)[0] + ((k + 1) - 0) <= Reach(t)[k + 1]
      BY <1>2, <2>1
    <3> QED
      BY <1>3, <2>1, <2>2, <2>3, <3>1 DEF MadtSize
  <2>6. next + (n - (k + 1)) <= all
    BY <1>2, <1>4, <2>1, <2>2, <2>4
  <2>7. next \in 0 .. Word - 1 /\ k + 1 \in 0 .. Word - 1
    BY <1>1, <1>7, <2>1, <2>5, <2>6, WordAssumption DEF MadtSize
  <2>8. next = this + t.subs[k + 1].length /\ t.subs[k + 1].length \in Nat
    <3>1. t.subs \in Seq(SubTables) /\ \A s \in SubTables : s.length \in Nat
      BY WordAssumption DEF Tables, SubTables
    <3>2. t.subs[k + 1] \in SubTables
      BY <2>1, <3>1 DEF n
    <3> QED
      BY <1>3, <2>1, <2>2, <2>3, <3>1, <3>2
  <2>9. next % Word = next
    BY <2>7, Unwrapped
  <2> QED
    BY <2>2, <2>3, <2>5, <2>7, <2>8, <2>9
<1> QED
  BY <1>5, <1>6, <1>7 DEF n

(* The firmware does not change, nor what it lists.                          *)
LEMMA ListKept == UNCHANGED firmware => (Sound' <=> Sound) /\ Counts' = Counts
<1>1. UNCHANGED firmware => (Sound' <=> Sound)
  BY DEF Sound
<1>2. UNCHANGED firmware => Counts' = Counts
  BY Zenon DEF Counts
<1> QED
  BY <1>1, <1>2

(* How many tables ParseRsdp finds in a sound RSDT.                          *)
LEMMA SoundCount ==
  ASSUME IInv, Sound
  PROVE  TableCount(firmware.rsdt.length) = Len(firmware.rsdt.tables)
<1>1. PICK n \in Nat : n = Len(firmware.rsdt.tables)
  BY FirmwareType
<1>2. firmware.rsdt.length = RsdtSize + 4 * n /\ firmware.rsdt.length \in 0 .. Word - 1
  BY <1>1, FirmwareType DEF Sound
<1>3. firmware.rsdt.length - RsdtSize = 4 * n /\ 4 * n \in 0 .. Word - 1
  BY <1>2, WordAssumption DEF RsdtSize
<1>4. (4 * n) % Word = 4 * n
  BY <1>3, Unwrapped
<1>5. (4 * n) \div 4 = n
  BY SMT
<1> QED
  BY <1>1, <1>3, <1>4, <1>5 DEF TableCount

LEMMA InitListInv == AcpiInit => ListInv
BY DEF AcpiInit, ListInv

(* What there is to show for a step, where it matters.                       *)
LEMMA ListStep ==
  ASSUME UNCHANGED firmware,
         (Sound /\ firmware.trampoline) =>
           /\ at' \in {"idle", "bios", "ebda", "rsdp"} => started' = <<>>
           /\ at' \in {"tables", "madt", "start"} =>
                table_count' = Len(firmware.rsdt.tables) /\ started' = Counts[i']
           /\ at' \in {"madt", "start"} =>
                i' < Len(firmware.rsdt.tables) /\ madt' = firmware.rsdt.tables[i' + 1] /\ madt'.apic
           /\ at' = "madt" =>
                cpu_count' = ProcessorsTo(madt', sub' - 1) /\ ctr' = Reach(madt')[sub' - 1]
           /\ at' = "start" => cpu_count' = Processors(madt')
           /\ at' = "done" => started' \in {<<>>, Counts[Len(firmware.rsdt.tables)]}
  PROVE  ListInv'
<1>1. ProcessorsTo(madt, sub - 1)' = ProcessorsTo(madt', sub' - 1)
  BY Zenon DEF ProcessorsTo
<1>2. (Reach(madt)[sub - 1])' = Reach(madt')[sub' - 1]
  BY Zenon DEF Reach
<1>3. Processors(madt)' = Processors(madt')
  BY Zenon DEF Processors, ProcessorsTo
<1> QED
  BY <1>1, <1>2, <1>3, ListKept DEF ListInv

LEMMA AcpiInstallListInv == ListInv /\ AcpiInstall => ListInv'
BY ListStep DEF AcpiInstall, ListInv

LEMMA SearchListInv == ListInv /\ (SearchBios \/ SearchEbda) => ListInv'
BY ListStep DEF SearchBios, SearchEbda, Search, ListInv

LEMMA ParseRsdpListInv == IInv /\ ListInv /\ ParseRsdp => ListInv'
<1> SUFFICES ASSUME IInv, ListInv, ParseRsdp PROVE ListInv'
  OBVIOUS
<1>1. Counts[0] = <<>>
  BY FirmwareType, CountsUnfold
<1> QED
  BY <1>1, SoundCount, ListStep DEF ParseRsdp, ListInv

LEMMA NextTableListInv == IInv /\ ListInv /\ NextTable => ListInv'
<1> SUFFICES ASSUME IInv, ListInv, NextTable, Sound, firmware.trampoline
             PROVE  /\ at' \in {"tables", "madt"}
                    /\ table_count' = Len(firmware.rsdt.tables) /\ started' = Counts[i']
                    /\ at' = "madt" =>
                         /\ i' < Len(firmware.rsdt.tables)
                         /\ madt' = firmware.rsdt.tables[i' + 1] /\ madt'.apic
                         /\ cpu_count' = ProcessorsTo(madt', sub' - 1)
                         /\ ctr' = Reach(madt')[sub' - 1]
  BY ListStep DEF NextTable
<1> DEFINE tables == firmware.rsdt.tables
<1>1. /\ at = "tables" /\ i # table_count /\ i \in 0 .. table_count
      /\ table_count = Len(tables) /\ started = Counts[i]
  BY DEF NextTable, ListInv, IInv, AcpiTypeOK
<1>2. tables \in Seq(Tables)
  BY FirmwareType
<1>3. i + 1 \in 1 .. Len(tables) /\ i \in 0 .. Len(tables) /\ i < Len(tables) /\ (i + 1) - 1 = i
  BY <1>1, <1>2
<1>4. PICK tbl \in Tables : tbl = tables[i + 1]
  BY <1>2, <1>3
<1>5. /\ table_count' = table_count /\ started' = started
      /\ IF tbl.apic
         THEN /\ at' = "madt" /\ madt' = tbl
              /\ sub' = 1 /\ ctr' = MadtSize /\ cpu_count' = 0
              /\ UNCHANGED i
         ELSE i' = i + 1 /\ UNCHANGED <<at, walk>>
  BY <1>3, <1>4 DEF NextTable, PointedTo
<1> HIDE DEF tables
<1>6. CASE tbl.apic
  <2>1. ProcessorsTo(tbl, 0) = 0 /\ Reach(tbl)[0] = MadtSize
    BY ReachUnfolds, ProcessorsUnfold
  <2> QED
    BY <1>1, <1>3, <1>4, <1>5, <1>6, <2>1 DEF tables
<1>7. CASE ~tbl.apic
  <2>1. Counts[i + 1] = Counts[i]
    BY <1>2, <1>3, <1>4, <1>7, CountsUnfold DEF tables
  <2> QED
    BY <1>1, <1>5, <1>7, <2>1 DEF walk, tables
<1> QED
  BY <1>6, <1>7

LEMMA NoMoreTablesListInv == ListInv /\ NoMoreTables => ListInv'
BY ListStep DEF NoMoreTables, ListInv

(* What is known of the MADT while it is walked over.                        *)
LEMMA ListedMadt ==
  ASSUME IInv, ListInv, Sound, firmware.trampoline, at \in {"madt", "start"}
  PROVE  /\ madt \in Tables /\ SoundMadt(madt) /\ madt.apic
         /\ i \in 0 .. Len(firmware.rsdt.tables) /\ i + 1 \in 1 .. Len(firmware.rsdt.tables)
         /\ madt = firmware.rsdt.tables[i + 1]
         /\ table_count = Len(firmware.rsdt.tables) /\ started = Counts[i]
<1>1. /\ i < Len(firmware.rsdt.tables) /\ madt = firmware.rsdt.tables[i + 1] /\ madt.apic
      /\ table_count = Len(firmware.rsdt.tables) /\ started = Counts[i]
  BY DEF ListInv
<1>2. /\ madt \in Tables /\ i \in 0 .. table_count
      /\ firmware.rsdt.tables \in Seq(Tables)
  BY FirmwareType DEF IInv, AcpiTypeOK
<1>3. i + 1 \in 1 .. Len(firmware.rsdt.tables) /\ i \in 0 .. Len(firmware.rsdt.tables)
  BY <1>1, <1>2
<1>4. SoundMadt(madt)
  BY <1>1, <1>2, <1>3 DEF Sound
<1> QED
  BY <1>1, <1>2, <1>3, <1>4

LEMMA NextSubTableListInv == IInv /\ ListInv /\ NextSubTable => ListInv'
<1> SUFFICES ASSUME IInv, ListInv, NextSubTable, Sound, firmware.trampoline
             PROVE  /\ at' = "madt"
                    /\ cpu_count' = ProcessorsTo(madt', sub' - 1)
                    /\ ctr' = Reach(madt')[sub' - 1]
  BY ListStep DEF NextSubTable, ListInv
<1>1. at = "madt" /\ madt' = madt /\ ctr < madt.length
  BY DEF NextSubTable, Walking
<1>2. madt \in Tables /\ SoundMadt(madt)
  BY <1>1, ListedMadt
<1>3. PICK k \in 0 .. Len(madt.subs) : k = sub - 1 /\ sub = k + 1
  <2>1. sub \in 1 .. Len(madt.subs) + 1 /\ Len(madt.subs) \in Nat
    BY <1>2 DEF IInv, AcpiTypeOK, Tables
  <2>2. sub - 1 \in 0 .. Len(madt.subs) /\ sub = (sub - 1) + 1
    BY <2>1
  <2> QED
    BY <2>2
<1>4. cpu_count = ProcessorsTo(madt, k) /\ ctr = Reach(madt)[k]
  BY <1>1, <1>3 DEF ListInv
<1>5. PICK t : t = madt
  OBVIOUS
<1>6. /\ k < Len(t.subs)
      /\ t.subs[k + 1].length # 0
      /\ (Reach(t)[k] + t.subs[k + 1].length) % Word = Reach(t)[k + 1]
      /\ Reach(t)[k + 1] # Reach(t)[k]
      /\ k + 1 \in 0 .. Word - 1
  <2>1. t \in Tables /\ SoundMadt(t) /\ k \in 0 .. Len(t.subs) /\ Reach(t)[k] < t.length
    BY <1>1, <1>2, <1>3, <1>4, <1>5
  <2> QED
    BY <2>1, SoundSteps
<1>7. /\ cpu_count' = IF t.subs[k + 1].type = LOCAL_APIC THEN (cpu_count + 1) % Word ELSE cpu_count
      /\ ctr' = (ctr + t.subs[k + 1].length) % Word
      /\ at' = IF Break(t.subs[k + 1]) THEN "start" ELSE "madt"
      /\ sub' = IF sub <= Len(t.subs) /\ ctr' # ctr THEN sub + 1 ELSE sub
  <2>1. k \in Nat /\ Len(t.subs) \in Nat
    BY <1>2, <1>3, <1>5 DEF Tables
  <2>2. sub <= Len(t.subs)
    BY <1>3, <1>6, <2>1
  <2> QED
    BY <1>3, <1>5, <2>2 DEF NextSubTable, SubTablesAt
<1>8. ctr' = Reach(t)[k + 1] /\ sub' = k + 2 /\ at' = "madt"
  <2>1. k \in Nat /\ Len(t.subs) \in Nat
    BY <1>2, <1>3, <1>5 DEF Tables
  <2>2. ctr' = Reach(t)[k + 1] /\ ctr' # ctr
    BY <1>4, <1>5, <1>6, <1>7
  <2>3. sub <= Len(t.subs) /\ sub + 1 = k + 2
    BY <1>3, <1>6, <2>1
  <2> QED
    BY <1>6, <1>7, <2>2, <2>3 DEF Break
<1>9. cpu_count' = ProcessorsTo(t, k + 1)
  <2>1. /\ ProcessorsTo(t, k + 1) =
             ProcessorsTo(t, k) + IF t.subs[k + 1].type = LOCAL_APIC THEN 1 ELSE 0
        /\ ProcessorsTo(t, k) \in Nat /\ ProcessorsTo(t, k) <= k
    <3>1. k \in Nat
      BY <1>2, <1>3 DEF Tables
    <3> QED
      BY <3>1, ProcessorsUnfold
  <2>2. PICK c \in Nat : c = ProcessorsTo(t, k)
    BY <2>1
  <2>3. c = cpu_count /\ c + 1 \in 0 .. Word - 1
    BY <1>4, <1>5, <1>6, <2>1, <2>2, WordAssumption
  <2>4. (c + 1) % Word = c + 1
    BY <2>3, Unwrapped
  <2> QED
    BY <1>7, <2>1, <2>2, <2>3, <2>4
<1>10. sub' - 1 = k + 1
  BY <1>3, <1>8
<1> QED
  BY <1>1, <1>5, <1>8, <1>9, <1>10

LEMMA NoMoreSubTablesListInv == IInv /\ ListInv /\ NoMoreSubTables => ListInv'
<1> SUFFICES ASSUME IInv, ListInv, NoMoreSubTables, Sound, firmware.trampoline
             PROVE  cpu_count = Processors(madt)
  BY ListStep DEF NoMoreSubTables, ListInv, walk
<1>1. at = "madt" /\ ~(ctr < madt.length)
  BY DEF NoMoreSubTables, Walking
<1>2. PICK t : t = madt
  OBVIOUS
<1>3. t \in Tables /\ SoundMadt(t)
  BY <1>1, <1>2, ListedMadt
<1>4. PICK k \in 0 .. Len(t.subs) : k = sub - 1
  <2>1. sub \in 1 .. Len(t.subs) + 1 /\ Len(t.subs) \in Nat
    BY <1>2, <1>3 DEF IInv, AcpiTypeOK, Tables
  <2> QED
    BY <2>1
<1>5. cpu_count = ProcessorsTo(t, k) /\ ctr = Reach(t)[k]
  BY <1>1, <1>2, <1>4 DEF ListInv
<1>6. ~(k < Len(t.subs))
  BY <1>1, <1>2, <1>3, <1>5, SoundSteps
<1>7. k = Len(t.subs)
  <2>1. Len(t.subs) \in Nat
    BY <1>3 DEF Tables
  <2> QED
    BY <1>6, <2>1
<1> QED
  BY <1>2, <1>5, <1>7 DEF Processors

LEMMA StartUpListInv == IInv /\ ListInv /\ StartUp => ListInv'
<1> SUFFICES ASSUME IInv, ListInv, StartUp, Sound, firmware.trampoline
             PROVE  table_count = Len(firmware.rsdt.tables) /\ started' = Counts[i + 1]
  BY ListStep DEF StartUp
<1>1. at = "start" /\ cpu_count = Processors(madt)
  BY DEF StartUp, ListInv
<1>2. /\ madt \in Tables /\ madt.apic
      /\ i \in 0 .. Len(firmware.rsdt.tables) /\ i + 1 \in 1 .. Len(firmware.rsdt.tables)
      /\ madt = firmware.rsdt.tables[i + 1]
      /\ table_count = Len(firmware.rsdt.tables) /\ started = Counts[i]
  BY <1>1, ListedMadt
<1>3. (i + 1) - 1 = i
  BY <1>2
<1>4. Counts[i + 1] = IF madt.apic /\ Processors(madt) > 0
                      THEN Append(Counts[i], Processors(madt)) ELSE Counts[i]
  BY <1>2, <1>3, FirmwareType, CountsUnfold
<1> QED
  BY <1>1, <1>2, <1>4 DEF StartUp, WillStart

LEMMA StutterListInv == ListInv /\ UNCHANGED acpi => ListInv'
BY ListStep DEF acpi, walk, ListInv

LEMMA AlwaysListInv == AcpiSpec => []ListInv
<1>1. AcpiInit => ListInv
  BY InitListInv
<1>2. IInv /\ ListInv /\ [AcpiNext]_acpi => ListInv'
  BY AcpiInstallListInv, SearchListInv, ParseRsdpListInv, NextTableListInv, NoMoreTablesListInv,
     NextSubTableListInv, NoMoreSubTablesListInv, StartUpListInv, StutterListInv DEF AcpiNext
<1> QED
  BY <1>1, <1>2, AlwaysIInv, PTL DEF AcpiSpec

(* For any number of tables, of MADTs and of processors, sound tables make   *)
(* the loader start, and wait for, the processors they list.                 *)
THEOREM ListedAreStarted == AcpiSpec => []CountsListed
<1>1. IInv /\ ListInv => CountsListed
  <2> SUFFICES ASSUME IInv, ListInv, Sound, firmware.trampoline
               PROVE  /\ \E k \in 0 .. Len(firmware.rsdt.tables) : started = Counts[k]
                      /\ at = "done" => started \in {<<>>, Counts[Len(firmware.rsdt.tables)]}
    BY DEF CountsListed
  <2>1. at \in {"idle", "bios", "ebda", "rsdp", "tables", "madt", "start", "done"}
    BY DEF IInv, AcpiTypeOK
  <2>2. Len(firmware.rsdt.tables) \in Nat /\ Counts[0] = <<>>
    BY FirmwareType, CountsUnfold
  <2>3. CASE started = <<>>
    BY <2>2, <2>3
  <2>4. CASE at \in {"tables", "madt", "start"}
    <3>1. i \in 0 .. Len(firmware.rsdt.tables) /\ started = Counts[i]
      BY <2>4 DEF IInv, AcpiTypeOK, ListInv
    <3> QED
      BY <2>4, <3>1
  <2>5. CASE at = "done"
    BY <2>2, <2>5 DEF ListInv
  <2> QED
    BY <2>1, <2>3, <2>4, <2>5 DEF ListInv
<1> QED
  BY <1>1, AlwaysIInv, AlwaysListInv, PTL

-------------------------------------------------------------------------------
(* The search for the ram disk.                                              *)

(* FindModuleByCmdLine finds the first module that says what is looked for.  *)
LEMMA FoundFirst ==
  ASSUME info.modules \in Seq([cmdline : CmdLines, exposed : BOOLEAN])
  PROVE  LET found == {m \in 1 .. GetModuleCount : SaysInitrd(cmdlines[m])}
         IN  /\ FindModuleByCmdLine \in 0 .. Len(info.modules)
             /\ found = {} => FindModuleByCmdLine = 0
             /\ found # {} => /\ FindModuleByCmdLine \in found
                              /\ \A m \in found : FindModuleByCmdLine <= m
<1> DEFINE found == {m \in 1 .. GetModuleCount : SaysInitrd(cmdlines[m])}
           first == CHOOSE m \in found : \A n \in found : m <= n
<1>1. FindModuleByCmdLine = IF found = {} THEN 0 ELSE first
  BY DEF FindModuleByCmdLine
<1>2. found \subseteq Nat /\ \A m \in found : m \in 0 .. Len(info.modules)
  BY DEF GetModuleCount
<1> HIDE DEF found
<1>3. found # {} => first \in found /\ \A m \in found : first <= m
  BY <1>2, LeastElement
<1> HIDE DEF first
<1> QED
  BY <1>1, <1>2, <1>3 DEF found

-------------------------------------------------------------------------------
(* GRUB's memory map in the words it is written in.                          *)

(* The sequences that FlattenSeq puts together one after the other.          *)
Parts == [k \in DOMAIN info.map |-> Words(info.map[k])]

LEMMA FlattenStepwise ==
  ASSUME NEW A, NEW ss \in Seq(Seq(A)), Len(ss) # 0
  PROVE  \E f : /\ f[0] = <<>> /\ \A j \in 0 .. Len(ss) : f[j] \in Seq(A)
                /\ \A j \in 1 .. Len(ss) : f[j] = f[j - 1] \o ss[j]
                /\ FlattenSeq(ss) = f[Len(ss)]
<1> DEFINE n == Len(ss)
           Is(g) == g = [j \in 1 .. n |-> IF j = 1 THEN ss[j] ELSE g[j - 1] \o ss[j]]
           flatten == CHOOSE g : Is(g)
           T == Seq(A)
           F == [p \in (1 .. n) \X T |-> p[2] \o ss[p[1]]]
<1>1. n \in Nat /\ n # 0 /\ <<>> \in T /\ \A j \in 1 .. n : ss[j] \in T
  OBVIOUS
<1>2. \A s1 \in T, s2 \in T : s1 \o s2 \in T
  BY ConcatProperties
<1>3. \A s1 \in T : <<>> \o s1 = s1
  BY ConcatEmptySeq
<1> HIDE DEF T, n
<1>4. F \in [(1 .. n) \X T -> T]
  BY <1>1, <1>2
<1>5. PICK g : Builds(g, n, T, <<>>, F)
  <2> HIDE DEF F
  <2> QED
    BY <1>1, <1>4, StepByStep, Zenon
<1>6. /\ g \in [0 .. n -> T] /\ g[0] = <<>>
      /\ \A j \in 1 .. n : g[j] = g[j - 1] \o ss[j]
  <2>1. g \in [0 .. n -> T] /\ g[0] = <<>> /\ \A j \in 1 .. n : g[j] = F[<<j, g[j - 1]>>]
    BY <1>5 DEF Builds
  <2>2. \A j \in 1 .. n : j - 1 \in 0 .. n
    BY <1>1
  <2> QED
    BY <2>1, <2>2
<1>7. \E h : Is(h)
  <2> DEFINE h == [j \in 1 .. n |-> g[j]]
  <2>1. \A j \in 1 .. n : h[j] = g[j]
    OBVIOUS
  <2>2. g[1] = ss[1]
    <3>1. 1 \in 1 .. n /\ 1 - 1 = 0
      BY <1>1
    <3>2. g[1] = <<>> \o ss[1] /\ ss[1] \in T
      BY <1>1, <1>6, <3>1, Zenon
    <3> QED
      BY <1>3, <3>2
  <2>3. ASSUME NEW j \in 1 .. n PROVE g[j] = IF j = 1 THEN ss[j] ELSE h[j - 1] \o ss[j]
    <3>1. CASE j = 1
      BY <2>2, <3>1
    <3>2. CASE j # 1
      <4>1. j - 1 \in 1 .. n
        BY <1>1, <3>2
      <4>2. h[j - 1] = g[j - 1]
        BY <2>1, <4>1
      <4> QED
        BY <1>6, <3>2, <4>2
    <3> QED
      BY <3>1, <3>2
  <2>4. Is(h)
    BY <2>3
  <2> QED
    BY <2>4
<1>8. Is(flatten)
  BY <1>7, Zenon
<1>9. FlattenSeq(ss) = flatten[n]
  BY <1>1, Zenon DEF FlattenSeq, n
<1> HIDE DEF flatten
<1>10. \A j \in 1 .. n : flatten[j] = IF j = 1 THEN ss[j] ELSE flatten[j - 1] \o ss[j]
  BY <1>8
<1> HIDE DEF Is
<1>11. \A j \in 1 .. n : flatten[j] = g[j]
  <2> DEFINE S == {m \in Nat : m + 1 <= n => flatten[m + 1] = g[m + 1]}
  <2>1. 0 \in S
    <3>1. 1 \in 1 .. n /\ 1 - 1 = 0 /\ 0 + 1 = 1
      BY <1>1
    <3>2. g[1] = <<>> \o ss[1] /\ ss[1] \in T /\ flatten[1] = ss[1]
      BY <1>1, <1>6, <1>10, <3>1, Zenon
    <3>3. flatten[0 + 1] = g[0 + 1]
      BY <1>3, <3>1, <3>2
    <3> QED
      BY <3>3
  <2>2. ASSUME NEW m \in Nat, m \in S PROVE m + 1 \in S
    <3> SUFFICES ASSUME (m + 1) + 1 <= n PROVE flatten[(m + 1) + 1] = g[(m + 1) + 1]
      OBVIOUS
    <3>1. (m + 1) + 1 \in 1 .. n /\ ((m + 1) + 1) - 1 = m + 1 /\ (m + 1) + 1 # 1 /\ m + 1 <= n
      BY <1>1
    <3>2. flatten[m + 1] = g[m + 1]
      BY <2>2, <3>1
    <3>3. PICK j \in 1 .. n : j = (m + 1) + 1 /\ j - 1 = m + 1 /\ j # 1
      BY <3>1
    <3>4. flatten[j] = flatten[j - 1] \o ss[j] /\ g[j] = g[j - 1] \o ss[j]
      BY <1>6, <1>10, <3>3, Zenon
    <3> QED
      BY <3>2, <3>3, <3>4
  <2> HIDE DEF S
  <2>3. Nat \subseteq S
    BY <2>1, <2>2, SetInduction
  <2> SUFFICES ASSUME NEW j \in 1 .. n PROVE flatten[j] = g[j]
    OBVIOUS
  <2>4. j - 1 \in Nat /\ (j - 1) + 1 = j /\ j <= n
    BY <1>1
  <2> QED
    BY <2>3, <2>4 DEF S
<1>12. FlattenSeq(ss) = g[n]
  BY <1>1, <1>9, <1>11
<1> QED
  BY <1>6, <1>12 DEF n, T

(* Where the parts are, as long as they are of six words.                    *)
LEMMA FlattenUsual ==
  ASSUME NEW A, NEW ss \in Seq(Seq(A)), \A j \in 1 .. Len(ss) : Len(ss[j]) >= 6,
         NEW k \in 0 .. Len(ss), \A j \in 1 .. k : Len(ss[j]) = 6
  PROVE  /\ FlattenSeq(ss) \in Seq(A) /\ Len(FlattenSeq(ss)) >= 6 * k
         /\ k = Len(ss) => Len(FlattenSeq(ss)) = 6 * k
         /\ \A j \in 1 .. k : \A x \in 1 .. 6 : FlattenSeq(ss)[(6 * j - 6) + x] = ss[j][x]
<1> DEFINE n == Len(ss)
<1>1. n \in Nat /\ k \in Nat /\ k <= n
  OBVIOUS
<1>2. CASE n = 0
  <2>1. ss = <<>> /\ k = 0 /\ FlattenSeq(ss) = ss
    BY <1>1, <1>2 DEF FlattenSeq
  <2>2. <<>> \in Seq(A) /\ Len(<<>>) = 0
    OBVIOUS
  <2>3. FlattenSeq(ss) \in Seq(A) /\ Len(FlattenSeq(ss)) = 0
    BY <2>1, <2>2, Zenon
  <2>4. 6 * k = 0 /\ \A j \in 1 .. k : FALSE
    BY <2>1
  <2> HIDE DEF n
  <2> QED
    BY <2>3, <2>4
<1>3. CASE n # 0
  <2>1. PICK f : /\ f[0] = <<>> /\ \A j \in 0 .. n : f[j] \in Seq(A)
                 /\ \A j \in 1 .. n : f[j] = f[j - 1] \o ss[j]
                 /\ FlattenSeq(ss) = f[n]
    BY <1>3, FlattenStepwise
  <2>2. \A j \in 1 .. n : ss[j] \in Seq(A) /\ Len(ss[j]) \in Nat /\ Len(ss[j]) >= 6
    OBVIOUS
  <2>3. \A j \in 1 .. k : Len(ss[j]) = 6
    OBVIOUS
  <2> HIDE DEF n
  <2> DEFINE P(m) == /\ m <= k => Len(f[m]) = 6 * m
                     /\ m >= k => Len(f[m]) >= 6 * k
                     /\ \A j \in 1 .. k : j <= m => \A x \in 1 .. 6 : f[m][(6 * j - 6) + x] = ss[j][x]
             S == {m \in Nat : m <= n => P(m)}
  <2>4. P(0)
    <3>1. Len(f[0]) = 0
      BY <2>1
    <3>2. \A j \in 1 .. k : ~(j <= 0)
      BY <1>1
    <3> QED
      BY <1>1, <3>1, <3>2
  <2>5. ASSUME NEW m \in Nat, NEW q \in 1 .. n, q = m + 1, P(m)
        PROVE  P(q)
    <3> HIDE DEF P, S
    <3>1. q - 1 = m /\ m \in 0 .. n /\ q \in Nat
      BY <1>1, <2>5
    <3>2. f[q] = f[m] \o ss[q] /\ f[m] \in Seq(A) /\ ss[q] \in Seq(A)
      BY <2>1, <2>2, <3>1
    <3>3. PICK u \in Nat : u = Len(f[m])
      BY <3>2
    <3>4. PICK v \in Nat : v = Len(ss[q]) /\ v >= 6 /\ (q <= k => v = 6)
      <4>1. Len(ss[q]) \in Nat /\ Len(ss[q]) >= 6
        BY <2>2
      <4>2. q <= k => Len(ss[q]) = 6
        BY <1>1, <2>3, <3>1
      <4> QED
        BY <4>1, <4>2
    <3>5. /\ Len(f[q]) = u + v
          /\ \A x \in 1 .. u + v : f[q][x] = IF x <= u THEN f[m][x] ELSE ss[q][x - u]
      <4>1. /\ Len(f[m] \o ss[q]) = Len(f[m]) + Len(ss[q])
            /\ \A x \in 1 .. Len(f[m]) + Len(ss[q]) :
                 (f[m] \o ss[q])[x] = IF x <= Len(f[m]) THEN f[m][x] ELSE ss[q][x - Len(f[m])]
        <5>1. PICK s1 \in Seq(A), s2 \in Seq(A) : s1 = f[m] /\ s2 = ss[q]
          BY <3>2
        <5>2. /\ Len(s1 \o s2) = Len(s1) + Len(s2)
              /\ \A x \in 1 .. Len(s1) + Len(s2) :
                   (s1 \o s2)[x] = IF x <= Len(s1) THEN s1[x] ELSE s2[x - Len(s1)]
          BY ConcatProperties
        <5> QED
          BY <5>1, <5>2, Zenon
      <4> QED
        BY <3>2, <3>3, <3>4, <4>1, Zenon
    <3>6. (m <= k => u = 6 * m) /\ (m >= k => u >= 6 * k)
      BY <2>5, <3>3 DEF P
    <3>7. q <= k => Len(f[q]) = 6 * q
      <4>1. q <= k => u = 6 * m /\ v = 6
        BY <1>1, <2>5, <3>1, <3>4, <3>6
      <4>2. 6 * q = 6 * m + 6
        BY <2>5, <3>1
      <4>3. Len(f[q]) = u + v
        BY <3>5
      <4> QED
        BY <4>1, <4>2, <4>3
    <3>8. q >= k => Len(f[q]) >= 6 * k
      <4>1. CASE m >= k
        BY <1>1, <3>4, <3>5, <3>6, <4>1
      <4>2. CASE q = k
        BY <1>1, <2>5, <3>5, <3>4, <3>6, <4>2
      <4> QED
        BY <1>1, <2>5, <4>1, <4>2
    <3>9. ASSUME NEW j \in 1 .. k, j <= q, NEW x \in 1 .. 6
          PROVE  f[q][(6 * j - 6) + x] = ss[j][x]
      <4>1. PICK at_j \in Nat : at_j = (6 * j - 6) + x
        BY <1>1
      <4>2. CASE j <= m
        <5>1. at_j \in 1 .. u
          <6>1. 6 * j <= u
            BY <1>1, <3>6, <4>2
          <6> QED
            BY <1>1, <4>1, <6>1
        <5>2. f[m][at_j] = ss[j][x]
          BY <2>5, <4>1, <4>2 DEF P
        <5>3. at_j \in 1 .. u + v /\ at_j <= u
          BY <3>4, <5>1
        <5>4. f[q][at_j] = f[m][at_j]
          BY <3>5, <5>3
        <5> QED
          BY <4>1, <5>2, <5>4
      <4>3. CASE j = q
        <5>1. u = 6 * j - 6
          BY <1>1, <2>5, <3>6, <4>3
        <5>2. at_j = u + x /\ at_j \in 1 .. u + v /\ ~(at_j <= u) /\ at_j - u = x
          BY <1>1, <3>4, <4>1, <5>1
        <5> QED
          BY <3>5, <4>1, <4>3, <5>2
      <4> QED
        BY <1>1, <2>5, <3>9, <4>2, <4>3
    <3> QED
      BY <3>7, <3>8, <3>9 DEF P
  <2> HIDE DEF P
  <2>6. 0 \in S
    BY <2>4
  <2>7. ASSUME NEW m \in Nat, m \in S PROVE m + 1 \in S
    <3> SUFFICES ASSUME m + 1 <= n PROVE P(m + 1)
      BY DEF S
    <3>1. m <= n /\ m + 1 \in 1 .. n
      BY <1>1
    <3>2. P(m)
      BY <2>7, <3>1 DEF S
    <3> QED
      BY <2>5, <3>1, <3>2
  <2>8. P(n)
    <3> HIDE DEF S
    <3>1. n \in S
      BY <1>1, <2>6, <2>7, SetInduction
    <3> QED
      BY <1>1, <3>1 DEF S
  <2>9. /\ n <= k => Len(f[n]) = 6 * n
        /\ Len(f[n]) >= 6 * k
        /\ \A j \in 1 .. k : \A x \in 1 .. 6 : f[n][(6 * j - 6) + x] = ss[j][x]
    <3>1. \A j \in 1 .. k : j <= n
      BY <1>1
    <3> QED
      BY <1>1, <2>8, <3>1 DEF P
  <2>10. f[n] \in Seq(A)
    BY <1>1, <2>1
  <2> QED
    BY <1>1, <2>1, <2>9, <2>10 DEF n
<1> QED
  BY <1>2, <1>3

(* A number from its two words.                                              *)
LEMMA Quotients ==
  ASSUME NEW n \in Nat, NEW d \in Nat \ {0}
  PROVE  n \div d \in Nat /\ n % d \in Nat /\ (n % d) + d * (n \div d) = n
OBVIOUS

LEMMA WordsOf ==
  ASSUME NEW item \in Entries
  PROVE  /\ Words(item) \in Seq(Nat) /\ Len(Words(item)) >= 6
         /\ item.size = 20 =>
              /\ Len(Words(item)) = 6
              /\ Words(item)[2] = item.addr % Base /\ Words(item)[3] = item.addr \div Base
              /\ Words(item)[4] = item.len % Base /\ Words(item)[5] = item.len \div Base
              /\ Words(item)[6] = item.type
<1>1. /\ item.size \in Nat /\ item.addr \in Nat /\ item.len \in Nat /\ item.type \in Nat
      /\ Base \in Nat \ {0}
  BY BaseAssumption DEF Entries
<1>2. PICK a \in Nat : a = item.addr % Base
  BY <1>1, Quotients
<1>3. PICK b \in Nat : b = item.addr \div Base
  BY <1>1, Quotients
<1>4. PICK c \in Nat : c = item.len % Base
  BY <1>1, Quotients
<1>5. PICK d \in Nat : d = item.len \div Base
  BY <1>1, Quotients
<1>6. PICK rest \in Int : rest = (item.size - 20) \div 4
  BY <1>1
<1> DEFINE six == <<item.size, a, b, c, d, item.type>>
           tail == [k \in 1 .. rest |-> 0]
<1>7. Words(item) = six \o tail
  BY <1>2, <1>3, <1>4, <1>5, <1>6 DEF Words
<1>8. six \in Seq(Nat) /\ Len(six) = 6
  BY <1>1
<1>9. tail \in Seq(Nat) /\ (rest <= 0 => Len(tail) = 0)
  <2>1. CASE rest >= 0
    <3>1. \A k \in 1 .. rest : 0 \in Nat
      OBVIOUS
    <3>2. tail \in Seq(Nat) /\ Len(tail) = rest
      BY <2>1, <3>1, IsASeq
    <3> QED
      BY <2>1, <3>2
  <2>2. CASE rest < 0
    <3>1. tail = <<>>
      BY <2>2
    <3>2. <<>> \in Seq(Nat) /\ Len(<<>>) = 0
      OBVIOUS
    <3> QED
      BY <3>1, <3>2
  <2> HIDE DEF tail
  <2> QED
    BY <2>1, <2>2
<1> HIDE DEF tail
<1>10. /\ six \o tail \in Seq(Nat)
       /\ Len(six \o tail) = 6 + Len(tail) /\ Len(tail) \in Nat
       /\ \A x \in 1 .. 6 : (six \o tail)[x] = six[x]
  <2> HIDE DEF six
  <2>1. /\ six \o tail \in Seq(Nat)
        /\ Len(six \o tail) = Len(six) + Len(tail)
        /\ \A x \in 1 .. Len(six) + Len(tail) :
             (six \o tail)[x] = IF x <= Len(six) THEN six[x] ELSE tail[x - Len(six)]
    BY <1>8, <1>9, ConcatProperties, Zenon
  <2>2. Len(tail) \in Nat
    BY <1>9
  <2> QED
    BY <1>8, <2>1, <2>2
<1>11. item.size = 20 => Len(tail) = 0
  <2>1. item.size = 20 => rest = 0
    BY <1>6
  <2> QED
    BY <1>9, <2>1
<1>12. /\ six[2] = a /\ six[3] = b /\ six[4] = c /\ six[5] = d /\ six[6] = item.type
  OBVIOUS
<1> HIDE DEF six
<1>13. Len(Words(item)) >= 6 /\ (item.size = 20 => Len(Words(item)) = 6)
  BY <1>7, <1>10, <1>11
<1>14. \A x \in 1 .. 6 : Words(item)[x] = six[x]
  BY <1>7, <1>10
<1>15. /\ Words(item)[2] = a /\ Words(item)[3] = b /\ Words(item)[4] = c
       /\ Words(item)[5] = d /\ Words(item)[6] = item.type
  BY <1>12, <1>14
<1> QED
  BY <1>2, <1>3, <1>4, <1>5, <1>7, <1>10, <1>13, <1>15

(* GetMemMap reads the usual entries of the map as they were written.        *)
LEMMA MapWords ==
  ASSUME info.map \in Seq(Entries), NEW k \in 0 .. Len(info.map), UsualUpTo(k)
  PROVE  /\ Buffer \in Seq(Nat) /\ Len(Buffer) \in Nat /\ Len(Buffer) >= 6 * k
         /\ k = Len(info.map) => Len(Buffer) = 6 * k
         /\ \A j \in 1 .. k :
              GetMemMap(j) = [addr |-> info.map[j].addr, len |-> info.map[j].len, type |-> info.map[j].type]
<1>1. PICK ss : ss = Parts
  OBVIOUS
<1>2. PICK n \in Nat : n = Len(info.map)
  OBVIOUS
<1>3. Buffer = FlattenSeq(ss)
  BY <1>1, Zenon DEF Buffer, Parts
<1>4. \A j \in 1 .. n : info.map[j] \in Entries
  BY <1>2
<1>5. \A j \in 1 .. n : Words(info.map[j]) \in Seq(Nat) /\ Len(Words(info.map[j])) >= 6
  <2> SUFFICES ASSUME NEW j \in 1 .. n
               PROVE  Words(info.map[j]) \in Seq(Nat) /\ Len(Words(info.map[j])) >= 6
    OBVIOUS
  <2>1. PICK item \in Entries : item = info.map[j]
    BY <1>4
  <2>2. Words(item) \in Seq(Nat) /\ Len(Words(item)) >= 6
    BY WordsOf
  <2> QED
    BY <2>1, <2>2, Zenon
<1>6. ss = [j \in 1 .. n |-> Words(info.map[j])]
  <2>1. DOMAIN info.map = 1 .. n
    BY <1>2
  <2> QED
    BY <1>1, <2>1, Zenon DEF Parts
<1>7. ss \in Seq(Seq(Nat)) /\ Len(ss) = n /\ \A j \in 1 .. n : ss[j] = Words(info.map[j])
  <2> DEFINE W(j) == Words(info.map[j])
  <2>1. \A j \in 1 .. n : W(j) \in Seq(Nat)
    BY <1>5
  <2>2. ss = [j \in 1 .. n |-> W(j)]
    BY <1>6
  <2>3. \A j \in 1 .. n : ss[j] = W(j)
    BY <2>2, Zenon
  <2> HIDE DEF W
  <2>4. ss \in Seq(Seq(Nat)) /\ Len(ss) = n
    BY <2>1, <2>2, IsASeq
  <2> QED
    BY <2>3, <2>4 DEF W
<1>8. \A j \in 1 .. Len(ss) : Len(ss[j]) >= 6
  BY <1>5, <1>7, Zenon
<1>9. ASSUME NEW j \in 1 .. k
      PROVE  /\ Len(ss[j]) = 6
             /\ ss[j][2] + Base * ss[j][3] = info.map[j].addr
             /\ ss[j][4] + Base * ss[j][5] = info.map[j].len
             /\ ss[j][6] = info.map[j].type
  <2>1. j \in 1 .. n
    BY <1>2
  <2>2. PICK item \in Entries : item = info.map[j]
    BY <1>4, <2>1
  <2>3. item.size = 20
    BY <2>2 DEF UsualUpTo
  <2>4. ss[j] = Words(item)
    BY <1>7, <2>1, <2>2, Zenon
  <2>5. /\ Len(Words(item)) = 6
        /\ Words(item)[2] = item.addr % Base /\ Words(item)[3] = item.addr \div Base
        /\ Words(item)[4] = item.len % Base /\ Words(item)[5] = item.len \div Base
        /\ Words(item)[6] = item.type
    BY <2>3, WordsOf
  <2>6. item.addr \in Nat /\ item.len \in Nat
    BY DEF Entries
  <2>7. /\ (item.addr % Base) + Base * (item.addr \div Base) = item.addr
        /\ (item.len % Base) + Base * (item.len \div Base) = item.len
    BY <2>6, BaseAssumption, Quotients
  <2> QED
    BY <2>2, <2>4, <2>5, <2>7, Zenon
<1>10. PICK buffer : buffer = FlattenSeq(ss)
  OBVIOUS
<1>11. /\ buffer \in Seq(Nat) /\ Len(buffer) >= 6 * k
       /\ k = n => Len(buffer) = 6 * k
       /\ \A j \in 1 .. k : \A x \in 1 .. 6 : buffer[(6 * j - 6) + x] = ss[j][x]
  <2>1. k \in 0 .. Len(ss)
    BY <1>2, <1>7
  <2>2. \A j \in 1 .. k : Len(ss[j]) = 6
    BY <1>9
  <2>3. /\ FlattenSeq(ss) \in Seq(Nat) /\ Len(FlattenSeq(ss)) >= 6 * k
        /\ k = Len(ss) => Len(FlattenSeq(ss)) = 6 * k
        /\ \A j \in 1 .. k : \A x \in 1 .. 6 : FlattenSeq(ss)[(6 * j - 6) + x] = ss[j][x]
    BY <1>7, <1>8, <2>1, <2>2, FlattenUsual
  <2> QED
    BY <1>7, <1>10, <2>3, Zenon
<1>12. ASSUME NEW j \in 1 .. k
       PROVE  GetMemMap(j) =
                [addr |-> info.map[j].addr, len |-> info.map[j].len, type |-> info.map[j].type]
  <2>1. PICK low \in Int, high \in Int : low = 6 * j - 5 /\ high = 6 * j
    OBVIOUS
  <2>2. PICK w : w = SubSeq(buffer, low, high)
    OBVIOUS
  <2>3. \A x \in low .. high : buffer[x] \in Nat
    <3>1. \A x \in low .. high : x \in 1 .. Len(buffer)
      <4>1. PICK l \in Nat : l = Len(buffer)
        BY <1>11
      <4>2. l >= 6 * k
        BY <1>11, <4>1
      <4> QED
        BY <2>1, <4>1, <4>2
    <3> QED
      BY <1>11, <3>1
  <2>4. \A x \in 1 .. (high - low) + 1 : w[x] = buffer[(low + x) - 1]
    BY <2>2, <2>3, SubSeqProperties
  <2>5. \A x \in 1 .. 6 : w[x] = ss[j][x]
    <3> SUFFICES ASSUME NEW x \in 1 .. 6 PROVE w[x] = ss[j][x]
      OBVIOUS
    <3>1. x \in 1 .. (high - low) + 1 /\ (low + x) - 1 = (6 * j - 6) + x
      BY <2>1
    <3> QED
      BY <1>11, <2>4, <3>1
  <2>6. GetMemMap(j) = [addr |-> w[2] + Base * w[3], len |-> w[4] + Base * w[5], type |-> w[6]]
    BY <1>3, <1>10, <2>1, <2>2, Zenon DEF GetMemMap
  <2>7. /\ w[2] = ss[j][2] /\ w[3] = ss[j][3] /\ w[4] = ss[j][4] /\ w[5] = ss[j][5] /\ w[6] = ss[j][6]
    BY <2>5
  <2> QED
    BY <1>9, <2>6, <2>7, Zenon
<1>13. Buffer = buffer /\ Len(buffer) \in Nat
  BY <1>3, <1>10, <1>11
<1>14. k = Len(info.map) => Len(buffer) = 6 * k
  BY <1>2, <1>11, Zenon
<1> QED
  BY <1>11, <1>12, <1>13, <1>14, Zenon

LEMMA MapCount ==
  ASSUME info.map \in Seq(Entries)
  PROVE  /\ GetMemMapCount \in Nat
         /\ \A k \in 0 .. Len(info.map) : UsualUpTo(k) =>
              /\ GetMemMapCount # 0 => GetMemMapCount >= k
              /\ k = Len(info.map) => GetMemMapCount <= k
<1>1. UsualUpTo(0) /\ 0 \in 0 .. Len(info.map)
  BY DEF UsualUpTo
<1>2. PICK l \in Nat : l = Len(Buffer)
  BY <1>1, MapWords
<1>3. PICK c \in Nat : c = l \div 6 /\ 6 * c <= l /\ l < 6 * c + 6
  BY SMT
<1>4. GetMemMapCount = c \/ GetMemMapCount = 0
  BY <1>2, <1>3 DEF GetMemMapCount
<1>5. ASSUME NEW k \in 0 .. Len(info.map), UsualUpTo(k)
      PROVE  /\ GetMemMapCount # 0 => GetMemMapCount >= k
             /\ k = Len(info.map) => GetMemMapCount <= k
  <2>1. l >= 6 * k /\ (k = Len(info.map) => l = 6 * k) /\ k \in Nat
    BY <1>2, <1>5, MapWords
  <2> QED
    BY <1>3, <1>4, <2>1
<1> QED
  BY <1>4, <1>5

LEMMA UsableUnfolds ==
  ASSUME info.map \in Seq(Entries)
  PROVE  /\ Usable[0] = <<>>
         /\ \A k \in 0 .. Len(info.map) : Usable[k] \in Seq(Nat \X Nat)
         /\ \A k \in 1 .. Len(info.map) :
              Usable[k] = IF info.map[k].type = 1
                          THEN Append(Usable[k - 1], <<info.map[k].addr, info.map[k].len>>)
                          ELSE Usable[k - 1]
<1> DEFINE n == Len(info.map)
           T == Seq(Nat \X Nat)
           Step(k, u) == IF info.map[k].type = 1
                         THEN Append(u, <<info.map[k].addr, info.map[k].len>>) ELSE u
           Is(g) == g = [k \in 0 .. n |-> IF k = 0 THEN <<>> ELSE Step(k, g[k - 1])]
           usable == CHOOSE g : Is(g)
           F == [p \in (1 .. n) \X T |-> Step(p[1], p[2])]
<1>1. n \in Nat /\ <<>> \in T
  OBVIOUS
<1>2. \A k \in 1 .. n : \A u \in T : Step(k, u) \in T
  <2> SUFFICES ASSUME NEW k \in 1 .. n, NEW u \in T PROVE Step(k, u) \in T
    OBVIOUS
  <2>1. info.map[k] \in Entries
    OBVIOUS
  <2>2. <<info.map[k].addr, info.map[k].len>> \in Nat \X Nat
    BY <2>1 DEF Entries
  <2> QED
    BY <2>2, AppendProperties
<1> HIDE DEF Step, T
<1>3. F \in [(1 .. n) \X T -> T]
  <2> HIDE DEF n
  <2> QED
    BY <1>2
<1>4. PICK g : Builds(g, n, T, <<>>, F)
  <2> HIDE DEF F, n
  <2> QED
    BY <1>1, <1>3, StepByStep, Zenon
<1>5. Is(g)
  <2>1. g \in [0 .. n -> T] /\ g[0] = <<>> /\ \A j \in 1 .. n : g[j] = F[<<j, g[j - 1]>>]
    BY <1>4 DEF Builds
  <2>2. \A j \in 1 .. n : g[j] = Step(j, g[j - 1])
    <3>1. \A j \in 1 .. n : g[j - 1] \in T
      BY <1>1, <2>1
    <3> HIDE DEF n
    <3> QED
      BY <2>1, <3>1
  <2> HIDE DEF F
  <2>3. \A j \in 0 .. n : g[j] = IF j = 0 THEN <<>> ELSE Step(j, g[j - 1])
    BY <1>1, <2>1, <2>2
  <2>4. g = [j \in 0 .. n |-> g[j]]
    BY <2>1
  <2> QED
    BY <2>3, <2>4, Zenon
<1>6. Is(usable)
  BY <1>5, Zenon
<1>7. Usable = usable
  BY Zenon DEF Usable, Step
<1> HIDE DEF usable
<1>8. \A j \in 0 .. n : usable[j] = IF j = 0 THEN <<>> ELSE Step(j, usable[j - 1])
  BY <1>6
<1> HIDE DEF Is, n
<1>9. usable[0] = <<>> /\ \A j \in 1 .. n : usable[j] = Step(j, usable[j - 1])
  BY <1>1, <1>8
<1>10. \A j \in 0 .. n : usable[j] \in T
  <2>1. \A j \in 1 .. n : usable[j - 1] \in T => usable[j] \in T
    BY <1>2, <1>9
  <2> QED
    BY <1>1, <1>9, <2>1, StaysIn
<1> QED
  BY <1>7, <1>9, <1>10, Zenon DEF n, Step, T

(* What is read beyond the usual entries is numbers as well.                 *)
LEMMA MapTyped ==
  ASSUME info.map \in Seq(Entries), NEW j \in 1 .. GetMemMapCount
  PROVE  GetMemMap(j).addr \in Nat /\ GetMemMap(j).len \in Nat
<1>1. PICK buffer \in Seq(Nat) : buffer = Buffer
  <2>1. UsualUpTo(0) /\ 0 \in 0 .. Len(info.map)
    BY DEF UsualUpTo
  <2> QED
    BY <2>1, MapWords
<1>2. PICK l \in Nat : l = Len(buffer)
  OBVIOUS
<1>3. 6 * j <= l /\ j \in Nat /\ j >= 1
  <2>1. PICK c \in Nat : c = l \div 6 /\ 6 * c <= l
    BY SMT
  <2>2. GetMemMapCount = c \/ GetMemMapCount = 0
    BY <1>1, <1>2, <2>1 DEF GetMemMapCount
  <2> QED
    BY <2>1, <2>2
<1>4. PICK low \in Int, high \in Int : low = 6 * j - 5 /\ high = 6 * j
  BY <1>3
<1>5. PICK w : w = SubSeq(buffer, low, high)
  OBVIOUS
<1>6. \A x \in low .. high : buffer[x] \in Nat
  <2>1. \A x \in low .. high : x \in 1 .. Len(buffer)
    BY <1>2, <1>3, <1>4
  <2> QED
    BY <2>1
<1>7. \A x \in 1 .. 6 : w[x] \in Nat
  <2>1. w \in Seq(Nat) /\ Len(w) = IF low <= high THEN (high - low) + 1 ELSE 0
    BY <1>5, <1>6, SubSeqProperties
  <2>2. Len(w) = 6
    BY <1>4, <2>1
  <2>3. \A x \in 1 .. Len(w) : w[x] \in Nat
    BY <2>1, ElementOfSeq, Zenon
  <2> QED
    BY <2>2, <2>3, Zenon
<1>8. GetMemMap(j) = [addr |-> w[2] + Base * w[3], len |-> w[4] + Base * w[5], type |-> w[6]]
  BY <1>1, <1>4, <1>5, Zenon DEF GetMemMap
<1>9. w[2] \in Nat /\ w[3] \in Nat /\ w[4] \in Nat /\ w[5] \in Nat
  BY <1>7
<1>10. \A a \in Nat, b \in Nat : a + Base * b \in Nat
  BY BaseAssumption
<1> QED
  <2>1. PICK a \in Nat, b \in Nat : a = w[2] + Base * w[3] /\ b = w[4] + Base * w[5]
    BY <1>9, <1>10, Zenon
  <2>2. PICK map : map = GetMemMap(j)
    OBVIOUS
  <2>3. map = [addr |-> a, len |-> b, type |-> w[6]]
    BY <1>8, <2>1, <2>2, Zenon
  <2>4. map.addr = a /\ map.len = b
    BY <2>3
  <2> QED
    BY <2>2, <2>4, Zenon

LEMMA PrefixOfItself == \A t : Len(t) \in Nat => IsPrefix(t, t)
BY DEF IsPrefix

LEMMA PrefixOfAppend ==
  ASSUME NEW S, NEW r \in Seq(S), NEW t \in Seq(S), NEW x \in S, IsPrefix(r, t)
  PROVE  IsPrefix(r, Append(t, x))
<1>1. PICK n \in Nat : n = Len(r)
  OBVIOUS
<1>2. n <= Len(t) /\ SubSeq(r, 1, n) = SubSeq(t, 1, n)
  BY <1>1 DEF IsPrefix
<1>3. /\ Len(Append(t, x)) = Len(t) + 1
      /\ \A j \in 1 .. n : Append(t, x)[j] = t[j] /\ t[j] \in S
  BY <1>2
<1>4. SubSeq(Append(t, x), 1, n) = SubSeq(t, 1, n)
  <2>1. PICK a : a = Append(t, x)
    OBVIOUS
  <2>2. PICK s1 : s1 = SubSeq(a, 1, n)
    OBVIOUS
  <2>3. PICK s2 : s2 = SubSeq(t, 1, n)
    OBVIOUS
  <2>4. \A j \in 1 .. n : a[j] \in S
    BY <1>3, <2>1
  <2>5. /\ s1 \in Seq(S) /\ Len(s1) = (IF 1 <= n THEN (n - 1) + 1 ELSE 0)
        /\ \A j \in 1 .. (n - 1) + 1 : s1[j] = a[(1 + j) - 1]
    BY <2>2, <2>4, SubSeqProperties
  <2>6. /\ s2 \in Seq(S) /\ Len(s2) = (IF 1 <= n THEN (n - 1) + 1 ELSE 0)
        /\ \A j \in 1 .. (n - 1) + 1 : s2[j] = t[(1 + j) - 1]
    BY <1>3, <2>3, SubSeqProperties
  <2>7. Len(s1) = n /\ Len(s2) = n
    BY <2>5, <2>6
  <2>8. \A j \in 1 .. n : s1[j] = s2[j]
    <3> SUFFICES ASSUME NEW j \in 1 .. n PROVE s1[j] = s2[j]
      OBVIOUS
    <3>1. j \in 1 .. (n - 1) + 1 /\ (1 + j) - 1 = j
      OBVIOUS
    <3>2. s1[j] = a[j] /\ s2[j] = t[j]
      BY <2>5, <2>6, <3>1
    <3> QED
      BY <1>3, <2>1, <3>2
  <2> QED
    BY <2>1, <2>2, <2>3, <2>5, <2>6, <2>7, <2>8, SeqEqual
<1> QED
  BY <1>1, <1>2, <1>3, <1>4 DEF IsPrefix

-------------------------------------------------------------------------------
(* What kmain has made of the map so far.                                    *)

MapInv ==
  /\ step = "entry" => index = 1 /\ added = <<>>
  /\ \A k \in 0 .. Len(info.map) : UsualUpTo(k) =>
       /\ step = "map" /\ index <= k + 1 => added = Usable[index - 1]
       /\ step = "map" /\ index > k => IsPrefix(Usable[k], added)
       /\ MapRead => IsPrefix(Usable[k], added) /\ (k = Len(info.map) => added = Usable[k])

(* What there is to show of a step.                                          *)
MapStepsTo(s, at_index, to_add) ==
  /\ s = "entry" => at_index = 1 /\ to_add = <<>>
  /\ \A k \in 0 .. Len(info.map) : UsualUpTo(k) =>
       /\ s = "map" /\ at_index <= k + 1 => to_add = Usable[at_index - 1]
       /\ s = "map" /\ at_index > k => IsPrefix(Usable[k], to_add)
       /\ s \notin {"entry", "map", "refused"} =>
            IsPrefix(Usable[k], to_add) /\ (k = Len(info.map) => to_add = Usable[k])

LEMMA InfoKept ==
  UNCHANGED info =>
    /\ Usable' = Usable /\ GetMemMapCount' = GetMemMapCount
    /\ GetModuleCount' = GetModuleCount /\ Modules' = Modules
<1> SUFFICES ASSUME info' = info
             PROVE  /\ Usable' = Usable /\ GetMemMapCount' = GetMemMapCount
                    /\ GetModuleCount' = GetModuleCount /\ Modules' = Modules
  OBVIOUS
<1>1. Usable' = Usable
  BY Zenon DEF Usable
<1>2. Buffer' = Buffer
  BY Zenon DEF Buffer
<1>3. GetMemMapCount' = GetMemMapCount
  BY <1>2 DEF GetMemMapCount
<1>4. GetModuleCount' = GetModuleCount /\ Modules' = Modules
  BY DEF GetModuleCount, Modules
<1> QED
  BY <1>1, <1>3, <1>4

LEMMA MapMoves == UNCHANGED info /\ MapStepsTo(step', index', added') => MapInv'
BY InfoKept DEF MapStepsTo, MapInv, MapRead, UsualUpTo

LEMMA InfoType ==
  ASSUME info \in Infos
  PROVE  info.map \in Seq(Entries) /\ info.modules \in Seq([cmdline : CmdLines, exposed : BOOLEAN])
BY InfosAssumption DEF AllInfos

LEMMA AddMapMapInv == MultibootTypeOK /\ MapInv /\ AddMap => MapInv'
<1> SUFFICES ASSUME MultibootTypeOK, MapInv, AddMap PROVE MapStepsTo(step', index', added')
  BY MapMoves DEF AddMap
<1>1. info.map \in Seq(Entries)
  BY InfoType DEF MultibootTypeOK
<1>2. PICK count \in Nat : count = GetMemMapCount
  BY <1>1, MapCount
<1>3. step = "map" /\ index \in 1 .. (count + 1) /\ added \in Seq(Nat \X Nat)
  BY <1>2 DEF AddMap, Reached, MultibootTypeOK
<1>4. CASE count = 0
  BY <1>2, <1>4 DEF AddMap, Refuse, Goto, MapStepsTo
<1>5. CASE count # 0 /\ index <= count
  <2>1. PICK map : map = GetMemMap(index)
    OBVIOUS
  <2>2. /\ added' = IF map.type = 1 THEN Append(added, <<map.addr, map.len>>) ELSE added
        /\ index' = index + 1 /\ step' = "map"
    BY <1>2, <1>3, <1>5, <2>1 DEF AddMap
  <2>3. <<map.addr, map.len>> \in Nat \X Nat
    <3>1. index \in 1 .. GetMemMapCount
      BY <1>2, <1>3, <1>5
    <3> QED
      BY <1>1, <2>1, <3>1, MapTyped
  <2>4. ASSUME NEW k \in 0 .. Len(info.map), UsualUpTo(k), index <= k
        PROVE  added' = Usable[index]
    <3>1. added = Usable[index - 1]
      BY <1>3, <2>4 DEF MapInv
    <3>2. index \in 1 .. k /\ index \in 1 .. Len(info.map)
      BY <1>1, <1>3, <2>4
    <3>3. map = [addr |-> info.map[index].addr, len |-> info.map[index].len, type |-> info.map[index].type]
      BY <1>1, <2>1, <2>4, <3>2, MapWords
    <3>4. Usable[index] = IF info.map[index].type = 1
                          THEN Append(Usable[index - 1], <<info.map[index].addr, info.map[index].len>>)
                          ELSE Usable[index - 1]
      BY <1>1, <3>2, UsableUnfolds
    <3> QED
      BY <2>2, <3>1, <3>3, <3>4
  <2>5. ASSUME NEW k \in 0 .. Len(info.map), UsualUpTo(k)
        PROVE  /\ index' <= k + 1 => added' = Usable[index' - 1]
               /\ index' > k => IsPrefix(Usable[k], added')
    <3>1. k \in Nat /\ index \in Nat /\ index' - 1 = index
      BY <1>1, <1>3, <2>2
    <3>2. index' <= k + 1 => added' = Usable[index' - 1]
      BY <2>2, <2>4, <2>5, <3>1
    <3>3. Usable[k] \in Seq(Nat \X Nat)
      BY <1>1, UsableUnfolds
    <3>4. CASE index = k
      <4>1. added' = Usable[k]
        BY <2>4, <2>5, <3>1, <3>4
      <4>2. IsPrefix(Usable[k], Usable[k])
        BY <3>3, PrefixOfItself
      <4> QED
        BY <3>2, <4>1, <4>2
    <3>5. CASE index > k
      <4>1. IsPrefix(Usable[k], added)
        BY <1>3, <2>5, <3>5 DEF MapInv
      <4>2. IsPrefix(Usable[k], Append(added, <<map.addr, map.len>>))
        BY <1>3, <2>3, <3>3, <4>1, PrefixOfAppend
      <4> QED
        BY <2>2, <3>2, <4>1, <4>2
    <3>6. CASE index < k
      BY <2>2, <3>1, <3>2, <3>6
    <3> QED
      BY <3>1, <3>4, <3>5, <3>6
  <2> QED
    BY <2>2, <2>5 DEF MapStepsTo
<1>6. CASE count # 0 /\ ~(index <= count)
  <2>1. step' = "info" /\ added' = added
    BY <1>2, <1>3, <1>6 DEF AddMap, Goto
  <2>2. ASSUME NEW k \in 0 .. Len(info.map), UsualUpTo(k)
        PROVE  IsPrefix(Usable[k], added) /\ (k = Len(info.map) => added = Usable[k])
    <3>1. k \in Nat /\ count >= k /\ (k = Len(info.map) => count <= k) /\ index = count + 1
      BY <1>1, <1>2, <1>3, <1>6, <2>2, MapCount
    <3>2. index > k /\ (k = Len(info.map) => index <= k + 1 /\ index - 1 = k)
      BY <3>1
    <3> QED
      BY <1>3, <2>2, <3>2 DEF MapInv
  <2> QED
    BY <2>1, <2>2 DEF MapStepsTo
<1> QED
  BY <1>4, <1>5, <1>6

LEMMA CheckInfoMapInv == MultibootTypeOK /\ MapInv /\ CheckInfo => MapInv'
<1> SUFFICES ASSUME MultibootTypeOK, MapInv, CheckInfo PROVE MapStepsTo(step', index', added')
  BY MapMoves DEF CheckInfo
<1>1. info.map \in Seq(Entries)
  BY InfoType DEF MultibootTypeOK
<1>2. step = "entry" /\ index = 1 /\ added = <<>> /\ index' = 1 /\ added' = <<>>
  BY DEF CheckInfo, Reached, Refuse, MapInv
<1>3. step' \in {"map", "refused"}
  BY DEF CheckInfo, Refuse, Goto
<1>4. ASSUME NEW k \in 0 .. Len(info.map), UsualUpTo(k)
      PROVE  /\ 1 <= k + 1 => <<>> = Usable[1 - 1]
             /\ 1 > k => IsPrefix(Usable[k], <<>>)
  <2>1. Usable[0] = <<>> /\ 1 - 1 = 0 /\ k \in Nat
    BY <1>1, UsableUnfolds
  <2>2. Len(<<>>) \in Nat
    OBVIOUS
  <2>3. 1 > k => k = 0
    BY <2>1
  <2> QED
    BY <2>1, <2>2, <2>3, PrefixOfItself
<1> QED
  BY <1>2, <1>3, <1>4, Zenon DEF MapStepsTo

(* The steps after the map has been read.                                    *)
LEMMA LaterMapInv ==
  MapInv /\ (ReserveInfo \/ ReserveModules \/ ReserveLoader \/ AllocateTables \/ FindInitrd) => MapInv'
<1> SUFFICES ASSUME MapInv, ReserveInfo \/ ReserveModules \/ ReserveLoader \/ AllocateTables \/ FindInitrd
             PROVE  MapStepsTo(step', index', added') /\ info' = info
  BY MapMoves
<1>1. /\ MapRead /\ info' = info /\ added' = added
      /\ step' \in {"modules", "loader", "install", "search", "acpi", "refused"}
  BY DEF ReserveInfo, ReserveModules, ReserveLoader, AllocateTables, FindInitrd, Reached, Goto, Refuse, MapRead
<1> QED
  BY <1>1 DEF MapInv, MapStepsTo

LEMMA MultibootTypes ==
  MultibootTypeOK /\ [MultibootNext]_multiboot => MultibootTypeOK'
<1> SUFFICES ASSUME MultibootTypeOK, [MultibootNext]_multiboot PROVE MultibootTypeOK'
  OBVIOUS
<1> USE DEF Reached, Goto, Refuse
<1>1. info.map \in Seq(Entries) /\ info.modules \in Seq([cmdline : CmdLines, exposed : BOOLEAN])
  BY InfoType DEF MultibootTypeOK
<1>2. PICK count \in Nat : count = GetMemMapCount
  BY <1>1, MapCount
<1>3. CASE CheckInfo
  <2>1. UNCHANGED <<info, index, added, cmdlines, initrd>> /\ step' \in {"map", "refused"}
    BY <1>3 DEF CheckInfo
  <2> QED
    BY <2>1, InfoKept DEF MultibootTypeOK
<1>4. CASE AddMap
  <2>1. /\ UNCHANGED <<info, cmdlines, initrd>>
        /\ step' \in {"map", "info", "refused"}
    BY <1>4 DEF AddMap
  <2>2. index \in 1 .. (count + 1)
    BY <1>2 DEF MultibootTypeOK
  <2>3. index' \in 1 .. (count + 1)
    BY <1>2, <1>4, <2>2 DEF AddMap
  <2>4. added' \in Seq(Nat \X Nat)
    <3>1. CASE count # 0 /\ index <= count
      <4>1. PICK map : map = GetMemMap(index)
        OBVIOUS
      <4>2. index \in 1 .. GetMemMapCount
        BY <1>2, <2>2, <3>1
      <4>3. map.addr \in Nat /\ map.len \in Nat
        BY <1>1, <4>1, <4>2, MapTyped
      <4>4. added' = IF map.type = 1 THEN Append(added, <<map.addr, map.len>>) ELSE added
        BY <1>2, <1>4, <3>1, <4>1 DEF AddMap
      <4> QED
        BY <4>3, <4>4 DEF MultibootTypeOK
    <3>2. CASE ~(count # 0 /\ index <= count)
      BY <1>2, <1>4, <3>2 DEF AddMap, MultibootTypeOK
    <3> QED
      BY <3>1, <3>2
  <2> QED
    BY <1>2, <2>1, <2>3, <2>4, InfoKept DEF MultibootTypeOK
<1>5. CASE ReserveInfo \/ ReserveModules \/ ReserveLoader
  <2>1. UNCHANGED <<info, index, added, cmdlines, initrd>>
        /\ step' \in {"modules", "loader", "install", "refused"}
    BY <1>5 DEF ReserveInfo, ReserveModules, ReserveLoader
  <2> QED
    BY <2>1, InfoKept DEF MultibootTypeOK
<1>6. CASE AllocateTables
  <2>1. UNCHANGED <<info, index, added, initrd>> /\ step' = "search"
        /\ cmdlines' \in [Modules -> CmdLines]
    BY <1>6 DEF AllocateTables
  <2> QED
    BY <2>1, InfoKept DEF MultibootTypeOK
<1>7. CASE FindInitrd
  <2>1. UNCHANGED <<info, index, added, cmdlines>> /\ step' \in {"refused", "acpi"}
        /\ initrd' = FindModuleByCmdLine
    BY <1>7 DEF FindInitrd
  <2>2. FindModuleByCmdLine \in 0 .. Len(info.modules)
    BY <1>1, FoundFirst
  <2> QED
    BY <2>1, <2>2, InfoKept DEF MultibootTypeOK
<1>8. CASE UNCHANGED multiboot
  <2>1. UNCHANGED <<info, step, index, added, cmdlines, initrd>>
    BY <1>8 DEF multiboot
  <2> QED
    BY <2>1, InfoKept DEF MultibootTypeOK
<1> QED
  BY <1>3, <1>4, <1>5, <1>6, <1>7, <1>8 DEF MultibootNext

LEMMA MultibootInitTypes == MultibootInit => MultibootTypeOK /\ MapInv
<1> SUFFICES ASSUME MultibootInit PROVE MultibootTypeOK /\ MapInv
  OBVIOUS
<1>1. info.map \in Seq(Entries) /\ info.modules \in Seq([cmdline : CmdLines, exposed : BOOLEAN])
  BY InfoType DEF MultibootInit
<1>2. 1 \in 1 .. (GetMemMapCount + 1)
  BY <1>1, MapCount
<1>3. cmdlines \in [Modules -> CmdLines] /\ 0 \in 0 .. Len(info.modules)
  <2>1. \A m \in Modules : info.modules[m].cmdline \in CmdLines
    <3> SUFFICES ASSUME NEW m \in Modules PROVE info.modules[m].cmdline \in CmdLines
      OBVIOUS
    <3>1. PICK module : module = info.modules[m]
      OBVIOUS
    <3>2. module \in [cmdline : CmdLines, exposed : BOOLEAN]
      <4>1. PICK modules : modules = info.modules
        OBVIOUS
      <4>2. modules \in Seq([cmdline : CmdLines, exposed : BOOLEAN]) /\ m \in DOMAIN modules
        BY <1>1, <4>1, Zenon DEF Modules
      <4>3. modules[m] \in [cmdline : CmdLines, exposed : BOOLEAN]
        <5> DEFINE M == [cmdline : CmdLines, exposed : BOOLEAN]
        <5>1. modules \in Seq(M) /\ m \in DOMAIN modules
          BY <4>2, Zenon
        <5> HIDE DEF M
        <5>2. modules[m] \in M
          BY <5>1
        <5> QED
          BY <5>2 DEF M
      <4> QED
        BY <3>1, <4>1, <4>3, Zenon
    <3> QED
      BY <3>1, <3>2
  <2>2. Len(info.modules) \in Nat
    BY <1>1
  <2> QED
    BY <2>1, <2>2 DEF MultibootInit
<1>4. <<>> \in Seq(Nat \X Nat)
  OBVIOUS
<1>5. MultibootTypeOK
  BY <1>2, <1>3, <1>4 DEF MultibootInit, MultibootTypeOK
<1> QED
  BY <1>5 DEF MultibootInit, MapInv, MapRead

-------------------------------------------------------------------------------
(* What is reserved, what of the command lines is as it was, what was found. *)

Kept == {<<"low page">>, <<"info">>, <<"table">>} \cup {<<"image", m>> : m \in Modules}

Found ==
  (\A m \in Modules : ~info.modules[m].exposed) =>
    LET says == {m \in Modules : IsPrefix(Initrd, info.modules[m].cmdline)}
    IN  IF says = {} THEN initrd = 0 ELSE initrd \in says /\ \A m \in says : initrd <= m

FindInv ==
  /\ step \in {"entry", "map", "info"} => reserved = {}
  /\ step = "modules" => reserved = {<<"low page">>, <<"info">>}
  /\ step \in {"loader", "install", "search", "acpi"} => info.mods /\ Kept \subseteq reserved
  /\ step \in {"install", "search", "acpi"} => <<"loader">> \in reserved
  /\ (step = "refused" /\ <<"loader">> \in reserved) => Kept \subseteq reserved /\ Found
  /\ step = "acpi" => Found
  /\ \A m \in Modules : ~info.modules[m].exposed => cmdlines[m] = info.modules[m].cmdline

LEMMA InitFindInv == MultibootInit => FindInv
BY DEF MultibootInit, FindInv

LEMMA NothingYet ==
  /\ <<"loader">> \notin {}
  /\ <<"loader">> \notin {<<"low page">>, <<"info">>}
OBVIOUS

LEMMA ReserveModulesFindInv == MultibootTypeOK /\ FindInv /\ ReserveModules => FindInv'
<1> SUFFICES ASSUME MultibootTypeOK, FindInv, ReserveModules PROVE FindInv'
  OBVIOUS
<1>1. /\ step = "modules" /\ info' = info /\ cmdlines' = cmdlines
      /\ reserved = {<<"low page">>, <<"info">>}
  BY DEF ReserveModules, Reached, Refuse, FindInv
<1>2. CASE GetModuleCount = 0
  <2>1. step' = "refused" /\ reserved' = reserved
    BY <1>2 DEF ReserveModules, Refuse, Goto
  <2> QED
    BY <1>1, <2>1, NothingYet, InfoKept DEF FindInv
<1>3. CASE GetModuleCount # 0
  <2>1. /\ step' = "loader"
        /\ reserved' = reserved \cup {<<"image", m>> : m \in 1 .. GetModuleCount} \cup {<<"table">>}
    BY <1>3 DEF ReserveModules, Goto
  <2>2. info.mods /\ 1 .. GetModuleCount = Modules
    BY <1>3, InfoType DEF GetModuleCount, Modules, MultibootTypeOK
  <2>3. Kept \subseteq reserved'
    BY <1>1, <2>1, <2>2 DEF Kept
  <2>4. Kept' = Kept
    BY <1>1, InfoKept DEF Kept
  <2> QED
    BY <1>1, <2>1, <2>2, <2>3, <2>4, InfoKept DEF FindInv
<1> QED
  BY <1>2, <1>3

LEMMA FindInitrdFindInv == MultibootTypeOK /\ FindInv /\ FindInitrd => FindInv'
<1> SUFFICES ASSUME MultibootTypeOK, FindInv, FindInitrd PROVE FindInv'
  OBVIOUS
<1>1. /\ step = "search" /\ info' = info /\ cmdlines' = cmdlines /\ reserved' = reserved
      /\ step' \in {"refused", "acpi"} /\ initrd' = FindModuleByCmdLine
  BY DEF FindInitrd, Reached, Goto
<1>2. info.mods /\ Kept \subseteq reserved /\ <<"loader">> \in reserved
  BY <1>1 DEF FindInv
<1>3. 1 .. GetModuleCount = Modules
  BY <1>2, InfoType DEF GetModuleCount, Modules, MultibootTypeOK
<1>4. Found'
  <2> SUFFICES ASSUME \A m \in Modules : ~info.modules[m].exposed
               PROVE  LET says == {m \in Modules : IsPrefix(Initrd, info.modules[m].cmdline)}
                      IN  IF says = {} THEN initrd' = 0
                          ELSE initrd' \in says /\ \A m \in says : initrd' <= m
    BY <1>1, InfoKept DEF Found
  <2>1. \A m \in Modules : SaysInitrd(cmdlines[m]) <=> IsPrefix(Initrd, info.modules[m].cmdline)
    BY DEF FindInv, SaysInitrd
  <2>2. {m \in 1 .. GetModuleCount : SaysInitrd(cmdlines[m])} =
          {m \in Modules : IsPrefix(Initrd, info.modules[m].cmdline)}
    BY <1>3, <2>1
  <2> QED
    BY <1>1, <2>2, FoundFirst, InfoType DEF MultibootTypeOK
<1>5. Kept' = Kept
  BY <1>1, InfoKept DEF Kept
<1> QED
  BY <1>1, <1>2, <1>4, <1>5, InfoKept DEF FindInv

LEMMA OtherFindInv ==
  MultibootTypeOK /\ FindInv
    /\ (CheckInfo \/ AddMap \/ ReserveInfo \/ ReserveLoader \/ AllocateTables) => FindInv'
<1> SUFFICES ASSUME MultibootTypeOK, FindInv,
                    CheckInfo \/ AddMap \/ ReserveInfo \/ ReserveLoader \/ AllocateTables
             PROVE  FindInv'
  OBVIOUS
<1> USE DEF Reached, Goto, Refuse
<1>1. info' = info /\ Modules' = Modules /\ Kept' = Kept
  <2>1. info' = info
    BY DEF CheckInfo, AddMap, ReserveInfo, ReserveLoader, AllocateTables
  <2> QED
    BY <2>1, InfoKept DEF Kept
<1>2. CASE CheckInfo \/ AddMap
  <2>1. /\ step \in {"entry", "map"} /\ step' \in {"map", "info", "refused"}
        /\ reserved' = reserved /\ cmdlines' = cmdlines
    BY <1>2 DEF CheckInfo, AddMap
  <2> QED
    BY <1>1, <2>1, NothingYet DEF FindInv
<1>3. CASE ReserveInfo
  BY <1>1, <1>3 DEF ReserveInfo, FindInv
<1>4. CASE ReserveLoader
  BY <1>1, <1>4 DEF ReserveLoader, FindInv
<1>5. CASE AllocateTables
  <2>1. /\ step = "install" /\ step' = "search" /\ reserved' = reserved
        /\ \A m \in Modules : ~info.modules[m].exposed => cmdlines'[m] = cmdlines[m]
    BY <1>5 DEF AllocateTables
  <2> QED
    BY <1>1, <2>1 DEF FindInv
<1> QED
  BY <1>2, <1>3, <1>4, <1>5

(* What kmain knows of GRUB's tables keeps its types, and what it reads of   *)
(* the map are numbers, beyond the entries of the usual size, too.           *)
THEOREM MultibootTypeCorrect == MultibootSpec => []MultibootTypeOK
<1>1. MultibootInit => MultibootTypeOK
  BY MultibootInitTypes
<1> QED
  BY <1>1, MultibootTypes, PTL DEF MultibootSpec

LEMMA AlwaysMapInv == MultibootSpec => []MapInv
<1>1. MultibootInit => MapInv
  BY MultibootInitTypes
<1>2. MultibootTypeOK /\ MapInv /\ [MultibootNext]_multiboot => MapInv'
  <2>1. MapInv /\ UNCHANGED multiboot => MapInv'
    <3> SUFFICES ASSUME MapInv, UNCHANGED multiboot PROVE MapInv'
      OBVIOUS
    <3>1. UNCHANGED <<info, step, index, added>>
      BY DEF multiboot
    <3> QED
      BY <3>1, MapMoves DEF MapInv, MapStepsTo, MapRead
  <2> QED
    BY <2>1, CheckInfoMapInv, AddMapMapInv, LaterMapInv DEF MultibootNext
<1> QED
  BY <1>1, <1>2, MultibootTypeCorrect, PTL DEF MultibootSpec

LEMMA AlwaysFindInv == MultibootSpec => []FindInv
<1>1. MultibootTypeOK /\ FindInv /\ [MultibootNext]_multiboot => FindInv'
  <2>1. FindInv /\ UNCHANGED multiboot => FindInv'
    <3> SUFFICES ASSUME FindInv, UNCHANGED multiboot PROVE FindInv'
      OBVIOUS
    <3>1. UNCHANGED <<info, step, reserved, cmdlines, initrd>>
      BY DEF multiboot
    <3> QED
      BY <3>1, InfoKept DEF FindInv, Found, Kept
  <2> QED
    BY <2>1, ReserveModulesFindInv, FindInitrdFindInv, OtherFindInv DEF MultibootNext
<1> QED
  BY <1>1, InitFindInv, MultibootTypeCorrect, PTL DEF MultibootSpec

(* For a memory map of any length, and words of any width, the allocator is  *)
(* given the usable ranges in GRUB's order, up to the first entry that is    *)
(* not of the size the code takes all to be of.                              *)
THEOREM UsableRangesAdded == MultibootSpec => []MapReadRight
<1>1. MultibootTypeOK /\ MapInv => MapReadRight
  <2> SUFFICES ASSUME MultibootTypeOK, MapInv, NEW k \in 0 .. Len(info.map), UsualUpTo(k)
               PROVE  /\ step = "map" /\ index = k + 1 => added = Usable[k]
                      /\ (step = "map" /\ index > k) \/ MapRead => IsPrefix(Usable[k], added)
                      /\ MapRead /\ k = Len(info.map) => added = Usable[k]
    BY DEF MapReadRight
  <2>1. k \in Nat
    BY InfoType DEF MultibootTypeOK
  <2>2. index = k + 1 => index <= k + 1 /\ index - 1 = k
    BY <2>1
  <2> QED
    BY <2>2 DEF MapInv
<1> QED
  BY <1>1, MultibootTypeCorrect, AlwaysMapInv, PTL

(* For any modules and command lines, the ram disk is the first that says    *)
(* so, and nothing that is still needed can have been lent before.           *)
THEOREM RamDiskFound == MultibootSpec => []InitrdFound
<1>1. FindInv => InitrdFound
  BY DEF FindInv, InitrdFound, Found, Kept
<1> QED
  BY <1>1, AlwaysFindInv, PTL

-----------------------------------------------------------------------------
(* kmain as a whole.                                                         *)

(* Whichever part kmain is in, the others' state stays as it is; so what     *)
(* holds of each of them by itself holds of it in kmain.                     *)
LEMMA StepsOfParts ==
  KmainNext => [LoadNext]_allVars /\ [MultibootNext]_multiboot /\ [AcpiNext]_acpi
<1>1. ReadGrubTables \/ InstallPaging => [LoadNext]_allVars /\ [MultibootNext]_multiboot /\ [AcpiNext]_acpi
  BY DEF ReadGrubTables, InstallPaging, LoadNext, MultibootNext
<1>2. MapPages \/ MapRamDisk => [LoadNext]_allVars /\ [MultibootNext]_multiboot /\ [AcpiNext]_acpi
  BY DEF MapPages, MapRamDisk, LoadNext
<1>3. LookForRamDisk => [LoadNext]_allVars /\ [MultibootNext]_multiboot /\ [AcpiNext]_acpi
  BY DEF LookForRamDisk, LoadNext, MultibootNext
<1>4. InstallAcpi \/ AcpiInstalled => [LoadNext]_allVars /\ [MultibootNext]_multiboot /\ [AcpiNext]_acpi
  BY DEF InstallAcpi, AcpiInstalled, LoadNext
<1>5. StartKernel => [LoadNext]_allVars /\ [MultibootNext]_multiboot /\ [AcpiNext]_acpi
  BY DEF StartKernel, LoadNext
<1> QED
  BY <1>1, <1>2, <1>3, <1>4, <1>5 DEF KmainNext

THEOREM PartsKeepTheirWays == KmainSpec => LoadSpec /\ MultibootSpec /\ AcpiSpec
<1>1. KmainInit => LoadInit /\ MultibootInit /\ AcpiInit
  BY DEF KmainInit
<1>2. [KmainNext]_kmainVars => [LoadNext]_allVars /\ [MultibootNext]_multiboot /\ [AcpiNext]_acpi
  BY StepsOfParts DEF kmainVars
<1> QED
  BY <1>1, <1>2, PTL DEF KmainSpec, LoadSpec, MultibootSpec, AcpiSpec

(* The types of all parts, all along.                                        *)
THEOREM KmainTypesHold == CleanStarts => (KmainSpec /\ []FramesLeft => []TypesOK)
<1> SUFFICES ASSUME CleanStarts
             PROVE  KmainSpec /\ []FramesLeft => []TypesOK
  OBVIOUS
<1>1. LoadSpec /\ []FramesLeft => []LoadTypeOK
  BY LoadTypesHold
<1>2. LoadTypeOK /\ MultibootTypeOK /\ AcpiTypeOK => TypesOK
  BY DEF TypesOK
<1> QED
  BY <1>1, <1>2, PartsKeepTheirWays, MultibootTypeCorrect, AcpiTypeCorrect, PTL

(* What the parts promise, kmain keeps.                                      *)
THEOREM KmainReadsTablesRight ==
  KmainSpec => []MapReadRight /\ []InitrdFound /\ []FoundIsGood /\ []RsdtInside /\ []CountsListed
  BY PartsKeepTheirWays, UsableRangesAdded, RamDiskFound, FirstRsdpFound, TablesReadInside,
     ListedAreStarted, PTL

THEOREM KmainHandsOver ==
  CleanStarts => (KmainSpec /\ []FramesLeft =>
                    []KernelInPlace /\ []LoaderStaysMapped /\ []EntryRuns)
<1> SUFFICES ASSUME CleanStarts
             PROVE  KmainSpec /\ []FramesLeft => []KernelInPlace /\ []LoaderStaysMapped /\ []EntryRuns
  OBVIOUS
<1>1. LoadSpec /\ []FramesLeft => []KernelInPlace /\ []LoaderStaysMapped /\ []EntryRuns
  BY KernelStaysInPlace, LoaderIsStillThere, KernelStarts, PTL
<1> QED
  BY <1>1, PartsKeepTheirWays, PTL

(* How far Multiboot and Acpi are when LoadKernel is at phase.               *)
TurnInv ==
  /\ phase = "install" => step \notin {"search", "acpi"}
  /\ phase # "install" => step \in {"search", "acpi", "refused"}
  /\ phase = "loader" => step = "search"
  /\ phase = "initrd" => step \in {"search", "acpi"}
  /\ phase \in {"acpi"} \cup Started => step = "acpi"
  /\ step = "acpi" => initrd \in Modules
  /\ phase # "install" => AllReserved \subseteq reserved
  /\ phase \in Started => at = "done"

LEMMA TurnStep ==
  ASSUME TypesOK, FindInv, TurnInv, MultibootTypeOK', [KmainNext]_kmainVars
  PROVE  TurnInv'
<1>1. CASE ReadGrubTables
  <2>1. phase = "install" => TurnInv'
    BY <1>1 DEF ReadGrubTables, TurnInv, Started, allVars, loadVars, CheckInfo, AddMap,
       ReserveInfo, ReserveModules, ReserveLoader, Reached, Goto, Refuse
  <2>2. phase = "install"
    BY <1>1 DEF ReadGrubTables, TurnInv, CheckInfo, AddMap, ReserveInfo, ReserveModules,
       ReserveLoader, Reached
  <2> QED
    BY <2>1, <2>2
<1>2. CASE InstallPaging
  <2>1. /\ phase = "install" /\ phase' = "loader" /\ step = "install" /\ step' = "search"
        /\ UNCHANGED <<info, reserved, initrd>>
    BY <1>2 DEF InstallPaging, InstallTables, AllocateTables, Reached, Goto, At
  <2>2. AllReserved \subseteq reserved
    BY <2>1 DEF FindInv, AllReserved, Kept
  <2>3. AllReserved' = AllReserved
    BY <2>1 DEF AllReserved, Modules
  <2> QED
    BY <2>1, <2>2, <2>3 DEF TurnInv, Started
<1>3. CASE LookForRamDisk
  <2>1. /\ phase = "initrd" /\ step = "search" /\ UNCHANGED <<info, reserved, at>>
        /\ IF initrd' = 0 THEN step' = "refused" /\ phase' = "stopped"
           ELSE step' = "acpi" /\ phase' = phase
    BY <1>3 DEF LookForRamDisk, FindInitrd, GiveUp, Reached, Goto, At, allVars, loadVars, acpi
  <2>2. info' \in AllInfos /\ initrd' \in 0 .. Len(info'.modules)
    BY InfosAssumption DEF MultibootTypeOK
  <2>3. initrd' # 0 => initrd' \in Modules'
    <3>1. PICK S, s : s = info'.modules /\ s \in Seq(S)
      BY <2>2 DEF AllInfos
    <3>2. Len(s) \in Nat /\ DOMAIN s = 1 .. Len(s)
      BY <3>1
    <3> QED
      BY <2>2, <3>1, <3>2 DEF Modules
  <2>4. AllReserved' = AllReserved
    BY <2>1 DEF AllReserved, Modules
  <2> QED
    BY <2>1, <2>3, <2>4 DEF TurnInv, Started
<1>4. CASE MapPages \/ MapRamDisk \/ AcpiInstalled \/ StartKernel
  <2>1. /\ UNCHANGED <<info, step, reserved, initrd, at>>
        /\ \/ phase' = phase
           \/ phase = "loader" /\ phase' = "initrd"
           \/ phase = "initrd" /\ phase' = "acpi" /\ step = "acpi"
           \/ phase = "acpi" /\ phase' = "find" /\ at = "done"
           \/ phase \in Started /\ phase' \in Started \cup {"stopped"}
    <3>1. UNCHANGED <<info, step, reserved, initrd, at>>
      BY <1>4 DEF MapPages, MapRamDisk, AcpiInstalled, StartKernel, multiboot, acpi
    <3>2. CASE MapPages
      BY <3>1, <3>2 DEF MapPages, MapLoader, MapPage, At
    <3>3. CASE MapRamDisk
      BY <3>1, <3>3 DEF MapRamDisk, LoadRamDisk, At, Reached
    <3>4. CASE AcpiInstalled
      BY <3>1, <3>4 DEF AcpiInstalled, StartProcessors, At
    <3>5. CASE StartKernel
      <4>1. CASE FindKernel \/ (phase # "initrd" /\ GiveUp)
        BY <3>1, <4>1 DEF FindKernel, GiveUp, At, Started
      <4>2. CASE SkipSection \/ LoadSection \/ NoRoom
        BY <3>1, <4>2 DEF SkipSection, LoadSection, NoRoom, At, Started
      <4>3. CASE Loaded \/ EnablePaging
        BY <3>1, <4>3 DEF Loaded, EnablePaging, At, Started
      <4> QED
        BY <3>5, <4>1, <4>2, <4>3 DEF StartKernel
    <3> QED
      BY <1>4, <3>2, <3>3, <3>4, <3>5
  <2>2. AllReserved' = AllReserved /\ Modules' = Modules
    BY <2>1 DEF AllReserved, Modules
  <2> QED
    BY <2>1, <2>2 DEF TurnInv, Started
<1>5. CASE InstallAcpi
  <2>1. phase = "acpi" /\ UNCHANGED <<info, step, reserved, initrd, phase>>
    BY <1>5 DEF InstallAcpi, At, allVars, loadVars, multiboot
  <2>2. AllReserved' = AllReserved /\ Modules' = Modules
    BY <2>1 DEF AllReserved, Modules
  <2> QED
    BY <2>1, <2>2 DEF TurnInv, Started
<1>6. CASE UNCHANGED kmainVars
  <2>1. UNCHANGED <<info, step, reserved, initrd, phase, at>>
    BY <1>6 DEF kmainVars, allVars, loadVars, multiboot, acpi
  <2>2. AllReserved' = AllReserved /\ Modules' = Modules
    BY <2>1 DEF AllReserved, Modules
  <2> QED
    BY <2>1, <2>2 DEF TurnInv
<1> QED
  BY <1>1, <1>2, <1>3, <1>4, <1>5, <1>6 DEF KmainNext

(* Nothing is lent before all that kmain still needs is reserved, and the    *)
(* kernel is not loaded before a ram disk was found and the search for       *)
(* processors is over, for whatever tables the machine has.                  *)
THEOREM KmainInTurn == CleanStarts => (KmainSpec /\ []FramesLeft => []InTurn)
<1> SUFFICES ASSUME CleanStarts
             PROVE  KmainSpec /\ []FramesLeft => []InTurn
  OBVIOUS
<1>1. KmainInit => TurnInv
  BY DEF KmainInit, LoadInit, MultibootInit, TurnInv, Started
<1>2. TypesOK /\ TypesOK' /\ FindInv /\ TurnInv /\ [KmainNext]_kmainVars => TurnInv'
  BY TurnStep DEF TypesOK
<1>3. TurnInv => InTurn
  BY DEF TurnInv, InTurn, Started
<1>4. KmainSpec => []FindInv
  BY PartsKeepTheirWays, AlwaysFindInv, PTL
<1>5. KmainSpec /\ []FramesLeft => []TypesOK
  BY KmainTypesHold
<1> QED
  BY <1>1, <1>2, <1>3, <1>4, <1>5, PTL DEF KmainSpec
=============================================================================
