---------------------------- MODULE BuildRdProofs ----------------------------
(***************************************************************************)
(* Proofs about buildrd and the image it writes, for files of any number   *)
(* and size: the list is a ring without repeated names, the image holds    *)
(* what the list held, for the tool's reader and for the loader's, and     *)
(* together they are the set of files that RamDisk describes.              *)
(***************************************************************************)
EXTENDS DiskBoot, WellFoundedInduction, SequenceTheorems, FiniteSetTheorems, TLAPS

(* Induction, with a set in the place of the predicate. *)
LEMMA NatWellFounded == IsWellFoundedOn({ss \in Nat \X Nat : ss[1] < ss[2]}, Nat)
  BY NatLessThanWellFounded DEF OpToRel

LEMMA LeastElement ==
  ASSUME NEW T, T \subseteq Nat, T # {}
  PROVE  \E x \in T : \A y \in T : x <= y
<1> DEFINE R == {ss \in Nat \X Nat : ss[1] < ss[2]}
<1>1. IsWellFoundedOn(R, Nat)
  BY NatWellFounded
<1> HIDE DEF R
<1>2. PICK x \in T : \A y \in T : <<y, x>> \notin R
  BY <1>1, WFMin
<1>3. \A y \in T : ~(y < x)
  BY <1>2 DEF R
<1> QED
  BY <1>3

LEMMA SetInduction ==
  ASSUME NEW S, 0 \in S, \A n \in Nat : n \in S => n + 1 \in S
  PROVE  Nat \subseteq S
<1> SUFFICES ASSUME Nat \ S # {} PROVE FALSE
  OBVIOUS
<1>1. PICK x \in Nat \ S : \A y \in Nat \ S : x <= y
  BY LeastElement
<1>2. x # 0 /\ x - 1 \in Nat
  BY <1>1
<1>3. x - 1 \in S
  BY <1>1, <1>2
<1> QED
  BY <1>1, <1>2, <1>3

(* What is built step by step is there. *)
Builds(g, n, T, a, F) ==
  g \in [0 .. n -> T] /\ g[0] = a /\ \A j \in 1 .. n : g[j] = F[<<j, g[j - 1]>>]

LEMMA StepByStep ==
  ASSUME NEW n \in Nat, NEW T, NEW a \in T, NEW F \in [(1 .. n) \X T -> T]
  PROVE  \E g : Builds(g, n, T, a, F)
<1> DEFINE S == {m \in Nat : m <= n => \E g : Builds(g, m, T, a, F)}
<1>1. 0 \in S
  <2>1. Builds([k \in 0 .. 0 |-> a], 0, T, a, F)
    BY DEF Builds
  <2> QED
    BY <2>1
<1>2. ASSUME NEW m \in Nat, m \in S
      PROVE  m + 1 \in S
  <2> SUFFICES ASSUME m + 1 <= n PROVE \E g : Builds(g, m + 1, T, a, F)
    OBVIOUS
  <2>1. PICK g : Builds(g, m, T, a, F)
    BY <1>2
  <2> DEFINE h == [k \in 0 .. (m + 1) |-> IF k \in 0 .. m THEN g[k] ELSE F[<<k, g[k - 1]>>]]
  <2>2. g[m] \in T /\ m + 1 \in 1 .. n
    BY <2>1 DEF Builds
  <2>3. F[<<m + 1, g[m]>>] \in T
    BY <2>2
  <2>4. \A k \in 0 .. m : h[k] = g[k] /\ g[k] \in T
    BY <2>1 DEF Builds
  <2>5. h[m + 1] = F[<<m + 1, g[m]>>]
    OBVIOUS
  <2>6. h \in [0 .. (m + 1) -> T]
    BY <2>1, <2>3 DEF Builds
  <2> HIDE DEF h
  <2>7. \A j \in 1 .. (m + 1) : h[j] = F[<<j, h[j - 1]>>]
    <3>1. \A j \in 1 .. m : j - 1 \in 0 .. m /\ j \in 0 .. m
      OBVIOUS
    <3>2. \A j \in 1 .. m : h[j] = F[<<j, h[j - 1]>>]
      BY <2>1, <2>4, <3>1 DEF Builds
    <3>3. h[m + 1] = F[<<m + 1, h[(m + 1) - 1]>>]
      BY <2>4, <2>5
    <3>4. \A j \in 1 .. (m + 1) : j \in 1 .. m \/ j = m + 1
      OBVIOUS
    <3> QED
      BY <3>2, <3>3, <3>4
  <2>8. Builds(h, m + 1, T, a, F)
    BY <2>1, <2>4, <2>6, <2>7 DEF Builds
  <2> QED
    BY <2>8
<1>3. \E g : Builds(g, n, T, a, F)
  <2> HIDE DEF S
  <2>1. n \in S
    BY <1>1, <1>2, SetInduction
  <2> QED
    BY <2>1 DEF S
<1> QED
  BY <1>3

-----------------------------------------------------------------------------
(* The format. *)

LEMMA SumUnfolds ==
  ASSUME NEW sizes \in Seq(Nat)
  PROVE  /\ SumTo(sizes, 0) = 0
         /\ \A k \in 0 .. Len(sizes) : SumTo(sizes, k) \in Nat
         /\ \A k \in 1 .. Len(sizes) : SumTo(sizes, k) = SumTo(sizes, k - 1) + sizes[k]
<1> DEFINE n == Len(sizes)
           IsSum(g) == g = [j \in 0 .. n |-> IF j = 0 THEN 0 ELSE g[j - 1] + sizes[j]]
           sum == CHOOSE g : IsSum(g)
           F == [p \in (1 .. n) \X Nat |-> p[2] + sizes[p[1]]]
<1>1. F \in [(1 .. n) \X Nat -> Nat] /\ n \in Nat
  OBVIOUS
<1>2. PICK g : Builds(g, n, Nat, 0, F)
  <2> HIDE DEF F, n
  <2>1. 0 \in Nat
    OBVIOUS
  <2> QED
    BY <1>1, <2>1, StepByStep, Zenon
<1>3. IsSum(g)
  <2>1. g[0] = 0 /\ \A j \in 1 .. n : g[j] = g[j - 1] + sizes[j]
    <3>1. g \in [0 .. n -> Nat] /\ g[0] = 0 /\ \A j \in 1 .. n : g[j] = F[<<j, g[j - 1]>>]
      BY <1>2 DEF Builds
    <3>2. \A j \in 1 .. n : g[j - 1] \in Nat
      BY <3>1
    <3>3. \A j \in 1 .. n : F[<<j, g[j - 1]>>] = g[j - 1] + sizes[j]
      BY <3>2
    <3> QED
      BY <3>1, <3>3
  <2>2. \A j \in 0 .. n : g[j] = IF j = 0 THEN 0 ELSE g[j - 1] + sizes[j]
    BY <2>1
  <2>3. g = [j \in 0 .. n |-> g[j]]
    BY <1>2 DEF Builds
  <2> QED
    BY <2>2, <2>3, Zenon
<1>4. IsSum(sum)
  BY <1>3, Zenon
<1>5. \A k : SumTo(sizes, k) = sum[k]
  BY Zenon DEF SumTo
<1> HIDE DEF sum
<1>6. \A j \in 0 .. n : sum[j] = IF j = 0 THEN 0 ELSE sum[j - 1] + sizes[j]
  BY <1>4
<1> DEFINE S == {k \in Nat : k <= n => sum[k] \in Nat}
<1>7. 0 \in S
  BY <1>6
<1>8. \A k \in Nat : k \in S => k + 1 \in S
  BY <1>6
<1> HIDE DEF S
<1>9. Nat \subseteq S
  BY <1>7, <1>8, SetInduction
<1>10. \A k \in 0 .. n : sum[k] \in Nat
  BY <1>9 DEF S
<1> HIDE DEF IsSum
<1>11. \A j \in 1 .. n : j \in 0 .. n /\ j # 0
  BY <1>1
<1>12. 0 \in 0 .. n
  BY <1>1
<1> QED
  BY <1>5, <1>6, <1>10, <1>11, <1>12, Zenon

(* The parts of an image one after the other. *)
LEMMA FlattenUnfolds ==
  ASSUME NEW S, NEW parts \in Seq(Seq(S))
  PROVE  \E f \in [0 .. Len(parts) -> Seq(S)] :
           /\ f[0] = <<>>
           /\ \A k \in 1 .. Len(parts) : f[k] = f[k - 1] \o parts[k]
           /\ Seqs!FlattenSeq(parts) = f[Len(parts)]
<1> DEFINE n == Len(parts)
           T == Seq(S)
           F == [p \in (1 .. n) \X T |-> p[2] \o parts[p[1]]]
<1>1. n \in Nat /\ <<>> \in T /\ \A k \in 1 .. n : parts[k] \in T
  OBVIOUS
<1>2. F \in [(1 .. n) \X T -> T]
  <2>1. \A k \in 1 .. n, s \in T : s \o parts[k] \in T
    BY <1>1
  <2> HIDE DEF T, n
  <2> QED
    BY <2>1
<1>3. PICK f : Builds(f, n, T, <<>>, F)
  <2> HIDE DEF F, n, T
  <2> QED
    BY <1>1, <1>2, StepByStep, Zenon
<1>4. f \in [0 .. n -> T] /\ f[0] = <<>>
  BY <1>3 DEF Builds
<1>5. ASSUME NEW k \in 1 .. n
      PROVE  f[k] = f[k - 1] \o parts[k]
  <2>1. f[k] = F[<<k, f[k - 1]>>]
    BY <1>3 DEF Builds
  <2>2. f[k - 1] \in T
    BY <1>1, <1>4, SMTT(30)
  <2>3. <<k, f[k - 1]>> \in (1 .. n) \X T
    BY <2>2
  <2> HIDE DEF T, n
  <2> QED
    BY <2>1, <2>3
<1>6. Seqs!FlattenSeq(parts) = f[n]
  <2>1. CASE n = 0
    <3>1. parts = <<>>
      BY <2>1
    <3> QED
      BY <1>4, <2>1, <3>1 DEF Seqs!FlattenSeq
  <2>2. CASE n # 0
    <3> DEFINE IsFlat(g) == g = [v \in 1 .. n |-> IF v = 1 THEN parts[v] ELSE g[v - 1] \o parts[v]]
               flat == CHOOSE g : IsFlat(g)
               h == [v \in 1 .. n |-> f[v]]
    <3>1. n \in 1 .. n /\ 1 \in 1 .. n
      BY <1>1, <2>2
    <3>2. f[1] = parts[1]
      <4>1. f[1] = f[1 - 1] \o parts[1]
        BY <1>5, <3>1, Zenon
      <4>2. PICK p \in Seq(S) : p = parts[1]
        BY <1>1, <3>1
      <4>3. <<>> \o p = p
        OBVIOUS
      <4>4. 1 - 1 = 0
        OBVIOUS
      <4> QED
        BY <1>4, <4>1, <4>2, <4>3, <4>4, Zenon
    <3>3. \A v \in 1 .. n : v # 1 => v - 1 \in 1 .. n
      BY <1>1
    <3> HIDE DEF n, T
    <3>4. \A v \in 1 .. n : h[v] = IF v = 1 THEN parts[v] ELSE h[v - 1] \o parts[v]
      BY <1>5, <3>2, <3>3
    <3>5. h = [v \in 1 .. n |-> h[v]]
      OBVIOUS
    <3>6. h[n] = f[n]
      BY <3>1
    <3> HIDE DEF h
    <3>7. IsFlat(h)
      BY <3>4, <3>5, Zenon
    <3>8. IsFlat(flat)
      BY <3>7, Zenon
    <3> HIDE DEF flat
    <3> DEFINE E == {v \in Nat : v \in 1 .. n => flat[v] = f[v]}
    <3>9. 0 \in E
      OBVIOUS
    <3>10. ASSUME NEW v \in Nat, v \in E
           PROVE  v + 1 \in E
      <4> SUFFICES ASSUME v + 1 \in 1 .. n PROVE flat[v + 1] = f[v + 1]
        OBVIOUS
      <4>1. flat[v + 1] = IF v + 1 = 1 THEN parts[v + 1] ELSE flat[(v + 1) - 1] \o parts[v + 1]
        BY <3>8
      <4>2. CASE v = 0
        BY <3>2, <4>1, <4>2
      <4>3. CASE v # 0
        <5>1. v + 1 # 1 /\ (v + 1) - 1 = v /\ v \in 1 .. n
          BY <1>1, <4>3 DEF n
        <5>2. flat[v] = f[v]
          BY <3>10, <5>1
        <5>3. f[v + 1] = f[(v + 1) - 1] \o parts[v + 1]
          BY <1>5
        <5> QED
          BY <4>1, <5>1, <5>2, <5>3
      <4> QED
        BY <4>2, <4>3
    <3>11. flat[n] = f[n]
      <4> HIDE DEF E
      <4>1. n \in E
        BY <1>1, <3>9, <3>10, SetInduction DEF n
      <4> QED
        BY <3>1, <4>1 DEF E
    <3>12. Seqs!FlattenSeq(parts) = flat[n]
      BY <2>2, Zenon DEF Seqs!FlattenSeq, flat, n
    <3> QED
      BY <3>11, <3>12
  <2> QED
    BY <2>1, <2>2
<1> QED
  BY <1>4, <1>5, <1>6

LEMMA FlattenParts ==
  ASSUME NEW S, NEW parts \in Seq(Seq(S)), NEW sizes \in Seq(Nat), Len(sizes) = Len(parts),
         \A k \in 1 .. Len(parts) : Len(parts[k]) = sizes[k]
  PROVE  /\ Seqs!FlattenSeq(parts) \in Seq(S)
         /\ Len(Seqs!FlattenSeq(parts)) = Total(sizes)
         /\ \A k \in 1 .. Len(parts) :
              /\ Before(sizes, k) \in Nat
              /\ Before(sizes, k) + sizes[k] <= Total(sizes)
              /\ \A j \in 1 .. sizes[k] :
                   Seqs!FlattenSeq(parts)[Before(sizes, k) + j] = parts[k][j]
<1> DEFINE n == Len(parts)
           sum(k) == SumTo(sizes, k)
           Flat == Seqs!FlattenSeq(parts)
<1>1. PICK f \in [0 .. n -> Seq(S)] :
           /\ f[0] = <<>>
           /\ \A k \in 1 .. n : f[k] = f[k - 1] \o parts[k]
           /\ Flat = f[n]
  BY FlattenUnfolds
<1>2. /\ n \in Nat /\ sum(0) = 0
      /\ \A k \in 0 .. n : sum(k) \in Nat
      /\ \A k \in 1 .. n : sum(k) = sum(k - 1) + sizes[k]
  BY SumUnfolds
<1>3. \A k \in 1 .. n : parts[k] \in Seq(S) /\ sizes[k] \in Nat /\ Len(parts[k]) = sizes[k]
  OBVIOUS
<1> HIDE DEF n, sum, Flat
<1> DEFINE Inside(m, k) ==
             /\ sum(k - 1) + sizes[k] <= sum(m)
             /\ \A j \in 1 .. sizes[k] : f[m][sum(k - 1) + j] = parts[k][j]
           E == {m \in Nat : m <= n => Len(f[m]) = sum(m) /\ \A k \in 1 .. m : Inside(m, k)}
<1>4. 0 \in E
  BY <1>1, <1>2
<1>5. ASSUME NEW m \in Nat, m \in E
      PROVE  m + 1 \in E
  <2> SUFFICES ASSUME m + 1 <= n
               PROVE  Len(f[m + 1]) = sum(m + 1) /\ \A k \in 1 .. (m + 1) : Inside(m + 1, k)
    OBVIOUS
  <2>1. /\ m \in 0 .. n /\ m + 1 \in 1 .. n /\ (m + 1) - 1 = m
        /\ f[m] \in Seq(S) /\ parts[m + 1] \in Seq(S) /\ sizes[m + 1] \in Nat
    BY <1>1, <1>2, <1>3
  <2>2. f[m + 1] = f[m] \o parts[m + 1] /\ sum(m + 1) = sum(m) + sizes[m + 1]
    BY <1>1, <1>2, <2>1
  <2>3. Len(f[m]) = sum(m) /\ \A k \in 1 .. m : Inside(m, k)
    BY <1>2, <1>5
  <2>4. PICK a \in Seq(S), b \in Seq(S) : a = f[m] /\ b = parts[m + 1]
    BY <2>1
  <2>5. /\ a \o b \in Seq(S) /\ Len(a \o b) = Len(a) + Len(b)
        /\ \A j \in 1 .. (Len(a) + Len(b)) :
             (a \o b)[j] = IF j <= Len(a) THEN a[j] ELSE b[j - Len(a)]
    BY ConcatProperties
  <2>6. Len(a) = sum(m) /\ Len(b) = sizes[m + 1] /\ sum(m) \in Nat
    BY <1>2, <1>3, <2>1, <2>3, <2>4
  <2>7. Len(f[m + 1]) = sum(m + 1)
    BY <2>2, <2>4, <2>5, <2>6
  <2>8. ASSUME NEW k \in 1 .. m
        PROVE  Inside(m + 1, k)
    <3>0. k - 1 \in 0 .. n /\ k \in 1 .. n
      BY <1>2, <2>1
    <3>1. sum(k - 1) \in Nat /\ sizes[k] \in Nat
      BY <1>2, <1>3, <3>0
    <3>2. /\ sum(k - 1) + sizes[k] <= sum(m)
          /\ \A j \in 1 .. sizes[k] : f[m][sum(k - 1) + j] = parts[k][j]
      BY <2>3
    <3>3. ASSUME NEW j \in 1 .. sizes[k]
          PROVE  f[m + 1][sum(k - 1) + j] = parts[k][j]
      <4>1. sum(k - 1) + j \in 1 .. (Len(a) + Len(b)) /\ sum(k - 1) + j <= Len(a)
        <5>1. j \in Nat /\ j > 0 /\ j <= sizes[k]
          BY <3>1
        <5>2. PICK x \in Nat, y \in Nat, z \in Nat, w \in Nat :
                x = sum(k - 1) /\ y = sizes[k] /\ z = Len(a) /\ w = Len(b)
          BY <2>1, <2>6, <3>1
        <5>3. x + y <= z
          BY <2>6, <3>2, <5>2
        <5>4. PICK v \in Nat : v = j /\ v > 0 /\ v <= y
          BY <5>1, <5>2
        <5>5. x + v \in 1 .. (z + w) /\ x + v <= z
          BY <5>3, <5>4
        <5> QED
          BY <5>2, <5>4, <5>5
      <4>2. (a \o b)[sum(k - 1) + j] = a[sum(k - 1) + j]
        BY <2>5, <4>1
      <4> QED
        BY <2>2, <2>4, <3>2, <4>2
    <3>4. sum(k - 1) + sizes[k] <= sum(m + 1)
      <4>1. sum(m + 1) \in Nat /\ sum(m) <= sum(m + 1)
        BY <2>1, <2>2, <2>6, SMTT(30)
      <4> QED
        <5>1. PICK v, w, y, z \in Nat :
                v = sum(k - 1) /\ w = sizes[k] /\ y = sum(m) /\ z = sum(m + 1)
          BY <2>6, <3>1, <4>1
        <5>2. v + w <= y /\ y <= z
          BY <3>2, <4>1, <5>1
        <5> QED
          BY <5>1, <5>2
    <3> QED
      BY <3>3, <3>4
  <2>9. Inside(m + 1, m + 1)
    <3>1. sum((m + 1) - 1) = sum(m)
      BY <2>1
    <3>2. ASSUME NEW j \in 1 .. sizes[m + 1]
          PROVE  f[m + 1][sum(m) + j] = parts[m + 1][j]
      <4>1. sum(m) + j \in 1 .. (Len(a) + Len(b)) /\ ~(sum(m) + j <= Len(a))
            /\ (sum(m) + j) - Len(a) = j
        BY <2>1, <2>6
      <4>2. (a \o b)[sum(m) + j] = b[j]
        BY <2>5, <4>1
      <4> QED
        BY <2>2, <2>4, <4>2
    <3>3. sum(m) + sizes[m + 1] <= sum(m + 1)
      BY <2>1, <2>2, <2>6
    <3> QED
      BY <3>1, <3>2, <3>3
  <2>10. \A k \in 1 .. (m + 1) : k \in 1 .. m \/ k = m + 1
    OBVIOUS
  <2> HIDE DEF Inside
  <2> QED
    BY <2>7, <2>8, <2>9, <2>10
<1>6. Len(f[n]) = sum(n) /\ \A k \in 1 .. n : Inside(n, k)
  <2> HIDE DEF E
  <2>1. n \in E
    BY <1>2, <1>4, <1>5, SetInduction
  <2> QED
    BY <1>2, <2>1 DEF E
<1>7. Total(sizes) = sum(n) /\ \A k : Before(sizes, k) = sum(k - 1)
  BY DEF Total, Before, sum, n
<1>8. Flat \in Seq(S)
  BY <1>1, <1>2
<1>9. \A k \in 1 .. n : sum(k - 1) \in Nat
  BY <1>2
<1> HIDE DEF E
<1> QED
  BY <1>1, <1>6, <1>7, <1>8, <1>9, SMTT(30) DEF Flat, n

(* Cutting a part out of a sequence. *)
LEMMA CutOut ==
  ASSUME NEW S, NEW s \in Seq(S), NEW from \in Nat, NEW t \in Seq(S), from + Len(t) <= Len(s),
         \A j \in 1 .. Len(t) : s[from + j] = t[j]
  PROVE  SubSeq(s, from + 1, from + Len(t)) = t
<1> DEFINE u == SubSeq(s, from + 1, from + Len(t))
<1>1. u = [j \in 1 .. Len(t) |-> s[from + j]]
  BY DEF u
<1>2. t = [j \in 1 .. Len(t) |-> t[j]]
  OBVIOUS
<1> QED
  BY <1>1, <1>2

LEMMA CellsTypes ==
  ASSUME NEW X, NEW x \in X, NEW n \in Nat
  PROVE  /\ Cells(x, n) \in Seq(X \X Nat) /\ Len(Cells(x, n)) = n
         /\ \A j \in 1 .. n : Cells(x, n)[j] = <<x, j>>
<1>1. \A j \in 1 .. n : <<x, j>> \in X \X Nat
  OBVIOUS
<1> QED
  BY <1>1 DEF Cells

(* Files one after the other: each is where the sizes of those before it    *)
(* say.                                                                     *)
Joined(flat, X, n, x, sizes) ==
  /\ flat \in Seq(X \X Nat)
  /\ \A k \in 1 .. n :
       /\ Before(sizes, k) \in Nat
       /\ Before(sizes, k) + sizes[k] <= Len(flat)
       /\ \A j \in 1 .. sizes[k] : flat[Before(sizes, k) + j] = <<x[k], j>>

LEMMA CellsParts ==
  ASSUME NEW X, NEW n \in Nat, NEW x \in [1 .. n -> X], NEW sizes \in [1 .. n -> Nat]
  PROVE  Joined(Seqs!FlattenSeq([k \in 1 .. n |-> Cells(x[k], sizes[k])]), X, n, x, sizes)
<1> DEFINE S == X \X Nat
           parts == [k \in 1 .. n |-> Cells(x[k], sizes[k])]
<1>1. \A k \in 1 .. n : x[k] \in X /\ sizes[k] \in Nat
  OBVIOUS
<1>2. ASSUME NEW k \in 1 .. n
      PROVE  /\ Cells(x[k], sizes[k]) \in Seq(S) /\ Len(Cells(x[k], sizes[k])) = sizes[k]
             /\ \A j \in 1 .. sizes[k] : Cells(x[k], sizes[k])[j] = <<x[k], j>>
  <2>1. PICK y \in X, m \in Nat : y = x[k] /\ m = sizes[k]
    BY <1>1
  <2>2. /\ Cells(y, m) \in Seq(S) /\ Len(Cells(y, m)) = m
        /\ \A j \in 1 .. m : Cells(y, m)[j] = <<y, j>>
    BY CellsTypes
  <2> QED
    BY <2>1, <2>2
<1> HIDE DEF S
<1>3. parts \in Seq(Seq(S)) /\ Len(parts) = n /\ sizes \in Seq(Nat) /\ Len(sizes) = n
  <2> DEFINE T == Seq(S)
  <2>1. \A k \in 1 .. n : Cells(x[k], sizes[k]) \in T
    BY <1>2
  <2> HIDE DEF T
  <2>2. parts \in Seq(T) /\ Len(parts) = n
    BY <2>1
  <2> QED
    BY <2>2 DEF T
<1>4. \A k \in 1 .. Len(parts) : Len(parts[k]) = sizes[k]
  BY <1>2, <1>3
<1>5. \A k \in 1 .. n : parts[k] = Cells(x[k], sizes[k])
  OBVIOUS
<1> HIDE DEF parts
<1>6. /\ Seqs!FlattenSeq(parts) \in Seq(S) /\ Len(Seqs!FlattenSeq(parts)) = Total(sizes)
      /\ \A k \in 1 .. Len(parts) :
           /\ Before(sizes, k) \in Nat
           /\ Before(sizes, k) + sizes[k] <= Total(sizes)
           /\ \A j \in 1 .. sizes[k] :
                Seqs!FlattenSeq(parts)[Before(sizes, k) + j] = parts[k][j]
  <2>1. PICK p \in Seq(Seq(S)), z \in Seq(Nat) : p = parts /\ z = sizes
    BY <1>3
  <2>2. Len(z) = Len(p) /\ \A k \in 1 .. Len(p) : Len(p[k]) = z[k]
    BY <1>3, <1>4, <2>1
  <2>3. /\ Seqs!FlattenSeq(p) \in Seq(S) /\ Len(Seqs!FlattenSeq(p)) = Total(z)
        /\ \A k \in 1 .. Len(p) :
             /\ Before(z, k) \in Nat
             /\ Before(z, k) + z[k] <= Total(z)
             /\ \A j \in 1 .. z[k] : Seqs!FlattenSeq(p)[Before(z, k) + j] = p[k][j]
    BY <2>2, FlattenParts
  <2> QED
    BY <2>1, <2>3
<1>7. ASSUME NEW k \in 1 .. n, NEW j \in 1 .. sizes[k]
      PROVE  Seqs!FlattenSeq(parts)[Before(sizes, k) + j] = <<x[k], j>>
  <2>1. k \in 1 .. Len(parts)
    BY <1>3
  <2>2. Seqs!FlattenSeq(parts)[Before(sizes, k) + j] = parts[k][j]
    BY <1>6, <2>1
  <2>3. parts[k] = Cells(x[k], sizes[k])
    BY <1>5
  <2>4. Cells(x[k], sizes[k])[j] = <<x[k], j>>
    BY <1>2
  <2> QED
    BY <2>2, <2>3, <2>4
<1> QED
  BY <1>3, <1>6, <1>7 DEF parts, S, Joined

(* A stretch of cells that spells a name is that name and no other, ...     *)
LEMMA NameFound ==
  ASSUME NEW img, img.symbols \in Seq(Names \X Nat), NEW from \in Nat, NEW n \in Names,
         from + NameLength[n] <= Len(img.symbols),
         \A j \in 1 .. NameLength[n] : img.symbols[from + j] = <<n, j>>
  PROVE  NameAt(img, from) = n
<1>1. PICK cells \in Seq(Names \X Nat) : cells = img.symbols
  OBVIOUS
<1>2. \A m \in Names : /\ NameLength[m] \in Nat /\ NameLength[m] >= 1
                       /\ Cells(m, NameLength[m]) \in Seq(Names \X Nat)
                       /\ Len(Cells(m, NameLength[m])) = NameLength[m]
                       /\ \A j \in 1 .. NameLength[m] : Cells(m, NameLength[m])[j] = <<m, j>>
  <2>1. ASSUME NEW m \in Names
        PROVE  /\ NameLength[m] \in Nat /\ NameLength[m] >= 1
               /\ Cells(m, NameLength[m]) \in Seq(Names \X Nat)
               /\ Len(Cells(m, NameLength[m])) = NameLength[m]
               /\ \A j \in 1 .. NameLength[m] : Cells(m, NameLength[m])[j] = <<m, j>>
    <3>1. PICK l \in Nat : l = NameLength[m] /\ l >= 1
      <4>1. NameLength[m] \in Nat \ {0}
        BY FormatAssumption
      <4> QED
        BY <4>1
    <3>2. /\ Cells(m, l) \in Seq(Names \X Nat) /\ Len(Cells(m, l)) = l
          /\ \A j \in 1 .. l : Cells(m, l)[j] = <<m, j>>
      BY CellsTypes
    <3> QED
      BY <3>1, <3>2
  <2> QED
    BY <2>1
<1>3. Slice(cells, from, NameLength[n]) = Cells(n, NameLength[n])
  <2>1. PICK t \in Seq(Names \X Nat) : t = Cells(n, NameLength[n])
    BY <1>2
  <2>2. from + Len(t) <= Len(cells) /\ \A j \in 1 .. Len(t) : cells[from + j] = t[j]
    BY <1>1, <1>2, <2>1
  <2>3. SubSeq(cells, from + 1, from + Len(t)) = t
    BY <2>2, CutOut
  <2>4. from \in 0 .. (Len(cells) - NameLength[n])
    BY <1>1, <1>2
  <2> QED
    BY <1>2, <2>1, <2>3, <2>4 DEF Slice
<1>4. ASSUME NEW m \in Names, Slice(cells, from, NameLength[m]) = Cells(m, NameLength[m])
      PROVE  m = n
  <2>0. PICK l \in Nat : l = NameLength[m] /\ 1 \in 1 .. l
    <3>1. NameLength[m] \in Nat /\ NameLength[m] >= 1
      BY <1>2
    <3>2. 1 \in 1 .. NameLength[m]
      BY <3>1
    <3> QED
      BY <3>1, <3>2
  <2>1. Slice(cells, from, NameLength[m])[1] = <<m, 1>>
    <3>1. Cells(m, NameLength[m])[1] = <<m, 1>>
      BY <1>2, <2>0
    <3> QED
      BY <1>4, <3>1
  <2>2. CASE from \in 0 .. (Len(cells) - NameLength[m])
    <3>1. Slice(cells, from, NameLength[m])[1] = cells[from + 1]
      <4>1. from + 1 \in Int /\ from + l \in Int /\ SubSeq(cells, from + 1, from + l)[1] = cells[from + 1]
        BY <2>0
      <4> QED
        BY <2>0, <2>2, <4>1 DEF Slice
    <3>2. cells[from + 1] = <<n, 1>>
      BY <1>1, <1>2, SMTT(30)
    <3> QED
      BY <2>1, <3>1, <3>2
  <2>3. CASE ~(from \in 0 .. (Len(cells) - NameLength[m]))
    <3>1. Slice(cells, from, NameLength[m])[1] = <<Garbage, 1>>
      BY <2>3 DEF Slice, Cells
    <3> QED
      BY <2>1, <3>1, FormatAssumption
  <2> QED
    BY <2>2, <2>3
<1> DEFINE found == {m \in Names : Slice(cells, from, NameLength[m]) = Cells(m, NameLength[m])}
<1>5. found = {n}
  BY <1>3, <1>4
<1> QED
  BY <1>1, <1>5 DEF NameAt

(* ... and so are contents.                                                 *)
LEMMA DataFound ==
  ASSUME NEW d \in Data
  PROVE  DataIn(Cells(d, DataSize[d])) = d
<1>1. ASSUME NEW e \in Data, Cells(d, DataSize[d]) = Cells(e, DataSize[e])
      PROVE  e = d
  <2>1. PICK l \in Nat, m \in Nat : l = DataSize[d] /\ m = DataSize[e]
    BY FormatAssumption
  <2>2. /\ Len(Cells(d, l)) = l /\ Len(Cells(e, m)) = m
        /\ \A j \in 1 .. l : Cells(d, l)[j] = <<d, j>>
        /\ \A j \in 1 .. m : Cells(e, m)[j] = <<e, j>>
    BY CellsTypes
  <2>3. l = m
    BY <1>1, <2>1, <2>2
  <2>4. CASE l = 0
    BY <2>1, <2>3, <2>4, FormatAssumption
  <2>5. CASE l # 0
    <3>1. 1 \in 1 .. l
      BY <2>5
    <3> QED
      BY <1>1, <2>1, <2>2, <2>3, <3>1
  <2> QED
    BY <2>4, <2>5
<1> DEFINE found == {e \in Data : Cells(d, DataSize[d]) = Cells(e, DataSize[e])}
<1>2. found = {d}
  BY <1>1
<1> QED
  BY <1>2 DEF DataIn

(* Cells of contents; and a stretch of them that holds one file's data is     *)
(* what Slice cuts out.                                                     *)
DataCells == Seq(Data \X Nat)

LEMMA SliceOut ==
  ASSUME NEW cells \in DataCells, NEW from \in Nat, NEW x \in Data, NEW m \in Nat,
         from + m <= Len(cells), \A j \in 1 .. m : cells[from + j] = <<x, j>>
  PROVE  Slice(cells, from, m) = Cells(x, m)
<1>1. PICK t \in DataCells : t = Cells(x, m)
  BY CellsTypes DEF DataCells
<1>2. Len(t) = m /\ \A j \in 1 .. m : t[j] = <<x, j>>
  BY <1>1, CellsTypes
<1>3. SubSeq(cells, from + 1, from + Len(t)) = t
  <2>1. PICK S : S = Data \X Nat
    OBVIOUS
  <2>2. cells \in Seq(S) /\ t \in Seq(S)
    BY <2>1 DEF DataCells
  <2>3. from + Len(t) <= Len(cells) /\ \A j \in 1 .. Len(t) : cells[from + j] = t[j]
    BY <1>2
  <2> QED
    BY <2>2, <2>3, CutOut
<1>4. from \in 0 .. (Len(cells) - m)
  OBVIOUS
<1> QED
  BY <1>1, <1>2, <1>3, <1>4 DEF Slice

File == [name : Names, data : Data]

(* What InitRd::Save writes, the tool reads again, name by name and          *)
(* contents after contents, and so do loader and kernel by the offsets.     *)
LEMMA LayoutRead ==
  ASSUME NEW files \in Seq(File)
  PROVE  /\ Layout(files).entry_count = Len(files)
         /\ ReadInOrder(Layout(files)) = files
         /\ \A k \in 1 .. Len(files) : GetFile(Layout(files), k) = files[k]
         /\ Layout(files) \in Image
<1> DEFINE n == Len(files)
           names == [k \in 1 .. n |-> files[k].name]
           bodies == [k \in 1 .. n |-> files[k].data]
           nameSizes == [k \in 1 .. n |-> NameLength[files[k].name]]
           fileSizes == [k \in 1 .. n |-> DataSize[files[k].data]]
           symbols == Seqs!FlattenSeq([k \in 1 .. n |-> Cells(names[k], nameSizes[k])])
           contents == Seqs!FlattenSeq([k \in 1 .. n |-> Cells(bodies[k], fileSizes[k])])
           body == HeaderSize + Total(nameSizes) + EntrySize * n
           img == Layout(files)
<1>1. n \in Nat /\ \A k \in 1 .. n : files[k].name \in Names /\ files[k].data \in Data
                                     /\ files[k] = [name |-> files[k].name, data |-> files[k].data]
  <2>1. n \in Nat /\ \A k \in 1 .. n : files[k] \in File
    OBVIOUS
  <2>2. \A f \in File : f.name \in Names /\ f.data \in Data /\ f = [name |-> f.name, data |-> f.data]
    BY DEF File
  <2> QED
    BY <2>1, <2>2
<1>2. /\ names \in [1 .. n -> Names] /\ bodies \in [1 .. n -> Data]
      /\ nameSizes \in [1 .. n -> Nat] /\ fileSizes \in [1 .. n -> Nat]
  BY <1>1, FormatAssumption
<1>3. /\ img.entry_count = n /\ img.symbol_size = Total(nameSizes)
      /\ img.symbols = symbols /\ img.contents = contents
      /\ img.entries = [k \in 1 .. n |-> [file_offset |-> body + Before(fileSizes, k),
                                          file_size |-> fileSizes[k],
                                          symbol_offset |-> Before(nameSizes, k)]]
  <2>1. [k \in 1 .. n |-> Cells(names[k], nameSizes[k])]
          = [k \in 1 .. n |-> Cells(files[k].name, nameSizes[k])]
    OBVIOUS
  <2>2. [k \in 1 .. n |-> Cells(bodies[k], fileSizes[k])]
          = [k \in 1 .. n |-> Cells(files[k].data, fileSizes[k])]
    OBVIOUS
  <2> QED
    BY <2>1, <2>2 DEF Layout
<1>4. body \in Nat /\ img.symbol_size \in Nat /\ img.size \in Nat
  <2>1. nameSizes \in Seq(Nat) /\ Len(nameSizes) = n
    BY <1>1, <1>2
  <2>2. Total(nameSizes) \in Nat
    BY <2>1, <1>1, SumUnfolds DEF Total
  <2>3. EntrySize * n \in Nat
    BY <1>1, FormatAssumption
  <2>4. fileSizes \in Seq(Nat) /\ Len(fileSizes) = n
    BY <1>1, <1>2
  <2>5. Total(fileSizes) \in Nat
    BY <2>4, <1>1, SumUnfolds DEF Total
  <2>6. img.size = HeaderSize + Total(fileSizes) + Total(nameSizes) + EntrySize * n
    BY Zenon DEF Layout
  <2> HIDE DEF n, nameSizes, fileSizes, img
  <2>7. PICK x \in Nat, y \in Nat, z \in Nat :
          x = Total(nameSizes) /\ y = EntrySize * n /\ z = Total(fileSizes)
    BY <2>2, <2>3, <2>5
  <2> QED
    BY <1>3, <2>6, <2>7, FormatAssumption
<1>5. /\ symbols \in Seq(Names \X Nat)
      /\ \A k \in 1 .. n :
           /\ Before(nameSizes, k) \in Nat
           /\ Before(nameSizes, k) + nameSizes[k] <= Len(symbols)
           /\ \A j \in 1 .. nameSizes[k] : symbols[Before(nameSizes, k) + j] = <<names[k], j>>
  <2> HIDE DEF names, nameSizes, n
  <2>1. Joined(symbols, Names, n, names, nameSizes)
    BY <1>1, <1>2, CellsParts, Zenon
  <2> HIDE DEF symbols
  <2> QED
    BY <2>1 DEF Joined
<1>6. /\ contents \in Seq(Data \X Nat)
      /\ \A k \in 1 .. n :
           /\ Before(fileSizes, k) \in Nat
           /\ Before(fileSizes, k) + fileSizes[k] <= Len(contents)
           /\ \A j \in 1 .. fileSizes[k] : contents[Before(fileSizes, k) + j] = <<bodies[k], j>>
  <2> HIDE DEF bodies, fileSizes, n
  <2>1. Joined(contents, Data, n, bodies, fileSizes)
    BY <1>1, <1>2, CellsParts, Zenon
  <2> HIDE DEF contents
  <2> QED
    BY <2>1 DEF Joined
<1>7. \A k \in 1 .. n : /\ names[k] = files[k].name /\ nameSizes[k] = NameLength[names[k]]
                        /\ bodies[k] = files[k].data /\ fileSizes[k] = DataSize[bodies[k]]
                        /\ names[k] \in Names /\ bodies[k] \in Data
                        /\ nameSizes[k] \in Nat /\ fileSizes[k] \in Nat
  BY <1>1, <1>2
<1> HIDE DEF names, bodies, nameSizes, fileSizes, symbols, contents, body, img
<1>8. ASSUME NEW k \in 1 .. n
      PROVE  NameAt(img, Before(nameSizes, k)) = names[k]
  <2>1. PICK m \in Names, from \in Nat : m = names[k] /\ from = Before(nameSizes, k)
    BY <1>5, <1>7
  <2>2. /\ img.symbols \in Seq(Names \X Nat) /\ from + NameLength[m] <= Len(img.symbols)
        /\ \A j \in 1 .. NameLength[m] : img.symbols[from + j] = <<m, j>>
    BY <1>3, <1>5, <1>7, <2>1
  <2>3. NameAt(img, from) = m
    BY <2>2, NameFound
  <2> QED
    BY <2>1, <2>3
<1>9. ASSUME NEW k \in 1 .. n
      PROVE  DataIn(Slice(contents, Before(fileSizes, k), fileSizes[k])) = bodies[k]
  <2>1. PICK d \in Data, from \in Nat, m \in Nat, cells \in DataCells :
          d = bodies[k] /\ from = Before(fileSizes, k) /\ m = fileSizes[k] /\ cells = contents
    BY <1>6, <1>7 DEF DataCells
  <2>2. from + m <= Len(cells) /\ \A j \in 1 .. m : cells[from + j] = <<d, j>>
    BY <1>6, <2>1
  <2>3. Slice(cells, from, m) = Cells(d, m)
    BY <2>2, SliceOut
  <2>4. m = DataSize[d]
    BY <1>7, <2>1
  <2> QED
    BY <2>1, <2>3, <2>4, DataFound
<1>10. ASSUME NEW k \in 1 .. n
       PROVE  [name |-> NameAt(img, img.entries[k].symbol_offset),
               data |-> DataIn(Slice(img.contents, Before(fileSizes, k), fileSizes[k]))] = files[k]
  <2>1. /\ names[k] = files[k].name /\ bodies[k] = files[k].data
        /\ files[k] = [name |-> files[k].name, data |-> files[k].data]
    BY <1>1, <1>7
  <2>2. /\ img.contents = contents
        /\ img.entries[k].symbol_offset = Before(nameSizes, k)
    BY <1>3
  <2>3. NameAt(img, img.entries[k].symbol_offset) = files[k].name
    BY <1>8, <2>1, <2>2
  <2>4. DataIn(Slice(img.contents, Before(fileSizes, k), fileSizes[k])) = files[k].data
    BY <1>9, <2>1, <2>2
  <2> QED
    BY <2>1, <2>3, <2>4
<1>11. ReadInOrder(img) = files
  <2>1. [k \in 1 .. img.entry_count |-> img.entries[k].file_size] = fileSizes
    BY <1>2, <1>3
  <2> DEFINE read == [k \in 1 .. n |->
                        [name |-> NameAt(img, img.entries[k].symbol_offset),
                         data |-> DataIn(Slice(img.contents, Before(fileSizes, k), fileSizes[k]))]]
  <2>2. ReadInOrder(img) = read
    BY <1>3, <2>1, Zenon DEF ReadInOrder
  <2>3. read = [k \in 1 .. n |-> files[k]]
    BY <1>10
  <2>4. files = [k \in 1 .. n |-> files[k]]
    OBVIOUS
  <2> QED
    BY <2>2, <2>3, <2>4
<1>12. ASSUME NEW k \in 1 .. n
       PROVE  GetFile(img, k) = files[k]
  <2>1. HeaderSize + img.symbol_size + EntrySize * img.entry_count = body
    BY <1>3 DEF body
  <2>2. /\ img.entries[k].file_offset = body + Before(fileSizes, k)
        /\ img.entries[k].file_size = fileSizes[k]
    BY <1>3
  <2>3. (body + Before(fileSizes, k)) - body = Before(fileSizes, k)
    BY <1>4, <1>6
  <2>4. GetFile(img, k) = [name |-> NameAt(img, img.entries[k].symbol_offset),
                           data |-> DataIn(Slice(img.contents, Before(fileSizes, k), fileSizes[k]))]
    BY <2>1, <2>2, <2>3, Zenon DEF GetFile, FileAt
  <2> QED
    BY <1>10, <2>4
<1>13. img \in Image
  <2>1. img.entries \in Seq([file_offset : Nat, file_size : Nat, symbol_offset : Nat])
    <3>1. \A k \in 1 .. n : /\ body + Before(fileSizes, k) \in Nat
                            /\ fileSizes[k] \in Nat /\ Before(nameSizes, k) \in Nat
      BY <1>4, <1>5, <1>6, <1>7
    <3> QED
      BY <1>1, <1>3, <3>1
  <2>2. img = [entry_count |-> img.entry_count, symbol_size |-> img.symbol_size,
               size |-> img.size, symbols |-> img.symbols, entries |-> img.entries,
               contents |-> img.contents]
    BY Zenon DEF img, Layout
  <2> QED
    BY <1>1, <1>3, <1>4, <1>5, <1>6, <2>1, <2>2 DEF Image
<1> QED
  BY <1>3, <1>11, <1>12, <1>13 DEF img

-----------------------------------------------------------------------------
(* Rings.                                                                   *)

(* n entries, in the order in which the loops meet them; the last one leads  *)
(* back to the head.                                                        *)
IsRing(r, n, head, next, prev) ==
  /\ n \in Nat \ {0} /\ r \in [0 .. n -> Nodes]
  /\ r[0] = head /\ r[n] = head
  /\ \A j, k \in 0 .. (n - 1) : r[j] = r[k] => j = k
  /\ \A k \in 0 .. (n - 1) : next[r[k]] = r[k + 1] /\ prev[r[k + 1]] = r[k]
On(r, n) == {r[k] : k \in 0 .. (n - 1)}

LEMMA RingFits ==
  ASSUME NEW r, NEW n, NEW head, NEW next, NEW prev, IsRing(r, n, head, next, prev)
  PROVE  n <= Cardinality(Nodes)
<1>1. n \in Nat /\ r \in [0 .. n -> Nodes] /\ \A j, k \in 0 .. (n - 1) : r[j] = r[k] => j = k
  BY DEF IsRing
<1> DEFINE f == [k \in 0 .. (n - 1) |-> r[k]]
<1>2. f \in Injection(0 .. (n - 1), Nodes)
  BY <1>1 DEF Injection, IsInjective
<1>3. IsFiniteSet(0 .. (n - 1)) /\ Cardinality(0 .. (n - 1)) = n
  BY <1>1, FS_Interval
<1>4. Cardinality(0 .. (n - 1)) <= Cardinality(Nodes)
  BY <1>2, <1>3, NodesAssumption, FS_Injection
<1> QED
  BY <1>3, <1>4

(* What the entries of a ring have in common. *)
LEMMA RingFacts ==
  ASSUME NEW r, NEW n, NEW head, NEW next, NEW prev, IsRing(r, n, head, next, prev)
  PROVE  /\ On(r, n) \subseteq Nodes /\ head \in On(r, n)
         /\ \A k \in 0 .. n : r[k] \in On(r, n)
         /\ \A e \in On(r, n) : /\ next[e] \in On(r, n) /\ prev[e] \in On(r, n)
                                /\ prev[next[e]] = e /\ next[prev[e]] = e
<1>1. /\ n \in Nat \ {0} /\ r \in [0 .. n -> Nodes]
      /\ r[0] = head /\ r[n] = head
      /\ \A k \in 0 .. (n - 1) : next[r[k]] = r[k + 1] /\ prev[r[k + 1]] = r[k]
  BY DEF IsRing
<1>2. \A k \in 0 .. n : r[k] \in On(r, n)
  <2>1. 0 \in 0 .. (n - 1) /\ \A k \in 0 .. n : k \in 0 .. (n - 1) \/ k = n
    BY <1>1
  <2> QED
    BY <1>1, <2>1 DEF On
<1>3. On(r, n) \subseteq Nodes /\ head \in On(r, n)
  <2>1. 0 \in 0 .. n /\ 0 .. (n - 1) \subseteq 0 .. n
    BY <1>1
  <2> QED
    BY <1>1, <1>2, <2>1 DEF On
<1>4. ASSUME NEW e \in On(r, n)
      PROVE  /\ next[e] \in On(r, n) /\ prev[e] \in On(r, n)
             /\ prev[next[e]] = e /\ next[prev[e]] = e
  <2>1. PICK k \in 0 .. (n - 1) : e = r[k]
    BY DEF On
  <2>2. next[e] = r[k + 1] /\ prev[r[k + 1]] = e /\ k + 1 \in 0 .. n
    BY <1>1, <2>1
  <2>3. PICK j \in 0 .. (n - 1) : e = r[j + 1]
    <3>1. CASE k = 0
      <4>1. n - 1 \in 0 .. (n - 1) /\ (n - 1) + 1 = n
        BY <1>1
      <4> QED
        BY <1>1, <2>1, <3>1, <4>1
    <3>2. CASE k # 0
      <4>1. k - 1 \in 0 .. (n - 1) /\ (k - 1) + 1 = k
        BY <1>1, <3>2
      <4> QED
        BY <2>1, <4>1
    <3> QED
      BY <3>1, <3>2
  <2>4. prev[e] = r[j] /\ next[r[j]] = e /\ j \in 0 .. n
    BY <1>1, <2>3
  <2> QED
    BY <1>2, <2>2, <2>4
<1> QED
  BY <1>2, <1>3, <1>4

(* A new last entry, linked in as AddFromMemory does. *)
LinkedIn(r, n, head, next, prev, e, next2, prev2) ==
  /\ IsRing(r, n, head, next, prev)
  /\ next \in [Nodes -> Nodes \cup {Null}] /\ prev \in [Nodes -> Nodes \cup {Null}]
  /\ e \in Nodes /\ e \notin On(r, n)
  /\ next2 = [next EXCEPT ![e] = head, ![prev[head]] = e]
  /\ prev2 = [prev EXCEPT ![e] = prev[head], ![head] = e]

LEMMA RingAdd ==
  \A r, n, head, next, prev, e, next2, prev2 :
    LinkedIn(r, n, head, next, prev, e, next2, prev2) =>
      \E q : IsRing(q, n + 1, head, next2, prev2) /\ On(q, n + 1) = On(r, n) \cup {e}
<1> SUFFICES ASSUME NEW r, NEW n, NEW head, NEW next, NEW prev, NEW e, NEW next2, NEW prev2,
                    LinkedIn(r, n, head, next, prev, e, next2, prev2)
             PROVE  \E q : IsRing(q, n + 1, head, next2, prev2) /\ On(q, n + 1) = On(r, n) \cup {e}
  OBVIOUS
<1>0. /\ IsRing(r, n, head, next, prev)
      /\ next \in [Nodes -> Nodes \cup {Null}] /\ prev \in [Nodes -> Nodes \cup {Null}]
      /\ e \in Nodes /\ e \notin On(r, n)
      /\ next2 = [next EXCEPT ![e] = head, ![prev[head]] = e]
      /\ prev2 = [prev EXCEPT ![e] = prev[head], ![head] = e]
  BY DEF LinkedIn
<1> DEFINE q == [k \in 0 .. (n + 1) |-> IF k < n THEN r[k] ELSE IF k = n THEN e ELSE head]
<1>1. /\ n \in Nat \ {0} /\ r \in [0 .. n -> Nodes]
      /\ r[0] = head /\ r[n] = head
      /\ \A j, k \in 0 .. (n - 1) : r[j] = r[k] => j = k
      /\ \A k \in 0 .. (n - 1) : next[r[k]] = r[k + 1] /\ prev[r[k + 1]] = r[k]
  BY <1>0 DEF IsRing
<1>2. /\ On(r, n) \subseteq Nodes /\ head \in On(r, n)
      /\ \A k \in 0 .. n : r[k] \in On(r, n)
  BY <1>0, RingFacts
<1>3. prev[head] = r[n - 1] /\ n - 1 \in 0 .. (n - 1) /\ head \in Nodes /\ head # e
  <2>1. n - 1 \in 0 .. (n - 1) /\ (n - 1) + 1 = n
    BY <1>1
  <2> QED
    BY <1>0, <1>1, <1>2, <2>1
<1>4. /\ q \in [0 .. (n + 1) -> Nodes] /\ q[0] = head /\ q[n] = e /\ q[n + 1] = head
      /\ \A k \in 0 .. (n - 1) : q[k] = r[k]
  BY <1>0, <1>1, <1>3
<1> HIDE DEF q
<1>5. /\ next2[e] = head /\ next2[r[n - 1]] = e
      /\ \A k \in 0 .. (n - 2) : next2[r[k]] = next[r[k]]
  <2>0. n - 1 \in 0 .. n
    BY <1>1
  <2>1. r[n - 1] \in Nodes /\ r[n - 1] # e
    BY <1>0, <1>2, <2>0
  <2>2. ASSUME NEW k \in 0 .. (n - 2)
        PROVE  r[k] \in Nodes /\ r[k] # e /\ r[k] # r[n - 1]
    <3>1. k \in 0 .. (n - 1) /\ k # n - 1 /\ k \in 0 .. n
      BY <1>1
    <3> QED
      BY <1>0, <1>1, <1>2, <1>3, <3>1
  <2> QED
    BY <1>0, <1>3, <2>1, <2>2
<1>6. /\ prev2[e] = r[n - 1] /\ prev2[head] = e
      /\ \A k \in 1 .. (n - 1) : prev2[r[k]] = prev[r[k]]
  <2>1. ASSUME NEW k \in 1 .. (n - 1)
        PROVE  r[k] \in Nodes /\ r[k] # e /\ r[k] # head
    <3>1. k \in 0 .. (n - 1) /\ 0 \in 0 .. (n - 1) /\ k # 0 /\ k \in 0 .. n
      BY <1>1
    <3> QED
      BY <1>0, <1>1, <1>2, <3>1
  <2> QED
    BY <1>0, <1>3, <2>1
<1>7. \A j, k \in 0 .. n : q[j] = q[k] => j = k
  <2>1. \A k \in 0 .. n : k \in 0 .. (n - 1) \/ k = n
    BY <1>1
  <2>2. \A k \in 0 .. (n - 1) : q[k] # e
    BY <1>0, <1>1, <1>2, <1>4 DEF On
  <2> QED
    BY <1>1, <1>4, <2>1, <2>2
<1>8. ASSUME NEW k \in 0 .. n
      PROVE  next2[q[k]] = q[k + 1] /\ prev2[q[k + 1]] = q[k]
  <2>1. CASE k = n
    BY <1>4, <1>5, <1>6, <2>1
  <2>2. CASE k = n - 1
    <3>1. k \in 0 .. (n - 1) /\ k + 1 = n
      BY <1>1, <2>2
    <3> QED
      BY <1>4, <1>5, <1>6, <2>2, <3>1
  <2>3. CASE k # n /\ k # n - 1
    <3>1. k \in 0 .. (n - 2) /\ k \in 0 .. (n - 1) /\ k + 1 \in 1 .. (n - 1) /\ k + 1 \in 0 .. (n - 1)
      BY <1>1, <2>3
    <3>2. q[k] = r[k] /\ q[k + 1] = r[k + 1]
      BY <1>4, <3>1
    <3>3. next[r[k]] = r[k + 1] /\ prev[r[k + 1]] = r[k]
      BY <1>1, <3>1
    <3> QED
      BY <1>5, <1>6, <3>1, <3>2, <3>3
  <2> QED
    BY <2>1, <2>2, <2>3
<1>9. n + 1 \in Nat \ {0} /\ (n + 1) - 1 = n
  BY <1>1
<1>10. IsRing(q, n + 1, head, next2, prev2)
  BY <1>4, <1>7, <1>8, <1>9 DEF IsRing
<1>11. On(q, n + 1) = On(r, n) \cup {e}
  <2>1. \A k \in 0 .. n : k \in 0 .. (n - 1) \/ k = n
    BY <1>1
  <2>2. n \in 0 .. n /\ 0 .. (n - 1) \subseteq 0 .. n
    BY <1>1
  <2>3. On(q, n + 1) = {q[k] : k \in 0 .. n}
    BY <1>9 DEF On
  <2> QED
    BY <1>4, <2>1, <2>2, <2>3 DEF On
<1> QED
  BY <1>10, <1>11

(* An entry less, cut out as RemoveEntry does; a new head if it was the     *)
(* head.                                                                    *)
Unlinked(r, n, head, next, prev, e, head2, next2, prev2) ==
  /\ IsRing(r, n, head, next, prev) /\ n > 1
  /\ next \in [Nodes -> Nodes \cup {Null}] /\ prev \in [Nodes -> Nodes \cup {Null}]
  /\ e \in On(r, n)
  /\ prev2 = [prev EXCEPT ![next[e]] = prev[e]]
  /\ next2 = [next EXCEPT ![prev2[e]] = next[e]]
  /\ head2 = IF head = e THEN next2[e] ELSE head

LEMMA RingRemove ==
  \A r, n, head, next, prev, e, head2, next2, prev2 :
    Unlinked(r, n, head, next, prev, e, head2, next2, prev2) =>
      /\ next2[e] # e
      /\ \E q : IsRing(q, n - 1, head2, next2, prev2) /\ On(q, n - 1) = On(r, n) \ {e}
<1> SUFFICES ASSUME NEW r, NEW n, NEW head, NEW next, NEW prev, NEW e,
                    NEW head2, NEW next2, NEW prev2,
                    Unlinked(r, n, head, next, prev, e, head2, next2, prev2)
             PROVE  /\ next2[e] # e
                    /\ \E q : /\ IsRing(q, n - 1, head2, next2, prev2)
                             /\ On(q, n - 1) = On(r, n) \ {e}
  OBVIOUS
<1> USE DEF Unlinked
<1>1. /\ n \in Nat \ {0} /\ r \in [0 .. n -> Nodes]
      /\ r[0] = head /\ r[n] = head
      /\ \A j, k \in 0 .. (n - 1) : r[j] = r[k] => j = k
      /\ \A k \in 0 .. (n - 1) : next[r[k]] = r[k + 1] /\ prev[r[k + 1]] = r[k]
  BY DEF IsRing
<1>2. /\ On(r, n) \subseteq Nodes /\ head \in On(r, n)
      /\ \A x \in On(r, n) : /\ next[x] \in On(r, n) /\ prev[x] \in On(r, n)
                             /\ prev[next[x]] = x /\ next[prev[x]] = x
  BY RingFacts
<1>3. PICK v \in 0 .. (n - 1) : e = r[v]
  BY DEF On
<1>4. ASSUME NEW k \in 0 .. (n - 1)
      PROVE  r[k + 1] # r[k]
  <2>1. CASE k = n - 1
    <3>1. k # 0 /\ 0 \in 0 .. (n - 1) /\ k + 1 = n
      BY <1>1, <2>1
    <3> QED
      BY <1>1, <3>1
  <2>2. CASE k # n - 1
    <3>1. k + 1 \in 0 .. (n - 1) /\ k + 1 # k
      BY <1>1, <2>2
    <3> QED
      BY <1>1, <3>1
  <2> QED
    BY <2>1, <2>2
<1>5. next[e] = r[v + 1] /\ next[e] # e /\ next[e] \in Nodes /\ e \in Nodes
  BY <1>1, <1>2, <1>3, <1>4
<1>6. prev[e] # e /\ prev[e] \in Nodes
  BY <1>2, <1>5
<1>7. /\ prev2[e] = prev[e] /\ prev2[next[e]] = prev[e]
      /\ \A x \in Nodes : x # next[e] => prev2[x] = prev[x]
  BY <1>5
<1>8. /\ next2[prev[e]] = next[e] /\ next2[e] = next[e]
      /\ \A x \in Nodes : x # prev[e] => next2[x] = next[x]
  BY <1>5, <1>6, <1>7
<1> DEFINE m == n - 1
           q == IF v = 0 THEN [k \in 0 .. m |-> IF k < m THEN r[k + 1] ELSE r[1]]
                         ELSE [k \in 0 .. m |-> IF k < v THEN r[k] ELSE r[k + 1]]
<1>9. m \in Nat \ {0} /\ v \in 0 .. m /\ v \in Int
  BY <1>1
<1>10. /\ q \in [0 .. m -> Nodes] /\ q[0] = head2 /\ q[m] = head2
       /\ \A k \in 0 .. (m - 1) : q[k] = IF k < v THEN r[k] ELSE r[k + 1]
  <2>1. \A k \in 0 .. m : k \in 0 .. n /\ k + 1 \in 0 .. n
    BY <1>1, <1>9
  <2>2. 1 \in 0 .. n /\ m + 1 = n /\ m \in 0 .. m /\ 0 \in 0 .. m /\ ~(m < v)
    BY <1>1, <1>9
  <2>3. CASE v = 0
    <3>1. head2 = r[1]
      BY <1>1, <1>3, <1>5, <1>8, <2>3
    <3>2. q = [k \in 0 .. m |-> IF k < m THEN r[k + 1] ELSE r[1]]
      BY <2>3
    <3>3. q \in [0 .. m -> Nodes] /\ q[m] = r[1]
      BY <1>1, <2>1, <2>2, <3>2
    <3>4. 0 < m /\ \A k \in 0 .. (m - 1) : k \in 0 .. m /\ k < m /\ ~(k < v)
      <4> HIDE DEF m, q
      <4> QED
        BY <1>9, <2>3
    <3>5. q[0] = r[1]
      BY <2>2, <3>2, <3>4
    <3> HIDE DEF q
    <3> QED
      BY <3>1, <3>2, <3>3, <3>4, <3>5
  <2>4. CASE v # 0
    <3>1. head # e
      <4>1. 0 \in 0 .. (n - 1)
        BY <1>1
      <4> QED
        BY <1>1, <1>3, <2>4, <4>1
    <3>2. q = [k \in 0 .. m |-> IF k < v THEN r[k] ELSE r[k + 1]]
      BY <2>4
    <3>3. 0 < v /\ \A k \in 0 .. (m - 1) : k \in 0 .. m
      BY <1>9, <2>4
    <3> HIDE DEF q
    <3>4. q \in [0 .. m -> Nodes]
      BY <1>1, <2>1, <3>2
    <3>5. q[0] = r[0] /\ q[m] = r[m + 1]
      BY <2>2, <3>2, <3>3
    <3> QED
      BY <1>1, <2>2, <3>1, <3>2, <3>3, <3>4, <3>5
  <2> QED
    BY <2>3, <2>4
<1> HIDE DEF q
<1>11. \A j, k \in 0 .. (m - 1) : q[j] = q[k] => j = k
  <2>1. \A k \in 0 .. (m - 1) : k \in 0 .. (n - 1) /\ k + 1 \in 0 .. (n - 1)
    BY <1>1, <1>9
  <2>2. SUFFICES ASSUME NEW j \in 0 .. (m - 1), NEW k \in 0 .. (m - 1), q[j] = q[k]
                 PROVE  j = k
    OBVIOUS
  <2> DEFINE at(l) == IF l < v THEN l ELSE l + 1
  <2>3. \A l \in 0 .. (m - 1) : at(l) \in 0 .. (n - 1) /\ q[l] = r[at(l)]
    BY <1>10, <2>1
  <2>4. at(j) = at(k)
    <3>1. PICK a \in 0 .. (n - 1), b \in 0 .. (n - 1) : a = at(j) /\ b = at(k)
      BY <2>3
    <3>2. r[a] = r[b]
      BY <2>2, <2>3, <3>1
    <3> QED
      BY <1>1, <3>1, <3>2
  <2> QED
    BY <1>9, <2>4
<1>12. ASSUME NEW k \in 0 .. (m - 1)
       PROVE  next2[q[k]] = q[k + 1] /\ prev2[q[k + 1]] = q[k]
  <2>1. k \in 0 .. (n - 1) /\ k + 1 \in 0 .. (n - 1) /\ k + 1 \in 0 .. m
    BY <1>1, <1>9
  <2>2. CASE v = 0
    <3>1. q[k] = r[k + 1]
      BY <1>9, <1>10, <2>2
    <3>2. q[k + 1] = IF k + 1 = m THEN r[1] ELSE r[(k + 1) + 1]
      <4>1. k + 1 # m => k + 1 \in 0 .. (m - 1) /\ ~(k + 1 < v)
        BY <1>9, <2>2
      <4>2. q[m] = r[1]
        BY <1>1, <1>3, <1>5, <1>8, <1>10, <2>2
      <4> QED
        BY <1>10, <4>1, <4>2
    <3>3. e = r[0] /\ prev[e] = r[n - 1] /\ next[e] = r[1]
      <4>1. n - 1 \in 0 .. (n - 1) /\ (n - 1) + 1 = n
        BY <1>1
      <4> QED
        BY <1>1, <1>3, <1>5, <2>2, <4>1
    <3>4. CASE k + 1 = m
      BY <1>7, <1>8, <3>1, <3>2, <3>3, <3>4
    <3>5. CASE k + 1 # m
      <4>1. k + 1 # n - 1 /\ (k + 1) + 1 \in 0 .. (n - 1) /\ n - 1 \in 0 .. (n - 1)
            /\ (k + 1) + 1 # 1 /\ 1 \in 0 .. (n - 1) /\ k + 1 \in 0 .. n /\ (k + 1) + 1 \in 0 .. n
        BY <1>1, <1>9, <3>5
      <4>2. r[k + 1] # r[n - 1] /\ r[(k + 1) + 1] # r[1]
        BY <1>1, <2>1, <4>1
      <4>3. next[r[k + 1]] = r[(k + 1) + 1] /\ prev[r[(k + 1) + 1]] = r[k + 1]
        BY <1>1, <2>1
      <4>4. r[k + 1] \in Nodes /\ r[(k + 1) + 1] \in Nodes
        BY <1>1, <4>1
      <4> QED
        BY <1>7, <1>8, <3>1, <3>2, <3>3, <3>5, <4>2, <4>3, <4>4
    <3> QED
      BY <3>4, <3>5
  <2>3. CASE v # 0
    <3>1. /\ v - 1 \in 0 .. (n - 1) /\ (v - 1) + 1 = v
          /\ prev[e] = r[v - 1] /\ next[e] = r[v + 1]
      <4>1. v - 1 \in 0 .. (n - 1) /\ (v - 1) + 1 = v
        BY <1>1, <1>9, <2>3
      <4> QED
        BY <1>1, <1>3, <1>5, <4>1
    <3>2. \A l \in 0 .. m : q[l] = IF l < v THEN r[l] ELSE r[l + 1]
      <4>1. \A l \in 0 .. m : l \in 0 .. (m - 1) \/ l = m
        BY <1>9
      <4>2. q[m] = r[m + 1]
        <5>1. 0 \in 0 .. (n - 1) /\ m + 1 = n
          BY <1>1
        <5> QED
          BY <1>1, <1>3, <1>10, <2>3, <5>1
      <4>3. ~(m < v)
        BY <1>9
      <4> HIDE DEF m
      <4> QED
        BY <1>10, <4>1, <4>2, <4>3
    <3>3. CASE k + 1 < v
      <4>1. k < v /\ k # v - 1 /\ k \in 0 .. n /\ k + 1 \in 0 .. n
            /\ (v + 1 \in 0 .. (n - 1) \/ v + 1 = n) /\ 0 \in 0 .. (n - 1) /\ k + 1 # 0
            /\ k + 1 # v + 1
        BY <1>1, <1>9, <2>1, <3>3
      <4>2. r[k] # r[v - 1] /\ r[k + 1] # r[v + 1]
        BY <1>1, <2>1, <3>1, <4>1
      <4>3. next[r[k]] = r[k + 1] /\ prev[r[k + 1]] = r[k] /\ r[k] \in Nodes /\ r[k + 1] \in Nodes
        BY <1>1, <2>1, <4>1
      <4>4. q[k] = r[k] /\ q[k + 1] = r[k + 1]
        BY <1>9, <2>1, <3>2, <3>3, <4>1
      <4> QED
        BY <1>7, <1>8, <3>1, <4>2, <4>3, <4>4
    <3>4. CASE k + 1 = v
      <4>1. k < v /\ ~(k + 1 < v) /\ k = v - 1 /\ k \in 0 .. m
        BY <1>9, <2>1, <3>4
      <4>2. q[k] = r[v - 1] /\ q[k + 1] = r[v + 1]
        BY <2>1, <3>2, <3>4, <4>1
      <4> QED
        BY <1>7, <1>8, <3>1, <4>2
    <3>5. CASE k + 1 > v
      <4>1. ~(k < v) /\ ~(k + 1 < v) /\ k \in 0 .. m /\ k + 1 # v - 1 /\ k + 1 \in 0 .. n
            /\ (k + 1) + 1 \in 0 .. n /\ (k + 1) + 1 # v + 1 /\ v + 1 \in 0 .. (n - 1)
            /\ v + 1 # 0
            /\ ((k + 1) + 1 \in 0 .. (n - 1) \/ (k + 1) + 1 = n) /\ 0 \in 0 .. (n - 1)
        BY <1>1, <1>9, <2>1, <3>5
      <4>2. q[k] = r[k + 1] /\ q[k + 1] = r[(k + 1) + 1]
        BY <2>1, <3>2, <4>1
      <4>3. r[k + 1] # r[v - 1] /\ r[(k + 1) + 1] # r[v + 1]
        BY <1>1, <2>1, <3>1, <4>1
      <4>4. next[r[k + 1]] = r[(k + 1) + 1] /\ prev[r[(k + 1) + 1]] = r[k + 1]
            /\ r[k + 1] \in Nodes /\ r[(k + 1) + 1] \in Nodes
        BY <1>1, <2>1, <4>1
      <4> QED
        BY <1>7, <1>8, <3>1, <4>2, <4>3, <4>4
    <3> QED
      BY <1>9, <2>1, <3>3, <3>4, <3>5
  <2> QED
    BY <2>2, <2>3
<1>13. IsRing(q, n - 1, head2, next2, prev2)
  BY <1>9, <1>10, <1>11, <1>12 DEF IsRing
<1>14. On(q, n - 1) = On(r, n) \ {e}
  <2>1. ASSUME NEW k \in 0 .. (m - 1)
        PROVE  q[k] \in On(r, n) \ {e}
    <3>1. k \in 0 .. (n - 1) /\ k + 1 \in 0 .. (n - 1) /\ (k < v => k # v) /\ (~(k < v) => k + 1 # v)
      BY <1>1, <1>9
    <3>2. CASE k < v
      BY <1>1, <1>3, <1>10, <3>1, <3>2 DEF On
    <3>3. CASE ~(k < v)
      BY <1>1, <1>3, <1>10, <3>1, <3>3 DEF On
    <3> QED
      BY <3>2, <3>3
  <2>2. ASSUME NEW x \in On(r, n) \ {e}
        PROVE  \E k \in 0 .. (m - 1) : x = q[k]
    <3>1. PICK j \in 0 .. (n - 1) : x = r[j]
      BY DEF On
    <3>2. j # v
      BY <1>3, <3>1
    <3>3. CASE j < v
      <4>1. j \in 0 .. (m - 1)
        BY <1>1, <1>9, <3>3
      <4> QED
        BY <1>10, <3>1, <3>3, <4>1
    <3>4. CASE ~(j < v)
      <4>1. j - 1 \in 0 .. (m - 1) /\ ~(j - 1 < v) /\ (j - 1) + 1 = j
        BY <1>1, <1>9, <3>2, <3>4
      <4> QED
        BY <1>10, <3>1, <4>1
    <3> QED
      BY <3>3, <3>4
  <2> QED
    BY <2>1, <2>2 DEF On
<1> QED
  BY <1>5, <1>8, <1>13, <1>14

(* A first entry. *)
LEMMA RingOne ==
  ASSUME NEW e \in Nodes, NEW next, NEW prev, next[e] = e, prev[e] = e
  PROVE  \E q : IsRing(q, 1, e, next, prev) /\ On(q, 1) = {e}
<1> DEFINE q == [k \in 0 .. 1 |-> e]
<1>1. q \in [0 .. 1 -> Nodes] /\ q[0] = e /\ q[1] = e /\ 0 .. (1 - 1) = {0} /\ 1 \in Nat \ {0}
  OBVIOUS
<1> HIDE DEF q
<1>2. IsRing(q, 1, e, next, prev) /\ On(q, 1) = {e}
  BY <1>1 DEF IsRing, On
<1> QED
  BY <1>2

(* What the loops see of a ring. *)
Ring(r, n) == IsRing(r, n, m_list_head, next_ptr, prev_ptr)
Walked(r, n) ==
  /\ ~Endless
  /\ Size = n
  /\ Listed = On(r, n)
  /\ InOrder = [k \in 1 .. n |-> [name |-> name[r[k - 1]], data |-> data[r[k - 1]]]]

LEMMA RingWalk == \A r, n : Ring(r, n) /\ m_list_head # Null => Walked(r, n)
<1> SUFFICES ASSUME NEW r, NEW n, Ring(r, n), m_list_head # Null PROVE Walked(r, n)
  OBVIOUS
<1>1. /\ n \in Nat \ {0} /\ r \in [0 .. n -> Nodes]
      /\ r[0] = m_list_head /\ r[n] = m_list_head
      /\ \A j, k \in 0 .. (n - 1) : r[j] = r[k] => j = k
      /\ \A k \in 0 .. (n - 1) : next_ptr[r[k]] = r[k + 1] /\ prev_ptr[r[k + 1]] = r[k]
  BY DEF Ring, IsRing
<1>2. /\ On(r, n) \subseteq Nodes /\ m_list_head \in On(r, n)
      /\ \A k \in 0 .. n : r[k] \in On(r, n)
      /\ \A x \in On(r, n) : next_ptr[x] \in On(r, n)
  BY RingFacts DEF Ring
<1>3. Cardinality(Nodes) \in Nat /\ n <= Cardinality(Nodes)
  BY RingFits, FS_CardinalityType, NodesAssumption DEF Ring
<1> DEFINE c == Cardinality(Nodes)
           IsVisit(g) == g = [k \in Steps |-> IF k = 0 THEN m_list_head ELSE next_ptr[g[k - 1]]]
           visit == CHOOSE g : IsVisit(g)
           F == [p \in (1 .. c) \X On(r, n) |-> next_ptr[p[2]]]
<1>4. F \in [(1 .. c) \X On(r, n) -> On(r, n)]
  BY <1>2
<1>5. PICK g : Builds(g, c, On(r, n), m_list_head, F)
  <2> HIDE DEF F, c
  <2>1. c \in Nat
    BY <1>3 DEF c
  <2> QED
    BY <1>2, <1>4, <2>1, StepByStep, Zenon
<1>6. IsVisit(g)
  <2>1. /\ g \in [0 .. c -> On(r, n)] /\ g[0] = m_list_head
        /\ \A j \in 1 .. c : g[j] = F[<<j, g[j - 1]>>]
    BY <1>5 DEF Builds
  <2>2. \A j \in 1 .. c : g[j - 1] \in On(r, n)
    BY <1>3, <2>1
  <2>3. \A j \in 1 .. c : F[<<j, g[j - 1]>>] = next_ptr[g[j - 1]]
    BY <2>2
  <2>4. ASSUME NEW j \in 0 .. c
        PROVE  g[j] = IF j = 0 THEN m_list_head ELSE next_ptr[g[j - 1]]
    <3> HIDE DEF F
    <3>1. j = 0 \/ j \in 1 .. c
      BY <1>3
    <3>2. CASE j = 0
      BY <2>1, <3>2
    <3>3. CASE j # 0
      BY <2>1, <2>3, <3>1, <3>3
    <3> QED
      BY <3>2, <3>3
  <2>5. g = [j \in 0 .. c |-> g[j]]
    BY <2>1
  <2> QED
    BY <2>4, <2>5, Zenon DEF Steps
<1>7. IsVisit(visit)
  BY <1>6, Zenon
<1>8. Visited = visit
  BY Zenon DEF Visited
<1>9. \A k \in 0 .. c : Visited[k] = IF k = 0 THEN m_list_head ELSE next_ptr[Visited[k - 1]]
  <2> HIDE DEF visit
  <2> QED
    BY <1>7, <1>8 DEF Steps
<1> HIDE DEF visit, F, c
<1>10. c \in Nat /\ n \in Nat /\ n <= c /\ n # 0
  BY <1>1, <1>3 DEF c
<1>11. \A k \in 0 .. n : Visited[k] = r[k]
  <2> DEFINE S == {k \in Nat : k <= n => Visited[k] = r[k]}
  <2>1. 0 \in S
    BY <1>1, <1>9, <1>10
  <2>2. ASSUME NEW k \in Nat, k \in S
        PROVE  k + 1 \in S
    <3> SUFFICES ASSUME k + 1 <= n PROVE Visited[k + 1] = r[k + 1]
      OBVIOUS
    <3>1. k + 1 \in 0 .. c /\ k + 1 # 0 /\ (k + 1) - 1 = k /\ k \in 0 .. (n - 1) /\ k <= n
      BY <1>10
    <3>2. Visited[k + 1] = next_ptr[Visited[k]]
      BY <1>9, <3>1
    <3> QED
      BY <1>1, <2>2, <3>1, <3>2
  <2> HIDE DEF S
  <2>3. Nat \subseteq S
    BY <2>1, <2>2, SetInduction
  <2> QED
    BY <1>10, <2>3 DEF S
<1>12. \A k \in 0 .. c : Visited[k] \in On(r, n)
  <2> DEFINE S == {k \in Nat : k <= c => Visited[k] \in On(r, n)}
  <2>1. 0 \in S
    BY <1>2, <1>9, <1>10
  <2>2. ASSUME NEW k \in Nat, k \in S
        PROVE  k + 1 \in S
    <3> SUFFICES ASSUME k + 1 <= c PROVE Visited[k + 1] \in On(r, n)
      OBVIOUS
    <3>1. k + 1 \in 0 .. c /\ k + 1 # 0 /\ (k + 1) - 1 = k /\ k <= c
      BY <1>10
    <3>2. Visited[k + 1] = next_ptr[Visited[k]]
      BY <1>9, <3>1
    <3> QED
      BY <1>2, <2>2, <3>1, <3>2
  <2> HIDE DEF S
  <2>3. Nat \subseteq S
    BY <2>1, <2>2, SetInduction
  <2> QED
    BY <1>10, <2>3 DEF S
<1>13. n \in Laps /\ \A l \in Laps : n <= l
  <2>1. Laps = {k \in (0 .. c) \ {0} : Visited[k] = m_list_head}
    BY DEF Laps, Steps, c
  <2>2. n \in Laps
    BY <1>1, <1>10, <1>11, <2>1
  <2>3. ASSUME NEW l \in Laps, ~(n <= l)
        PROVE  FALSE
    <3>1. l \in 0 .. (n - 1) /\ 0 \in 0 .. (n - 1) /\ l \in 0 .. n /\ l # 0
      BY <1>10, <2>1, <2>3
    <3>2. r[l] = r[0]
      BY <1>1, <1>11, <2>1, <3>1
    <3> QED
      BY <1>1, <3>1, <3>2
  <2> QED
    BY <2>2, <2>3
<1>14. ~Endless
  BY <1>13 DEF Endless
<1>15. Size = n
  <2>1. Size = CHOOSE k \in Laps : \A l \in Laps : k <= l
    BY DEF Size
  <2>2. Size \in Laps /\ \A l \in Laps : Size <= l
    BY <1>13, <2>1
  <2>3. Laps \subseteq Nat
    BY <1>3 DEF Laps, Steps
  <2> QED
    BY <1>10, <1>13, <2>2, <2>3
<1>16. Listed = On(r, n)
  <2>1. Listed = {Visited[k] : k \in 0 .. c}
    BY DEF Listed, Steps, c
  <2>2. \A k \in 0 .. (n - 1) : k \in 0 .. c /\ k \in 0 .. n
    BY <1>10
  <2>3. \A k \in 0 .. (n - 1) : r[k] \in Listed
    BY <1>11, <2>1, <2>2
  <2> QED
    BY <1>12, <2>1, <2>3 DEF On
<1>17. InOrder = [k \in 1 .. n |-> [name |-> name[r[k - 1]], data |-> data[r[k - 1]]]]
  <2>1. \A k \in 1 .. n : Visited[k - 1] = r[k - 1]
    BY <1>10, <1>11
  <2> QED
    BY <1>15, <2>1 DEF InOrder
<1> QED
  BY <1>14, <1>15, <1>16, <1>17 DEF Walked

-----------------------------------------------------------------------------
(* The list.                                                                *)

(* It is a ring, of allocated entries with different names.                 *)
RingInv == m_list_head # Null => \E r, n : Ring(r, n)
ListInv ==
  /\ Listed \cap fresh = {}
  /\ \A e \in Listed : name[e] \in Names /\ data[e] \in Data
  /\ \A e, f \in Listed : name[e] = name[f] => e = f

(* The files in it. *)
FileOf(e) == [name |-> name[e], data |-> data[e]]
Content == {FileOf(e) : e \in Listed}

LEMMA RingWalkNext == \A r, n : Ring(r, n)' /\ m_list_head' # Null => Walked(r, n)'
<1>1. (\A r, n : Ring(r, n) /\ m_list_head # Null => Walked(r, n))'
  BY RingWalk, PTL
<1> QED
  BY <1>1

LEMMA NotEndless ==
  ASSUME RingInv
  PROVE  ~Endless /\ Listed \subseteq Nodes /\ (m_list_head = Null <=> Listed = {})
<1>1. CASE m_list_head = Null
  BY <1>1 DEF Endless, Listed
<1>2. CASE m_list_head # Null
  <2>1. PICK r, n : Ring(r, n)
    BY <1>2 DEF RingInv
  <2>2. ~Endless /\ Listed = On(r, n)
    BY <1>2, <2>1, RingWalk DEF Walked
  <2>3. On(r, n) \subseteq Nodes /\ m_list_head \in On(r, n)
    BY <2>1, RingFacts DEF Ring
  <2> QED
    BY <1>2, <2>2, <2>3
<1> QED
  BY <1>1, <1>2

LEMMA NoList ==
  ASSUME m_list_head' = Null
  PROVE  RingInv' /\ Listed' = {} /\ ListInv' /\ Content' = {}
<1>1. Listed' = {}
  BY DEF Listed
<1> QED
  BY <1>1 DEF RingInv, ListInv, Content

LEMMA SameList ==
  ASSUME UNCHANGED listVars
  PROVE  /\ Listed' = Listed /\ Content' = Content /\ Size' = Size /\ InOrder' = InOrder
         /\ RingInv' = RingInv /\ ListInv' = ListInv
<1>1. Visited' = Visited
  BY DEF Visited, listVars, Steps
<1>2. Listed' = Listed /\ Laps' = Laps
  BY <1>1 DEF Listed, Laps, listVars, Steps
<1>3. Size' = Size
  BY <1>2 DEF Size, listVars
<1>4. InOrder' = InOrder
  BY <1>1, <1>3 DEF InOrder, listVars
<1>5. Content' = Content
  BY <1>2 DEF Content, FileOf, listVars
<1>6. ListInv' = ListInv
  BY <1>2 DEF ListInv, listVars
<1>7. RingInv' = RingInv
  BY DEF RingInv, Ring, listVars
<1> QED
  BY <1>2, <1>3, <1>4, <1>5, <1>6, <1>7

(* A file of a new name. *)
LEMMA AddStep ==
  ASSUME TypeOK, RingInv, ListInv, NEW n \in Names, NEW d \in Data,
         Holding(n) = {}, AddFromMemory(n, d)
  PROVE  /\ RingInv' /\ ListInv' /\ m_list_head' # Null
         /\ Content' = Content \cup {[name |-> n, data |-> d]}
<1>1. PICK e \in fresh :
        /\ name' = [name EXCEPT ![e] = n]
        /\ data' = [data EXCEPT ![e] = d]
        /\ fresh' = fresh \ {e}
        /\ IF m_list_head = Null
           THEN /\ m_list_head' = e
                /\ next_ptr' = [next_ptr EXCEPT ![e] = e]
                /\ prev_ptr' = [prev_ptr EXCEPT ![e] = e]
           ELSE LET last == prev_ptr[m_list_head]
                    prev == [prev_ptr EXCEPT ![e] = last]
                    next == [next_ptr EXCEPT ![e] = m_list_head]
                IN  /\ next_ptr' = [next EXCEPT ![prev[m_list_head]] = e]
                    /\ prev_ptr' = [prev EXCEPT ![m_list_head] = e]
                    /\ UNCHANGED m_list_head
  BY DEF AddFromMemory
<1>2. /\ name \in [Nodes -> Names \cup {Null}] /\ data \in [Nodes -> Data \cup {Null}]
      /\ next_ptr \in [Nodes -> Nodes \cup {Null}] /\ prev_ptr \in [Nodes -> Nodes \cup {Null}]
      /\ fresh \subseteq Nodes
  BY DEF TypeOK
<1>3. e \in Nodes /\ e # Null /\ e \notin Listed
  BY <1>2, NodesAssumption DEF ListInv
<1>4. \E q, m : IsRing(q, m, m_list_head', next_ptr', prev_ptr') /\ On(q, m) = Listed \cup {e}
  <2>1. CASE m_list_head = Null
    <3>1. next_ptr'[e] = e /\ prev_ptr'[e] = e /\ m_list_head' = e
      BY <1>1, <1>2, <1>3, <2>1
    <3>2. \E q : IsRing(q, 1, e, next_ptr', prev_ptr') /\ On(q, 1) = {e}
      BY <1>3, <3>1, RingOne
    <3> QED
      BY <2>1, <3>1, <3>2 DEF Listed
  <2>2. CASE m_list_head # Null
    <3>1. PICK r, m : Ring(r, m)
      BY <2>2 DEF RingInv
    <3>2. Listed = On(r, m)
      BY <2>2, <3>1, RingWalk DEF Walked
    <3>3. m_list_head # e
      BY <1>3, <3>1, <3>2, RingFacts DEF Ring
    <3>4. /\ next_ptr' = [next_ptr EXCEPT ![e] = m_list_head, ![prev_ptr[m_list_head]] = e]
          /\ prev_ptr' = [prev_ptr EXCEPT ![e] = prev_ptr[m_list_head], ![m_list_head] = e]
          /\ m_list_head' = m_list_head
      <4>1. [prev_ptr EXCEPT ![e] = prev_ptr[m_list_head]][m_list_head] = prev_ptr[m_list_head]
        BY <1>2, <3>3
      <4> QED
        BY <1>1, <2>2, <4>1
    <3>5. PICK h, next, prev, next2, prev2 :
            /\ h = m_list_head /\ next = next_ptr /\ prev = prev_ptr
            /\ next2 = next_ptr' /\ prev2 = prev_ptr'
      OBVIOUS
    <3>6. LinkedIn(r, m, h, next, prev, e, next2, prev2)
      BY <1>2, <1>3, <3>1, <3>2, <3>4, <3>5 DEF LinkedIn, Ring
    <3>7. \E q : IsRing(q, m + 1, h, next2, prev2) /\ On(q, m + 1) = On(r, m) \cup {e}
      BY <3>6, RingAdd
    <3> QED
      BY <3>2, <3>4, <3>5, <3>7
  <2> QED
    BY <2>1, <2>2
<1>5. PICK q, m : IsRing(q, m, m_list_head', next_ptr', prev_ptr') /\ On(q, m) = Listed \cup {e}
  BY <1>4
<1>6. Ring(q, m)'
  BY <1>5 DEF Ring
<1>7. m_list_head' # Null
  BY <1>1, <1>3
<1>8. Listed' = Listed \cup {e}
  BY <1>5, <1>6, <1>7, RingWalkNext DEF Walked
<1>9. Listed \subseteq Nodes
  BY NotEndless
<1>10. /\ name'[e] = n /\ data'[e] = d
       /\ \A f \in Listed : name'[f] = name[f] /\ data'[f] = data[f]
  BY <1>1, <1>2, <1>3, <1>9
<1>11. Content' = Content \cup {[name |-> n, data |-> d]}
  BY <1>8, <1>10 DEF Content, FileOf
<1>12. ListInv'
  <2>1. Listed' \cap fresh' = {}
    BY <1>1, <1>8 DEF ListInv
  <2>2. \A f \in Listed : name[f] # n
    BY DEF Holding
  <2> QED
    BY <1>8, <1>10, <2>1, <2>2 DEF ListInv
<1> QED
  BY <1>6, <1>7, <1>11, <1>12 DEF RingInv

(* A file less. *)
LEMMA RemoveStep ==
  ASSUME TypeOK, RingInv, ListInv, NEW n \in Names, NEW e \in Holding(n), RemoveEntry(e)
  PROVE  RingInv' /\ ListInv' /\ Content' = {f \in Content : f.name # n}
<1>1. /\ name \in [Nodes -> Names \cup {Null}] /\ data \in [Nodes -> Data \cup {Null}]
      /\ next_ptr \in [Nodes -> Nodes \cup {Null}] /\ prev_ptr \in [Nodes -> Nodes \cup {Null}]
      /\ fresh \subseteq Nodes
  BY DEF TypeOK
<1>2. e \in Listed /\ name[e] = n /\ m_list_head # Null
  BY NotEndless DEF Holding
<1>3. PICK r, m : Ring(r, m)
  BY <1>2 DEF RingInv
<1>4. Listed = On(r, m) /\ Listed \subseteq Nodes
  BY <1>2, <1>3, RingWalk, NotEndless DEF Walked
<1>5. PICK h, next, prev, next2, prev2 :
        /\ h = m_list_head /\ next = next_ptr /\ prev = prev_ptr
        /\ prev2 = [prev EXCEPT ![next[e]] = prev[e]]
        /\ next2 = [next EXCEPT ![prev2[e]] = next[e]]
  OBVIOUS
<1>6. /\ prev_ptr' = prev2 /\ next_ptr' = next2
      /\ name' = [name EXCEPT ![e] = Null] /\ data' = [data EXCEPT ![e] = Null]
      /\ IF h = e THEN /\ m_list_head' = IF next2[e] = e THEN Null ELSE next2[e]
                       /\ fresh' = fresh \cup {e}
                  ELSE m_list_head' = h /\ fresh' = fresh
  BY <1>5 DEF RemoveEntry
<1>7. /\ IsRing(r, m, h, next, prev) /\ m \in Nat \ {0} /\ e \in On(r, m)
      /\ next \in [Nodes -> Nodes \cup {Null}] /\ prev \in [Nodes -> Nodes \cup {Null}]
      /\ h \in Nodes
  <2>1. IsRing(r, m, h, next, prev)
    BY <1>3, <1>5 DEF Ring
  <2>2. m \in Nat \ {0} /\ h \in On(r, m) /\ On(r, m) \subseteq Nodes
    <3>1. m \in Nat \ {0}
      BY <2>1 DEF IsRing
    <3>2. h \in On(r, m) /\ On(r, m) \subseteq Nodes
      BY <2>1, RingFacts, Zenon
    <3> QED
      BY <3>1, <3>2
  <2>3. e \in On(r, m) /\ h \in Nodes
    BY <1>2, <1>4, <2>2
  <2> QED
    BY <1>1, <1>5, <2>1, <2>2, <2>3
<1>8. RingInv' /\ Listed' = Listed \ {e}
  <2>1. CASE m = 1
    <3>1. r[0] = h /\ r[1] = h /\ next[r[0]] = r[1] /\ prev[r[1]] = r[0] /\ On(r, m) = {h}
      <4>1. 0 .. (m - 1) = {0} /\ 0 + 1 = 1
        BY <2>1
      <4> QED
        BY <1>7, <2>1, <4>1 DEF IsRing, On
    <3>2. e = h /\ next[e] = e /\ prev[e] = e
      BY <1>7, <3>1
    <3>3. prev2[e] = e
      BY <1>5, <1>7, <3>2
    <3>4. next2[e] = e
      BY <1>5, <1>7, <3>2, <3>3
    <3>5. m_list_head' = Null
      BY <1>6, <3>2, <3>4
    <3> QED
      BY <1>4, <3>1, <3>2, <3>5, NoList
  <2>2. CASE m # 1
    <3>1. PICK h2 : h2 = IF h = e THEN next2[e] ELSE h
      OBVIOUS
    <3>2. Unlinked(r, m, h, next, prev, e, h2, next2, prev2)
      <4>1. m > 1
        BY <1>7, <2>2
      <4> QED
        BY <1>5, <1>7, <3>1, <4>1 DEF Unlinked
    <3>3. /\ next2[e] # e
          /\ \E q : IsRing(q, m - 1, h2, next2, prev2) /\ On(q, m - 1) = On(r, m) \ {e}
      BY <3>2, RingRemove
    <3>4. PICK q : IsRing(q, m - 1, h2, next2, prev2) /\ On(q, m - 1) = On(r, m) \ {e}
      BY <3>3
    <3>5. m_list_head' = h2
      BY <1>6, <3>1, <3>3
    <3>6. Ring(q, m - 1)'
      BY <1>6, <3>4, <3>5 DEF Ring
    <3>7. m_list_head' # Null
      <4>1. h2 \in Nodes
        BY <3>4, RingFacts
      <4> QED
        BY <3>5, <4>1, NodesAssumption
    <3>8. Walked(q, m - 1)'
      BY <3>6, <3>7, RingWalkNext
    <3> QED
      BY <1>4, <3>4, <3>6, <3>8 DEF RingInv, Walked
  <2> QED
    BY <2>1, <2>2
<1>9. \A f \in Listed \ {e} : name'[f] = name[f] /\ data'[f] = data[f] /\ name[f] # n
  BY <1>1, <1>2, <1>4, <1>6 DEF ListInv
<1>10. Content' = {f \in Content : f.name # n}
  <2>1. Content' = {FileOf(f) : f \in Listed \ {e}}
    BY <1>8, <1>9 DEF Content, FileOf
  <2>2. \A f \in Listed : FileOf(f).name # n <=> f # e
    BY <1>2, <1>9 DEF FileOf
  <2> QED
    BY <2>1, <2>2 DEF Content
<1>11. ListInv'
  <2>1. Listed' \cap fresh' = {}
    BY <1>6, <1>8 DEF ListInv
  <2> QED
    BY <1>8, <1>9, <2>1 DEF ListInv
<1> QED
  BY <1>8, <1>10, <1>11

(* New contents of the only file: it is linked in where it is. *)
LEMMA ReplaceSoleStep ==
  ASSUME TypeOK, RingInv, ListInv, NEW n \in Names, NEW d \in Data,
         Size = 1, Holding(n) # {}, AddFromMemory(n, d)
  PROVE  /\ RingInv' /\ ListInv' /\ m_list_head' # Null
         /\ Content' = {[name |-> n, data |-> d]}
         /\ \A f \in Content : f.name = n
<1>1. PICK e \in Holding(n) :
        /\ name' = [name EXCEPT ![e] = n]
        /\ data' = [data EXCEPT ![e] = d]
        /\ fresh' = fresh \ {e}
        /\ IF m_list_head = Null
           THEN /\ m_list_head' = e
                /\ next_ptr' = [next_ptr EXCEPT ![e] = e]
                /\ prev_ptr' = [prev_ptr EXCEPT ![e] = e]
           ELSE LET last == prev_ptr[m_list_head]
                    prev == [prev_ptr EXCEPT ![e] = last]
                    next == [next_ptr EXCEPT ![e] = m_list_head]
                IN  /\ next_ptr' = [next EXCEPT ![prev[m_list_head]] = e]
                    /\ prev_ptr' = [prev EXCEPT ![m_list_head] = e]
                    /\ UNCHANGED m_list_head
  BY DEF AddFromMemory
<1>2. /\ name \in [Nodes -> Names \cup {Null}] /\ data \in [Nodes -> Data \cup {Null}]
      /\ next_ptr \in [Nodes -> Nodes \cup {Null}] /\ prev_ptr \in [Nodes -> Nodes \cup {Null}]
  BY DEF TypeOK
<1>3. e \in Listed /\ name[e] = n /\ m_list_head # Null /\ e \in Nodes
  BY NotEndless DEF Holding
<1>4. PICK r, m : Ring(r, m)
  BY <1>3 DEF RingInv
<1>5. Listed = On(r, m) /\ m = 1
  BY <1>3, <1>4, RingWalk DEF Walked
<1>6. /\ Listed = {e} /\ m_list_head = e /\ next_ptr[e] = e /\ prev_ptr[e] = e
  <2>1. 0 .. (1 - 1) = {0} /\ 0 + 1 = 1
    OBVIOUS
  <2>2. /\ r[0] = m_list_head /\ r[1] = m_list_head
        /\ next_ptr[r[0]] = r[1] /\ prev_ptr[r[1]] = r[0] /\ On(r, m) = {r[0]}
    BY <1>4, <1>5, <2>1 DEF Ring, IsRing, On
  <2> QED
    BY <1>3, <1>5, <2>2
<1>7. /\ next_ptr'[e] = e /\ prev_ptr'[e] = e /\ m_list_head' = e
  <2>1. [prev_ptr EXCEPT ![e] = prev_ptr[m_list_head]][m_list_head] = e
    BY <1>2, <1>3, <1>6
  <2> QED
    BY <1>1, <1>2, <1>3, <1>6, <2>1
<1>8. PICK q : IsRing(q, 1, e, next_ptr', prev_ptr') /\ On(q, 1) = {e}
  BY <1>3, <1>7, RingOne
<1>9. Ring(q, 1)' /\ m_list_head' # Null
  BY <1>3, <1>7, <1>8, NodesAssumption DEF Ring
<1>10. Listed' = {e}
  BY <1>8, <1>9, RingWalkNext DEF Walked
<1>11. name'[e] = n /\ data'[e] = d
  BY <1>1, <1>2, <1>3
<1>12. ListInv'
  <2>1. Listed' \cap fresh' = {}
    BY <1>1, <1>10
  <2> QED
    BY <1>10, <1>11, <2>1 DEF ListInv
<1>13. Content' = {[name |-> n, data |-> d]} /\ \A f \in Content : f.name = n
  BY <1>3, <1>6, <1>10, <1>11 DEF Content, FileOf
<1> QED
  BY <1>9, <1>12, <1>13 DEF RingInv

(* The files as Save finds them. *)
Good(files) ==
  /\ files \in Seq(File) /\ files # <<>>
  /\ \A j, k \in 1 .. Len(files) : files[j].name = files[k].name => j = k

LEMMA InOrderFiles ==
  ASSUME RingInv, ListInv, m_list_head # Null
  PROVE  Good(InOrder) /\ Content = {InOrder[k] : k \in 1 .. Len(InOrder)}
<1>1. PICK r, m : Ring(r, m)
  BY DEF RingInv
<1>2. Listed = On(r, m) /\ InOrder = [k \in 1 .. m |-> FileOf(r[k - 1])]
  BY <1>1, RingWalk DEF Walked, FileOf
<1>3. /\ m \in Nat \ {0} /\ \A j, k \in 0 .. (m - 1) : r[j] = r[k] => j = k
  BY <1>1 DEF Ring, IsRing
<1>4. \A k \in 1 .. m : k - 1 \in 0 .. (m - 1) /\ r[k - 1] \in Listed
  BY <1>2, <1>3 DEF On
<1>5. \A k \in 1 .. m : FileOf(r[k - 1]) \in File
  BY <1>4 DEF FileOf, File, ListInv
<1>6. InOrder \in Seq(File) /\ Len(InOrder) = m /\ InOrder # <<>>
  <2>1. InOrder \in [1 .. m -> File]
    BY <1>2, <1>5
  <2> QED
    BY <1>2, <1>3, <2>1
<1>7. ASSUME NEW j \in 1 .. m, NEW k \in 1 .. m, InOrder[j].name = InOrder[k].name
      PROVE  j = k
  <2>1. name[r[j - 1]] = name[r[k - 1]]
    BY <1>2, <1>7 DEF FileOf
  <2>2. r[j - 1] = r[k - 1]
    BY <1>4, <2>1 DEF ListInv
  <2>3. j - 1 = k - 1
    BY <1>3, <1>4, <2>2
  <2> QED
    BY <2>3
<1>8. Content = {InOrder[k] : k \in 1 .. m}
  <2>1. \A k \in 0 .. (m - 1) : k + 1 \in 1 .. m /\ (k + 1) - 1 = k
    BY <1>3
  <2>2. \A k \in 0 .. (m - 1) : \E j \in 1 .. m : InOrder[j] = FileOf(r[k])
    BY <1>2, <2>1
  <2>3. \A e \in Listed : \E j \in 1 .. m : InOrder[j] = FileOf(e)
    BY <1>2, <2>2 DEF On
  <2>4. \A k \in 1 .. m : InOrder[k] \in Content
    BY <1>2, <1>4 DEF Content
  <2> QED
    BY <2>3, <2>4 DEF Content
<1> QED
  BY <1>6, <1>7, <1>8 DEF Good

-----------------------------------------------------------------------------
(* The invocations.                                                         *)

FilesIn(files, k) == {files[j] : j \in 1 .. k}
ImageHolds(files) == Good(files) /\ image = Layout(files)

(* Load is at file k + 1 of the image, and the list holds the first k. *)
Loading(files, k) ==
  /\ ImageHolds(files) /\ k \in 0 .. (Len(files) - 1)
  /\ todo = SubSeq(files, k + 1, Len(files))
  /\ Content = FilesIn(files, k)

DiskInv ==
  /\ phase # "hung"
  /\ phase \in Ended => m_list_head = Null
  /\ written = ImageParts => \E files : ImageHolds(files)
  /\ phase = "load" => written = ImageParts /\ \E files, k : Loading(files, k)
  /\ phase = "write" => /\ m_list_head # Null
                        /\ \E files : ImageHolds(files) /\ Content = FilesIn(files, Len(files))

BuildRdInv == TypeOK /\ RingInv /\ ListInv /\ DiskInv

ListTypes ==
  /\ name \in [Nodes -> Names \cup {Null}]
  /\ data \in [Nodes -> Data \cup {Null}]
  /\ next_ptr \in [Nodes -> Nodes \cup {Null}]
  /\ prev_ptr \in [Nodes -> Nodes \cup {Null}]
  /\ fresh \subseteq Nodes
  /\ m_list_head \in Nodes \cup {Null}

LEMMA Suffix ==
  ASSUME NEW S, NEW files \in Seq(S), NEW k \in 0 .. (Len(files) - 1)
  PROVE  LET t == SubSeq(files, k + 1, Len(files))
         IN  /\ t \in Seq(S) /\ t # <<>> /\ Head(t) = files[k + 1] /\ Tail(t) \in Seq(S)
             /\ Tail(t) = SubSeq(files, (k + 1) + 1, Len(files))
             /\ (Tail(t) = <<>> <=> k + 1 = Len(files))
<1> DEFINE n == Len(files)
           t == SubSeq(files, k + 1, n)
           u == SubSeq(files, (k + 1) + 1, n)
<1>1. n \in Nat /\ k \in Nat /\ k + 1 \in 1 .. n /\ (k + 1) + 1 \in Nat
  OBVIOUS
<1>2. t \in Seq(S) /\ Len(t) = n - k /\ \A j \in 1 .. (n - k) : t[j] = files[k + j]
  BY <1>1
<1>3. u \in Seq(S) /\ Len(u) = n - (k + 1) /\ \A j \in 1 .. (n - (k + 1)) : u[j] = files[(k + 1) + j]
  BY <1>1
<1> HIDE DEF t, u, n
<1>4. t # <<>> /\ Head(t) = files[k + 1]
  <2>1. Len(t) # 0 /\ 1 \in 1 .. (n - k)
    BY <1>1, <1>2
  <2> QED
    BY <1>2, <2>1
<1>5. Tail(t) \in Seq(S) /\ Len(Tail(t)) = n - (k + 1)
      /\ \A j \in 1 .. (n - (k + 1)) : Tail(t)[j] = files[(k + 1) + j]
  <2>1. Tail(t) \in Seq(S) /\ Len(Tail(t)) = Len(t) - 1
        /\ \A j \in 1 .. (Len(t) - 1) : Tail(t)[j] = t[j + 1]
    BY <1>2, <1>4, HeadTailProperties
  <2>2. Len(t) - 1 = n - (k + 1)
    BY <1>1, <1>2
  <2>3. \A j \in 1 .. (n - (k + 1)) : j + 1 \in 1 .. (n - k) /\ k + (j + 1) = (k + 1) + j
    BY <1>1
  <2> QED
    BY <1>2, <2>1, <2>2, <2>3
<1>6. Tail(t) = u
  BY <1>3, <1>5, SeqEqual
<1>7. Tail(t) = <<>> <=> k + 1 = n
  <2>1. Tail(t) = <<>> <=> Len(Tail(t)) = 0
    BY <1>5, EmptySeq
  <2> QED
    BY <1>1, <1>5, <2>1
<1> QED
  BY <1>2, <1>4, <1>5, <1>6, <1>7 DEF t, u, n

LEMMA AddTypes ==
  ASSUME TypeOK, RingInv, NEW n \in Names, NEW d \in Data, AddFromMemory(n, d)
  PROVE  ListTypes'
<1>1. PICK e \in IF Holding(n) = {} THEN fresh ELSE Holding(n) :
        /\ name' = [name EXCEPT ![e] = n]
        /\ data' = [data EXCEPT ![e] = d]
        /\ fresh' = fresh \ {e}
        /\ IF m_list_head = Null
           THEN /\ m_list_head' = e
                /\ next_ptr' = [next_ptr EXCEPT ![e] = e]
                /\ prev_ptr' = [prev_ptr EXCEPT ![e] = e]
           ELSE LET last == prev_ptr[m_list_head]
                    prev == [prev_ptr EXCEPT ![e] = last]
                    next == [next_ptr EXCEPT ![e] = m_list_head]
                IN  /\ next_ptr' = [next EXCEPT ![prev[m_list_head]] = e]
                    /\ prev_ptr' = [prev EXCEPT ![m_list_head] = e]
                    /\ UNCHANGED m_list_head
  BY DEF AddFromMemory
<1>2. ListTypes /\ e \in Nodes
  BY NotEndless DEF TypeOK, ListTypes, Holding
<1>3. m_list_head # Null => prev_ptr[m_list_head] \in Nodes \cup {Null}
  BY <1>2 DEF ListTypes
<1> QED
  BY <1>1, <1>2, <1>3 DEF ListTypes

LEMMA RemoveTypes ==
  ASSUME TypeOK, RingInv, NEW n, NEW e \in Holding(n), RemoveEntry(e)
  PROVE  ListTypes'
<1>1. ListTypes /\ e \in Nodes
  BY NotEndless DEF TypeOK, ListTypes, Holding
<1>2. PICK prev \in [Nodes -> Nodes \cup {Null}] : prev = [prev_ptr EXCEPT ![next_ptr[e]] = prev_ptr[e]]
  BY <1>1 DEF ListTypes
<1>3. PICK next \in [Nodes -> Nodes \cup {Null}] : next = [next_ptr EXCEPT ![prev[e]] = next_ptr[e]]
  BY <1>1 DEF ListTypes
<1>4. /\ name' = [name EXCEPT ![e] = Null]
      /\ data' = [data EXCEPT ![e] = Null]
      /\ prev_ptr' = prev
      /\ next_ptr' = next
      /\ IF m_list_head = e
         THEN /\ m_list_head' = IF next[e] = e THEN Null ELSE next[e]
              /\ fresh' = fresh \cup {e}
         ELSE UNCHANGED <<m_list_head, fresh>>
  BY <1>2, <1>3 DEF RemoveEntry
<1> QED
  BY <1>1, <1>4 DEF ListTypes

LEMMA ExitTypes ==
  ASSUME NEW how \in Ended, Exit(how)
  PROVE  ListTypes' /\ todo' = <<>> /\ phase' \in Ended /\ m_list_head' = Null
  BY DEF Exit, ListTypes

LEMMA LoadStep ==
  ASSUME BuildRdInv, LoadFile
  PROVE  /\ RingInv' /\ ListInv' /\ m_list_head' # Null /\ ListTypes'
         /\ todo' \in Seq([name : Names, data : Data])
         /\ \E files, k :
              /\ Loading(files, k)
              /\ Content' = FilesIn(files, k + 1)
              /\ todo' = SubSeq(files, (k + 1) + 1, Len(files))
              /\ todo' = <<>> <=> k + 1 = Len(files)
<1>1. PICK files, k : Loading(files, k)
  BY DEF BuildRdInv, DiskInv, LoadFile
<1>2. /\ files \in Seq(File) /\ k \in 0 .. (Len(files) - 1)
      /\ todo = SubSeq(files, k + 1, Len(files)) /\ Content = FilesIn(files, k)
      /\ \A v, j \in 1 .. Len(files) : files[v].name = files[j].name => v = j
  BY <1>1 DEF Loading, ImageHolds, Good
<1>3. /\ todo # <<>> /\ Head(todo) = files[k + 1] /\ Tail(todo) \in Seq(File)
      /\ Tail(todo) = SubSeq(files, (k + 1) + 1, Len(files))
      /\ Tail(todo) = <<>> <=> k + 1 = Len(files)
  <2>1. PICK S, s, v : S = File /\ s = files /\ v = k
    OBVIOUS
  <2>0. s \in Seq(S) /\ v \in 0 .. (Len(s) - 1)
    BY <1>2, <2>1
  <2>2. /\ SubSeq(s, v + 1, Len(s)) # <<>> /\ Head(SubSeq(s, v + 1, Len(s))) = s[v + 1]
        /\ Tail(SubSeq(s, v + 1, Len(s))) = SubSeq(s, (v + 1) + 1, Len(s))
        /\ Tail(SubSeq(s, v + 1, Len(s))) \in Seq(S)
        /\ Tail(SubSeq(s, v + 1, Len(s))) = <<>> <=> v + 1 = Len(s)
    BY <2>0, Suffix
  <2> QED
    BY <1>2, <2>1, <2>2
<1>4. /\ k \in Nat /\ k + 1 \in 1 .. Len(files) /\ files[k + 1] \in File
      /\ \A j \in 1 .. k : j \in 1 .. Len(files) /\ j # k + 1
  BY <1>2
<1>5. PICK n \in Names, d \in Data : files[k + 1] = [name |-> n, data |-> d]
  BY <1>4 DEF File
<1>6. Head(todo).name = n /\ Head(todo).data = d
  BY <1>3, <1>5
<1>7. AddFromMemory(n, d) /\ todo' = Tail(todo)
  BY <1>6 DEF LoadFile
<1>8. Holding(n) = {}
  <2> SUFFICES ASSUME NEW e \in Holding(n) PROVE FALSE
    OBVIOUS
  <2>1. FileOf(e) \in FilesIn(files, k)
    BY <1>2 DEF Holding, Content
  <2>2. PICK j \in 1 .. k : FileOf(e) = files[j]
    BY <2>1 DEF FilesIn
  <2>3. files[j].name = files[k + 1].name
    BY <1>5, <2>2 DEF FileOf, Holding
  <2> QED
    BY <1>2, <1>4, <2>3
<1>9. /\ RingInv' /\ ListInv' /\ m_list_head' # Null
      /\ Content' = Content \cup {files[k + 1]}
  BY <1>5, <1>7, <1>8, AddStep DEF BuildRdInv
<1>10. ListTypes'
  BY <1>7, AddTypes DEF BuildRdInv
<1>11. Content' = FilesIn(files, k + 1)
  <2>1. \A j : j \in 1 .. (k + 1) <=> j \in 1 .. k \/ j = k + 1
    BY <1>4
  <2> QED
    BY <1>2, <1>9, <2>1 DEF FilesIn
<1> QED
  BY <1>1, <1>3, <1>7, <1>9, <1>10, <1>11 DEF File

LEMMA InitInv == Init => BuildRdInv
<1> SUFFICES ASSUME Init PROVE BuildRdInv
  OBVIOUS
<1>1. TypeOK
  BY DEF Init, TypeOK, Ended, NoFile, ImageParts
<1>2. Listed = {}
  BY DEF Init, Listed
<1>3. RingInv /\ ListInv
  BY <1>2 DEF RingInv, ListInv, Init
<1>4. DiskInv
  BY DEF DiskInv, Init, NoFile, ImageParts, Ended
<1> QED
  BY <1>1, <1>3, <1>4 DEF BuildRdInv

LEMMA NextInv == BuildRdInv /\ [Next]_vars => BuildRdInv'
<1> SUFFICES ASSUME BuildRdInv, [Next]_vars PROVE BuildRdInv'
  OBVIOUS
<1> USE DEF BuildRdInv
<1>1. ListTypes /\ todo \in Seq([name : Names, data : Data]) /\ written \in 0 .. NoFile
  BY DEF TypeOK, ListTypes
<1>2. ASSUME NEW how \in Ended, Exit(how), UNCHANGED diskVars
      PROVE  BuildRdInv'
  <2>1. TypeOK'
    <3>1. ListTypes' /\ todo' = <<>> /\ phase' \in Ended /\ written' = written
      BY <1>2, ExitTypes DEF diskVars
    <3>2. <<>> \in Seq([name : Names, data : Data])
      OBVIOUS
    <3> QED
      BY <1>1, <3>1, <3>2 DEF TypeOK, ListTypes, Ended
  <2>2. RingInv' /\ ListInv'
    BY <1>2, ExitTypes, NoList
  <2>3. DiskInv'
    BY <1>2, ExitTypes DEF DiskInv, ImageHolds, diskVars, Ended
  <2> QED
    BY <2>1, <2>2, <2>3
<1>3. CASE Invoke
  <2>1. UNCHANGED listVars /\ UNCHANGED diskVars /\ phase \in Ended
    BY <1>3 DEF Invoke
  <2>2. RingInv' /\ ListInv' /\ Content' = Content /\ m_list_head' = m_list_head
    BY <2>1, SameList DEF listVars
  <2>3. CASE written = NoFile /\ phase' = "edit" /\ UNCHANGED todo
    <3>1. TypeOK'
      BY <1>1, <2>1, <2>3 DEF TypeOK, ListTypes, listVars, diskVars
    <3>2. DiskInv'
      BY <2>1, <2>3 DEF DiskInv, ImageHolds, diskVars, NoFile, ImageParts, Ended
    <3> QED
      BY <2>2, <3>1, <3>2
  <2>4. CASE written = ImageParts /\ phase' = "load" /\ todo' = ReadInOrder(image)
    <3>1. PICK files : ImageHolds(files)
      BY <2>4 DEF DiskInv
    <3>2. files \in Seq(File) /\ files # <<>> /\ todo' = files
      BY <2>4, <3>1, LayoutRead DEF ImageHolds, Good
    <3>3. TypeOK'
      BY <1>1, <2>1, <2>4, <3>2 DEF TypeOK, ListTypes, listVars, diskVars, File
    <3>4. Content' = {}
      BY <2>1, <2>2 DEF DiskInv, Content, Listed
    <3>5. 0 \in 0 .. (Len(files) - 1) /\ files = SubSeq(files, 0 + 1, Len(files))
      <4>1. Len(files) # 0 /\ Len(files) \in Nat
        BY <3>2
      <4> QED
        BY <3>2, <4>1
    <3>6. FilesIn(files, 0) = {}
      BY DEF FilesIn
    <3>7. ImageHolds(files)'
      BY <2>1, <3>1 DEF ImageHolds, diskVars
    <3>8. Loading(files, 0)'
      BY <3>2, <3>4, <3>5, <3>6, <3>7 DEF Loading
    <3>9. DiskInv'
      BY <2>1, <2>4, <3>7, <3>8 DEF DiskInv, diskVars, Ended
    <3> QED
      BY <2>2, <3>3, <3>9
  <2> QED
    BY <1>3, <2>3, <2>4 DEF Invoke
<1>4. CASE LoadFile
  <2>1. /\ RingInv' /\ ListInv' /\ m_list_head' # Null /\ ListTypes'
        /\ todo' \in Seq([name : Names, data : Data])
    BY <1>4, LoadStep
  <2>2. PICK files, k : /\ Loading(files, k)
                        /\ Content' = FilesIn(files, k + 1)
                        /\ todo' = SubSeq(files, (k + 1) + 1, Len(files))
                        /\ todo' = <<>> <=> k + 1 = Len(files)
    BY <1>4, LoadStep
  <2>3. /\ phase = "load" /\ phase' = IF todo' = <<>> THEN "edit" ELSE "load"
        /\ UNCHANGED diskVars /\ written = ImageParts
    BY <1>4 DEF LoadFile, DiskInv
  <2>4. TypeOK'
    BY <1>1, <2>1, <2>3 DEF TypeOK, ListTypes, diskVars
  <2>5. ImageHolds(files)' /\ k \in 0 .. (Len(files) - 1)
    BY <2>2, <2>3 DEF Loading, ImageHolds, diskVars
  <2>6. phase' = "load" => Loading(files, k + 1)'
    <3>1. phase' = "load" => k + 1 \in 0 .. (Len(files) - 1)
      <4>1. Len(files) \in Nat
        BY <2>5 DEF ImageHolds, Good
      <4>2. phase' = "load" => k + 1 # Len(files)
        BY <2>2, <2>3
      <4> QED
        BY <2>5, <4>1, <4>2
    <3> QED
      BY <2>2, <2>5, <3>1 DEF Loading
  <2>7. DiskInv'
    BY <2>3, <2>5, <2>6 DEF DiskInv, diskVars, Ended
  <2> QED
    BY <2>1, <2>4, <2>7
<1>5. CASE Quit
  <2>1. Exit("idle") /\ UNCHANGED diskVars
    BY <1>5, NotEndless DEF Quit
  <2> QED
    BY <1>2, <2>1 DEF Ended
<1>6. CASE Save
  <2>1. CASE m_list_head = Null
    <3>1. Exit("saved") /\ UNCHANGED diskVars
      BY <1>6, <2>1 DEF Save
    <3> QED
      BY <1>2, <3>1 DEF Ended
  <2>2. CASE m_list_head # Null
    <3>1. /\ phase' = "write" /\ image' = Layout(InOrder) /\ written' = 0
          /\ UNCHANGED todo /\ UNCHANGED listVars
      BY <1>6, <2>2, NotEndless DEF Save
    <3>2. TypeOK'
      BY <1>1, <3>1 DEF TypeOK, ListTypes, listVars, NoFile, ImageParts
    <3>3. RingInv' /\ ListInv' /\ Content' = Content /\ m_list_head' = m_list_head
      BY <3>1, SameList DEF listVars
    <3>4. Good(InOrder) /\ Content = FilesIn(InOrder, Len(InOrder))
      BY <2>2, InOrderFiles DEF FilesIn
    <3>5. PICK files : files = InOrder
      OBVIOUS
    <3>6. ImageHolds(files)' /\ Content' = FilesIn(files, Len(files))
      BY <3>1, <3>3, <3>4, <3>5 DEF ImageHolds
    <3>7. DiskInv'
      BY <2>2, <3>1, <3>3, <3>6 DEF DiskInv, Ended, ImageParts
    <3> QED
      BY <3>2, <3>3, <3>7
  <2> QED
    BY <2>1, <2>2
<1>7. CASE WritePart
  <2>1. PICK files : ImageHolds(files) /\ Content = FilesIn(files, Len(files))
    BY <1>7 DEF WritePart, DiskInv
  <2>2. /\ phase = "write" /\ written' = written + 1 /\ written \in 0 .. 3 /\ image' = image
        /\ m_list_head # Null
    BY <1>1, <1>7 DEF WritePart, TypeOK, DiskInv, NoFile, ImageParts
  <2>3. ImageHolds(files)'
    BY <2>1, <2>2 DEF ImageHolds
  <2>4. CASE written' = ImageParts
    <3>1. Exit("saved")
      BY <1>7, <2>4 DEF WritePart
    <3>2. TypeOK'
      BY <2>4, <3>1, ExitTypes DEF TypeOK, ListTypes, Ended, NoFile, ImageParts
    <3>3. RingInv' /\ ListInv'
      BY <3>1, ExitTypes, NoList DEF Ended
    <3>4. DiskInv'
      BY <2>3, <3>1, ExitTypes DEF DiskInv, Ended
    <3> QED
      BY <3>2, <3>3, <3>4
  <2>5. CASE written' # ImageParts
    <3>1. UNCHANGED phase /\ UNCHANGED todo /\ UNCHANGED listVars
      BY <1>7, <2>5 DEF WritePart
    <3>2. TypeOK'
      BY <1>1, <2>2, <2>5, <3>1 DEF TypeOK, ListTypes, listVars, NoFile, ImageParts
    <3>3. RingInv' /\ ListInv' /\ Content' = Content /\ m_list_head' = m_list_head
      BY <3>1, SameList DEF listVars
    <3>4. DiskInv'
      BY <2>1, <2>2, <2>3, <2>5, <3>1, <3>3 DEF DiskInv, Ended
    <3> QED
      BY <3>2, <3>3, <3>4
  <2> QED
    BY <2>4, <2>5
<1>8. CASE Die
  BY <1>2, <1>8 DEF Die, Ended
<1>9. CASE DeleteImage
  <2>1. /\ phase \in Ended /\ written' = NoFile
        /\ UNCHANGED phase /\ UNCHANGED todo /\ UNCHANGED listVars
    BY <1>9 DEF DeleteImage
  <2>2. TypeOK'
    BY <1>1, <2>1 DEF TypeOK, ListTypes, listVars, Ended, NoFile, ImageParts
  <2>3. RingInv' /\ ListInv' /\ m_list_head' = m_list_head
    BY <2>1, SameList DEF listVars
  <2>4. DiskInv'
    BY <2>1, <2>3 DEF DiskInv, Ended, NoFile, ImageParts
  <2> QED
    BY <2>2, <2>3, <2>4
<1>10. ASSUME phase = "edit", RingInv', ListInv', ListTypes', UNCHANGED <<phase, todo, diskVars>>
       PROVE  BuildRdInv'
  <2>1. TypeOK'
    BY <1>1, <1>10 DEF TypeOK, ListTypes, diskVars
  <2>2. DiskInv'
    BY <1>10 DEF DiskInv, ImageHolds, diskVars, Ended
  <2> QED
    BY <1>10, <2>1, <2>2
<1>11. ASSUME NEW n \in Names, Remove(n)
       PROVE  BuildRdInv'
  <2>1. PICK e \in Holding(n) : RemoveEntry(e)
    BY <1>11 DEF Remove
  <2>2. RingInv' /\ ListInv' /\ ListTypes'
    BY <2>1, RemoveStep, RemoveTypes
  <2> QED
    BY <1>10, <1>11, <2>2 DEF Remove
<1>12. ASSUME NEW n \in Names, NEW d \in Data, Add(n, d)
       PROVE  BuildRdInv'
  <2>1. RingInv' /\ ListInv' /\ ListTypes'
    BY <1>12, AddStep, AddTypes DEF Add
  <2> QED
    BY <1>10, <1>12, <2>1 DEF Add
<1>13. ASSUME NEW n \in Names, NEW d \in Data, ReplaceSole(n, d)
       PROVE  BuildRdInv'
  <2>1. RingInv' /\ ListInv' /\ ListTypes'
    BY <1>13, ReplaceSoleStep, AddTypes DEF ReplaceSole, Replace
  <2> QED
    BY <1>10, <1>13, <2>1 DEF ReplaceSole, Replace
<1>14. CASE UNCHANGED vars
  <2>1. UNCHANGED <<phase, todo, diskVars>> /\ UNCHANGED listVars
    BY <1>14 DEF vars
  <2>2. RingInv' /\ ListInv' /\ Content' = Content
    BY <2>1, SameList
  <2>3. TypeOK'
    BY <1>1, <2>1 DEF TypeOK, ListTypes, listVars, diskVars
  <2>4. DiskInv'
    BY <2>1, <2>2 DEF DiskInv, ImageHolds, Loading, listVars, diskVars
  <2> QED
    BY <2>2, <2>3, <2>4
<1> QED
  BY <1>3, <1>4, <1>5, <1>6, <1>7, <1>8, <1>9, <1>11, <1>12, <1>13, <1>14 DEF Next, Common

(* The list of every invocation, whatever it adds and removes, is a ring    *)
(* without end or gap, of entries that malloc has handed out, and no name   *)
(* is in it twice, if no file is replaced but an only one: the loops of     *)
(* Save and Find come to an end, and the links that AddFromMemory and       *)
(* Remove leave agree in both directions.                                   *)
THEOREM RingHolds == Spec => []RingSound
<1>1. Spec => []BuildRdInv
  BY InitInv, NextInv, PTL DEF Spec
<1>2. BuildRdInv => RingSound
  <2> SUFFICES ASSUME BuildRdInv, m_list_head # Null
               PROVE  /\ ~Endless
                      /\ Listed \cap fresh = {}
                      /\ \A e \in Listed : prev_ptr[next_ptr[e]] = e /\ next_ptr[prev_ptr[e]] = e
                      /\ \A e, f \in Listed : name[e] = name[f] => e = f
    BY DEF RingSound
  <2>1. PICK r, n : Ring(r, n)
    BY DEF BuildRdInv, RingInv
  <2>2. ~Endless /\ Listed = On(r, n)
    BY <2>1, RingWalk DEF Walked
  <2>3. \A e \in Listed : prev_ptr[next_ptr[e]] = e /\ next_ptr[prev_ptr[e]] = e
    BY <2>1, <2>2, RingFacts DEF Ring
  <2> QED
    BY <2>2, <2>3 DEF BuildRdInv, ListInv
<1> QED
  BY <1>1, <1>2, PTL

-----------------------------------------------------------------------------
(* The promise.                                                             *)

(* A set of files, as the function from names to contents. *)
AsFunction(h, F) ==
  /\ h \in [{f.name : f \in F} -> Data]
  /\ \A f \in F : h[f.name] = f.data

LEMMA SameFunction ==
  ASSUME NEW F, NEW g, NEW h, AsFunction(g, F), AsFunction(h, F)
  PROVE  g = h
<1> DEFINE N == {f.name : f \in F}
<1>1. g \in [N -> Data] /\ h \in [N -> Data]
  BY DEF AsFunction
<1>2. \A n \in N : g[n] = h[n]
  BY DEF AsFunction
<1> HIDE DEF N
<1> QED
  BY <1>1, <1>2

WithFile(F, n, d) == {f \in F : f.name # n} \cup {[name |-> n, data |-> d]}
PutInto(g, n, d) == [m \in DOMAIN g \cup {n} |-> IF m = n THEN d ELSE g[m]]
LEMMA PutFunction ==
  ASSUME NEW F, NEW g, NEW h, NEW n \in Names, NEW d \in Data,
         AsFunction(g, F), AsFunction(h, WithFile(F, n, d))
  PROVE  h = PutInto(g, n, d)
<1> DEFINE N == {f.name : f \in F}
           G == {f \in F : f.name # n} \cup {[name |-> n, data |-> d]}
           M == {f.name : f \in G}
<1>1. g \in [N -> Data] /\ \A f \in F : g[f.name] = f.data
  BY DEF AsFunction
<1>2. h \in [M -> Data] /\ \A f \in G : h[f.name] = f.data
  BY DEF AsFunction, WithFile
<1>3. M = N \cup {n}
  <2>1. n \in M
    <3>1. [name |-> n, data |-> d] \in G /\ [name |-> n, data |-> d].name = n
      OBVIOUS
    <3> HIDE DEF G
    <3> QED
      BY <3>1
  <2>2. \A f \in F : f.name \in M
    <3>1. \A f \in F : f.name # n => f \in G
      OBVIOUS
    <3> HIDE DEF G
    <3> QED
      BY <2>1, <3>1
  <2>3. \A f \in G : f.name \in N \cup {n}
    OBVIOUS
  <2> HIDE DEF G
  <2> QED
    BY <2>1, <2>2, <2>3
<1>4. h[n] = d
  <2>1. [name |-> n, data |-> d] \in G
    OBVIOUS
  <2> QED
    BY <1>2, <2>1
<1>5. \A m \in N : m # n => h[m] = g[m]
  <2> SUFFICES ASSUME NEW f \in F, f.name # n PROVE h[f.name] = g[f.name]
    OBVIOUS
  <2>1. f \in G
    OBVIOUS
  <2> QED
    BY <1>1, <1>2, <2>1
<1> HIDE DEF M, N, G
<1> QED
  BY <1>1, <1>2, <1>3, <1>4, <1>5 DEF PutInto

LEMMA DropFunction ==
  ASSUME NEW F, NEW g, NEW h, NEW n \in Names, AsFunction(g, F),
         AsFunction(h, {f \in F : f.name # n})
  PROVE  h = [m \in DOMAIN g \ {n} |-> g[m]]
<1> DEFINE N == {f.name : f \in F}
           G == {f \in F : f.name # n}
           M == {f.name : f \in G}
<1>1. g \in [N -> Data] /\ \A f \in F : g[f.name] = f.data
  BY DEF AsFunction
<1>2. h \in [M -> Data] /\ \A f \in G : h[f.name] = f.data
  BY DEF AsFunction
<1>3. M = N \ {n}
  OBVIOUS
<1>4. \A m \in M : h[m] = g[m]
  BY <1>1, <1>2
<1> HIDE DEF M, N, G
<1> QED
  BY <1>1, <1>2, <1>3, <1>4

LEMMA NoFunction ==
  ASSUME NEW h, AsFunction(h, {})
  PROVE  h = [n \in {} |-> NoImage]
<1>1. h \in [{} -> Data]
  BY DEF AsFunction
<1> QED
  BY <1>1

(* The list is one. *)
LEMMA HeldFiles ==
  ASSUME ListInv
  PROVE  AsFunction(Held, Content)
<1> DEFINE N == {name[e] : e \in Listed}
<1>1. ASSUME NEW e \in Listed
      PROVE  Held[name[e]] = data[e]
  <2>1. Holding(name[e]) = {e}
    BY DEF Holding, ListInv
  <2>2. name[e] \in N
    OBVIOUS
  <2>3. Held[name[e]] = data[CHOOSE f \in Holding(name[e]) : TRUE]
    BY <2>2 DEF Held
  <2> QED
    BY <2>1, <2>3
<1>2. DOMAIN Held = N /\ Held = [n \in N |-> Held[n]]
  BY DEF Held
<1>3. \A e \in Listed : data[e] \in Data
  BY DEF ListInv
<1>4. N = {f.name : f \in Content}
  <2>1. \A e \in Listed : FileOf(e) \in Content /\ FileOf(e).name = name[e]
    BY DEF Content, FileOf
  <2>2. \A f \in Content : \E e \in Listed : f.name = name[e]
    BY DEF Content, FileOf
  <2> QED
    BY <2>1, <2>2
<1>5. Held \in [N -> Data]
  BY <1>1, <1>2, <1>3
<1> HIDE DEF N
<1> QED
  BY <1>1, <1>4, <1>5 DEF AsFunction, Content, FileOf

(* So is what FindFile finds in an image. *)
LEMMA FoundFiles ==
  ASSUME NEW files, Good(files)
  PROVE  AsFunction(FindFile(Layout(files)), FilesIn(files, Len(files)))
<1> DEFINE n == Len(files)
           img == Layout(files)
           First(m) == CHOOSE k \in DOMAIN files :
                         files[k].name = m /\ \A j \in 1 .. (k - 1) : files[j].name # m
           N == {file.name : file \in Seqs!Range(files)}
<1>1. /\ files \in Seq(File) /\ n \in Nat /\ DOMAIN files = 1 .. n
      /\ \A j, k \in 1 .. n : files[j].name = files[k].name => j = k
  BY DEF Good
<1>2. img.entry_count = n /\ \A k \in 1 .. n : GetFile(img, k) = files[k]
  BY <1>1, LayoutRead
<1>3. [k \in 1 .. img.entry_count |-> GetFile(img, k)] = files
  <2>1. [k \in 1 .. img.entry_count |-> GetFile(img, k)] = [k \in 1 .. n |-> files[k]]
    BY <1>2
  <2>2. files = [k \in 1 .. n |-> files[k]]
    BY <1>1
  <2> QED
    BY <2>1, <2>2
<1> HIDE DEF img
<1>4. FindFile(img) = [m \in N |-> files[First(m)].data]
  <2> DEFINE all == [k \in 1 .. img.entry_count |-> GetFile(img, k)]
             Of(m) == CHOOSE k \in DOMAIN all :
                        all[k].name = m /\ \A j \in 1 .. (k - 1) : all[j].name # m
  <2>1. FindFile(img) = [m \in {file.name : file \in Seqs!Range(all)} |-> all[Of(m)].data]
    BY Zenon DEF FindFile
  <2>2. all = files
    BY <1>3
  <2> HIDE DEF all
  <2> QED
    BY <2>1, <2>2, ZenonT(40)
<1>5. ASSUME NEW k \in 1 .. n
      PROVE  First(files[k].name) = k
  <2>1. \A j \in 1 .. (k - 1) : j \in 1 .. n /\ j # k
    BY <1>1
  <2>2. \A j \in 1 .. (k - 1) : files[j].name # files[k].name
    BY <1>1, <2>1
  <2> QED
    BY <1>1, <2>2
<1>6. Seqs!Range(files) = FilesIn(files, n)
  BY <1>1 DEF Seqs!Range, FilesIn
<1> HIDE DEF First, n
<1>7. \A k \in 1 .. n : FindFile(img)[files[k].name] = files[k].data /\ files[k].data \in Data
  <2>1. \A k \in 1 .. n : files[k].name \in N
    BY <1>6 DEF FilesIn
  <2>2. \A k \in 1 .. n : files[k] \in File
    BY <1>1 DEF n
  <2> QED
    BY <1>4, <1>5, <2>1, <2>2 DEF File
<1>8. FindFile(img) \in [N -> Data]
  <2>1. \A m \in N : \E k \in 1 .. n : m = files[k].name
    BY <1>6 DEF FilesIn
  <2>2. \A m \in N : FindFile(img)[m] \in Data
    BY <1>7, <2>1
  <2> HIDE DEF N
  <2> QED
    BY <1>4, <2>2
<1> QED
  BY <1>6, <1>7, <1>8 DEF AsFunction, FilesIn, n, img

HeldIs == AsFunction(Held, Content)
LEMMA HeldState == ListInv => HeldIs
  BY HeldFiles DEF HeldIs
LEMMA HeldNext == ListInv' => AsFunction(Held', Content')
<1>1. (ListInv => HeldIs)'
  BY HeldState, PTL
<1> QED
  BY <1>1 DEF HeldIs

LEMMA FoundThere ==
  ASSUME NEW files, Good(files)
  PROVE  FindFile(Layout(files)) # NoImage /\ FindFile(Layout(files)) # Broken
<1> DEFINE N == {f.name : f \in FilesIn(files, Len(files))}
<1>1. FindFile(Layout(files)) \in [N -> Data]
  BY FoundFiles DEF AsFunction
<1>2. N \subseteq Names
  <2>1. \A k \in 1 .. Len(files) : files[k] \in File
    BY DEF Good
  <2>2. \A k \in 1 .. Len(files) : files[k].name \in Names
    BY <2>1 DEF File
  <2> QED
    BY <2>2 DEF FilesIn
<1> HIDE DEF N
<1> QED
  BY <1>1, <1>2, ImagesAssumption


(* The end of a process. *)
LEMMA ExitCloses ==
  ASSUME NEW how \in Ended, Exit(how), UNCHANGED diskVars
  PROVE  Disk!Close
<1>1. phase' \notin {"edit", "write"}
  BY ExitTypes DEF Ended
<1> QED
  BY <1>1 DEF Disk!Close, Disk!Empty, diskVars

LEMMA InvokeOpens ==
  ASSUME BuildRdInv, Invoke
  PROVE  Disk!Open \/ UNCHANGED Disk!vars
<1>1. UNCHANGED listVars /\ UNCHANGED diskVars /\ phase \notin {"edit", "write"}
  BY DEF Invoke, Ended
<1>2. CASE written = NoFile /\ phase' = "edit"
  <2>1. m_list_head = Null /\ RingInv' /\ ListInv' /\ Content' = Content
    BY <1>1, SameList DEF BuildRdInv, DiskInv, Invoke
  <2>2. Content' = {}
    BY <2>1 DEF Content, Listed
  <2>3. Held' = [n \in {} |-> NoImage]
    BY <2>1, <2>2, HeldNext, NoFunction
  <2>4. NoFile # ImageParts
    BY DEF NoFile, ImageParts
  <2> QED
    BY <1>1, <1>2, <2>3, <2>4, ImagesAssumption DEF Disk!Open, Disk!Empty, diskVars
<1>3. CASE written = ImageParts /\ phase' = "load"
  BY <1>1, <1>3 DEF Disk!vars, diskVars
<1> QED
  BY <1>2, <1>3 DEF Invoke

LEMMA LoadOpens ==
  ASSUME BuildRdInv, LoadFile
  PROVE  Disk!Open \/ UNCHANGED Disk!vars
<1>1. /\ phase = "load" /\ written = ImageParts
      /\ phase' = IF todo' = <<>> THEN "edit" ELSE "load"
      /\ UNCHANGED diskVars
  BY DEF LoadFile, BuildRdInv, DiskInv
<1>2. ListInv'
  BY LoadStep
<1>3. PICK files, k : /\ Loading(files, k)
                      /\ Content' = FilesIn(files, k + 1)
                      /\ todo' = <<>> <=> k + 1 = Len(files)
  BY LoadStep
<1>4. CASE todo' = <<>>
  <2>1. Good(files) /\ image = Layout(files) /\ Content' = FilesIn(files, Len(files))
    BY <1>3, <1>4 DEF Loading, ImageHolds
  <2>2. Held' = FindFile(image)
    <3>1. AsFunction(Held', FilesIn(files, Len(files)))
      BY <1>2, <2>1, HeldNext
    <3>2. AsFunction(FindFile(image), FilesIn(files, Len(files)))
      BY <2>1, FoundFiles
    <3>3. PICK g, h : g = Held' /\ h = FindFile(image)
      OBVIOUS
    <3> QED
      BY <3>1, <3>2, <3>3, SameFunction
  <2>3. FindFile(image) # NoImage /\ FindFile(image) # Broken
    BY <2>1, FoundThere
  <2>4. NoFile # ImageParts
    BY DEF NoFile, ImageParts
  <2> QED
    BY <1>1, <1>4, <2>2, <2>3, <2>4 DEF Disk!Open, Disk!Empty, diskVars
<1>5. CASE todo' # <<>>
  BY <1>1, <1>5 DEF Disk!vars, diskVars
<1> QED
  BY <1>4, <1>5

LEMMA EditPuts ==
  ASSUME ListInv, ListInv', phase = "edit", UNCHANGED <<phase, todo, diskVars>>,
         NEW n \in Names, NEW d \in Data,
         Content' = WithFile(Content, n, d)
  PROVE  Disk!Put(n, d)
<1>1. PICK F, g, h : F = Content /\ g = Held /\ h = Held'
  OBVIOUS
<1>2. AsFunction(g, F) /\ AsFunction(h, WithFile(F, n, d))
  BY <1>1, HeldFiles, HeldNext
<1>3. h = PutInto(g, n, d)
  BY <1>2, PutFunction
<1> QED
  BY <1>1, <1>3 DEF Disk!Put, PutInto, diskVars

LEMMA EditDrops ==
  ASSUME ListInv, ListInv', phase = "edit", UNCHANGED <<phase, todo, diskVars>>,
         NEW n \in Names, Content' = {f \in Content : f.name # n}
  PROVE  Disk!Drop(n)
<1>1. PICK F, g, h : F = Content /\ g = Held /\ h = Held'
  OBVIOUS
<1>2. AsFunction(g, F) /\ AsFunction(h, {f \in F : f.name # n})
  BY <1>1, HeldFiles, HeldNext
<1>3. h = [m \in DOMAIN g \ {n} |-> g[m]]
  BY <1>2, DropFunction
<1> QED
  BY <1>1, <1>3 DEF Disk!Drop, diskVars

LEMMA SaveBegins ==
  ASSUME BuildRdInv, Save, m_list_head # Null
  PROVE  Disk!BeginSave
<1>1. /\ phase = "edit" /\ phase' = "write" /\ written' = 0 /\ UNCHANGED listVars
  BY NotEndless DEF BuildRdInv, Save
<1>2. ListInv /\ ListInv' /\ Content' = Content
  BY <1>1, SameList DEF BuildRdInv
<1>3. Held' = Held
  BY <1>2, HeldFiles, HeldNext, SameFunction
<1>4. Held # [n \in {} |-> NoImage]
  <2>1. PICK e \in Listed : TRUE
    BY NotEndless DEF BuildRdInv
  <2>2. name[e] \in DOMAIN Held
    BY <2>1 DEF Held
  <2> QED
    BY <2>2
<1> QED
  BY <1>1, <1>3, <1>4 DEF Disk!BeginSave, Disk!Empty, NoFile, ImageParts

LEMMA WriteEnds ==
  ASSUME BuildRdInv, WritePart
  PROVE  Disk!EndSave \/ UNCHANGED Disk!vars
<1>1. /\ phase = "write" /\ written \in 0 .. 3 /\ written' = written + 1 /\ image' = image
  BY DEF WritePart, BuildRdInv, TypeOK, NoFile, ImageParts
<1>2. CASE written' = ImageParts
  <2>1. phase' = "saved"
    BY <1>2 DEF WritePart, Exit
  <2>2. PICK files : ImageHolds(files) /\ Content = FilesIn(files, Len(files))
    BY <1>1 DEF BuildRdInv, DiskInv
  <2>3. FindFile(image) = Held
    <3>1. AsFunction(Held, FilesIn(files, Len(files)))
      BY <2>2, HeldFiles DEF BuildRdInv
    <3>2. AsFunction(FindFile(image), FilesIn(files, Len(files)))
      BY <2>2, FoundFiles DEF ImageHolds
    <3>3. PICK g, h : g = Held /\ h = FindFile(image)
      OBVIOUS
    <3> QED
      BY <3>1, <3>2, <3>3, SameFunction
  <2> QED
    BY <1>1, <1>2, <2>1, <2>3 DEF Disk!EndSave, Disk!Empty, NoFile, ImageParts
<1>3. CASE written' # ImageParts
  <2>1. phase' = phase /\ UNCHANGED listVars /\ written \in 0 .. 2
    BY <1>1, <1>3 DEF WritePart, ImageParts
  <2>2. ListInv /\ ListInv' /\ Content' = Content
    BY <2>1, SameList DEF BuildRdInv
  <2>3. Held' = Held
    BY <2>2, HeldFiles, HeldNext, SameFunction
  <2> QED
    BY <1>1, <2>1, <2>3 DEF Disk!vars, NoFile, ImageParts
<1> QED
  BY <1>2, <1>3

LEMMA StepKeeps ==
  ASSUME BuildRdInv, [Next]_vars
  PROVE  [Disk!Next]_(Disk!vars)
<1>1. BuildRdInv'
  BY NextInv
<1>2. CASE Invoke
  BY <1>2, InvokeOpens DEF Disk!Next
<1>3. CASE LoadFile
  BY <1>3, LoadOpens DEF Disk!Next
<1>4. CASE Quit
  <2>1. Exit("idle") /\ UNCHANGED diskVars
    BY <1>4, NotEndless DEF Quit, BuildRdInv
  <2>2. "idle" \in Ended
    BY DEF Ended
  <2> QED
    BY <2>1, <2>2, ExitCloses DEF Disk!Next
<1>5. CASE Save
  <2>1. CASE m_list_head = Null
    <3>1. Exit("saved") /\ UNCHANGED diskVars
      BY <1>5, <2>1 DEF Save
    <3>2. "saved" \in Ended
      BY DEF Ended
    <3> QED
      BY <3>1, <3>2, ExitCloses DEF Disk!Next
  <2>2. CASE m_list_head # Null
    BY <1>5, <2>2, SaveBegins DEF Disk!Next
  <2> QED
    BY <2>1, <2>2
<1>6. CASE WritePart
  BY <1>6, WriteEnds DEF Disk!Next
<1>7. CASE Die
  <2>1. Exit("idle") /\ UNCHANGED diskVars /\ "idle" \in Ended
    BY <1>7 DEF Die, Ended
  <2> QED
    BY <2>1, ExitCloses DEF Disk!Next
<1>8. CASE DeleteImage
  <2>1. phase' = phase /\ phase \notin {"edit", "write"} /\ written' = NoFile
    BY <1>8 DEF DeleteImage, Ended
  <2> QED
    BY <2>1 DEF Disk!Next, Disk!Delete
<1>9. ASSUME NEW n \in Names, Remove(n)
      PROVE  [Disk!Next]_(Disk!vars)
  <2>1. PICK e \in Holding(n) : RemoveEntry(e)
    BY <1>9 DEF Remove
  <2>2. Content' = {f \in Content : f.name # n}
    BY <2>1, RemoveStep DEF BuildRdInv
  <2>3. Disk!Drop(n)
    BY <1>1, <1>9, <2>2, EditDrops DEF BuildRdInv, Remove
  <2> QED
    BY <2>3 DEF Disk!Next
<1>10. ASSUME NEW n \in Names, NEW d \in Data, Add(n, d)
       PROVE  [Disk!Next]_(Disk!vars)
  <2>1. Content' = Content \cup {[name |-> n, data |-> d]} /\ Holding(n) = {}
    BY <1>10, AddStep DEF Add, BuildRdInv
  <2>2. \A f \in Content : f.name # n
    BY <2>1 DEF Content, FileOf, Holding
  <2>3. Content' = WithFile(Content, n, d)
    BY <2>1, <2>2 DEF WithFile
  <2>4. Disk!Put(n, d)
    BY <1>1, <1>10, <2>3, EditPuts DEF BuildRdInv, Add
  <2> QED
    BY <2>4 DEF Disk!Next
<1>11. ASSUME NEW n \in Names, NEW d \in Data, ReplaceSole(n, d)
       PROVE  [Disk!Next]_(Disk!vars)
  <2>1. Content' = {[name |-> n, data |-> d]} /\ \A f \in Content : f.name = n
    BY <1>11, ReplaceSoleStep DEF ReplaceSole, Replace, BuildRdInv
  <2>2. Content' = WithFile(Content, n, d)
    BY <2>1 DEF WithFile
  <2>3. Disk!Put(n, d)
    BY <1>1, <1>11, <2>2, EditPuts DEF BuildRdInv, ReplaceSole, Replace
  <2> QED
    BY <2>3 DEF Disk!Next
<1>12. CASE UNCHANGED vars
  <2>1. phase' = phase /\ UNCHANGED listVars /\ UNCHANGED diskVars
    BY <1>12 DEF vars
  <2>2. Held' = Held
    BY <2>1, SameList, HeldFiles, HeldNext, SameFunction DEF BuildRdInv
  <2> QED
    BY <2>1, <2>2 DEF Disk!vars, diskVars
<1> QED
  BY <1>2, <1>3, <1>4, <1>5, <1>6, <1>7, <1>8, <1>9, <1>10, <1>11, <1>12 DEF Next, Common

LEMMA InitKeeps == Init => Disk!Init
  BY DEF Init, Disk!Init, Disk!Empty

(* Over any number of invocations, with files added, removed and, if it is  *)
(* the only one, replaced, the tool killed and its image deleted, and for   *)
(* files of any length, the loader finds in a finished image exactly the    *)
(* files of the invocation that wrote it, and the next invocation starts    *)
(* from them: AddFromMemory, Remove, Save, Load and the loader's FindFile   *)
(* keep RamDisk's promise.                                                  *)
THEOREM KeepsTheFiles == Spec => ImplementsRamDisk
<1>1. BuildRdInv /\ [Next]_vars => [Disk!Next]_(Disk!vars)
  BY StepKeeps
<1> QED
  BY InitInv, InitKeeps, NextInv, <1>1, PTL DEF Spec, ImplementsRamDisk, Disk!Spec

-----------------------------------------------------------------------------
(* The loader.                                                              *)

ReaderInv ==
  /\ InitRdTypeOK
  /\ result = NULL => Off
  /\ result = Busy => wanted \in Names
  /\ written = ImageParts => kept = FindFile(image)
  /\ init_rd # NULL =>
       /\ written = ImageParts /\ result # NULL
       /\ m_header # NULL /\ m_header.image = image
       /\ m_symbol_table = image /\ m_entry_list = image
       /\ result = Busy => /\ i \in 0 .. image.entry_count
                           /\ \A k \in 1 .. i : GetFile(image, k).name # wanted
       /\ LoaderFindsSaved

LEMMA FileTypes ==
  ASSUME NEW header, NEW table, NEW entry
  PROVE  FileAt(header, table, entry) \in [name : Names \cup {Garbage}, data : Data \cup {Garbage}]
<1>1. \A img, offset : NameAt(img, offset) \in Names \cup {Garbage}
  <2> TAKE img, offset
  <2> DEFINE found == {n \in Names : Slice(img.symbols, offset, NameLength[n])
                                       = Cells(n, NameLength[n])}
  <2>1. NameAt(img, offset) = IF found = {} THEN Garbage ELSE CHOOSE n \in found : TRUE
    BY Zenon DEF NameAt
  <2>2. found \subseteq Names
    OBVIOUS
  <2> HIDE DEF found
  <2> QED
    BY <2>1, <2>2
<1>2. \A cells : DataIn(cells) \in Data \cup {Garbage}
  <2> TAKE cells
  <2> DEFINE found == {d \in Data : cells = Cells(d, DataSize[d])}
  <2>1. DataIn(cells) = IF found = {} THEN Garbage ELSE CHOOSE d \in found : TRUE
    BY Zenon DEF DataIn
  <2>2. found \subseteq Data
    OBVIOUS
  <2> HIDE DEF found
  <2> QED
    BY <2>1, <2>2
<1> QED
  BY <1>1, <1>2 DEF FileAt

(* What is known of the loader as long as buildrd is not at work. *)
LEMMA ReadersFiles ==
  ASSUME BuildRdInv, ReaderInv, init_rd # NULL
  PROVE  \E files : /\ Good(files) /\ image = Layout(files)
                    /\ image.entry_count = Len(files)
                    /\ \A k \in 1 .. Len(files) : /\ Files(k) = {files[k]}
                                                 /\ GetFile(image, k) = files[k]
                    /\ AsFunction(kept, FilesIn(files, Len(files)))
<1>1. PICK files : Good(files) /\ image = Layout(files)
  BY DEF BuildRdInv, DiskInv, ReaderInv, ImageHolds
<1>2. /\ image.entry_count = Len(files) /\ image \in Image
      /\ \A k \in 1 .. Len(files) : GetFile(image, k) = files[k]
  BY <1>1, LayoutRead DEF Good
<1>3. image # NULL
  BY <1>2, NULLAssumption
<1>4. \A k \in 1 .. Len(files) : Files(k) = {files[k]}
  BY <1>2, <1>3 DEF ReaderInv, Files, GetFile
<1>5. AsFunction(kept, FilesIn(files, Len(files)))
  BY <1>1, FoundFiles DEF ReaderInv
<1> QED
  BY <1>1, <1>2, <1>4, <1>5

LEMMA InitReads == RamDiskInit => ReaderInv
<1> SUFFICES ASSUME RamDiskInit PROVE ReaderInv
  OBVIOUS
<1>1. InitRdTypeOK
  BY DEF RamDiskInit, InitRdInit, InitRdTypeOK
<1> QED
  BY <1>1, NULLAssumption DEF RamDiskInit, InitRdInit, ReaderInv, Off, Init, NoFile, ImageParts

LEMMA StepReads == BuildRdInv /\ ReaderInv /\ [RamDiskNext]_<<vars, reader, kept>> => ReaderInv'
<1> SUFFICES ASSUME BuildRdInv, ReaderInv, [RamDiskNext]_<<vars, reader, kept>>
             PROVE  ReaderInv'
  OBVIOUS
<1>1. CASE BuildRdStep
  <2>1. /\ Off /\ UNCHANGED reader /\ Next
        /\ kept' = IF written' # ImageParts THEN <<>>
                   ELSE IF phase = "write" THEN Held ELSE kept
    BY <1>1 DEF BuildRdStep
  <2>2. InitRdTypeOK' /\ Off' /\ init_rd' = NULL /\ wanted' = wanted /\ result' = result
    BY <2>1 DEF ReaderInv, InitRdTypeOK, Off, InitRdInit, reader
  <2>3. written' = ImageParts => kept' = FindFile(image')
    <3> SUFFICES ASSUME written' = ImageParts PROVE kept' = FindFile(image')
      OBVIOUS
    <3>1. CASE phase = "write"
      <4>1. WritePart
        <5>1. written # ImageParts
          BY <3>1 DEF BuildRdInv, TypeOK, ImageParts, NoFile
        <5> QED
          BY <2>1, <3>1, <5>1 DEF Next, Common, Invoke, LoadFile, Quit, Save, Die, DeleteImage,
                                  Remove, Add, ReplaceSole, Replace, Ended, diskVars
      <4>2. PICK files : ImageHolds(files) /\ Content = FilesIn(files, Len(files))
        BY <3>1 DEF BuildRdInv, DiskInv
      <4>3. AsFunction(Held, FilesIn(files, Len(files)))
        BY <4>2, HeldFiles DEF BuildRdInv
      <4>4. AsFunction(FindFile(image), FilesIn(files, Len(files)))
        BY <4>2, FoundFiles DEF ImageHolds
      <4>5. PICK g, h : g = Held /\ h = FindFile(image)
        OBVIOUS
      <4>6. Held = FindFile(image)
        BY <4>3, <4>4, <4>5, SameFunction
      <4> QED
        BY <2>1, <3>1, <4>1, <4>6 DEF WritePart
    <3>2. CASE phase # "write"
      <4>1. written = ImageParts /\ image' = image
        BY <2>1, <3>2 DEF Next, Common, Invoke, LoadFile, Quit, Save, WritePart, Die, DeleteImage,
                          Remove, Add, ReplaceSole, Replace, diskVars, ImageParts, NoFile
      <4> QED
        BY <2>1, <3>2, <4>1 DEF ReaderInv
    <3> QED
      BY <3>1, <3>2
  <2> QED
    BY <2>1, <2>2, <2>3 DEF ReaderInv
<1>2. ASSUME UNCHANGED <<vars, kept>>
      PROVE  /\ written' = written /\ image' = image /\ kept' = kept
             /\ written' = ImageParts => kept' = FindFile(image')
  BY <1>2 DEF vars, diskVars, ReaderInv
<1>3. ASSUME NEW header \in Headers, Load(header), UNCHANGED <<vars, kept>>
      PROVE  ReaderInv'
  <2>1. /\ Off /\ m_header' = header /\ result' = Verdict(header)
        /\ IF result' = INITRD_OK
           THEN m_symbol_table' = header.image /\ m_entry_list' = header.image /\ init_rd' = header
           ELSE init_rd' = init_rd
        /\ wanted' = wanted /\ i' = i /\ file_info' = file_info
    BY <1>3 DEF Load, ReaderInv
  <2>2. wanted' = NULL /\ i' = 0 /\ file_info' = NULL /\ init_rd = NULL
    BY <2>1 DEF Off, InitRdInit
  <2>3. /\ Verdict(header) \in {INITRD_OK, INITRD_FILE_NOT_FOUND, INITRD_INVALID_FILE,
                               INITRD_WRONG_VERSION}
        /\ Verdict(header) = INITRD_OK => header # NULL /\ header.magic /\ header.version
    BY DEF Verdict, INITRD_OK, INITRD_FILE_NOT_FOUND, INITRD_INVALID_FILE, INITRD_WRONG_VERSION
  <2>4. result' # NULL /\ result' # Busy
    BY <2>1, <2>3, NULLAssumption
       DEF INITRD_OK, INITRD_FILE_NOT_FOUND, INITRD_INVALID_FILE, INITRD_WRONG_VERSION, Busy
  <2>5. InitRdTypeOK'
    BY <2>1, <2>2, <2>3 DEF InitRdTypeOK
  <2>6. CASE Verdict(header) = INITRD_OK
    <3>1. written = ImageParts /\ header = Module(TRUE, TRUE, image)
      BY <2>3, <2>6, RefusedAssumption DEF Headers
    <3>2. header.image = image
      BY <3>1 DEF Module
    <3>3. LoaderFindsSaved'
      BY <2>2 DEF LoaderFindsSaved, FindsWhatIsSaved
    <3> QED
      BY <1>2, <1>3, <2>1, <2>3, <2>4, <2>5, <2>6, <3>1, <3>2, <3>3 DEF ReaderInv
  <2>7. CASE Verdict(header) # INITRD_OK
    BY <1>2, <1>3, <2>1, <2>2, <2>4, <2>5, <2>7 DEF ReaderInv
  <2> QED
    BY <2>6, <2>7
<1>4. ASSUME NEW n \in Names, CallFindFile(n), UNCHANGED <<vars, kept>>
      PROVE  ReaderInv'
  <2>1. /\ wanted' = n /\ i' = 0
        /\ result' = IF m_header = NULL THEN INITRD_FILE_NOT_FOUND ELSE Busy
        /\ m_header' = m_header /\ m_symbol_table' = m_symbol_table
        /\ m_entry_list' = m_entry_list /\ init_rd' = init_rd /\ file_info' = file_info
    BY <1>4 DEF CallFindFile
  <2>2. InitRdTypeOK' /\ result' # NULL
    BY <2>1, NULLAssumption DEF ReaderInv, InitRdTypeOK
  <2>3. CASE init_rd = NULL
    BY <1>2, <1>4, <2>1, <2>2, <2>3 DEF ReaderInv
  <2>4. CASE init_rd # NULL
    <3>1. result' = Busy
      BY <2>1, <2>4 DEF ReaderInv
    <3>2. LoaderFindsSaved'
      BY <3>1 DEF LoaderFindsSaved, FindsWhatIsSaved
    <3>3. image.entry_count \in Nat
      BY <2>4, ReadersFiles DEF Good
    <3>4. 0 \in 0 .. image.entry_count /\ 1 .. 0 = {}
      BY <3>3
    <3> QED
      BY <1>2, <1>4, <2>1, <2>2, <2>4, <3>2, <3>4 DEF ReaderInv
  <2> QED
    BY <2>3, <2>4
<1>5. ASSUME NextFile, UNCHANGED <<vars, kept>>
      PROVE  ReaderInv'
  <2>1. PICK file \in Files(i + 1) :
          IF file.name = wanted
          THEN file_info' = file /\ result' = INITRD_OK /\ i' = i
          ELSE i' = i + 1 /\ file_info' = file_info /\ result' = result
    BY <1>5 DEF NextFile
  <2>2. /\ result = Busy /\ i # m_header.image.entry_count /\ wanted \in Names /\ wanted' = wanted
        /\ m_header' = m_header /\ m_symbol_table' = m_symbol_table
        /\ m_entry_list' = m_entry_list /\ init_rd' = init_rd
    BY <1>5 DEF NextFile, ReaderInv
  <2>3. file \in [name : Names \cup {Garbage}, data : Data \cup {Garbage}]
    BY FileTypes DEF Files
  <2>4. InitRdTypeOK' /\ result' # NULL
    <3>1. i \in Nat /\ i + 1 \in Nat
      BY DEF ReaderInv, InitRdTypeOK
    <3>2. file.name = wanted => file \in [name : Names, data : Data \cup {Garbage}]
      BY <2>2, <2>3
    <3> QED
      BY <2>1, <2>2, <3>1, <3>2, NULLAssumption DEF ReaderInv, InitRdTypeOK
  <2>5. CASE init_rd = NULL
    BY <1>2, <1>5, <2>2, <2>4, <2>5 DEF ReaderInv
  <2>6. CASE init_rd # NULL
    <3>1. PICK files : /\ Good(files) /\ image = Layout(files)
                       /\ image.entry_count = Len(files)
                       /\ \A k \in 1 .. Len(files) : /\ Files(k) = {files[k]}
                                                    /\ GetFile(image, k) = files[k]
                       /\ AsFunction(kept, FilesIn(files, Len(files)))
      BY <2>6, ReadersFiles
    <3>2. i + 1 \in 1 .. Len(files) /\ i + 1 \in 0 .. Len(files) /\ i \in Nat
      <4>1. i \in 0 .. Len(files) /\ i # Len(files) /\ Len(files) \in Nat
        BY <2>2, <2>6, <3>1 DEF ReaderInv, Good
      <4> QED
        BY <4>1
    <3>3. file = files[i + 1] /\ GetFile(image, i + 1) = file
      BY <2>1, <3>1, <3>2
    <3>4. CASE file.name = wanted
      <4>1. file \in FilesIn(files, Len(files))
        BY <3>2, <3>3 DEF FilesIn
      <4>2. wanted \in DOMAIN kept /\ kept[wanted] = file.data
        BY <3>1, <3>4, <4>1 DEF AsFunction
      <4>3. file = [name |-> wanted, data |-> kept[wanted]]
        BY <2>3, <3>4, <4>2
      <4>4. result' = INITRD_OK /\ file_info' = file /\ result' # Busy
        BY <2>1, <3>4 DEF INITRD_OK, Busy
      <4>5. LoaderFindsSaved'
        BY <1>2, <1>5, <2>2, <4>2, <4>3, <4>4 DEF LoaderFindsSaved, FindsWhatIsSaved
      <4> QED
        BY <1>2, <1>5, <2>2, <2>4, <2>6, <4>4, <4>5 DEF ReaderInv
    <3>5. CASE file.name # wanted
      <4>1. i' = i + 1 /\ result' = Busy
        BY <2>1, <2>2, <3>5
      <4>2. LoaderFindsSaved'
        BY <4>1 DEF LoaderFindsSaved, FindsWhatIsSaved
      <4>3. \A k \in 1 .. (i + 1) : GetFile(image, k).name # wanted
        <5>1. \A k \in 1 .. (i + 1) : k \in 1 .. i \/ k = i + 1
          BY <3>2
        <5>2. \A k \in 1 .. i : GetFile(image, k).name # wanted
          BY <2>2, <2>6 DEF ReaderInv
        <5> QED
          BY <3>3, <3>5, <5>1, <5>2
      <4> QED
        BY <1>2, <1>5, <2>2, <2>4, <2>6, <3>1, <3>2, <4>1, <4>2, <4>3 DEF ReaderInv
    <3> QED
      BY <3>4, <3>5
  <2> QED
    BY <2>5, <2>6
<1>6. ASSUME NoMoreFiles, UNCHANGED <<vars, kept>>
      PROVE  ReaderInv'
  <2>1. /\ result = Busy /\ i = m_header.image.entry_count /\ result' = INITRD_FILE_NOT_FOUND
        /\ wanted \in Names /\ wanted' = wanted /\ i' = i /\ file_info' = file_info
        /\ m_header' = m_header /\ m_symbol_table' = m_symbol_table
        /\ m_entry_list' = m_entry_list /\ init_rd' = init_rd
    BY <1>6 DEF NoMoreFiles, ReaderInv
  <2>2. InitRdTypeOK' /\ result' # NULL /\ result' # Busy /\ result' # INITRD_OK
    BY <2>1, NULLAssumption
       DEF ReaderInv, InitRdTypeOK, INITRD_OK, INITRD_FILE_NOT_FOUND, Busy
  <2>3. CASE init_rd = NULL
    BY <1>2, <1>6, <2>1, <2>2, <2>3 DEF ReaderInv
  <2>4. CASE init_rd # NULL
    <3>1. PICK files : /\ Good(files) /\ image = Layout(files)
                       /\ image.entry_count = Len(files)
                       /\ \A k \in 1 .. Len(files) : /\ Files(k) = {files[k]}
                                                    /\ GetFile(image, k) = files[k]
                       /\ AsFunction(kept, FilesIn(files, Len(files)))
      BY <2>4, ReadersFiles
    <3>2. \A k \in 1 .. Len(files) : files[k].name # wanted
      BY <2>1, <2>4, <3>1 DEF ReaderInv
    <3>3. wanted \notin DOMAIN kept
      BY <3>1, <3>2 DEF AsFunction, FilesIn
    <3>4. LoaderFindsSaved'
      BY <1>2, <1>6, <2>1, <2>2, <3>3 DEF LoaderFindsSaved, FindsWhatIsSaved
    <3> QED
      BY <1>2, <1>6, <2>1, <2>2, <2>4, <3>4 DEF ReaderInv
  <2> QED
    BY <2>3, <2>4
<1>7. ASSUME SwitchOff, UNCHANGED <<vars, kept>>
      PROVE  ReaderInv'
  <2>1. Off' /\ result' = NULL /\ init_rd' = NULL
    BY <1>7 DEF SwitchOff, Off, InitRdInit
  <2>2. InitRdTypeOK'
    BY <1>7 DEF SwitchOff, InitRdTypeOK
  <2> QED
    BY <1>2, <1>7, <2>1, <2>2, NULLAssumption DEF ReaderInv
<1>8. CASE UNCHANGED <<vars, reader, kept>>
  <2>1. UNCHANGED <<vars, kept>> /\ UNCHANGED reader
    BY <1>8
  <2> QED
    BY <1>2, <2>1 DEF ReaderInv, reader, InitRdTypeOK, Off, InitRdInit, LoaderFindsSaved,
                      FindsWhatIsSaved
<1> QED
  BY <1>1, <1>3, <1>4, <1>5, <1>6, <1>7, <1>8 DEF RamDiskNext, InitRdNext

LEMMA RamDiskHolds == RamDiskSpec => [](BuildRdInv /\ ReaderInv)
<1>1. RamDiskInit => BuildRdInv /\ ReaderInv
  BY InitInv, InitReads DEF RamDiskInit
<1>2. [RamDiskNext]_<<vars, reader, kept>> => [Next]_vars
  BY DEF RamDiskNext, BuildRdStep
<1>3. BuildRdInv /\ ReaderInv /\ [RamDiskNext]_<<vars, reader, kept>> => (BuildRdInv /\ ReaderInv)'
  BY NextInv, StepReads, <1>2
<1> QED
  BY <1>1, <1>3, PTL DEF RamDiskSpec

(* Types of buildrd's list and of the loader's tables, whatever modules the *)
(* machine is started with.                                                 *)
THEOREM RamDiskTypes == RamDiskSpec => []TypesOK
<1>1. BuildRdInv /\ ReaderInv => TypesOK
  BY DEF BuildRdInv, ReaderInv, TypesOK
<1> QED
  BY RamDiskHolds, <1>1, PTL

(* After any sequence of invocations, and for files of any number and       *)
(* length, FindFile of the loader finds a file if and only if the           *)
(* invocation that wrote the image had it in its list, with its contents.   *)
THEOREM LoaderFindsThem == RamDiskSpec => []LoaderFindsSaved
<1>1. ReaderInv => LoaderFindsSaved
  BY DEF ReaderInv, LoaderFindsSaved, FindsWhatIsSaved
<1> QED
  BY RamDiskHolds, <1>1, PTL
=============================================================================
