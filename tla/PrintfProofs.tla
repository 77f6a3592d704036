------------------------------ MODULE PrintfProofs ------------------------------
(***************************************************************************)
(* Proofs about printf, for formats of every length, any arguments and     *)
(* words of any size.  As long as vsprintf meets directives that it        *)
(* handles, it reads of the format what the caller wrote there, takes the  *)
(* arguments that the caller passed, and what it puts out for a directive  *)
(* is that number, character or string, in the field that was asked for.   *)
(***************************************************************************)
EXTENDS Printf, WellFoundedInduction, SequenceTheorems, FiniteSetTheorems, TLAPS

-----------------------------------------------------------------------------
(* Induction over the natural numbers, for sets.                            *)

LEMMA NatWellFounded == IsWellFoundedOn({ss \in Nat \X Nat : ss[1] < ss[2]}, Nat)
  BY NatLessThanWellFounded DEF OpToRel

(* The least of some numbers. *)
LEMMA LeastElement ==
  ASSUME NEW T, T \subseteq Nat, T # {}
  PROVE  \E x \in T : \A y \in T : x <= y
<1> DEFINE R == {ss \in Nat \X Nat : ss[1] < ss[2]}
<1>1. IsWellFoundedOn(R, Nat)
  BY NatWellFounded
<1> HIDE DEF R
<1>2. PICK x \in T : \A y \in T : <<y, x>> \notin R
  BY <1>1, WFMin
<1>3. \A y \in T : ~(y < x)
  BY <1>2 DEF R
<1> QED
  BY <1>3

(* A set of numbers that holds 0, and every number's successor, holds all. *)
LEMMA SetInduction ==
  ASSUME NEW S, 0 \in S, \A n \in Nat : n \in S => n + 1 \in S
  PROVE  Nat \subseteq S
<1> SUFFICES ASSUME Nat \ S # {} PROVE FALSE
  OBVIOUS
<1>1. PICK x \in Nat \ S : \A y \in Nat \ S : x <= y
  BY LeastElement
<1>2. x # 0 /\ x - 1 \in Nat
  BY <1>1
<1>3. x - 1 \in S
  BY <1>1, <1>2
<1> QED
  BY <1>1, <1>2, <1>3

(* Built from a by steps of F.                                              *)
Builds(g, n, T, a, F) ==
  g \in [0 .. n -> T] /\ g[0] = a /\ \A j \in 1 .. n : g[j] = F[<<j, g[j - 1]>>]

(* What is built step by step is there. *)
LEMMA StepByStep ==
  ASSUME NEW n \in Nat, NEW T, NEW a \in T, NEW F \in [(1 .. n) \X T -> T]
  PROVE  \E g : Builds(g, n, T, a, F)
<1> DEFINE S == {m \in Nat : m <= n => \E g : Builds(g, m, T, a, F)}
<1>1. 0 \in S
  <2>1. Builds([k \in 0 .. 0 |-> a], 0, T, a, F)
    BY DEF Builds
  <2> QED
    BY <2>1
<1>2. ASSUME NEW m \in Nat, m \in S
      PROVE  m + 1 \in S
  <2> SUFFICES ASSUME m + 1 <= n PROVE \E g : Builds(g, m + 1, T, a, F)
    OBVIOUS
  <2>1. PICK g : Builds(g, m, T, a, F)
    BY <1>2
  <2> DEFINE h == [k \in 0 .. (m + 1) |-> IF k \in 0 .. m THEN g[k] ELSE F[<<k, g[k - 1]>>]]
  <2>2. g[m] \in T /\ m + 1 \in 1 .. n
    BY <2>1 DEF Builds
  <2>3. F[<<m + 1, g[m]>>] \in T
    BY <2>2
  <2>4. \A k \in 0 .. m : h[k] = g[k] /\ g[k] \in T
    BY <2>1 DEF Builds
  <2>5. h[m + 1] = F[<<m + 1, g[m]>>]
    OBVIOUS
  <2>6. h \in [0 .. (m + 1) -> T]
    BY <2>1, <2>3 DEF Builds
  <2> HIDE DEF h
  <2>7. \A j \in 1 .. (m + 1) : h[j] = F[<<j, h[j - 1]>>]
    <3>1. \A j \in 1 .. m : j - 1 \in 0 .. m /\ j \in 0 .. m
      OBVIOUS
    <3>2. \A j \in 1 .. m : h[j] = F[<<j, h[j - 1]>>]
      BY <2>1, <2>4, <3>1 DEF Builds
    <3>3. h[m + 1] = F[<<m + 1, h[(m + 1) - 1]>>]
      BY <2>4, <2>5
    <3>4. \A j \in 1 .. (m + 1) : j \in 1 .. m \/ j = m + 1
      OBVIOUS
    <3> QED
      BY <3>2, <3>3, <3>4
  <2>8. Builds(h, m + 1, T, a, F)
    BY <2>1, <2>4, <2>6, <2>7 DEF Builds
  <2> QED
    BY <2>8
<1> HIDE DEF S
<1>3. n \in S
  BY <1>1, <1>2, SetInduction
<1> QED
  BY <1>3 DEF S

(* FlattenSeq puts the sequences together one after the other. *)
LEMMA FlattenStepwise ==
  ASSUME NEW A, NEW ss \in Seq(Seq(A)), Len(ss) # 0
  PROVE  \E f : /\ f[0] = <<>> /\ \A j \in 0 .. Len(ss) : f[j] \in Seq(A)
                /\ \A j \in 1 .. Len(ss) : f[j] = f[j - 1] \o ss[j]
                /\ FlattenSeq(ss) = f[Len(ss)]
<1> DEFINE n == Len(ss)
           Is(g) == g = [j \in 1 .. n |-> IF j = 1 THEN ss[j] ELSE g[j - 1] \o ss[j]]
           flatten == CHOOSE g : Is(g)
           T == Seq(A)
           F == [p \in (1 .. n) \X T |-> p[2] \o ss[p[1]]]
<1>1. n \in Nat /\ n # 0 /\ <<>> \in T /\ \A j \in 1 .. n : ss[j] \in T
  OBVIOUS
<1>2. \A s1 \in T, s2 \in T : s1 \o s2 \in T
  BY ConcatProperties
<1>3. \A s1 \in T : <<>> \o s1 = s1
  BY ConcatEmptySeq
<1> HIDE DEF T, n
<1>4. F \in [(1 .. n) \X T -> T]
  BY <1>1, <1>2
<1>5. PICK g : Builds(g, n, T, <<>>, F)
  <2> HIDE DEF F
  <2> QED
    BY <1>1, <1>4, StepByStep, Zenon
<1>6. /\ g \in [0 .. n -> T] /\ g[0] = <<>>
      /\ \A j \in 1 .. n : g[j] = g[j - 1] \o ss[j]
  <2>1. g \in [0 .. n -> T] /\ g[0] = <<>> /\ \A j \in 1 .. n : g[j] = F[<<j, g[j - 1]>>]
    BY <1>5 DEF Builds
  <2>2. \A j \in 1 .. n : j - 1 \in 0 .. n
    BY <1>1
  <2> QED
    BY <2>1, <2>2
<1>7. \E h : Is(h)
  <2> DEFINE h == [j \in 1 .. n |-> g[j]]
  <2>1. \A j \in 1 .. n : h[j] = g[j]
    OBVIOUS
  <2>2. g[1] = ss[1]
    <3>1. 1 \in 1 .. n /\ 1 - 1 = 0
      BY <1>1
    <3>2. g[1] = <<>> \o ss[1] /\ ss[1] \in T
      BY <1>1, <1>6, <3>1, Zenon
    <3> QED
      BY <1>3, <3>2
  <2>3. ASSUME NEW j \in 1 .. n PROVE g[j] = IF j = 1 THEN ss[j] ELSE h[j - 1] \o ss[j]
    <3>1. CASE j = 1
      BY <2>2, <3>1
    <3>2. CASE j # 1
      <4>1. j - 1 \in 1 .. n
        BY <1>1, <3>2
      <4>2. h[j - 1] = g[j - 1]
        BY <2>1, <4>1
      <4> QED
        BY <1>6, <3>2, <4>2
    <3> QED
      BY <3>1, <3>2
  <2>4. Is(h)
    BY <2>3
  <2> QED
    BY <2>4
<1>8. Is(flatten)
  BY <1>7, Zenon
<1>9. FlattenSeq(ss) = flatten[n]
  BY <1>1, Zenon DEF FlattenSeq, n
<1> HIDE DEF flatten
<1>10. \A j \in 1 .. n : flatten[j] = IF j = 1 THEN ss[j] ELSE flatten[j - 1] \o ss[j]
  BY <1>8
<1> HIDE DEF Is
<1>11. \A j \in 1 .. n : flatten[j] = g[j]
  <2> DEFINE S == {m \in Nat : m + 1 <= n => flatten[m + 1] = g[m + 1]}
  <2>1. 0 \in S
    <3>1. 1 \in 1 .. n /\ 1 - 1 = 0 /\ 0 + 1 = 1
      BY <1>1
    <3>2. g[1] = <<>> \o ss[1] /\ ss[1] \in T /\ flatten[1] = ss[1]
      BY <1>1, <1>6, <1>10, <3>1, Zenon
    <3>3. flatten[0 + 1] = g[0 + 1]
      BY <1>3, <3>1, <3>2
    <3> QED
      BY <3>3
  <2>2. ASSUME NEW m \in Nat, m \in S PROVE m + 1 \in S
    <3> SUFFICES ASSUME (m + 1) + 1 <= n PROVE flatten[(m + 1) + 1] = g[(m + 1) + 1]
      OBVIOUS
    <3>1. (m + 1) + 1 \in 1 .. n /\ ((m + 1) + 1) - 1 = m + 1 /\ (m + 1) + 1 # 1 /\ m + 1 <= n
      BY <1>1
    <3>2. flatten[m + 1] = g[m + 1]
      BY <2>2, <3>1
    <3>3. PICK j \in 1 .. n : j = (m + 1) + 1 /\ j - 1 = m + 1 /\ j # 1
      BY <3>1
    <3>4. flatten[j] = flatten[j - 1] \o ss[j] /\ g[j] = g[j - 1] \o ss[j]
      BY <1>6, <1>10, <3>3, Zenon
    <3> QED
      BY <3>2, <3>3, <3>4
  <2> HIDE DEF S
  <2>3. Nat \subseteq S
    BY <2>1, <2>2, SetInduction
  <2> SUFFICES ASSUME NEW j \in 1 .. n PROVE flatten[j] = g[j]
    OBVIOUS
  <2>4. j - 1 \in Nat /\ (j - 1) + 1 = j /\ j <= n
    BY <1>1
  <2> QED
    BY <2>3, <2>4 DEF S
<1>12. FlattenSeq(ss) = g[n]
  BY <1>1, <1>9, <1>11
<1> QED
  BY <1>6, <1>12 DEF n, T

(* Where each of the sequences begins that FlattenSeq puts together.        *)
Laid(f, ss, whole) ==
  /\ f \in [0 .. Len(ss) -> 0 .. Len(whole)]
  /\ f[0] = 0 /\ f[Len(ss)] = Len(whole)
  /\ \A k \in 1 .. Len(ss) :
       /\ f[k] = f[k - 1] + Len(ss[k])
       /\ \A x \in 1 .. Len(ss[k]) : whole[f[k - 1] + x] = ss[k][x]

(* What FlattenSeq puts together lies one after the other. *)
LEMMA FlattenLaid ==
  ASSUME NEW A, NEW ss \in Seq(Seq(A))
  PROVE  FlattenSeq(ss) \in Seq(A) /\ \E f : Laid(f, ss, FlattenSeq(ss))
<1> DEFINE n == Len(ss)
           T == Seq(A)
<1>1. n \in Nat /\ \A j \in 1 .. n : ss[j] \in T
  OBVIOUS
<1>2. CASE n = 0
  <2>1. ss = <<>> /\ FlattenSeq(ss) = ss /\ <<>> \in Seq(A)
    BY <1>1, <1>2 DEF FlattenSeq
  <2>2. Laid([k \in 0 .. 0 |-> 0], <<>>, <<>>)
    BY DEF Laid
  <2> QED
    BY <2>1, <2>2
<1>3. CASE n # 0
  <2>1. PICK g : /\ g[0] = <<>> /\ \A j \in 0 .. n : g[j] \in Seq(A)
                 /\ \A j \in 1 .. n : g[j] = g[j - 1] \o ss[j]
                 /\ FlattenSeq(ss) = g[n]
    BY <1>3, FlattenStepwise
  <2>2. \A s, t \in T : /\ Len(s \o t) = Len(s) + Len(t) /\ Len(s) \in Nat /\ Len(t) \in Nat
                        /\ \A x \in 1 .. Len(s) : (s \o t)[x] = s[x]
                        /\ \A x \in 1 .. Len(t) : (s \o t)[Len(s) + x] = t[x]
    OBVIOUS
  <2>3. \A j \in 0 .. n : g[j] \in T /\ Len(g[j]) \in Nat
    BY <2>1, <2>2
  <2>4. Len(<<>>) = 0
    OBVIOUS
  <2> HIDE DEF T, n
  <2> DEFINE f == [k \in 0 .. n |-> Len(g[k])]
             w == [k \in 1 .. n |-> Len(ss[k])]
  <2>5. ASSUME NEW j \in 1 .. n
        PROVE  /\ j - 1 \in 0 .. n /\ f[j - 1] \in Nat /\ w[j] \in Nat /\ f[j] = f[j - 1] + w[j]
               /\ \A x \in 1 .. f[j - 1] : g[j][x] = g[j - 1][x]
               /\ \A x \in 1 .. w[j] : g[j][f[j - 1] + x] = ss[j][x]
    <3>1. j - 1 \in 0 .. n /\ j \in 0 .. n
      BY <1>1
    <3>2. PICK i \in 0 .. n : i = j - 1
      BY <3>1
    <3>3. ss[j] \in T /\ g[j] = g[i] \o ss[j] /\ g[i] \in T
      BY <1>1, <2>1, <2>3, <3>2
    <3>4. PICK s \in T, t \in T : s = g[i] /\ t = ss[j]
      BY <3>3
    <3>5. f[i] = Len(s) /\ w[j] = Len(t) /\ f[j] = Len(s \o t) /\ g[j] = s \o t
      BY <3>1, <3>3, <3>4
    <3>6. /\ Len(s \o t) = Len(s) + Len(t) /\ Len(s) \in Nat /\ Len(t) \in Nat
          /\ \A x \in 1 .. Len(s) : (s \o t)[x] = s[x]
          /\ \A x \in 1 .. Len(t) : (s \o t)[Len(s) + x] = t[x]
      BY <2>2
    <3> HIDE DEF f, w
    <3>7. f[i] \in Nat /\ w[j] \in Nat /\ f[j] = f[i] + w[j]
      BY <3>5, <3>6
    <3>8. \A x \in 1 .. f[i] : g[j][x] = g[i][x]
      BY <3>4, <3>5, <3>6
    <3>9. \A x \in 1 .. w[j] : g[j][f[i] + x] = ss[j][x]
      BY <3>4, <3>5, <3>6
    <3> QED
      BY <3>1, <3>2, <3>7, <3>8, <3>9
  <2>6. f[0] = 0 /\ \A j \in 0 .. n : f[j] = Len(g[j]) /\ f[j] \in Nat
    BY <1>1, <2>1, <2>3, <2>4
  <2>7. \A j \in 1 .. n : w[j] = Len(ss[j])
    OBVIOUS
  <2> HIDE DEF f, w
  <2> DEFINE P(m) == \A j \in 1 .. m : f[j] <= f[m] /\ \A x \in 1 .. w[j] : g[m][f[j - 1] + x] = ss[j][x]
             S == {m \in Nat : m <= n => P(m)}
  <2>8. 0 \in S
    OBVIOUS
  <2>9. ASSUME NEW m \in Nat, m \in S PROVE m + 1 \in S
    <3>1. (m + 1 <= n => P(m + 1)) => m + 1 \in S
      OBVIOUS
    <3>2. m <= n => P(m)
      BY <2>9
    <3> HIDE DEF S
    <3> SUFFICES ASSUME m + 1 <= n, NEW j \in 1 .. (m + 1)
                 PROVE  f[j] <= f[m + 1] /\ \A x \in 1 .. w[j] : g[m + 1][f[j - 1] + x] = ss[j][x]
      BY <3>1
    <3>3. PICK k \in 1 .. n : k = m + 1 /\ k - 1 = m
      BY <1>1
    <3>4. /\ f[m] \in Nat /\ w[k] \in Nat /\ f[k] = f[m] + w[k]
          /\ \A x \in 1 .. f[m] : g[k][x] = g[m][x]
          /\ \A x \in 1 .. w[k] : g[k][f[m] + x] = ss[k][x]
      BY <2>5, <3>3
    <3>5. CASE j = k
      BY <3>3, <3>4, <3>5
    <3>6. CASE j # k
      <4>1. j \in 1 .. m /\ j \in 1 .. n /\ m <= n
        BY <1>1, <3>3, <3>6
      <4>2. f[j] <= f[m] /\ \A x \in 1 .. w[j] : g[m][f[j - 1] + x] = ss[j][x]
        BY <3>2, <4>1
      <4>3. f[j - 1] \in Nat /\ w[j] \in Nat /\ f[j] = f[j - 1] + w[j]
        BY <2>5, <4>1
      <4>4. \A x \in 1 .. w[j] : f[j - 1] + x \in 1 .. f[m]
        <5>1. \A u, v, y \in Nat : u + v <= y => \A x \in 1 .. v : u + x \in 1 .. y
          OBVIOUS
        <5>2. PICK u, v, y : u \in Nat /\ v \in Nat /\ y \in Nat /\ u = f[j - 1] /\ v = w[j] /\ y = f[m]
                             /\ u + v <= y
          BY <3>4, <4>2, <4>3
        <5>3. \A x \in 1 .. v : u + x \in 1 .. y
          BY <5>1, <5>2, Zenon
        <5> QED
          BY <5>2, <5>3
      <4>5. \A x \in 1 .. w[j] : g[k][f[j - 1] + x] = ss[j][x]
        <5> TAKE x \in 1 .. w[j]
        <5>1. PICK y \in 1 .. f[m] : y = f[j - 1] + x
          BY <4>4
        <5>2. g[k][y] = g[m][y]
          BY <3>4
        <5> QED
          BY <4>2, <5>1, <5>2
      <4> QED
        BY <3>3, <3>4, <4>2, <4>3, <4>5
    <3> QED
      BY <3>5, <3>6
  <2> HIDE DEF S
  <2>10. n \in S
    BY <1>1, <2>8, <2>9, SetInduction
  <2>11. P(n)
    BY <1>1, <2>10 DEF S
  <2>12. \A k \in 0 .. n : f[k] \in 0 .. f[n]
    <3> TAKE k \in 0 .. n
    <3>1. f[k] \in Nat /\ f[n] \in Nat /\ (k = 0 \/ k \in 1 .. n)
      BY <1>1, <2>6
    <3> QED
      BY <2>6, <2>11, <3>1
  <2>13. f \in [0 .. n -> 0 .. f[n]]
    BY <2>12 DEF f
  <2>14. \A k \in 1 .. n : /\ f[k] = f[k - 1] + Len(ss[k])
                           /\ \A x \in 1 .. Len(ss[k]) : g[n][f[k - 1] + x] = ss[k][x]
    BY <2>5, <2>7, <2>11
  <2>15. n \in 0 .. n /\ f[n] = Len(g[n])
    BY <1>1, <2>6
  <2>16. Laid(f, ss, g[n])
    BY <2>6, <2>13, <2>14, <2>15 DEF Laid, n
  <2> QED
    BY <2>1, <2>15, <2>16
<1> QED
  BY <1>2, <1>3

-----------------------------------------------------------------------------
(* Numerals.                                                                *)

(* Symbols of digits. *)
Signs == {Digits, SmallDigits}

(* The two lists of digits, one by one. *)
LEMMA DigitList ==
  \A s \in Signs : /\ s[1] = "0" /\ s[2] = "1" /\ s[3] = "2" /\ s[4] = "3" /\ s[5] = "4" /\ s[6] = "5"
                   /\ s[7] = "6" /\ s[8] = "7" /\ s[9] = "8" /\ s[10] = "9"
                   /\ s[11] \in {"A", "a"} /\ s[12] \in {"B", "b"} /\ s[13] \in {"C", "c"}
                   /\ s[14] \in {"D", "d"} /\ s[15] \in {"E", "e"} /\ s[16] \in {"F", "f"}
<1>1. DOMAIN Digits = 1 .. 16 /\ 11 \in 1 .. 16
  BY DEF Digits
<1> QED
  BY DEF Signs, SmallDigits, Digits

(* A digit stands once in its list, and has the worth of its place. *)
LEMMA DigitOnce ==
  ASSUME NEW s \in Signs, NEW k \in 0 .. 15
  PROVE  s[k + 1] \in Ascii /\ Worth(s, s[k + 1]) = k /\ (s[k + 1] = "0" <=> k = 0)
<1>1. \A n \in 0 .. 15 : s[n + 1] = s[k + 1] => n = k
  BY DigitList
<1>2. s[k + 1] = "0" <=> k = 0
  BY DigitList
<1>3. s[k + 1] \in Ascii
  <2>1. PICK i \in 1 .. 16 : i = k + 1
    OBVIOUS
  <2>2. s = Digits \/ s = SmallDigits
    BY DEF Signs
  <2>3. Digits[i] \in Ascii /\ SmallDigits[i] \in Ascii
    BY PrintfAssumption
  <2> QED
    BY <2>1, <2>2, <2>3
<1>4. Worth(s, s[k + 1]) = k
  <2>1. k \in 0 .. 15 /\ s[k + 1] = s[k + 1]
    OBVIOUS
  <2>2. (CHOOSE n \in 0 .. 15 : s[n + 1] = s[k + 1]) = k
    BY <1>1, <2>1, Zenon
  <2> QED
    BY <2>2, Zenon DEF Worth
<1> QED
  BY <1>2, <1>3, <1>4

(* The decimal digits are those that skip_atoi takes. *)
LEMMA DigitChars ==
  \A c : IsDigit(c) <=> c \in {"0", "1", "2", "3", "4", "5", "6", "7", "8", "9"}
  BY DigitList DEF IsDigit, Signs

(* How a numeral is read, from left to right. *)
Reading(r, base, digits, s, n) ==
  /\ r \in [0 .. Len(s) -> Nat] /\ r[0] = 0 /\ r[Len(s)] = n
  /\ \A k \in 1 .. Len(s) : r[k] = base * r[k - 1] + Worth(digits, s[k])

(* ReadIn reads from left to right. *)
LEMMA ReadInBy ==
  ASSUME NEW base, NEW digits, NEW s, Len(s) \in Nat, NEW total, NEW r,
         Reading(r, base, digits, s, total)
  PROVE  ReadIn(base, digits, s) = total
<1>0. /\ r \in [0 .. Len(s) -> Nat] /\ r[0] = 0 /\ r[Len(s)] = total
      /\ \A k \in 1 .. Len(s) : r[k] = base * r[k - 1] + Worth(digits, s[k])
  BY DEF Reading
<1> DEFINE n == Len(s)
           Is(g) == g = [k \in 0 .. n |-> IF k = 0 THEN 0
                                          ELSE base * g[k - 1] + Worth(digits, s[k])]
           read == CHOOSE g : Is(g)
<1>1. r = [k \in 0 .. n |-> IF k = 0 THEN 0 ELSE base * r[k - 1] + Worth(digits, s[k])]
  BY <1>0
<1>2. Is(read)
  BY <1>1, Zenon
<1>3. ReadIn(base, digits, s) = read[n]
  BY Zenon DEF ReadIn
<1> HIDE DEF read
<1>4. read[0] = 0 /\ \A k \in 1 .. n : read[k] = base * read[k - 1] + Worth(digits, s[k])
  <2>1. \A k \in 0 .. n : read[k] = IF k = 0 THEN 0 ELSE base * read[k - 1] + Worth(digits, s[k])
    BY <1>2, Zenon
  <2>2. 0 \in 0 .. n /\ \A k \in 1 .. n : k \in 0 .. n /\ k # 0
    OBVIOUS
  <2> QED
    BY <2>1, <2>2, Zenon
<1> HIDE DEF Is
<1> DEFINE S == {k \in Nat : k <= n => read[k] = r[k]}
<1>5. 0 \in S
  BY <1>0, <1>4
<1>6. ASSUME NEW m \in Nat, m \in S PROVE m + 1 \in S
  <2> SUFFICES ASSUME m + 1 <= n PROVE read[m + 1] = r[m + 1]
    OBVIOUS
  <2>1. m + 1 \in 1 .. n /\ (m + 1) - 1 = m /\ m <= n
    OBVIOUS
  <2>2. read[m] = r[m]
    BY <1>6, <2>1
  <2>3. /\ read[m + 1] = base * read[(m + 1) - 1] + Worth(digits, s[m + 1])
        /\ r[m + 1] = base * r[(m + 1) - 1] + Worth(digits, s[m + 1])
    BY <1>0, <1>4, <2>1, Zenon
  <2> QED
    BY <2>1, <2>2, <2>3, Zenon
<1> HIDE DEF S
<1>7. n \in S
  BY <1>5, <1>6, SetInduction
<1> QED
  BY <1>0, <1>3, <1>7 DEF S

Bases == {8, 10, 16}

(* A number is what its last digit and the rest of it make. *)
LEMMA Divided ==
  ASSUME NEW base \in Bases, NEW n \in Nat
  PROVE  /\ base \in Nat /\ base > 1
         /\ n \div base \in Nat /\ n % base \in 0 .. (base - 1)
         /\ n = base * (n \div base) + (n % base)
         /\ n >= base => n \div base >= 1 /\ n \div base < n
<1>1. CASE base = 8
  BY <1>1
<1>2. CASE base = 10
  BY <1>2
<1>3. CASE base = 16
  BY <1>3
<1> QED
  BY <1>1, <1>2, <1>3 DEF Bases

(* A multiple of a base is no less. *)
LEMMA Multiplied ==
  ASSUME NEW base \in Bases
  PROVE  \A m \in Nat : base * m \in Nat /\ base * m >= m
<1>1. CASE base = 8
  BY <1>1
<1>2. CASE base = 10
  BY <1>2
<1>3. CASE base = 16
  BY <1>3
<1> QED
  BY <1>1, <1>2, <1>3 DEF Bases

(* What RaisedTo and InBase compute. *)
LEMMA Powers ==
  ASSUME NEW base \in Bases
  PROVE  /\ RaisedTo(base, 0) = 1
         /\ \A k \in Nat : RaisedTo(base, k) \in Nat /\ RaisedTo(base, k + 1) = base * RaisedTo(base, k)
<1> DEFINE Is(g, k) == g = [i \in 0 .. k |-> IF i = 0 THEN 1 ELSE base * g[i - 1]]
<1>1. ASSUME NEW n \in Nat
      PROVE  \E g \in [0 .. n -> Nat] : /\ g[0] = 1 /\ \A i \in 1 .. n : g[i] = base * g[i - 1]
                                        /\ \A k \in 0 .. n : RaisedTo(base, k) = g[k]
  <2> DEFINE F == [p \in (1 .. n) \X Nat |-> base * p[2]]
  <2>1. F \in [(1 .. n) \X Nat -> Nat]
    BY Multiplied
  <2>2. PICK g : Builds(g, n, Nat, 1, F)
    <3> HIDE DEF F
    <3> QED
      BY <2>1, StepByStep, Zenon
  <2>3. g \in [0 .. n -> Nat] /\ g[0] = 1 /\ \A i \in 1 .. n : g[i] = base * g[i - 1]
    <3>1. g \in [0 .. n -> Nat] /\ g[0] = 1 /\ \A i \in 1 .. n : g[i] = F[<<i, g[i - 1]>>]
      BY <2>2 DEF Builds
    <3>2. \A i \in 1 .. n : i - 1 \in 0 .. n
      OBVIOUS
    <3> QED
      BY <3>1, <3>2
  <2>4. ASSUME NEW k \in 0 .. n PROVE RaisedTo(base, k) = g[k]
    <3> DEFINE power == CHOOSE h : Is(h, k)
    <3>1. \E h : Is(h, k)
      <4> DEFINE h == [i \in 0 .. k |-> g[i]]
      <4>1. \A i \in 0 .. k : g[i] = IF i = 0 THEN 1 ELSE base * h[i - 1]
        <5> TAKE i \in 0 .. k
        <5>1. CASE i = 0
          BY <2>3, <5>1
        <5>2. CASE i # 0
          <6>1. i - 1 \in 0 .. k /\ i \in 1 .. n
            BY <5>2
          <6>2. h[i - 1] = g[i - 1]
            BY <6>1, Zenon
          <6> QED
            BY <2>3, <5>2, <6>1, <6>2, Zenon
        <5> QED
          BY <5>1, <5>2
      <4>2. Is(h, k)
        BY <4>1
      <4> QED
        BY <4>2
    <3>2. Is(power, k)
      BY <3>1, Zenon
    <3>3. RaisedTo(base, k) = power[k]
      BY Zenon DEF RaisedTo
    <3> HIDE DEF power
    <3>4. \A i \in 0 .. k : power[i] = IF i = 0 THEN 1 ELSE base * power[i - 1]
      BY <3>2, Zenon
    <3> HIDE DEF Is
    <3> DEFINE S == {i \in Nat : i <= k => power[i] = g[i]}
    <3>5. 0 \in S
      BY <2>3, <3>4
    <3>6. ASSUME NEW m \in Nat, m \in S PROVE m + 1 \in S
      <4> SUFFICES ASSUME m + 1 <= k PROVE power[m + 1] = g[m + 1]
        OBVIOUS
      <4>1. m + 1 \in 1 .. n /\ m + 1 \in 0 .. k /\ m + 1 # 0 /\ (m + 1) - 1 = m /\ m <= k
        OBVIOUS
      <4>2. power[m] = g[m]
        BY <3>6, <4>1
      <4>3. power[m + 1] = base * power[(m + 1) - 1] /\ g[m + 1] = base * g[(m + 1) - 1]
        BY <2>3, <3>4, <4>1, Zenon
      <4> QED
        BY <4>1, <4>2, <4>3, Zenon
    <3> HIDE DEF S
    <3>7. k \in S
      BY <3>5, <3>6, SetInduction
    <3> QED
      BY <3>3, <3>7 DEF S
  <2> QED
    BY <2>3, <2>4
<1> HIDE DEF Is
<1>2. RaisedTo(base, 0) = 1
  <2>1. 0 \in Nat /\ 0 \in 0 .. 0
    OBVIOUS
  <2> QED
    BY <1>1, <2>1
<1>3. ASSUME NEW k \in Nat
      PROVE  RaisedTo(base, k) \in Nat /\ RaisedTo(base, k + 1) = base * RaisedTo(base, k)
  <2>1. k + 1 \in Nat /\ k + 1 \in 1 .. (k + 1) /\ k \in 0 .. (k + 1) /\ k + 1 \in 0 .. (k + 1)
        /\ (k + 1) - 1 = k
    OBVIOUS
  <2>2. PICK g \in [0 .. (k + 1) -> Nat] :
          /\ g[0] = 1 /\ \A i \in 1 .. (k + 1) : g[i] = base * g[i - 1]
          /\ \A i \in 0 .. (k + 1) : RaisedTo(base, i) = g[i]
    BY <1>1, <2>1
  <2>3. g[k] \in Nat
    BY <2>1
  <2> QED
    BY <2>1, <2>2, <2>3, Zenon
<1> QED
  BY <1>2, <1>3

(* A number below the base is one digit, another one that of its quotient and one more. *)
LEMMA InBaseSteps ==
  ASSUME NEW base \in Bases, NEW digits, NEW n \in Nat
  PROVE  InBase(base, digits, n) =
           IF n < base THEN <<digits[n + 1]>>
           ELSE Append(InBase(base, digits, n \div base), digits[(n % base) + 1])
<1> DEFINE Next(g, k) == IF k < base THEN <<digits[k + 1]>>
                         ELSE Append(g[k \div base], digits[(k % base) + 1])
           Is(g, m) == g = [k \in 0 .. m |-> Next(g, k)]
           do(m) == CHOOSE g : Is(g, m)
<1>1. \A m \in Nat : \E g : Is(g, m)
  <2> DEFINE S == {m \in Nat : \E g : Is(g, m)}
  <2>1. 0 \in S
    <3>1. 0 < base
      BY Divided
    <3>2. Is([k \in 0 .. 0 |-> <<digits[k + 1]>>], 0)
      BY <3>1
    <3> QED
      BY <3>2
  <2>2. ASSUME NEW m \in Nat, m \in S PROVE m + 1 \in S
    <3>1. PICK g : Is(g, m)
      BY <2>2
    <3>2. \A k \in 0 .. m : g[k] = Next(g, k)
      BY <3>1, Zenon
    <3> DEFINE h == [k \in 0 .. (m + 1) |-> IF k <= m THEN g[k] ELSE Next(g, k)]
    <3>3. \A k \in 0 .. m : h[k] = g[k]
      OBVIOUS
    <3> HIDE DEF Next
    <3>4. \A k \in 0 .. (m + 1) : Next(h, k) = Next(g, k)
      <4> TAKE k \in 0 .. (m + 1)
      <4>1. CASE k < base
        BY <4>1 DEF Next
      <4>2. CASE ~(k < base)
        <5>1. k \in Nat /\ k >= base
          BY <4>2, Divided
        <5>2. k \div base \in Nat /\ k \div base < k
          BY <5>1, Divided
        <5>3. k \div base \in 0 .. m
          BY <5>2
        <5>4. h[k \div base] = g[k \div base]
          BY <3>3, <5>3, Zenon
        <5>5. /\ Next(h, k) = Append(h[k \div base], digits[(k % base) + 1])
              /\ Next(g, k) = Append(g[k \div base], digits[(k % base) + 1])
          BY <4>2 DEF Next
        <5> QED
          BY <5>4, <5>5, Zenon
      <4> QED
        BY <4>1, <4>2
    <3>5. \A k \in 0 .. (m + 1) : (IF k <= m THEN g[k] ELSE Next(g, k)) = Next(h, k)
      BY <3>2, <3>4
    <3>6. Is(h, m + 1)
      BY <3>5
    <3>7. \E e : Is(e, m + 1)
      BY <3>6, Zenon
    <3> QED
      BY <3>7
  <2> HIDE DEF S
  <2>3. Nat \subseteq S
    BY <2>1, <2>2, SetInduction
  <2> QED
    BY <2>3 DEF S
<1>2. ASSUME NEW m \in Nat
      PROVE  InBase(base, digits, m) = do(m)[m] /\ \A k \in 0 .. m : do(m)[k] = Next(do(m), k)
  <2>1. Is(do(m), m)
    BY <1>1, Zenon
  <2>2. InBase(base, digits, m) = do(m)[m]
    BY Zenon DEF InBase
  <2> HIDE DEF do, Next
  <2> QED
    BY <2>1, <2>2, Zenon
<1> HIDE DEF do, Is
<1>3. ASSUME NEW m \in Nat, NEW l \in Nat, l <= m PROVE do(m)[l] = do(l)[l]
  <2> DEFINE g == do(m)
             h == do(l)
  <2>1. (\A k \in 0 .. m : g[k] = Next(g, k)) /\ (\A k \in 0 .. l : h[k] = Next(h, k))
    BY <1>2
  <2> HIDE DEF g, h, Next
  <2> DEFINE S == {j \in Nat : j <= l => \A k \in 0 .. j : g[k] = h[k]}
  <2>2. ASSUME NEW j \in 0 .. l, \A k \in 0 .. (j - 1) : g[k] = h[k] PROVE g[j] = h[j]
    <3>1. j \in 0 .. m /\ g[j] = Next(g, j) /\ h[j] = Next(h, j)
      <4>1. j \in 0 .. m
        BY <1>3
      <4> QED
        BY <2>1, <4>1
    <3>2. CASE j < base
      BY <3>1, <3>2 DEF Next
    <3>3. CASE ~(j < base)
      <4>1. j \in Nat /\ j >= base
        BY <3>3, Divided
      <4>2. j \div base \in Nat /\ j \div base < j
        BY <4>1, Divided
      <4>3. j \div base \in 0 .. (j - 1)
        BY <4>2
      <4>4. g[j \div base] = h[j \div base]
        BY <2>2, <4>3, Zenon
      <4> QED
        BY <3>1, <3>3, <4>4, Zenon DEF Next
    <3> QED
      BY <3>2, <3>3
  <2>3. 0 \in S
    <3>1. 0 \in 0 .. l /\ \A k \in 0 .. (0 - 1) : g[k] = h[k]
      OBVIOUS
    <3>2. g[0] = h[0]
      BY <2>2, <3>1
    <3> QED
      BY <3>2
  <2>4. ASSUME NEW j \in Nat, j \in S PROVE j + 1 \in S
    <3> SUFFICES ASSUME j + 1 <= l PROVE \A k \in 0 .. (j + 1) : g[k] = h[k]
      OBVIOUS
    <3>1. \A k \in 0 .. j : g[k] = h[k]
      BY <2>4
    <3>2. j + 1 \in 0 .. l /\ (j + 1) - 1 = j
      OBVIOUS
    <3>3. g[j + 1] = h[j + 1]
      BY <2>2, <3>1, <3>2
    <3>4. \A k \in 0 .. (j + 1) : k \in 0 .. j \/ k = j + 1
      OBVIOUS
    <3> QED
      BY <3>1, <3>3, <3>4
  <2> HIDE DEF S
  <2>5. l \in S
    BY <2>3, <2>4, SetInduction
  <2>6. g[l] = h[l]
    BY <2>5 DEF S
  <2> QED
    BY <2>6 DEF g, h
<1>4. InBase(base, digits, n) = Next(do(n), n)
  <2>1. n \in 0 .. n
    OBVIOUS
  <2> HIDE DEF Next
  <2> QED
    BY <1>2, <2>1
<1>5. CASE n < base
  BY <1>4, <1>5
<1>6. CASE ~(n < base)
  <2>1. n >= base
    BY <1>6, Divided
  <2>2. n \div base \in Nat /\ n \div base < n
    BY <2>1, Divided
  <2>3. do(n)[n \div base] = do(n \div base)[n \div base]
    BY <1>3, <2>2
  <2>4. InBase(base, digits, n \div base) = do(n \div base)[n \div base]
    BY <1>2, <2>2
  <2> HIDE DEF do
  <2> QED
    BY <1>4, <1>6, <2>3, <2>4, Zenon
<1> QED
  BY <1>5, <1>6

(* A numeral for n without zeros in front. *)
Numeral(base, digits, s, n) ==
  /\ s \in Seq(Ascii) /\ Len(s) \in 1 .. (n + 1)
  /\ \A i \in 1 .. Len(s) : \E k \in 0 .. (base - 1) : s[i] = digits[k + 1]
  /\ n > 0 => s[1] # "0"
  /\ RaisedTo(base, Len(s)) > n /\ (Len(s) > 1 => RaisedTo(base, Len(s) - 1) <= n)
  /\ \E r : Reading(r, base, digits, s, n)

(* A digit is a numeral. *)
LEMMA OneDigit ==
  ASSUME NEW base \in Bases, NEW digits \in Signs, NEW n \in Nat, n < base
  PROVE  Numeral(base, digits, <<digits[n + 1]>>, n)
<1> DEFINE c == digits[n + 1]
           s == <<c>>
<1>1. n \in 0 .. (base - 1) /\ n \in 0 .. 15 /\ base \in Nat
  BY DEF Bases
<1>2. c \in Ascii /\ Worth(digits, c) = n /\ (c = "0" <=> n = 0)
  BY <1>1, DigitOnce
<1>3. RaisedTo(base, 1) = base
  <2>1. RaisedTo(base, 0 + 1) = base * RaisedTo(base, 0) /\ RaisedTo(base, 0) = 1
    BY Powers
  <2>2. base * 1 = base /\ 0 + 1 = 1
    BY <1>1
  <2> QED
    BY <2>1, <2>2
<1>4. \E k \in 0 .. (base - 1) : c = digits[k + 1]
  BY <1>1
<1> HIDE DEF c
<1>5. s \in Seq(Ascii) /\ Len(s) = 1 /\ s[1] = c
  BY <1>2
<1>6. Reading([k \in 0 .. 1 |-> IF k = 0 THEN 0 ELSE n], base, digits, s, n)
  <2> DEFINE r == [k \in 0 .. 1 |-> IF k = 0 THEN 0 ELSE n]
  <2>1. r \in [0 .. 1 -> Nat] /\ r[0] = 0 /\ r[1] = n
    OBVIOUS
  <2>2. base * 0 = 0 /\ 0 + n = n /\ 1 - 1 = 0
    BY <1>1
  <2> HIDE DEF r, s
  <2>3. \A k \in 1 .. 1 : r[k] = base * r[k - 1] + Worth(digits, s[k])
    BY <1>2, <1>5, <2>1, <2>2
  <2>4. Reading(r, base, digits, s, n)
    BY <1>5, <2>1, <2>3 DEF Reading
  <2> QED
    BY <2>4 DEF r
<1> HIDE DEF s
<1>7. Numeral(base, digits, s, n)
  <2>1. Len(s) \in 1 .. (n + 1)
    BY <1>5
  <2>2. \A i \in 1 .. Len(s) : \E k \in 0 .. (base - 1) : s[i] = digits[k + 1]
    BY <1>4, <1>5
  <2>3. RaisedTo(base, Len(s)) > n /\ ~(Len(s) > 1)
    BY <1>1, <1>3, <1>5
  <2>4. n > 0 => s[1] # "0"
    BY <1>2, <1>5
  <2> QED
    BY <1>5, <1>6, <2>1, <2>2, <2>3, <2>4 DEF Numeral
<1> QED
  BY <1>7 DEF s, c

(* A numeral and a digit are a numeral. *)
LEMMA AnotherDigit ==
  ASSUME NEW base \in Bases, NEW digits \in Signs, NEW n \in Nat, n >= base,
         NEW s, Numeral(base, digits, s, n \div base)
  PROVE  Numeral(base, digits, Append(s, digits[(n % base) + 1]), n)
<1> DEFINE m == n \div base
           d == n % base
           c == digits[d + 1]
           t == Append(s, c)
           l == Len(s)
<1>1. m \in Nat /\ d \in 0 .. (base - 1) /\ n = base * m + d /\ m >= 1 /\ m < n /\ base \in Nat
  BY Divided
<1> HIDE DEF m, d
<1>2. d \in 0 .. 15
  BY <1>1 DEF Bases
<1>3. c \in Ascii /\ Worth(digits, c) = d
  BY <1>2, DigitOnce
<1>4. \E k \in 0 .. (base - 1) : c = digits[k + 1]
  BY <1>1
<1> HIDE DEF c
<1>5. /\ s \in Seq(Ascii) /\ l \in 1 .. (m + 1)
      /\ \A i \in 1 .. l : \E k \in 0 .. (base - 1) : s[i] = digits[k + 1]
      /\ m > 0 => s[1] # "0"
      /\ RaisedTo(base, l) > m /\ (l > 1 => RaisedTo(base, l - 1) <= m)
      /\ \E r : Reading(r, base, digits, s, m)
  BY DEF Numeral, m
<1>6. /\ t \in Seq(Ascii) /\ Len(t) = l + 1 /\ t[l + 1] = c
      /\ \A i \in 1 .. l : t[i] = s[i]
  BY <1>3, <1>5
<1> HIDE DEF t
<1>7. l \in Nat /\ l >= 1 /\ l + 1 \in 1 .. (n + 1) /\ l + 1 > 1
  <2>1. \A x \in 1 .. (m + 1) : x \in Nat /\ x >= 1 /\ x + 1 \in 1 .. (n + 1) /\ x + 1 > 1
    BY <1>1
  <2> QED
    BY <1>5, <2>1
<1>8. \A i \in 1 .. (l + 1) : \E k \in 0 .. (base - 1) : t[i] = digits[k + 1]
  <2> TAKE i \in 1 .. (l + 1)
  <2>1. CASE i \in 1 .. l
    BY <1>5, <1>6, <2>1
  <2>2. CASE i = l + 1
    BY <1>4, <1>6, <2>2
  <2> QED
    BY <1>7, <2>1, <2>2
<1>9. t[1] # "0"
  BY <1>1, <1>5, <1>6, <1>7
<1>10. RaisedTo(base, l + 1) > n /\ RaisedTo(base, l) <= n
  <2> DEFINE p == RaisedTo(base, l)
  <2>1. p \in Nat /\ RaisedTo(base, l + 1) = base * p
    BY <1>7, Powers
  <2>2. p > m
    BY <1>5
  <2>3. p <= base * m
    <3>1. CASE l = 1
      <4>1. RaisedTo(base, 0 + 1) = base * RaisedTo(base, 0) /\ RaisedTo(base, 0) = 1 /\ 0 + 1 = 1
        BY Powers
      <4>2. p = base * 1
        BY <3>1, <4>1
      <4>3. base * 1 <= base * m
        BY <1>1 DEF Bases
      <4> QED
        BY <4>2, <4>3
    <3>2. CASE l # 1
      <4>1. l - 1 \in Nat /\ (l - 1) + 1 = l /\ l > 1
        <5>1. \A x \in Nat : x >= 1 /\ x # 1 => x - 1 \in Nat /\ (x - 1) + 1 = x /\ x > 1
          OBVIOUS
        <5> QED
          BY <1>7, <3>2, <5>1
      <4>2. RaisedTo(base, l - 1) \in Nat /\ RaisedTo(base, l) = base * RaisedTo(base, l - 1)
        BY <4>1, Powers
      <4>3. PICK q \in Nat : q = RaisedTo(base, l - 1) /\ p = base * q /\ q <= m
        BY <1>5, <4>1, <4>2
      <4>4. base * q <= base * m
        BY <1>1, <4>3 DEF Bases
      <4> QED
        BY <4>3, <4>4
    <3> QED
      BY <3>1, <3>2
  <2> HIDE DEF p
  <2>4. base * p > n
    BY <1>1, <2>1, <2>2 DEF Bases
  <2>5. p <= n
    BY <1>1, <2>1, <2>3 DEF Bases
  <2> QED
    BY <2>1, <2>4, <2>5 DEF p
<1>11. \E r : Reading(r, base, digits, t, n)
  <2>1. PICK q : Reading(q, base, digits, s, m)
    BY <1>5
  <2> DEFINE r == [k \in 0 .. (l + 1) |-> IF k = l + 1 THEN n ELSE q[k]]
  <2>2. /\ q \in [0 .. l -> Nat] /\ q[0] = 0 /\ q[l] = m
        /\ \A k \in 1 .. l : q[k] = base * q[k - 1] + Worth(digits, s[k])
    BY <2>1 DEF Reading
  <2>3. r \in [0 .. (l + 1) -> Nat] /\ r[0] = 0 /\ r[l + 1] = n /\ \A k \in 0 .. l : r[k] = q[k]
    BY <1>7, <2>2
  <2> HIDE DEF r
  <2>4. ASSUME NEW k \in 1 .. (l + 1) PROVE r[k] = base * r[k - 1] + Worth(digits, t[k])
    <3>1. CASE k = l + 1
      <4>1. k - 1 = l /\ l \in 0 .. l
        BY <1>7, <3>1
      <4>2. r[k - 1] = m /\ r[k] = n /\ Worth(digits, t[k]) = d
        BY <1>3, <1>6, <2>2, <2>3, <3>1, <4>1
      <4> QED
        BY <1>1, <4>2
    <3>2. CASE k # l + 1
      <4>1. k \in 1 .. l /\ k - 1 \in 0 .. l /\ k \in 0 .. l
        BY <1>7, <3>2
      <4>2. r[k] = q[k] /\ r[k - 1] = q[k - 1] /\ t[k] = s[k]
        BY <1>6, <2>3, <4>1
      <4> QED
        BY <2>2, <4>1, <4>2, Zenon
    <3> QED
      BY <3>1, <3>2
  <2>5. Reading(r, base, digits, t, n)
    BY <1>6, <2>3, <2>4 DEF Reading
  <2> QED
    BY <2>5
<1>12. Len(t) - 1 = l /\ Len(t) = l + 1
  BY <1>6, <1>7
<1>13. Numeral(base, digits, t, n)
  BY <1>6, <1>7, <1>8, <1>9, <1>10, <1>11, <1>12 DEF Numeral
<1> QED
  BY <1>13 DEF t, c, d

(* InBase makes a numeral of every number. *)
LEMMA InBaseNumeral ==
  ASSUME NEW base \in Bases, NEW digits \in Signs, NEW n \in Nat
  PROVE  Numeral(base, digits, InBase(base, digits, n), n)
<1> DEFINE Fine(k) == Numeral(base, digits, InBase(base, digits, k), k)
           S == {m \in Nat : \A k \in 0 .. m : Fine(k)}
<1>1. ASSUME NEW k \in Nat, \A j \in 0 .. (k - 1) : Fine(j) PROVE Fine(k)
  <2>1. CASE k < base
    BY <2>1, InBaseSteps, OneDigit
  <2>2. CASE ~(k < base)
    <3>1. k >= base
      BY <2>2, Divided
    <3>2. k \div base \in 0 .. (k - 1)
      BY <3>1, Divided
    <3>3. Fine(k \div base)
      BY <1>1, <3>2
    <3>4. InBase(base, digits, k) = Append(InBase(base, digits, k \div base), digits[(k % base) + 1])
      BY <2>2, InBaseSteps
    <3> QED
      BY <3>1, <3>3, <3>4, AnotherDigit
  <2> QED
    BY <2>1, <2>2
<1> HIDE DEF Fine
<1>2. 0 \in S
  <2>1. \A k \in 0 .. 0 : k \in Nat /\ 0 .. (k - 1) = {}
    OBVIOUS
  <2> QED
    BY <1>1, <2>1
<1>3. ASSUME NEW m \in Nat, m \in S PROVE m + 1 \in S
  <2>1. \A k \in 0 .. m : Fine(k)
    BY <1>3
  <2>2. (m + 1) - 1 = m /\ m + 1 \in Nat /\ \A k \in 0 .. (m + 1) : k \in 0 .. m \/ k = m + 1
    OBVIOUS
  <2>3. Fine(m + 1)
    BY <1>1, <2>1, <2>2
  <2> QED
    BY <2>1, <2>2, <2>3
<1> HIDE DEF S
<1>4. n \in S
  BY <1>2, <1>3, SetInduction
<1>5. Fine(n)
  BY <1>4 DEF S
<1> QED
  BY <1>5 DEF Fine

-----------------------------------------------------------------------------
(* Characters over and over, and one thing after the other.                 *)

(* Max and Min of two numbers. *)
LEMMA MaxOfTwo == ASSUME NEW a \in Int, NEW b \in Int PROVE Max({a, b}) = IF a >= b THEN a ELSE b
<1> DEFINE m == IF a >= b THEN a ELSE b
<1>1. m \in {a, b} /\ \A y \in {a, b} : m >= y
  OBVIOUS
<1>2. \A x \in {a, b} : (\A y \in {a, b} : x >= y) => x = m
  OBVIOUS
<1> HIDE DEF m
<1>3. (CHOOSE x \in {a, b} : \A y \in {a, b} : x >= y) = m
  BY <1>1, <1>2, Zenon
<1>4. Max({a, b}) = m
  BY <1>3, Zenon DEF Max
<1> QED
  BY <1>4 DEF m

LEMMA MinOfTwo == ASSUME NEW a \in Int, NEW b \in Int PROVE Min({a, b}) = IF a <= b THEN a ELSE b
<1> DEFINE m == IF a <= b THEN a ELSE b
<1>1. m \in {a, b} /\ \A y \in {a, b} : m <= y
  OBVIOUS
<1>2. \A x \in {a, b} : (\A y \in {a, b} : x <= y) => x = m
  OBVIOUS
<1> HIDE DEF m
<1>3. (CHOOSE x \in {a, b} : \A y \in {a, b} : x <= y) = m
  BY <1>1, <1>2, Zenon
<1>4. Min({a, b}) = m
  BY <1>3, Zenon DEF Min
<1> QED
  BY <1>4 DEF m

(* A character over and over. *)
LEMMA TimesIs ==
  ASSUME NEW c \in Ascii, NEW n \in Int
  PROVE  /\ Times(c, n) \in Seq(Ascii) /\ Len(Times(c, n)) = IF n >= 0 THEN n ELSE 0
         /\ \A i \in 1 .. Len(Times(c, n)) : Times(c, n)[i] = c
         /\ Times(c, Len(Times(c, n))) = Times(c, n)
<1>1. CASE n >= 0
  BY <1>1 DEF Times
<1>2. CASE n < 0
  <2>1. 1 .. n = 1 .. 0
    BY <1>2
  <2>2. Times(c, n) = Times(c, 0)
    BY <2>1, Zenon DEF Times
  <2>3. Times(c, 0) = <<>>
    BY DEF Times
  <2>4. PICK t : t = Times(c, n) /\ t = <<>> /\ Times(c, 0) = t
    BY <2>2, <2>3
  <2>5. t \in Seq(Ascii) /\ Len(t) = 0
    BY <2>4
  <2> QED
    BY <1>2, <2>4, <2>5
<1> QED
  BY <1>1, <1>2

Filling(t, m, c, n) ==
  \/ t = Times(c, n) /\ m = IF n >= 0 THEN n ELSE 0
  \/ t = <<>> /\ m = 0

RunOf(t, m, c) ==
  /\ t \in Seq(Ascii) /\ m \in Nat /\ Len(t) = m
  /\ \A i \in 1 .. m : t[i] = c
  /\ Times(c, m) = t

(* Times puts as many as are asked for, and none when it is asked for less. *)
LEMMA FillIs ==
  ASSUME NEW c \in Ascii, NEW n \in Int, NEW t, NEW m, Filling(t, m, c, n)
  PROVE  RunOf(t, m, c)
<1>1. CASE t = Times(c, n) /\ m = IF n >= 0 THEN n ELSE 0
  <2>1. /\ t \in Seq(Ascii) /\ Len(t) = (IF n >= 0 THEN n ELSE 0)
        /\ (\A i \in 1 .. Len(t) : t[i] = c) /\ Times(c, Len(t)) = t
    BY <1>1, TimesIs, Zenon
  <2>2. Len(t) = m /\ m \in Nat
    <3>1. m \in Nat
      BY <1>1
    <3> QED
      BY <1>1, <2>1, <3>1, Zenon
  <2> QED
    BY <2>1, <2>2 DEF RunOf
<1>2. CASE t = <<>> /\ m = 0
  <2>1. Times(c, 0) = <<>>
    BY DEF Times
  <2> QED
    BY <1>2, <2>1 DEF RunOf
<1> QED
  BY <1>1, <1>2 DEF Filling

(* What is put together of four, and can be cut out of it again. *)
MadeUp(whole, total, first, last, d) ==
  whole \in Seq(Ascii) /\ Len(whole) = total /\ SubSeq(whole, first, last) = d

(* Four sequences are found again where they were put. *)
LEMMA PutTogether ==
  ASSUME NEW b \in Seq(Ascii), NEW h \in Seq(Ascii), NEW d \in Seq(Ascii), NEW a \in Seq(Ascii),
         NEW whole, whole = b \o h \o d \o a,
         NEW nb \in Nat, NEW nh \in Nat, NEW nd \in Nat, NEW na \in Nat,
         Len(b) = nb, Len(h) = nh, Len(d) = nd, Len(a) = na
  PROVE  MadeUp(whole, nb + nh + nd + na, nb + nh + 1, nb + nh + nd, d)
<1> DEFINE bh == b \o h
           bhd == bh \o d
           text == bhd \o a
           T == Seq(Ascii)
<1>0. /\ b \in T /\ h \in T /\ d \in T /\ a \in T
      /\ Len(b) \in Nat /\ Len(h) \in Nat /\ Len(d) \in Nat /\ Len(a) \in Nat
  OBVIOUS
<1>a. \A s, t \in T : /\ s \o t \in T /\ Len(s \o t) = Len(s) + Len(t)
                      /\ \A x \in 1 .. Len(s) : (s \o t)[x] = s[x]
                      /\ \A x \in 1 .. Len(t) : (s \o t)[Len(s) + x] = t[x]
  OBVIOUS
<1>b. \A s \in T, t \in T, k \in Nat :
        (k + Len(t) <= Len(s) /\ \A x \in 1 .. Len(t) : s[k + x] = t[x]) => SubSeq(s, k + 1, k + Len(t)) = t
  OBVIOUS
<1> HIDE DEF T
<1>1. bh \in T /\ Len(bh) = Len(b) + Len(h)
  BY <1>0, <1>a
<1> HIDE DEF bh
<1>2. /\ bhd \in T /\ Len(bhd) = Len(bh) + Len(d)
      /\ \A x \in 1 .. Len(d) : bhd[Len(bh) + x] = d[x]
  BY <1>0, <1>1, <1>a
<1> HIDE DEF bhd
<1>3. /\ text \in T /\ Len(text) = Len(bhd) + Len(a)
      /\ \A x \in 1 .. Len(bhd) : text[x] = bhd[x]
  BY <1>0, <1>2, <1>a
<1> HIDE DEF text
<1>4. PICK k \in Nat : k = Len(bh) /\ k = nb + nh
  BY <1>0, <1>1
<1>5. Len(bhd) = k + nd /\ Len(text) = k + nd + na
  BY <1>0, <1>1, <1>2, <1>3, <1>4
<1>6. \A x \in 1 .. nd : text[k + x] = d[x]
  <2> TAKE x \in 1 .. nd
  <2>1. k + x \in 1 .. (k + nd)
    OBVIOUS
  <2> QED
    BY <1>2, <1>3, <1>4, <1>5, <2>1
<1>7. k + nd <= Len(text)
  BY <1>0, <1>5
<1>8. SubSeq(text, k + 1, k + nd) = d
  BY <1>0, <1>3, <1>4, <1>5, <1>6, <1>7, <1>b
<1>9. whole = text
  BY DEF text, bhd, bh
<1>10. nb + nh + nd + na = Len(text) /\ nb + nh + 1 = k + 1 /\ nb + nh + nd = k + nd
  BY <1>4, <1>5
<1> QED
  BY <1>3, <1>8, <1>9, <1>10 DEF T, MadeUp

(* Zeros before a numeral change nothing. *)
ReadsAs(base, digits, t, total, n) ==
  /\ t \in Seq(Ascii) /\ Len(t) = total /\ ReadIn(base, digits, t) = n
  /\ \A i \in 1 .. total : \E k \in 0 .. (base - 1) : t[i] = digits[k + 1]

(* Zeros before a numeral change nothing. *)
LEMMA ZerosBefore ==
  ASSUME NEW base \in Bases, NEW digits \in Signs, NEW n \in Nat, NEW s, Numeral(base, digits, s, n),
         NEW z \in Seq(Ascii), \A i \in 1 .. Len(z) : z[i] = "0"
  PROVE  ReadsAs(base, digits, z \o s, Len(z) + Len(s), n)
<1> DEFINE t == z \o s
           l == Len(z)
           m == Len(s)
<1>1. /\ s \in Seq(Ascii) /\ \A i \in 1 .. m : \E k \in 0 .. (base - 1) : s[i] = digits[k + 1]
      /\ \E r : Reading(r, base, digits, s, n)
  BY DEF Numeral
<1>2. /\ l \in Nat /\ m \in Nat /\ t \in Seq(Ascii) /\ Len(t) = l + m
      /\ \A i \in 1 .. l : t[i] = "0"
      /\ \A i \in 1 .. m : t[l + i] = s[i]
  BY <1>1
<1>3. PICK q : Reading(q, base, digits, s, n)
  BY <1>1
<1>4. /\ q \in [0 .. m -> Nat] /\ q[0] = 0 /\ q[m] = n
      /\ \A k \in 1 .. m : q[k] = base * q[k - 1] + Worth(digits, s[k])
  BY <1>3 DEF Reading
<1> HIDE DEF t, l, m
<1> DEFINE r == [k \in 0 .. (l + m) |-> IF k <= l THEN 0 ELSE q[k - l]]
<1>5. r \in [0 .. (l + m) -> Nat] /\ r[0] = 0
  BY <1>2, <1>4
<1>6. \A k \in 0 .. l : r[k] = 0
  BY <1>2
<1>7. \A k \in 0 .. m : r[l + k] = q[k]
  <2> TAKE k \in 0 .. m
  <2>1. l + k \in 0 .. (l + m) /\ (l + k) - l = k /\ (l + k <= l => k = 0)
    BY <1>2
  <2> QED
    BY <1>4, <2>1
<1> HIDE DEF r
<1>8. Worth(digits, "0") = 0 /\ "0" = digits[1] /\ base * 0 = 0 /\ base \in Nat /\ 0 \in 0 .. (base - 1)
  <2>1. 0 \in 0 .. 15 /\ 0 + 1 = 1
    OBVIOUS
  <2>2. digits[1] = "0" /\ Worth(digits, digits[0 + 1]) = 0
    BY <2>1, DigitOnce, DigitList
  <2> QED
    BY <2>1, <2>2 DEF Bases
<1>9. ASSUME NEW k \in 1 .. (l + m) PROVE r[k] = base * r[k - 1] + Worth(digits, t[k])
  <2>1. CASE k <= l
    <3>1. k \in 0 .. l /\ k - 1 \in 0 .. l /\ k \in 1 .. l
      BY <1>2, <2>1
    <3>2. r[k] = 0 /\ r[k - 1] = 0 /\ t[k] = "0"
      BY <1>2, <1>6, <3>1
    <3> QED
      BY <1>8, <3>2
  <2>2. CASE ~(k <= l)
    <3>1. PICK i \in 1 .. m : k = l + i /\ k - 1 = l + (i - 1) /\ i - 1 \in 0 .. m /\ i \in 0 .. m
      <4>1. k - l \in 1 .. m /\ k = l + (k - l) /\ k - 1 = l + ((k - l) - 1) /\ (k - l) - 1 \in 0 .. m
            /\ k - l \in 0 .. m
        BY <1>2, <2>2
      <4> QED
        BY <4>1
    <3>2. r[k] = q[i] /\ r[k - 1] = q[i - 1] /\ t[k] = s[i]
      BY <1>2, <1>7, <3>1
    <3> QED
      BY <1>4, <3>2, Zenon
  <2> QED
    BY <2>1, <2>2
<1>10. r[l + m] = n
  <2>1. m \in 0 .. m
    BY <1>2
  <2> QED
    BY <1>4, <1>7, <2>1
<1>11. ReadIn(base, digits, t) = n
  <2>1. Len(t) \in Nat
    BY <1>2
  <2>2. Reading(r, base, digits, t, n)
    BY <1>2, <1>5, <1>9, <1>10 DEF Reading
  <2> QED
    BY <2>1, <2>2, ReadInBy, Zenon
<1>12. \A i \in 1 .. (l + m) : \E k \in 0 .. (base - 1) : t[i] = digits[k + 1]
  <2> TAKE i \in 1 .. (l + m)
  <2>1. CASE i \in 1 .. l
    <3>1. 0 + 1 = 1
      OBVIOUS
    <3> QED
      BY <1>2, <1>8, <2>1, <3>1
  <2>2. CASE i \notin 1 .. l
    <3>1. PICK j \in 1 .. m : i = l + j
      <4>1. i - l \in 1 .. m /\ i = l + (i - l)
        BY <1>2, <2>2
      <4> QED
        BY <4>1
    <3> QED
      BY <1>1, <1>2, <3>1 DEF m
  <2> QED
    BY <2>1, <2>2
<1> QED
  BY <1>2, <1>11, <1>12 DEF t, l, m, ReadsAs

(* Powers of a base grow. *)
LEMMA PowersGrow ==
  ASSUME NEW base \in Bases, NEW i \in Nat, NEW j \in Nat, i <= j
  PROVE  RaisedTo(base, i) <= RaisedTo(base, j)
<1> DEFINE S == {d \in Nat : RaisedTo(base, i) <= RaisedTo(base, i + d)}
<1>1. 0 \in S
  <2>1. RaisedTo(base, i) \in Nat /\ i + 0 = i
    BY Powers
  <2> QED
    BY <2>1
<1>2. ASSUME NEW d \in Nat, d \in S PROVE d + 1 \in S
  <2>1. i + d \in Nat /\ i + (d + 1) = (i + d) + 1
    OBVIOUS
  <2>2. /\ RaisedTo(base, i) \in Nat /\ RaisedTo(base, i + d) \in Nat
        /\ RaisedTo(base, (i + d) + 1) = base * RaisedTo(base, i + d)
    BY <2>1, Powers
  <2>3. RaisedTo(base, (i + d) + 1) \in Nat /\ RaisedTo(base, (i + d) + 1) >= RaisedTo(base, i + d)
    BY <2>2, Multiplied
  <2>4. RaisedTo(base, i) <= RaisedTo(base, i + (d + 1))
    BY <1>2, <2>1, <2>2, <2>3
  <2> QED
    BY <2>4
<1> HIDE DEF S
<1>3. j - i \in S
  <2>1. j - i \in Nat
    OBVIOUS
  <2> QED
    BY <1>1, <1>2, <2>1, SetInduction
<1>4. i + (j - i) = j
  OBVIOUS
<1> QED
  BY <1>3, <1>4 DEF S

(* A numeral has no more digits than the number needs. *)
LEMMA FewestDigits ==
  ASSUME NEW base \in Bases, NEW digits \in Signs, NEW n \in Nat, n < Word,
         NEW s, Numeral(base, digits, s, n)
  PROVE  (CHOOSE k \in 1 .. Word : /\ RaisedTo(base, k) > n
                                   /\ k > 1 => RaisedTo(base, k - 1) <= n) = Len(s)
<1> DEFINE Fits(k) == RaisedTo(base, k) > n /\ (k > 1 => RaisedTo(base, k - 1) <= n)
           l == Len(s)
<1>1. l \in 1 .. (n + 1) /\ Fits(l)
  BY DEF Numeral
<1> HIDE DEF l
<1>2. l \in 1 .. Word
  <2>1. Word \in Nat
    BY PrintfAssumption
  <2> QED
    BY <1>1, <2>1
<1>3. ASSUME NEW k \in Nat, NEW j \in Nat, k > 0, j > 0, Fits(k), Fits(j), k < j PROVE FALSE
  <2>1. j - 1 \in Nat /\ k <= j - 1 /\ j > 1
    BY <1>3
  <2>2. RaisedTo(base, k) <= RaisedTo(base, j - 1)
    BY <2>1, PowersGrow
  <2>3. RaisedTo(base, k) \in Nat /\ RaisedTo(base, j - 1) \in Nat
    BY <2>1, Powers
  <2>4. RaisedTo(base, k) > n /\ RaisedTo(base, j - 1) <= n
    BY <1>3, <2>1
  <2> QED
    BY <2>2, <2>3, <2>4
<1> HIDE DEF Fits
<1>4. \A k \in 1 .. Word : Fits(k) <=> k = l
  <2> SUFFICES ASSUME NEW k \in 1 .. Word, Fits(k) PROVE k = l
    BY <1>1
  <2>1. k \in Nat /\ l \in Nat /\ k > 0 /\ l > 0
    BY <1>1
  <2>2. ~(k < l) /\ ~(l < k)
    BY <1>1, <1>3, <2>1
  <2> QED
    BY <2>1, <2>2
<1>5. (CHOOSE k \in 1 .. Word : Fits(k)) = l
  BY <1>2, <1>4
<1> QED
  BY <1>5 DEF Fits, l

-----------------------------------------------------------------------------
(* What a directive asks for, and what is put out for it.                   *)

(* Half a word is less than a word. *)
LEMMA Halves ==
  /\ Word \in Nat /\ Word >= 2 /\ Word \div 2 \in Nat /\ Word \div 2 >= 1 /\ 2 * (Word \div 2) = Word
  /\ \A v \in Int : v % Word \in 0 .. (Word - 1)
<1>1. Word \in Nat \ {0} /\ Word % 2 = 0
  BY PrintfAssumption
<1>2. \A w \in Nat \ {0} : w % 2 = 0 => w >= 2 /\ w \div 2 \in Nat /\ w \div 2 >= 1 /\ 2 * (w \div 2) = w
  OBVIOUS
<1>3. \A w \in Nat \ {0}, v \in Int : v % w \in 0 .. (w - 1)
  OBVIOUS
<1> QED
  BY <1>1, <1>2, <1>3

(* What the parts of a directive can be. *)
LEMMA ItemIs ==
  ASSUME NEW item \in Items
  PROVE  /\ ~Directive(item) => item.char \in Ascii \ {"%", NUL}
         /\ Directive(item) =>
              /\ item.flags \in SUBSET Flags
              /\ item.width \in Parts(Nat \ {0}) /\ item.precision \in Parts(Nat)
              /\ item.qualifier = <<>> \/ \E q \in Qualifiers : item.qualifier = <<q>>
              /\ \/ item.conversion \in Numeric /\ item.value \in Int
                 \/ item.conversion \in Conversions \ Numeric /\ item.text \in Strings
<1>1. CASE item \in [char : Ascii \ {"%", NUL}]
  <2>1. DOMAIN item = {"char"} /\ item.char \in Ascii \ {"%", NUL}
    BY <1>1
  <2> QED
    BY <2>1 DEF Directive
<1>2. CASE item \in [flags : SUBSET Flags, width : Parts(Nat \ {0}), precision : Parts(Nat),
                     qualifier : {<<>>} \cup {<<q>> : q \in Qualifiers}, conversion : Numeric,
                     value : Int]
  <2>1. "conversion" \in DOMAIN item
    BY <1>2
  <2>2. item.qualifier \in {<<>>} \cup {<<q>> : q \in Qualifiers}
    BY <1>2
  <2>3. item.qualifier = <<>> \/ \E q \in Qualifiers : item.qualifier = <<q>>
    BY <2>2
  <2>4. /\ item.flags \in SUBSET Flags /\ item.width \in Parts(Nat \ {0}) /\ item.precision \in Parts(Nat)
        /\ item.conversion \in Numeric /\ item.value \in Int
    BY <1>2
  <2> QED
    BY <2>1, <2>3, <2>4 DEF Directive
<1>3. CASE item \in [flags : SUBSET Flags, width : Parts(Nat \ {0}), precision : Parts(Nat),
                     qualifier : {<<>>} \cup {<<q>> : q \in Qualifiers},
                     conversion : Conversions \ Numeric, text : Strings]
  <2>1. "conversion" \in DOMAIN item
    BY <1>3
  <2>2. item.qualifier \in {<<>>} \cup {<<q>> : q \in Qualifiers}
    BY <1>3
  <2>3. item.qualifier = <<>> \/ \E q \in Qualifiers : item.qualifier = <<q>>
    BY <2>2
  <2>4. /\ item.flags \in SUBSET Flags /\ item.width \in Parts(Nat \ {0}) /\ item.precision \in Parts(Nat)
        /\ item.conversion \in Conversions \ Numeric /\ item.text \in Strings
    BY <1>3
  <2> QED
    BY <2>1, <2>3, <2>4 DEF Directive
<1> QED
  BY <1>1, <1>2, <1>3 DEF Items

(* A part that is digits is a number; so is a star's argument. *)
LEMMA PartIs ==
  ASSUME NEW V, NEW part \in Parts(V)
  PROVE  \/ part.form = "none"
         \/ part.form = "digits" /\ part.value \in V
         \/ part.form = "star" /\ part.value \in Int
<1>1. CASE part \in [form : {"none"}]
  BY <1>1
<1>2. CASE part \in [form : {"digits"}, value : V]
  BY <1>2
<1>3. CASE part \in [form : {"star"}, value : Int]
  BY <1>3
<1> QED
  BY <1>1, <1>2, <1>3 DEF Parts

(* What vsprintf has read of a directive when it comes to the conversion. *)
FlagsRead(item) ==
  item.flags \cup (IF item.width.form = "star" /\ item.width.value < 0 THEN {"-"} ELSE {})
WidthRead(item) ==
  CASE item.width.form = "none" -> -1
    [] item.width.form # "none" /\ item.width.value < 0 -> -item.width.value
    [] OTHER -> item.width.value
PrecisionRead(item) == IF item.precision.form = "none" THEN -1 ELSE item.precision.value

TypeRead(item) ==
  FlagsRead(item) \cup (IF item.conversion = "x" THEN {"SMALL"} ELSE {})
                  \cup (IF item.conversion \in {"d", "i"} THEN {"SIGN"} ELSE {})
                  \cup (IF Plain(item) THEN {"0"} ELSE {})
SizeRead(item) == IF Plain(item) THEN PointerDigits ELSE WidthRead(item)

(* The width that is read is the one that is wanted. *)
LEMMA WidthIs ==
  ASSUME NEW item \in Items, Directive(item)
  PROVE  /\ WidthRead(item) \in Int /\ (WidthRead(item) = -1 <=> item.width.form = "none")
         /\ Wanted(item) \in Nat
         /\ SizeRead(item) = Wanted(item) \/ (SizeRead(item) = -1 /\ Wanted(item) = 0)
         /\ ~Plain(item) => WidthRead(item) = Wanted(item)
                              \/ (WidthRead(item) = -1 /\ Wanted(item) = 0)
         /\ FlagsRead(item) \in SUBSET Flags
         /\ "-" \in FlagsRead(item) <=> Left(item)
<1> DEFINE w == item.width
<1>1. item.flags \in SUBSET Flags /\ w \in Parts(Nat \ {0})
  BY ItemIs
<1>2. \/ w.form = "none"
      \/ w.form = "digits" /\ w.value \in Nat \ {0}
      \/ w.form = "star" /\ w.value \in Int
  BY <1>1, PartIs
<1>3. PointerDigits \in Nat
  BY PrintfAssumption
<1>4. CASE w.form = "none"
  BY <1>1, <1>3, <1>4 DEF WidthRead, Wanted, SizeRead, Plain, Least, FlagsRead, Left
<1>5. CASE w.form # "none"
  <2>1. PICK v \in Int : v = w.value /\ (w.form = "digits" => v > 0)
    BY <1>2, <1>5
  <2>2. Least(w) = v /\ ~Plain(item)
    BY <1>5, <2>1 DEF Least, Plain
  <2>3. WidthRead(item) = (IF v < 0 THEN -v ELSE v)
    BY <1>5, <2>1 DEF WidthRead
  <2>4. Wanted(item) = (IF v < 0 THEN -v ELSE v) /\ SizeRead(item) = WidthRead(item)
    BY <2>2 DEF Wanted, SizeRead
  <2>5. FlagsRead(item) = item.flags \cup (IF w.form = "star" /\ v < 0 THEN {"-"} ELSE {})
    BY <2>1 DEF FlagsRead
  <2>6. Left(item) <=> "-" \in item.flags \/ v < 0
    BY <2>2 DEF Left
  <2>7. v < 0 => w.form = "star"
    BY <1>2, <1>5, <2>1
  <2>8. "-" \in Flags
    BY DEF Flags
  <2> HIDE DEF w
  <2>9. FlagsRead(item) \in SUBSET Flags
    BY <1>1, <2>5, <2>8
  <2>10. "-" \in FlagsRead(item) <=> Left(item)
    BY <2>5, <2>6, <2>7
  <2>11. /\ WidthRead(item) \in Int /\ WidthRead(item) # -1 /\ Wanted(item) \in Nat
         /\ SizeRead(item) = Wanted(item) /\ WidthRead(item) = Wanted(item)
    BY <2>3, <2>4
  <2> QED
    BY <1>5, <2>9, <2>10, <2>11 DEF w
<1> QED
  BY <1>4, <1>5

(* So are the flags. *)
LEMMA TypeIs ==
  ASSUME NEW item \in Items, Directive(item), item.conversion \in Numeric
  PROVE  /\ "SMALL" \in TypeRead(item) <=> item.conversion = "x"
         /\ "SIGN" \in TypeRead(item) <=> item.conversion \in {"d", "i"}
         /\ "-" \in TypeRead(item) <=> Left(item)
         /\ ("0" \in TypeRead(item) /\ "-" \notin TypeRead(item)) <=> Zeros(item)
         /\ \A c \in {"+", " ", "#"} : c \in TypeRead(item) <=> c \in item.flags
<1>1. /\ FlagsRead(item) \in SUBSET Flags /\ ("-" \in FlagsRead(item) <=> Left(item))
  BY WidthIs
<1>2. \A c : c # "-" => (c \in FlagsRead(item) <=> c \in item.flags)
  BY DEF FlagsRead
<1>3. "SMALL" \notin FlagsRead(item) /\ "SIGN" \notin FlagsRead(item)
  BY <1>1 DEF Flags
<1>4. "SMALL" \in TypeRead(item) <=> item.conversion = "x"
  BY <1>3 DEF TypeRead
<1>5. "SIGN" \in TypeRead(item) <=> item.conversion \in {"d", "i"}
  BY <1>3 DEF TypeRead
<1>6. "-" \in TypeRead(item) <=> Left(item)
  BY <1>1 DEF TypeRead
<1>7. "0" \in TypeRead(item) <=> "0" \in item.flags \/ Plain(item)
  BY <1>2 DEF TypeRead
<1>8. \A c \in {"+", " ", "#"} : c \in TypeRead(item) <=> c \in item.flags
  BY <1>2 DEF TypeRead
<1> QED
  BY <1>4, <1>5, <1>6, <1>7, <1>8 DEF Zeros

(* So is the precision. *)
LEMMA PrecisionIs ==
  ASSUME NEW item \in Items, Directive(item), item.precision.form # "star"
  PROVE  /\ PrecisionRead(item) \in Int /\ Least(item.precision) \in Nat
         /\ IF item.precision.form = "none"
            THEN PrecisionRead(item) = -1 /\ Least(item.precision) = 0
            ELSE PrecisionRead(item) = Least(item.precision) /\ item.precision.value \in Nat
                 /\ PrecisionRead(item) = item.precision.value
<1>1. item.precision \in Parts(Nat)
  BY ItemIs
<1>2. item.precision.form = "none" \/ (item.precision.form = "digits" /\ item.precision.value \in Nat)
  BY <1>1, PartIs
<1> QED
  BY <1>2 DEF PrecisionRead, Least

(* The sign and the base are those that have to stand there. *)
LEMMA HeadIs ==
  ASSUME NEW item \in Items, Directive(item), item.conversion \in Numeric
  PROVE  LET num == item.value % Word
             negative == "SIGN" \in TypeRead(item) /\ num >= Word \div 2
             magnitude == Magnitude(num, negative)
         IN  /\ Sign(negative, TypeRead(item)) \o Prefix(Radix(item), TypeRead(item)) = Lead(item)
             /\ Lead(item) \in Seq(Ascii)
             /\ magnitude \in Nat /\ magnitude < Word
             /\ magnitude = IF Meant(item) < 0 THEN -Meant(item) ELSE Meant(item)
<1> DEFINE num == item.value % Word
           negative == "SIGN" \in TypeRead(item) /\ num >= Word \div 2
           sign == IF Meant(item) < 0 THEN <<"-">> ELSE IF "+" \in item.flags THEN <<"+">>
                   ELSE IF " " \in item.flags THEN <<" ">> ELSE <<>>
           prefix == IF "#" \notin item.flags THEN <<>>
                     ELSE CASE item.conversion = "o" -> <<"0">>
                            [] item.conversion = "x" -> <<"0", "x">>
                            [] item.conversion \in {"X", "p"} -> <<"0", "X">>
                            [] OTHER -> <<>>
<1>1. item.value \in Int
  BY ItemIs DEF Conversions
<1>2. num \in 0 .. (Word - 1)
  BY <1>1, Halves
<1>3. Meant(item) = IF item.conversion \in {"d", "i"} /\ num >= Word \div 2 THEN num - Word ELSE num
  BY DEF Meant
<1> HIDE DEF num
<1>4. negative <=> Meant(item) < 0
  <2>1. negative <=> item.conversion \in {"d", "i"} /\ num >= Word \div 2
    BY TypeIs
  <2>2. num - Word < 0 /\ ~(num < 0)
    BY <1>2, Halves
  <2> QED
    BY <1>3, <2>1, <2>2
<1>5. /\ Magnitude(num, negative) \in Nat /\ Magnitude(num, negative) < Word
      /\ Magnitude(num, negative) = IF Meant(item) < 0 THEN -Meant(item) ELSE Meant(item)
  <2>1. Magnitude(num, negative) = IF negative THEN Word - num ELSE num
    BY DEF Magnitude
  <2>2. CASE negative
    <3>1. Meant(item) = num - Word
      BY <1>2, <1>3, <1>4, <2>2, Halves
    <3> QED
      BY <1>2, <1>4, <2>1, <2>2, <3>1, Halves
  <2>3. CASE ~negative
    <3>1. Meant(item) = num
      BY <1>2, <1>3, <1>4, <2>3, Halves
    <3> QED
      BY <1>2, <1>4, <2>1, <2>3, <3>1, Halves
  <2> QED
    BY <2>2, <2>3
<1>6. Sign(negative, TypeRead(item)) = sign
  <2>1. ("+" \in TypeRead(item) <=> "+" \in item.flags) /\ (" " \in TypeRead(item) <=> " " \in item.flags)
    BY TypeIs
  <2> HIDE DEF negative
  <2> QED
    BY <1>4, <2>1 DEF Sign
<1>7. Prefix(Radix(item), TypeRead(item)) = prefix
  <2>1. ("#" \in TypeRead(item) <=> "#" \in item.flags) /\ ("SMALL" \in TypeRead(item) <=> item.conversion = "x")
    BY TypeIs
  <2>2. item.conversion \in {"o", "p", "x", "X", "d", "i", "u"}
    BY DEF Numeric
  <2> QED
    BY <2>1, <2>2 DEF Prefix, Radix
<1>8. sign \in Seq(Ascii) /\ prefix \in Seq(Ascii)
  <2>1. {"-", "+", " ", "0", "x", "X"} \subseteq Ascii
    BY PrintfAssumption DEF Flags, Takers, Numeric
  <2>2. <<>> \in Seq(Ascii) /\ \A c \in Ascii : <<c>> \in Seq(Ascii) /\ \A d \in Ascii : <<c, d>> \in Seq(Ascii)
    OBVIOUS
  <2>3. sign \in Seq(Ascii)
    BY <2>1, <2>2
  <2>4. prefix \in Seq(Ascii)
    BY <2>1, <2>2
  <2> QED
    BY <2>3, <2>4
<1>9. Lead(item) = sign \o prefix
  BY DEF Lead
<1> HIDE DEF sign, prefix, negative
<1>10. Lead(item) \in Seq(Ascii)
  BY <1>8, <1>9
<1> QED
  BY <1>5, <1>6, <1>7, <1>9, <1>10 DEF negative, num

(* A number as it is put out. *)
LEMMA Formatted ==
  ASSUME NEW item \in Items, Directive(item), item.conversion \in Numeric,
         item.precision.form # "star"
  PROVE  LET text == Number(item.value, Radix(item), SizeRead(item), PrecisionRead(item), TypeRead(item))
         IN  NumberRight(item, text) /\ text \in Seq(Ascii)
<1> DEFINE base == Radix(item)
           symbols == Symbols(item)
           num == item.value % Word
           negative == "SIGN" \in TypeRead(item) /\ num >= Word \div 2
           magnitude == Magnitude(num, negative)
           zeropad == "0" \in TypeRead(item) /\ "-" \notin TypeRead(item)
           left == "-" \in TypeRead(item)
           size == SizeRead(item)
           digits == InBase(base, symbols, magnitude)
           zeros == Times("0", PrecisionRead(item) - Len(digits))
           head == Sign(negative, TypeRead(item)) \o Prefix(base, TypeRead(item))
           pad == size - Len(head \o zeros \o digits)
           b == IF zeropad \/ left THEN <<>> ELSE Times(" ", pad)
           zz == IF zeropad THEN Times("0", pad) ELSE <<>>
           a == IF left THEN Times(" ", pad) ELSE <<>>
           text == b \o head \o zz \o zeros \o digits \o a
<1>1. Number(item.value, base, size, PrecisionRead(item), TypeRead(item)) = text
  <2>1. symbols = IF "SMALL" \in TypeRead(item) THEN SmallDigits ELSE Digits
    BY TypeIs DEF Symbols
  <2> QED
    BY <2>1, Zenon DEF Number
<1>2. base \in Bases /\ symbols \in Signs
  BY DEF Radix, Bases, Symbols, Signs
<1>3. /\ head = Lead(item) /\ head \in Seq(Ascii)
      /\ magnitude \in Nat /\ magnitude < Word
      /\ magnitude = IF Meant(item) < 0 THEN -Meant(item) ELSE Meant(item)
  BY HeadIs
<1>4. (left <=> Left(item)) /\ (zeropad <=> Zeros(item)) /\ ~(left /\ zeropad)
  BY TypeIs
<1> HIDE DEF head, magnitude, left, zeropad, base, symbols
<1>5. Numeral(base, symbols, digits, magnitude)
  BY <1>2, <1>3, InBaseNumeral
<1> HIDE DEF digits
<1>6. digits \in Seq(Ascii) /\ Len(digits) \in Nat /\ Len(digits) >= 1
  BY <1>5 DEF Numeral
<1>7. /\ PrecisionRead(item) \in Int /\ Least(item.precision) \in Nat
      /\ PrecisionRead(item) = Least(item.precision) \/ (PrecisionRead(item) = -1 /\ Least(item.precision) = 0)
  BY PrecisionIs
<1>8. "0" \in Ascii /\ " " \in Ascii
  BY PrintfAssumption DEF Flags
<1> DEFINE T == Seq(Ascii)
           more == PrecisionRead(item) - Len(digits)
           nh == Len(head)
           nd == Len(digits)
           nz == IF more >= 0 THEN more ELSE 0
<1>9. digits \in T /\ head \in T /\ nh \in Nat /\ nd \in Nat /\ nd >= 1
  BY <1>3, <1>6
<1>10. zeros \in T /\ nz \in Nat /\ Len(zeros) = nz /\ \A i \in 1 .. nz : zeros[i] = "0"
  <2>1. more \in Int
    BY <1>6, <1>7
  <2>2. Filling(zeros, nz, "0", more)
    BY DEF Filling
  <2> HIDE DEF zeros, nz, more
  <2>3. RunOf(zeros, nz, "0")
    BY <1>8, <2>1, <2>2, FillIs, Zenon
  <2> QED
    BY <2>3 DEF RunOf, T
<1>11. nz = IF PrecisionRead(item) - nd >= 0 THEN PrecisionRead(item) - nd ELSE 0
  OBVIOUS
<1> HIDE DEF zeros, more, nz
<1>12. \A s, t \in T : s \o t \in T /\ Len(s \o t) = Len(s) + Len(t)
  OBVIOUS
<1>13. \A s, t \in T : \A i \in 1 .. Len(s \o t) :
         \/ i \in 1 .. Len(s) /\ (s \o t)[i] = s[i]
         \/ i - Len(s) \in 1 .. Len(t) /\ (s \o t)[i] = t[i - Len(s)]
  OBVIOUS
<1>14. \A s, t, u \in T : (s \o t) \o u = s \o (t \o u)
  BY ConcatAssociative
<1> DEFINE needed == nz + nd
<1>15. pad = size - (nh + needed)
  <2>1. head \o zeros \in T /\ Len(head \o zeros) = nh + nz
    BY <1>9, <1>10, <1>12
  <2>2. Len(head \o zeros \o digits) = (nh + nz) + nd
    BY <1>9, <1>12, <2>1
  <2>3. (nh + nz) + nd = nh + needed
    BY <1>9, <1>10
  <2> QED
    BY <2>2, <2>3
<1>16. size \in Int /\ Wanted(item) \in Nat /\ (size = Wanted(item) \/ (size = -1 /\ Wanted(item) = 0))
  <2>1. PointerDigits \in Nat
    BY PrintfAssumption
  <2> QED
    BY <2>1, WidthIs DEF SizeRead
<1> HIDE DEF size, T, nh, nd
<1>17. pad \in Int /\ needed \in Nat
  BY <1>9, <1>10, <1>15, <1>16
<1> HIDE DEF pad
<1> DEFINE fill == IF pad >= 0 THEN pad ELSE 0
           nb == IF zeropad \/ left THEN 0 ELSE fill
           nzz == IF zeropad THEN fill ELSE 0
           na == IF left THEN fill ELSE 0
<1>18. b \in T /\ nb \in Nat /\ Len(b) = nb /\ Times(" ", nb) = b
  <2>1. Filling(b, nb, " ", pad)
    BY DEF Filling
  <2> HIDE DEF b, nb
  <2>2. RunOf(b, nb, " ")
    BY <1>8, <1>17, <2>1, FillIs, Zenon
  <2> QED
    BY <2>2 DEF RunOf, T
<1>19. zz \in T /\ nzz \in Nat /\ Len(zz) = nzz /\ \A i \in 1 .. nzz : zz[i] = "0"
  <2>1. Filling(zz, nzz, "0", pad)
    BY DEF Filling
  <2> HIDE DEF zz, nzz
  <2>2. RunOf(zz, nzz, "0")
    BY <1>8, <1>17, <2>1, FillIs, Zenon
  <2> QED
    BY <2>2 DEF RunOf, T
<1>20. a \in T /\ na \in Nat /\ Len(a) = na /\ Times(" ", na) = a
  <2>1. Filling(a, na, " ", pad)
    BY DEF Filling
  <2> HIDE DEF a, na
  <2>2. RunOf(a, na, " ")
    BY <1>8, <1>17, <2>1, FillIs, Zenon
  <2> QED
    BY <2>2 DEF RunOf, T
<1>21. /\ nb + nzz + na = fill
       /\ fill = IF size - (nh + needed) >= 0 THEN size - (nh + needed) ELSE 0
       /\ IF Left(item) THEN nb = 0 ELSE na = 0
       /\ IF Zeros(item) THEN nb = 0 ELSE nzz = 0
  <2>1. fill \in Nat
    BY <1>17
  <2>2. fill = IF size - (nh + needed) >= 0 THEN size - (nh + needed) ELSE 0
    BY <1>15
  <2> HIDE DEF fill
  <2> QED
    BY <1>4, <2>1, <2>2
<1> HIDE DEF b, zz, a, fill, nb, nzz, na
<1> DEFINE z == zz \o zeros
           d == z \o digits
<1>22. text = b \o head \o d \o a
  <2>1. b \o head \in T
    BY <1>9, <1>12, <1>18
  <2>2. PICK x \in T : x = b \o head
    BY <2>1
  <2>3. x \o zz \in T /\ z \in T
    BY <1>10, <1>12, <1>19, <2>2
  <2>4. (x \o zz) \o zeros = x \o z
    BY <1>10, <1>14, <1>19, <2>2
  <2>5. (x \o z) \o digits = x \o d
    <3> HIDE DEF z
    <3>1. x \in T /\ z \in T /\ digits \in T
      BY <1>9, <2>2, <2>3
    <3> HIDE DEF d
    <3>2. (x \o z) \o digits = x \o (z \o digits)
      BY <1>14, <3>1, Zenon
    <3> QED
      BY <3>2 DEF d
  <2> QED
    BY <2>2, <2>4, <2>5
<1>23. z \in T /\ Len(z) = nzz + nz /\ \A i \in 1 .. Len(z) : z[i] = "0"
  <2>1. z \in T /\ Len(z) = nzz + nz
    BY <1>10, <1>12, <1>19
  <2>2. ASSUME NEW i \in 1 .. Len(z) PROVE z[i] = "0"
    <3>1. \/ i \in 1 .. Len(zz) /\ z[i] = zz[i]
          \/ i - Len(zz) \in 1 .. Len(zeros) /\ z[i] = zeros[i - Len(zz)]
      BY <1>10, <1>13, <1>19
    <3> HIDE DEF z
    <3> QED
      BY <1>10, <1>19, <3>1
  <2> QED
    BY <2>1, <2>2
<1> HIDE DEF z
<1>24. /\ d \in T /\ Len(d) = Len(z) + Len(digits)
       /\ ReadIn(base, symbols, d) = magnitude
       /\ \A i \in 1 .. Len(d) : \E k \in 0 .. (base - 1) : d[i] = symbols[k + 1]
  <2>1. z \in Seq(Ascii) /\ magnitude \in Nat
    BY <1>3, <1>23 DEF T
  <2>2. \A i \in 1 .. Len(z) : z[i] = "0"
    BY <1>23
  <2> HIDE DEF d
  <2>3. d = z \o digits
    BY DEF d
  <2>4. ReadsAs(base, symbols, z \o digits, Len(z) + Len(digits), magnitude)
    BY <1>2, <1>5, <2>1, <2>2, ZerosBefore, Zenon
  <2> QED
    BY <2>3, <2>4 DEF T, ReadsAs
<1> DEFINE l == nzz + needed
<1>25. Len(d) = l /\ l \in Nat /\ l >= 1
  <2>1. Len(z) = nzz + nz /\ Len(digits) = nd
    BY <1>23 DEF nd
  <2> QED
    BY <1>9, <1>10, <1>19, <1>24, <2>1
<1> HIDE DEF d
<1> DEFINE first == nb + nh + 1
           last == nb + nh + l
<1>26. /\ text \in T /\ Len(text) = nb + nh + l + na
       /\ SubSeq(text, first, last) = d
  <2>1. b \in Seq(Ascii) /\ head \in Seq(Ascii) /\ d \in Seq(Ascii) /\ a \in Seq(Ascii)
    BY <1>9, <1>18, <1>20, <1>24 DEF T
  <2>2. Len(b) = nb /\ Len(head) = nh /\ Len(d) = l /\ Len(a) = na
    BY <1>18, <1>20, <1>25 DEF nh
  <2>3. text = b \o head \o d \o a
    BY <1>22
  <2> HIDE DEF text, l
  <2>4. nb \in Nat /\ nh \in Nat /\ l \in Nat /\ na \in Nat
    BY <1>9, <1>18, <1>20, <1>25
  <2>5. MadeUp(text, nb + nh + l + na, first, last, d)
    BY <2>1, <2>2, <2>3, <2>4, PutTogether, Zenon
  <2> QED
    BY <2>5 DEF T, MadeUp
<1>27. text = Times(" ", nb) \o Lead(item) \o d \o Times(" ", na)
  BY <1>3, <1>18, <1>20, <1>22
<1> HIDE DEF text
<1>28. needed = Max({nd, Least(item.precision)})
  <2>1. Max({nd, Least(item.precision)}) = IF nd >= Least(item.precision) THEN nd ELSE Least(item.precision)
    BY <1>7, <1>9, MaxOfTwo
  <2> QED
    BY <1>7, <1>9, <1>11, <2>1
<1>29. (CHOOSE k \in 1 .. Word : /\ RaisedTo(base, k) > magnitude
                                 /\ k > 1 => RaisedTo(base, k - 1) <= magnitude) = nd
  BY <1>2, <1>3, <1>5, FewestDigits DEF nd
<1> HIDE DEF needed
<1>30. Len(text) = Max({Wanted(item), nh + needed})
  <2>1. PICK w \in Nat, n \in Nat : w = Wanted(item) /\ n = nh + needed
    BY <1>9, <1>16, <1>17
  <2>2. Max({w, n}) = IF w >= n THEN w ELSE n
    BY MaxOfTwo
  <2>3. Len(text) = n + fill
    <3>1. nb + nh + l + na = n + fill
      <4>1. fill = nb + nzz + na
        BY <1>21
      <4> QED
        <5>1. nb \in Nat /\ nh \in Nat /\ nzz \in Nat /\ needed \in Nat /\ na \in Nat
          BY <1>9, <1>17, <1>18, <1>19, <1>20
        <5> QED
          BY <2>1, <4>1, <5>1
    <3> QED
      BY <1>26, <3>1, Zenon
  <2>4. n + fill = IF w >= n THEN w ELSE n
    <3>1. fill = IF size - n >= 0 THEN size - n ELSE 0
      BY <1>21, <2>1
    <3>2. size = w \/ (size = -1 /\ w = 0)
      BY <1>16, <2>1
    <3> QED
      BY <3>1, <3>2
  <2> QED
    BY <2>1, <2>2, <2>3, <2>4
<1>31. Readable(item, d) /\ Reads(item, d) = magnitude
  <2>1. DOMAIN d = 1 .. Len(d)
    BY <1>24 DEF T
  <2> QED
    BY <1>24, <2>1 DEF Readable, Reads, base, symbols
<1>32. /\ first \in 1 .. Len(text) /\ last \in 1 .. Len(text)
       /\ first - 1 - nh = nb /\ Len(text) - last = na
  <2>1. PICK t : t = Len(text) /\ t = nb + nh + l + na
    BY <1>26
  <2>2. l \in Nat /\ l >= 1
    BY <1>25
  <2> HIDE DEF l
  <2>3. first \in 1 .. t /\ last \in 1 .. t /\ first - 1 - nh = nb /\ t - last = na
    <3>1. nb \in Nat /\ nh \in Nat /\ na \in Nat /\ t = nb + nh + l + na
      BY <1>9, <1>18, <1>20, <2>1
    <3> QED
      BY <2>2, <3>1
  <2> QED
    BY <2>1, <2>3
<1>33. IF Zeros(item) THEN nb = 0 ELSE Len(d) = needed
  BY <1>17, <1>21, <1>25
<1>34. NumberRight(item, text)
  <2> DEFINE magn == IF Meant(item) < 0 THEN -Meant(item) ELSE Meant(item)
             fewest == CHOOSE k \in 1 .. Word :
                         /\ RaisedTo(Radix(item), k) > magn
                         /\ k > 1 => RaisedTo(Radix(item), k - 1) <= magn
             need == Max({fewest, Least(item.precision)})
             Right(f, e) ==
               LET ds == SubSeq(text, f, e)
                   before == f - 1 - Len(Lead(item))
                   after == Len(text) - e
               IN  /\ text = Times(" ", before) \o Lead(item) \o ds \o Times(" ", after)
                   /\ Readable(item, ds) /\ Reads(item, ds) = magn
                   /\ IF Left(item) THEN before = 0 ELSE after = 0
                   /\ IF Zeros(item) THEN before = 0 ELSE Len(ds) = need
                   /\ Len(text) = Max({Wanted(item), Len(Lead(item)) + need})
  <2>1. magn = magnitude
    BY <1>3
  <2>2. fewest = nd
    BY <1>29, <2>1 DEF base
  <2> HIDE DEF fewest
  <2>3. need = needed
    BY <1>28, <2>2
  <2> HIDE DEF magn, need
  <2>4. Right(first, last)
    <3>1. Len(Lead(item)) = nh
      BY <1>3 DEF nh
    <3> HIDE DEF first, last
    <3> QED
      BY <1>21, <1>26, <1>27, <1>30, <1>31, <1>32, <1>33, <2>1, <2>3, <3>1
  <2> HIDE DEF Right
  <2>5. \E f, e \in 1 .. Len(text) : Right(f, e)
    BY <1>32, <2>4
  <2> QED
    BY <2>5, Zenon DEF NumberRight, Right, need, fewest, magn
<1> QED
  BY <1>1, <1>26, <1>34 DEF base, size, T

LEMMA Arithmetic ==
  /\ MaxSize \in Nat /\ MaxLength \in Nat \ {0} /\ Source \in Nat /\ Source = MaxSize + 1
  /\ Addresses \subseteq Nat
  /\ Memory \in [Addresses -> Int] /\ \A a \in Addresses : Memory[a] = a
  BY LibCAssumption DEF Source, Addresses, Memory

LEMMA StringsEnd ==
  ASSUME NEW s \in Strings
  PROVE  /\ Len(s) \in Nat /\ Len(s) >= 1 /\ s \in Seq(Alphabet) /\ Len(s) \in 1 .. MaxLength
         /\ Strlen(s) = Len(s) - 1
         /\ \A k \in 1 .. Len(s) : s[k] = NUL <=> k = Len(s)
<1>1. PICK n \in 1 .. MaxLength : s \in [1 .. n -> Alphabet]
  BY DEF Strings
<1>2. n \in Nat /\ Len(s) = n /\ s \in Seq(Alphabet) /\ DOMAIN s = 1 .. n
  BY <1>1, Arithmetic
<1>3. \A k \in 1 .. n : s[k] = NUL <=> k = n
  BY <1>2 DEF Strings
<1>4. Strlen(s) = n - 1
  <2> DEFINE Ends(k) == s[k + 1] = NUL /\ \A j \in 1 .. k : s[j] # NUL
  <2>1. \A k \in 0 .. (n - 1) : Ends(k) <=> k = n - 1
    <3> TAKE k \in 0 .. (n - 1)
    <3>1. k + 1 \in 1 .. n /\ \A j \in 1 .. k : j \in 1 .. n /\ j # n
      BY <1>1, <1>2
    <3>2. s[k + 1] = NUL <=> k + 1 = n
      BY <1>3, <3>1
    <3>3. \A j \in 1 .. k : s[j] # NUL
      BY <1>3, <3>1
    <3> QED
      BY <1>2, <3>2, <3>3
  <2>2. n - 1 \in 0 .. (n - 1)
    BY <1>1
  <2> HIDE DEF Ends
  <2>3. (CHOOSE k \in 0 .. (n - 1) : Ends(k)) = n - 1
    BY <2>1, <2>2
  <2>4. Strlen(s) = CHOOSE k \in 0 .. (n - 1) : Ends(k)
    BY <1>2, Zenon DEF Strlen, Ends
  <2> QED
    BY <2>3, <2>4
<1> QED
  BY <1>1, <1>2, <1>3, <1>4

(* A character or a string as it is put out. *)
LEMMA Blanks ==
  ASSUME NEW item \in Items, Directive(item), ~Plain(item), NEW s \in Seq(Ascii),
         flags = FlagsRead(item), field_width = WidthRead(item)
  PROVE  /\ Padded(s) = IF Left(item) THEN s \o Times(" ", Wanted(item) - Len(s))
                        ELSE Times(" ", Wanted(item) - Len(s)) \o s
         /\ Padded(s) \in Seq(Ascii)
<1>1. Len(s) \in Nat /\ " " \in Ascii
  <2>1. Len(s) \in Nat
    OBVIOUS
  <2> QED
    BY <2>1, PrintfAssumption DEF Flags
<1>2. /\ WidthRead(item) \in Int /\ Wanted(item) \in Nat
      /\ WidthRead(item) = Wanted(item) \/ (WidthRead(item) = -1 /\ Wanted(item) = 0)
      /\ "-" \in FlagsRead(item) <=> Left(item)
  BY WidthIs
<1>3. PICK n \in Nat, w \in Int, v \in Nat : n = Len(s) /\ w = WidthRead(item) /\ v = Wanted(item)
  BY <1>1, <1>2
<1>4. w - n \in Int /\ v - n \in Int /\ (w = v \/ (w < 0 /\ v = 0))
  BY <1>2, <1>3
<1>5. Times(" ", w - n) = Times(" ", v - n)
  <2>1. CASE w = v
    BY <2>1
  <2>2. CASE w < 0 /\ v = 0
    <3>1. 1 .. (w - n) = {} /\ (1 .. (v - n) = {})
      BY <2>2
    <3> QED
      BY <3>1, Zenon DEF Times
  <2> QED
    BY <1>4, <2>1, <2>2
<1>6. Times(" ", v - n) \in Seq(Ascii)
  BY <1>1, <1>4, TimesIs
<1>7. Padded(s) = IF Left(item) THEN s \o Times(" ", v - n) ELSE Times(" ", v - n) \o s
  BY <1>2, <1>3, <1>5 DEF Padded
<1>8. s \o Times(" ", v - n) \in Seq(Ascii) /\ Times(" ", v - n) \o s \in Seq(Ascii)
  BY <1>6, ConcatProperties
<1> QED
  BY <1>3, <1>7, <1>8

(* A string and a character, in their field. *)
LEMMA Texts ==
  ASSUME NEW item \in Items, Directive(item), item.conversion \in {"c", "s"},
         item.precision.form # "star",
         flags = FlagsRead(item), field_width = WidthRead(item), precision = PrecisionRead(item)
  PROVE  LET s == IF item.conversion = "c" THEN <<item.text[1]>> ELSE Cut(item.text)
         IN  TextRight(item, Padded(s)) /\ Padded(s) \in Seq(Ascii)
<1> DEFINE t == item.text
           s == IF item.conversion = "c" THEN <<t[1]>> ELSE Cut(t)
<1>1. t \in Strings /\ ~Plain(item)
  BY ItemIs DEF Numeric, Plain
<1>2. /\ Len(t) \in Nat /\ Len(t) >= 1 /\ t \in Seq(Alphabet) /\ Strlen(t) = Len(t) - 1
  BY <1>1, StringsEnd
<1>3. Alphabet \subseteq Ascii
  BY PrintfAssumption
<1>4. s = Shown(item) /\ s \in Seq(Ascii)
  <2>1. CASE item.conversion = "c"
    <3>1. t[1] \in Ascii
      BY <1>2, <1>3
    <3>2. \A c \in Ascii : <<c>> \in Seq(Ascii)
      OBVIOUS
    <3>3. s = <<t[1]>>
      BY <2>1
    <3>4. Shown(item) = <<t[1]>>
      BY <2>1 DEF Shown
    <3> QED
      BY <3>1, <3>2, <3>3, <3>4
  <2>2. CASE item.conversion = "s"
    <3>1. PICK n \in Nat : n = Len(t) - 1
      BY <1>2
    <3>2. PICK p \in Int : /\ p = PrecisionRead(item)
                           /\ IF item.precision.form = "none" THEN p = -1
                              ELSE p = item.precision.value /\ p \in Nat
      BY PrecisionIs
    <3> DEFINE m == IF p < 0 \/ n <= p THEN n ELSE p
    <3>3. Cut(t) = SubSeq(t, 1, m)
      BY <1>2, <3>1, <3>2 DEF Cut
    <3>4. m \in 0 .. n
      BY <3>2
    <3>5. Shown(item) = SubSeq(t, 1, m)
      <4>1. CASE item.precision.form = "none"
        <5>1. Shown(item) = SubSeq(t, 1, n)
          BY <2>2, <3>1, <4>1 DEF Shown, Front
        <5> QED
          BY <3>2, <4>1, <5>1
      <4>2. CASE item.precision.form # "none"
        <5>1. Shown(item) = SubSeq(t, 1, Min({n, p}))
          BY <2>2, <3>1, <3>2, <4>2 DEF Shown
        <5>2. Min({n, p}) = m
          BY <3>2, <4>2, MinOfTwo
        <5> QED
          BY <5>1, <5>2
      <4> QED
        BY <4>1, <4>2
    <3>6. \A i \in 1 .. m : t[i] \in Ascii
      BY <1>2, <1>3, <3>1, <3>4
    <3> HIDE DEF m
    <3>7. SubSeq(t, 1, m) \in Seq(Ascii)
      <4>1. m \in Int
        BY <3>4
      <4> QED
        BY <3>6, <4>1, SubSeqProperties
    <3> QED
      BY <2>2, <3>3, <3>5, <3>7
  <2> QED
    BY <2>1, <2>2
<1> HIDE DEF s
<1>5. /\ Padded(s) = IF Left(item) THEN s \o Times(" ", Wanted(item) - Len(s))
                     ELSE Times(" ", Wanted(item) - Len(s)) \o s
      /\ Padded(s) \in Seq(Ascii)
  BY <1>1, <1>4, Blanks
<1>6. TextRight(item, Padded(s))
  BY <1>4, <1>5 DEF TextRight
<1> QED
  BY <1>5, <1>6 DEF s

-----------------------------------------------------------------------------
(* How the format is written, and how it is read.                           *)

(* What is written for the parts of a directive. *)
Marks(item) == SetToSeq(item.flags)
Point(item) ==
  IF item.precision.form = "none" THEN <<>> ELSE <<".">> \o Given(item.precision)
Closing(item) == IF item.conversion = NUL THEN <<>> ELSE <<item.conversion>>

(* Characters of ten digits. *)
Decimals(s) == s \in Seq(Ascii) /\ \A x \in 1 .. Len(s) : IsDigit(s[x])

(* The flags as they are written are the flags that there are. *)
LEMMA FlagsListed ==
  ASSUME NEW S \in SUBSET Flags
  PROVE  LET s == SetToSeq(S)
         IN  s \in Seq(Ascii) /\ S = {s[x] : x \in 1 .. Len(s)} /\ \A x \in 1 .. Len(s) : s[x] \in S
<1>1. IsFiniteSet(Flags)
  <2>1. /\ IsFiniteSet({}) /\ IsFiniteSet({"-"}) /\ IsFiniteSet({"-", "+"})
        /\ IsFiniteSet({"-", "+", " "}) /\ IsFiniteSet({"-", "+", " ", "#"})
        /\ IsFiniteSet({"-", "+", " ", "#", "0"})
    <3>1. \A T, x : IsFiniteSet(T) => IsFiniteSet(T \cup {x})
      BY FS_AddElement
    <3>2. IsFiniteSet({})
      BY FS_EmptySet
    <3>3. IsFiniteSet({} \cup {"-"})
      BY <3>1, <3>2
    <3>4. IsFiniteSet({} \cup {"-"} \cup {"+"})
      BY <3>1, <3>3
    <3>5. IsFiniteSet({} \cup {"-"} \cup {"+"} \cup {" "})
      BY <3>1, <3>4
    <3>6. IsFiniteSet({} \cup {"-"} \cup {"+"} \cup {" "} \cup {"#"})
      BY <3>1, <3>5
    <3>7. IsFiniteSet({} \cup {"-"} \cup {"+"} \cup {" "} \cup {"#"} \cup {"0"})
      BY <3>1, <3>6
    <3>8. /\ {} \cup {"-"} = {"-"} /\ {} \cup {"-"} \cup {"+"} = {"-", "+"}
          /\ {} \cup {"-"} \cup {"+"} \cup {" "} = {"-", "+", " "}
          /\ {} \cup {"-"} \cup {"+"} \cup {" "} \cup {"#"} = {"-", "+", " ", "#"}
          /\ {} \cup {"-"} \cup {"+"} \cup {" "} \cup {"#"} \cup {"0"} = {"-", "+", " ", "#", "0"}
      OBVIOUS
    <3> QED
      BY <3>2, <3>3, <3>4, <3>5, <3>6, <3>7, <3>8
  <2> QED
    BY <2>1 DEF Flags
<1>2. IsFiniteSet(S)
  BY <1>1, FS_Subset
<1>3. Cardinality(S) \in Nat /\ ExistsBijection(1 .. Cardinality(S), S)
  BY <1>2, FS_CardinalityType
<1> DEFINE n == Cardinality(S)
           s == SetToSeq(S)
<1>4. \E f \in [1 .. n -> S] : IsInjective(f)
  BY <1>3 DEF ExistsBijection, Bijection, Injection, IsInjective
<1>5. s \in [1 .. n -> S] /\ IsInjective(s)
  BY <1>4, Zenon DEF SetToSeq
<1> HIDE DEF s
<1>6. s \in Injection(1 .. n, S)
  BY <1>5 DEF Injection
<1>7. IsFiniteSet(1 .. n) /\ Cardinality(1 .. n) = n
  BY <1>3, FS_Interval
<1>8. s \in Surjection(1 .. n, S)
  BY <1>2, <1>6, <1>7, FS_Injection, Zenon
<1>9. \A c \in S : \E x \in 1 .. n : s[x] = c
  BY <1>8 DEF Surjection
<1>10. S \subseteq Ascii
  BY PrintfAssumption
<1>11. s \in Seq(Ascii) /\ Len(s) = n
  BY <1>3, <1>5, <1>10
<1> QED
  BY <1>5, <1>9, <1>11 DEF s

(* What is written for a number of a directive is read as that number. *)
LEMMA Written10 ==
  ASSUME NEW n \in Nat, n > 0, NEW s, s = InBase(10, Digits, n)
  PROVE  Decimals(s) /\ Len(s) \in Nat /\ Len(s) > 0 /\ s[1] # "0" /\ ReadIn(10, Digits, s) = n
<1>1. Numeral(10, Digits, s, n)
  <2>1. 10 \in Bases /\ Digits \in Signs
    BY DEF Bases, Signs
  <2> QED
    BY <2>1, InBaseNumeral
<1>2. /\ s \in Seq(Ascii) /\ Len(s) \in 1 .. (n + 1) /\ s[1] # "0"
      /\ \A i \in 1 .. Len(s) : \E k \in 0 .. 9 : s[i] = Digits[k + 1]
      /\ \E r : Reading(r, 10, Digits, s, n)
  BY <1>1 DEF Numeral
<1>3. \A i \in 1 .. Len(s) : IsDigit(s[i])
  <2> SUFFICES ASSUME NEW i \in 1 .. Len(s) PROVE IsDigit(s[i])
    OBVIOUS
  <2>1. PICK k \in 0 .. 9 : s[i] = Digits[k + 1]
    BY <1>2
  <2>2. k + 1 \in 1 .. 10
    OBVIOUS
  <2> QED
    BY <2>1, <2>2 DEF IsDigit
<1>4. ReadIn(10, Digits, s) = n
  <2>1. PICK r : Reading(r, 10, Digits, s, n)
    BY <1>2
  <2>2. Len(s) \in Nat
    BY <1>2
  <2> QED
    BY <2>1, <2>2, ReadInBy, Zenon
<1> QED
  BY <1>2, <1>3, <1>4 DEF Decimals

(* What stands in the format for a width or a precision. *)
LEMMA GivenIs ==
  ASSUME NEW V \in SUBSET Nat, NEW part \in Parts(V)
  PROVE  /\ Given(part) \in Seq(Ascii) /\ Len(Given(part)) \in Nat
         /\ part.form = "star" => Len(Given(part)) = 1 /\ Given(part)[1] = "*"
         /\ part.form = "none" \/ (part.form = "digits" /\ part.value = 0) => Len(Given(part)) = 0
         /\ part.form = "digits" /\ part.value # 0 =>
              /\ Decimals(Given(part)) /\ Len(Given(part)) > 0 /\ Given(part)[1] # "0"
              /\ ReadIn(10, Digits, Given(part)) = part.value
<1>1. \/ part.form = "none"
      \/ part.form = "digits" /\ part.value \in V
      \/ part.form = "star" /\ part.value \in Int
  BY PartIs
<1>2. "*" \in Ascii
  BY PrintfAssumption
<1>3. <<"*">> \in Seq(Ascii) /\ Len(<<"*">>) = 1 /\ <<"*">>[1] = "*"
  BY <1>2
<1>4. <<>> \in Seq(Ascii) /\ Len(<<>>) = 0
  OBVIOUS
<1>5. CASE part.form = "star"
  <2>1. Given(part) = <<"*">>
    BY <1>5 DEF Given
  <2> QED
    BY <1>3, <1>5, <2>1
<1>6. CASE part.form = "none" \/ (part.form = "digits" /\ part.value = 0)
  <2>1. Given(part) = <<>>
    BY <1>6 DEF Given
  <2> QED
    BY <1>4, <1>6, <2>1
<1>7. CASE part.form = "digits" /\ part.value # 0
  <2>1. Given(part) = InBase(10, Digits, part.value)
    BY <1>7 DEF Given
  <2>2. part.value \in Nat /\ part.value > 0
    <3>1. part.value \in V
      BY <1>1, <1>7
    <3>2. PICK n \in Nat : n = part.value
      BY <3>1
    <3>3. n # 0
      BY <1>7, <3>2
    <3> QED
      BY <3>2, <3>3
  <2>3. /\ Decimals(Given(part)) /\ Len(Given(part)) \in Nat /\ Len(Given(part)) > 0
        /\ Given(part)[1] # "0" /\ ReadIn(10, Digits, Given(part)) = part.value
    BY <2>1, <2>2, Written10
  <2>4. Given(part) \in Seq(Ascii)
    BY <2>3 DEF Decimals
  <2> QED
    BY <1>7, <2>3, <2>4
<1> QED
  BY <1>1, <1>5, <1>6, <1>7

(* What stands there for an item is a sequence of characters. *)
LEMMA PiecesWritten ==
  ASSUME NEW item \in Items, Directive(item)
  PROVE  /\ Marks(item) \in Seq(Ascii) /\ Given(item.width) \in Seq(Ascii)
         /\ Given(item.precision) \in Seq(Ascii)
         /\ Point(item) \in Seq(Ascii) /\ item.qualifier \in Seq(Ascii)
         /\ Closing(item) \in Seq(Ascii) /\ <<"%">> \in Seq(Ascii) /\ <<".">> \in Seq(Ascii)
<1>1. /\ item.flags \in SUBSET Flags
      /\ item.width \in Parts(Nat \ {0}) /\ item.precision \in Parts(Nat)
      /\ item.qualifier = <<>> \/ \E q \in Qualifiers : item.qualifier = <<q>>
      /\ \/ item.conversion \in Numeric
         \/ item.conversion \in Conversions \ Numeric
  BY ItemIs
<1>2. Marks(item) \in Seq(Ascii)
  BY <1>1, FlagsListed DEF Marks
<1>3. Given(item.width) \in Seq(Ascii) /\ Given(item.precision) \in Seq(Ascii)
  <2>1. Nat \ {0} \in SUBSET Nat /\ Nat \in SUBSET Nat
    OBVIOUS
  <2> QED
    BY <1>1, <2>1, GivenIs
<1>4. Qualifiers \cup Numeric \cup {"%", "."} \subseteq Ascii
  BY PrintfAssumption DEF Takers
<1>5. <<"%">> \in Seq(Ascii) /\ <<".">> \in Seq(Ascii)
  BY <1>4
<1>6. Point(item) \in Seq(Ascii)
  BY <1>3, <1>5 DEF Point
<1>7. item.qualifier \in Seq(Ascii)
  <2>1. CASE item.qualifier = <<>>
    BY <2>1
  <2>2. ASSUME NEW q \in Qualifiers, item.qualifier = <<q>> PROVE item.qualifier \in Seq(Ascii)
    BY <1>4, <2>2
  <2> QED
    BY <1>1, <2>1, <2>2
<1>8. Closing(item) \in Seq(Ascii)
  <2>1. item.conversion \in Ascii
    BY <1>1, <1>4 DEF Conversions
  <2> QED
    BY <2>1 DEF Closing
<1> QED
  BY <1>2, <1>3, <1>5, <1>6, <1>7, <1>8

(* s stands in the format after the first p characters. *)
Stands(p, s) ==
  /\ p \in Nat /\ Len(s) \in Nat /\ p + Len(s) <= Len(format)
  /\ \A x \in 1 .. Len(s) : format[p + x] = s[x]

(* What is put together stands there one part after the other. *)
LEMMA ComeApart ==
  ASSUME NEW p \in Nat, NEW s \in Seq(Ascii), NEW t \in Seq(Ascii), Len(format) \in Nat,
         Stands(p, s \o t)
  PROVE  Stands(p, s) /\ Stands(p + Len(s), t)
<1> DEFINE T == Seq(Ascii)
<1>1. \A u, v \in T : /\ Len(u) \in Nat /\ Len(v) \in Nat /\ Len(u \o v) = Len(u) + Len(v)
                      /\ \A x \in 1 .. Len(u) : (u \o v)[x] = u[x]
                      /\ \A x \in 1 .. Len(v) : (u \o v)[Len(u) + x] = v[x]
  OBVIOUS
<1> DEFINE w == s \o t
<1>2. PICK m \in Nat, n \in Nat, l \in Nat : m = Len(s) /\ n = Len(t) /\ l = Len(format)
  <2>1. Len(s) \in Nat /\ Len(t) \in Nat
    OBVIOUS
  <2> QED
    BY <2>1
<1>3. /\ Len(w) = m + n /\ \A x \in 1 .. m : w[x] = s[x]
      /\ \A x \in 1 .. n : w[m + x] = t[x]
  BY <1>1, <1>2
<1> HIDE DEF w
<1>4. p + (m + n) <= l /\ \A x \in 1 .. (m + n) : format[p + x] = w[x]
  <2>1. Stands(p, w)
    BY DEF w
  <2> QED
    BY <1>2, <1>3, <2>1 DEF Stands
<1>5. p + m <= l /\ \A x \in 1 .. m : format[p + x] = s[x]
  <2>1. p + m <= l
    BY <1>4
  <2>2. \A x \in 1 .. m : x \in 1 .. (m + n)
    OBVIOUS
  <2> QED
    BY <1>3, <1>4, <2>1, <2>2
<1>6. p + m \in Nat /\ (p + m) + n <= l /\ \A x \in 1 .. n : format[(p + m) + x] = t[x]
  <2>1. p + m \in Nat /\ (p + m) + n <= l
    BY <1>4
  <2>2. \A x \in 1 .. n : m + x \in 1 .. (m + n) /\ p + (m + x) = (p + m) + x
    OBVIOUS
  <2> QED
    BY <1>3, <1>4, <2>1, <2>2
<1>7. Stands(p, s)
  BY <1>2, <1>5 DEF Stands
<1>8. Stands(p + m, t)
  BY <1>2, <1>6 DEF Stands
<1> QED
  BY <1>2, <1>7, <1>8

(* Where the parts of a directive end that begins after p characters. *)
AfterMarks(p, item) == p + 1 + Len(Marks(item))
AfterWidth(p, item) == AfterMarks(p, item) + Len(Given(item.width))
AfterPoint(p, item) == AfterWidth(p, item) + Len(Point(item))
AfterQualifier(p, item) == AfterPoint(p, item) + Len(item.qualifier)

Spelt(p, item) ==
  /\ Stands(p, <<"%">>) /\ Stands(p + 1, Marks(item))
  /\ Stands(AfterMarks(p, item), Given(item.width)) /\ Stands(AfterWidth(p, item), Point(item))
  /\ Stands(AfterPoint(p, item), item.qualifier)
  /\ Stands(AfterQualifier(p, item), Closing(item))
  /\ p + Len(Written(item)) = AfterQualifier(p, item) + Len(Closing(item))

(* The parts of a directive, each where the one before it ends. *)
LEMMA Spelling ==
  ASSUME NEW item \in Items, Directive(item), NEW p \in Nat, Len(format) \in Nat,
         Stands(p, Written(item))
  PROVE  Spelt(p, item)
<1> DEFINE T == Seq(Ascii)
<1>1. PICK h \in T, m \in T, g \in T, o \in T, q \in T, c \in T :
        /\ h = <<"%">> /\ m = Marks(item) /\ g = Given(item.width) /\ o = Point(item)
        /\ q = item.qualifier /\ c = Closing(item)
  BY PiecesWritten
<1>2. Written(item) = h \o m \o g \o o \o q \o c
  BY <1>1 DEF Written, Marks, Point, Closing
<1>3. \A u, v \in T : u \o v \in T /\ Len(u \o v) = Len(u) + Len(v)
  OBVIOUS
<1>4. \A u \in T : Len(u) \in Nat
  OBVIOUS
<1>5. Len(h) = 1
  BY <1>1
<1>6. \A u, v \in T, r \in Nat : Stands(r, u \o v) => Stands(r, u) /\ Stands(r + Len(u), v)
  BY ComeApart
<1> HIDE DEF T
<1>7. PICK nm \in Nat, ng \in Nat, no \in Nat, nq \in Nat, nc \in Nat :
        /\ nm = Len(m) /\ ng = Len(g) /\ no = Len(o) /\ nq = Len(q) /\ nc = Len(c)
  BY <1>4
<1>8. PICK a \in T : a = h \o m /\ Len(a) = 1 + nm
  <2>1. h \o m \in T /\ Len(h \o m) = Len(h) + Len(m)
    BY <1>3
  <2> QED
    BY <1>5, <1>7, <2>1
<1>9. PICK b \in T : b = a \o g /\ Len(b) = (1 + nm) + ng
  <2>1. a \o g \in T /\ Len(a \o g) = Len(a) + Len(g)
    BY <1>3
  <2> QED
    BY <1>7, <1>8, <2>1
<1>10. PICK d \in T : d = b \o o /\ Len(d) = ((1 + nm) + ng) + no
  <2>1. b \o o \in T /\ Len(b \o o) = Len(b) + Len(o)
    BY <1>3
  <2> QED
    BY <1>7, <1>9, <2>1
<1>11. PICK e \in T : e = d \o q /\ Len(e) = (((1 + nm) + ng) + no) + nq
  <2>1. d \o q \in T /\ Len(d \o q) = Len(d) + Len(q)
    BY <1>3
  <2> QED
    BY <1>7, <1>10, <2>1
<1>12. Stands(p, e \o c) /\ Len(Written(item)) = Len(e) + nc
  <2>1. Written(item) = e \o c
    BY <1>2, <1>8, <1>9, <1>10, <1>11
  <2> QED
    BY <1>3, <1>7, <2>1
<1>13. Stands(p, e) /\ Stands(p + Len(e), c)
  BY <1>6, <1>12
<1>14. Stands(p, d) /\ Stands(p + Len(d), q)
  BY <1>6, <1>11, <1>13
<1>15. Stands(p, b) /\ Stands(p + Len(b), o)
  BY <1>6, <1>10, <1>14
<1>16. Stands(p, a) /\ Stands(p + Len(a), g)
  BY <1>6, <1>9, <1>15
<1>17. Stands(p, h) /\ Stands(p + 1, m)
  BY <1>5, <1>6, <1>8, <1>16
<1>18. /\ AfterMarks(p, item) = p + 1 + nm /\ AfterWidth(p, item) = p + 1 + nm + ng
       /\ AfterPoint(p, item) = p + 1 + nm + ng + no
       /\ AfterQualifier(p, item) = p + 1 + nm + ng + no + nq
  BY <1>1, <1>7 DEF AfterMarks, AfterWidth, AfterPoint, AfterQualifier
<1>19. /\ p + Len(a) = p + 1 + nm /\ p + Len(b) = p + 1 + nm + ng
       /\ p + Len(d) = p + 1 + nm + ng + no /\ p + Len(e) = p + 1 + nm + ng + no + nq
  BY <1>8, <1>9, <1>10, <1>11
<1>20. p + Len(Written(item)) = (p + 1 + nm + ng + no + nq) + nc
  <2>1. Len(e) \in Nat
    BY <1>11
  <2>2. p + (Len(e) + nc) = (p + Len(e)) + nc
    BY <2>1
  <2> QED
    BY <1>12, <1>19, <2>2
<1> QED
  BY <1>1, <1>7, <1>13, <1>14, <1>15, <1>16, <1>17, <1>18, <1>19, <1>20 DEF Spelt

(* A character that stands there is the next one vsprintf reads. *)
LEMMA CharacterThere ==
  ASSUME NEW p, NEW s, Stands(p, s), Len(format) \in Nat
  PROVE  \A x \in 1 .. Len(s) : CharAt(p + x) = s[x] /\ p + x <= Len(format)
<1>1. PICK l \in Nat, n \in Nat : l = Len(format) /\ n = Len(s)
  BY DEF Stands
<1>2. p \in Nat /\ p + n <= l /\ \A x \in 1 .. n : format[p + x] = s[x]
  BY <1>1 DEF Stands
<1>3. \A x \in 1 .. n : p + x <= l
  BY <1>2
<1> QED
  BY <1>1, <1>2, <1>3 DEF CharAt

(* skip_atoi reads the digits that stand there, to the last. *)
LEMMA DigitsRead ==
  ASSUME NEW p, NEW s, Stands(p, s), Decimals(s), format \in Seq(Ascii),
         ~IsDigit(CharAt((p + Len(s)) + 1))
  PROVE  After(p + 1) = (p + Len(s)) + 1 /\ Atoi(p + 1) = ReadIn(10, Digits, s)
<1>1. PICK l \in Nat, n \in Nat : l = Len(format) /\ n = Len(s)
  BY DEF Stands
<1>2. p \in Nat /\ p + n <= l
  BY <1>1 DEF Stands
<1> DEFINE e == (p + n) + 1
           Is(q) == ~IsDigit(CharAt(q)) /\ \A i \in (p + 1) .. (q - 1) : IsDigit(format[i])
<1>3. \A x \in 1 .. n : /\ format[p + x] = s[x] /\ IsDigit(s[x]) /\ p + x <= l
                        /\ CharAt(p + x) = s[x]
  BY <1>1, CharacterThere DEF Stands, Decimals
<1>4. e \in (p + 1) .. (l + 1) /\ Is(e)
  <2>1. e \in (p + 1) .. (l + 1) /\ e - 1 = p + n
    BY <1>2
  <2>2. ASSUME NEW i \in (p + 1) .. (p + n) PROVE IsDigit(format[i])
    <3>1. i - p \in 1 .. n /\ p + (i - p) = i
      BY <1>2
    <3> QED
      BY <1>3, <3>1
  <2> QED
    BY <1>1, <2>1, <2>2
<1>5. ASSUME NEW q \in (p + 1) .. (l + 1), Is(q) PROVE q = e
  <2>1. CASE q < e
    <3>1. q - p \in 1 .. n /\ p + (q - p) = q
      BY <1>2, <2>1
    <3>2. IsDigit(CharAt(q))
      BY <1>3, <3>1
    <3> QED
      BY <1>5, <3>2
  <2>2. CASE q > e
    <3>1. e \in (p + 1) .. (q - 1) /\ e <= l
      BY <1>2, <2>2
    <3>2. IsDigit(format[e]) /\ CharAt(e) = format[e]
      BY <1>1, <1>5, <3>1 DEF CharAt
    <3> QED
      BY <1>4, <3>2
  <2> QED
    BY <1>2, <2>1, <2>2
<1> HIDE DEF e
<1>6. (CHOOSE q \in (p + 1) .. (l + 1) : Is(q)) = e
  <2> HIDE DEF Is
  <2> QED
    BY <1>4, <1>5, Zenon
<1>7. After(p + 1) = e
  BY <1>1, <1>6, Zenon DEF After
<1>8. SubSeq(format, p + 1, e - 1) = s
  <2>1. p + 1 \in Nat /\ e - 1 = p + n /\ p + n \in Nat /\ s \in Seq(Ascii)
    BY <1>2 DEF e, Decimals
  <2>2. \A i \in (p + 1) .. (p + n) : i \in 1 .. Len(format)
    BY <1>1, <1>2
  <2>3. /\ SubSeq(format, p + 1, p + n) \in Seq(Ascii)
        /\ Len(SubSeq(format, p + 1, p + n)) =
             IF p + 1 <= p + n THEN (p + n) - (p + 1) + 1 ELSE 0
        /\ \A i \in 1 .. ((p + n) - (p + 1) + 1) :
             SubSeq(format, p + 1, p + n)[i] = format[(p + 1) + i - 1]
    BY <2>1, <2>2, SubSeqProperties
  <2>4. (p + n) - (p + 1) + 1 = n /\ (~(p + 1 <= p + n) => n = 0)
    BY <1>2
  <2>5. \A i \in 1 .. n : (p + 1) + i - 1 = p + i
    BY <1>2
  <2>6. PICK t \in Seq(Ascii) : t = SubSeq(format, p + 1, p + n)
    BY <2>3
  <2>7. Len(t) = n
    BY <2>3, <2>4, <2>6
  <2>8. \A i \in 1 .. n : t[i] = s[i]
    BY <1>3, <2>3, <2>4, <2>5, <2>6
  <2>9. t = s
    BY <1>1, <2>1, <2>7, <2>8
  <2> QED
    BY <2>1, <2>6, <2>9
<1>9. Atoi(p + 1) = ReadIn(10, Digits, s)
  BY <1>7, <1>8, Zenon DEF Atoi
<1> QED
  BY <1>1, <1>7, <1>9 DEF e

(* What may end a number or a part of a directive. *)
Ends(c) == c \notin Flags /\ ~IsDigit(c) /\ c # "*" /\ c # "."

(* What comes after a number does not go on with it. *)
LEMMA Enders ==
  ASSUME NEW item \in Items, Directive(item)
  PROVE  /\ Ends(item.conversion) /\ item.conversion \notin Qualifiers
         /\ \A q \in Qualifiers : Ends(q)
<1>1. item.conversion \in Numeric \/ item.conversion \in Conversions
  BY ItemIs
<1>2. \A c \in Qualifiers \cup Numeric : Ends(c)
  BY DigitChars DEF Ends, Flags, Qualifiers, Numeric
<1>3. \A c \in Numeric : c \notin Qualifiers
  BY DEF Qualifiers, Numeric
<1>4. \A c \in Conversions : Ends(c) /\ c \notin Qualifiers
  BY DEF Conversions, Ends, IsDigit
<1> QED
  BY <1>1, <1>2, <1>3, <1>4

(* What vsprintf meets at the parts of a directive. *)
ConversionHere(p, item) ==
  /\ CharAt(AfterQualifier(p, item) + 1) = item.conversion
  /\ Ends(item.conversion)
QualifierHere(p, item) ==
  LET c == CharAt(AfterPoint(p, item) + 1)
  IN  /\ AfterQualifier(p, item) = AfterPoint(p, item) + (IF c \in Qualifiers THEN 1 ELSE 0)
      /\ Ends(c)
PrecisionHere(p, item) ==
  LET q == AfterWidth(p, item)
  IN  IF item.precision.form = "none" THEN Ends(CharAt(q + 1)) /\ AfterPoint(p, item) = q
      ELSE /\ CharAt(q + 1) = "."
           /\ IF item.precision.value = 0
              THEN Ends(CharAt(q + 2)) /\ AfterPoint(p, item) = q + 1
              ELSE /\ IsDigit(CharAt(q + 2)) /\ After(q + 2) = AfterPoint(p, item) + 1
                   /\ Atoi(q + 2) = item.precision.value
WidthHere(p, item) ==
  LET q == AfterMarks(p, item)
      c == CharAt(q + 1)
  IN  /\ c \notin Flags
      /\ item.width.form = "none" => ~IsDigit(c) /\ c # "*" /\ AfterWidth(p, item) = q
      /\ item.width.form = "star" => ~IsDigit(c) /\ c = "*" /\ AfterWidth(p, item) = q + 1
      /\ item.width.form = "digits" =>
           /\ IsDigit(c) /\ After(q + 1) = AfterWidth(p, item) + 1
           /\ Atoi(q + 1) = item.width.value

(* A flag that stands there is one. *)
LEMMA Marked ==
  ASSUME NEW p, NEW item, Spelt(p, item), Len(format) \in Nat
  PROVE  /\ p \in Nat /\ AfterMarks(p, item) \in Nat /\ AfterWidth(p, item) \in Nat
         /\ AfterPoint(p, item) \in Nat /\ AfterQualifier(p, item) \in Nat
         /\ Len(Marks(item)) \in Nat /\ AfterMarks(p, item) = p + 1 + Len(Marks(item))
         /\ CharAt(p + 1) = "%"
         /\ \A i \in 1 .. Len(Marks(item)) : CharAt((p + 1) + i) = Marks(item)[i]
<1>1. Stands(p, <<"%">>) /\ Stands(p + 1, Marks(item))
  BY DEF Spelt
<1>2. /\ p \in Nat /\ AfterMarks(p, item) \in Nat /\ AfterWidth(p, item) \in Nat
      /\ AfterPoint(p, item) \in Nat /\ AfterQualifier(p, item) \in Nat
      /\ Len(Marks(item)) \in Nat
  BY DEF Spelt, Stands
<1>3. CharAt(p + 1) = "%"
  <2>1. Len(<<"%">>) = 1 /\ <<"%">>[1] = "%" /\ 1 \in 1 .. 1
    OBVIOUS
  <2>2. \A x \in 1 .. Len(<<"%">>) : CharAt(p + x) = <<"%">>[x]
    BY <1>1, CharacterThere, Zenon
  <2> QED
    BY <2>1, <2>2
<1>4. \A i \in 1 .. Len(Marks(item)) : CharAt((p + 1) + i) = Marks(item)[i]
  BY <1>1, CharacterThere, Zenon
<1> QED
  BY <1>2, <1>3, <1>4 DEF AfterMarks

(* Where the conversion is due, vsprintf meets it. *)
LEMMA ConversionThere ==
  ASSUME NEW item \in Items, Directive(item), NEW p, Spelt(p, item), Len(format) \in Nat,
         item.conversion = NUL => p + Len(Written(item)) = Len(format)
  PROVE  ConversionHere(p, item)
<1>1. PICK q \in Nat : q = AfterQualifier(p, item)
  BY Marked
<1>2. Stands(q, Closing(item)) /\ p + Len(Written(item)) = q + Len(Closing(item))
  BY <1>1 DEF Spelt
<1>3. Ends(item.conversion)
  BY Enders
<1>4. CASE item.conversion = NUL
  <2>1. Closing(item) = <<>>
    BY <1>4 DEF Closing
  <2>2. Len(Closing(item)) = 0
    BY <2>1
  <2>3. Len(format) = q
    BY <1>1, <1>2, <1>4, <2>2
  <2>4. CharAt(q + 1) = NUL
    BY <1>1, <2>3 DEF CharAt
  <2> QED
    BY <1>1, <1>3, <1>4, <2>4 DEF ConversionHere
<1>5. CASE item.conversion # NUL
  <2>1. Closing(item) = <<item.conversion>>
    BY <1>5 DEF Closing
  <2>2. Len(Closing(item)) = 1 /\ Closing(item)[1] = item.conversion
    BY <2>1
  <2>3. \A x \in 1 .. Len(Closing(item)) : CharAt(q + x) = Closing(item)[x]
    BY <1>2, CharacterThere, Zenon
  <2>4. CharAt(q + 1) = item.conversion
    BY <2>2, <2>3
  <2> QED
    BY <1>1, <1>3, <2>4 DEF ConversionHere
<1> QED
  BY <1>4, <1>5

(* Where a qualifier is due, vsprintf meets it or what comes then. *)
LEMMA QualifierThere ==
  ASSUME NEW item \in Items, Directive(item), NEW p, Spelt(p, item), Len(format) \in Nat,
         ConversionHere(p, item)
  PROVE  QualifierHere(p, item)
<1>1. PICK q \in Nat : q = AfterPoint(p, item)
  BY Marked
<1>2. Stands(q, item.qualifier)
  BY <1>1 DEF Spelt
<1>3. AfterQualifier(p, item) = q + Len(item.qualifier)
  BY <1>1 DEF AfterQualifier
<1>4. item.qualifier = <<>> \/ \E c \in Qualifiers : item.qualifier = <<c>>
  BY ItemIs
<1>5. item.conversion \notin Qualifiers /\ Ends(item.conversion) /\ \A c \in Qualifiers : Ends(c)
  BY Enders
<1>6. CASE item.qualifier = <<>>
  <2>1. Len(item.qualifier) = 0
    BY <1>6
  <2>2. AfterQualifier(p, item) = q
    BY <1>1, <1>3, <2>1
  <2>3. CharAt(q + 1) = item.conversion
    BY <2>2 DEF ConversionHere
  <2>4. q = q + 0
    BY <1>1
  <2> QED
    BY <1>1, <1>5, <2>2, <2>3, <2>4 DEF QualifierHere
<1>7. ASSUME NEW c \in Qualifiers, item.qualifier = <<c>> PROVE QualifierHere(p, item)
  <2>1. Len(item.qualifier) = 1 /\ item.qualifier[1] = c
    BY <1>7
  <2>2. \A x \in 1 .. Len(item.qualifier) : CharAt(q + x) = item.qualifier[x]
    BY <1>2, CharacterThere, Zenon
  <2>3. CharAt(q + 1) = c /\ AfterQualifier(p, item) = q + 1
    BY <1>3, <2>1, <2>2
  <2> QED
    BY <1>1, <1>5, <2>3 DEF QualifierHere
<1> QED
  BY <1>4, <1>6, <1>7

(* Where a precision is due, vsprintf meets it or what comes then. *)
LEMMA PrecisionThere ==
  ASSUME NEW item \in Items, Directive(item), item.precision.form # "star",
         NEW p, Spelt(p, item), format \in Seq(Ascii), QualifierHere(p, item)
  PROVE  PrecisionHere(p, item)
<1>0. Len(format) \in Nat
  OBVIOUS
<1>1. PICK q \in Nat : q = AfterWidth(p, item)
  BY <1>0, Marked
<1>2. Stands(q, Point(item)) /\ AfterPoint(p, item) = q + Len(Point(item))
  BY <1>1 DEF Spelt, AfterPoint
<1>3. Ends(CharAt(AfterPoint(p, item) + 1))
  BY DEF QualifierHere
<1>4. CASE item.precision.form = "none"
  <2>1. Point(item) = <<>>
    BY <1>4 DEF Point
  <2>2. Len(Point(item)) = 0
    BY <2>1
  <2>3. AfterPoint(p, item) = q
    BY <1>1, <1>2, <2>2
  <2> QED
    BY <1>1, <1>3, <1>4, <2>3 DEF PrecisionHere
<1>5. CASE item.precision.form # "none"
  <2> DEFINE g == Given(item.precision)
  <2>1. item.precision.form = "digits" /\ item.precision.value \in Nat
    <3>1. item.precision \in Parts(Nat)
      BY ItemIs
    <3> QED
      BY <1>5, <3>1, PartIs
  <2>2. /\ g \in Seq(Ascii) /\ Len(g) \in Nat /\ (item.precision.value = 0 => Len(g) = 0)
        /\ item.precision.value # 0 => /\ Decimals(g) /\ Len(g) > 0
                                       /\ ReadIn(10, Digits, g) = item.precision.value
    <3>1. item.precision \in Parts(Nat) /\ Nat \in SUBSET Nat
      BY ItemIs
    <3> QED
      BY <2>1, <3>1, GivenIs
  <2>3. Point(item) = <<".">> \o g /\ <<".">> \in Seq(Ascii) /\ Len(<<".">>) = 1 /\ <<".">>[1] = "."
    BY <1>5, PiecesWritten DEF Point
  <2> HIDE DEF g
  <2>4. Stands(q, <<".">>) /\ Stands(q + 1, g)
    <3>1. Stands(q, <<".">> \o g)
      BY <1>2, <2>3
    <3>2. Stands(q, <<".">>) /\ Stands(q + Len(<<".">>), g)
      BY <1>0, <2>2, <2>3, <3>1, ComeApart
    <3> QED
      BY <2>3, <3>2
  <2>5. CharAt(q + 1) = "."
    <3>1. \A x \in 1 .. Len(<<".">>) : CharAt(q + x) = <<".">>[x]
      BY <1>0, <2>4, CharacterThere, Zenon
    <3> QED
      BY <2>3, <3>1
  <2>6. PICK n \in Nat : n = Len(g)
    BY <2>2
  <2>7. AfterPoint(p, item) = (q + 1) + n
    <3>1. \A s, t \in Seq(Ascii) : Len(s \o t) = Len(s) + Len(t)
      OBVIOUS
    <3>2. Len(Point(item)) = Len(<<".">>) + Len(g)
      BY <2>2, <2>3, <3>1
    <3>3. Len(Point(item)) = 1 + n
      BY <2>3, <2>6, <3>2
    <3>4. AfterPoint(p, item) = q + (1 + n)
      BY <1>2, <3>3
    <3>5. q + (1 + n) = (q + 1) + n
      BY <1>1, <2>6
    <3> QED
      BY <3>4, <3>5
  <2>8. (q + 1) + 1 = q + 2 /\ (q + 1) + 0 = q + 1
    BY <1>1
  <2>9. CASE item.precision.value = 0
    <3>1. AfterPoint(p, item) = q + 1
      BY <2>2, <2>6, <2>7, <2>8, <2>9
    <3>2. Ends(CharAt(q + 2))
      BY <1>3, <2>8, <3>1
    <3> QED
      BY <1>1, <1>5, <2>5, <2>9, <3>1, <3>2 DEF PrecisionHere
  <2>10. CASE item.precision.value # 0
    <3>1. Decimals(g) /\ n > 0 /\ ReadIn(10, Digits, g) = item.precision.value
      BY <2>2, <2>6, <2>10
    <3>2. ~IsDigit(CharAt(((q + 1) + Len(g)) + 1))
      BY <1>3, <2>6, <2>7 DEF Ends
    <3>3. After((q + 1) + 1) = ((q + 1) + Len(g)) + 1 /\ Atoi((q + 1) + 1) = ReadIn(10, Digits, g)
      BY <2>4, <3>1, <3>2, DigitsRead, Zenon
    <3>4. IsDigit(CharAt(q + 2))
      <4>1. \A x \in 1 .. Len(g) : CharAt((q + 1) + x) = g[x]
        BY <1>0, <2>4, CharacterThere, Zenon
      <4>2. 1 \in 1 .. Len(g) /\ IsDigit(g[1])
        BY <2>6, <3>1 DEF Decimals
      <4> QED
        BY <2>8, <4>1, <4>2
    <3>5. After(q + 2) = AfterPoint(p, item) + 1 /\ Atoi(q + 2) = item.precision.value
      BY <2>6, <2>7, <2>8, <3>1, <3>3
    <3> QED
      BY <1>1, <1>5, <2>5, <2>10, <3>4, <3>5 DEF PrecisionHere
  <2> QED
    BY <2>9, <2>10
<1> QED
  BY <1>4, <1>5

(* Where a width is due, vsprintf meets it or what comes then. *)
LEMMA WidthThere ==
  ASSUME NEW item \in Items, Directive(item),
         NEW p, Spelt(p, item), format \in Seq(Ascii), PrecisionHere(p, item)
  PROVE  WidthHere(p, item)
<1>0. Len(format) \in Nat
  OBVIOUS
<1> DEFINE g == Given(item.width)
           form == item.width.form
<1>1. PICK q \in Nat : q = AfterMarks(p, item)
  BY <1>0, Marked
<1>2. Stands(q, g) /\ AfterWidth(p, item) = q + Len(g)
  BY <1>1 DEF Spelt, AfterWidth
<1>3. LET c == CharAt(AfterWidth(p, item) + 1) IN c \notin Flags /\ ~IsDigit(c) /\ c # "*"
  <2>1. "." \notin Flags /\ ~IsDigit(".") /\ "." # "*"
    BY DigitChars DEF Flags
  <2> QED
    BY <2>1 DEF PrecisionHere, Ends
<1>4. /\ g \in Seq(Ascii) /\ Len(g) \in Nat
      /\ form = "star" => Len(g) = 1 /\ g[1] = "*"
      /\ form = "none" => Len(g) = 0
      /\ form = "digits" => /\ Decimals(g) /\ Len(g) > 0 /\ g[1] # "0"
                            /\ ReadIn(10, Digits, g) = item.width.value
      /\ form \in {"none", "digits", "star"}
  <2>1. item.width \in Parts(Nat \ {0}) /\ Nat \ {0} \in SUBSET Nat
    BY ItemIs
  <2>2. \/ form = "none" \/ form = "star"
        \/ form = "digits" /\ item.width.value \in Nat \ {0}
    BY <2>1, PartIs
  <2>3. form = "digits" => item.width.value # 0
    BY <2>2
  <2> QED
    BY <2>1, <2>2, <2>3, GivenIs
<1> HIDE DEF g, form
<1>5. PICK n \in Nat : n = Len(g)
  BY <1>4
<1>6. \A x \in 1 .. n : CharAt(q + x) = g[x]
  BY <1>0, <1>2, <1>5, CharacterThere, Zenon
<1>7. CASE form = "none"
  <2>1. AfterWidth(p, item) = q
    BY <1>1, <1>2, <1>4, <1>7
  <2> QED
    BY <1>1, <1>3, <1>7, <2>1 DEF WidthHere, form
<1>8. CASE form = "star"
  <2>1. AfterWidth(p, item) = q + 1 /\ CharAt(q + 1) = "*"
    BY <1>2, <1>4, <1>5, <1>6, <1>8
  <2>2. "*" \notin Flags /\ ~IsDigit("*")
    BY DigitChars DEF Flags
  <2> QED
    BY <1>1, <1>8, <2>1, <2>2 DEF WidthHere, form
<1>9. CASE form = "digits"
  <2>1. Decimals(g) /\ n > 0 /\ g[1] # "0" /\ ReadIn(10, Digits, g) = item.width.value
    BY <1>4, <1>5, <1>9
  <2>2. CharAt(q + 1) = g[1] /\ IsDigit(g[1])
    BY <1>5, <1>6, <2>1 DEF Decimals
  <2>3. g[1] \notin Flags
    <3>1. \A c : IsDigit(c) /\ c # "0" => c \notin Flags
      BY DigitChars DEF Flags
    <3> QED
      BY <2>1, <2>2, <3>1
  <2>4. ~IsDigit(CharAt((q + Len(g)) + 1))
    BY <1>2, <1>3
  <2>5. After(q + 1) = (q + Len(g)) + 1 /\ Atoi(q + 1) = ReadIn(10, Digits, g)
    BY <1>2, <2>1, <2>4, DigitsRead, Zenon
  <2> QED
    BY <1>1, <1>2, <1>9, <2>1, <2>2, <2>3, <2>5 DEF WidthHere, form
<1> QED
  BY <1>4, <1>7, <1>8, <1>9

-----------------------------------------------------------------------------
(* The arguments.                                                           *)

(* What is passed to printf. *)
Values == Int \cup Ascii \cup Strings

(* v is what is left of whole when t of it are taken. *)
Leaves(v, whole, t) ==
  /\ v \in Seq(Values) /\ t \in Nat /\ Len(whole) \in Nat /\ t + Len(v) = Len(whole)
  /\ \A x \in 1 .. Len(v) : v[x] = whole[t + x]

(* An argument taken is the next that is left. *)
LEMMA OneTaken ==
  ASSUME NEW v, NEW whole, NEW t, Leaves(v, whole, t), t < Len(whole)
  PROVE  Head(v) = whole[t + 1] /\ Leaves(Tail(v), whole, t + 1)
<1>1. PICK n \in Nat, l \in Nat : n = Len(v) /\ l = Len(whole)
  BY DEF Leaves
<1>2. v \in Seq(Values) /\ t \in Nat /\ t + n = l /\ \A x \in 1 .. n : v[x] = whole[t + x]
  BY <1>1 DEF Leaves
<1>3. n > 0
  BY <1>1, <1>2
<1>4. v # <<>>
  BY <1>1, <1>3
<1> DEFINE T == Values
<1>5. \A s \in Seq(T) : s # <<>> => /\ Head(s) = s[1] /\ Tail(s) \in Seq(T) /\ Len(Tail(s)) = Len(s) - 1
                                   /\ \A x \in 1 .. (Len(s) - 1) : Tail(s)[x] = s[x + 1]
  OBVIOUS
<1>6. /\ Head(v) = v[1] /\ Tail(v) \in Seq(Values) /\ Len(Tail(v)) = n - 1
      /\ \A x \in 1 .. (n - 1) : Tail(v)[x] = v[x + 1]
  BY <1>1, <1>2, <1>4, <1>5
<1>7. Head(v) = whole[t + 1]
  BY <1>2, <1>3, <1>6
<1>8. \A x \in 1 .. (n - 1) : Tail(v)[x] = whole[(t + 1) + x]
  <2> TAKE x \in 1 .. (n - 1)
  <2>1. x + 1 \in 1 .. n /\ t + (x + 1) = (t + 1) + x
    BY <1>2
  <2> QED
    BY <1>2, <1>6, <2>1
<1>9. (t + 1) + (n - 1) = l /\ t + 1 \in Nat
  BY <1>2
<1> QED
  BY <1>1, <1>6, <1>7, <1>8, <1>9 DEF Leaves

(* What is passed for a width or a precision. *)
LEMMA PassedIs ==
  ASSUME NEW V, NEW part \in Parts(V)
  PROVE  /\ Passed(part) \in Seq(Values)
         /\ IF part.form = "star" THEN Passed(part) = <<part.value>> /\ part.value \in Int
            ELSE Passed(part) = <<>>
<1>1. part.form = "star" => part.value \in Int
  BY PartIs
<1>2. CASE part.form = "star"
  BY <1>1, <1>2 DEF Passed, Values
<1>3. CASE part.form # "star"
  BY <1>3 DEF Passed
<1> QED
  BY <1>2, <1>3

(* The argument that a conversion takes. *)
Argument(item) ==
  IF item.conversion \in Numeric THEN item.value
  ELSE IF item.conversion = "c" THEN item.text[1] ELSE item.text

(* The argument taken for a conversion is the one passed for it. *)
LEMMA TakenIs ==
  ASSUME NEW item \in Items, Directive(item)
  PROVE  /\ Taken(item) \in Seq(Values)
         /\ IF item.conversion \in Takers THEN Taken(item) = <<Argument(item)>>
            ELSE Taken(item) = <<>>
<1>1. \/ item.conversion \in Numeric /\ item.value \in Int
      \/ item.conversion \in Conversions \ Numeric /\ item.text \in Strings
  BY ItemIs
<1>2. {"s", "n", "c"} \cap Numeric = {}
  BY DEF Numeric
<1>3. CASE item.conversion \in Numeric
  <2>1. item.value \in Values
    BY <1>1, <1>3 DEF Values
  <2>2. Taken(item) = <<item.value>>
    BY <1>2, <1>3 DEF Taken
  <2>3. item.conversion \in Takers /\ Argument(item) = item.value
    BY <1>3 DEF Takers, Argument
  <2>4. <<item.value>> \in Seq(Values)
    BY <2>1
  <2> QED
    BY <2>2, <2>3, <2>4
<1>4. CASE item.conversion \in {"s", "n"}
  <2>1. item.text \in Values
    BY <1>1, <1>2, <1>4 DEF Values
  <2>2. Taken(item) = <<item.text>>
    BY <1>2, <1>4 DEF Taken
  <2>3. item.conversion \in Takers /\ Argument(item) = item.text
    BY <1>2, <1>4 DEF Takers, Argument
  <2>4. <<item.text>> \in Seq(Values)
    BY <2>1
  <2> QED
    BY <2>2, <2>3, <2>4
<1>5. CASE item.conversion = "c"
  <2>1. item.text[1] \in Alphabet
    <3>1. item.text \in Strings
      BY <1>1, <1>2, <1>5
    <3>2. PICK t : t = item.text /\ t \in Seq(Alphabet) /\ Len(t) \in Nat /\ Len(t) >= 1
      BY <3>1, StringsEnd
    <3> QED
      BY <3>2
  <2>2. item.text[1] \in Values
    BY <2>1, PrintfAssumption DEF Values
  <2>3. Taken(item) = <<item.text[1]>>
    BY <1>2, <1>5 DEF Taken
  <2>4. item.conversion \in Takers /\ Argument(item) = item.text[1]
    BY <1>2, <1>5 DEF Takers, Argument
  <2>5. <<item.text[1]>> \in Seq(Values)
    BY <2>2
  <2> QED
    BY <2>3, <2>4, <2>5
<1>6. CASE item.conversion \notin Numeric \cup {"s", "n", "c"}
  <2>1. Taken(item) = <<>>
    BY <1>6 DEF Taken
  <2>2. item.conversion \notin Takers
    BY <1>6 DEF Takers
  <2> QED
    BY <2>1, <2>2
<1> QED
  BY <1>3, <1>4, <1>5, <1>6

(* The arguments of an item: those of its stars, then that of its conversion. *)
LEMMA ArgumentsAre ==
  ASSUME NEW item \in Items
  PROVE  /\ Arguments(item) \in Seq(Values)
         /\ ~Directive(item) => Arguments(item) = <<>>
         /\ Directive(item) /\ item.precision.form # "star" =>
              Arguments(item) = Passed(item.width) \o Taken(item)
<1>1. CASE ~Directive(item)
  BY <1>1 DEF Arguments
<1>2. CASE Directive(item)
  <2> DEFINE T == Values
  <2>1. \A s, t \in Seq(T) : s \o t \in Seq(T)
    OBVIOUS
  <2>2. \A s \in Seq(T) : s \o <<>> = s
    OBVIOUS
  <2>3. item.width \in Parts(Nat \ {0}) /\ item.precision \in Parts(Nat)
    BY <1>2, ItemIs
  <2>4. PICK u \in Seq(T), v \in Seq(T), w \in Seq(T) :
          u = Passed(item.width) /\ v = Passed(item.precision) /\ w = Taken(item)
    BY <1>2, <2>3, PassedIs, TakenIs
  <2>5. Arguments(item) = u \o v \o w
    BY <1>2, <2>4 DEF Arguments
  <2>6. item.precision.form # "star" => v = <<>>
    BY <2>3, <2>4, PassedIs
  <2> HIDE DEF T
  <2>7. u \o v \in Seq(T)
    BY <2>1, <2>4
  <2>8. u \o v \o w \in Seq(T)
    BY <2>1, <2>4, <2>7
  <2>9. item.precision.form # "star" => u \o v \o w = u \o w
    BY <2>2, <2>4, <2>6
  <2> QED
    BY <1>2, <2>4, <2>5, <2>8, <2>9 DEF T
<1> QED
  BY <1>1, <1>2

(* What is written for a directive, part by part. *)
LEMMA WrittenIs ==
  ASSUME NEW item \in Items
  PROVE  /\ Written(item) \in Seq(Ascii)
         /\ ~Directive(item) => /\ Len(Written(item)) = 1 /\ Written(item)[1] = item.char
                                /\ item.char \in Ascii /\ item.char # "%" /\ item.char # NUL
<1>1. CASE ~Directive(item)
  <2>1. item.char \in Ascii \ {"%", NUL}
    BY <1>1, ItemIs
  <2>2. Written(item) = <<item.char>>
    BY <1>1 DEF Written
  <2> QED
    BY <2>1, <2>2
<1>2. CASE Directive(item)
  <2> DEFINE T == Seq(Ascii)
  <2>1. PICK h \in T, m \in T, g \in T, o \in T, q \in T, c \in T :
          /\ h = <<"%">> /\ m = Marks(item) /\ g = Given(item.width) /\ o = Point(item)
          /\ q = item.qualifier /\ c = Closing(item)
    BY <1>2, PiecesWritten
  <2>2. Written(item) = h \o m \o g \o o \o q \o c
    BY <1>2, <2>1 DEF Written, Marks, Point, Closing
  <2>3. \A u, v \in T : u \o v \in T
    OBVIOUS
  <2> HIDE DEF T
  <2>4. h \o m \in T
    BY <2>3
  <2>5. h \o m \o g \in T
    BY <2>3, <2>4
  <2>6. h \o m \o g \o o \in T
    BY <2>3, <2>5
  <2>7. h \o m \o g \o o \o q \in T
    BY <2>3, <2>6
  <2>8. h \o m \o g \o o \o q \o c \in T
    BY <2>3, <2>7
  <2> QED
    BY <1>2, <2>2, <2>8 DEF T
<1> QED
  BY <1>1, <1>2

(* The arguments of the item come when t of whole are taken. *)
Owed(whole, t, item) ==
  /\ t \in Nat /\ Len(whole) \in Nat /\ t + Len(Arguments(item)) <= Len(whole)
  /\ \A x \in 1 .. Len(Arguments(item)) : whole[t + x] = Arguments(item)[x]

(* Nothing is owed for what is not a directive. *)
LEMMA NothingOwed ==
  ASSUME NEW item \in Items, ~Directive(item)
  PROVE  Len(Arguments(item)) = 0
<1>1. Arguments(item) = <<>>
  BY ArgumentsAre
<1> QED
  BY <1>1

(* What is due of a directive: its star's argument, then its conversion's. *)
LEMMA Due ==
  ASSUME NEW item \in Items, Directive(item), item.precision.form # "star",
         NEW whole, NEW t, Owed(whole, t, item)
  PROVE  LET u == t + Len(Passed(item.width))
         IN  /\ u \in Nat
             /\ item.width.form = "star" =>
                  /\ u = t + 1 /\ t < Len(whole) /\ whole[t + 1] = item.width.value
                  /\ item.width.value \in Int
             /\ item.width.form # "star" => u = t
             /\ IF item.conversion \in Takers
                THEN /\ t + Len(Arguments(item)) = u + 1 /\ u < Len(whole)
                     /\ whole[u + 1] = Argument(item)
                ELSE t + Len(Arguments(item)) = u
<1> DEFINE T == Values
<1>1. PICK v \in Seq(T), w \in Seq(T) : v = Passed(item.width) /\ w = Taken(item)
  <2>1. item.width \in Parts(Nat \ {0})
    BY ItemIs
  <2> QED
    BY <2>1, PassedIs, TakenIs
<1>2. Arguments(item) = v \o w
  BY <1>1, ArgumentsAre
<1>3. IF item.width.form = "star" THEN v = <<item.width.value>> /\ item.width.value \in Int ELSE v = <<>>
  <2>1. item.width \in Parts(Nat \ {0})
    BY ItemIs
  <2> QED
    BY <1>1, <2>1, PassedIs
<1>4. IF item.conversion \in Takers THEN w = <<Argument(item)>> ELSE w = <<>>
  BY <1>1, TakenIs
<1>5. /\ Len(v \o w) = Len(v) + Len(w) /\ Len(v) \in Nat /\ Len(w) \in Nat
      /\ \A x \in 1 .. Len(v) : (v \o w)[x] = v[x]
      /\ \A x \in 1 .. Len(w) : (v \o w)[Len(v) + x] = w[x]
  OBVIOUS
<1> DEFINE vw == v \o w
<1>6. PICK m \in Nat, n \in Nat, l \in Nat : m = Len(v) /\ n = Len(w) /\ l = Len(whole)
  BY <1>5 DEF Owed
<1>7. /\ Len(vw) = m + n
      /\ \A x \in 1 .. m : vw[x] = v[x]
      /\ \A x \in 1 .. n : vw[m + x] = w[x]
  BY <1>5, <1>6
<1> HIDE DEF vw, T
<1>8. t \in Nat /\ t + (m + n) <= l /\ \A x \in 1 .. (m + n) : whole[t + x] = vw[x]
  <2>1. Arguments(item) = vw
    BY <1>2 DEF vw
  <2> QED
    BY <1>6, <1>7, <2>1 DEF Owed
<1>9. item.width.form = "star" => m = 1 /\ v[1] = item.width.value
  <2>1. CASE item.width.form = "star"
    BY <1>3, <1>6, <2>1
  <2> QED
    BY <2>1
<1>10. item.width.form # "star" => m = 0
  BY <1>3, <1>6
<1>11. IF item.conversion \in Takers THEN n = 1 /\ w[1] = Argument(item) ELSE n = 0
  BY <1>4, <1>6
<1>12. t + Len(Arguments(item)) = (t + m) + n /\ t + m \in Nat
  <2>1. Len(Arguments(item)) = m + n
    BY <1>2, <1>7 DEF vw
  <2> QED
    BY <1>8, <2>1
<1>13. item.width.form = "star" => t < l /\ whole[t + 1] = item.width.value
  <2> SUFFICES ASSUME item.width.form = "star" PROVE t < l /\ whole[t + 1] = item.width.value
    OBVIOUS
  <2>1. m = 1 /\ v[1] = item.width.value
    BY <1>9
  <2>2. t < l /\ 1 \in 1 .. m /\ 1 \in 1 .. (m + n)
    BY <1>8, <2>1
  <2> QED
    BY <1>7, <1>8, <2>1, <2>2
<1>14. item.conversion \in Takers => t + m < l /\ whole[(t + m) + 1] = Argument(item)
  <2> SUFFICES ASSUME item.conversion \in Takers
               PROVE  t + m < l /\ whole[(t + m) + 1] = Argument(item)
    OBVIOUS
  <2>1. n = 1 /\ w[1] = Argument(item)
    BY <1>11
  <2>2. t + m < l /\ 1 \in 1 .. n /\ m + 1 \in 1 .. (m + n) /\ t + (m + 1) = (t + m) + 1
    BY <1>8, <2>1
  <2> QED
    BY <1>7, <1>8, <2>1, <2>2
<1>15. item.width.form # "star" => t + m = t
  BY <1>8, <1>10
<1>16. item.width.form = "star" => t + m = t + 1
  BY <1>9
<1>17. (t + m) + 0 = t + m
  BY <1>8
<1> QED
  BY <1>1, <1>3, <1>6, <1>11, <1>12, <1>13, <1>14, <1>15, <1>16, <1>17

(* The item is written and its arguments are passed where they should be. *)
Reached(p, t, item, whole) ==
  /\ item \in Items /\ Stands(p, Written(item)) /\ Owed(whole, t, item)
  /\ Directive(item) /\ item.conversion = NUL => p + Len(Written(item)) = Len(format)

Legible(p, item) ==
  /\ Spelt(p, item) /\ WidthHere(p, item) /\ PrecisionHere(p, item)
  /\ QualifierHere(p, item) /\ ConversionHere(p, item)

(* A directive that is reached is legible. *)
LEMMA Read ==
  ASSUME NEW p, NEW t, NEW item, NEW whole, Reached(p, t, item, whole), format \in Seq(Ascii),
         Directive(item), item.precision.form # "star"
  PROVE  Legible(p, item)
<1>1. /\ item \in Items /\ p \in Nat /\ Stands(p, Written(item)) /\ Len(format) \in Nat
      /\ item.conversion = NUL => p + Len(Written(item)) = Len(format)
  BY DEF Reached, Stands
<1>2. Spelt(p, item)
  BY <1>1, Spelling
<1>3. ConversionHere(p, item)
  BY <1>1, <1>2, ConversionThere
<1>4. QualifierHere(p, item)
  BY <1>1, <1>2, <1>3, QualifierThere
<1>5. PrecisionHere(p, item)
  BY <1>1, <1>2, <1>4, PrecisionThere
<1>6. WidthHere(p, item)
  BY <1>1, <1>2, <1>5, WidthThere
<1> QED
  BY <1>2, <1>3, <1>4, <1>5, <1>6 DEF Legible

-----------------------------------------------------------------------------
(* A directive, part by part.                                               *)

(* Where vsprintf is inside a directive, and what it has found of it. *)
InFlags(p, item) ==
  \E i \in 0 .. Len(Marks(item)) : pos = (p + 1) + i + 1 /\ flags = {Marks(item)[x] : x \in 1 .. i}
Inside(p, t, item, whole) ==
  /\ stage = "flags" => InFlags(p, item) /\ Leaves(args, whole, t)
  /\ stage \in {"precision", "qualifier", "convert"} =>
       /\ flags = FlagsRead(item) /\ field_width = WidthRead(item)
       /\ Leaves(args, whole, t + Len(Passed(item.width)))
  /\ stage = "precision" => pos = AfterWidth(p, item) + 1
  /\ stage \in {"qualifier", "convert"} => precision = PrecisionRead(item)
  /\ stage = "qualifier" => pos = AfterPoint(p, item) + 1
  /\ stage = "convert" => pos = AfterQualifier(p, item) + 1

(* A flag is read. *)
LEMMA FlagStep ==
  ASSUME NEW p, NEW t, NEW item \in Items, NEW whole, Directive(item), format \in Seq(Ascii),
         Legible(p, item), Inside(p, t, item, whole), Flag
  PROVE  Inside(p, t, item, whole)'
<1>1. /\ stage = "flags" /\ Char \in Flags /\ flags' = flags \cup {Char} /\ pos' = pos + 1
      /\ stage' = stage /\ args' = args
  BY DEF Flag
<1>2. Len(format) \in Nat /\ Spelt(p, item) /\ WidthHere(p, item)
  BY DEF Legible
<1>3. PICK n \in Nat : n = Len(Marks(item))
  BY <1>2, Marked
<1>4. /\ p \in Nat /\ AfterMarks(p, item) = p + 1 + n
      /\ \A i \in 1 .. n : CharAt((p + 1) + i) = Marks(item)[i]
  BY <1>2, <1>3, Marked
<1>5. PICK i \in 0 .. n : pos = (p + 1) + i + 1 /\ flags = {Marks(item)[x] : x \in 1 .. i}
  BY <1>1, <1>3 DEF Inside, InFlags
<1>6. i # n
  <2>1. CharAt(AfterMarks(p, item) + 1) \notin Flags
    BY <1>2 DEF WidthHere
  <2>2. i = n => pos = AfterMarks(p, item) + 1
    BY <1>4, <1>5
  <2> QED
    BY <1>1, <2>1, <2>2 DEF Char
<1>7. i + 1 \in 0 .. n /\ i + 1 \in 1 .. n /\ pos = (p + 1) + (i + 1) /\ pos + 1 = (p + 1) + (i + 1) + 1
  BY <1>4, <1>5, <1>6
<1>8. Char = Marks(item)[i + 1]
  BY <1>4, <1>7 DEF Char
<1>9. flags' = {Marks(item)[x] : x \in 1 .. (i + 1)}
  <2>1. \A x : x \in 1 .. (i + 1) <=> x \in 1 .. i \/ x = i + 1
    BY <1>7
  <2> QED
    BY <1>1, <1>5, <1>8, <2>1
<1>10. InFlags(p, item)'
  BY <1>1, <1>3, <1>7, <1>9 DEF InFlags
<1>11. Leaves(args, whole, t)'
  BY <1>1 DEF Inside
<1> QED
  BY <1>1, <1>10, <1>11 DEF Inside

(* The width is read: none, digits, or in the loader a star. *)
LEMMA WidthStep ==
  ASSUME NEW p, NEW t, NEW item \in Items, NEW whole, Directive(item), format \in Seq(Ascii),
         item.precision.form # "star", Owed(whole, t, item),
         Legible(p, item), Inside(p, t, item, whole),
         NEW star, item.width.form = "star" => star = 1, FieldWidth(star)
  PROVE  Inside(p, t, item, whole)'
<1>1. stage = "flags" /\ Char \notin Flags /\ stage' = "precision"
  BY DEF FieldWidth
<1>2. Len(format) \in Nat /\ Spelt(p, item) /\ WidthHere(p, item)
  BY DEF Legible
<1>3. PICK n \in Nat : n = Len(Marks(item))
  BY <1>2, Marked
<1>4. /\ p \in Nat /\ AfterMarks(p, item) = p + 1 + n /\ AfterWidth(p, item) \in Nat
      /\ \A i \in 1 .. n : CharAt((p + 1) + i) = Marks(item)[i]
  BY <1>2, <1>3, Marked
<1>5. PICK i \in 0 .. n : pos = (p + 1) + i + 1 /\ flags = {Marks(item)[x] : x \in 1 .. i}
  BY <1>1, <1>3 DEF Inside, InFlags
<1>6. /\ item.flags = {Marks(item)[x] : x \in 1 .. n} /\ \A x \in 1 .. n : Marks(item)[x] \in Flags
  <2>1. item.flags \in SUBSET Flags
    BY ItemIs
  <2> QED
    BY <1>3, <2>1, FlagsListed DEF Marks
<1>7. i = n
  <2>1. CASE i < n
    <3>1. i + 1 \in 1 .. n /\ pos = (p + 1) + (i + 1)
      BY <1>3, <1>4, <1>5, <2>1
    <3> QED
      BY <1>1, <1>4, <1>6, <3>1 DEF Char
  <2> QED
    BY <2>1
<1>8. pos = AfterMarks(p, item) + 1 /\ flags = item.flags
  BY <1>4, <1>5, <1>6, <1>7
<1>9. PICK q \in Nat : q = AfterMarks(p, item)
  BY <1>4
<1>10. pos = q + 1 /\ Char = CharAt(q + 1)
  BY <1>8, <1>9 DEF Char
<1>11. /\ item.width.form = "none" => ~IsDigit(Char) /\ Char # "*" /\ AfterWidth(p, item) = q
       /\ item.width.form = "star" => ~IsDigit(Char) /\ Char = "*" /\ AfterWidth(p, item) = q + 1
       /\ item.width.form = "digits" =>
            IsDigit(Char) /\ After(pos) = AfterWidth(p, item) + 1 /\ Atoi(pos) = item.width.value
  BY <1>2, <1>9, <1>10 DEF WidthHere
<1>12. \/ item.width.form = "none"
       \/ item.width.form = "digits" /\ item.width.value \in Nat \ {0}
       \/ item.width.form = "star" /\ item.width.value \in Int
  <2>1. item.width \in Parts(Nat \ {0})
    BY ItemIs
  <2> QED
    BY <2>1, PartIs
<1>13. Leaves(args, whole, t)
  BY <1>1 DEF Inside
<1> DEFINE u == t + Len(Passed(item.width))
<1>14. /\ u \in Nat
       /\ item.width.form = "star" => /\ u = t + 1 /\ t < Len(whole) /\ whole[t + 1] = item.width.value
                                      /\ item.width.value \in Int
       /\ item.width.form # "star" => u = t
  BY Due
<1> HIDE DEF u
<1>15. SUFFICES /\ flags' = FlagsRead(item) /\ field_width' = WidthRead(item)
                /\ Leaves(args', whole, u) /\ pos' = AfterWidth(p, item) + 1
  BY <1>1 DEF Inside, u
<1>16. CASE item.width.form = "none"
  <2>1. ~IsDigit(Char) /\ Char # "*" /\ AfterWidth(p, item) = q
    BY <1>11, <1>16
  <2>2. field_width' = -1 /\ flags' = flags /\ args' = args /\ pos' = pos
    BY <2>1 DEF FieldWidth
  <2>3. FlagsRead(item) = item.flags /\ WidthRead(item) = -1
    BY <1>16 DEF FlagsRead, WidthRead
  <2> QED
    BY <1>8, <1>10, <1>13, <1>14, <1>16, <2>1, <2>2, <2>3
<1>17. CASE item.width.form = "digits"
  <2>1. IsDigit(Char) /\ After(pos) = AfterWidth(p, item) + 1 /\ Atoi(pos) = item.width.value
    BY <1>11, <1>17
  <2>2. field_width' = Atoi(pos) /\ flags' = flags /\ args' = args /\ pos' = After(pos)
    BY <2>1 DEF FieldWidth
  <2>3. PICK w \in Nat : w = item.width.value
    BY <1>12, <1>17
  <2>4. FlagsRead(item) = item.flags
    BY <1>17 DEF FlagsRead
  <2>5. WidthRead(item) = w
    BY <1>17, <2>3 DEF WidthRead
  <2> QED
    BY <1>8, <1>13, <1>14, <1>17, <2>1, <2>2, <2>3, <2>4, <2>5
<1>18. CASE item.width.form = "star"
  <2>1. ~IsDigit(Char) /\ Char = "*" /\ AfterWidth(p, item) = q + 1 /\ star = 1
    BY <1>11, <1>18
  <2>2. Head(args) = whole[t + 1] /\ Leaves(Tail(args), whole, t + 1)
    BY <1>13, <1>14, <1>18, OneTaken
  <2>3. PICK w \in Int : w = Head(args) /\ w = item.width.value
    BY <1>14, <1>18, <2>2
  <2>4. /\ field_width' = IF w < 0 THEN -w ELSE w
        /\ flags' = IF w < 0 THEN flags \cup {"-"} ELSE flags
        /\ args' = Tail(args) /\ pos' = pos + star
    BY <2>1, <2>3 DEF FieldWidth
  <2>5. FlagsRead(item) = IF w < 0 THEN item.flags \cup {"-"} ELSE item.flags
    BY <1>18, <2>3 DEF FlagsRead
  <2>6. WidthRead(item) = IF w < 0 THEN -w ELSE w
    BY <1>18, <2>3 DEF WidthRead
  <2>7. pos' = AfterWidth(p, item) + 1
    BY <1>10, <2>1, <2>4
  <2> QED
    BY <1>8, <1>14, <1>18, <2>2, <2>4, <2>5, <2>6, <2>7
<1> QED
  BY <1>12, <1>16, <1>17, <1>18

(* The precision is read: none, or digits. *)
LEMMA PrecisionStep ==
  ASSUME NEW p, NEW t, NEW item \in Items, NEW whole, Directive(item), format \in Seq(Ascii),
         item.precision.form # "star", Legible(p, item), Inside(p, t, item, whole), Precision
  PROVE  Inside(p, t, item, whole)'
<1>1. /\ stage = "precision" /\ stage' = "qualifier" /\ flags' = flags
      /\ field_width' = field_width
  BY DEF Precision
<1>2. Len(format) \in Nat /\ Spelt(p, item) /\ PrecisionHere(p, item)
  BY DEF Legible
<1>3. PICK q \in Nat : q = AfterWidth(p, item)
  BY <1>2, Marked
<1>4. pos = q + 1 /\ Char = CharAt(q + 1)
  BY <1>1, <1>3 DEF Inside, Char
<1>5. SUFFICES args' = args /\ precision' = PrecisionRead(item) /\ pos' = AfterPoint(p, item) + 1
  BY <1>1 DEF Inside
<1>6. (q + 1) + 1 = q + 2
  BY <1>3
<1>7. CASE item.precision.form = "none"
  <2>1. Char # "." /\ AfterPoint(p, item) = q
    BY <1>2, <1>3, <1>4, <1>7 DEF PrecisionHere, Ends
  <2>2. precision' = -1 /\ args' = args /\ pos' = pos
    BY <2>1 DEF Precision
  <2> QED
    BY <1>4, <1>7, <2>1, <2>2 DEF PrecisionRead
<1>8. CASE item.precision.form # "none" /\ item.precision.value = 0
  <2>1. Char = "." /\ Ends(CharAt(q + 2)) /\ AfterPoint(p, item) = q + 1
    BY <1>2, <1>3, <1>4, <1>8 DEF PrecisionHere
  <2>2. ~IsDigit(CharAt(pos + 1)) /\ CharAt(pos + 1) # "*"
    BY <1>4, <1>6, <2>1 DEF Ends
  <2>3. precision' = 0 /\ args' = args /\ pos' = pos + 1
    BY <2>1, <2>2 DEF Precision
  <2> QED
    BY <1>4, <1>8, <2>1, <2>3 DEF PrecisionRead
<1>9. CASE item.precision.form # "none" /\ item.precision.value # 0
  <2>1. /\ Char = "." /\ IsDigit(CharAt(q + 2)) /\ After(q + 2) = AfterPoint(p, item) + 1
        /\ Atoi(q + 2) = item.precision.value
    BY <1>2, <1>3, <1>4, <1>9 DEF PrecisionHere
  <2>2. precision' = Atoi(pos + 1) /\ args' = args /\ pos' = After(pos + 1)
    BY <1>4, <1>6, <2>1 DEF Precision
  <2> QED
    BY <1>4, <1>6, <1>9, <2>1, <2>2 DEF PrecisionRead
<1> QED
  BY <1>7, <1>8, <1>9

(* The qualifier is read, if there is one. *)
LEMMA QualifierStep ==
  ASSUME NEW p, NEW t, NEW item \in Items, NEW whole, Directive(item), format \in Seq(Ascii),
         Legible(p, item), Inside(p, t, item, whole), Qualifier
  PROVE  Inside(p, t, item, whole)'
<1>1. /\ stage = "qualifier" /\ stage' = "convert" /\ flags' = flags /\ args' = args
      /\ field_width' = field_width /\ precision' = precision
      /\ pos' = IF Char \in Qualifiers THEN pos + 1 ELSE pos
  BY DEF Qualifier, directive
<1>2. Len(format) \in Nat /\ Spelt(p, item) /\ QualifierHere(p, item)
  BY DEF Legible
<1>3. PICK q \in Nat : q = AfterPoint(p, item)
  BY <1>2, Marked
<1>4. pos = q + 1 /\ Char = CharAt(q + 1)
  BY <1>1, <1>3 DEF Inside, Char
<1>5. AfterQualifier(p, item) = q + (IF Char \in Qualifiers THEN 1 ELSE 0)
  BY <1>2, <1>3, <1>4 DEF QualifierHere
<1>6. pos' = AfterQualifier(p, item) + 1
  BY <1>1, <1>3, <1>4, <1>5
<1> QED
  BY <1>1, <1>6 DEF Inside

(* The piece that is put out for a directive is what it asks for. *)
LEMMA PieceIs ==
  ASSUME NEW item \in Items, Directive(item), item.precision.form # "star",
         Char = item.conversion,
         flags = FlagsRead(item), field_width = WidthRead(item), precision = PrecisionRead(item),
         item.conversion \in Takers => Head(args) = Argument(item)
  PROVE  Piece \in Seq(Ascii) /\ PieceRight(item, Piece)
<1> DEFINE c == item.conversion
<1>1. c \in Ascii
  <2>1. c \in Numeric \/ c \in Conversions
    BY ItemIs
  <2> QED
    BY <2>1, PrintfAssumption DEF Conversions, Takers
<1>2. CASE c \in Numeric
  <2>1. WidthRead(item) = -1 <=> item.width.form = "none"
    BY WidthIs
  <2>2. (Char = "p" /\ field_width = -1) <=> Plain(item)
    BY <2>1 DEF Plain
  <2>3. Base = Radix(item)
    BY <1>2 DEF Base, Radix, Numeric
  <2>4. Type = TypeRead(item)
    BY <2>2 DEF Type, TypeRead
  <2>5. Size = SizeRead(item)
    BY <2>2 DEF Size, SizeRead
  <2>6. Head(args) = item.value
    BY <1>2 DEF Takers, Argument
  <2>7. Piece = Number(item.value, Radix(item), SizeRead(item), PrecisionRead(item), TypeRead(item))
    <3>1. Char \in Numeric /\ Char \notin {"c", "s", "n", "%", NUL}
      BY <1>2 DEF Numeric, NUL
    <3>2. Piece = Number(Head(args), Base, Size, precision, Type)
      BY <3>1 DEF Piece
    <3> QED
      BY <2>3, <2>4, <2>5, <2>6, <3>2, Zenon
  <2>8. NumberRight(item, Piece) /\ Piece \in Seq(Ascii)
    BY <1>2, <2>7, Formatted
  <2>9. PieceRight(item, Piece)
    <3>1. c \notin {"c", "s", "n", "%", NUL}
      BY <1>2 DEF Numeric, NUL
    <3> QED
      BY <1>2, <2>8, <3>1 DEF PieceRight
  <2> QED
    BY <2>8, <2>9
<1>3. CASE c \in {"c", "s"}
  <2>1. c \notin Numeric /\ c \in Takers
    BY <1>3 DEF Numeric, Takers
  <2> DEFINE s == IF c = "c" THEN <<item.text[1]>> ELSE Cut(item.text)
  <2>2. Piece = Padded(s)
    <3>1. /\ Char \notin Numeric \cup {"n", "%", NUL}
          /\ Char = "c" => s = <<Head(args)>>
          /\ Char = "s" => s = Cut(Head(args)) /\ Char # "c"
      BY <1>3, <2>1 DEF NUL, Argument
    <3> HIDE DEF s
    <3> QED
      BY <1>3, <3>1 DEF Piece
  <2>3. TextRight(item, Padded(s)) /\ Padded(s) \in Seq(Ascii)
    BY <1>3, Texts
  <2> HIDE DEF s
  <2>4. PieceRight(item, Piece)
    <3>1. c \notin {"n", "%", NUL}
      BY <1>3 DEF NUL
    <3> QED
      BY <1>3, <2>1, <2>2, <2>3, <3>1 DEF PieceRight
  <2> QED
    BY <2>2, <2>3, <2>4
<1>4. CASE c = "n"
  <2>1. c \notin Numeric \cup {"c", "s", "%", NUL}
    BY <1>4 DEF Numeric, NUL
  <2>2. Piece = <<>>
    BY <1>4, <2>1 DEF Piece
  <2>3. PieceRight(item, Piece)
    BY <1>4, <2>1, <2>2 DEF PieceRight
  <2> QED
    BY <2>2, <2>3
<1>5. CASE c \in {"%", NUL}
  <2>1. c \notin Numeric \cup {"c", "s", "n"}
    BY <1>5 DEF Numeric, NUL
  <2>2. Piece = <<"%">>
    BY <1>5, <2>1 DEF Piece
  <2>3. PieceRight(item, Piece)
    BY <1>5, <2>1, <2>2 DEF PieceRight
  <2>4. "%" \in Ascii
    BY PrintfAssumption
  <2>5. <<"%">> \in Seq(Ascii)
    BY <2>4
  <2> QED
    BY <2>2, <2>3, <2>5
<1>6. CASE c \notin Numeric \cup {"c", "s", "n", "%", NUL}
  <2>1. Piece = <<"%", c>>
    BY <1>6 DEF Piece
  <2>2. PieceRight(item, Piece)
    BY <1>6, <2>1 DEF PieceRight
  <2>3. "%" \in Ascii
    BY PrintfAssumption
  <2>4. <<"%", c>> \in Seq(Ascii)
    BY <1>1, <2>3
  <2> QED
    BY <2>1, <2>2, <2>4
<1> QED
  BY <1>2, <1>3, <1>4, <1>5, <1>6

(* The conversion puts out the piece, and the next item is due. *)
LEMMA ConvertStep ==
  ASSUME NEW p, NEW t, NEW item \in Items, NEW whole, Directive(item), format \in Seq(Ascii),
         item.precision.form # "star", Owed(whole, t, item),
         Legible(p, item), Inside(p, t, item, whole), Convert
  PROVE  /\ Piece \in Seq(Ascii) /\ PieceRight(item, Piece)
         /\ pos' = (p + Len(Written(item))) + 1
         /\ Leaves(args', whole, t + Len(Arguments(item)))
<1>1. /\ stage = "convert" /\ args' = (IF Char \in Takers THEN Tail(args) ELSE args)
      /\ pos' = (IF Char = NUL THEN pos ELSE pos + 1)
  BY DEF Convert
<1>2. Len(format) \in Nat /\ Spelt(p, item) /\ ConversionHere(p, item)
  BY DEF Legible
<1>3. PICK q \in Nat : q = AfterQualifier(p, item)
  BY <1>2, Marked
<1>4. pos = q + 1 /\ Char = item.conversion
  BY <1>1, <1>2, <1>3 DEF Inside, Char, ConversionHere
<1> DEFINE u == t + Len(Passed(item.width))
<1>5. /\ flags = FlagsRead(item) /\ field_width = WidthRead(item) /\ precision = PrecisionRead(item)
      /\ Leaves(args, whole, u)
  BY <1>1 DEF Inside
<1>6. /\ u \in Nat
      /\ IF item.conversion \in Takers
         THEN /\ t + Len(Arguments(item)) = u + 1 /\ u < Len(whole)
              /\ whole[u + 1] = Argument(item)
         ELSE t + Len(Arguments(item)) = u
  BY Due
<1> HIDE DEF u
<1>7. item.conversion \in Takers => Head(args) = whole[u + 1] /\ Leaves(Tail(args), whole, u + 1)
  BY <1>5, <1>6, OneTaken
<1>8. Piece \in Seq(Ascii) /\ PieceRight(item, Piece)
  <2>1. item.conversion \in Takers => Head(args) = Argument(item)
    BY <1>6, <1>7
  <2> QED
    BY <1>4, <1>5, <2>1, PieceIs
<1>9. Leaves(args', whole, t + Len(Arguments(item)))
  BY <1>1, <1>4, <1>5, <1>6, <1>7
<1>10. p + Len(Written(item)) = q + Len(Closing(item))
  BY <1>2, <1>3 DEF Spelt
<1>11. pos' = (p + Len(Written(item))) + 1
  <2>1. CASE item.conversion = NUL
    <3>1. Closing(item) = <<>>
      BY <2>1 DEF Closing
    <3>2. Len(Closing(item)) = 0
      BY <3>1
    <3> QED
      BY <1>1, <1>3, <1>4, <1>10, <2>1, <3>2
  <2>2. CASE item.conversion # NUL
    <3>1. Closing(item) = <<item.conversion>>
      BY <2>2 DEF Closing
    <3>2. Len(Closing(item)) = 1
      BY <3>1
    <3> QED
      BY <1>1, <1>3, <1>4, <1>10, <2>2, <3>2
  <2> QED
    BY <2>1, <2>2
<1> QED
  BY <1>8, <1>9, <1>11

-----------------------------------------------------------------------------
(* A call: where the items lie in its format and in its arguments.          *)

Count == Len(work.items)
AllWritten == [k \in DOMAIN work.items |-> Written(work.items[k])]
AllArguments == [k \in DOMAIN work.items |-> Arguments(work.items[k])]
Passing == FlattenSeq(AllArguments)

(* The item at which vsprintf is, and whether it has read all up to there   *)
(* as it is meant.                                                          *)
Between == {"idle", "text", "written"}
Stages == Between \cup {"flags", "precision", "qualifier", "convert"}
Now == IF stage \in Between THEN Len(out) ELSE Len(out) + 1
Followed == Now <= Count /\ InStep(Now)

(* Item k is written after the first f[k - 1] characters of the format, and *)
(* passed after the first a[k - 1] arguments.                               *)
Placed(f, a) == Laid(f, AllWritten, format) /\ Laid(a, AllArguments, Passing)

(* vsprintf has read what is written of the items it has put out, and taken *)
(* their arguments, no less and no more; inside a directive it has found    *)
(* the parts that are there.                                                *)
Follow(f, a) ==
  LET item == work.items[Len(out) + 1]
  IN  /\ stage \in Between => pos = f[Len(out)] + 1 /\ Leaves(args, Passing, a[Len(out)])
      /\ stage \notin Between => Directive(item) /\ Inside(f[Len(out)], a[Len(out)], item, Passing)
      /\ stage = "written" => Len(out) = Count

(* The call under way, and its format. *)
Asked ==
  /\ work.program \in {"none", "loader", "kernel"} /\ work.items \in Seq(Items)
  /\ \A k \in 1 .. (Count - 1) : Directive(work.items[k]) => work.items[k].conversion # NUL
  /\ format \in Seq(Ascii)

(* One of the sequences, where it lies. *)
LEMMA LaidAt ==
  ASSUME NEW f, NEW ss, NEW whole, Laid(f, ss, whole), NEW k \in 1 .. Len(ss), NEW s, s = ss[k]
  PROVE  /\ f[k] = f[k - 1] + Len(s)
         /\ \A x \in 1 .. Len(s) : whole[f[k - 1] + x] = s[x]
  BY DEF Laid

(* An item, where it lies. *)
LEMMA Here ==
  ASSUME Asked, NEW f, NEW a, Placed(f, a), NEW k \in 1 .. Count
  PROVE  /\ work.items[k] \in Items
         /\ Reached(f[k - 1], a[k - 1], work.items[k], Passing)
         /\ f[k] = f[k - 1] + Len(Written(work.items[k]))
         /\ a[k] = a[k - 1] + Len(Arguments(work.items[k]))
<1>1. PICK n \in Nat : n = Count
  BY DEF Asked, Count
<1>2. k \in 1 .. n /\ k - 1 \in 0 .. n /\ k \in 0 .. n
  BY <1>1
<1>3. DOMAIN work.items = 1 .. n /\ \A j \in 1 .. n : work.items[j] \in Items
  BY <1>1 DEF Asked, Count
<1>4. /\ AllWritten = [j \in 1 .. n |-> Written(work.items[j])]
      /\ AllArguments = [j \in 1 .. n |-> Arguments(work.items[j])]
  BY <1>3 DEF AllWritten, AllArguments
<1>5. Len(AllWritten) = n /\ Len(AllArguments) = n
  BY <1>1, <1>4
<1>6. AllWritten[k] = Written(work.items[k]) /\ AllArguments[k] = Arguments(work.items[k])
  BY <1>2, <1>4
<1> DEFINE item == work.items[k]
           w == Written(item)
           u == Arguments(item)
<1>7. item \in Items
  BY <1>2, <1>3
<1>8. /\ f \in [0 .. n -> 0 .. Len(format)] /\ f[n] = Len(format)
      /\ f[k] = f[k - 1] + Len(w)
      /\ \A x \in 1 .. Len(w) : format[f[k - 1] + x] = w[x]
  <2>1. Laid(f, AllWritten, format) /\ k \in 1 .. Len(AllWritten) /\ w = AllWritten[k]
    BY <1>2, <1>5, <1>6 DEF Placed
  <2> HIDE DEF w
  <2>2. f[k] = f[k - 1] + Len(w) /\ \A x \in 1 .. Len(w) : format[f[k - 1] + x] = w[x]
    BY <2>1, LaidAt
  <2>3. f \in [0 .. n -> 0 .. Len(format)] /\ f[n] = Len(format)
    BY <1>5 DEF Placed, Laid
  <2> QED
    BY <2>2, <2>3
<1>9. /\ a \in [0 .. n -> 0 .. Len(Passing)]
      /\ a[k] = a[k - 1] + Len(u)
      /\ \A x \in 1 .. Len(u) : Passing[a[k - 1] + x] = u[x]
  <2>1. Laid(a, AllArguments, Passing) /\ k \in 1 .. Len(AllArguments) /\ u = AllArguments[k]
    BY <1>2, <1>5, <1>6 DEF Placed
  <2> HIDE DEF u
  <2>2. a[k] = a[k - 1] + Len(u) /\ \A x \in 1 .. Len(u) : Passing[a[k - 1] + x] = u[x]
    BY <2>1, LaidAt
  <2>3. a \in [0 .. n -> 0 .. Len(Passing)]
    BY <1>5 DEF Placed, Laid
  <2> QED
    BY <2>2, <2>3
<1>10. Len(w) \in Nat /\ Len(u) \in Nat
  <2>1. w \in Seq(Ascii) /\ u \in Seq(Values)
    BY <1>7, WrittenIs, ArgumentsAre
  <2> QED
    BY <2>1
<1>11. Len(format) \in Nat
  BY DEF Asked
<1>12. Len(Passing) \in Nat
  <2>1. \A j \in 1 .. n : Arguments(work.items[j]) \in Seq(Values)
    BY <1>3, ArgumentsAre
  <2>2. AllArguments \in Seq(Seq(Values))
    BY <1>1, <1>4, <2>1
  <2>3. Passing \in Seq(Values)
    BY <2>2, FlattenLaid DEF Passing
  <2> QED
    BY <2>3
<1> HIDE DEF item, w, u
<1>13. PICK p \in Nat, q \in Nat : p = f[k - 1] /\ q = f[k] /\ q <= Len(format)
  BY <1>2, <1>8, <1>11
<1>14. Stands(f[k - 1], w)
  BY <1>8, <1>10, <1>13 DEF Stands
<1>15. PICK t \in Nat, r \in Nat : t = a[k - 1] /\ r = a[k] /\ r <= Len(Passing)
  BY <1>2, <1>9, <1>12
<1>16. Owed(Passing, a[k - 1], item)
  BY <1>9, <1>10, <1>12, <1>15 DEF Owed, u
<1>17. Directive(item) /\ item.conversion = NUL => f[k - 1] + Len(w) = Len(format)
  <2> SUFFICES ASSUME Directive(item), item.conversion = NUL PROVE f[k - 1] + Len(w) = Len(format)
    OBVIOUS
  <2>1. k \notin 1 .. (n - 1)
    BY <1>1 DEF Asked, item
  <2>2. k = n
    BY <1>1, <1>2, <2>1
  <2> QED
    BY <1>8, <2>2
<1> QED
  BY <1>7, <1>8, <1>9, <1>14, <1>16, <1>17 DEF Reached, item, w, u

(* After the last item nothing is left. *)
LEMMA WholeLaid ==
  ASSUME Asked, NEW f, NEW a, Placed(f, a)
  PROVE  /\ f[0] = 0 /\ f[Count] = Len(format) /\ a[0] = 0 /\ a[Count] = Len(Passing)
         /\ Passing \in Seq(Values)
         /\ \A k \in 0 .. Count : f[k] \in 0 .. Len(format) /\ a[k] \in Nat
<1>1. PICK n \in Nat : n = Count
  BY DEF Asked, Count
<1>3. DOMAIN work.items = 1 .. n /\ \A j \in 1 .. n : work.items[j] \in Items
  BY <1>1 DEF Asked, Count
<1>4. /\ AllWritten = [j \in 1 .. n |-> Written(work.items[j])]
      /\ AllArguments = [j \in 1 .. n |-> Arguments(work.items[j])]
  BY <1>3 DEF AllWritten, AllArguments
<1>5. Len(AllWritten) = n /\ Len(AllArguments) = n
  BY <1>1, <1>4
<1>6. Passing \in Seq(Values)
  <2>1. \A j \in 1 .. n : Arguments(work.items[j]) \in Seq(Values)
    BY <1>3, ArgumentsAre
  <2>2. AllArguments \in Seq(Seq(Values))
    BY <1>1, <1>4, <2>1
  <2> QED
    BY <2>2, FlattenLaid DEF Passing
<1>7. Len(Passing) \in Nat
  BY <1>6
<1>8. f \in [0 .. n -> 0 .. Len(format)] /\ f[0] = 0 /\ f[n] = Len(format)
  BY <1>5 DEF Placed, Laid
<1>9. a \in [0 .. n -> 0 .. Len(Passing)] /\ a[0] = 0 /\ a[n] = Len(Passing)
  BY <1>5 DEF Placed, Laid
<1> QED
  BY <1>1, <1>6, <1>7, <1>8, <1>9

Sequence(s) == \E S : s \in Seq(S)

(* A piece put out is one more. *)
LEMMA Appended ==
  ASSUME NEW s, Sequence(s), NEW x
  PROVE  /\ Sequence(Append(s, x)) /\ Len(s) \in Nat /\ Len(Append(s, x)) = Len(s) + 1
         /\ DOMAIN s = 1 .. Len(s) /\ DOMAIN Append(s, x) = 1 .. (Len(s) + 1)
         /\ \A k \in 1 .. Len(s) : Append(s, x)[k] = s[k]
         /\ Append(s, x)[Len(s) + 1] = x
<1>1. PICK S : s \in Seq(S)
  BY DEF Sequence
<1> DEFINE T == S \cup {x}
<1>2. s \in Seq(T) /\ x \in T
  BY <1>1
<1> HIDE DEF T
<1>3. /\ Append(s, x) \in Seq(T) /\ Len(s) \in Nat /\ Len(Append(s, x)) = Len(s) + 1
      /\ DOMAIN s = 1 .. Len(s) /\ DOMAIN Append(s, x) = 1 .. (Len(s) + 1)
      /\ \A k \in 1 .. Len(s) : Append(s, x)[k] = s[k]
      /\ Append(s, x)[Len(s) + 1] = x
  BY <1>2
<1> QED
  BY <1>3 DEF Sequence

(* What vsprintf meets where an item begins. *)
LEMMA AtItem ==
  ASSUME Asked, NEW f, NEW a, Placed(f, a), NEW n \in Nat, n = Len(out), n <= Count,
         stage = "text", Follow(f, a)
  PROVE  /\ pos = f[n] + 1 /\ Leaves(args, Passing, a[n])
         /\ n = Count => Char = NUL
         /\ n # Count => /\ n + 1 \in 1 .. Count
                         /\ Directive(work.items[n + 1]) => Char = "%"
                         /\ ~Directive(work.items[n + 1]) => /\ Char = work.items[n + 1].char
                                                             /\ Char \notin {"%", NUL}
                                                             /\ Char \in Ascii
<1>1. PICK m \in Nat, l \in Nat : m = Count /\ l = Len(format)
  BY DEF Asked, Count
<1>2. pos = f[n] + 1 /\ Leaves(args, Passing, a[n])
  BY DEF Follow, Between
<1>3. n = Count => Char = NUL
  <2>1. f[Count] = Len(format)
    BY WholeLaid
  <2>2. n = Count => pos = l + 1
    BY <1>1, <1>2, <2>1
  <2> QED
    BY <1>1, <2>2 DEF Char, CharAt
<1>4. ASSUME n # Count
      PROVE  /\ n + 1 \in 1 .. Count
             /\ Directive(work.items[n + 1]) => Char = "%"
             /\ ~Directive(work.items[n + 1]) => /\ Char = work.items[n + 1].char
                                                 /\ Char \notin {"%", NUL} /\ Char \in Ascii
  <2>1. n + 1 \in 1 .. m /\ (n + 1) - 1 = n
    BY <1>1, <1>4
  <2>2. PICK k \in 1 .. Count : k = n + 1 /\ k - 1 = n
    BY <1>1, <2>1
  <2> DEFINE item == work.items[k]
  <2>3. item \in Items /\ Reached(f[n], a[n], item, Passing)
    BY <2>2, Here
  <2> HIDE DEF item
  <2>4. Stands(f[n], Written(item)) /\ f[n] \in Nat
    BY <2>3 DEF Reached, Stands
  <2>5. Directive(item) => Char = "%"
    <3> SUFFICES ASSUME Directive(item) PROVE Char = "%"
      OBVIOUS
    <3>1. Spelt(f[n], item)
      BY <1>1, <2>3, <2>4, Spelling
    <3>2. CharAt(f[n] + 1) = "%"
      BY <1>1, <3>1, Marked
    <3> QED
      BY <1>2, <3>2 DEF Char
  <2>6. ~Directive(item) => Char = item.char /\ Char \notin {"%", NUL} /\ Char \in Ascii
    <3> SUFFICES ASSUME ~Directive(item) PROVE Char = item.char /\ Char \notin {"%", NUL} /\ Char \in Ascii
      OBVIOUS
    <3>1. /\ Len(Written(item)) = 1 /\ Written(item)[1] = item.char
          /\ item.char \in Ascii /\ item.char # "%" /\ item.char # NUL
      BY <2>3, WrittenIs
    <3>2. \A x \in 1 .. Len(Written(item)) : CharAt(f[n] + x) = Written(item)[x]
      BY <1>1, <2>4, CharacterThere
    <3>3. CharAt(f[n] + 1) = item.char
      BY <3>1, <3>2
    <3> QED
      BY <1>2, <3>1, <3>3 DEF Char
  <2> QED
    BY <2>2, <2>5, <2>6 DEF item
<1> QED
  BY <1>2, <1>3, <1>4

(* A character of the text is the item that it is. *)
LEMMA TextFollows ==
  ASSUME Asked, NEW f, NEW a, Placed(f, a), Sequence(out), Len(out) <= Count,
         Follow(f, a), Text
  PROVE  /\ Len(out) + 1 \in 1 .. Count /\ Follow(f, a)'
         /\ Char \in Ascii /\ PieceRight(work.items[Len(out) + 1], <<Char>>)
<1>1. /\ stage = "text" /\ Char \notin {"%", NUL} /\ out' = Append(out, <<Char>>) /\ pos' = pos + 1
      /\ work' = work /\ args' = args /\ stage' = stage
  BY DEF Text
<1>2. PICK n \in Nat : n = Len(out) /\ Len(out') = n + 1
  BY <1>1, Appended
<1>3. /\ pos = f[n] + 1 /\ Leaves(args, Passing, a[n]) /\ n + 1 \in 1 .. Count
      /\ ~Directive(work.items[n + 1]) /\ Char = work.items[n + 1].char /\ Char \in Ascii
  BY <1>1, <1>2, AtItem
<1>4. PICK k \in 1 .. Count : k = n + 1 /\ k - 1 = n
  BY <1>3
<1> DEFINE item == work.items[k]
<1>5. /\ item \in Items /\ f[k] = f[n] + Len(Written(item)) /\ a[k] = a[n] + Len(Arguments(item))
  BY <1>4, Here
<1>6. ~Directive(item) /\ Char = item.char
  BY <1>3, <1>4
<1> HIDE DEF item
<1>7. Len(Written(item)) = 1 /\ Len(Arguments(item)) = 0
  BY <1>5, <1>6, WrittenIs, NothingOwed
<1>8. a[n] \in Nat /\ a[k] = a[n] /\ pos' = f[k] + 1
  BY <1>1, <1>3, <1>5, <1>7 DEF Leaves
<1>9. PieceRight(item, <<Char>>)
  BY <1>6 DEF PieceRight
<1>10. Passing' = Passing
  BY <1>1 DEF Passing, AllArguments
<1>11. Follow(f, a)'
  <2>1. Leaves(args', Passing', a[k])
    BY <1>1, <1>3, <1>8, <1>10
  <2> QED
    BY <1>1, <1>2, <1>4, <1>8, <2>1 DEF Follow, Between
<1> QED
  BY <1>2, <1>3, <1>4, <1>9, <1>11 DEF item

(* A per cent sign is a directive's. *)
LEMMA PercentFollows ==
  ASSUME Asked, NEW f, NEW a, Placed(f, a), Sequence(out), Len(out) <= Count,
         Follow(f, a), Percent
  PROVE  Len(out) + 1 \in 1 .. Count /\ Follow(f, a)'
<1>1. /\ stage = "text" /\ Char = "%" /\ flags' = {} /\ pos' = pos + 1 /\ stage' = "flags"
      /\ work' = work /\ args' = args /\ out' = out
  BY DEF Percent
<1>2. PICK n \in Nat : n = Len(out)
  BY Appended
<1>3. "%" # NUL
  BY DEF NUL
<1>4. /\ pos = f[n] + 1 /\ Leaves(args, Passing, a[n]) /\ n + 1 \in 1 .. Count
      /\ Directive(work.items[n + 1])
  BY <1>1, <1>2, <1>3, AtItem
<1>5. Passing' = Passing
  BY <1>1 DEF Passing, AllArguments
<1>6. PICK k \in 1 .. Count : k = n + 1 /\ k - 1 = n
  BY <1>4
<1>7. Reached(f[n], a[n], work.items[k], Passing)
  BY <1>6, Here
<1>8. PICK p, t, item : p \in Nat /\ t \in Nat /\ p = f[n] /\ t = a[n] /\ item = work.items[n + 1]
  <2>1. f[n] \in Nat /\ a[n] \in Nat
    BY <1>4, <1>7 DEF Reached, Stands, Leaves
  <2> QED
    BY <2>1
<1>9. Len(Marks(item)) \in Nat
  <2>1. item \in Items /\ Directive(item)
    BY <1>4, <1>6, <1>7, <1>8 DEF Reached
  <2>2. Marks(item) \in Seq(Ascii)
    BY <2>1, PiecesWritten
  <2> QED
    BY <2>2
<1>10. InFlags(p, item)'
  <2>1. 0 \in 0 .. Len(Marks(item)) /\ pos' = (p + 1) + 0 + 1
    BY <1>1, <1>4, <1>8, <1>9
  <2>2. flags' = {Marks(item)[x] : x \in 1 .. 0}
    BY <1>1
  <2> QED
    BY <2>1, <2>2 DEF InFlags
<1>11. Inside(p, t, item, Passing)'
  <2>1. Leaves(args', Passing', t)
    BY <1>1, <1>4, <1>5, <1>8
  <2> QED
    BY <1>1, <1>10, <2>1 DEF Inside
<1>12. Follow(f, a)'
  BY <1>1, <1>2, <1>4, <1>8, <1>11 DEF Follow, Between
<1> QED
  BY <1>2, <1>4, <1>12

(* The end of the format is the end of the items. *)
LEMMA WriteOutFollows ==
  ASSUME Asked, NEW f, NEW a, Placed(f, a), Sequence(out), Len(out) <= Count,
         Follow(f, a), WriteOut
  PROVE  Follow(f, a)'
<1>1. /\ stage = "text" /\ Char = NUL /\ stage' = "written" /\ work' = work /\ pos' = pos
      /\ args' = args /\ out' = out
  BY DEF WriteOut
<1>2. PICK n \in Nat : n = Len(out)
  BY Appended
<1>3. "%" # NUL
  BY DEF NUL
<1>4. pos = f[n] + 1 /\ Leaves(args, Passing, a[n]) /\ n = Count
  BY <1>1, <1>2, <1>3, AtItem
<1>5. Passing' = Passing /\ Count' = Count
  BY <1>1 DEF Passing, AllArguments, Count
<1> QED
  BY <1>1, <1>2, <1>4, <1>5 DEF Follow, Between

(* Inside a directive that is handled vsprintf reads what is meant. *)
LEMMA InsideOf ==
  ASSUME Asked, NEW f, NEW a, Placed(f, a), Sequence(out), Len(out) + 1 <= Count,
         Handled(work.program, work.items[Len(out) + 1]), stage \notin Between, Follow(f, a),
         NEW n \in Nat, n = Len(out), NEW item, item = work.items[n + 1]
  PROVE  /\ item \in Items /\ Directive(item) /\ item.precision.form # "star"
         /\ work.program = "kernel" => item.width.form # "star"
         /\ Legible(f[n], item) /\ Owed(Passing, a[n], item) /\ Inside(f[n], a[n], item, Passing)
         /\ n + 1 \in 1 .. Count /\ f[n + 1] = f[n] + Len(Written(item))
         /\ a[n + 1] = a[n] + Len(Arguments(item))
<1>1. PICK m \in Nat : m = Count
  BY DEF Asked, Count
<1>2. n + 1 \in 1 .. m /\ (n + 1) - 1 = n
  BY <1>1
<1>3. PICK k \in 1 .. Count : k = n + 1 /\ k - 1 = n
  BY <1>1, <1>2
<1>4. /\ work.items[k] \in Items /\ Reached(f[k - 1], a[k - 1], work.items[k], Passing)
      /\ f[k] = f[k - 1] + Len(Written(work.items[k]))
      /\ a[k] = a[k - 1] + Len(Arguments(work.items[k]))
  BY Here
<1>5. Directive(item) /\ Inside(f[n], a[n], item, Passing)
  BY DEF Follow
<1>6. item.precision.form # "star" /\ (work.program = "kernel" => item.width.form # "star")
  BY <1>5 DEF Handled
<1>7. item \in Items /\ Reached(f[n], a[n], item, Passing)
  BY <1>3, <1>4
<1>8. Legible(f[n], item)
  <2>1. format \in Seq(Ascii)
    BY DEF Asked
  <2> QED
    BY <1>5, <1>6, <1>7, <2>1, Read
<1>9. Owed(Passing, a[n], item)
  BY <1>7 DEF Reached
<1> QED
  BY <1>1, <1>2, <1>3, <1>4, <1>5, <1>6, <1>7, <1>8, <1>9

(* The parts before the conversion are read one by one. *)
LEMMA PartFollows ==
  ASSUME Asked, NEW f, NEW a, Placed(f, a), Sequence(out), Len(out) + 1 <= Count,
         Handled(work.program, work.items[Len(out) + 1]), Follow(f, a),
         NEW star, work.program = "kernel" \/ star = 1,
         Flag \/ FieldWidth(star) \/ Precision \/ Qualifier
  PROVE  /\ Follow(f, a)'
         /\ field_width \in Int => field_width' \in Int
         /\ precision \in Int => precision' \in Int
<1>1. PICK n, item : n \in Nat /\ n = Len(out) /\ item = work.items[n + 1]
  BY Appended
<1>2. /\ stage \notin Between /\ stage' \notin Between /\ out' = out /\ work' = work /\ format' = format
      /\ stage' # "written"
  BY DEF Flag, FieldWidth, Precision, Qualifier, Between
<1>3. /\ item \in Items /\ Directive(item) /\ item.precision.form # "star"
      /\ work.program = "kernel" => item.width.form # "star"
      /\ Legible(f[n], item) /\ Owed(Passing, a[n], item) /\ Inside(f[n], a[n], item, Passing)
  BY <1>1, <1>2, InsideOf
<1>4. item.width.form = "star" => star = 1
  BY <1>3
<1>5. Passing' = Passing
  BY <1>2 DEF Passing, AllArguments
<1>6. PICK p, t, whole : p = f[n] /\ t = a[n] /\ whole = Passing
  OBVIOUS
<1>7. format \in Seq(Ascii)
  BY DEF Asked
<1>8. /\ item \in Items /\ Directive(item) /\ item.precision.form # "star"
      /\ Legible(p, item) /\ Owed(whole, t, item) /\ Inside(p, t, item, whole)
  BY <1>3, <1>6
<1>9. Inside(p, t, item, whole)'
  <2>1. CASE Flag
    BY <1>7, <1>8, <2>1, FlagStep
  <2>2. CASE FieldWidth(star)
    BY <1>4, <1>7, <1>8, <2>2, WidthStep
  <2>3. CASE Precision
    BY <1>7, <1>8, <2>3, PrecisionStep
  <2>4. CASE Qualifier
    BY <1>7, <1>8, <2>4, QualifierStep
  <2> QED
    BY <2>1, <2>2, <2>3, <2>4
<1>10. Inside(f[n], a[n], item, Passing)'
  <2>1. Passing' = whole
    BY <1>5, <1>6
  <2> QED
    BY <1>6, <1>9, <2>1 DEF Inside
<1>11. Follow(f, a)'
  BY <1>1, <1>2, <1>3, <1>10 DEF Follow
<1>12. field_width \in Int => field_width' \in Int
  <2>1. CASE FieldWidth(star)
    <3>1. stage' = "precision"
      BY <2>1 DEF FieldWidth
    <3>2. field_width' = WidthRead(item)
      BY <1>9, <3>1 DEF Inside
    <3> QED
      BY <1>8, <3>2, WidthIs
  <2>2. CASE Flag \/ Precision \/ Qualifier
    BY <2>2 DEF Flag, Precision, Qualifier, directive
  <2> QED
    BY <2>1, <2>2
<1>13. precision \in Int => precision' \in Int
  <2>1. CASE Precision
    <3>1. stage' = "qualifier"
      BY <2>1 DEF Precision
    <3>2. precision' = PrecisionRead(item)
      BY <1>9, <3>1 DEF Inside
    <3> QED
      BY <1>8, <3>2, PrecisionIs
  <2>2. CASE Flag \/ FieldWidth(star) \/ Qualifier
    BY <2>2 DEF Flag, FieldWidth, Qualifier, directive
  <2> QED
    BY <2>1, <2>2
<1> QED
  BY <1>11, <1>12, <1>13

(* Then the conversion is. *)
LEMMA ConvertFollows ==
  ASSUME Asked, NEW f, NEW a, Placed(f, a), Sequence(out), Len(out) + 1 <= Count,
         Handled(work.program, work.items[Len(out) + 1]), Follow(f, a), Convert
  PROVE  /\ Follow(f, a)'
         /\ Piece \in Seq(Ascii) /\ PieceRight(work.items[Len(out) + 1], Piece)
         /\ field_width \in Int /\ precision \in Int
<1>1. PICK n, item : n \in Nat /\ n = Len(out) /\ item = work.items[n + 1]
  BY Appended
<1>2. /\ stage = "convert" /\ stage' = "text" /\ out' = Append(out, Piece) /\ work' = work
      /\ stage \notin Between
  BY DEF Convert, Between
<1>3. /\ item \in Items /\ Directive(item) /\ item.precision.form # "star"
      /\ Legible(f[n], item) /\ Owed(Passing, a[n], item) /\ Inside(f[n], a[n], item, Passing)
      /\ f[n + 1] = f[n] + Len(Written(item)) /\ a[n + 1] = a[n] + Len(Arguments(item))
  BY <1>1, <1>2, InsideOf
<1>4. Passing' = Passing
  BY <1>2 DEF Passing, AllArguments
<1>5. PICK p, t, whole : p = f[n] /\ t = a[n] /\ whole = Passing
  OBVIOUS
<1>6. format \in Seq(Ascii)
  BY DEF Asked
<1>7. /\ Legible(p, item) /\ Owed(whole, t, item) /\ Inside(p, t, item, whole)
  BY <1>3, <1>5
<1>8. /\ Piece \in Seq(Ascii) /\ PieceRight(item, Piece)
      /\ pos' = (p + Len(Written(item))) + 1
      /\ Leaves(args', whole, t + Len(Arguments(item)))
  BY <1>3, <1>6, <1>7, ConvertStep
<1>9. field_width \in Int /\ precision \in Int
  <2>1. field_width = WidthRead(item) /\ precision = PrecisionRead(item)
    BY <1>2, <1>7 DEF Inside
  <2> QED
    BY <1>3, <2>1, WidthIs, PrecisionIs
<1>10. pos' = f[n + 1] + 1 /\ Leaves(args', Passing', a[n + 1])
  BY <1>3, <1>4, <1>5, <1>8
<1>11. Len(out') = n + 1
  BY <1>1, <1>2, Appended
<1>12. Follow(f, a)'
  BY <1>2, <1>10, <1>11 DEF Follow, Between
<1> QED
  BY <1>1, <1>8, <1>9, <1>12

-----------------------------------------------------------------------------
(* The inductive invariant.                                                 *)

(* What has been put out as long as the directives are handled. *)
PiecesRight ==
  \A k \in 1 .. Len(out) : k <= Count /\ InStep(k) => PieceRight(work.items[k], out[k])

(* vsprintf goes from item to item through the format and the arguments.    *)
(* It has met all of the items before it can get past the last: unless one  *)
(* of them is not handled, after which it may be anywhere.                  *)
PrintfInv ==
  /\ Asked /\ stage \in Stages /\ flags \subseteq Flags /\ Sequence(out)
  /\ pos \in 1 .. (Len(format) + 1)
  /\ stage = "idle" => work = NoWork /\ out = <<>> /\ pos = 1 /\ format = <<>> /\ args = <<>>
  /\ stage # "idle" => \E f, a : Placed(f, a) /\ (Followed => Follow(f, a))
  /\ Followed => /\ field_width \in Int /\ precision \in Int /\ stored \in Nat
                 /\ out \in Seq(Seq(Ascii))
  /\ Now > Count => ~InStep(Count)
  /\ PiecesRight

(* What no step within a call changes. *)
Steady ==
  /\ work' = work /\ format' = format /\ stage # "idle" /\ stage' \in Stages \ {"idle"}
  /\ flags' \subseteq Flags /\ pos' \in 1 .. (Len(format) + 1)

(* Digits end where the format does, if not before. *)
LEMMA StopsAt ==
  ASSUME NEW l \in Nat, l = Len(format), NEW p \in 1 .. (l + 1)
  PROVE  After(p) \in p .. (l + 1)
<1> DEFINE T == {q \in p .. (l + 1) : ~IsDigit(CharAt(q))}
           Is(q) == ~IsDigit(CharAt(q)) /\ \A i \in p .. (q - 1) : IsDigit(format[i])
<1>1. l + 1 \in T
  <2>1. ~IsDigit(NUL)
    BY DigitChars DEF NUL
  <2> QED
    BY <2>1 DEF CharAt
<1>2. T \subseteq Nat
  OBVIOUS
<1>3. PICK q \in T : \A y \in T : q <= y
  <2> HIDE DEF T
  <2> QED
    BY <1>1, <1>2, LeastElement
<1>4. ASSUME NEW i \in p .. (q - 1) PROVE IsDigit(format[i])
  <2>1. i \in p .. (l + 1) /\ i < q /\ i <= l
    BY <1>3
  <2>2. IsDigit(CharAt(i))
    BY <1>3, <2>1
  <2> QED
    BY <2>1, <2>2 DEF CharAt
<1>5. q \in p .. (l + 1) /\ Is(q)
  BY <1>3, <1>4
<1>6. (CHOOSE x \in p .. (l + 1) : Is(x)) \in p .. (l + 1)
  <2> HIDE DEF Is
  <2> QED
    BY <1>5, Zenon
<1> QED
  BY <1>6, Zenon DEF After

(* vsprintf never leaves the format. *)
LEMMA PlaceStays ==
  ASSUME NEW l \in Nat, l = Len(format), pos \in 1 .. (l + 1), NEW star \in {0, 1},
         Text \/ Percent \/ Flag \/ FieldWidth(star) \/ Precision \/ Qualifier \/ Convert \/ WriteOut
  PROVE  pos' \in 1 .. (l + 1)
<1>1. Char # NUL => pos + 1 \in 1 .. (l + 1)
  BY DEF Char, CharAt
<1>2. NUL \notin Flags \cup Qualifiers \cup {"%", "*", "."} /\ ~IsDigit(NUL)
  BY DigitChars DEF NUL, Flags, Qualifiers
<1>3. After(pos) \in 1 .. (l + 1)
  <2>1. After(pos) \in pos .. (l + 1)
    BY StopsAt
  <2> QED
    BY <2>1
<1>4. CASE Text
  BY <1>1, <1>4 DEF Text
<1>5. CASE Percent
  BY <1>1, <1>2, <1>5 DEF Percent
<1>6. CASE Flag
  BY <1>1, <1>2, <1>6 DEF Flag
<1>7. CASE FieldWidth(star)
  <2>1. \/ pos' = After(pos) \/ pos' = pos \/ (Char = "*" /\ pos' = pos + star)
    BY <1>7 DEF FieldWidth
  <2> QED
    BY <1>1, <1>2, <1>3, <2>1
<1>8. CASE Precision
  <2>1. \/ pos' = pos
        \/ Char = "." /\ (pos' = After(pos + 1) \/ pos' = pos + 1)
    BY <1>8 DEF Precision
  <2>2. CASE pos' = pos
    BY <2>2
  <2>3. CASE Char = "." /\ (pos' = After(pos + 1) \/ pos' = pos + 1)
    <3>1. pos + 1 \in 1 .. (l + 1)
      BY <1>1, <1>2, <2>3
    <3>2. After(pos + 1) \in (pos + 1) .. (l + 1)
      BY <3>1, StopsAt
    <3> QED
      BY <2>3, <3>1, <3>2
  <2> QED
    BY <2>1, <2>2, <2>3
<1>9. CASE Qualifier
  BY <1>1, <1>2, <1>9 DEF Qualifier
<1>10. CASE Convert
  BY <1>1, <1>10 DEF Convert
<1>11. CASE WriteOut
  BY <1>11 DEF WriteOut
<1> QED
  BY <1>4, <1>5, <1>6, <1>7, <1>8, <1>9, <1>10, <1>11

(* A step within a call leaves the call and its format alone. *)
LEMMA StaySteady ==
  ASSUME flags \subseteq Flags, Asked, pos \in 1 .. (Len(format) + 1), NEW star \in {0, 1},
         Text \/ Percent \/ Flag \/ FieldWidth(star) \/ Precision \/ Qualifier \/ Convert \/ WriteOut
  PROVE  Steady
<1>0. pos' \in 1 .. (Len(format) + 1)
  <2>1. Len(format) \in Nat
    BY DEF Asked
  <2> QED
    BY <2>1, PlaceStays
<1>1. CASE Text
  BY <1>0, <1>1 DEF Text, Steady, Stages, Between, directive
<1>2. CASE Percent
  BY <1>0, <1>2 DEF Percent, Steady, Stages, Between
<1>3. CASE Flag
  <2>1. flags' = flags \cup {Char} /\ Char \in Flags
    BY <1>3 DEF Flag
  <2> QED
    BY <1>0, <1>3, <2>1 DEF Flag, Steady, Stages, Between
<1>4. CASE FieldWidth(star)
  <2>1. flags' = flags \/ flags' = flags \cup {"-"}
    BY <1>4 DEF FieldWidth
  <2>2. "-" \in Flags
    BY DEF Flags
  <2>3. flags' \subseteq Flags
    BY <2>1, <2>2
  <2> QED
    BY <1>0, <1>4, <2>3 DEF FieldWidth, Steady, Stages, Between
<1>5. CASE Precision
  BY <1>0, <1>5 DEF Precision, Steady, Stages, Between
<1>6. CASE Qualifier
  BY <1>0, <1>6 DEF Qualifier, Steady, Stages, Between, directive
<1>7. CASE Convert
  BY <1>0, <1>7 DEF Convert, Steady, Stages, Between, directive
<1>8. CASE WriteOut
  BY <1>0, <1>8 DEF WriteOut, Steady, Stages, Between, directive
<1> QED
  BY <1>1, <1>2, <1>3, <1>4, <1>5, <1>6, <1>7, <1>8

(* So where the items lie stays as it is. *)
LEMMA SteadyMeans ==
  ASSUME Steady, Asked
  PROVE  /\ Asked' /\ Count' = Count /\ Count \in Nat
         /\ \A k : InStep(k)' <=> InStep(k)
         /\ \A f, a : Placed(f, a)' <=> Placed(f, a)
<1>1. work' = work /\ format' = format
  BY DEF Steady
<1>2. Asked' /\ Count' = Count /\ Count \in Nat
  BY <1>1 DEF Asked, Count
<1>3. \A k : InStep(k)' <=> InStep(k)
  BY <1>1 DEF InStep
<1>4. AllWritten' = AllWritten /\ AllArguments' = AllArguments
  BY <1>1 DEF AllWritten, AllArguments
<1>5. Passing' = Passing
  BY <1>4 DEF Passing
<1>6. \A f, a : Placed(f, a)' <=> Placed(f, a)
  BY <1>1, <1>4, <1>5 DEF Placed
<1> QED
  BY <1>2, <1>3, <1>6

(* Once vsprintf has met what it does not handle, nothing more is promised. *)
LEMMA Astray ==
  ASSUME PrintfInv, ~Followed, Steady, Now \in Nat, Now' \in Nat, Now <= Now',
         (out' = out \/ \E x : out' = Append(out, x))
  PROVE  PrintfInv'
<1>1. /\ Asked /\ stage \in Stages /\ Sequence(out) /\ stage # "idle"
      /\ \E f, a : Placed(f, a)
      /\ Now > Count => ~InStep(Count)
      /\ PiecesRight
  BY DEF PrintfInv, Steady
<1>2. /\ Asked' /\ Count' = Count /\ Count \in Nat
      /\ \A k : InStep(k)' <=> InStep(k)
      /\ \A f, a : Placed(f, a)' <=> Placed(f, a)
  BY <1>1, SteadyMeans
<1>3. /\ stage' \in Stages /\ stage' # "idle" /\ flags' \subseteq Flags /\ work' = work
      /\ pos' \in 1 .. (Len(format') + 1)
  BY DEF Steady
<1>4. ASSUME NEW k \in Nat, Now <= k, k <= Count PROVE ~InStep(k)
  <2>1. Now <= Count
    BY <1>2, <1>4
  <2>2. ~InStep(Now)
    BY <2>1 DEF Followed
  <2>3. 1 .. Now \subseteq 1 .. k
    BY <1>4
  <2> QED
    BY <2>2, <2>3 DEF InStep
<1>5. ~Followed'
  <2>1. PICK m \in Nat : m = Now'
    OBVIOUS
  <2>2. m <= Count => ~InStep(m)'
    BY <1>2, <1>4, <2>1
  <2>3. Followed' => m <= Count /\ InStep(m)'
    <3>1. Followed' => Now' <= Count'
      BY DEF Followed
    <3>2. Followed' => InStep(m)'
      BY <2>1 DEF Followed, InStep
    <3> QED
      BY <1>2, <2>1, <3>1, <3>2
  <2> QED
    BY <2>2, <2>3
<1>6. Now' > Count => ~InStep(Count)
  <2>1. CASE Now > Count
    BY <1>1, <2>1
  <2>2. CASE ~(Now > Count)
    <3>1. Now <= Count
      BY <1>2, <2>2
    <3> QED
      BY <1>2, <1>4, <3>1
  <2> QED
    BY <2>1, <2>2
<1>7. Sequence(out') /\ Len(out) \in Nat
  <2>1. \A x : Sequence(Append(out, x)) /\ Len(out) \in Nat
    BY <1>1, Appended
  <2> QED
    BY <1>1, <2>1
<1>8. PiecesRight'
  <2>1. CASE out' = out
    BY <1>1, <1>2, <1>3, <2>1 DEF PiecesRight
  <2>2. ASSUME NEW x, out' = Append(out, x) PROVE PiecesRight'
    <3>1. PICK n \in Nat : n = Len(out) /\ Len(out') = n + 1 /\ \A k \in 1 .. n : out'[k] = out[k]
      BY <1>1, <2>2, Appended
    <3>2. Now <= n + 1
      BY <3>1 DEF Now
    <3>3. n + 1 <= Count => ~InStep(n + 1)
      BY <1>4, <3>1, <3>2
    <3> SUFFICES ASSUME NEW k \in 1 .. (n + 1), k <= Count, InStep(k)
                 PROVE  PieceRight(work.items[k], out'[k])
      BY <1>2, <1>3, <3>1 DEF PiecesRight
    <3>4. k # n + 1
      BY <3>3
    <3>5. k \in 1 .. n
      BY <3>1, <3>4
    <3> QED
      BY <1>1, <3>1, <3>5 DEF PiecesRight
  <2> QED
    BY <2>1, <2>2
<1> QED
  BY <1>2, <1>3, <1>1, <1>5, <1>6, <1>7, <1>8 DEF PrintfInv

(* As long as vsprintf handles what it meets it reads what is meant. *)
LEMMA OnTheWay ==
  ASSUME PrintfInv, Followed, Steady, NEW f, NEW a, Placed(f, a),
         Sequence(out'), Now' <= Count, Followed' => Follow(f, a)',
         field_width' \in Int, precision' \in Int, stored' \in Nat, out' \in Seq(Seq(Ascii)),
         PiecesRight'
  PROVE  PrintfInv'
<1>1. Asked
  BY DEF PrintfInv
<1>2. /\ Asked' /\ Count' = Count /\ Count \in Nat /\ Placed(f, a)'
  BY <1>1, SteadyMeans
<1>3. /\ stage' \in Stages /\ stage' # "idle" /\ flags' \subseteq Flags
      /\ pos' \in 1 .. (Len(format') + 1)
  BY DEF Steady
<1>4. Now' \in Nat
  <2>1. Len(out') \in Nat
    BY Appended
  <2> QED
    BY <2>1 DEF Now
<1>5. ~(Now' > Count')
  BY <1>2, <1>4
<1>6. (\E g, b : Placed(g, b) /\ (Followed => Follow(g, b)))'
  BY <1>2
<1> QED
  BY <1>2, <1>3, <1>5, <1>6 DEF PrintfInv

(* A piece that comes of the next item. *)
LEMMA OneMore ==
  ASSUME PiecesRight, Sequence(out), NEW x, out' = Append(out, x), work' = work,
         Len(out) + 1 <= Count /\ InStep(Len(out) + 1) => PieceRight(work.items[Len(out) + 1], x)
  PROVE  PiecesRight'
<1>1. PICK n \in Nat : /\ n = Len(out) /\ Len(out') = n + 1 /\ out'[n + 1] = x
                       /\ \A k \in 1 .. n : out'[k] = out[k]
  BY Appended
<1>2. Count' = Count /\ \A k : InStep(k)' <=> InStep(k)
  BY DEF Count, InStep
<1> SUFFICES ASSUME NEW k \in 1 .. (n + 1), k <= Count, InStep(k)
             PROVE  PieceRight(work.items[k], out'[k])
  BY <1>1, <1>2 DEF PiecesRight
<1>3. CASE k = n + 1
  BY <1>1, <1>3
<1>4. CASE k # n + 1
  <2>1. k \in 1 .. n
    BY <1>1, <1>4
  <2> QED
    BY <1>1, <2>1 DEF PiecesRight
<1> QED
  BY <1>3, <1>4

(* Without a new piece the old ones stay right. *)
LEMMA SamePieces ==
  ASSUME PiecesRight, out' = out, work' = work
  PROVE  PiecesRight'
<1>1. Count' = Count /\ \A k : InStep(k)' <=> InStep(k)
  BY DEF Count, InStep
<1> QED
  BY <1>1 DEF PiecesRight

(* What was in step up to an item was so before. *)
LEMMA OneLess ==
  ASSUME NEW n \in Nat, InStep(n + 1)
  PROVE  InStep(n) /\ Handled(work.program, work.items[n + 1])
<1>1. n + 1 \in 1 .. (n + 1) /\ 1 .. n \subseteq 1 .. (n + 1)
  OBVIOUS
<1> QED
  BY <1>1 DEF InStep

(* A step within a call keeps the invariant. *)
LEMMA StepKeeps ==
  ASSUME PrintfInv, NEW star \in {0, 1}, work.program = "kernel" \/ star = 1,
         Text \/ Percent \/ Flag \/ FieldWidth(star) \/ Precision \/ Qualifier \/ Convert \/ WriteOut
  PROVE  PrintfInv'
<1>1. /\ Asked /\ stage \in Stages /\ flags \subseteq Flags /\ Sequence(out)
      /\ Followed => /\ field_width \in Int /\ precision \in Int /\ stored \in Nat
                     /\ out \in Seq(Seq(Ascii))
      /\ PiecesRight /\ pos \in 1 .. (Len(format) + 1)
  BY DEF PrintfInv
<1>2. Steady
  BY <1>1, StaySteady
<1>3. work' = work /\ stage # "idle"
  BY <1>2 DEF Steady
<1>4. PICK f, a : Placed(f, a) /\ (Followed => Follow(f, a))
  BY <1>3 DEF PrintfInv
<1>5. PICK n \in Nat : n = Len(out)
  BY <1>1, Appended
<1>6. Count \in Nat
  BY <1>1 DEF Asked, Count
<1>7. CASE Text
  <2>1. out' = Append(out, <<Char>>) /\ stage' = "text" /\ stage = "text"
    BY <1>7 DEF Text
  <2>2. Len(out') = n + 1 /\ Sequence(out')
    BY <1>1, <1>5, <2>1, Appended
  <2>3. Now = n /\ Now' = n + 1
    BY <1>5, <2>1, <2>2 DEF Now, Between
  <2>4. CASE ~Followed
    <3>1. Now \in Nat /\ Now' \in Nat /\ Now <= Now'
      BY <2>3
    <3>2. \E x : out' = Append(out, x)
      BY <2>1, Zenon
    <3> QED
      BY <1>2, <2>4, <3>1, <3>2, Astray
  <2>5. CASE Followed
    <3>1. n <= Count
      BY <2>3, <2>5 DEF Followed
    <3>2. /\ n + 1 \in 1 .. Count /\ Follow(f, a)' /\ Char \in Ascii
          /\ PieceRight(work.items[n + 1], <<Char>>)
      BY <1>1, <1>4, <1>5, <1>7, <2>5, <3>1, TextFollows
    <3>3. PiecesRight'
      BY <1>1, <1>3, <1>5, <2>1, <3>2, OneMore
    <3>4. out' \in Seq(Seq(Ascii))
      <4>1. <<Char>> \in Seq(Ascii)
        BY <3>2
      <4> DEFINE T == Seq(Ascii)
      <4>2. <<Char>> \in T /\ out \in Seq(T)
        BY <1>1, <2>5, <4>1
      <4> HIDE DEF T
      <4>3. out' \in Seq(T)
        BY <2>1, <4>2
      <4> QED
        BY <4>3 DEF T
    <3>5. field_width' = field_width /\ precision' = precision /\ stored' = stored
      BY <1>7 DEF Text, directive
    <3>6. Now' <= Count
      BY <1>6, <2>3, <3>2
    <3> QED
      BY <1>1, <1>2, <1>4, <2>2, <2>5, <3>2, <3>3, <3>4, <3>5, <3>6, OnTheWay
  <2> QED
    BY <2>4, <2>5
<1>8. CASE Percent \/ WriteOut
  <2>1. /\ out' = out /\ stage = "text" /\ stage' \in {"flags", "written"}
        /\ field_width' = field_width /\ precision' = precision /\ stored' = stored
    BY <1>8 DEF Percent, WriteOut, directive
  <2>2. Now = n /\ Now' = IF stage' = "written" THEN n ELSE n + 1
    BY <1>5, <2>1 DEF Now, Between
  <2>3. PiecesRight' /\ Sequence(out')
    BY <1>1, <1>3, <2>1, SamePieces
  <2>4. CASE ~Followed
    <3>1. Now \in Nat /\ Now' \in Nat /\ Now <= Now'
      BY <2>2
    <3> QED
      BY <1>2, <2>1, <2>4, <3>1, Astray
  <2>5. CASE Followed
    <3>1. n <= Count
      BY <2>2, <2>5 DEF Followed
    <3>2. Follow(f, a)' /\ Now' <= Count
      <4>1. CASE Percent
        <5>1. n + 1 \in 1 .. Count /\ Follow(f, a)'
          BY <1>1, <1>4, <1>5, <2>5, <3>1, <4>1, PercentFollows
        <5>2. stage' = "flags"
          BY <4>1 DEF Percent
        <5> QED
          BY <1>6, <2>2, <5>1, <5>2
      <4>2. CASE WriteOut
        <5>1. Follow(f, a)'
          BY <1>1, <1>4, <1>5, <2>5, <3>1, <4>2, WriteOutFollows
        <5>2. stage' = "written"
          BY <4>2 DEF WriteOut
        <5> QED
          BY <2>2, <3>1, <5>1, <5>2
      <4> QED
        BY <1>8, <4>1, <4>2
    <3>3. out' \in Seq(Seq(Ascii))
      BY <1>1, <2>1, <2>5
    <3> QED
      BY <1>1, <1>2, <1>4, <2>1, <2>3, <2>5, <3>2, <3>3, OnTheWay
  <2> QED
    BY <2>4, <2>5
<1>9. CASE Flag \/ FieldWidth(star) \/ Precision \/ Qualifier
  <2>1. out' = out /\ stage \notin Between /\ stage' \notin Between /\ stored' = stored
    BY <1>9 DEF Flag, FieldWidth, Precision, Qualifier, Between
  <2>2. Now = n + 1 /\ Now' = n + 1
    BY <1>5, <2>1 DEF Now
  <2>3. PiecesRight' /\ Sequence(out')
    BY <1>1, <1>3, <2>1, SamePieces
  <2>4. CASE ~Followed
    BY <1>2, <2>1, <2>2, <2>4, Astray
  <2>5. CASE Followed
    <3>1. n + 1 <= Count /\ Handled(work.program, work.items[n + 1])
      BY <2>2, <2>5, OneLess DEF Followed
    <3>2. /\ Follow(f, a)'
          /\ field_width \in Int => field_width' \in Int
          /\ precision \in Int => precision' \in Int
      BY <1>1, <1>4, <1>5, <1>9, <2>5, <3>1, PartFollows
    <3>3. out' \in Seq(Seq(Ascii))
      BY <1>1, <2>1, <2>5
    <3> QED
      BY <1>1, <1>2, <1>4, <2>1, <2>2, <2>3, <2>5, <3>1, <3>2, <3>3, OnTheWay
  <2> QED
    BY <2>4, <2>5
<1>10. CASE Convert
  <2>1. /\ out' = Append(out, Piece) /\ stage = "convert" /\ stage' = "text"
        /\ field_width' = field_width /\ precision' = precision
        /\ stored' = IF Char = "n" THEN Len(FlattenSeq(out)) ELSE stored
    BY <1>10 DEF Convert, directive
  <2>2. Len(out') = n + 1 /\ Sequence(out')
    BY <1>1, <1>5, <2>1, Appended
  <2>3. Now = n + 1 /\ Now' = n + 1
    BY <1>5, <2>1, <2>2 DEF Now, Between
  <2>4. CASE ~Followed
    <3>1. Now \in Nat /\ Now' \in Nat /\ Now <= Now'
      BY <2>3
    <3>2. \E x : out' = Append(out, x)
      BY <2>1, Zenon
    <3> QED
      BY <1>2, <2>4, <3>1, <3>2, Astray
  <2>5. CASE Followed
    <3>1. n + 1 <= Count /\ Handled(work.program, work.items[n + 1])
      BY <2>3, <2>5, OneLess DEF Followed
    <3>2. /\ Follow(f, a)' /\ Piece \in Seq(Ascii)
          /\ PieceRight(work.items[n + 1], Piece)
      BY <1>1, <1>4, <1>5, <1>10, <2>5, <3>1, ConvertFollows
    <3>3. PiecesRight'
      BY <1>1, <1>3, <1>5, <2>1, <3>2, OneMore
    <3>4. out' \in Seq(Seq(Ascii))
      <4> DEFINE T == Seq(Ascii)
      <4>2. Piece \in T /\ out \in Seq(T)
        BY <1>1, <2>5, <3>2
      <4> HIDE DEF T
      <4>3. out' \in Seq(T)
        BY <2>1, <4>2
      <4> QED
        BY <4>3 DEF T
    <3>5. stored' \in Nat
      <4>1. FlattenSeq(out) \in Seq(Ascii)
        BY <1>1, <2>5, FlattenLaid
      <4>2. Len(FlattenSeq(out)) \in Nat
        BY <4>1
      <4> QED
        BY <1>1, <2>1, <2>5, <4>2
    <3> QED
      BY <1>1, <1>2, <1>4, <2>1, <2>2, <2>3, <2>5, <3>1, <3>2, <3>3, <3>4, <3>5, OnTheWay
  <2> QED
    BY <2>4, <2>5
<1> QED
  BY <1>7, <1>8, <1>9, <1>10

(* It holds at first. *)
LEMMA AtFirst == PrintfInit => PrintfInv
<1> SUFFICES ASSUME PrintfInit PROVE PrintfInv
  OBVIOUS
<1>1. /\ work = NoWork /\ format = <<>> /\ pos = 1 /\ args = <<>> /\ flags = {}
      /\ field_width = -1 /\ precision = -1 /\ stage = "idle" /\ out = <<>> /\ stored = 0
  BY DEF PrintfInit
<1>2. work.program = "none" /\ work.items = <<>>
  BY <1>1 DEF NoWork
<1>3. Count = 0 /\ Now = 0
  BY <1>1, <1>2 DEF Count, Now, Between
<1>4. Asked
  BY <1>1, <1>2, <1>3 DEF Asked
<1>5. Sequence(out) /\ out \in Seq(Seq(Ascii))
  BY <1>1 DEF Sequence
<1>6. PiecesRight
  BY <1>1 DEF PiecesRight
<1>7. stage \in Stages /\ flags \subseteq Flags /\ pos \in 1 .. (Len(format) + 1)
  <2>1. Len(format) = 0 /\ 1 \in 1 .. (0 + 1)
    BY <1>1
  <2> QED
    BY <1>1, <2>1 DEF Stages, Between
<1> QED
  BY <1>1, <1>3, <1>4, <1>5, <1>6, <1>7 DEF PrintfInv

(* It holds when printf is called. *)
LEMMA CallKeeps == PrintfInv /\ Call => PrintfInv'
<1> SUFFICES ASSUME PrintfInv, Call PROVE PrintfInv'
  OBVIOUS
<1>1. PICK c \in Calls :
        /\ work' = c
        /\ format' = FlattenSeq([k \in DOMAIN c.items |-> Written(c.items[k])])
        /\ args' = FlattenSeq([k \in DOMAIN c.items |-> Arguments(c.items[k])])
  BY DEF Call
<1>2. /\ stage = "idle" /\ stage' = "text" /\ pos' = pos /\ flags' = flags
      /\ field_width' = field_width /\ precision' = precision /\ out' = out /\ stored' = stored
  BY DEF Call, directive
<1>3. work = NoWork /\ out = <<>> /\ pos = 1 /\ flags \subseteq Flags
  BY <1>2 DEF PrintfInv
<1>4. Len(out) = 0 /\ Count = 0 /\ Now = 0
  BY <1>2, <1>3 DEF Count, Now, Between, NoWork
<1>5. field_width \in Int /\ precision \in Int /\ stored \in Nat /\ out \in Seq(Seq(Ascii))
  BY <1>4 DEF PrintfInv, Followed, InStep
<1>6. /\ c.program \in {"loader", "kernel"} /\ c.items \in Seq(Items)
      /\ \A k \in 1 .. (Len(c.items) - 1) : Directive(c.items[k]) => c.items[k].conversion # NUL
  BY PrintfAssumption
<1>7. PICK n \in Nat : n = Len(c.items)
  BY <1>6
<1>8. DOMAIN c.items = 1 .. n /\ \A k \in 1 .. n : c.items[k] \in Items
  BY <1>6, <1>7
<1>9. AllWritten' = [k \in DOMAIN c.items |-> Written(c.items[k])]
  BY <1>1 DEF AllWritten
<1>10. AllArguments' = [k \in DOMAIN c.items |-> Arguments(c.items[k])]
  BY <1>1 DEF AllArguments
<1>11. format' = FlattenSeq(AllWritten') /\ args' = FlattenSeq(AllArguments')
  BY <1>1, <1>9, <1>10
<1>12. AllWritten' \in Seq(Seq(Ascii))
  <2>1. \A k \in 1 .. n : Written(c.items[k]) \in Seq(Ascii)
    BY <1>8, WrittenIs
  <2> QED
    BY <1>7, <1>8, <1>9, <2>1
<1>13. AllArguments' \in Seq(Seq(Values))
  <2>1. \A k \in 1 .. n : Arguments(c.items[k]) \in Seq(Values)
    BY <1>8, ArgumentsAre
  <2> QED
    BY <1>7, <1>8, <1>10, <2>1
<1>14. PICK ws, as : ws = AllWritten' /\ as = AllArguments'
  OBVIOUS
<1>15. format' \in Seq(Ascii) /\ \E f : Laid(f, ws, format')
  BY <1>11, <1>12, <1>14, FlattenLaid
<1>16. args' \in Seq(Values) /\ \E a : Laid(a, as, args')
  BY <1>11, <1>13, <1>14, FlattenLaid
<1>17. PICK f, a : Laid(f, ws, format') /\ Laid(a, as, args')
  BY <1>15, <1>16
<1>18. Passing' = args'
  BY <1>11 DEF Passing
<1>19. Placed(f, a)'
  BY <1>14, <1>17, <1>18 DEF Placed
<1>20. f[0] = 0 /\ a[0] = 0
  BY <1>17 DEF Laid
<1>21. Leaves(args', args', 0)
  <2>1. \A T : \A s \in Seq(T) : Len(s) \in Nat
    OBVIOUS
  <2>2. Len(args') \in Nat
    BY <1>16, <2>1
  <2>3. \A x \in 1 .. Len(args') : 0 + x = x
    BY <2>2
  <2> QED
    BY <1>16, <2>2, <2>3 DEF Leaves
<1>22. Follow(f, a)'
  BY <1>2, <1>3, <1>4, <1>18, <1>20, <1>21 DEF Follow, Between
<1>23. Asked'
  BY <1>1, <1>6, <1>15 DEF Asked, Count
<1>24. Now' = 0 /\ Count' \in Nat
  BY <1>1, <1>2, <1>4, <1>7 DEF Now, Between, Count
<1>25. PiecesRight'
  BY <1>2, <1>4 DEF PiecesRight
<1>26. Sequence(out')
  BY <1>2, <1>3 DEF Sequence
<1>27. pos' \in 1 .. (Len(format') + 1)
  <2>1. Len(format') \in Nat
    BY <1>15
  <2> QED
    BY <1>2, <1>3, <2>1
<1>28. stage' \in Stages /\ stage' # "idle"
  BY <1>2 DEF Stages, Between
<1> QED
  BY <1>2, <1>3, <1>5, <1>19, <1>22, <1>23, <1>24, <1>25, <1>26, <1>28, <1>27 DEF PrintfInv

(* Every step keeps it. *)
LEMMA PrintfKeeps == PrintfInv /\ [PrintfNext]_printf => PrintfInv'
<1>1. PrintfInv /\ LoaderVsprintf => PrintfInv'
  <2> SUFFICES ASSUME PrintfInv, LoaderVsprintf PROVE PrintfInv'
    OBVIOUS
  <2>1. \/ Text \/ Percent \/ Flag \/ Precision \/ Qualifier \/ Convert \/ WriteOut
        \/ FieldWidth(1)
    BY DEF LoaderVsprintf, Vsprintf
  <2> QED
    BY <2>1, StepKeeps
<1>2. PrintfInv /\ KernelVsprintf => PrintfInv'
  <2> SUFFICES ASSUME PrintfInv, KernelVsprintf PROVE PrintfInv'
    OBVIOUS
  <2>1. /\ work.program = "kernel"
        /\ \/ Text \/ Percent \/ Flag \/ Precision \/ Qualifier \/ Convert \/ WriteOut
           \/ FieldWidth(0)
    BY DEF KernelVsprintf, Vsprintf
  <2> QED
    BY <2>1, StepKeeps
<1>3. PrintfInv /\ UNCHANGED printf => PrintfInv'
  <2> SUFFICES ASSUME PrintfInv, UNCHANGED printf PROVE PrintfInv'
    OBVIOUS
  <2>1. /\ work' = work /\ format' = format /\ pos' = pos /\ args' = args /\ stage' = stage
        /\ flags' = flags /\ field_width' = field_width /\ precision' = precision /\ out' = out
        /\ stored' = stored
    BY DEF printf, directive
  <2>2. Asked' /\ Sequence(out)' /\ Count' = Count /\ Now' = Now /\ (\A k : InStep(k)' <=> InStep(k))
    BY <2>1 DEF PrintfInv, Asked, Sequence, Count, Now, InStep
  <2>3. AllWritten' = AllWritten /\ AllArguments' = AllArguments
    BY <2>1 DEF AllWritten, AllArguments
  <2>4. Passing' = Passing
    BY <2>3 DEF Passing
  <2>5. \A f, a : Placed(f, a)' <=> Placed(f, a)
    BY <2>1, <2>3, <2>4 DEF Placed
  <2>6. Followed' <=> Followed
    BY <2>1, <2>2 DEF Followed, InStep
  <2>7. \A f, a : Follow(f, a)' <=> Follow(f, a)
    BY <2>1, <2>2, <2>4 DEF Follow, Inside, InFlags
  <2>8. PiecesRight'
    BY <2>1, SamePieces DEF PrintfInv
  <2> QED
    BY <2>1, <2>2, <2>5, <2>6, <2>7, <2>8 DEF PrintfInv
<1> QED
  BY <1>1, <1>2, <1>3, CallKeeps DEF PrintfNext

(* So it always holds. *)
LEMMA PrintfInvariant == PrintfInit /\ [][PrintfNext]_printf => []PrintfInv
  BY AtFirst, PrintfKeeps, PTL

(* What it means for the pieces. *)
LEMMA FieldsFollow == PrintfInv => FieldsRight
<1> SUFFICES ASSUME PrintfInv, NEW k \in DOMAIN out, InStep(k) PROVE PieceRight(work.items[k], out[k])
  BY DEF FieldsRight
<1>1. Asked /\ Sequence(out) /\ PiecesRight /\ (Now > Count => ~InStep(Count))
  BY DEF PrintfInv
<1>2. PICK n \in Nat : n = Len(out) /\ DOMAIN out = 1 .. n
  BY <1>1, Appended
<1>3. PICK m \in Nat : m = Count
  BY <1>1 DEF Asked, Count
<1>4. k \in 1 .. n
  BY <1>2
<1>5. k <= m
  <2> SUFFICES ASSUME ~(k <= m) PROVE FALSE
    OBVIOUS
  <2>1. Now > Count
    BY <1>2, <1>3, <1>4 DEF Now
  <2>2. 1 .. m \subseteq 1 .. k
    BY <1>3, <1>4
  <2>3. InStep(Count)
    BY <1>3, <2>2 DEF InStep
  <2> QED
    BY <1>1, <2>1, <2>3
<1> QED
  BY <1>1, <1>2, <1>3, <1>4, <1>5 DEF PiecesRight

(* When all items are handled, vsprintf has not passed any that it did not handle. *)
LEMMA Reaches ==
  ASSUME PrintfInv, InStep(Count)
  PROVE  Now <= Count /\ Len(out) \in Nat /\ Count \in Nat /\ \A i \in 0 .. Count : InStep(i)
<1>1. Asked /\ Sequence(out) /\ (Now > Count => ~InStep(Count))
  BY DEF PrintfInv
<1>2. Len(out) \in Nat
  BY <1>1, Appended
<1>3. Count \in Nat
  BY <1>1 DEF Asked, Count
<1>4. Now \in Nat
  BY <1>2 DEF Now
<1>5. \A i \in 0 .. Count : 1 .. i \subseteq 1 .. Count
  BY <1>3
<1> QED
  BY <1>1, <1>2, <1>3, <1>4, <1>5 DEF InStep

(* What it means for the arguments. *)
LEMMA ArgumentsFollow == PrintfInv => ArgumentsInStep
<1> SUFFICES ASSUME PrintfInv, stage = "written", InStep(Len(work.items))
             PROVE  Len(out) = Len(work.items) /\ args = <<>>
  BY DEF ArgumentsInStep
<1>1. Now <= Count /\ Count \in Nat /\ Len(out) \in Nat /\ \A i \in 0 .. Count : InStep(i)
  BY Reaches DEF Count
<1>2. Now = Len(out)
  BY DEF Now, Between
<1>3. Followed
  BY <1>1, <1>2 DEF Followed
<1>4. PICK f, a : Placed(f, a) /\ Follow(f, a)
  BY <1>3 DEF PrintfInv
<1>5. Len(out) = Count /\ Leaves(args, Passing, a[Count])
  BY <1>4 DEF Follow, Between
<1>6. a[Count] = Len(Passing)
  BY <1>4, WholeLaid DEF PrintfInv
<1>7. PICK l \in Nat, n \in Nat : l = Len(Passing) /\ n = Len(args)
  BY <1>5 DEF Leaves
<1>8. l + n = l
  BY <1>5, <1>6, <1>7 DEF Leaves
<1>9. n = 0
  BY <1>8
<1>10. args = <<>>
  <2> DEFINE T == Values
  <2>1. \A s \in Seq(T) : Len(s) = 0 => s = <<>>
    OBVIOUS
  <2>2. args \in Seq(T)
    BY <1>5 DEF Leaves
  <2> HIDE DEF T
  <2> QED
    BY <1>7, <1>9, <2>1, <2>2
<1> QED
  BY <1>5, <1>10 DEF Count

(* What it means for the types. *)
LEMMA TypesFollow == PrintfInv => PrintfTypeOK
<1> SUFFICES ASSUME PrintfInv PROVE PrintfTypeOK
  OBVIOUS
<1>1. /\ stage \in Stages /\ flags \subseteq Flags /\ pos \in 1 .. (Len(format) + 1)
      /\ Followed => /\ field_width \in Int /\ precision \in Int /\ stored \in Nat
                     /\ out \in Seq(Seq(Ascii))
  BY DEF PrintfInv
<1>2. stage \in {"idle", "text", "flags", "precision", "qualifier", "convert", "written"}
  BY <1>1 DEF Stages, Between
<1>3. ASSUME InStep(Len(work.items))
      PROVE  /\ field_width \in Int /\ precision \in Int /\ stored \in Nat
             /\ \A k \in DOMAIN out : out[k] \in Seq(Ascii)
  <2>1. Now <= Count /\ Len(out) \in Nat /\ Count \in Nat /\ \A i \in 0 .. Count : InStep(i)
    BY <1>3, Reaches DEF Count
  <2>2. Now \in 0 .. Count
    BY <2>1 DEF Now
  <2>3. Followed
    BY <2>1, <2>2 DEF Followed
  <2> DEFINE T == Seq(Ascii)
  <2>4. \A s \in Seq(T) : \A k \in DOMAIN s : s[k] \in T
    OBVIOUS
  <2>5. out \in Seq(T)
    BY <1>1, <2>3
  <2> HIDE DEF T
  <2>6. \A k \in DOMAIN out : out[k] \in T
    BY <2>4, <2>5
  <2> QED
    BY <1>1, <2>3, <2>6 DEF T
<1> QED
  BY <1>1, <1>2, <1>3 DEF PrintfTypeOK
-----------------------------------------------------------------------------
(* What printf promises.                                                    *)

(* Every directive puts out its number, character or string as its flags,   *)
(* width and precision ask, whatever the directives before it were, as long *)
(* as vsprintf handles them.                                                *)
THEOREM FieldsComeOut == PrintfInit /\ [][PrintfNext]_printf => []FieldsRight
  BY PrintfInvariant, FieldsFollow, PTL

(* A format of directives that are handled takes the arguments passed for   *)
(* it, each of them once, and puts out one piece for every item.            *)
THEOREM ArgumentsKeepStep == PrintfInit /\ [][PrintfNext]_printf => []ArgumentsInStep
  BY PrintfInvariant, ArgumentsFollow, PTL

(* vsprintf stays in the format whatever is in it; what it has found and    *)
(* put out has its type as long as arguments are taken for what they are.   *)
THEOREM PrintfTypeCorrect == PrintfInit /\ [][PrintfNext]_printf => []PrintfTypeOK
  BY PrintfInvariant, TypesFollow, PTL
=============================================================================
