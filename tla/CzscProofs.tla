------------------------------ MODULE CzscProofs ------------------------------
(* Proofs about the chan analysis (CzscEngine) and the command that feeds it  *)
(* (CzscLoop).  First the operators: what merging a bar, looking for fractals *)
(* and looking for a stroke leave of a sequence of bars; then what a finished *)
(* stroke and the bars after it are to each other, and that no step breaks it *)
(* (EngInv); then the properties, and the rounds of the command.              *)

EXTENDS CzscEngine, CzscLoop, WellFoundedInduction, FiniteSetTheorems, TLAPS

(* The least element of a set of numbers: what the proofs use for induction,  *)
(* as no prover here can instantiate the induction theorems of the library.   *)
LEMMA Least ==
    ASSUME NEW T \in SUBSET Nat, T # {}
    PROVE  \E n \in T : \A m \in T : n <= m
<1> DEFINE R == OpToRel(<, Nat)
<1>1. IsWellFoundedOn(R, Nat)
  BY NatLessThanWellFounded, Zenon
<1>2. \A m, n \in T : m < n => <<m, n>> \in R
  BY DEF OpToRel
<1> HIDE DEF R
<1>3. PICK n \in T : \A m \in T : <<m, n>> \notin R
  BY <1>1, WFMin, Zenon
<1>4. \A m \in T : ~(m < n)
  BY <1>2, <1>3
<1> QED
  BY <1>4

(* Induction over 0 .. N in the same form: a set that 0 is in and that is     *)
(* closed under the successor.                                                *)
LEMMA UpTo ==
    ASSUME NEW N \in Nat, NEW P, 0 \in P, \A n \in 1 .. N : n - 1 \in P => n \in P
    PROVE  0 .. N \subseteq P
<1> SUFFICES ASSUME ~(0 .. N \subseteq P) PROVE FALSE
  OBVIOUS
<1> DEFINE T == (0 .. N) \ P
<1>1. PICK n \in T : \A m \in T : n <= m
  <2>1. T \in SUBSET Nat /\ T # {}
    OBVIOUS
  <2> HIDE DEF T
  <2> QED
    BY <2>1, Least
<1>2. n \in 1 .. N /\ n - 1 \in 0 .. N /\ n - 1 \notin T
  BY <1>1
<1> QED
  BY <1>1, <1>2

(* A sequence of values, each made of the one before it.                      *)
Steps(g, x, N, f) == g[0] = x /\ \A n \in 1 .. N : g[n] = f[n][g[n - 1]]

(* What is defined step by step from 0 to N exists.                           *)
LEMMA StepByStep ==
    ASSUME NEW X, NEW x \in X, NEW N \in Nat, NEW f \in [1 .. N -> [X -> X]]
    PROVE  \E g \in [0 .. N -> X] : Steps(g, x, N, f)
<1> DEFINE Right(m, g) == g[0] = x /\ \A n \in 1 .. m : g[n] = f[n][g[n - 1]]
           P == {m \in 0 .. N : \E g \in [0 .. m -> X] : Right(m, g)}
<1>1. 0 \in P
  <2>2. 1 .. 0 = {} /\ 0 \in 0 .. 0
    OBVIOUS
  <2>1. [n \in 0 .. 0 |-> x] \in [0 .. 0 -> X] /\ Right(0, [n \in 0 .. 0 |-> x])
    BY <2>2
  <2>3. \E g \in [0 .. 0 -> X] : Right(0, g)
    BY <2>1
  <2> HIDE DEF Right
  <2> QED
    BY <2>3
<1>2. ASSUME NEW m \in 1 .. N, m - 1 \in P PROVE m \in P
  <2>1. PICK g \in [0 .. m - 1 -> X] : Right(m - 1, g)
    BY <1>2
  <2> DEFINE h == [n \in 0 .. m |-> IF n = m THEN f[m][g[m - 1]] ELSE g[n]]
  <2>2. h \in [0 .. m -> X]
    BY <2>1
  <2>3. Right(m, h)
    BY <2>1
  <2> HIDE DEF Right, h
  <2> QED
    BY <2>2, <2>3
<1>3. N \in P
  <2> HIDE DEF P
  <2>1. N \in 0 .. N
    OBVIOUS
  <2> QED
    BY <1>1, <1>2, <2>1, UpTo
<1> QED
  BY <1>3 DEF Steps

(* The concatenation of two sequences, element by element.                    *)
LEMMA Joined ==
    ASSUME NEW S, NEW s \in Seq(S), NEW t \in Seq(S)
    PROVE  /\ s \o t \in Seq(S) /\ Len(s \o t) = Len(s) + Len(t)
           /\ \A i \in 1 .. Len(s) : (s \o t)[i] = s[i]
           /\ \A i \in 1 .. Len(t) : (s \o t)[Len(s) + i] = t[i]
           /\ \A i \in Len(s) + 1 .. Len(s) + Len(t) : (s \o t)[i] = t[i - Len(s)]
OBVIOUS

(* The first entry of a sequence, and the others.                             *)
LEMMA HeadTail ==
    ASSUME NEW S, NEW s \in Seq(S), s # <<>>
    PROVE  Head(s) \in S /\ Tail(s) \in Seq(S)
OBVIOUS

(* Small numbers. *)
LEMMA Sizes ==
    ASSUME NEW k \in Nat
    PROVE  /\ k >= 1 => k = 1 \/ k >= 2
           /\ k >= 2 => (k >= 3 \/ k = 2) /\ ~(k = 1)
           /\ k >= 3 => ~(k = 2)
OBVIOUS

(* The entries at an interval of indices are a piece of the sequence.         *)
LEMMA AtInterval ==
    ASSUME NEW S, NEW s \in Seq(S), NEW a \in 1 .. Len(s) + 1, NEW b \in 0 .. Len(s), a <= b + 1
    PROVE  At(s, a .. b) = SubSeq(s, a, b)
<1>1. Cardinality(a .. b) = b + 1 - a
  <2>1. a \in Int /\ b \in Int /\ (a > b => a = b + 1)
    OBVIOUS
  <2>2. Cardinality(a .. b) = IF a > b THEN 0 ELSE b - a + 1
    BY <2>1, FS_Interval
  <2> QED
    BY <2>1, <2>2
<1>2. ASSUME NEW i \in a .. b PROVE Cardinality({j \in a .. b : j <= i}) = i + 1 - a
  <2>1. {j \in a .. b : j <= i} = a .. i
    OBVIOUS
  <2>2. Cardinality(a .. i) = i + 1 - a
    BY FS_Interval
  <2> QED
    BY <2>1, <2>2
<1>3. ASSUME NEW n \in 1 .. b + 1 - a
      PROVE  (CHOOSE i \in a .. b : Cardinality({j \in a .. b : j <= i}) = n) = a + n - 1
  <2>1. a + n - 1 \in a .. b /\ a + n - 1 + 1 - a = n
    OBVIOUS
  <2>2. \A i \in a .. b : Cardinality({j \in a .. b : j <= i}) = n <=> i = a + n - 1
    BY <1>2, <2>1
  <2> QED
    BY <2>1, <2>2
<1>4. SubSeq(s, a, b) = [n \in 1 .. b + 1 - a |-> s[a + n - 1]]
  BY SMT
<1> QED
  BY <1>1, <1>3, <1>4 DEF At
(* Of finitely many numbers there is a largest, and of the places where it is *)
(* there is a first and a last.                                               *)
FirstTop(v, I, e) == \A i \in I \ {e} : v[e] > v[i] \/ (~(v[i] > v[e]) /\ e < i)
LastTop(v, I, e) == \A i \in I \ {e} : v[e] > v[i] \/ (~(v[i] > v[e]) /\ e > i)

LEMMA Tops ==
    ASSUME NEW N \in Nat, NEW I \in SUBSET (1 .. N), I # {}, NEW v \in [I -> Int]
    PROVE  (\E e \in I : FirstTop(v, I, e)) /\ (\E e \in I : LastTop(v, I, e))
<1> DEFINE Has(J) == (\E e \in J : FirstTop(v, J, e)) /\ (\E e \in J : LastTop(v, J, e))
           P == {n \in 0 .. N : \A J \in SUBSET I : J \subseteq 1 .. n /\ J # {} => Has(J)}
<1>1. 0 \in P
  <2>1. 1 .. 0 = {} /\ 0 \in 0 .. N
    OBVIOUS
  <2> HIDE DEF Has
  <2> QED
    BY <2>1
<1>2. ASSUME NEW n \in 1 .. N, n - 1 \in P PROVE n \in P
  <2>1. ASSUME NEW J \in SUBSET I, J \subseteq 1 .. n, J # {} PROVE Has(J)
    <3> DEFINE K == J \ {n}
    <3>1. K \in SUBSET I /\ K \subseteq 1 .. n - 1
      BY <2>1
    <3>2. CASE K = {}
      <4>1. J = {n}
        BY <2>1, <3>2
      <4> QED
        BY <4>1 DEF FirstTop, LastTop
    <3>3. CASE n \notin J
      <4>1. K = J
        BY <3>3
      <4> HIDE DEF Has, K
      <4> QED
        BY <1>2, <2>1, <3>1, <4>1
    <3>4. CASE K # {} /\ n \in J
      <4>1. Has(K)
        <5> HIDE DEF Has, K
        <5> QED
          BY <1>2, <3>1, <3>4
      <4>2. \A i \in J : i \in K \/ i = n
        OBVIOUS
      <4>3. \A i \in J : v[i] \in Int /\ i \in Int /\ i <= n /\ (i \in K => i < n)
        BY <2>1, <3>1
      <4>4. \E e \in J : FirstTop(v, J, e)
        <5>1. PICK f \in K : FirstTop(v, K, f)
          BY <4>1
        <5> HIDE DEF K
        <5>2. f \in J
          BY DEF K
        <5>3. CASE v[n] > v[f]
          <6>1. FirstTop(v, J, n)
            BY <3>4, <4>2, <4>3, <5>1, <5>2, <5>3 DEF FirstTop
          <6> QED
            BY <3>4, <6>1
        <5>4. CASE ~(v[n] > v[f])
          <6>1. FirstTop(v, J, f)
            BY <3>4, <4>2, <4>3, <5>1, <5>2, <5>4 DEF FirstTop
          <6> QED
            BY <5>2, <6>1
        <5> QED
          BY <5>3, <5>4
      <4>5. \E e \in J : LastTop(v, J, e)
        <5>1. PICK l \in K : LastTop(v, K, l)
          BY <4>1
        <5> HIDE DEF K
        <5>2. l \in J
          BY DEF K
        <5>3. CASE v[l] > v[n]
          <6>1. LastTop(v, J, l)
            BY <3>4, <4>2, <4>3, <5>1, <5>2, <5>3 DEF LastTop
          <6> QED
            BY <5>2, <6>1
        <5>4. CASE ~(v[l] > v[n])
          <6>1. LastTop(v, J, n)
            BY <3>4, <4>2, <4>3, <5>1, <5>2, <5>4 DEF LastTop
          <6> QED
            BY <3>4, <6>1
        <5> QED
          BY <5>3, <5>4
      <4> QED
        BY <4>4, <4>5
    <3> QED
      BY <3>2, <3>3, <3>4
  <2> HIDE DEF Has
  <2> QED
    BY <2>1
<1>3. N \in P
  <2> HIDE DEF P
  <2> QED
    BY <1>1, <1>2, UpTo
<1> HIDE DEF Has
<1>4. Has(I)
  BY <1>3
<1> QED
  BY <1>4 DEF Has

-----------------------------------------------------------------------------
(* Bars.  A merged bar has raw bars of rising dts, the bars of a sequence     *)
(* follow each other in time.                                                 *)
RawBars == [dt : Nat, hi : Int, lo : Int]
UbiBars == [dt : Nat, hi : Int, lo : Int, elements : Seq(RawBars)]
Newest(k) == k.elements[Len(k.elements)].dt
Rising(e) == \A i, j \in 1 .. Len(e) : i < j => e[i].dt < e[j].dt
Dated(k) ==
    /\ k.elements # <<>> /\ Rising(k.elements)
    /\ k.elements[1].dt <= k.dt /\ k.dt <= Newest(k)
Before(k, j) == Newest(k) < j.elements[1].dt
Sound(s) ==
    /\ s \in Seq(UbiBars) /\ \A i \in 1 .. Len(s) : Dated(s[i])
    /\ \A i, j \in 1 .. Len(s) : i < j => Before(s[i], s[j])

(* The dts of one bar.                                                        *)
LEMMA BarDates ==
    ASSUME NEW k \in UbiBars, Dated(k)
    PROVE  /\ k.elements \in Seq(RawBars) /\ Len(k.elements) \in Nat \ {0}
           /\ k.elements[1] \in RawBars /\ k.elements[1].dt \in Nat
           /\ Newest(k) \in Nat /\ k.dt \in Nat /\ k.hi \in Int /\ k.lo \in Int
           /\ k.elements[1].dt <= k.dt /\ k.dt <= Newest(k)
           /\ \A i \in 1 .. Len(k.elements) : k.elements[i].dt \in Nat /\ k.elements[i].dt <= Newest(k)
<1> USE DEF Dated, Newest
<1>1. k.elements \in Seq(RawBars) /\ k.dt \in Nat /\ k.hi \in Int /\ k.lo \in Int
  BY DEF UbiBars
<1> DEFINE e == k.elements
<1>2. e \in Seq(RawBars) /\ e # <<>> /\ Rising(e)
  BY <1>1
<1> HIDE DEF e
<1>3. Len(e) \in Nat \ {0} /\ \A i \in 1 .. Len(e) : e[i] \in RawBars
  BY <1>2
<1>4. \A i \in 1 .. Len(e) : e[i].dt \in Nat
  BY <1>3 DEF RawBars
<1>5. \A i \in 1 .. Len(e) : e[i].dt <= e[Len(e)].dt
  BY <1>2, <1>3, <1>4 DEF Rising
<1> QED
  BY <1>1, <1>3, <1>4, <1>5 DEF e

(* A newer raw bar merged in: it moves both prices the same way, and none of  *)
(* the raw bars goes, for none has its dt.                                    *)
LEMMA MergedBar ==
    ASSUME NEW k1 \in UbiBars, NEW k2 \in UbiBars, NEW b \in RawBars, Dated(k2), Newest(k2) < b.dt,
           NEW k, k = Merged(k1, k2, b)
    PROVE  /\ k \in UbiBars /\ Dated(k) /\ Newest(k) = b.dt
           /\ k.elements = Append(k2.elements, b) /\ k.elements[1] = k2.elements[1]
           /\ k.dt >= k2.dt
           /\ k1.hi < k2.hi => k.hi >= k2.hi /\ k.lo >= k2.lo
           /\ ~(k1.hi < k2.hi) => k.hi <= k2.hi /\ k.lo <= k2.lo
<1> DEFINE e == k2.elements
           n == Len(e)
<1>1. /\ e \in Seq(RawBars) /\ n \in Nat \ {0} /\ Rising(e)
      /\ e[1].dt \in Nat /\ e[1].dt <= k2.dt /\ k2.dt <= Newest(k2) /\ Newest(k2) \in Nat
      /\ \A i \in 1 .. n : e[i].dt \in Nat /\ e[i].dt <= Newest(k2)
  BY BarDates DEF Dated
<1>2. /\ k1.hi \in Int /\ k2.hi \in Int /\ k2.lo \in Int /\ k2.dt \in Nat
      /\ b.dt \in Nat /\ b.hi \in Int /\ b.lo \in Int
  BY DEF UbiBars, RawBars
<1>3. At(e, {i \in 1 .. n : e[i].dt # b.dt}) = e
  <2>1. {i \in 1 .. n : e[i].dt # b.dt} = 1 .. n
    <3>1. \A i \in 1 .. n : e[i].dt # b.dt
      BY <1>1, <1>2
    <3> HIDE DEF e, n
    <3> QED
      BY <3>1
  <2>2. 1 \in 1 .. n + 1 /\ n \in 0 .. n /\ 1 <= n + 1 /\ n = Len(e)
    BY <1>1
  <2> HIDE DEF e, n
  <2>3. At(e, 1 .. n) = SubSeq(e, 1, n)
    BY <1>1, <2>2, AtInterval
  <2>4. SubSeq(e, 1, n) = e
    BY <1>1, <2>2
  <2> QED
    BY <2>1, <2>3, <2>4
<1>4. /\ k.dt \in {k2.dt, b.dt}
      /\ k.hi = IF k1.hi < k2.hi THEN Higher(k2.hi, b.hi) ELSE Lower(k2.hi, b.hi)
      /\ k.lo = IF k1.hi < k2.hi THEN Higher(k2.lo, b.lo) ELSE Lower(k2.lo, b.lo)
      /\ k.elements = Append(e, b)
      /\ k = [dt |-> k.dt, hi |-> k.hi, lo |-> k.lo, elements |-> Append(e, b)]
  BY <1>3 DEF Merged
<1>5. /\ Append(e, b) \in Seq(RawBars) /\ Len(Append(e, b)) = n + 1
      /\ \A i \in 1 .. n : Append(e, b)[i] = e[i]
      /\ Append(e, b)[n + 1] = b
  <2> HIDE DEF e
  <2> QED
    BY <1>1
<1> HIDE DEF e, n
<1>6. k.dt \in Nat /\ k.hi \in Int /\ k.lo \in Int /\ k.dt >= k2.dt /\ k.dt <= b.dt
  BY <1>1, <1>2, <1>4 DEF Higher, Lower
<1>7. k \in UbiBars
  BY <1>4, <1>5, <1>6 DEF UbiBars
<1>8. Rising(Append(e, b))
  BY <1>1, <1>2, <1>5 DEF Rising
<1>9. Newest(k) = b.dt /\ k.elements[1] = e[1] /\ k.elements # <<>>
  BY <1>1, <1>4, <1>5 DEF Newest
<1>10. Dated(k)
  <2>1. k.elements[1].dt <= k.dt /\ k.dt <= Newest(k)
    BY <1>1, <1>2, <1>6, <1>9
  <2>2. Rising(k.elements)
    BY <1>4, <1>8
  <2> QED
    BY <1>9, <2>1, <2>2 DEF Dated
<1> QED
  BY <1>2, <1>4, <1>6, <1>7, <1>9, <1>10 DEF Higher, Lower, e

(* An entry at the end of a sequence.                                         *)
LEMMA Appended ==
    ASSUME NEW S, NEW s \in Seq(S), NEW x \in S
    PROVE  /\ Append(s, x) \in Seq(S) /\ Len(Append(s, x)) = Len(s) + 1
           /\ \A i \in 1 .. Len(s) : Append(s, x)[i] = s[i]
           /\ Append(s, x)[Len(s) + 1] = x
OBVIOUS

(* A piece of a sequence.                                                     *)
LEMMA Piece ==
    ASSUME NEW S, NEW s \in Seq(S), NEW a \in 1 .. Len(s) + 1, NEW b \in 0 .. Len(s), a <= b + 1
    PROVE  /\ SubSeq(s, a, b) \in Seq(S) /\ Len(SubSeq(s, a, b)) = b + 1 - a
           /\ \A i \in 1 .. b + 1 - a : SubSeq(s, a, b)[i] = s[a + i - 1]
OBVIOUS

(* A sequence without its last entry.                                         *)
LEMMA Fronted ==
    ASSUME NEW S, NEW s \in Seq(S), s # <<>>
    PROVE  /\ Front(s) \in Seq(S) /\ Len(Front(s)) = Len(s) - 1
           /\ \A i \in 1 .. Len(s) - 1 : Front(s)[i] = s[i]
<1> DEFINE n == Len(s) - 1
<1>1. Len(s) \in Nat \ {0} /\ 1 \in 1 .. Len(s) + 1 /\ n \in 0 .. Len(s) /\ 1 <= n + 1 /\ n \in Nat
  OBVIOUS
<1> HIDE DEF n
<1>2. /\ SubSeq(s, 1, n) \in Seq(S) /\ Len(SubSeq(s, 1, n)) = n + 1 - 1
      /\ \A i \in 1 .. n + 1 - 1 : SubSeq(s, 1, n)[i] = s[1 + i - 1]
  BY <1>1, Piece
<1>3. n + 1 - 1 = n /\ \A i \in 1 .. n : 1 + i - 1 = i
  BY <1>1
<1>4. /\ SubSeq(s, 1, n) \in Seq(S) /\ Len(SubSeq(s, 1, n)) = n
      /\ \A i \in 1 .. n : SubSeq(s, 1, n)[i] = s[i]
  BY <1>2, <1>3
<1> QED
  BY <1>4 DEF Front, n

(* A piece of a sound sequence is sound, and so is one with a later bar added. *)
LEMMA SoundPiece ==
    ASSUME NEW s, Sound(s), NEW t \in Seq(UbiBars), NEW c \in Nat, c + Len(t) <= Len(s),
           \A i \in 1 .. Len(t) : t[i] = s[c + i]
    PROVE  Sound(t)
<1>1. s \in Seq(UbiBars) /\ Len(s) \in Nat /\ Len(t) \in Nat
  BY DEF Sound
<1>2. \A i \in 1 .. Len(t) : c + i \in 1 .. Len(s)
  BY <1>1
<1>3. \A i \in 1 .. Len(t) : Dated(t[i])
  BY <1>2 DEF Sound
<1>4. ASSUME NEW i \in 1 .. Len(t), NEW j \in 1 .. Len(t), i < j PROVE Before(t[i], t[j])
  <2>1. c + i < c + j /\ c + i \in 1 .. Len(s) /\ c + j \in 1 .. Len(s)
    BY <1>1, <1>2, <1>4
  <2>2. Before(s[c + i], s[c + j])
    BY <2>1 DEF Sound
  <2> QED
    BY <2>2
<1> QED
  BY <1>3, <1>4 DEF Sound

(* The newest raw bar of a sequence is in its last bar.                       *)
LEMMA SoundBars ==
    ASSUME NEW s, Sound(s), NEW i \in 1 .. Len(s)
    PROVE  /\ s \in Seq(UbiBars) /\ Len(s) \in Nat
           /\ s[i] \in UbiBars /\ Dated(s[i]) /\ Newest(s[i]) <= Newest(s[Len(s)])
           /\ Newest(s[i]) \in Nat /\ Newest(s[Len(s)]) \in Nat
<1>1. s \in Seq(UbiBars) /\ Len(s) \in Nat /\ i \in Nat /\ Len(s) \in 1 .. Len(s)
  BY DEF Sound
<1>2. s[i] \in UbiBars /\ s[Len(s)] \in UbiBars /\ Dated(s[i]) /\ Dated(s[Len(s)])
  BY <1>1 DEF Sound
<1>3. Newest(s[i]) \in Nat /\ Newest(s[Len(s)]) \in Nat
  BY <1>2, BarDates
<1>4. s[Len(s)].elements[1].dt \in Nat /\ s[Len(s)].elements[1].dt <= Newest(s[Len(s)])
  <2>1. s[Len(s)].elements[1].dt \in Nat /\ s[Len(s)].dt \in Nat
    BY <1>2, BarDates
  <2> QED
    BY <1>2, <1>3, <2>1, BarDates DEF Dated
<1>5. CASE i < Len(s)
  <2>1. Before(s[i], s[Len(s)])
    BY <1>1, <1>5 DEF Sound
  <2> QED
    BY <1>1, <1>2, <1>3, <1>4, <2>1 DEF Before
<1> QED
  BY <1>1, <1>2, <1>3, <1>5

(* A later bar appended.                                                      *)
LEMMA SoundAppend ==
    ASSUME NEW s, Sound(s), NEW k \in UbiBars, Dated(k),
           s # <<>> => Newest(s[Len(s)]) < k.elements[1].dt
    PROVE  Sound(Append(s, k))
<1> DEFINE t == Append(s, k)
<1>1. /\ s \in Seq(UbiBars) /\ Len(s) \in Nat
      /\ t \in Seq(UbiBars) /\ Len(t) = Len(s) + 1
      /\ \A i \in 1 .. Len(s) : t[i] = s[i]
      /\ t[Len(s) + 1] = k
  <2>1. s \in Seq(UbiBars)
    BY DEF Sound
  <2> QED
    BY <2>1, Appended
<1> HIDE DEF t
<1>2. \A i \in 1 .. Len(t) : i \in 1 .. Len(s) \/ i = Len(s) + 1
  BY <1>1
<1>3. \A i \in 1 .. Len(t) : Dated(t[i])
  BY <1>1, <1>2 DEF Sound
<1>4. \A i \in 1 .. Len(s) : Before(s[i], k)
  <2> TAKE i \in 1 .. Len(s)
  <2>1. s # <<>>
    BY <1>1
  <2>2. k.elements[1].dt \in Nat
    BY BarDates
  <2>3. Newest(s[i]) <= Newest(s[Len(s)]) /\ Newest(s[i]) \in Nat /\ Newest(s[Len(s)]) \in Nat
    BY SoundBars
  <2> QED
    BY <2>1, <2>2, <2>3 DEF Before
<1>5. ASSUME NEW i \in 1 .. Len(t), NEW j \in 1 .. Len(t), i < j PROVE Before(t[i], t[j])
  <2>1. i \in 1 .. Len(s)
    BY <1>1, <1>5
  <2>2. CASE j \in 1 .. Len(s)
    BY <1>1, <1>5, <2>1, <2>2 DEF Sound
  <2>3. CASE j = Len(s) + 1
    BY <1>1, <1>4, <2>1, <2>3
  <2> QED
    BY <1>2, <2>2, <2>3
<1> QED
  BY <1>1, <1>3, <1>5 DEF Sound, t

(* A raw bar as a merged bar of its own.                                      *)
LEMMA RawBar ==
    ASSUME NEW b \in RawBars
    PROVE  /\ FromRaw(b) \in UbiBars /\ Dated(FromRaw(b)) /\ Newest(FromRaw(b)) = b.dt
           /\ FromRaw(b).elements = <<b>> /\ FromRaw(b).elements[1] = b
           /\ FromRaw(b).dt = b.dt /\ FromRaw(b).hi = b.hi /\ FromRaw(b).lo = b.lo
<1>1. b.dt \in Nat /\ b.hi \in Int /\ b.lo \in Int
  BY DEF RawBars
<1>2. <<b>> \in Seq(RawBars) /\ Len(<<b>>) = 1 /\ <<b>>[1] = b /\ <<b>> # <<>>
  OBVIOUS
<1>3. Rising(<<b>>)
  BY <1>2 DEF Rising
<1> QED
  BY <1>1, <1>2, <1>3 DEF FromRaw, UbiBars, Dated, Newest

-----------------------------------------------------------------------------
(* AddBar: a newer raw bar goes into the last bar or after it. *)
Absorbs(s, b) == Len(s) >= 2 /\ s[Len(s) - 1].hi # s[Len(s)].hi /\ Includes(s[Len(s)], b)

(* The bar is merged into the last one or appended; the others stay.          *)
LEMMA AddBarCases ==
    ASSUME NEW s, Sound(s), NEW b \in RawBars, s # <<>> => Newest(s[Len(s)]) < b.dt,
           NEW t, t = AddBar(s, b)
    PROVE  /\ s \in Seq(UbiBars) /\ Len(s) \in Nat /\ Len(t) \in Nat /\ t \in Seq(UbiBars)
           /\ Sound(t) /\ Len(t) >= 1 /\ Newest(t[Len(t)]) = b.dt
           /\ Absorbs(s, b) =>
                /\ Len(t) = Len(s) /\ Len(s) >= 2
                /\ \A i \in 1 .. Len(s) - 1 : t[i] = s[i]
                /\ t[Len(s)] = Merged(s[Len(s) - 1], s[Len(s)], b)
           /\ ~Absorbs(s, b) =>
                /\ Len(t) = Len(s) + 1
                /\ \A i \in 1 .. Len(s) : t[i] = s[i]
                /\ t[Len(s) + 1] = FromRaw(b)
<1>1. s \in Seq(UbiBars) /\ Len(s) \in Nat
  BY DEF Sound
<1>2. CASE Absorbs(s, b)
  <2> DEFINE n == Len(s)
             k == Merged(s[n - 1], s[n], b)
  <2>1. n >= 2 /\ n \in 1 .. n /\ n - 1 \in 1 .. n /\ s # <<>>
    BY <1>1, <1>2 DEF Absorbs
  <2>2. t = Append(Front(s), k)
    BY <1>2 DEF Absorbs, AddBar, Last, Last2
  <2>3. s[n - 1] \in UbiBars /\ s[n] \in UbiBars /\ Dated(s[n]) /\ Newest(s[n]) < b.dt
    BY <1>1, <2>1 DEF Sound
  <2>4. k \in UbiBars /\ Dated(k) /\ Newest(k) = b.dt /\ k.elements[1] = s[n].elements[1]
    <3> HIDE DEF k, n
    <3>1. k = Merged(s[n - 1], s[n], b)
      BY DEF k
    <3> QED
      BY <2>3, <3>1, MergedBar
  <2>5. /\ Front(s) \in Seq(UbiBars) /\ Len(Front(s)) = n - 1
        /\ \A i \in 1 .. n - 1 : Front(s)[i] = s[i]
    BY <1>1, <2>1, Fronted
  <2> HIDE DEF k
  <2>6. Sound(Front(s))
    <3>1. \A i \in 1 .. Len(Front(s)) : Front(s)[i] = s[0 + i]
      BY <1>1, <2>1, <2>5
    <3> QED
      <4>1. 0 \in Nat /\ 0 + Len(Front(s)) <= Len(s)
        BY <1>1, <2>1, <2>5
      <4> QED
        BY <2>5, <3>1, <4>1, SoundPiece
  <2>7. Front(s) # <<>> => Newest(Front(s)[Len(Front(s))]) < k.elements[1].dt
    <3>1. Front(s)[Len(Front(s))] = s[n - 1]
      BY <1>1, <2>1, <2>5
    <3>2. Before(s[n - 1], s[n])
      BY <1>1, <2>1 DEF Sound
    <3> QED
      BY <2>4, <3>1, <3>2 DEF Before
  <2>8. Sound(t)
    BY <2>2, <2>4, <2>6, <2>7, SoundAppend
  <2>9. /\ t \in Seq(UbiBars) /\ Len(t) = n - 1 + 1 /\ t[n - 1 + 1] = k
        /\ \A i \in 1 .. n - 1 : t[i] = s[i]
    BY <2>2, <2>4, <2>5, Appended
  <2> QED
    BY <1>1, <1>2, <2>1, <2>4, <2>8, <2>9 DEF k
<1>3. CASE ~Absorbs(s, b)
  <2>1. t = Append(s, FromRaw(b))
    BY <1>3 DEF Absorbs, AddBar, Last, Last2
  <2>2. FromRaw(b) \in UbiBars /\ Dated(FromRaw(b)) /\ Newest(FromRaw(b)) = b.dt /\ FromRaw(b).elements[1] = b
    BY RawBar
  <2>3. Sound(t)
    BY <2>1, <2>2, SoundAppend
  <2>4. /\ t \in Seq(UbiBars) /\ Len(t) = Len(s) + 1 /\ t[Len(s) + 1] = FromRaw(b)
        /\ \A i \in 1 .. Len(s) : t[i] = s[i]
    BY <1>1, <2>1, <2>2, Appended
  <2> QED
    BY <1>1, <1>3, <2>2, <2>3, <2>4
<1> QED
  BY <1>2, <1>3

-----------------------------------------------------------------------------
(* Added: bars that follow s in time. *)
Fits(s, raw) ==
    /\ Sound(s) /\ raw \in Seq(RawBars) /\ Rising(raw)
    /\ s # <<>> /\ raw # <<>> => Newest(s[Len(s)]) < raw[1].dt
After(t, s, raw, n) ==
    /\ Sound(t)
    /\ n = 0 => t = s
    /\ n >= 1 => t # <<>> /\ Newest(t[Len(t)]) = raw[n].dt

(* One bar more.                                                              *)
LEMMA OneAdded ==
    ASSUME NEW s, NEW raw, Fits(s, raw), NEW n \in 1 .. Len(raw), NEW t, After(t, s, raw, n - 1)
    PROVE  /\ After(AddBar(t, raw[n]), s, raw, n) /\ AddBar(t, raw[n]) \in Seq(UbiBars)
           /\ Sound(t) /\ raw[n] \in RawBars /\ (t # <<>> => Newest(t[Len(t)]) < raw[n].dt)
<1>1. raw \in Seq(RawBars) /\ Len(raw) \in Nat /\ n \in Nat /\ n >= 1 /\ raw # <<>>
  BY DEF Fits
<1>2. raw[n] \in RawBars /\ (n >= 2 => raw[n - 1].dt < raw[n].dt)
  BY <1>1 DEF Fits, Rising
<1>3. Sound(t)
  BY DEF After
<1>4. t # <<>> => Newest(t[Len(t)]) < raw[n].dt
  <2>1. CASE n = 1
    <3>1. t = s
      BY <1>1, <2>1 DEF After
    <3> QED
      BY <1>1, <2>1, <3>1 DEF Fits
  <2>2. CASE n >= 2
    BY <1>1, <1>2, <2>2 DEF After
  <2> QED
    BY <1>1, <2>1, <2>2
<1>5. /\ Sound(AddBar(t, raw[n])) /\ AddBar(t, raw[n]) \in Seq(UbiBars) /\ Len(AddBar(t, raw[n])) >= 1
      /\ Newest(AddBar(t, raw[n])[Len(AddBar(t, raw[n]))]) = raw[n].dt
  BY <1>2, <1>3, <1>4, AddBarCases
<1>6. AddBar(t, raw[n]) # <<>>
  BY <1>5
<1> QED
  BY <1>1, <1>2, <1>3, <1>4, <1>5, <1>6 DEF After

(* Added, as a function defined step by step: it exists, and every value is   *)
(* the one before it with a bar added.                                        *)
LEMMA AddedSteps ==
    ASSUME NEW s, NEW raw, Fits(s, raw)
    PROVE  /\ Added(s, raw)[0] = s
           /\ \A n \in 1 .. Len(raw) : Added(s, raw)[n] = AddBar(Added(s, raw)[n - 1], raw[n])
           /\ \A n \in 0 .. Len(raw) : After(Added(s, raw)[n], s, raw, n)
<1> DEFINE N == Len(raw)
           X == Seq(UbiBars)
           f == [n \in 1 .. N |-> [t \in X |-> IF AddBar(t, raw[n]) \in X THEN AddBar(t, raw[n]) ELSE s]]
           F(t) == [n \in 0 .. N |-> IF n = 0 THEN s ELSE AddBar(t[n - 1], raw[n])]
<1>1. N \in Nat /\ s \in X /\ Sound(s)
  BY DEF Fits, Sound
<1>2. Added(s, raw) = CHOOSE t : t = F(t)
  BY DEF Added
<1>3. \A t : \A n \in 1 .. N : After(t, s, raw, n - 1) => After(AddBar(t, raw[n]), s, raw, n) /\ AddBar(t, raw[n]) \in X
  BY OneAdded
<1>4. After(s, s, raw, 0)
  BY <1>1 DEF After
<1> HIDE DEF X, N
<1>5. ASSUME NEW g, g[0] = s, \A n \in 1 .. N : After(g[n - 1], s, raw, n - 1) => g[n] = AddBar(g[n - 1], raw[n])
      PROVE  /\ \A n \in 0 .. N : After(g[n], s, raw, n)
             /\ \A n \in 1 .. N : g[n] = AddBar(g[n - 1], raw[n])
  <2> DEFINE P == {n \in 0 .. N : After(g[n], s, raw, n)}
  <2>1. 0 \in P
    BY <1>1, <1>4, <1>5
  <2>2. \A n \in 1 .. N : n - 1 \in P => n \in P
    BY <1>1, <1>3, <1>5
  <2>3. 0 .. N \subseteq P
    <3> HIDE DEF P
    <3> QED
      BY <1>1, <2>1, <2>2, UpTo
  <2>4. \A n \in 1 .. N : n - 1 \in 0 .. N
    BY <1>1
  <2> QED
    BY <1>5, <2>3, <2>4
<1>6. f \in [1 .. N -> [X -> X]]
  BY <1>1
<1>7. \A n \in 1 .. N, t \in X : f[n][t] = IF AddBar(t, raw[n]) \in X THEN AddBar(t, raw[n]) ELSE s
  BY <1>1
<1> HIDE DEF f
<1>8. PICK g \in [0 .. N -> X] : Steps(g, s, N, f)
  BY <1>1, <1>6, StepByStep
<1>9. g = F(g)
  <2>1. g[0] = s /\ \A n \in 1 .. N : g[n] = f[n][g[n - 1]] /\ g[n - 1] \in X
    BY <1>1, <1>8 DEF Steps
  <2>2. \A n \in 1 .. N : After(g[n - 1], s, raw, n - 1) => g[n] = AddBar(g[n - 1], raw[n])
    BY <1>3, <1>7, <2>1
  <2>3. \A n \in 1 .. N : g[n] = AddBar(g[n - 1], raw[n])
    BY <1>5, <2>1, <2>2
  <2> QED
    BY <1>1, <1>8, <2>1, <2>3
<1>10. Added(s, raw) = F(Added(s, raw))
  <2> HIDE DEF F
  <2> QED
    BY <1>2, <1>9
<1> DEFINE h == Added(s, raw)
<1>11. h = F(h)
  BY <1>10
<1> HIDE DEF h
<1>12. h[0] = s /\ \A n \in 1 .. N : h[n] = AddBar(h[n - 1], raw[n])
  BY <1>1, <1>11
<1>13. \A n \in 0 .. N : After(h[n], s, raw, n)
  BY <1>5, <1>12
<1> QED
  BY <1>12, <1>13 DEF h, N

(* The first bars added make the same, whatever comes after them. *)
LEMMA AddedPrefix ==
    ASSUME NEW s, NEW raw, Fits(s, raw), NEW raw2, Fits(s, raw2),
           NEW k \in 0 .. Len(raw), k <= Len(raw2), \A i \in 1 .. k : raw[i] = raw2[i]
    PROVE  \A n \in 0 .. k : Added(s, raw)[n] = Added(s, raw2)[n]
<1>1. Len(raw) \in Nat /\ Len(raw2) \in Nat /\ k \in Nat
  BY DEF Fits
<1> DEFINE P == {n \in 0 .. k : Added(s, raw)[n] = Added(s, raw2)[n]}
<1>2. 0 \in P
  BY <1>1, AddedSteps
<1>3. ASSUME NEW n \in 1 .. k, n - 1 \in P PROVE n \in P
  <2>1. n \in 1 .. Len(raw) /\ n \in 1 .. Len(raw2)
    BY <1>1
  <2>2. Added(s, raw)[n] = AddBar(Added(s, raw)[n - 1], raw[n])
    BY <2>1, AddedSteps
  <2>3. Added(s, raw2)[n] = AddBar(Added(s, raw2)[n - 1], raw2[n])
    BY <2>1, AddedSteps
  <2> QED
    BY <1>3, <2>2, <2>3
<1>4. 0 .. k \subseteq P
  <2> HIDE DEF P
  <2> QED
    BY <1>1, <1>2, <1>3, UpTo
<1> QED
  BY <1>4

-----------------------------------------------------------------------------
(* Neighbours.  A merged bar is what its raw bars make of the bar before it,  *)
(* and lies on the side of it where the first of them lies.  Where two bars   *)
(* give a direction the next one is not included, nor was its first raw bar.  *)
Adjacent(k1, k2) ==
    /\ Added(<<k1>>, k2.elements)[Len(k2.elements)] = <<k1, k2>>
    /\ k1.hi < k2.hi <=> k1.hi < k2.elements[1].hi
    /\ k1.hi > k2.hi <=> k1.hi > k2.elements[1].hi
Triple(k0, k1, k2) == k0.hi # k1.hi => ~Includes(k1, k2) /\ ~Includes(k1, k2.elements[1])
Good(s) ==
    /\ Sound(s)
    /\ \A i \in 1 .. Len(s) - 1 : Adjacent(s[i], s[i + 1])
    /\ \A i \in 1 .. Len(s) - 2 : Triple(s[i], s[i + 1], s[i + 2])

(* Of two bars without inclusion one is above the other.                      *)
LEMMA NotIncluded ==
    ASSUME NEW k, NEW b, k.hi \in Int, k.lo \in Int, b.hi \in Int, b.lo \in Int
    PROVE  /\ ~Includes(k, b) <=> Above(k, b) \/ Above(b, k)
           /\ Above(k, b) => ~Above(b, k) /\ k.hi > b.hi /\ k.lo > b.lo
           /\ ~Includes(k, b) => k.hi # b.hi
           /\ ~Includes(k, b) /\ k.hi > b.hi => Above(k, b)
           /\ ~Includes(k, b) /\ k.hi < b.hi => Above(b, k)
BY DEF Includes, Above

(* A piece of a good sequence is good.                                        *)
LEMMA GoodPiece ==
    ASSUME NEW s, Good(s), NEW t \in Seq(UbiBars), NEW c \in Nat, c + Len(t) <= Len(s),
           \A i \in 1 .. Len(t) : t[i] = s[c + i]
    PROVE  Good(t)
<1>1. Len(s) \in Nat /\ Len(t) \in Nat /\ Sound(s)
  BY DEF Good, Sound
<1>2. Sound(t)
  BY <1>1, SoundPiece
<1>3. \A i \in 1 .. Len(t) - 1 : Adjacent(t[i], t[i + 1])
  <2> TAKE i \in 1 .. Len(t) - 1
  <2>1. c + i \in 1 .. Len(s) - 1 /\ i \in 1 .. Len(t) /\ i + 1 \in 1 .. Len(t) /\ c + (i + 1) = (c + i) + 1
    BY <1>1
  <2>2. t[i] = s[c + i] /\ t[i + 1] = s[(c + i) + 1]
    BY <2>1
  <2> QED
    BY <2>1, <2>2 DEF Good
<1>4. \A i \in 1 .. Len(t) - 2 : Triple(t[i], t[i + 1], t[i + 2])
  <2> TAKE i \in 1 .. Len(t) - 2
  <2>1. /\ c + i \in 1 .. Len(s) - 2 /\ i \in 1 .. Len(t) /\ i + 1 \in 1 .. Len(t) /\ i + 2 \in 1 .. Len(t)
        /\ c + (i + 1) = (c + i) + 1 /\ c + (i + 2) = (c + i) + 2
    BY <1>1
  <2> DEFINE j == i + 1  k == i + 2
  <2>2. j \in 1 .. Len(t) /\ k \in 1 .. Len(t)
    BY <2>1
  <2> HIDE DEF j, k
  <2>3. t[i] = s[c + i] /\ t[j] = s[c + j] /\ t[k] = s[c + k]
    BY <2>1, <2>2
  <2>4. Triple(s[c + i], s[(c + i) + 1], s[(c + i) + 2])
    BY <2>1 DEF Good
  <2>5. c + j = (c + i) + 1 /\ c + k = (c + i) + 2
    BY <1>1, <2>1 DEF j, k
  <2>6. Triple(t[i], t[j], t[k])
    BY <2>3, <2>4, <2>5
  <2> QED
    BY <2>6 DEF j, k
<1> QED
  BY <1>2, <1>3, <1>4 DEF Good

(* A good sequence cut off and continued by one bar.                          *)
LEMMA GoodLonger ==
    ASSUME NEW s, Good(s), NEW t, Sound(t), NEW m \in Nat, m <= Len(s), Len(t) = m + 1,
           \A i \in 1 .. m : t[i] = s[i],
           m >= 1 => Adjacent(t[m], t[m + 1]),
           m >= 2 => Triple(t[m - 1], t[m], t[m + 1])
    PROVE  Good(t)
<1>1. Len(s) \in Nat
  BY DEF Good, Sound
<1>2. \A i \in 1 .. Len(t) - 1 : Adjacent(t[i], t[i + 1])
  <2> TAKE i \in 1 .. Len(t) - 1
  <2>1. CASE i = m
    BY <2>1
  <2>2. CASE i < m
    <3>1. i \in 1 .. m /\ i + 1 \in 1 .. m /\ i \in 1 .. Len(s) - 1
      BY <1>1, <2>2
    <3>2. t[i] = s[i] /\ t[i + 1] = s[i + 1]
      BY <3>1
    <3> QED
      BY <3>1, <3>2 DEF Good
  <2> QED
    BY <2>1, <2>2
<1>3. \A i \in 1 .. Len(t) - 2 : Triple(t[i], t[i + 1], t[i + 2])
  <2> TAKE i \in 1 .. Len(t) - 2
  <2>1. CASE i = m - 1
    <3>1. m >= 2 /\ i + 1 = m /\ i + 2 = m + 1
      BY <2>1
    <3> QED
      BY <2>1, <3>1
  <2>2. CASE i < m - 1
    <3>1. i \in 1 .. m /\ i + 1 \in 1 .. m /\ i + 2 \in 1 .. m /\ i \in 1 .. Len(s) - 2
      BY <1>1, <2>2
    <3>2. t[i] = s[i] /\ t[i + 1] = s[i + 1] /\ t[i + 2] = s[i + 2]
      BY <3>1
    <3> QED
      BY <3>1, <3>2 DEF Good
  <2> QED
    BY <2>1, <2>2
<1> QED
  BY <1>2, <1>3 DEF Good

(* A pair of bars that is sound by itself. *)
LEMMA PairFits ==
    ASSUME NEW k \in UbiBars, Dated(k), NEW e \in Seq(RawBars), Rising(e),
           e # <<>> => Newest(k) < e[1].dt
    PROVE  Fits(<<k>>, e)
<1>1. <<k>> \in Seq(UbiBars) /\ Len(<<k>>) = 1 /\ <<k>>[1] = k
  OBVIOUS
<1>2. Sound(<<k>>)
  BY <1>1 DEF Sound
<1> QED
  BY <1>1, <1>2 DEF Fits

(* Two bars in order.                                                         *)
LEMMA PairSound ==
    ASSUME NEW k1 \in UbiBars, NEW k2 \in UbiBars, Dated(k1), Dated(k2), Before(k1, k2)
    PROVE  Sound(<<k1, k2>>)
<1>1. <<k1, k2>> \in Seq(UbiBars) /\ Len(<<k1, k2>>) = 2 /\ <<k1, k2>>[1] = k1 /\ <<k1, k2>>[2] = k2
  OBVIOUS
<1>2. 1 .. 2 = {1, 2}
  OBVIOUS
<1> QED
  BY <1>1, <1>2 DEF Sound

(* A raw bar after a bar, appended.                                           *)
LEMMA AdjacentRaw ==
    ASSUME NEW k \in UbiBars, Dated(k), NEW b \in RawBars, Newest(k) < b.dt
    PROVE  Adjacent(k, FromRaw(b))
<1>1. /\ FromRaw(b).elements = <<b>> /\ FromRaw(b).hi = b.hi /\ Rising(<<b>>)
  BY RawBar DEF Dated
<1>2. <<b>> \in Seq(RawBars) /\ Len(<<b>>) = 1 /\ <<b>>[1] = b
  OBVIOUS
<1>3. Fits(<<k>>, <<b>>)
  BY <1>1, <1>2, PairFits
<1>4. Added(<<k>>, <<b>>)[1] = AddBar(<<k>>, b)
  <2>1. 1 \in 1 .. Len(<<b>>) /\ 1 - 1 = 0
    BY <1>2
  <2>2. Added(<<k>>, <<b>>)[0] = <<k>>
    BY <1>3, AddedSteps
  <2>3. Added(<<k>>, <<b>>)[1] = AddBar(Added(<<k>>, <<b>>)[1 - 1], <<b>>[1])
    BY <1>3, <2>1, AddedSteps
  <2> QED
    BY <1>2, <2>1, <2>2, <2>3
<1>5. AddBar(<<k>>, b) = <<k, FromRaw(b)>>
  <2>1. ~(Len(<<k>>) >= 2)
    OBVIOUS
  <2>2. AddBar(<<k>>, b) = Append(<<k>>, FromRaw(b))
    BY <2>1 DEF AddBar
  <2>3. FromRaw(b) \in UbiBars
    BY RawBar
  <2> QED
    BY <2>2, <2>3
<1> QED
  BY <1>1, <1>2, <1>4, <1>5 DEF Adjacent

(* A raw bar after a pair, merged into its second bar.                        *)
LEMMA AdjacentMerged ==
    ASSUME NEW k1 \in UbiBars, NEW k2 \in UbiBars, Dated(k1), Dated(k2), Before(k1, k2),
           Adjacent(k1, k2), NEW b \in RawBars, Newest(k2) < b.dt,
           k1.hi # k2.hi, Includes(k2, b)
    PROVE  Adjacent(k1, Merged(k1, k2, b))
<1> DEFINE k == Merged(k1, k2, b)
           e == k2.elements
           d == Append(e, b)
           n == Len(e)
<1>1. /\ k \in UbiBars /\ Dated(k) /\ k.elements = d /\ k.elements[1] = e[1]
      /\ k1.hi < k2.hi => k.hi >= k2.hi
      /\ ~(k1.hi < k2.hi) => k.hi <= k2.hi
  <2> HIDE DEF k
  <2>1. k = Merged(k1, k2, b)
    BY DEF k
  <2> QED
    BY <2>1, MergedBar
<1>2. e \in Seq(RawBars) /\ n \in Nat \ {0} /\ Rising(e) /\ Rising(d) /\ e # <<>>
  BY <1>1, BarDates DEF Dated
<1> HIDE DEF e, k
<1>3. /\ d \in Seq(RawBars) /\ Len(d) = n + 1 /\ d[n + 1] = b /\ \A i \in 1 .. n : d[i] = e[i]
  BY <1>2, Appended
<1> HIDE DEF d, n
<1>4. Newest(k1) < e[1].dt /\ d[1] = e[1]
  BY <1>2, <1>3 DEF Before, e
<1>5. Fits(<<k1>>, e) /\ Fits(<<k1>>, d)
  BY <1>2, <1>3, <1>4, PairFits
<1>6. Added(<<k1>>, d)[n] = Added(<<k1>>, e)[n]
  <2>1. n \in 0 .. Len(e) /\ n <= Len(d) /\ n \in 0 .. n
    BY <1>2, <1>3 DEF n
  <2>2. \A i \in 1 .. n : e[i] = d[i]
    BY <1>3
  <2> QED
    BY <1>5, <2>1, <2>2, AddedPrefix
<1>7. Added(<<k1>>, d)[n + 1] = AddBar(Added(<<k1>>, d)[n], b)
  <2> DEFINE m == n + 1
  <2>1. m \in 1 .. Len(d) /\ m - 1 = n /\ d[m] = b
    BY <1>2, <1>3
  <2> HIDE DEF m
  <2>2. Added(<<k1>>, d)[m] = AddBar(Added(<<k1>>, d)[m - 1], d[m])
    BY <1>5, <2>1, AddedSteps
  <2>3. Added(<<k1>>, d)[m] = AddBar(Added(<<k1>>, d)[n], b)
    BY <2>1, <2>2
  <2> QED
    BY <2>3 DEF m
<1>8. Added(<<k1>>, e)[n] = <<k1, k2>>
  BY DEF Adjacent, n, e
<1>9. AddBar(<<k1, k2>>, b) = <<k1, k>>
  <2>1. Len(<<k1, k2>>) = 2 /\ <<k1, k2>>[1] = k1 /\ <<k1, k2>>[2] = k2 /\ 2 - 1 = 1
    OBVIOUS
  <2>2. Absorbs(<<k1, k2>>, b)
    BY <2>1 DEF Absorbs
  <2> DEFINE p == <<k1, k2>>
             t == AddBar(p, b)
  <2>3. Sound(p) /\ Newest(p[Len(p)]) < b.dt
    BY <2>1, PairSound
  <2> HIDE DEF p
  <2>4. Absorbs(p, b) /\ Len(p) = 2 /\ p[1] = k1 /\ p[2] = k2
    BY <2>1, <2>2 DEF p
  <2>5. t = AddBar(p, b)
    OBVIOUS
  <2> HIDE DEF t
  <2>6. /\ t \in Seq(UbiBars) /\ Len(t) = Len(p)
        /\ \A i \in 1 .. Len(p) - 1 : t[i] = p[i]
        /\ t[Len(p)] = Merged(p[Len(p) - 1], p[Len(p)], b)
    BY <2>3, <2>4, <2>5, AddBarCases
  <2>7. t \in Seq(UbiBars) /\ Len(t) = 2 /\ t[1] = k1 /\ t[2] = k
    BY <2>4, <2>6 DEF k
  <2>8. t = <<k1, k>>
    BY <2>7
  <2> QED
    BY <2>5, <2>8 DEF p
<1>10. Added(<<k1>>, d)[Len(d)] = <<k1, k>>
  BY <1>3, <1>6, <1>7, <1>8, <1>9
<1>11. /\ k1.hi < k.hi <=> k1.hi < e[1].hi
       /\ k1.hi > k.hi <=> k1.hi > e[1].hi
  <2>1. k1.hi \in Int /\ k2.hi \in Int /\ k.hi \in Int
    BY <1>1 DEF UbiBars
  <2>2. /\ k1.hi < k2.hi <=> k1.hi < e[1].hi
        /\ k1.hi > k2.hi <=> k1.hi > e[1].hi
    BY DEF Adjacent, e
  <2>3. /\ k1.hi < k.hi <=> k1.hi < k2.hi
        /\ k1.hi > k.hi <=> k1.hi > k2.hi
    BY <1>1, <2>1
  <2> QED
    BY <2>2, <2>3
<1> QED
  BY <1>1, <1>10, <1>11 DEF Adjacent, k

(* remove_include keeps the bars without inclusion wherever there is a        *)
(* direction.                                                                 *)
LEMMA AddBarGood ==
    ASSUME NEW s, Good(s), NEW b \in RawBars, s # <<>> => Newest(s[Len(s)]) < b.dt
    PROVE  Good(AddBar(s, b))
<1> DEFINE n == Len(s)
           t == AddBar(s, b)
<1>1. /\ s \in Seq(UbiBars) /\ n \in Nat /\ Sound(s) /\ Sound(t) /\ t \in Seq(UbiBars)
      /\ Absorbs(s, b) =>
           /\ Len(t) = n /\ n >= 2
           /\ \A i \in 1 .. n - 1 : t[i] = s[i]
           /\ t[n] = Merged(s[n - 1], s[n], b)
      /\ ~Absorbs(s, b) =>
           /\ Len(t) = n + 1
           /\ \A i \in 1 .. n : t[i] = s[i]
           /\ t[n + 1] = FromRaw(b)
  BY AddBarCases DEF Good
<1> HIDE DEF t
<1>2. \A i \in 1 .. n : s[i] \in UbiBars /\ Dated(s[i])
  BY <1>1 DEF Sound
<1>3. CASE Absorbs(s, b)
  <2> DEFINE m == n - 1
             k == Merged(s[m], s[n], b)
  <2>1. m \in 1 .. n /\ n \in 1 .. n /\ m < n /\ m + 1 = n /\ m \in Nat /\ m \in 1 .. Len(s) - 1 /\ s # <<>>
    BY <1>1, <1>3
  <2>2. s[m].hi # s[n].hi /\ Includes(s[n], b)
    BY <1>3 DEF Absorbs
  <2>3. /\ s[m] \in UbiBars /\ s[n] \in UbiBars /\ Dated(s[m]) /\ Dated(s[n])
        /\ Before(s[m], s[n]) /\ Adjacent(s[m], s[n]) /\ Newest(s[n]) < b.dt
    BY <1>2, <2>1 DEF Good, Sound
  <2>4. /\ \A i \in 1 .. m : t[i] = s[i]
        /\ t[m] = s[m] /\ t[m + 1] = k /\ Len(t) = m + 1
    BY <1>1, <1>3, <2>1
  <2> HIDE DEF m, n
  <2>5. Adjacent(s[m], k)
    BY <2>2, <2>3, AdjacentMerged
  <2>6. ASSUME m >= 2 PROVE Triple(s[m - 1], s[m], k)
    <3> DEFINE l == m - 1
    <3>1. l \in 1 .. Len(s) - 2 /\ l \in 1 .. n /\ l + 1 = m /\ l + 2 = n
      BY <2>1, <2>6 DEF n
    <3>2. Triple(s[l], s[l + 1], s[l + 2])
      BY <3>1 DEF Good
    <3>3. Triple(s[l], s[m], s[n])
      BY <3>1, <3>2
    <3>4. s[l] \in UbiBars
      BY <1>2, <3>1
    <3> HIDE DEF l
    <3> SUFFICES ASSUME s[l].hi # s[m].hi PROVE ~Includes(s[m], k) /\ ~Includes(s[m], k.elements[1])
      BY DEF Triple, l
    <3>5. ~Includes(s[m], s[n]) /\ ~Includes(s[m], s[n].elements[1])
      BY <3>3 DEF Triple
    <3>6. /\ k \in UbiBars /\ k.elements[1] = s[n].elements[1]
          /\ s[m].hi < s[n].hi => k.hi >= s[n].hi /\ k.lo >= s[n].lo
          /\ ~(s[m].hi < s[n].hi) => k.hi <= s[n].hi /\ k.lo <= s[n].lo
      <4> HIDE DEF k
      <4>1. k = Merged(s[m], s[n], b)
        BY DEF k
      <4> QED
        BY <2>3, <4>1, MergedBar
    <3> HIDE DEF k
    <3>7. /\ s[m].hi \in Int /\ s[m].lo \in Int /\ s[n].hi \in Int /\ s[n].lo \in Int
          /\ k.hi \in Int /\ k.lo \in Int
      BY <2>3, <3>6 DEF UbiBars
    <3>8. ~Includes(s[m], k)
      BY <2>2, <3>5, <3>6, <3>7 DEF Includes
    <3> QED
      BY <3>5, <3>6, <3>8
  <2> HIDE DEF k
  <2>7. m \in Nat /\ m <= Len(s)
    BY <2>1 DEF n
  <2>8. m >= 1 => Adjacent(t[m], t[m + 1])
    BY <2>4, <2>5
  <2>9. m >= 2 => Triple(t[m - 1], t[m], t[m + 1])
    <3>1. m >= 2 => m - 1 \in 1 .. m
      BY <2>1
    <3> QED
      BY <2>4, <2>6, <3>1
  <2>10. Good(t)
    BY <1>1, <2>4, <2>7, <2>8, <2>9, GoodLonger
  <2> QED
    BY <2>10 DEF t
<1>4. CASE ~Absorbs(s, b)
  <2> HIDE DEF n
  <2>1. /\ n \in Nat /\ n <= Len(s) /\ Len(t) = n + 1 /\ t[n + 1] = FromRaw(b)
        /\ \A i \in 1 .. n : t[i] = s[i]
    BY <1>1, <1>4 DEF n
  <2>2. ASSUME n >= 1 PROVE Adjacent(t[n], t[n + 1])
    <3>1. n \in 1 .. n /\ s # <<>>
      BY <1>1, <2>2 DEF n
    <3>2. s[n] \in UbiBars /\ Dated(s[n]) /\ Newest(s[n]) < b.dt /\ t[n] = s[n]
      BY <1>2, <2>1, <3>1 DEF n
    <3> QED
      BY <2>1, <3>2, AdjacentRaw
  <2>3. ASSUME n >= 2 PROVE Triple(t[n - 1], t[n], t[n + 1])
    <3> DEFINE m == n - 1
    <3>1. m \in 1 .. n /\ n \in 1 .. n
      BY <2>1, <2>3
    <3>2. t[m] = s[m] /\ t[n] = s[n] /\ s[m] \in UbiBars /\ s[n] \in UbiBars
      BY <1>2, <2>1, <3>1
    <3>3. s[m].hi # s[n].hi => ~Includes(s[n], b)
      BY <1>4, <2>3 DEF Absorbs, n
    <3>4. Includes(s[n], FromRaw(b)) = Includes(s[n], b) /\ FromRaw(b).elements[1] = b
      BY RawBar DEF Includes
    <3> QED
      BY <2>1, <3>2, <3>3, <3>4 DEF Triple
  <2>4. Good(t)
    BY <1>1, <2>1, <2>2, <2>3, GoodLonger
  <2> QED
    BY <2>4 DEF t
<1> QED
  BY <1>3, <1>4

(* Bars added to a good sequence leave a good one, which does not get shorter *)
(* on the way, and whose bars but the last stay as they are.                  *)
LEMMA AddedGood ==
    ASSUME NEW s, NEW raw, Fits(s, raw), Good(s)
    PROVE  \A n \in 0 .. Len(raw) : Good(Added(s, raw)[n])
<1>1. Len(raw) \in Nat
  BY DEF Fits
<1> DEFINE P == {n \in 0 .. Len(raw) : Good(Added(s, raw)[n])}
<1>2. 0 \in P
  BY <1>1, AddedSteps
<1>3. ASSUME NEW n \in 1 .. Len(raw), n - 1 \in P PROVE n \in P
  <2> DEFINE t == Added(s, raw)[n - 1]
  <2>1. n - 1 \in 0 .. Len(raw)
    BY <1>1
  <2>2. After(t, s, raw, n - 1) /\ Added(s, raw)[n] = AddBar(t, raw[n])
    BY <2>1, AddedSteps
  <2>3. Good(t)
    BY <1>3
  <2> HIDE DEF t
  <2>4. raw[n] \in RawBars /\ (t # <<>> => Newest(t[Len(t)]) < raw[n].dt)
    BY <2>2, OneAdded
  <2>5. Good(AddBar(t, raw[n]))
    BY <2>3, <2>4, AddBarGood
  <2> QED
    BY <2>2, <2>5
<1>4. 0 .. Len(raw) \subseteq P
  <2> HIDE DEF P
  <2> QED
    BY <1>1, <1>2, <1>3, UpTo
<1> QED
  BY <1>4

LEMMA AddedLengths ==
    ASSUME NEW s, NEW raw, Fits(s, raw), NEW m \in 0 .. Len(raw), NEW n \in m .. Len(raw)
    PROVE  Len(Added(s, raw)[m]) <= Len(Added(s, raw)[n])
<1> DEFINE L(i) == Len(Added(s, raw)[i])
           P == {i \in 0 .. Len(raw) : i >= m => L(m) <= L(i)}
<1>1. Len(raw) \in Nat
  BY DEF Fits
<1>2. \A i \in 0 .. Len(raw) : L(i) \in Nat
  <2> TAKE i \in 0 .. Len(raw)
  <2>1. After(Added(s, raw)[i], s, raw, i)
    BY AddedSteps
  <2> QED
    BY <2>1 DEF After, Sound
<1>3. \A i \in 1 .. Len(raw) : L(i - 1) <= L(i)
  <2> TAKE i \in 1 .. Len(raw)
  <2> DEFINE t == Added(s, raw)[i - 1]
  <2>1. i - 1 \in 0 .. Len(raw)
    BY <1>1
  <2>2. After(t, s, raw, i - 1) /\ Added(s, raw)[i] = AddBar(t, raw[i])
    BY <2>1, AddedSteps
  <2> HIDE DEF t
  <2>3. raw[i] \in RawBars /\ Sound(t) /\ (t # <<>> => Newest(t[Len(t)]) < raw[i].dt)
    BY <2>2, OneAdded
  <2>4. Len(t) <= Len(AddBar(t, raw[i]))
    <3> DEFINE u == AddBar(t, raw[i])
    <3>1. u = AddBar(t, raw[i])
      OBVIOUS
    <3> HIDE DEF u
    <3>2. Len(t) \in Nat /\ (Len(u) = Len(t) \/ Len(u) = Len(t) + 1)
      BY <2>3, <3>1, AddBarCases
    <3> QED
      BY <3>1, <3>2
  <2> QED
    BY <2>2, <2>4 DEF t
<1> HIDE DEF L
<1>4. 0 \in P
  BY <1>1, <1>2
<1>5. \A i \in 1 .. Len(raw) : i - 1 \in P => i \in P
  BY <1>1, <1>2, <1>3
<1>6. 0 .. Len(raw) \subseteq P
  <2> HIDE DEF P
  <2> QED
    BY <1>1, <1>4, <1>5, UpTo
<1>7. L(m) <= L(n)
  BY <1>1, <1>6
<1> QED
  BY <1>7 DEF L

-----------------------------------------------------------------------------
(* Fractals. *)
Fxs == [top : BOOLEAN, dt : Nat, hi : Int, lo : Int, from : Nat, to : Nat]

(* The parts of a fractal.                                                    *)
LEMMA FractalType ==
    ASSUME NEW s \in Seq(UbiBars), NEW i \in 2 .. Len(s) - 1
    PROVE  /\ Fractal(s, i) \in Fxs
           /\ Fractal(s, i).top = Above(s[i], s[i - 1])
           /\ Fractal(s, i).dt = s[i].dt /\ Fractal(s, i).hi = s[i].hi /\ Fractal(s, i).lo = s[i].lo
           /\ Fractal(s, i).from = s[i - 1].dt /\ Fractal(s, i).to = s[i + 1].dt
<1>1. i \in 1 .. Len(s) /\ i - 1 \in 1 .. Len(s) /\ i + 1 \in 1 .. Len(s)
  OBVIOUS
<1>2. s[i] \in UbiBars /\ s[i - 1] \in UbiBars /\ s[i + 1] \in UbiBars
  BY <1>1
<1>3. Above(s[i], s[i - 1]) \in BOOLEAN
  BY DEF Above
<1>4. s[i].dt \in Nat /\ s[i].hi \in Int /\ s[i].lo \in Int /\ s[i - 1].dt \in Nat /\ s[i + 1].dt \in Nat
  BY <1>2 DEF UbiBars
<1> QED
  BY <1>3, <1>4 DEF Fractal, Fxs

(* check_fxs, step by step.                                                   *)
LEMMA FractalSteps ==
    ASSUME NEW s \in Seq(UbiBars)
    PROVE  \A n \in 0 .. Len(s) :
             /\ FractalsIn(s)[n] \in Seq(Fxs)
             /\ n < 3 => FractalsIn(s)[n] = <<>>
             /\ n >= 3 => FractalsIn(s)[n] = AddFractal(FractalsIn(s)[n - 1], s, n - 1)
<1> DEFINE N == Len(s)
           X == Seq(Fxs)
           f == [n \in 1 .. N |-> [x \in X |-> IF n < 3 THEN <<>> ELSE AddFractal(x, s, n - 1)]]
           F(x) == [n \in 0 .. N |-> IF n < 3 THEN <<>> ELSE AddFractal(x[n - 1], s, n - 1)]
<1>1. N \in Nat /\ <<>> \in X
  OBVIOUS
<1>2. FractalsIn(s) = CHOOSE x : x = F(x)
  BY DEF FractalsIn
<1>3. \A n \in 1 .. N, x \in X : n >= 3 => AddFractal(x, s, n - 1) \in X
  <2> TAKE n \in 1 .. N, x \in X
  <2> HAVE n >= 3
  <2> DEFINE i == n - 1
  <2>1. i \in 2 .. Len(s) - 1
    OBVIOUS
  <2> HIDE DEF i
  <2>2. Fractal(s, i) \in Fxs
    BY <2>1, FractalType
  <2>3. Append(x, Fractal(s, i)) \in X
    BY <2>2
  <2>4. AddFractal(x, s, i) \in X
    BY <2>3 DEF AddFractal
  <2> QED
    BY <2>4 DEF i
<1> HIDE DEF X, N
<1>4. f \in [1 .. N -> [X -> X]]
  BY <1>1, <1>3
<1>5. \A n \in 1 .. N, x \in X : f[n][x] = IF n < 3 THEN <<>> ELSE AddFractal(x, s, n - 1)
  BY <1>1
<1> HIDE DEF f
<1>6. PICK g \in [0 .. N -> X] : Steps(g, <<>>, N, f)
  BY <1>1, <1>4, StepByStep
<1>7. g = F(g)
  <2>1. g[0] = <<>> /\ \A n \in 1 .. N : g[n] = f[n][g[n - 1]] /\ g[n - 1] \in X
    BY <1>1, <1>6 DEF Steps
  <2>2. \A n \in 1 .. N : g[n] = IF n < 3 THEN <<>> ELSE AddFractal(g[n - 1], s, n - 1)
    BY <1>5, <2>1
  <2> QED
    BY <1>1, <1>6, <2>1, <2>2
<1>8. FractalsIn(s) = F(FractalsIn(s))
  <2> HIDE DEF F
  <2> QED
    BY <1>2, <1>7
<1> DEFINE h == FractalsIn(s)
<1>9. h = F(h)
  BY <1>8
<1> HIDE DEF h
<1>10. \A n \in 0 .. N : h[n] = IF n < 3 THEN <<>> ELSE AddFractal(h[n - 1], s, n - 1)
  BY <1>9
<1> DEFINE P == {n \in 0 .. N : h[n] \in X}
<1>11. 0 \in P
  BY <1>1, <1>10
<1>12. \A n \in 1 .. N : n - 1 \in P => n \in P
  BY <1>1, <1>3, <1>10
<1>13. 0 .. N \subseteq P
  <2> HIDE DEF P
  <2> QED
    BY <1>1, <1>11, <1>12, UpTo
<1> QED
  BY <1>10, <1>13 DEF h, N, X

(* What the fractals x of the first n bars of s are. *)
FractalsOf(s, n, x) ==
    /\ x \in Seq(Fxs)
    /\ \A j \in 1 .. Len(x) : \E i \in 2 .. n - 1 : FractalAt(s, i) /\ x[j] = Fractal(s, i)
    /\ \A i \in 2 .. n - 1 : FractalAt(s, i) => \E j \in 1 .. Len(x) : x[j] = Fractal(s, i)
    /\ n >= 3 /\ FractalAt(s, 2) => Len(x) >= 1 /\ x[1] = Fractal(s, 2)
    /\ x # <<>> => n >= 3
    /\ x # <<>> /\ x[Len(x)].top => Above(s[n - 1], s[n])
    /\ x # <<>> /\ ~x[Len(x)].top => Above(s[n], s[n - 1])

(* The next bar: a fractal there has the other mark than the last one, so     *)
(* that none is left out by check_fxs.                                        *)
LEMMA FractalAdded ==
    ASSUME NEW s, Good(s), NEW n \in 3 .. Len(s), NEW x, FractalsOf(s, n - 1, x)
    PROVE  FractalsOf(s, n, AddFractal(x, s, n - 1))
<1> DEFINE i == n - 1
           y == AddFractal(x, s, i)
           fx == Fractal(s, i)
<1>1. /\ s \in Seq(UbiBars) /\ Len(s) \in Nat /\ i \in 2 .. Len(s) - 1 /\ n = i + 1 /\ n \in Nat
      /\ i \in 1 .. Len(s) /\ i - 1 \in 1 .. Len(s) /\ n \in 1 .. Len(s)
      /\ i - 1 \in 1 .. Len(s) - 2 /\ (i - 1) + 1 = i /\ (i - 1) + 2 = n
  BY DEF Good, Sound
<1> HIDE DEF i
<1>2. s[i - 1] \in UbiBars /\ s[i] \in UbiBars /\ s[n] \in UbiBars
  BY <1>1
<1>3. /\ s[i - 1].hi \in Int /\ s[i - 1].lo \in Int /\ s[i].hi \in Int /\ s[i].lo \in Int
      /\ s[n].hi \in Int /\ s[n].lo \in Int
  BY <1>2 DEF UbiBars
<1>4. fx \in Fxs /\ fx.top = Above(s[i], s[i - 1])
  BY <1>1, FractalType
<1>5. x \in Seq(Fxs) /\ Len(x) \in Nat
  BY DEF FractalsOf
<1>6. /\ x # <<>> /\ x[Len(x)].top => Above(s[i - 1], s[i])
      /\ x # <<>> /\ ~x[Len(x)].top => Above(s[i], s[i - 1])
  BY DEF FractalsOf, i
<1>7. FractalAt(s, i) <=> \/ Above(s[i], s[i - 1]) /\ Above(s[i], s[n])
                          \/ Above(s[i - 1], s[i]) /\ Above(s[n], s[i])
  BY <1>1 DEF FractalAt
<1>8. CASE FractalAt(s, i)
  <2>1. y = Append(x, fx)
    <3>1. x # <<>> => x[Len(x)].top # fx.top
      <4>1. Above(s[i - 1], s[i]) => ~Above(s[i], s[i - 1])
        BY <1>3 DEF Above
      <4>2. x # <<>> => x[Len(x)] \in Fxs
        BY <1>5
      <4> QED
        BY <1>4, <1>6, <4>1, <4>2 DEF Fxs
    <3>2. ~(Len(x) >= 2 /\ Last(x).top = fx.top)
      BY <1>5, <3>1 DEF Last
    <3> QED
      BY <1>8, <3>2 DEF AddFractal
  <2>2. /\ y \in Seq(Fxs) /\ Len(y) = Len(x) + 1 /\ y[Len(x) + 1] = fx
        /\ \A j \in 1 .. Len(x) : y[j] = x[j]
    BY <1>4, <1>5, <2>1, Appended
  <2> HIDE DEF y, fx
  <2>3. \A j \in 1 .. Len(y) : \E k \in 2 .. n - 1 : FractalAt(s, k) /\ y[j] = Fractal(s, k)
    <3> TAKE j \in 1 .. Len(y)
    <3>1. CASE j \in 1 .. Len(x)
      <4>1. PICK k \in 2 .. (n - 1) - 1 : FractalAt(s, k) /\ x[j] = Fractal(s, k)
        BY <3>1 DEF FractalsOf
      <4>2. k \in 2 .. n - 1 /\ y[j] = x[j]
        BY <1>1, <2>2, <3>1
      <4> QED
        BY <4>1, <4>2
    <3>2. CASE j = Len(x) + 1
      <4>1. y[j] = Fractal(s, i) /\ i \in 2 .. n - 1
        BY <1>1, <2>2, <3>2 DEF fx
      <4> QED
        BY <1>8, <4>1
    <3> QED
      BY <1>5, <2>2, <3>1, <3>2
  <2>4. \A k \in 2 .. n - 1 : FractalAt(s, k) => \E j \in 1 .. Len(y) : y[j] = Fractal(s, k)
    <3> TAKE k \in 2 .. n - 1
    <3> HAVE FractalAt(s, k)
    <3>1. CASE k = i
      <4>1. Len(x) + 1 \in 1 .. Len(y) /\ y[Len(x) + 1] = Fractal(s, k)
        BY <1>5, <2>2, <3>1 DEF fx
      <4> QED
        BY <4>1
    <3>2. CASE k # i
      <4>1. k \in 2 .. (n - 1) - 1
        BY <1>1, <3>2
      <4>2. PICK j \in 1 .. Len(x) : x[j] = Fractal(s, k)
        BY <4>1 DEF FractalsOf
      <4>3. j \in 1 .. Len(y) /\ y[j] = x[j]
        BY <1>5, <2>2
      <4> QED
        BY <4>2, <4>3
    <3> QED
      BY <3>1, <3>2
  <2>5. FractalAt(s, 2) => Len(y) >= 1 /\ y[1] = Fractal(s, 2)
    <3>1. CASE i = 2
      <4>1. x = <<>>
        BY <1>1, <3>1 DEF FractalsOf
      <4> QED
        BY <2>2, <3>1, <4>1 DEF fx
    <3>2. CASE i # 2
      <4>1. n - 1 >= 3
        BY <1>1, <3>2
      <4>2. FractalAt(s, 2) => Len(x) >= 1 /\ x[1] = Fractal(s, 2)
        BY <4>1 DEF FractalsOf
      <4> QED
        BY <1>5, <2>2, <4>2
    <3> QED
      BY <3>1, <3>2
  <2>6. y[Len(y)] = fx /\ n >= 3
    BY <1>1, <2>2
  <2>7. /\ y[Len(y)].top => Above(s[n - 1], s[n])
        /\ ~y[Len(y)].top => Above(s[n], s[n - 1])
    <3>1. n - 1 = i
      BY <1>1
    <3>2. Above(s[i - 1], s[i]) => ~Above(s[i], s[i - 1])
      BY <1>3 DEF Above
    <3> QED
      BY <1>4, <1>7, <1>8, <2>6, <3>1, <3>2 DEF fx
  <2>8. FractalsOf(s, n, y)
    BY <2>2, <2>3, <2>4, <2>5, <2>6, <2>7 DEF FractalsOf
  <2> QED
    BY <2>8 DEF y, i
<1>9. CASE ~FractalAt(s, i)
  <2>1. y = x
    BY <1>9 DEF AddFractal
  <2>2. \A j \in 1 .. Len(x) : \E k \in 2 .. n - 1 : FractalAt(s, k) /\ x[j] = Fractal(s, k)
    <3> TAKE j \in 1 .. Len(x)
    <3>1. PICK k \in 2 .. (n - 1) - 1 : FractalAt(s, k) /\ x[j] = Fractal(s, k)
      BY DEF FractalsOf
    <3>2. k \in 2 .. n - 1
      BY <1>1
    <3> QED
      BY <3>1, <3>2
  <2>3. \A k \in 2 .. n - 1 : FractalAt(s, k) => \E j \in 1 .. Len(x) : x[j] = Fractal(s, k)
    <3> TAKE k \in 2 .. n - 1
    <3> HAVE FractalAt(s, k)
    <3>1. k \in 2 .. (n - 1) - 1
      BY <1>1, <1>9
    <3> QED
      BY <3>1 DEF FractalsOf
  <2>4. FractalAt(s, 2) => Len(x) >= 1 /\ x[1] = Fractal(s, 2)
    <3> HAVE FractalAt(s, 2)
    <3>1. n - 1 >= 3
      BY <1>1, <1>9
    <3> QED
      BY <3>1 DEF FractalsOf
  <2>5. /\ x # <<>> /\ x[Len(x)].top => Above(s[i], s[n])
        /\ x # <<>> /\ ~x[Len(x)].top => Above(s[n], s[i])
    <3>1. Triple(s[i - 1], s[i], s[n])
      BY <1>1 DEF Good
    <3>2. s[i - 1].hi # s[i].hi => Above(s[i], s[n]) \/ Above(s[n], s[i])
      BY <1>3, <3>1, NotIncluded DEF Triple
    <3>3. Above(s[i - 1], s[i]) \/ Above(s[i], s[i - 1]) => s[i - 1].hi # s[i].hi
      BY <1>3 DEF Above
    <3> QED
      BY <1>6, <1>7, <1>9, <3>2, <3>3
  <2>6. n - 1 = i /\ n >= 3
    BY <1>1
  <2>7. FractalsOf(s, n, x)
    BY <1>5, <2>2, <2>3, <2>4, <2>5, <2>6 DEF FractalsOf
  <2> QED
    BY <2>1, <2>7 DEF i
<1> QED
  BY <1>8, <1>9

(* check_fxs finds every fractal of a good sequence.                          *)
LEMMA FractalsFound ==
    ASSUME NEW s, Good(s), NEW n \in 0 .. Len(s)
    PROVE  FractalsOf(s, n, FractalsIn(s)[n])
<1>1. s \in Seq(UbiBars) /\ Len(s) \in Nat
  BY DEF Good, Sound
<1> DEFINE P == {m \in 0 .. Len(s) : FractalsOf(s, m, FractalsIn(s)[m])}
<1>2. ASSUME NEW m \in 0 .. Len(s), m < 3 PROVE m \in P
  <2>1. FractalsIn(s)[m] = <<>> /\ <<>> \in Seq(Fxs) /\ Len(<<>>) = 0
    BY <1>1, <1>2, FractalSteps
  <2>2. 2 .. m - 1 = {} /\ 1 .. 0 = {}
    BY <1>2
  <2>3. FractalsOf(s, m, <<>>)
    BY <1>2, <2>1, <2>2 DEF FractalsOf
  <2> QED
    BY <2>1, <2>3
<1>3. ASSUME NEW m \in 1 .. Len(s), m - 1 \in P PROVE m \in P
  <2>1. CASE m < 3
    BY <1>1, <1>2, <2>1
  <2>2. CASE m >= 3
    <3>1. m \in 3 .. Len(s) /\ m \in 0 .. Len(s)
      BY <1>1, <2>2
    <3>2. FractalsIn(s)[m] = AddFractal(FractalsIn(s)[m - 1], s, m - 1)
      BY <1>1, <2>2, <3>1, FractalSteps
    <3>3. FractalsOf(s, m - 1, FractalsIn(s)[m - 1])
      BY <1>3
    <3>4. FractalsOf(s, m, FractalsIn(s)[m])
      BY <3>1, <3>2, <3>3, FractalAdded
    <3> QED
      BY <3>1, <3>4
  <2> QED
    BY <1>1, <2>1, <2>2
<1>4. 0 \in P
  BY <1>1, <1>2
<1>5. 0 .. Len(s) \subseteq P
  <2> HIDE DEF P
  <2> QED
    BY <1>1, <1>3, <1>4, UpTo
<1> QED
  BY <1>5

(* From a fractal on every bar lies above or below the one before it. *)
LEMMA Directed ==
    ASSUME NEW s, Good(s), NEW i \in 2 .. Len(s) - 1, FractalAt(s, i), NEW n \in i + 1 .. Len(s)
    PROVE  Above(s[n - 1], s[n]) \/ Above(s[n], s[n - 1])
<1> DEFINE x == FractalsIn(s)[n]
<1>1. Len(s) \in Nat
  BY DEF Good, Sound
<1>2. n \in 0 .. Len(s) /\ i \in 2 .. n - 1
  BY <1>1
<1>3. FractalsOf(s, n, x)
  BY <1>2, FractalsFound
<1> HIDE DEF x
<1>4. PICK j \in 1 .. Len(x) : x[j] = Fractal(s, i)
  BY <1>2, <1>3 DEF FractalsOf
<1>5. x # <<>>
  BY <1>3, <1>4 DEF FractalsOf
<1> QED
  BY <1>3, <1>5 DEF FractalsOf

-----------------------------------------------------------------------------
(* Filters by dt leave pieces. *)
LEMMA DatesRise ==
    ASSUME NEW s, Sound(s)
    PROVE  /\ s \in Seq(UbiBars) /\ Len(s) \in Nat
           /\ \A i \in 1 .. Len(s) : s[i] \in UbiBars /\ s[i].dt \in Nat /\ s[i].hi \in Int /\ s[i].lo \in Int
           /\ \A i, j \in 1 .. Len(s) : i < j => s[i].dt < s[j].dt
<1>1. s \in Seq(UbiBars) /\ Len(s) \in Nat
  BY DEF Sound
<1>2. \A i \in 1 .. Len(s) : s[i] \in UbiBars /\ Dated(s[i])
  BY <1>1 DEF Sound
<1>3. \A i \in 1 .. Len(s) : s[i].dt \in Nat /\ s[i].hi \in Int /\ s[i].lo \in Int
  BY <1>2 DEF UbiBars
<1>4. ASSUME NEW i \in 1 .. Len(s), NEW j \in 1 .. Len(s), i < j PROVE s[i].dt < s[j].dt
  <2>1. s[i].dt <= Newest(s[i]) /\ Newest(s[i]) \in Nat
    BY <1>2, BarDates
  <2>2. s[j].elements[1].dt <= s[j].dt /\ s[j].elements[1].dt \in Nat
    BY <1>2, BarDates
  <2>3. Newest(s[i]) < s[j].elements[1].dt
    BY <1>4 DEF Sound, Before
  <2> QED
    BY <1>3, <2>1, <2>2, <2>3
<1> QED
  BY <1>1, <1>2, <1>3, <1>4

(* The bars from a dt on are the end of a sequence.                           *)
LEMMA FromPiece ==
    ASSUME NEW s, Sound(s), NEW i \in 1 .. Len(s), NEW d \in Nat, d <= s[i].dt,
           i > 1 => s[i - 1].dt < d
    PROVE  From(s, d) = SubSeq(s, i, Len(s))
<1>1. /\ s \in Seq(UbiBars) /\ Len(s) \in Nat
      /\ \A n \in 1 .. Len(s) : s[n].dt \in Nat
      /\ \A n, j \in 1 .. Len(s) : n < j => s[n].dt < s[j].dt
  BY DatesRise
<1>2. \A n \in 1 .. Len(s) : s[n].dt >= d <=> n >= i
  <2> TAKE n \in 1 .. Len(s)
  <2>1. CASE n >= i
    <3>1. n = i \/ s[i].dt < s[n].dt
      BY <1>1, <2>1
    <3> QED
      BY <1>1, <2>1, <3>1
  <2>2. CASE n < i
    <3>1. i - 1 \in 1 .. Len(s) /\ (n = i - 1 \/ n < i - 1) /\ i > 1
      BY <1>1, <2>2
    <3>2. s[n].dt <= s[i - 1].dt
      BY <1>1, <3>1
    <3> QED
      BY <1>1, <2>2, <3>1, <3>2
  <2> QED
    BY <2>1, <2>2
<1>3. {n \in 1 .. Len(s) : s[n].dt >= d} = i .. Len(s)
  BY <1>1, <1>2
<1>4. i \in 1 .. Len(s) + 1 /\ Len(s) \in 0 .. Len(s) /\ i <= Len(s) + 1
  BY <1>1
<1> QED
  BY <1>1, <1>3, <1>4, AtInterval DEF From

(* The bars between two dts are a piece of a sequence.                        *)
LEMMA WindowPiece ==
    ASSUME NEW s, Sound(s), NEW i \in 1 .. Len(s), NEW j \in 1 .. Len(s), i <= j
    PROVE  At(s, {n \in 1 .. Len(s) : s[i].dt <= s[n].dt /\ s[n].dt <= s[j].dt}) = SubSeq(s, i, j)
<1>1. /\ s \in Seq(UbiBars) /\ Len(s) \in Nat
      /\ \A n \in 1 .. Len(s) : s[n].dt \in Nat
      /\ \A n, m \in 1 .. Len(s) : n < m => s[n].dt < s[m].dt
  BY DatesRise
<1>2. ASSUME NEW n \in 1 .. Len(s) PROVE s[i].dt <= s[n].dt <=> i <= n
  BY <1>1
<1>3. ASSUME NEW n \in 1 .. Len(s) PROVE s[n].dt <= s[j].dt <=> n <= j
  BY <1>1
<1>4. {n \in 1 .. Len(s) : s[i].dt <= s[n].dt /\ s[n].dt <= s[j].dt} = i .. j
  BY <1>1, <1>2, <1>3
<1>5. i \in 1 .. Len(s) + 1 /\ j \in 0 .. Len(s) /\ i <= j + 1
  BY <1>1
<1> QED
  BY <1>1, <1>4, <1>5, AtInterval

-----------------------------------------------------------------------------
(* The extreme of a fractal or of a bar in the direction of a mark.           *)
Extreme(k, top) == IF top THEN k.hi ELSE -k.lo

(* check_bi ends a stroke at the most extreme of the opposite fractals.       *)
LEMMA EndFound ==
    ASSUME NEW f \in Seq(Fxs), Opposite(f) # {}
    PROVE  /\ End(f) \in Opposite(f)
           /\ \A i \in Opposite(f) : Extreme(f[i], f[End(f)].top) <= Extreme(f[End(f)], f[End(f)].top)
<1> DEFINE N == Len(f)
           I == Opposite(f)
           c == ~f[1].top
           v == [j \in I |-> Extreme(f[j], c)]
<1>1. N \in Nat /\ I \in SUBSET (1 .. N) /\ I # {}
  BY DEF Opposite
<1>2. \A j \in 1 .. N : f[j] \in Fxs
  BY <1>1
<1>3. \A j \in 1 .. N : f[j].top \in BOOLEAN /\ f[j].hi \in Int /\ f[j].lo \in Int
  BY <1>2 DEF Fxs
<1>4. 1 \in 1 .. N /\ c \in BOOLEAN
  BY <1>1, <1>3
<1>5. \A j \in I : f[j].top = c
  <2> TAKE j \in I
  <2>1. f[j].top # f[1].top /\ f[j].top \in BOOLEAN /\ f[1].top \in BOOLEAN
    BY <1>3, <1>4 DEF Opposite
  <2> QED
    BY <2>1
<1>6. v \in [I -> Int]
  BY <1>1, <1>3, <1>4 DEF Extreme
<1>7. \A j \in I : v[j] = Extreme(f[j], c)
  OBVIOUS
<1> HIDE DEF v, c, I, N
<1>8. \A e, i \in I : Beyond(f[e], f[i]) <=> v[e] > v[i]
  <2> TAKE e, i \in I
  <2>1. f[e].top = c /\ v[e] = Extreme(f[e], c) /\ v[i] = Extreme(f[i], c)
    BY <1>5, <1>7
  <2>2. f[e].hi \in Int /\ f[e].lo \in Int /\ f[i].hi \in Int /\ f[i].lo \in Int
    BY <1>1, <1>3
  <2> QED
    BY <2>1, <2>2 DEF Beyond, Extreme
<1> DEFINE Q(e) == \A i \in I \ {e} : Beyond(f[e], f[i]) \/ (~Beyond(f[i], f[e]) /\ e < i)
<1>9. \E e \in I : Q(e)
  <2>1. PICK e \in I : FirstTop(v, I, e)
    BY <1>1, <1>6, Tops
  <2>2. Q(e)
    BY <1>8, <2>1 DEF FirstTop
  <2> QED
    BY <2>2
<1>10. End(f) = CHOOSE e \in I : Q(e)
  BY DEF End, I
<1>11. End(f) \in I /\ Q(End(f))
  <2> HIDE DEF Q
  <2> QED
    BY <1>9, <1>10
<1> DEFINE d == End(f)
<1>12. d \in I /\ Q(d)
  BY <1>11
<1> HIDE DEF d
<1>13. \A i \in I : v[i] <= v[d]
  <2> TAKE i \in I
  <2>1. v[i] \in Int /\ v[d] \in Int
    BY <1>6, <1>12
  <2>2. i = d \/ v[d] > v[i] \/ ~(v[i] > v[d])
    BY <1>8, <1>12
  <2> QED
    BY <2>1, <2>2
<1> QED
  BY <1>5, <1>7, <1>12, <1>13 DEF d, I

(* A stroke over its bars: from the fractal at the second to the one at the   *)
(* last but one, its end the extreme.                                         *)
BiSet == [up : BOOLEAN, a : Fxs, b : Fxs, bars : Seq(UbiBars)]
Finished(x) ==
    /\ x \in BiSet /\ Good(x.bars) /\ Len(x.bars) >= 4
    /\ FractalAt(x.bars, 2) /\ x.a = Fractal(x.bars, 2)
    /\ FractalAt(x.bars, Len(x.bars) - 1) /\ x.b = Fractal(x.bars, Len(x.bars) - 1)
    /\ x.up = x.b.top /\ x.up = ~x.a.top
    /\ \A n \in 2 .. Len(x.bars) - 1 : Extreme(x.bars[n], x.up) <= Extreme(x.b, x.up)
    /\ Extreme(x.a, x.up) < Extreme(x.b, x.up)

(* Where one bar is above another its extremes are. *)
LEMMA FractalMark ==
    ASSUME NEW s \in Seq(UbiBars), NEW i \in 2 .. Len(s) - 1, NEW c \in BOOLEAN
    PROVE  /\ s[i].hi \in Int /\ s[i].lo \in Int /\ s[i - 1].hi \in Int /\ s[i - 1].lo \in Int
           /\ s[i + 1].hi \in Int /\ s[i + 1].lo \in Int
           /\ FractalAt(s, i) /\ Fractal(s, i).top = c =>
                /\ Extreme(s[i - 1], c) < Extreme(s[i], c) /\ Extreme(s[i + 1], c) < Extreme(s[i], c)
                /\ IF c THEN Above(s[i], s[i - 1]) /\ Above(s[i], s[i + 1])
                        ELSE Above(s[i - 1], s[i]) /\ Above(s[i + 1], s[i])
           /\ /\ Above(s[i - 1], s[i]) \/ Above(s[i], s[i - 1])
              /\ Above(s[i + 1], s[i]) \/ Above(s[i], s[i + 1])
              /\ Extreme(s[i - 1], c) <= Extreme(s[i], c) /\ Extreme(s[i + 1], c) <= Extreme(s[i], c)
              => FractalAt(s, i) /\ Fractal(s, i).top = c
<1> DEFINE h == i - 1
           j == i + 1
<1>1. i \in 1 .. Len(s) /\ h \in 1 .. Len(s) /\ j \in 1 .. Len(s)
  OBVIOUS
<1> HIDE DEF h, j
<1>2. s[i] \in UbiBars /\ s[h] \in UbiBars /\ s[j] \in UbiBars
  BY <1>1
<1>3. /\ s[i].hi \in Int /\ s[i].lo \in Int /\ s[h].hi \in Int /\ s[h].lo \in Int
      /\ s[j].hi \in Int /\ s[j].lo \in Int
  BY <1>2 DEF UbiBars
<1>4. Fractal(s, i).top = Above(s[i], s[h])
  BY FractalType DEF h
<1>5. FractalAt(s, i) <=> \/ Above(s[i], s[h]) /\ Above(s[i], s[j])
                          \/ Above(s[h], s[i]) /\ Above(s[j], s[i])
  BY DEF FractalAt, h, j
<1>8. Fractal(s, i).top = c <=> (c <=> Above(s[i], s[h]))
  <2>1. Above(s[i], s[h]) \in BOOLEAN
    BY DEF Above
  <2> QED
    BY <1>4, <2>1, Zenon
<1> DEFINE M == Fractal(s, i).top = c
<1>9. M <=> (c <=> Above(s[i], s[h]))
  BY <1>8
<1> HIDE DEF M
<1>10. FractalAt(s, i) /\ M =>
         /\ Extreme(s[h], c) < Extreme(s[i], c) /\ Extreme(s[j], c) < Extreme(s[i], c)
         /\ IF c THEN Above(s[i], s[h]) /\ Above(s[i], s[j]) ELSE Above(s[h], s[i]) /\ Above(s[j], s[i])
  <2>1. CASE c = TRUE
    BY <1>3, <1>5, <1>9, <2>1 DEF Above, Extreme
  <2>2. CASE c = FALSE
    BY <1>3, <1>5, <1>9, <2>2 DEF Above, Extreme
  <2> QED
    BY <2>1, <2>2
<1>11. /\ Above(s[h], s[i]) \/ Above(s[i], s[h])
       /\ Above(s[j], s[i]) \/ Above(s[i], s[j])
       /\ Extreme(s[h], c) <= Extreme(s[i], c) /\ Extreme(s[j], c) <= Extreme(s[i], c)
       => FractalAt(s, i) /\ M
  <2>1. CASE c = TRUE
    BY <1>3, <1>5, <1>9, <2>1 DEF Above, Extreme
  <2>2. CASE c = FALSE
    BY <1>3, <1>5, <1>9, <2>2 DEF Above, Extreme
  <2> QED
    BY <2>1, <2>2
<1> QED
  BY <1>3, <1>10, <1>11 DEF h, j, M

(* No bar between the ends of a stroke is beyond its end: the first of the    *)
(* most extreme ones is a fractal, which End would have taken.                *)
LEMMA EndExtreme ==
    ASSUME NEW t, Good(t), NEW f, f = Fractals(t), Opposite(f) # {},
           NEW p \in 2 .. Len(t) - 1, FractalAt(t, p), f[1] = Fractal(t, p),
           NEW q \in 2 .. Len(t) - 1, FractalAt(t, q), f[End(f)] = Fractal(t, q), p < q,
           NEW c, c = f[End(f)].top
    PROVE  /\ c \in BOOLEAN /\ f[1].top = ~c
           /\ \A n \in p .. q : Extreme(t[n], c) <= Extreme(t[q], c)
           /\ Extreme(t[p], c) < Extreme(t[q], c)
<1> DEFINE N == Len(t)
           I == p .. q
           v == [n \in I |-> Extreme(t[n], c)]
<1>1. /\ t \in Seq(UbiBars) /\ N \in Nat
      /\ \A n \in 1 .. N : t[n] \in UbiBars /\ t[n].dt \in Nat /\ t[n].hi \in Int /\ t[n].lo \in Int
      /\ \A i, j \in 1 .. N : i < j => t[i].dt < t[j].dt
  BY DatesRise DEF Good
<1>2. f = FractalsIn(t)[N] /\ N \in 0 .. N
  BY <1>1 DEF Fractals
<1>3. FractalsOf(t, N, f)
  BY <1>2, FractalsFound
<1>4. f \in Seq(Fxs) /\ End(f) \in Opposite(f)
      /\ \A i \in Opposite(f) : Extreme(f[i], c) <= Extreme(f[End(f)], c)
  BY <1>3, EndFound DEF FractalsOf
<1>5. Fractal(t, p) \in Fxs /\ Fractal(t, q) \in Fxs
  BY <1>1, FractalType
<1>6. /\ c \in BOOLEAN /\ f[1].top = ~c
      /\ IF c THEN t[q].hi > t[p].lo ELSE t[q].lo < t[p].hi
  <2>1. f[End(f)].top \in BOOLEAN /\ f[1].top \in BOOLEAN
    BY <1>5 DEF Fxs
  <2>2. f[End(f)].top # f[1].top /\ IF c THEN f[End(f)].hi > f[1].lo ELSE f[End(f)].lo < f[1].hi
    BY <1>4 DEF Opposite
  <2>3. Fractal(t, q).hi = t[q].hi /\ Fractal(t, q).lo = t[q].lo /\ Fractal(t, p).hi = t[p].hi /\ Fractal(t, p).lo = t[p].lo
    BY <1>1, FractalType
  <2> QED
    BY <2>1, <2>2, <2>3
<1>7. /\ I \in SUBSET (1 .. N) /\ p \in I /\ q \in I /\ p + 1 \in I /\ v \in [I -> Int]
  <2>1. I \in SUBSET (1 .. N) /\ p \in I /\ q \in I /\ p + 1 \in I
    BY <1>1
  <2>2. \A n \in I : t[n].hi \in Int /\ t[n].lo \in Int
    BY <1>1, <2>1
  <2>3. \A n \in I : Extreme(t[n], c) \in Int
    BY <1>6, <2>2 DEF Extreme
  <2> QED
    BY <2>1, <2>3
<1>8. \A n \in I : v[n] = Extreme(t[n], c)
  OBVIOUS
<1> HIDE DEF I, v
<1>9. PICK m \in I : FirstTop(v, I, m)
  BY <1>1, <1>7, Tops
<1>10. \A n \in I : Extreme(t[n], c) <= Extreme(t[m], c)
  <2> TAKE n \in I
  <2>1. v[n] \in Int /\ v[m] \in Int
    BY <1>7
  <2>2. n = m \/ v[m] > v[n] \/ ~(v[n] > v[m])
    BY <1>9 DEF FirstTop
  <2> QED
    BY <1>8, <2>1, <2>2
<1>11. Extreme(t[p], c) < Extreme(t[p + 1], c)
  <2> DEFINE r == p + 1
  <2>1. /\ r \in 1 .. N /\ p \in 1 .. N
    BY <1>1
  <2>2. t[r].hi \in Int /\ t[r].lo \in Int /\ t[p].hi \in Int /\ t[p].lo \in Int
    BY <1>1, <2>1
  <2>3. (~c) \in BOOLEAN /\ Fractal(t, p).top = ~c
    BY <1>6
  <2>4. IF ~c THEN Above(t[p], t[p - 1]) /\ Above(t[p], t[r])
              ELSE Above(t[p - 1], t[p]) /\ Above(t[r], t[p])
    BY <1>1, <2>3, FractalMark
  <2> HIDE DEF r
  <2>5. Extreme(t[p], c) < Extreme(t[r], c)
    BY <1>6, <2>2, <2>4 DEF Extreme, Above
  <2> QED
    BY <2>5 DEF r
<1>12. \A n \in I : Extreme(t[n], c) \in Int
  BY <1>7, <1>8
<1>13. Extreme(t[m], c) <= Extreme(t[q], c)
  <2> SUFFICES ASSUME ~(Extreme(t[m], c) <= Extreme(t[q], c)) PROVE FALSE
    OBVIOUS
  <2>1. m # q /\ m # p /\ m > p /\ m < q
    <3>1. Extreme(t[p + 1], c) <= Extreme(t[m], c) /\ Extreme(t[q], c) \in Int
      BY <1>7, <1>10, <1>12
    <3>2. m # q /\ m # p
      BY <1>7, <1>11, <1>12, <3>1
    <3> QED
      BY <3>2 DEF I
  <2> DEFINE h == m - 1
             j == m + 1
  <2>2. /\ m \in 2 .. N - 1 /\ m \in p + 1 .. N /\ j \in p + 1 .. N /\ j - 1 = m
        /\ h \in I /\ j \in I /\ m \in 1 .. N
    BY <1>1, <2>1 DEF I
  <2>3. Above(t[m - 1], t[m]) \/ Above(t[m], t[m - 1])
    BY <2>2, Directed
  <2>4. Above(t[m], t[j]) \/ Above(t[j], t[m])
    <3>1. Above(t[j - 1], t[j]) \/ Above(t[j], t[j - 1])
      <4> HIDE DEF j
      <4> QED
        BY <2>2, Directed
    <3> QED
      BY <2>2, <3>1
  <2>5. Extreme(t[m - 1], c) <= Extreme(t[m], c) /\ Extreme(t[m + 1], c) <= Extreme(t[m], c)
    BY <1>10, <2>2
  <2>6. FractalAt(t, m) /\ Fractal(t, m).top = c
    BY <1>1, <1>6, <2>2, <2>3, <2>4, <2>5, FractalMark
  <2>7. PICK i \in 1 .. Len(f) : f[i] = Fractal(t, m)
    BY <1>3, <2>2, <2>6 DEF FractalsOf
  <2>8. /\ Fractal(t, m).dt = t[m].dt /\ Fractal(t, m).hi = t[m].hi /\ Fractal(t, m).lo = t[m].lo
        /\ Fractal(t, q).hi = t[q].hi /\ Fractal(t, q).lo = t[q].lo
        /\ Fractal(t, p).dt = t[p].dt /\ Fractal(t, p).hi = t[p].hi /\ Fractal(t, p).lo = t[p].lo
    BY <1>1, <2>2, FractalType
  <2>9. t[p].dt < t[m].dt /\ t[m].dt \in Nat /\ t[p].dt \in Nat
    <3>1. p \in 1 .. N
      BY <1>1
    <3> QED
      BY <1>1, <2>1, <2>2, <3>1
  <2>10. IF c THEN t[m].hi > t[p].lo ELSE t[m].lo < t[p].hi
    <3>1. p \in 1 .. N /\ q \in 1 .. N
      BY <1>1
    <3>2. /\ t[m].hi \in Int /\ t[m].lo \in Int /\ t[p].hi \in Int /\ t[p].lo \in Int
          /\ t[q].hi \in Int /\ t[q].lo \in Int
      BY <1>1, <2>2, <3>1
    <3>3. c = TRUE \/ c = FALSE
      BY <1>6
    <3>4. IF c THEN t[q].hi > t[p].lo ELSE t[q].lo < t[p].hi
      BY <1>6
    <3>5. ASSUME c = TRUE PROVE t[m].hi > t[p].lo
      <4>1. ~(t[m].hi <= t[q].hi) /\ t[q].hi > t[p].lo
        BY <3>4, <3>5 DEF Extreme
      <4> QED
        BY <3>2, <4>1
    <3>6. ASSUME c = FALSE PROVE t[m].lo < t[p].hi
      <4>1. ~(-t[m].lo <= -t[q].lo) /\ t[q].lo < t[p].hi
        BY <3>4, <3>6 DEF Extreme
      <4> QED
        BY <3>2, <4>1
    <3> QED
      BY <3>3, <3>5, <3>6
  <2>11. i \in Opposite(f)
    BY <1>6, <2>6, <2>7, <2>8, <2>9, <2>10 DEF Opposite
  <2>12. Extreme(f[i], c) <= Extreme(f[End(f)], c)
    BY <1>4, <2>11
  <2>13. Extreme(f[i], c) = Extreme(t[m], c) /\ Extreme(f[End(f)], c) = Extreme(t[q], c)
    BY <2>7, <2>8 DEF Extreme
  <2> QED
    BY <2>12, <2>13
<1>14. \A n \in I : Extreme(t[n], c) <= Extreme(t[q], c)
  BY <1>7, <1>10, <1>12, <1>13
<1>15. Extreme(t[p], c) < Extreme(t[q], c)
  <2>1. Extreme(t[p + 1], c) <= Extreme(t[q], c)
    BY <1>7, <1>14
  <2> QED
    BY <1>7, <1>11, <1>12, <2>1
<1> QED
  BY <1>6, <1>14, <1>15 DEF I

(* The same place is a fractal in a piece of the bars, and the same one.      *)
LEMMA FractalPiece ==
    ASSUME NEW t \in Seq(UbiBars), NEW c \in Nat, NEW u \in Seq(UbiBars), c + Len(u) <= Len(t),
           \A i \in 1 .. Len(u) : u[i] = t[c + i],
           NEW i \in 2 .. Len(u) - 1
    PROVE  Fractal(u, i) = Fractal(t, c + i) /\ (FractalAt(u, i) <=> FractalAt(t, c + i))
<1> DEFINE h == i - 1
           j == i + 1
           r == c + i
<1>1. /\ i \in 1 .. Len(u) /\ h \in 1 .. Len(u) /\ j \in 1 .. Len(u)
      /\ c + h = r - 1 /\ c + j = r + 1
  OBVIOUS
<1> HIDE DEF h, j
<1>2. u[i] = t[r] /\ u[h] = t[c + h] /\ u[j] = t[c + j]
  BY <1>1
<1>3. u[i] = t[r] /\ u[h] = t[r - 1] /\ u[j] = t[r + 1]
  BY <1>1, <1>2
<1> HIDE DEF r
<1>4. u[i - 1] = t[r - 1] /\ u[i + 1] = t[r + 1]
  BY <1>3 DEF h, j
<1>5. Fractal(u, i) = Fractal(t, r) /\ (FractalAt(u, i) <=> FractalAt(t, r))
  BY <1>3, <1>4, Zenon DEF Fractal, FractalAt
<1> QED
  BY <1>5 DEF r

(* x is the stroke of t from its bar p to its bar q. *)
StrokeOf(x, t, p, q) ==
    /\ Finished(x) /\ p \in 2 .. Len(t) - 1 /\ q \in 2 .. Len(t) - 1 /\ p < q
    /\ Len(x.bars) = q - p + 3 /\ \A i \in 1 .. q - p + 3 : x.bars[i] = t[p + i - 2]

(* What check_bi finds is a stroke over a piece of the bars, from the first   *)
(* fractal on; the bars from the one before its end are left.                 *)
LEMMA StrokeFound ==
    ASSUME NEW t, Good(t), Stroke(t) # <<>>
    PROVE  \E x, p, q :
             /\ StrokeOf(x, t, p, q) /\ Stroke(t) = <<x>> /\ (FractalAt(t, 2) => p = 2)
             /\ RestAfter(t, Stroke(t)) = SubSeq(t, q - 1, Len(t))
<1> DEFINE N == Len(t)
           f == Fractals(t)
           a == f[1]
           b == f[End(f)]
           w == At(t, {i \in 1 .. N : a.from <= t[i].dt /\ t[i].dt <= b.to})
           x == [up |-> ~a.top, a |-> a, b |-> b, bars |-> w]
<1>1. /\ Len(f) >= 2 /\ Opposite(f) # {} /\ Stroke(t) = <<x>>
  <2>1. Stroke(t) = IF Len(f) < 2 \/ Opposite(f) = {} THEN <<>>
                    ELSE IF Inside(a, b) \/ Inside(b, a) \/ Len(w) < MinBiLen THEN <<>> ELSE <<x>>
    BY Zenon DEF Stroke
  <2>2. ~(Len(f) < 2)
    BY <2>1, Zenon
  <2>3. FractalsOf(t, N, f)
    <3>1. N \in 0 .. N
      BY DEF Good, Sound
    <3> QED
      BY <3>1, FractalsFound DEF Fractals
  <2>4. Len(f) \in Nat
    BY <2>3 DEF FractalsOf
  <2>5. Len(f) >= 2
    BY <2>2, <2>4
  <2> HIDE DEF x, w, a, b, f
  <2> QED
    BY <2>1, <2>5, Zenon
<1>2. /\ t \in Seq(UbiBars) /\ N \in Nat /\ Sound(t)
      /\ \A n \in 1 .. N : t[n] \in UbiBars /\ t[n].dt \in Nat /\ t[n].hi \in Int /\ t[n].lo \in Int
      /\ \A i, j \in 1 .. N : i < j => t[i].dt < t[j].dt
  BY DatesRise DEF Good
<1> HIDE DEF x, w, f
<1>3. FractalsOf(t, N, f)
  <2>1. N \in 0 .. N
    BY <1>2
  <2> QED
    BY <2>1, FractalsFound DEF Fractals, f
<1>4. /\ f \in Seq(Fxs) /\ End(f) \in Opposite(f) /\ 1 \in 1 .. Len(f) /\ End(f) \in 1 .. Len(f)
      /\ N >= 3
  <2>1. f \in Seq(Fxs) /\ f # <<>> /\ N >= 3
    BY <1>1, <1>3 DEF FractalsOf
  <2>2. End(f) \in Opposite(f)
    BY <1>1, <2>1, EndFound
  <2> QED
    BY <1>1, <2>1, <2>2 DEF Opposite
<1>5. PICK p \in 2 .. N - 1 : FractalAt(t, p) /\ a = Fractal(t, p) /\ (FractalAt(t, 2) => p = 2)
  <2>1. CASE FractalAt(t, 2)
    <3>1. a = Fractal(t, 2) /\ 2 \in 2 .. N - 1
      BY <1>2, <1>3, <1>4, <2>1 DEF FractalsOf
    <3> QED
      BY <2>1, <3>1
  <2>2. CASE ~FractalAt(t, 2)
    <3>1. PICK i \in 2 .. N - 1 : FractalAt(t, i) /\ f[1] = Fractal(t, i)
      BY <1>3, <1>4 DEF FractalsOf
    <3> QED
      BY <2>2, <3>1
  <2> QED
    BY <2>1, <2>2
<1>6. PICK q \in 2 .. N - 1 : FractalAt(t, q) /\ b = Fractal(t, q)
  BY <1>3, <1>4 DEF FractalsOf
<1> HIDE DEF a, b
<1>7. /\ a \in Fxs /\ a.top = Above(t[p], t[p - 1]) /\ a.dt = t[p].dt /\ a.hi = t[p].hi /\ a.lo = t[p].lo
      /\ a.from = t[p - 1].dt
      /\ b \in Fxs /\ b.dt = t[q].dt /\ b.hi = t[q].hi /\ b.lo = t[q].lo
      /\ b.from = t[q - 1].dt /\ b.to = t[q + 1].dt
  BY <1>2, <1>5, <1>6, FractalType
<1>8. a.top # b.top /\ a.dt < b.dt /\ a.dt \in Nat /\ b.dt \in Nat
  <2>1. a.dt \in Nat /\ b.dt \in Nat
    BY <1>7 DEF Fxs
  <2> QED
    BY <1>4, <2>1 DEF Opposite, a, b
<1>9. p < q
  <2>1. p \in 1 .. N /\ q \in 1 .. N
    BY <1>2
  <2>2. ~(t[p].dt >= t[q].dt)
    BY <1>7, <1>8
  <2>3. q < p => t[q].dt < t[p].dt
    BY <1>2, <2>1
  <2>4. q < p \/ q = p \/ p < q
    BY <2>1
  <2> QED
    BY <1>2, <2>1, <2>2, <2>3, <2>4
<1>10. /\ b.top \in BOOLEAN /\ a.top = ~b.top
       /\ \A n \in p .. q : Extreme(t[n], b.top) <= Extreme(t[q], b.top)
       /\ Extreme(t[p], b.top) < Extreme(t[q], b.top)
  <2> DEFINE c == b.top
  <2>1. c = b.top
    OBVIOUS
  <2> HIDE DEF c
  <2>2. /\ c \in BOOLEAN /\ f[1].top = ~c
        /\ \A n \in p .. q : Extreme(t[n], c) <= Extreme(t[q], c)
        /\ Extreme(t[p], c) < Extreme(t[q], c)
    BY <1>1, <1>5, <1>6, <1>9, <2>1, EndExtreme DEF a, b, f
  <2> QED
    BY <2>2 DEF a, c
<1> DEFINE g == p - 1
           h == q + 1
           L == q - p + 3
<1>11. /\ g \in 1 .. N /\ h \in 1 .. N /\ g <= h /\ g \in 1 .. N + 1 /\ h \in 0 .. N /\ g <= h + 1
       /\ h + 1 - g = L /\ L \in Nat /\ L >= 4 /\ g - 1 \in Nat /\ (g - 1) + L = h
  <2>1. p \in Nat /\ q \in Nat /\ N \in Nat /\ 2 <= p /\ p < q /\ q <= N - 1
    BY <1>2, <1>9
  <2> HIDE DEF N
  <2>2. g \in Nat /\ h \in Nat /\ 1 <= g /\ g <= h /\ h <= N /\ h + 1 - g = L /\ L \in Nat /\ L >= 4
    BY <2>1
  <2> HIDE DEF g, h, L
  <2> QED
    BY <2>1, <2>2
<1>12. w = SubSeq(t, g, h)
  <2> HIDE DEF g, h
  <2>1. a.from = t[g].dt /\ b.to = t[h].dt
    BY <1>7 DEF g, h
  <2>2. w = At(t, {i \in 1 .. Len(t) : t[g].dt <= t[i].dt /\ t[i].dt <= t[h].dt})
    BY <2>1 DEF w
  <2> QED
    BY <1>2, <1>11, <2>2, WindowPiece
<1> HIDE DEF g, h, L
<1>13. /\ w \in Seq(UbiBars) /\ Len(w) = L /\ \A i \in 1 .. L : w[i] = t[g + i - 1]
  BY <1>2, <1>11, <1>12, Piece
<1>14. \A i \in 1 .. L : w[i] = t[p + i - 2] /\ w[i] = t[(g - 1) + i]
  <2>1. \A i \in 1 .. L : g + i - 1 = p + i - 2 /\ g + i - 1 = (g - 1) + i
    BY <1>11 DEF g
  <2> QED
    BY <1>13, <2>1
<1>15. Good(w)
  <2>1. (g - 1) + Len(w) <= Len(t) /\ g - 1 \in Nat /\ \A i \in 1 .. Len(w) : w[i] = t[(g - 1) + i]
    BY <1>2, <1>11, <1>13, <1>14
  <2> DEFINE c == g - 1
  <2>2. c + Len(w) <= Len(t) /\ c \in Nat /\ \A i \in 1 .. Len(w) : w[i] = t[c + i]
    BY <2>1
  <2> HIDE DEF c
  <2> QED
    BY <1>13, <2>2, GoodPiece
<1>16. /\ FractalAt(w, 2) /\ Fractal(w, 2) = a /\ FractalAt(w, L - 1) /\ Fractal(w, L - 1) = b
  <2> DEFINE c == g - 1
             l == L - 1
  <2>1. /\ c + Len(w) <= Len(t) /\ c \in Nat /\ \A i \in 1 .. Len(w) : w[i] = t[c + i]
        /\ 2 \in 2 .. Len(w) - 1 /\ l \in 2 .. Len(w) - 1 /\ c + 2 = p /\ c + l = q
    <3>1. c + 2 = p /\ c + l = q
      BY <1>11 DEF g, L
    <3> QED
      BY <1>2, <1>11, <1>13, <1>14, <3>1
  <2> HIDE DEF c, l
  <2>2. Fractal(w, 2) = Fractal(t, c + 2) /\ (FractalAt(w, 2) <=> FractalAt(t, c + 2))
    BY <1>2, <1>13, <2>1, FractalPiece
  <2>3. Fractal(w, l) = Fractal(t, c + l) /\ (FractalAt(w, l) <=> FractalAt(t, c + l))
    BY <1>2, <1>13, <2>1, FractalPiece
  <2>4. /\ FractalAt(w, 2) /\ Fractal(w, 2) = a /\ FractalAt(w, l) /\ Fractal(w, l) = b
    BY <1>5, <1>6, <2>1, <2>2, <2>3
  <2> QED
    BY <2>4 DEF l
<1>17. /\ x.up = b.top /\ x.up = ~a.top /\ x.a = a /\ x.b = b /\ x.bars = w /\ x \in BiSet
  <2>1. x.up = ~a.top /\ x.a = a /\ x.b = b /\ x.bars = w
    BY DEF x
  <2>2. x.up = b.top
    BY <1>10, <2>1
  <2>3. x \in BiSet
    BY <1>7, <1>10, <1>13 DEF BiSet, x
  <2> QED
    BY <2>1, <2>2, <2>3
<1>18. \A n \in 2 .. L - 1 : Extreme(w[n], x.up) <= Extreme(x.b, x.up)
  <2> TAKE n \in 2 .. L - 1
  <2> DEFINE m == p + n - 2
  <2>1. n \in 1 .. L /\ m \in p .. q
    BY <1>11 DEF L
  <2>2. w[n] = t[m]
    BY <1>14, <2>1
  <2> HIDE DEF m
  <2>3. Extreme(t[m], b.top) <= Extreme(t[q], b.top)
    BY <1>10, <2>1
  <2>4. Extreme(t[q], b.top) = Extreme(b, b.top)
    BY <1>7 DEF Extreme
  <2> QED
    BY <1>17, <2>2, <2>3, <2>4
<1>19. Extreme(x.a, x.up) < Extreme(x.b, x.up)
  <2>1. Extreme(t[q], b.top) = Extreme(b, b.top) /\ Extreme(t[p], b.top) = Extreme(a, b.top)
    BY <1>7 DEF Extreme
  <2> QED
    BY <1>10, <1>17, <2>1
<1>20. Finished(x)
  BY <1>11, <1>13, <1>15, <1>16, <1>17, <1>18, <1>19 DEF Finished
<1>21. StrokeOf(x, t, p, q)
  BY <1>9, <1>13, <1>14, <1>17, <1>20 DEF StrokeOf, L
<1>22. RestAfter(t, Stroke(t)) = SubSeq(t, q - 1, Len(t))
  <2> DEFINE r == q - 1
  <2>1. r \in 1 .. Len(t) /\ (r > 1 => r - 1 \in 1 .. Len(t) /\ r - 1 < r)
    BY <1>2
  <2>6. b.from = t[r].dt
    BY <1>7
  <2> HIDE DEF r
  <2>2. t[r].dt \in Nat /\ t[r].dt <= t[r].dt /\ (r > 1 => t[r - 1].dt < t[r].dt) /\ b.from = t[r].dt
    <3>1. t[r].dt \in Nat /\ t[r].dt <= t[r].dt
      BY <1>2, <2>1
    <3>2. r > 1 => t[r - 1].dt < t[r].dt
      BY <1>2, <2>1
    <3> QED
      BY <2>6, <3>1, <3>2
  <2>3. From(t, t[r].dt) = SubSeq(t, r, Len(t))
    BY <1>2, <2>1, <2>2, FromPiece
  <2>4. Stroke(t) # <<>> /\ Stroke(t)[1].b.from = t[r].dt
    BY <1>1, <1>17, <2>2
  <2>5. RestAfter(t, Stroke(t)) = From(t, t[r].dt)
    BY <2>4 DEF RestAfter
  <2> QED
    BY <2>3, <2>5 DEF r
<1> QED
  BY <1>1, <1>5, <1>21, <1>22

(* find_first_bi_ drops bars at the beginning, and leaves three or more.      *)
LEMMA StartFound ==
    ASSUME NEW s, Good(s), Len(s) >= 3
    PROVE  \E c \in 1 .. Len(s) - 2 : FirstStart(s) = SubSeq(s, c, Len(s))
<1> DEFINE N == Len(s)
           f == Fractals(s)
           I == {i \in 1 .. Len(f) : f[i].top = f[1].top}
           Q(e) == \A i \in I \ {e} : Beyond(f[e], f[i]) \/ (~Beyond(f[i], f[e]) /\ e > i)
           j == CHOOSE e \in I : Q(e)
<1>1. FirstStart(s) = IF f = <<>> THEN s ELSE From(s, f[j].from)
  BY DEF FirstStart
<1>2. /\ s \in Seq(UbiBars) /\ N \in Nat /\ Sound(s) /\ N \in 0 .. N
      /\ \A n \in 1 .. N : s[n].dt \in Nat
      /\ \A i, k \in 1 .. N : i < k => s[i].dt < s[k].dt
  <2>1. Sound(s)
    BY DEF Good
  <2>2. /\ s \in Seq(UbiBars) /\ Len(s) \in Nat
        /\ \A i \in 1 .. Len(s) : s[i] \in UbiBars /\ s[i].dt \in Nat
        /\ \A i, k \in 1 .. Len(s) : i < k => s[i].dt < s[k].dt
    BY <2>1, DatesRise
  <2>3. Len(s) \in 0 .. Len(s)
    BY <2>2
  <2> QED
    BY <2>1, <2>2, <2>3
<1>3. FractalsOf(s, N, f)
  BY <1>2, FractalsFound DEF Fractals
<1> HIDE DEF f
<1>4. CASE f = <<>>
  <2>1. SubSeq(s, 1, N) = s /\ 1 \in 1 .. N - 2
    BY <1>2
  <2> HIDE DEF I, Q, j
  <2> QED
    BY <1>1, <1>4, <2>1
<1>5. CASE f # <<>>
  <2> DEFINE c == f[1].top
             v == [i \in I |-> Extreme(f[i], c)]
  <2>13. f \in Seq(Fxs) /\ Len(f) \in Nat /\ 1 \in 1 .. Len(f)
    BY <1>3, <1>5 DEF FractalsOf
  <2>1. /\ f \in Seq(Fxs) /\ Len(f) \in Nat /\ 1 \in I /\ I \in SUBSET (1 .. Len(f)) /\ I # {}
    <3>1. 1 \in I /\ I \in SUBSET (1 .. Len(f))
      BY <2>13, Zenon
    <3> QED
      BY <2>13, <3>1
  <2>2. \A i \in 1 .. Len(f) : f[i] \in Fxs
    BY <2>1
  <2>3. \A i \in 1 .. Len(f) : f[i].top \in BOOLEAN /\ f[i].hi \in Int /\ f[i].lo \in Int
    BY <2>2 DEF Fxs
  <2>4. v \in [I -> Int] /\ \A i \in I : f[i].top = c /\ v[i] = Extreme(f[i], c)
    BY <2>1, <2>3 DEF Extreme
  <2> HIDE DEF I, v, c
  <2>5. \A e, i \in I : Beyond(f[e], f[i]) <=> v[e] > v[i]
    <3> TAKE e, i \in I
    <3>1. f[e].top = c /\ v[e] = Extreme(f[e], c) /\ v[i] = Extreme(f[i], c)
      BY <2>4
    <3>2. f[e].hi \in Int /\ f[e].lo \in Int /\ f[i].hi \in Int /\ f[i].lo \in Int
      BY <2>1, <2>3
    <3> QED
      BY <3>1, <3>2 DEF Beyond, Extreme
  <2>6. \E e \in I : Q(e)
    <3>1. PICK e \in I : LastTop(v, I, e)
      BY <2>1, <2>4, Tops
    <3>2. Q(e)
      BY <2>5, <3>1 DEF LastTop
    <3> QED
      BY <3>2
  <2> HIDE DEF Q
  <2>7. j \in I
    BY <2>6
  <2> HIDE DEF j
  <2>8. PICK i \in 2 .. N - 1 : f[j] = Fractal(s, i)
    BY <1>3, <2>1, <2>7 DEF FractalsOf
  <2> DEFINE r == i - 1
  <2>9. /\ r \in 1 .. N - 2 /\ r \in 1 .. Len(s) /\ (r > 1 => r - 1 \in 1 .. Len(s) /\ r - 1 < r)
    BY <1>2
  <2>10. f[j].from = s[r].dt
    BY <1>2, <2>8, FractalType
  <2> HIDE DEF r
  <2>11. s[r].dt \in Nat /\ s[r].dt <= s[r].dt /\ (r > 1 => s[r - 1].dt < s[r].dt)
    BY <1>2, <2>9
  <2>12. From(s, s[r].dt) = SubSeq(s, r, Len(s))
    BY <1>2, <2>9, <2>11, FromPiece
  <2> QED
    BY <1>1, <1>5, <2>9, <2>10, <2>12
<1> QED
  BY <1>4, <1>5

-----------------------------------------------------------------------------
(* Bars s that go on where the stroke x ends: the first is the one before its *)
(* end, the second the one of its end, which later bars may have grown, and   *)
(* the third turns back.                                                      *)
Begins(d, e) == Len(d) <= Len(e) /\ \A i \in 1 .. Len(d) : d[i] = e[i]
Past(k, j, top) == IF top THEN Above(k, j) ELSE Above(j, k)
EndBar(x) == x.bars[Len(x.bars) - 1]
Joins(x, s) ==
    /\ s \in Seq(UbiBars) /\ Len(s) >= 2 /\ s[1] = x.bars[Len(x.bars) - 2]
    /\ Begins(EndBar(x).elements, s[2].elements) /\ EndBar(x).dt <= s[2].dt
    /\ Past(s[2], s[1], x.up) /\ Extreme(x.b, x.up) <= Extreme(s[2], x.up)
Turns(x, s) == Len(s) >= 3 => Past(s[2], s[3], x.up)
Carries(x, s) == Len(s) = 3 /\ Past(s[3], s[2], x.up)
Stretched(x, s) == Len(s) = 2 => Len(EndBar(x).elements) < Len(s[2].elements)
Fixed(x, s) == Len(s) >= 3 /\ s[2] = EndBar(x)
Follows(x, s, n) == Joins(x, s) /\ Turns(x, s) /\ (n = 0 => Fixed(x, s))


(* Directions. *)
LEMMA Sides ==
    ASSUME NEW k, NEW j, k.hi \in Int, k.lo \in Int, j.hi \in Int, j.lo \in Int, NEW c \in BOOLEAN
    PROVE  /\ Past(k, j, c) => Extreme(k, c) > Extreme(j, c) /\ k.hi # j.hi /\ (k.hi > j.hi <=> c)
           /\ Past(k, j, c) <=> Past(j, k, ~c)
           /\ Past(k, j, c) => ~Includes(j, k) /\ ~Includes(k, j)
           /\ ~Includes(k, j) => Past(k, j, c) \/ Past(j, k, c)
           /\ ~Includes(k, j) /\ c /\ k.hi > j.hi => Past(k, j, c)
           /\ ~Includes(k, j) /\ ~c /\ k.hi < j.hi => Past(k, j, c)
<1>1. CASE c = TRUE
  BY <1>1 DEF Past, Above, Extreme, Includes
<1>2. CASE c = FALSE
  BY <1>2 DEF Past, Above, Extreme, Includes
<1> QED
  BY <1>1, <1>2

(* The bars of a stroke around its end. *)
LEMMA EndBars ==
    ASSUME NEW x, Finished(x), NEW t, t = x.bars, NEW n, n = Len(x.bars)
    PROVE  /\ x.up \in BOOLEAN /\ x.a.top = ~x.up /\ x.a \in Fxs /\ x.b \in Fxs
           /\ t \in Seq(UbiBars) /\ Good(t) /\ n \in Nat /\ n >= 4
           /\ t[1] \in UbiBars /\ t[2] \in UbiBars /\ t[3] \in UbiBars
           /\ t[n - 2] \in UbiBars /\ t[n - 1] \in UbiBars /\ EndBar(x) = t[n - 1]
           /\ Dated(t[n - 2]) /\ Dated(t[n - 1]) /\ Before(t[n - 2], t[n - 1]) /\ t[n - 2].dt < t[n - 1].dt
           /\ Adjacent(t[n - 2], t[n - 1])
           /\ Past(t[n - 1], t[n - 2], x.up) /\ Extreme(x.b, x.up) = Extreme(t[n - 1], x.up)
           /\ Past(t[2], t[1], ~x.up) /\ Past(t[2], t[3], ~x.up)
<1> DEFINE e == n - 1
           d == n - 2
<1>1. x \in BiSet /\ Good(t) /\ n >= 4 /\ t \in Seq(UbiBars) /\ n \in Nat /\ Sound(t) /\ n = Len(t)
  <2>1. x \in BiSet /\ Good(t) /\ n >= 4
    BY DEF Finished
  <2>2. Sound(t)
    BY <2>1 DEF Good
  <2>3. t \in Seq(UbiBars) /\ n = Len(t)
    BY <2>2 DEF Sound
  <2> QED
    BY <2>1, <2>2, <2>3
<1>2. x.up \in BOOLEAN /\ x.a \in Fxs /\ x.b \in Fxs /\ x.a.top \in BOOLEAN
  BY <1>1 DEF BiSet, Fxs
<1>3. x.up = ~x.a.top /\ x.up = x.b.top
  BY DEF Finished
<1>4. /\ e \in 2 .. Len(t) - 1 /\ 2 \in 2 .. Len(t) - 1 /\ e - 1 = d /\ d + 1 = e /\ d \in 1 .. Len(t) - 1
      /\ e \in 1 .. Len(t) /\ d \in 1 .. Len(t) /\ d < e
      /\ 1 \in 1 .. Len(t) /\ 2 \in 1 .. Len(t) /\ 3 \in 1 .. Len(t) /\ 2 - 1 = 1 /\ 2 + 1 = 3
  BY <1>1
<1>5. FractalAt(t, e) /\ x.b = Fractal(t, e) /\ FractalAt(t, 2) /\ x.a = Fractal(t, 2)
  BY DEF Finished
<1> HIDE DEF e, d
<1>6. x.b.hi = t[e].hi /\ x.b.lo = t[e].lo
  BY <1>1, <1>4, <1>5, FractalType
<1>7. Past(t[e], t[d], x.up)
  <2>1. IF x.up THEN Above(t[e], t[e - 1]) /\ Above(t[e], t[e + 1])
                ELSE Above(t[e - 1], t[e]) /\ Above(t[e + 1], t[e])
    BY <1>1, <1>2, <1>3, <1>4, <1>5, FractalMark
  <2> QED
    BY <1>4, <2>1 DEF Past
<1>8. Past(t[2], t[1], ~x.up) /\ Past(t[2], t[3], ~x.up)
  <2>1. (~x.up) \in BOOLEAN /\ x.a.top = ~x.up
    BY <1>2, <1>3
  <2>2. IF ~x.up THEN Above(t[2], t[2 - 1]) /\ Above(t[2], t[2 + 1])
                 ELSE Above(t[2 - 1], t[2]) /\ Above(t[2 + 1], t[2])
    BY <1>1, <1>4, <1>5, <2>1, FractalMark
  <2> QED
    BY <1>4, <2>2 DEF Past
<1>9. /\ t[d] \in UbiBars /\ t[e] \in UbiBars /\ Dated(t[d]) /\ Dated(t[e]) /\ Before(t[d], t[e])
      /\ Adjacent(t[d], t[e]) /\ t[1] \in UbiBars /\ t[2] \in UbiBars /\ t[3] \in UbiBars
  <2>1. Adjacent(t[d], t[d + 1])
    BY <1>1, <1>4 DEF Good
  <2> QED
    BY <1>1, <1>4, <2>1 DEF Sound
<1>10. t[d].dt < t[e].dt
  BY <1>1, <1>4, DatesRise
<1>11. Extreme(x.b, x.up) = Extreme(t[e], x.up) /\ EndBar(x) = t[e]
  BY <1>6 DEF Extreme, EndBar, e
<1> QED
  BY <1>1, <1>2, <1>3, <1>7, <1>8, <1>9, <1>10, <1>11 DEF d, e

(* A newer bar added to the bars after a stroke. Two of them and a third that *)
(* does not turn back break the stroke.                                       *)
LEMMA JoinAdd ==
    ASSUME NEW x, Finished(x), NEW s, Good(s), Joins(x, s),
           NEW b \in RawBars, Newest(s[Len(s)]) < b.dt, NEW t, t = AddBar(s, b)
    PROVE  /\ Joins(x, t)
           /\ Len(s) >= 3 /\ Turns(x, s) => Len(t) >= 3 /\ Turns(x, t)
           /\ Len(s) = 2 => Stretched(x, t) /\ (Turns(x, t) \/ Carries(x, t))
           /\ Fixed(x, s) => Fixed(x, t)
<1> DEFINE n == Len(s)
           c == x.up
<1>1. /\ s \in Seq(UbiBars) /\ n \in Nat /\ n >= 2 /\ Sound(s) /\ t \in Seq(UbiBars)
      /\ Absorbs(s, b) =>
           /\ Len(t) = n
           /\ \A i \in 1 .. n - 1 : t[i] = s[i]
           /\ t[n] = Merged(s[n - 1], s[n], b)
      /\ ~Absorbs(s, b) =>
           /\ Len(t) = n + 1
           /\ \A i \in 1 .. n : t[i] = s[i]
           /\ t[n + 1] = FromRaw(b)
  <2>1. Sound(s)
    BY DEF Good
  <2>2. Len(s) \in Nat /\ Len(s) >= 2
    BY <2>1 DEF Joins, Sound
  <2> QED
    BY <2>1, <2>2, AddBarCases
<1>2. /\ \A i \in 1 .. n : s[i] \in UbiBars /\ Dated(s[i])
      /\ \A i \in 1 .. n : s[i].hi \in Int /\ s[i].lo \in Int
  BY <1>1, DatesRise DEF Sound
<1>3. /\ c \in BOOLEAN /\ x.b.hi \in Int /\ x.b.lo \in Int
  BY EndBars DEF Fxs
<1>4. /\ s[1] = x.bars[Len(x.bars) - 2] /\ Begins(EndBar(x).elements, s[2].elements) /\ EndBar(x).dt <= s[2].dt
      /\ Past(s[2], s[1], c) /\ Extreme(x.b, c) <= Extreme(s[2], c)
  BY DEF Joins
<1>5. 1 \in 1 .. n /\ 2 \in 1 .. n
  BY <1>1
<1>6. s[2].hi # s[1].hi /\ (s[2].hi > s[1].hi <=> c)
  <2> DEFINE k == s[2]  j == s[1]
  <2>1. k.hi \in Int /\ k.lo \in Int /\ j.hi \in Int /\ j.lo \in Int /\ Past(k, j, c)
    BY <1>2, <1>4, <1>5
  <2> HIDE DEF k, j, c
  <2>2. k.hi # j.hi /\ (k.hi > j.hi <=> c)
    <3>1. ASSUME c = TRUE PROVE k.hi # j.hi /\ (k.hi > j.hi <=> c)
      BY <2>1, <3>1 DEF Past, Above
    <3>2. ASSUME c = FALSE PROVE k.hi # j.hi /\ (k.hi > j.hi <=> c)
      BY <2>1, <3>2 DEF Past, Above
    <3> QED
      BY <1>3, <3>1, <3>2
  <2> QED
    BY <2>2 DEF k, j
<1> HIDE DEF c
<1>7. CASE n >= 3
  <2>1. /\ t[1] = s[1] /\ t[2] = s[2] /\ Len(t) >= 3
    BY <1>1, <1>7
  <2>2. Joins(x, t)
    BY <1>1, <1>4, <2>1 DEF Joins, c
  <2>3. Fixed(x, s) => Fixed(x, t)
    BY <2>1 DEF Fixed
  <2>4. Turns(x, s) => Turns(x, t)
    <3> SUFFICES ASSUME Turns(x, s) PROVE Past(t[2], t[3], c)
      BY DEF Turns, c
    <3>1. Past(s[2], s[3], c)
      BY <1>7 DEF Turns, c
    <3>2. CASE t[3] = s[3]
      BY <2>1, <3>1, <3>2
    <3>3. CASE t[3] # s[3]
      <4>1. Absorbs(s, b) /\ n = 3
        <5>1. ~Absorbs(s, b) => 3 \in 1 .. n /\ t[3] = s[3]
          BY <1>1, <1>7
        <5>2. Absorbs(s, b) /\ n # 3 => 3 \in 1 .. n - 1 /\ t[3] = s[3]
          BY <1>1, <1>7
        <5> QED
          BY <3>3, <5>1, <5>2
      <4>2. /\ t[3] = Merged(s[2], s[3], b) /\ 2 \in 1 .. n /\ 3 \in 1 .. n
        BY <1>1, <4>1
      <4>3. s[2] \in UbiBars /\ s[3] \in UbiBars /\ Dated(s[3]) /\ Newest(s[3]) < b.dt
        BY <1>2, <4>1, <4>2
      <4> DEFINE k == t[3]
      <4>4. k = Merged(s[2], s[3], b)
        BY <4>2
      <4> HIDE DEF k
      <4>5. /\ k \in UbiBars
            /\ s[2].hi < s[3].hi => k.hi >= s[3].hi /\ k.lo >= s[3].lo
            /\ ~(s[2].hi < s[3].hi) => k.hi <= s[3].hi /\ k.lo <= s[3].lo
        BY <4>3, <4>4, MergedBar
      <4>6. /\ k.hi \in Int /\ k.lo \in Int /\ s[2].hi \in Int /\ s[2].lo \in Int /\ s[3].hi \in Int /\ s[3].lo \in Int
        BY <4>3, <4>5 DEF UbiBars
      <4>7. Past(s[2], k, c)
        <5>1. CASE c = TRUE
          BY <3>1, <4>5, <4>6, <5>1 DEF Past, Above
        <5>2. CASE c = FALSE
          BY <3>1, <4>5, <4>6, <5>2 DEF Past, Above
        <5> QED
          BY <1>3, <5>1, <5>2 DEF c
      <4> QED
        BY <2>1, <4>7 DEF k
    <3> QED
      BY <3>2, <3>3
  <2> QED
    BY <1>7, <2>1, <2>2, <2>3, <2>4
<1>8. CASE n = 2
  <2>1. ~Fixed(x, s)
    BY <1>8 DEF Fixed
  <2>2. CASE Absorbs(s, b)
    <3> DEFINE k == t[2]
    <3>1. Len(t) = 2 /\ t[1] = s[1] /\ k = Merged(s[1], s[2], b)
      BY <1>1, <1>8, <2>2
    <3> HIDE DEF k
    <3>2. s[1] \in UbiBars /\ s[2] \in UbiBars /\ Dated(s[2]) /\ Newest(s[2]) < b.dt
      BY <1>2, <1>5, <1>8
    <3>3. /\ k \in UbiBars /\ k.elements = Append(s[2].elements, b) /\ k.dt >= s[2].dt
          /\ s[1].hi < s[2].hi => k.hi >= s[2].hi /\ k.lo >= s[2].lo
          /\ ~(s[1].hi < s[2].hi) => k.hi <= s[2].hi /\ k.lo <= s[2].lo
      BY <3>1, <3>2, MergedBar
    <3>4. /\ k.hi \in Int /\ k.lo \in Int /\ s[2].hi \in Int /\ s[2].lo \in Int /\ s[1].hi \in Int /\ s[1].lo \in Int
          /\ s[2].dt \in Nat /\ k.dt \in Nat /\ s[2].elements \in Seq(RawBars)
      BY <3>2, <3>3 DEF UbiBars
    <3>11. /\ s[1].hi < s[2].hi => k.hi >= s[2].hi /\ k.lo >= s[2].lo
           /\ ~(s[1].hi < s[2].hi) => k.hi <= s[2].hi /\ k.lo <= s[2].lo
      BY <3>3
    <3>12. /\ k.hi \in Int /\ k.lo \in Int /\ s[2].hi \in Int /\ s[2].lo \in Int /\ s[1].hi \in Int /\ s[1].lo \in Int
           /\ x.b.hi \in Int /\ x.b.lo \in Int
      BY <1>3, <3>4
    <3>5. Past(k, s[1], c) /\ Extreme(x.b, c) <= Extreme(k, c)
      <4>1. ASSUME c = TRUE PROVE Past(k, s[1], c) /\ Extreme(x.b, c) <= Extreme(k, c)
        <5>1. Above(s[2], s[1]) /\ x.b.hi <= s[2].hi
          BY <1>4, <4>1 DEF Past, Extreme
        <5>2. Above(k, s[1]) /\ x.b.hi <= k.hi
          BY <3>11, <3>12, <5>1 DEF Above
        <5> QED
          BY <4>1, <5>2 DEF Past, Extreme
      <4>2. ASSUME c = FALSE PROVE Past(k, s[1], c) /\ Extreme(x.b, c) <= Extreme(k, c)
        <5>1. Above(s[1], s[2]) /\ -x.b.lo <= -s[2].lo
          BY <1>4, <4>2 DEF Past, Extreme
        <5>3. x.b.lo >= s[2].lo
          BY <3>12, <5>1
        <5>4. Above(s[1], k) /\ x.b.lo >= k.lo
          BY <3>11, <3>12, <5>1, <5>3 DEF Above
        <5>2. Above(s[1], k) /\ -x.b.lo <= -k.lo
          BY <3>12, <5>4
        <5> QED
          BY <4>2, <5>2 DEF Past, Extreme
      <4> QED
        BY <1>3, <4>1, <4>2 DEF c
    <3>6. EndBar(x).dt \in Nat /\ EndBar(x).elements \in Seq(RawBars)
      <4>1. EndBar(x) \in UbiBars
        BY EndBars
      <4> QED
        BY <4>1 DEF UbiBars
    <3>7. Begins(EndBar(x).elements, k.elements) /\ Len(EndBar(x).elements) < Len(k.elements)
      <4> DEFINE d == EndBar(x).elements
                 e == s[2].elements
                 g == k.elements
      <4>1. /\ d \in Seq(RawBars) /\ e \in Seq(RawBars) /\ g = Append(e, b) /\ Begins(d, e)
        BY <1>4, <3>3, <3>4, <3>6
      <4> HIDE DEF d, e, g
      <4>2. Len(g) = Len(e) + 1 /\ \A i \in 1 .. Len(e) : g[i] = e[i]
        BY <4>1, Appended
      <4>3. Len(d) \in Nat /\ Len(e) \in Nat /\ Len(d) <= Len(e) /\ \A i \in 1 .. Len(d) : d[i] = e[i]
        BY <4>1 DEF Begins
      <4>4. Len(d) < Len(g) /\ Len(d) <= Len(g) /\ \A i \in 1 .. Len(d) : d[i] = g[i]
        BY <4>2, <4>3
      <4> QED
        BY <4>4 DEF d, g, Begins
    <3>8. EndBar(x).dt <= k.dt
      BY <1>4, <3>3, <3>4, <3>6
    <3>9. Joins(x, t)
      BY <1>1, <1>4, <3>1, <3>5, <3>7, <3>8 DEF Joins, k, c
    <3>10. Stretched(x, t) /\ Turns(x, t)
      BY <3>1, <3>7 DEF Stretched, Turns, k
    <3> QED
      BY <1>8, <2>1, <3>9, <3>10
  <2>3. CASE ~Absorbs(s, b)
    <3>1. Len(t) = 3 /\ t[1] = s[1] /\ t[2] = s[2] /\ t[3] = FromRaw(b)
      BY <1>1, <1>8, <2>3
    <3>2. ~Includes(s[2], b)
      BY <1>6, <1>8, <2>3 DEF Absorbs
    <3>3. t[3].hi = b.hi /\ t[3].lo = b.lo /\ b.hi \in Int /\ b.lo \in Int
      BY <3>1, RawBar DEF RawBars
    <3>4. ~Includes(s[2], t[3])
      BY <3>2, <3>3 DEF Includes
    <3>5. Past(s[2], t[3], c) \/ Past(t[3], s[2], c)
      <4>1. s[2].hi \in Int /\ s[2].lo \in Int /\ t[3].hi \in Int /\ t[3].lo \in Int
        BY <1>2, <1>5, <3>3
      <4> QED
        BY <1>3, <3>4, <4>1, Sides DEF c
    <3>6. Joins(x, t)
      BY <1>1, <1>4, <3>1 DEF Joins, c
    <3>7. Stretched(x, t) /\ (Turns(x, t) \/ Carries(x, t))
      BY <3>1, <3>5 DEF Stretched, Turns, Carries, c
    <3> QED
      BY <1>8, <2>1, <3>6, <3>7
  <2> QED
    BY <2>2, <2>3
<1>9. n >= 3 \/ n = 2
  <2>1. n \in Nat /\ n >= 2
    BY <1>1
  <2> HIDE DEF n
  <2> QED
    BY <2>1
<1> QED
  BY <1>7, <1>8, <1>9

(* Any number of newer bars added to the bars after a stroke.                 *)
LEMMA JoinAdded ==
    ASSUME NEW x, Finished(x), NEW s, NEW raw, Fits(s, raw), Good(s),
           NEW k \in 0 .. Len(raw), Joins(x, Added(s, raw)[k])
    PROVE  \A n \in k .. Len(raw) :
             /\ Joins(x, Added(s, raw)[n])
             /\ Len(Added(s, raw)[k]) >= 3 /\ Turns(x, Added(s, raw)[k]) =>
                  Len(Added(s, raw)[n]) >= 3 /\ Turns(x, Added(s, raw)[n])
<1> DEFINE T(n) == Len(Added(s, raw)[n]) >= 3 /\ Turns(x, Added(s, raw)[n])
           P == {n \in 0 .. Len(raw) : n >= k => Joins(x, Added(s, raw)[n]) /\ (T(k) => T(n))}
<1>1. Len(raw) \in Nat
  BY DEF Fits
<1>2. ASSUME NEW n \in 1 .. Len(raw), n - 1 \in P PROVE n \in P
  <2>1. CASE n - 1 >= k
    <3> DEFINE t == Added(s, raw)[n - 1]
               w == Added(s, raw)[n]
    <3>1. n - 1 \in 0 .. Len(raw)
      BY <1>1
    <3>2. After(t, s, raw, n - 1) /\ w = AddBar(t, raw[n]) /\ Good(t)
      BY <3>1, AddedSteps, AddedGood
    <3>3. Joins(x, t) /\ (T(k) => Len(t) >= 3 /\ Turns(x, t))
      BY <1>2, <2>1
    <3> HIDE DEF t, w
    <3>4. raw[n] \in RawBars /\ t # <<>> /\ Newest(t[Len(t)]) < raw[n].dt
      <4>1. t # <<>>
        BY <3>3 DEF Joins
      <4> QED
        BY <3>2, <4>1, OneAdded
    <3>5. Joins(x, w) /\ (Len(t) >= 3 /\ Turns(x, t) => Len(w) >= 3 /\ Turns(x, w))
      BY <3>2, <3>3, <3>4, JoinAdd
    <3>6. Joins(x, w) /\ (T(k) => T(n))
      BY <3>3, <3>5 DEF w
    <3> HIDE DEF T
    <3> QED
      BY <1>1, <3>6 DEF w
  <2>2. CASE n = k
    BY <1>1, <2>2
  <2>3. CASE n < k
    BY <1>1, <2>3
  <2> QED
    BY <1>1, <2>1, <2>2, <2>3
<1> HIDE DEF T
<1>3. 0 \in P
  BY <1>1
<1>4. 0 .. Len(raw) \subseteq P
  <2> HIDE DEF P
  <2> QED
    BY <1>1, <1>2, <1>3, UpTo
<1>5. \A n \in k .. Len(raw) : Joins(x, Added(s, raw)[n]) /\ (T(k) => T(n))
  BY <1>1, <1>4
<1> QED
  BY <1>5 DEF T

(* The raw bars of the last merged bar, the last of them in a new form.       *)
Retold(u, b) == Append(Front(u[Len(u)].elements), b)

(* The last bar retold: as many raw bars, and only the last of them another.  *)
LEMMA Again ==
    ASSUME NEW u, Good(u), u # <<>>, NEW b \in RawBars, b.dt = Newest(u[Len(u)]),
           NEW e, e = u[Len(u)].elements, NEW g, g = Retold(u, b)
    PROVE  /\ e \in Seq(RawBars) /\ Len(e) \in Nat /\ Len(e) >= 1 /\ Rising(e)
           /\ g \in Seq(RawBars) /\ Len(g) = Len(e) /\ g[Len(e)] = b
           /\ \A i \in 1 .. Len(e) - 1 : g[i] = e[i]
           /\ Good(Front(u)) /\ Fits(Front(u), g) /\ Fits(Front(u), e)
           /\ Front(u) \in Seq(UbiBars) /\ Len(u) \in Nat /\ Len(u) >= 1 /\ Len(Front(u)) = Len(u) - 1
           /\ \A i \in 1 .. Len(u) - 1 : Front(u)[i] = u[i]
<1> DEFINE n == Len(u)
           m == Len(e)
           f == Front(u)
<1>1. u \in Seq(UbiBars) /\ n \in Nat /\ n >= 1 /\ n \in 1 .. n /\ Sound(u)
  BY DEF Good, Sound
<1>2. u[n] \in UbiBars /\ Dated(u[n])
  BY <1>1 DEF Sound
<1>3. e \in Seq(RawBars) /\ m \in Nat /\ m >= 1 /\ Rising(e) /\ e # <<>>
      /\ \A i \in 1 .. m : e[i].dt \in Nat
  BY <1>2, BarDates DEF Dated
<1>4. /\ Front(e) \in Seq(RawBars) /\ Len(Front(e)) = m - 1 /\ \A i \in 1 .. m - 1 : Front(e)[i] = e[i]
  BY <1>3, Fronted
<1>5. g = Append(Front(e), b)
  BY DEF Retold
<1> DEFINE d == Front(e)
<1>6. d \in Seq(RawBars) /\ Len(d) = m - 1 /\ (\A i \in 1 .. m - 1 : d[i] = e[i]) /\ g = Append(d, b)
  BY <1>4, <1>5
<1> HIDE DEF d, n, m
<1>7. /\ g \in Seq(RawBars) /\ Len(g) = (m - 1) + 1 /\ g[(m - 1) + 1] = b
      /\ \A i \in 1 .. m - 1 : g[i] = d[i]
  BY <1>6, Appended
<1>8. /\ Len(g) = m /\ g[m] = b /\ \A i \in 1 .. m - 1 : g[i] = e[i]
  BY <1>3, <1>6, <1>7
<1>9. b.dt = e[m].dt
  BY DEF Newest, n, m
<1>10. \A i \in 1 .. m : g[i].dt = e[i].dt
  <2>1. \A i \in 1 .. m : i \in 1 .. m - 1 \/ i = m
    BY <1>3
  <2> QED
    BY <1>8, <1>9, <2>1
<1>11. Rising(g)
  <2>1. \A i, j \in 1 .. m : i < j => e[i].dt < e[j].dt
    BY <1>3 DEF Rising, m
  <2> QED
    BY <1>8, <1>10, <2>1 DEF Rising
<1>12. f \in Seq(UbiBars) /\ Len(f) = n - 1 /\ \A i \in 1 .. n - 1 : f[i] = u[i]
  BY <1>1, Fronted DEF n
<1>13. Good(f)
  <2>1. 0 + Len(f) <= Len(u) /\ 0 \in Nat /\ \A i \in 1 .. Len(f) : f[i] = u[0 + i]
    BY <1>1, <1>12 DEF n
  <2> HIDE DEF f
  <2> QED
    BY <1>12, <2>1, GoodPiece
<1>14. f # <<>> => Newest(f[Len(f)]) < e[1].dt /\ Newest(f[Len(f)]) < g[1].dt
  <2> HAVE f # <<>>
  <2> DEFINE h == n - 1
  <2>1. h \in 1 .. n /\ h < n /\ h \in 1 .. n - 1 /\ Len(f) = h
    <3>1. Len(f) # 0
      BY <1>12
    <3> QED
      BY <1>1, <1>12, <3>1
  <2> HIDE DEF h
  <2>2. f[Len(f)] = u[h]
    BY <1>12, <2>1
  <2>3. Before(u[h], u[n])
    BY <1>1, <2>1 DEF Sound, n
  <2>4. Newest(u[h]) < e[1].dt
    BY <2>3 DEF Before, n
  <2>5. 1 \in 1 .. m
    BY <1>3
  <2> QED
    BY <1>10, <2>2, <2>4, <2>5
<1>15. Fits(f, g) /\ Fits(f, e)
  <2>1. Sound(f)
    BY <1>13 DEF Good
  <2> QED
    BY <1>3, <1>7, <1>11, <1>14, <2>1 DEF Fits
<1> QED
  BY <1>1, <1>3, <1>7, <1>8, <1>11, <1>12, <1>13, <1>15 DEF m, n

(* The bars after a stroke still go on where it ends when the last of them is *)
(* taken apart and built again with its newest raw bar in another form.       *)
LEMMA JoinRetold ==
    ASSUME NEW x, Finished(x), NEW u, Good(u), Joins(x, u), Turns(x, u), Stretched(x, u),
           NEW b \in RawBars, b.dt = Newest(u[Len(u)]),
           NEW g, g = Retold(u, b), NEW t, t = Added(Front(u), g)[Len(g)]
    PROVE  Joins(x, t) /\ Stretched(x, t) /\ (Turns(x, t) \/ Carries(x, t))
<1> DEFINE n == Len(u)
           f == Front(u)
           e == u[Len(u)].elements
           m == Len(e)
           A == Added(f, g)
           c == x.up
<1>1. u # <<>> /\ n >= 2
  BY DEF Joins
<1>2. /\ e \in Seq(RawBars) /\ m \in Nat /\ m >= 1 /\ Rising(e)
      /\ g \in Seq(RawBars) /\ Len(g) = m /\ g[m] = b
      /\ \A i \in 1 .. m - 1 : g[i] = e[i]
      /\ Good(f) /\ Fits(f, g) /\ Fits(f, e)
      /\ f \in Seq(UbiBars) /\ n \in Nat /\ Len(f) = n - 1
      /\ \A i \in 1 .. n - 1 : f[i] = u[i]
  <2> DEFINE d == e
  <2>1. d = u[Len(u)].elements
    OBVIOUS
  <2> HIDE DEF d
  <2> QED
    BY <1>1, <2>1, Again DEF d
<1>12. f \in Seq(UbiBars)
  BY <1>2
<1>3. /\ A[0] = f /\ \A i \in 1 .. m : A[i] = AddBar(A[i - 1], g[i])
      /\ \A i \in 0 .. m : After(A[i], f, g, i) /\ Good(A[i])
  BY <1>2, AddedSteps, AddedGood
<1>4. t = A[m]
  BY <1>2
<1>5. /\ u[1] = x.bars[Len(x.bars) - 2] /\ Begins(EndBar(x).elements, u[2].elements) /\ EndBar(x).dt <= u[2].dt
      /\ Past(u[2], u[1], c) /\ Extreme(x.b, c) <= Extreme(u[2], c) /\ c \in BOOLEAN
  BY EndBars DEF Joins
<1> DEFINE J(i) == Joins(x, A[i])
           T(i) == Len(A[i]) >= 3 /\ Turns(x, A[i])
<1>11. \A k \in 0 .. m : J(k) => \A i \in k .. m : J(i) /\ (T(k) => T(i))
  <2> HIDE DEF f, m
  <2> SUFFICES ASSUME NEW k \in 0 .. Len(g), J(k) PROVE \A i \in k .. Len(g) : J(i) /\ (T(k) => T(i))
    BY <1>2
  <2> QED
    BY <1>2, JoinAdded
<1> HIDE DEF f, J, T, n
<1> HIDE DEF A
<1>6. ASSUME NEW i \in 1 .. m, A[i - 1] # <<>>
      PROVE  g[i] \in RawBars /\ Newest(A[i - 1][Len(A[i - 1])]) < g[i].dt
  <2> DEFINE y == A[i - 1]
  <2>1. After(y, f, g, i - 1) /\ y # <<>> /\ i \in 1 .. Len(g)
    BY <1>2, <1>3, <1>6
  <2> HIDE DEF y
  <2>2. g[i] \in RawBars /\ Newest(y[Len(y)]) < g[i].dt
    BY <1>2, <2>1, OneAdded
  <2> QED
    BY <2>2 DEF y
<1>7. CASE n >= 4
  <2>1. Joins(x, f) /\ Turns(x, f) /\ Len(f) >= 3
    <3>3. Len(f) = n - 1 /\ n \in Nat /\ \A i \in 1 .. n - 1 : f[i] = u[i]
      BY <1>2
    <3>4. n - 1 >= 3 /\ 1 \in 1 .. n - 1 /\ 2 \in 1 .. n - 1 /\ 3 \in 1 .. n - 1
      BY <1>7, <3>3
    <3>1. Len(f) >= 3 /\ f[1] = u[1] /\ f[2] = u[2] /\ f[3] = u[3]
      BY <3>3, <3>4
    <3>2. Turns(x, f)
      BY <1>7, <3>1 DEF Turns, n
    <3> QED
      BY <1>2, <1>5, <3>1, <3>2 DEF Joins, c
  <2>2. J(0) /\ T(0)
    BY <1>3, <2>1 DEF J, T
  <2>5. 0 \in 0 .. m /\ m \in 0 .. m
    BY <1>2
  <2> HIDE DEF m
  <2>3. Joins(x, A[m]) /\ Len(A[m]) >= 3 /\ Turns(x, A[m])
    <3>1. J(m) /\ T(m)
      BY <1>11, <2>2, <2>5
    <3> QED
      BY <3>1 DEF J, T
  <2>4. Stretched(x, A[m])
    BY <2>3 DEF Stretched
  <2> QED
    BY <1>4, <2>3, <2>4
<1>8. CASE n = 3
  <2>1. Len(f) = 2 /\ f[1] = u[1] /\ f[2] = u[2]
    BY <1>2, <1>8
  <2>2. Joins(x, f)
    <3>1. f \in Seq(UbiBars) /\ Len(f) >= 2
      <4>1. Len(f) = 2
        BY <2>1
      <4> QED
        BY <1>12, <4>1
    <3> QED
      BY <1>5, <2>1, <3>1 DEF Joins
  <2>3. A[0] = f /\ A[0] # <<>> /\ 1 - 1 = 0 /\ 1 \in 1 .. m
    <3>3. A[0] = f
      BY <1>3
    <3>4. f # <<>>
      <4>1. Len(f) = 2
        BY <2>1
      <4> QED
        BY <1>12, <4>1
    <3>1. A[0] = f /\ f # <<>>
      BY <3>3, <3>4
    <3>2. 1 - 1 = 0 /\ 1 \in 1 .. m
      BY <1>2
    <3> QED
      BY <3>1, <3>2
  <2>4. A[1] = AddBar(f, g[1]) /\ g[1] \in RawBars /\ Newest(f[Len(f)]) < g[1].dt
    BY <1>3, <1>6, <2>3
  <2>5. CASE m = 1
    <3>1. t = AddBar(f, g[1])
      BY <1>4, <2>4, <2>5
    <3> QED
      BY <1>2, <2>1, <2>2, <2>4, <3>1, JoinAdd
  <2>6. CASE m >= 2
    <3> DEFINE w == A[1]
               r == g[1]
    <3>1. w = AddBar(f, r) /\ r \in RawBars /\ Newest(f[Len(f)]) < r.dt
      BY <2>4
    <3>2. r = u[3].elements[1]
      BY <1>2, <1>8, <2>6 DEF n
    <3>3. u[1] \in UbiBars /\ u[2] \in UbiBars /\ u[3] \in UbiBars /\ Adjacent(u[2], u[3]) /\ Triple(u[1], u[2], u[3])
      <4>1. u \in Seq(UbiBars) /\ 1 \in 1 .. n /\ 2 \in 1 .. n /\ 3 \in 1 .. n
        BY <1>8 DEF Joins
      <4>2. 1 \in 1 .. Len(u) - 2 /\ 2 \in 1 .. Len(u) - 1 /\ 1 + 1 = 2 /\ 1 + 2 = 3 /\ 2 + 1 = 3
        BY <1>8 DEF n
      <4>3. Triple(u[1], u[1 + 1], u[1 + 2]) /\ Adjacent(u[2], u[2 + 1])
        BY <4>2 DEF Good
      <4> QED
        BY <4>1, <4>2, <4>3 DEF n
    <3> HIDE DEF r, w
    <3>4. /\ u[1].hi \in Int /\ u[1].lo \in Int /\ u[2].hi \in Int /\ u[2].lo \in Int
          /\ u[3].hi \in Int /\ u[3].lo \in Int /\ r.hi \in Int /\ r.lo \in Int
      BY <3>1, <3>3 DEF UbiBars, RawBars
    <3>5. u[1].hi # u[2].hi
      <4>1. Above(u[2], u[1]) \/ Above(u[1], u[2])
        BY <1>5 DEF Past
      <4> QED
        BY <3>4, <4>1 DEF Above
    <3>6. ~Includes(u[2], r)
      BY <3>2, <3>3, <3>5 DEF Triple
    <3>7. Past(u[2], u[3], c)
      BY <1>8 DEF Turns, n
    <3>8. /\ u[2].hi < u[3].hi <=> u[2].hi < r.hi
          /\ u[2].hi > u[3].hi <=> u[2].hi > r.hi
      BY <3>2, <3>3 DEF Adjacent
    <3>9. Past(u[2], r, c)
      <4>1. ASSUME c = TRUE PROVE Past(u[2], r, c)
        BY <3>4, <3>6, <3>7, <3>8, <4>1 DEF Past, Above, Includes
      <4>2. ASSUME c = FALSE PROVE Past(u[2], r, c)
        BY <3>4, <3>6, <3>7, <3>8, <4>2 DEF Past, Above, Includes
      <4> QED
        BY <1>5, <4>1, <4>2
    <3>10. ~Absorbs(f, r)
      BY <2>1, <3>6 DEF Absorbs
    <3>11. Len(w) = 3 /\ w[2] = u[2] /\ w[3] = FromRaw(r)
      <4>3. Sound(f)
        BY <1>2 DEF Good
      <4>4. Len(f) = 2
        BY <2>1
      <4>1. Sound(f) /\ Len(f) + 1 = 3 /\ 2 \in 1 .. Len(f)
        BY <4>3, <4>4
      <4>2. Len(w) = Len(f) + 1 /\ w[2] = f[2] /\ w[Len(f) + 1] = FromRaw(r)
        BY <3>1, <3>10, <4>1, AddBarCases
      <4> QED
        BY <2>1, <4>1, <4>2
    <3>12. Past(u[2], FromRaw(r), c)
      <4>1. FromRaw(r).hi = r.hi /\ FromRaw(r).lo = r.lo
        BY <3>1, RawBar
      <4> QED
        BY <3>9, <4>1 DEF Past, Above
    <3>13. Turns(x, w) /\ Len(w) >= 3
      BY <3>11, <3>12 DEF Turns
    <3>14. Joins(x, w)
      BY <1>2, <2>2, <3>1, JoinAdd
    <3>15. Joins(x, A[1]) /\ Turns(x, A[1]) /\ Len(A[1]) >= 3
      BY <3>13, <3>14 DEF w
    <3>18. 1 \in 0 .. m /\ m \in 1 .. m
      BY <1>2
    <3> HIDE DEF m
    <3>16. Joins(x, A[m]) /\ Len(A[m]) >= 3 /\ Turns(x, A[m])
      <4>1. J(1) /\ T(1)
        BY <3>15 DEF J, T
      <4>2. J(m) /\ T(m)
        BY <1>11, <3>18, <4>1
      <4> QED
        BY <4>2 DEF J, T
    <3>17. Stretched(x, A[m])
      BY <3>16 DEF Stretched
    <3> QED
      BY <1>4, <3>16, <3>17
  <2>7. m = 1 \/ m >= 2
    <3>1. m \in Nat /\ m >= 1
      BY <1>2
    <3> HIDE DEF m
    <3> QED
      BY <3>1
  <2> QED
    BY <2>5, <2>6, <2>7
<1>9. CASE n = 2
  <2> DEFINE y == EndBar(x)
             d == y.elements
             l == Len(d)
             p == u[1]
  <2>1. Len(f) = 1 /\ f[1] = p /\ e = u[2].elements /\ f \in Seq(UbiBars)
    BY <1>2, <1>9 DEF n
  <2>2. f = <<p>>
    BY <2>1
  <2>3. /\ p \in UbiBars /\ y \in UbiBars /\ Dated(p) /\ Dated(y) /\ Before(p, y) /\ Adjacent(p, y)
        /\ Past(y, p, c) /\ Extreme(x.b, c) = Extreme(y, c)
    BY <1>5, EndBars
  <2>4. d \in Seq(RawBars) /\ l \in Nat /\ l >= 1 /\ Rising(d) /\ d # <<>>
    BY <2>3, BarDates DEF Dated
  <2>5. l < m /\ \A i \in 1 .. l : d[i] = e[i]
    BY <1>5, <1>9, <2>1 DEF Stretched, Begins, n
  <2> HIDE DEF y, d, l, m, e, p
  <2>6. Fits(f, d)
    <3>1. Newest(p) < d[1].dt
      BY <2>3 DEF Before, d
    <3> QED
      BY <2>2, <2>3, <2>4, <3>1, PairFits
  <2>7. A[l] = <<p, y>>
    <3>1. Added(f, d)[l] = <<p, y>>
      BY <2>2, <2>3 DEF Adjacent, d, l
    <3>2. l \in 0 .. Len(d) /\ l <= Len(g) /\ l \in 0 .. l /\ \A i \in 1 .. l : d[i] = g[i]
      <4>1. \A i \in 1 .. l : i \in 1 .. m - 1
        BY <1>2, <2>4, <2>5
      <4> QED
        BY <1>2, <2>4, <2>5, <4>1 DEF l
    <3>3. Added(f, d)[l] = A[l]
      BY <1>2, <2>6, <3>2, AddedPrefix DEF A
    <3> QED
      BY <3>1, <3>3
  <2>8. Joins(x, A[l])
    <3> DEFINE w == <<p, y>>
    <3>1. w \in Seq(UbiBars) /\ Len(w) = 2 /\ w[1] = p /\ w[2] = y
      BY <2>3
    <3> HIDE DEF w
    <3>2. Begins(EndBar(x).elements, y.elements) /\ EndBar(x).dt <= y.dt
      <4>1. y.dt \in Nat
        BY <2>3 DEF UbiBars
      <4> QED
        BY <2>4, <4>1 DEF Begins, d, y
    <3>3. Extreme(x.b, c) <= Extreme(y, c)
      <4>1. x.b.hi \in Int /\ x.b.lo \in Int
        BY EndBars DEF Fxs
      <4>2. Extreme(x.b, c) \in Int
        BY <1>5, <4>1 DEF Extreme
      <4> QED
        BY <2>3, <4>2
    <3>4. Joins(x, w)
      BY <1>5, <2>3, <3>1, <3>2, <3>3 DEF Joins, p
    <3> QED
      BY <2>7, <3>4 DEF w
  <2> DEFINE h == m - 1
  <2>9. h \in l .. Len(g) /\ l \in 0 .. Len(g) /\ h \in 0 .. Len(g) /\ h \in 0 .. m /\ h \in Nat
    BY <1>2, <2>4, <2>5
  <2>10. m \in 1 .. m /\ m - 1 = h
    BY <1>2
  <2> HIDE DEF h
  <2>11. Joins(x, A[h])
    <3>1. l \in 0 .. m /\ h \in l .. m /\ J(l)
      BY <1>2, <2>8, <2>9 DEF J
    <3>2. J(h)
      BY <1>11, <3>1
    <3> QED
      BY <3>2 DEF J
  <2>12. Len(A[h]) = 2
    <3>1. Added(f, e)[h] = A[h]
      <4>1. h \in 0 .. Len(e) /\ h <= Len(g) /\ h \in 0 .. h /\ \A i \in 1 .. h : e[i] = g[i]
        BY <1>2, <2>9 DEF h, m
      <4>2. \A i \in 0 .. h : Added(f, e)[i] = Added(f, g)[i]
        <5> HIDE DEF f
        <5> QED
          BY <1>2, <4>1, AddedPrefix
      <4> QED
        BY <4>1, <4>2 DEF A
    <3>2. Added(f, e)[m] = <<p, u[2]>>
      <4>1. 1 \in 1 .. Len(u) - 1 /\ 1 + 1 = 2
        BY <1>9 DEF n
      <4>2. Adjacent(u[1], u[1 + 1])
        BY <4>1 DEF Good
      <4>3. Adjacent(p, u[2])
        BY <4>1, <4>2 DEF p
      <4> QED
        BY <2>1, <2>2, <4>3 DEF Adjacent, m
    <3>3. Len(Added(f, e)[h]) <= Len(Added(f, e)[m])
      <4>1. h \in 0 .. Len(e) /\ m \in h .. Len(e)
        BY <1>2, <2>9, <2>10 DEF m
      <4> QED
        BY <1>2, <4>1, AddedLengths
    <3>4. Len(A[h]) >= 2 /\ Len(A[h]) \in Nat
      <4>1. Good(A[h])
        BY <1>3, <2>9
      <4> QED
        BY <2>11, <4>1 DEF Joins, Good, Sound
    <3>5. Len(<<p, u[2]>>) = 2
      OBVIOUS
    <3>6. Len(A[h]) <= 2
      BY <3>1, <3>2, <3>3, <3>5
    <3> QED
      <4> DEFINE y2 == Len(A[h])
      <4>1. y2 \in Nat /\ y2 >= 2 /\ y2 <= 2
        BY <3>4, <3>6
      <4> HIDE DEF y2
      <4>2. y2 = 2
        BY <4>1
      <4> QED
        BY <4>2 DEF y2
  <2>13. t = AddBar(A[h], g[m]) /\ Good(A[h]) /\ A[h] # <<>>
    <3>1. A[h] # <<>>
      BY <2>12
    <3>2. Good(A[h])
      BY <1>3, <2>9
    <3>3. A[m] = AddBar(A[m - 1], g[m])
      BY <1>3, <2>10
    <3> QED
      BY <1>4, <2>10, <3>1, <3>2, <3>3
  <2>14. g[m] \in RawBars /\ Newest(A[h][Len(A[h])]) < g[m].dt
    BY <1>6, <2>10, <2>13
  <2> DEFINE w == A[h]
  <2>15. Joins(x, w) /\ Len(w) = 2 /\ Good(w) /\ t = AddBar(w, b) /\ Newest(w[Len(w)]) < b.dt
    BY <1>2, <2>11, <2>12, <2>13, <2>14
  <2> HIDE DEF w
  <2> QED
    BY <2>15, JoinAdd
<1>10. n >= 4 \/ n = 3 \/ n = 2
  <2>1. n \in Nat /\ n >= 2
    BY <1>1, <1>2
  <2> QED
    BY <2>1
<1> QED
  BY <1>7, <1>8, <1>9, <1>10

-----------------------------------------------------------------------------
(* Two good sequences that share a bar make one. *)
Glued(u, p, m, r) ==
    /\ u \in Seq(UbiBars) /\ Len(u) = m + Len(r) - 1
    /\ \A i \in 1 .. m : u[i] = p[i]
    /\ \A i \in 1 .. Len(r) : u[m + i - 1] = r[i]

LEMMA GoodGlue ==
    ASSUME NEW p, Good(p), NEW r, Good(r), NEW m \in 1 .. Len(p), Len(r) >= 2, r[1] = p[m],
           NEW u, Glued(u, p, m, r),
           m >= 2 => Triple(p[m - 1], p[m], r[2])
    PROVE  Good(u)
<1> DEFINE N == Len(u)
           b(i) == i + 1 - m
<1>1. /\ Len(p) \in Nat /\ Len(r) \in Nat /\ N \in Nat /\ m \in Nat /\ N = m + Len(r) - 1 /\ m >= 1
      /\ Sound(p) /\ Sound(r) /\ u \in Seq(UbiBars)
  <2>1. Len(p) \in Nat /\ Len(r) \in Nat /\ Sound(p) /\ Sound(r)
    BY DEF Good, Sound
  <2>2. u \in Seq(UbiBars) /\ Len(u) = m + Len(r) - 1
    BY DEF Glued
  <2> QED
    BY <2>1, <2>2
<1>2. \A i \in m .. N : b(i) \in 1 .. Len(r) /\ u[i] = r[b(i)]
  <2> TAKE i \in m .. N
  <2>1. b(i) \in 1 .. Len(r) /\ m + b(i) - 1 = i
    BY <1>1
  <2> DEFINE j == b(i)
  <2>2. j \in 1 .. Len(r) /\ m + j - 1 = i
    BY <2>1
  <2> HIDE DEF j
  <2>3. u[m + j - 1] = r[j]
    BY <2>2 DEF Glued
  <2>4. u[i] = r[j]
    BY <2>2, <2>3
  <2> QED
    BY <2>1, <2>4 DEF j
<1>3. \A i \in 1 .. m : i \in 1 .. Len(p) /\ u[i] = p[i]
  BY <1>1 DEF Glued
<1>4. \A i \in m .. N : b(i) = i + 1 - m
  OBVIOUS
<1> HIDE DEF b, N
<1>5. \A i \in 1 .. N : i \in 1 .. m \/ i \in m .. N
  BY <1>1
<1>6. \A i \in 1 .. N : Dated(u[i])
  BY <1>2, <1>3, <1>5, <1>1 DEF Sound
<1>7. ASSUME NEW i \in 1 .. N, NEW j \in 1 .. N, i < j PROVE Before(u[i], u[j])
  <2>1. CASE j <= m
    <3>1. i \in 1 .. m /\ j \in 1 .. m
      BY <1>1, <1>7, <2>1
    <3> QED
      BY <1>1, <1>3, <1>7, <3>1 DEF Sound
  <2>2. CASE i >= m
    <3>1. i \in m .. N /\ j \in m .. N
      BY <1>1, <1>7, <2>2
    <3>2. b(i) < b(j)
      BY <1>1, <1>4, <1>7, <3>1
    <3> QED
      BY <1>1, <1>2, <3>1, <3>2 DEF Sound
  <2>3. CASE i < m /\ m < j
    <3>1. i \in 1 .. m /\ m \in 1 .. m /\ m \in m .. N /\ j \in m .. N
      BY <1>1, <2>3
    <3>2. b(m) < b(j) /\ b(m) = 1
      BY <1>1, <1>4, <2>3, <3>1
    <3>3. Before(r[b(m)], r[b(j)])
      BY <1>1, <1>2, <3>1, <3>2 DEF Sound
    <3>4. Before(p[i], p[m])
      BY <1>1, <1>3, <2>3, <3>1 DEF Sound
    <3>5. Before(p[i], p[m]) /\ Before(p[m], u[j]) /\ u[i] = p[i]
      BY <1>2, <1>3, <3>1, <3>2, <3>3, <3>4
    <3>6. p[m] \in UbiBars /\ Dated(p[m]) /\ p[i] \in UbiBars /\ Dated(p[i]) /\ u[j] \in UbiBars /\ Dated(u[j])
      <4>1. p \in Seq(UbiBars)
        BY <1>1 DEF Sound
      <4>2. m \in 1 .. Len(p) /\ i \in 1 .. Len(p)
        BY <1>3, <3>1
      <4> QED
        BY <1>1, <1>6, <4>1, <4>2 DEF Sound, N
    <3>7. /\ Newest(p[i]) \in Nat /\ Newest(p[m]) \in Nat /\ p[m].elements[1].dt \in Nat /\ u[j].elements[1].dt \in Nat
          /\ p[m].elements[1].dt <= p[m].dt /\ p[m].dt <= Newest(p[m]) /\ p[m].dt \in Nat
      BY <3>6, BarDates
    <3>8. Newest(p[i]) < p[m].elements[1].dt /\ Newest(p[m]) < u[j].elements[1].dt
      BY <3>5 DEF Before
    <3>9. Newest(p[i]) < u[j].elements[1].dt
      BY <3>7, <3>8
    <3> QED
      BY <3>5, <3>9 DEF Before
  <2> QED
    BY <1>1, <2>1, <2>2, <2>3
<1>8. Sound(u)
  BY <1>1, <1>6, <1>7 DEF Sound, N
<1>9. \A i \in 1 .. N - 1 : Adjacent(u[i], u[i + 1])
  <2> TAKE i \in 1 .. N - 1
  <2> DEFINE j == i + 1
  <2>1. CASE i < m
    <3>1. i \in 1 .. m /\ j \in 1 .. m /\ i \in 1 .. Len(p) - 1
      BY <1>1, <2>1
    <3>2. Adjacent(p[i], p[j])
      BY <3>1 DEF Good
    <3> QED
      BY <1>3, <3>1, <3>2
  <2>2. CASE i >= m
    <3> DEFINE k == b(i)
    <3>1. i \in m .. N /\ j \in m .. N
      BY <1>1, <2>2
    <3>2. k \in 1 .. Len(r) - 1 /\ b(j) = k + 1 /\ u[i] = r[k] /\ u[j] = r[b(j)]
      <4>1. b(i) = i + 1 - m /\ b(j) = j + 1 - m
        BY <1>4, <3>1
      <4> QED
        BY <1>1, <1>2, <3>1, <4>1
    <3> HIDE DEF k, j
    <3>3. Adjacent(r[k], r[k + 1])
      BY <3>2 DEF Good
    <3>4. Adjacent(u[i], u[j])
      BY <3>2, <3>3
    <3> QED
      BY <3>4 DEF j
  <2> QED
    BY <1>1, <2>1, <2>2
<1>10. \A i \in 1 .. N - 2 : Triple(u[i], u[i + 1], u[i + 2])
  <2> TAKE i \in 1 .. N - 2
  <2> DEFINE j == i + 1
             k == i + 2
  <2>1. CASE k <= m
    <3>1. i \in 1 .. m /\ j \in 1 .. m /\ k \in 1 .. m /\ i \in 1 .. Len(p) - 2
      <4>1. i \in Nat /\ i >= 1 /\ i + 2 <= m /\ m <= Len(p)
        BY <1>1, <2>1
      <4> QED
        BY <1>1, <4>1
    <3>2. Triple(p[i], p[j], p[k])
      BY <3>1 DEF Good
    <3> QED
      BY <1>3, <3>1, <3>2
  <2>2. CASE i >= m
    <3> DEFINE h == b(i)
    <3>1. i \in m .. N /\ j \in m .. N /\ k \in m .. N
      BY <1>1, <2>2
    <3>2. /\ h \in 1 .. Len(r) - 2 /\ b(j) = h + 1 /\ b(k) = h + 2
          /\ u[i] = r[h] /\ u[j] = r[b(j)] /\ u[k] = r[b(k)]
      <4>1. b(i) = i + 1 - m /\ b(j) = j + 1 - m /\ b(k) = k + 1 - m
        BY <1>4, <3>1
      <4>2. h \in 1 .. Len(r) - 2 /\ b(j) = h + 1 /\ b(k) = h + 2
        BY <1>1, <3>1, <4>1
      <4> QED
        BY <1>2, <3>1, <4>2
    <3> HIDE DEF h, j, k
    <3>3. Triple(r[h], r[h + 1], r[h + 2])
      BY <3>2 DEF Good
    <3>4. Triple(u[i], u[j], u[k])
      BY <3>2, <3>3
    <3> QED
      BY <3>4 DEF j, k
  <2>3. CASE i = m - 1
    <3>1. m >= 2 /\ i \in 1 .. m /\ m \in 1 .. m /\ j = m /\ k = m + 1 /\ k \in m .. N /\ i = m - 1
      BY <1>1, <2>3
    <3>2. b(k) = 2
      BY <1>1, <1>4, <3>1
    <3> HIDE DEF j, k
    <3>3. Triple(p[i], p[m], r[2])
      BY <3>1
    <3>4. u[i] = p[i] /\ u[j] = p[m] /\ u[k] = r[2]
      BY <1>2, <1>3, <3>1, <3>2
    <3>5. Triple(u[i], u[j], u[k])
      BY <3>3, <3>4
    <3> QED
      BY <3>5 DEF j, k
  <2> QED
    BY <1>1, <2>1, <2>2, <2>3
<1> QED
  BY <1>8, <1>9, <1>10 DEF Good, N

(* A stroke taken back: its bars up to the one before its end, and then the   *)
(* bars that went on there.  The strokes before it see no difference.         *)
LEMMA BackAgain ==
    ASSUME NEW x, Finished(x), NEW r, Good(r), Joins(x, r), NEW u, u = TakenBack(r, x)
    PROVE  /\ Good(u) /\ Len(u) \in Nat /\ Len(u) >= 3
           /\ u[1] = x.bars[1] /\ u[2] = x.bars[2] /\ u[Len(u)] = r[Len(r)]
           /\ u[3] = x.bars[3] \/ (x.bars[2] = r[1] /\ u[3] = r[2])
<1> DEFINE t == x.bars
           n == Len(x.bars)
           m == n - 2
           l == Len(r)
           p == SubSeq(t, 1, m)
           q == SubSeq(r, 2, l)
<1>1. /\ t \in Seq(UbiBars) /\ Good(t) /\ n \in Nat /\ n >= 4
      /\ t[n - 2].dt < t[n - 1].dt /\ EndBar(x) = t[n - 1] /\ t[n - 1] \in UbiBars /\ Dated(t[n - 1])
      /\ x.up \in BOOLEAN
  BY EndBars
<1>2. /\ Len(r) >= 2 /\ r[1] = t[n - 2] /\ Begins(EndBar(x).elements, r[2].elements) /\ EndBar(x).dt <= r[2].dt
      /\ Past(r[2], r[1], x.up) /\ r \in Seq(UbiBars)
  BY DEF Joins
<1>3. /\ m \in 1 .. n /\ m \in Nat /\ m >= 2 /\ m = n - 2 /\ l \in Nat /\ l >= 2
      /\ 1 \in 1 .. n + 1 /\ m \in 0 .. n /\ 1 <= m + 1 /\ m + 1 - 1 = m
      /\ 2 \in 1 .. l + 1 /\ l \in 0 .. l /\ 2 <= l + 1 /\ 2 \in 1 .. l /\ 1 \in 1 .. l
  BY <1>1, <1>2
<1>4. Sound(r) /\ \A i \in 1 .. l : r[i] \in UbiBars /\ r[i].dt \in Nat /\ r[i].hi \in Int /\ r[i].lo \in Int
  BY DatesRise DEF Good
<1>5. u = p \o q
  <2>1. Last2(t) = EndBar(x)
    BY DEF Last2, EndBar
  <2>2. From(r, EndBar(x).dt) = q
    <3>1. EndBar(x).dt \in Nat
      BY <1>1 DEF UbiBars
    <3>2. 2 - 1 = 1 /\ r[1].dt < EndBar(x).dt
      BY <1>1, <1>2
    <3> QED
      BY <1>2, <1>3, <1>4, <3>1, <3>2, FromPiece
  <2> QED
    BY <2>1, <2>2 DEF TakenBack
<1>6. /\ p \in Seq(UbiBars) /\ Len(p) = m /\ \A i \in 1 .. m : p[i] = t[1 + i - 1]
  <2> HIDE DEF t, m
  <2>1. 1 \in 1 .. Len(t) + 1 /\ m \in 0 .. Len(t) /\ 1 <= m + 1
    BY <1>3 DEF t
  <2>2. /\ p \in Seq(UbiBars) /\ Len(p) = m + 1 - 1 /\ \A i \in 1 .. m + 1 - 1 : p[i] = t[1 + i - 1]
    BY <1>1, <2>1, Piece
  <2> QED
    BY <1>3, <2>2
<1>7. /\ q \in Seq(UbiBars) /\ Len(q) = l + 1 - 2 /\ \A i \in 1 .. l + 1 - 2 : q[i] = r[2 + i - 1]
  BY <1>2, <1>3, Piece
<1> HIDE DEF t, n, m, l, p, q
<1>8. \A i \in 1 .. m : p[i] = t[i]
  BY <1>3, <1>6
<1>9. Len(q) = l - 1 /\ \A i \in 1 .. l - 1 : q[i] = r[i + 1]
  <2>1. l + 1 - 2 = l - 1 /\ \A i \in 1 .. l - 1 : 2 + i - 1 = i + 1
    BY <1>3
  <2> QED
    BY <1>7, <2>1
<1>10. /\ u \in Seq(UbiBars) /\ Len(u) = m + (l - 1)
       /\ \A i \in 1 .. m : u[i] = t[i]
       /\ \A i \in 1 .. l - 1 : u[m + i] = r[i + 1]
  <2>1. /\ p \o q \in Seq(UbiBars) /\ Len(p \o q) = Len(p) + Len(q)
        /\ \A i \in 1 .. Len(p) : (p \o q)[i] = p[i]
        /\ \A i \in 1 .. Len(q) : (p \o q)[Len(p) + i] = q[i]
    <3>1. p \in Seq(UbiBars) /\ q \in Seq(UbiBars)
      BY <1>6, <1>7
    <3> QED
      BY <3>1, Joined
  <2> QED
    BY <1>5, <1>6, <1>8, <1>9, <2>1
<1>11. Glued(u, t, m, r)
  <2>1. Len(u) = m + Len(r) - 1
    BY <1>3, <1>10 DEF l
  <2>2. \A i \in 1 .. Len(r) : u[m + i - 1] = r[i]
    <3> TAKE i \in 1 .. Len(r)
    <3> DEFINE j == i - 1
    <3>1. CASE i = 1
      <4>1. m + i - 1 = m /\ m \in 1 .. m /\ u[m] = t[m] /\ r[i] = t[m]
        BY <1>2, <1>3, <1>10, <3>1 DEF m
      <4> QED
        BY <4>1
    <3>2. CASE i > 1
      <4>1. j \in 1 .. l - 1 /\ j + 1 = i /\ m + i - 1 = m + j
        BY <1>3, <3>2 DEF l
      <4> HIDE DEF j
      <4>2. u[m + j] = r[j + 1]
        BY <1>10, <4>1
      <4> QED
        BY <4>1, <4>2
    <3> QED
      BY <1>3, <3>1, <3>2 DEF l
  <2> QED
    BY <1>10, <2>1, <2>2 DEF Glued
<1>12. Triple(t[m - 1], t[m], r[2])
  <2> DEFINE h == m - 1
             e == n - 1
  <2>1. h \in 1 .. Len(t) - 2 /\ h + 1 = m /\ h + 2 = e /\ e \in 1 .. Len(t) /\ n - 2 = m
    BY <1>1, <1>3 DEF n, t
  <2> HIDE DEF h, e
  <2>2. Triple(t[h], t[h + 1], t[h + 2])
    BY <1>1, <2>1 DEF Good
  <2>3. Triple(t[h], t[m], t[e])
    BY <2>1, <2>2
  <2>4. r[1] = t[m] /\ EndBar(x) = t[e]
    BY <1>1, <1>2, <2>1 DEF e
  <2>5. r[2].elements[1] = t[e].elements[1]
    <3>1. t[e].elements \in Seq(RawBars) /\ Len(t[e].elements) \in Nat \ {0}
      BY <1>1, BarDates DEF e
    <3> QED
      BY <1>2, <2>4, <3>1 DEF Begins
  <2>6. ~Includes(t[m], r[2])
    <3>1. /\ r[1].hi \in Int /\ r[1].lo \in Int /\ r[2].hi \in Int /\ r[2].lo \in Int
      BY <1>3, <1>4
    <3>2. Above(r[2], r[1]) \/ Above(r[1], r[2])
      BY <1>2 DEF Past
    <3>3. ~Includes(r[1], r[2])
      BY <3>1, <3>2 DEF Above, Includes
    <3> QED
      BY <2>4, <3>3
  <2>7. Triple(t[h], t[m], r[2])
    BY <2>3, <2>5, <2>6 DEF Triple
  <2> QED
    BY <2>7 DEF h
<1>13. Good(u)
  <2>1. m \in 1 .. Len(t) /\ Len(r) >= 2 /\ r[1] = t[m]
    BY <1>2, <1>3 DEF m, n, t
  <2> QED
    BY <1>1, <1>11, <1>12, <2>1, GoodGlue
<1>14. Len(u) \in Nat /\ Len(u) >= 3
  BY <1>3, <1>10
<1>15. u[1] = t[1] /\ u[2] = t[2]
  BY <1>3, <1>10
<1>16. u[Len(u)] = r[Len(r)]
  <2> DEFINE j == l - 1
  <2>1. j \in 1 .. l - 1 /\ j + 1 = l /\ Len(u) = m + j
    BY <1>3, <1>10
  <2> HIDE DEF j
  <2>2. u[m + j] = r[j + 1]
    BY <1>10, <2>1
  <2> QED
    BY <2>1, <2>2 DEF l
<1>17. u[3] = t[3] \/ (t[2] = r[1] /\ u[3] = r[2])
  <2>1. CASE m >= 3
    <3>1. 3 \in 1 .. m
      BY <1>3, <2>1
    <3> QED
      BY <1>10, <3>1
  <2>2. CASE m = 2
    <3>1. 1 \in 1 .. l - 1 /\ m + 1 = 3 /\ 1 + 1 = 2 /\ n - 2 = 2
      BY <1>3, <2>2 DEF m
    <3>2. u[m + 1] = r[1 + 1]
      BY <1>10, <3>1
    <3> QED
      BY <1>2, <3>1, <3>2
  <2>3. m >= 3 \/ m = 2
    <3>1. m \in Nat /\ m >= 2
      BY <1>3
    <3> QED
      BY <3>1
  <2> QED
    BY <2>1, <2>2, <2>3
<1> QED
  BY <1>13, <1>14, <1>15, <1>16, <1>17 DEF t

(* The stroke w before the one that is taken back.                            *)
LEMMA FollowsBack ==
    ASSUME NEW x, Finished(x), NEW r, Good(r), Joins(x, r), NEW u, u = TakenBack(r, x),
           NEW w, Finished(w), NEW n, Follows(w, x.bars, n)
    PROVE  Follows(w, u, n) /\ Stretched(w, u)
<1>1. /\ Good(u) /\ Len(u) \in Nat /\ Len(u) >= 3
      /\ u[1] = x.bars[1] /\ u[2] = x.bars[2]
      /\ u[3] = x.bars[3] \/ (x.bars[2] = r[1] /\ u[3] = r[2])
  BY BackAgain
<1>2. Joins(w, x.bars) /\ Turns(w, x.bars) /\ (n = 0 => Fixed(w, x.bars))
  BY DEF Follows
<1>3. Joins(w, u)
  <2>1. u \in Seq(UbiBars) /\ Len(u) >= 2
    BY <1>1 DEF Good, Sound
  <2> QED
    BY <1>1, <1>2, <2>1 DEF Joins
<1>4. /\ Len(x.bars) >= 3 /\ x.up \in BOOLEAN /\ w.up \in BOOLEAN
      /\ Past(x.bars[2], x.bars[1], ~x.up) /\ x.bars[1] \in UbiBars /\ x.bars[2] \in UbiBars
  <2>1. Len(x.bars) \in Nat /\ Len(x.bars) >= 4
    BY EndBars
  <2>2. Len(x.bars) >= 3
    BY <2>1
  <2> QED
    BY <2>2, EndBars
<1>5. Past(u[2], u[3], w.up)
  <2>1. CASE u[3] = x.bars[3]
    BY <1>1, <1>2, <1>4, <2>1 DEF Turns
  <2>2. CASE x.bars[2] = r[1] /\ u[3] = r[2]
    <3> DEFINE k == x.bars[2]
               j == x.bars[1]
    <3>1. Past(k, j, w.up)
      BY <1>2 DEF Joins
    <3>2. Past(k, j, ~x.up)
      BY <1>4
    <3>3. k.hi \in Int /\ j.hi \in Int /\ k.lo \in Int /\ j.lo \in Int
      BY <1>4 DEF UbiBars
    <3> HIDE DEF k, j
    <3>4. w.up = ~x.up
      <4>1. Above(k, j) => ~Above(j, k)
        BY <3>3 DEF Above
      <4>2. w.up <=> ~x.up
        BY <1>4, <3>1, <3>2, <4>1 DEF Past
      <4> QED
        BY <1>4, <4>2
    <3>5. Past(r[2], r[1], x.up)
      BY DEF Joins
    <3>6. Past(r[1], r[2], ~x.up)
      BY <1>4, <3>5 DEF Past
    <3> QED
      BY <1>1, <2>2, <3>4, <3>6
  <2> QED
    BY <1>1, <2>1, <2>2
<1>6. Turns(w, u)
  BY <1>5 DEF Turns
<1>7. n = 0 => Fixed(w, u)
  BY <1>1, <1>2 DEF Fixed
<1>8. Stretched(w, u)
  BY <1>1 DEF Stretched
<1> QED
  BY <1>3, <1>6, <1>7, <1>8 DEF Follows

-----------------------------------------------------------------------------
(* The strokes of an analysis whose first raw bar is first, n of its bars     *)
(* revised, and the bars after the last of them.                              *)
Strokes(bis, first, n) ==
    /\ bis \in Seq(BiSet)
    /\ \A i \in 1 .. Len(bis) : Finished(bis[i]) /\ first <= bis[i].bars[1].dt
    /\ \A i, j \in 1 .. Len(bis) : i < j => bis[i].bars[1].dt <= bis[j].bars[1].dt
    /\ \A i \in 1 .. Len(bis) - 1 : Follows(bis[i], bis[i + 1].bars, n)

Stands(bis, s, first, n) ==
    /\ Strokes(bis, first, n) /\ Good(s) /\ s # <<>> /\ first <= s[1].dt
    /\ bis # <<>> => Follows(bis[Len(bis)], s, n) /\ Stretched(bis[Len(bis)], s)

(* The last bar of a stroke turns back from its end.                          *)
LEMMA EndTurns ==
    ASSUME NEW x, Finished(x)
    PROVE  /\ EndBar(x) = x.bars[Len(x.bars) - 1] /\ Past(EndBar(x), x.bars[Len(x.bars)], x.up)
           /\ Len(x.bars) \in Nat /\ Len(x.bars) >= 4
<1> DEFINE t == x.bars
           n == Len(x.bars)
           e == n - 1
<1>1. /\ t \in Seq(UbiBars) /\ Good(t) /\ n \in Nat /\ n >= 4 /\ x.up \in BOOLEAN /\ EndBar(x) = t[e]
  BY EndBars
<1>2. e \in 2 .. Len(t) - 1 /\ e + 1 = n
  BY <1>1
<1>3. FractalAt(t, e) /\ x.b = Fractal(t, e) /\ x.b.top = x.up
  BY DEF Finished
<1> HIDE DEF t, e
<1>4. IF x.up THEN Above(t[e], t[e - 1]) /\ Above(t[e], t[e + 1])
              ELSE Above(t[e - 1], t[e]) /\ Above(t[e + 1], t[e])
  BY <1>1, <1>2, <1>3, FractalMark
<1>5. Past(t[e], t[n], x.up)
  BY <1>2, <1>4 DEF Past
<1> QED
  BY <1>1, <1>5 DEF t, e

(* Where a stroke ends shows in the first three bars after it.                *)
LEMMA FollowsSame ==
    ASSUME NEW w, NEW t, NEW n, Follows(w, t, n), Len(t) >= 3,
           NEW v \in Seq(UbiBars), Len(v) >= 3, v[1] = t[1], v[2] = t[2], v[3] = t[3]
    PROVE  Follows(w, v, n) /\ Stretched(w, v)
<1>1. Joins(w, v)
  <2>1. Len(v) >= 2
    OBVIOUS
  <2>2. Joins(w, t)
    BY DEF Follows
  <2> QED
    BY <2>1, <2>2 DEF Joins
<1>2. Turns(w, v) /\ (n = 0 => Fixed(w, v))
  BY DEF Follows, Turns, Fixed
<1>3. Stretched(w, v)
  BY DEF Stretched
<1> QED
  BY <1>1, <1>2, <1>3 DEF Follows

(* One more stroke x, from p to q of the bars t: r are left. *)
OneMore(bis, t, x, p, q, all, r) ==
    /\ StrokeOf(x, t, p, q) /\ (bis # <<>> => p = 2)
    /\ r = SubSeq(t, q - 1, Len(t)) /\ all = bis \o <<x>>

(* The strokes with one more, and the bars it leaves.                         *)
LEMMA StrokeAdded ==
    ASSUME NEW bis, NEW t, NEW f \in Nat, NEW n, Stands(bis, t, f, n),
           NEW x, NEW p, NEW q, NEW r, NEW all, OneMore(bis, t, x, p, q, all, r)
    PROVE  Stands(all, r, f, n) /\ Len(r) \in Nat /\ Len(r) >= 3 /\ r[Len(r)] = t[Len(t)]
<1> DEFINE N == Len(t)
           L == Len(x.bars)
           b == x.bars
           l == Len(bis)
<1>0. StrokeOf(x, t, p, q) /\ (bis # <<>> => p = 2) /\ r = SubSeq(t, q - 1, Len(t)) /\ all = bis \o <<x>>
  BY DEF OneMore
<1>1. /\ t \in Seq(UbiBars) /\ N \in Nat /\ Sound(t) /\ Good(t) /\ f <= t[1].dt
      /\ \A i \in 1 .. N : t[i] \in UbiBars /\ t[i].dt \in Nat
      /\ \A i, j \in 1 .. N : i < j => t[i].dt < t[j].dt
  <2>1. Good(t) /\ f <= t[1].dt
    BY DEF Stands
  <2>2. Sound(t)
    BY <2>1 DEF Good
  <2> QED
    BY <2>1, <2>2, DatesRise
<1>2. /\ Finished(x) /\ p \in 2 .. N - 1 /\ q \in 2 .. N - 1 /\ p < q
      /\ L = q - p + 3 /\ \A i \in 1 .. q - p + 3 : b[i] = t[p + i - 2]
  BY <1>0 DEF StrokeOf
<1>20. Finished(x) /\ p \in Nat /\ q \in Nat /\ 2 <= p /\ p < q /\ q <= N - 1 /\ L = q - p + 3
  BY <1>1, <1>2
<1>21. Finished(x)
  BY <1>20
<1>3. /\ b \in Seq(UbiBars) /\ L \in Nat /\ L >= 4 /\ x.up \in BOOLEAN
      /\ Past(EndBar(x), b[L - 2], x.up) /\ Extreme(x.b, x.up) = Extreme(EndBar(x), x.up)
      /\ x.b \in Fxs /\ EndBar(x) \in UbiBars /\ EndBar(x) = b[L - 1]
      /\ b[1] \in UbiBars
  BY <1>21, EndBars
<1>4. Past(EndBar(x), b[L], x.up)
  BY <1>21, EndTurns
<1>5. x \in BiSet
  BY <1>21 DEF Finished
<1>6. /\ Strokes(bis, f, n) /\ bis \in Seq(BiSet) /\ l \in Nat
      /\ bis # <<>> => Follows(bis[l], t, n)
  BY DEF Stands, Strokes
<1> HIDE DEF N, L, b, l
<1>7. /\ b[1] = t[p - 1] /\ b[L - 2] = t[q - 1] /\ b[L - 1] = t[q] /\ b[L] = t[q + 1]
      /\ bis # <<>> => b[1] = t[1] /\ b[2] = t[2] /\ b[3] = t[3]
  <2>1. \A i \in 1 .. L : b[i] = t[p + i - 2]
    BY <1>2
  <2>2. /\ 1 \in 1 .. L /\ 2 \in 1 .. L /\ 3 \in 1 .. L /\ L - 2 \in 1 .. L /\ L - 1 \in 1 .. L /\ L \in 1 .. L
        /\ p + 1 - 2 = p - 1 /\ p + (L - 2) - 2 = q - 1 /\ p + (L - 1) - 2 = q /\ p + L - 2 = q + 1
    BY <1>20, <1>3
  <2>3. b[L - 2] = t[q - 1]
    <3> DEFINE i == L - 2
    <3>1. i \in 1 .. L /\ p + i - 2 = q - 1
      BY <2>2
    <3> HIDE DEF i
    <3>2. b[i] = t[q - 1]
      BY <2>1, <3>1
    <3> QED
      BY <3>2 DEF i
  <2>4. b[L - 1] = t[q]
    <3> DEFINE i == L - 1
    <3>1. i \in 1 .. L /\ p + i - 2 = q
      BY <2>2
    <3> HIDE DEF i
    <3>2. b[i] = t[q]
      BY <2>1, <3>1
    <3> QED
      BY <3>2 DEF i
  <2>5. b[L] = t[q + 1] /\ b[1] = t[p - 1]
    BY <2>1, <2>2
  <2>6. p = 2 => b[1] = t[1] /\ b[2] = t[2] /\ b[3] = t[3]
    <3> HAVE p = 2
    <3>1. b[1] = t[p + 1 - 2] /\ b[2] = t[p + 2 - 2] /\ b[3] = t[p + 3 - 2]
      BY <2>1, <2>2
    <3>2. p + 1 - 2 = 1 /\ p + 2 - 2 = 2 /\ p + 3 - 2 = 3
      OBVIOUS
    <3> QED
      BY <3>1, <3>2
  <2> QED
    BY <1>0, <2>3, <2>4, <2>5, <2>6
<1> DEFINE g == q - 1
<1>8. /\ g \in 1 .. N /\ g \in 1 .. N + 1 /\ N \in 0 .. N /\ g <= N + 1 /\ N + 1 - g >= 3 /\ N + 1 - g \in Nat
      /\ g + 1 = q /\ g + 2 = q + 1 /\ g \in Nat /\ N \in Nat
  <2>1. N \in Nat
    BY <1>1
  <2> QED
    BY <1>20, <2>1
<1> HIDE DEF g
<1>9. /\ r \in Seq(UbiBars) /\ Len(r) = N + 1 - g /\ Len(r) >= 3 /\ Len(r) \in Nat
      /\ \A i \in 1 .. N + 1 - g : r[i] = t[g + i - 1]
  <2>1. r = SubSeq(t, g, N)
    BY <1>0 DEF g, N
  <2>2. g \in 1 .. Len(t) + 1 /\ N \in 0 .. Len(t) /\ g <= N + 1
    BY <1>8 DEF N
  <2> QED
    <3>1. t \in Seq(UbiBars)
      BY <1>1
    <3> HIDE DEF N
    <3>2. /\ r \in Seq(UbiBars) /\ Len(r) = N + 1 - g
          /\ \A i \in 1 .. N + 1 - g : r[i] = t[g + i - 1]
      BY ONLY <2>1, <2>2, <3>1, Piece
    <3>3. Len(r) >= 3 /\ Len(r) \in Nat
      <4>1. Len(r) = N + 1 - g
        BY <3>2
      <4> QED
        BY <1>8, <4>1
    <3> QED
      BY <3>2, <3>3
<1>22. r \in Seq(UbiBars) /\ Len(r) = N + 1 - g /\ Len(r) >= 3 /\ Len(r) \in Nat
  BY <1>9
<1>10. r[1] = t[q - 1] /\ r[2] = t[q] /\ r[3] = t[q + 1] /\ r[Len(r)] = t[Len(t)]
  <2>1. 1 \in 1 .. N + 1 - g /\ 2 \in 1 .. N + 1 - g /\ 3 \in 1 .. N + 1 - g /\ Len(r) \in 1 .. N + 1 - g
    BY <1>8, <1>22
  <2>2. g + 1 - 1 = q - 1 /\ g + 2 - 1 = q /\ g + 3 - 1 = q + 1 /\ g + Len(r) - 1 = N
    BY <1>8, <1>20, <1>22
  <2>3. r[1] = t[g + 1 - 1] /\ r[2] = t[g + 2 - 1] /\ r[3] = t[g + 3 - 1] /\ r[Len(r)] = t[g + Len(r) - 1]
    BY <1>9, <2>1
  <2> QED
    BY <2>2, <2>3 DEF N
<1>11. Good(r)
  <2> DEFINE c == g - 1
  <2>1. c \in Nat /\ c + Len(r) <= Len(t) /\ \A i \in 1 .. Len(r) : g + i - 1 = c + i
    BY <1>8, <1>22 DEF N
  <2> HIDE DEF c
  <2>2. \A i \in 1 .. Len(r) : r[i] = t[c + i]
    BY <1>9, <2>1
  <2> QED
    <3>1. Good(t)
      BY <1>1
    <3> QED
      BY <1>22, <2>1, <2>2, <3>1, GoodPiece
<1>12. Follows(x, r, n) /\ Stretched(x, r)
  <2>1. Joins(x, r)
    <3>1. Begins(EndBar(x).elements, r[2].elements) /\ EndBar(x).dt <= r[2].dt
      <4> DEFINE k == EndBar(x)
      <4>1. k = r[2] /\ k \in UbiBars
        BY <1>3, <1>7, <1>10
      <4> HIDE DEF k
      <4>4. k.dt \in Nat /\ k.elements \in Seq(RawBars)
        BY <4>1 DEF UbiBars
      <4>2. k.dt \in Nat /\ Len(k.elements) \in Nat
        BY ONLY <4>4
      <4>3. Begins(k.elements, k.elements) /\ k.dt <= k.dt
        BY <4>2 DEF Begins
      <4> QED
        BY <4>1, <4>3 DEF k
    <3>2. r[1] = b[L - 2] /\ r[2] = EndBar(x) /\ Len(r) >= 2
      BY <1>3, <1>7, <1>10, <1>22
    <3>3. Extreme(x.b, x.up) <= Extreme(r[2], x.up)
      <4>1. x.b.hi \in Int /\ x.b.lo \in Int
        BY <1>3 DEF Fxs
      <4>2. Extreme(x.b, x.up) \in Int
        BY <1>3, <4>1 DEF Extreme
      <4>3. Extreme(r[2], x.up) = Extreme(x.b, x.up)
        BY <1>3, <3>2
      <4> DEFINE v == Extreme(r[2], x.up)
                 z == Extreme(x.b, x.up)
      <4>4. z \in Int /\ v = z
        BY <4>2, <4>3
      <4> HIDE DEF v, z
      <4>5. z <= v
        BY <4>4
      <4> QED
        BY <4>5 DEF v, z
    <3> QED
      BY <1>3, <1>22, <3>1, <3>2, <3>3 DEF Joins, b, L
  <2>2. Turns(x, r)
    BY <1>3, <1>4, <1>7, <1>10 DEF Turns
  <2>3. Fixed(x, r)
    BY <1>3, <1>7, <1>10, <1>22 DEF Fixed
  <2>4. Stretched(x, r)
    <3>1. ~(Len(r) = 2)
      <4>1. Len(r) \in Nat /\ Len(r) >= 3
        BY <1>22
      <4> DEFINE z == Len(r)
      <4>2. z \in Nat /\ z >= 3
        BY <4>1
      <4> HIDE DEF z
      <4>3. ~(z = 2)
        BY ONLY <4>2
      <4> QED
        BY <4>3 DEF z
    <3> QED
      BY <3>1 DEF Stretched
  <2> QED
    BY <2>1, <2>2, <2>3, <2>4 DEF Follows
<1>13. f <= r[1].dt /\ f <= b[1].dt /\ (bis # <<>> => b[1].dt = t[1].dt)
  <2> DEFINE h == p - 1
  <2>1. g \in 1 .. N /\ h \in 1 .. N /\ 1 \in 1 .. N /\ r[1] = t[g] /\ b[1] = t[h]
    <3>1. g \in 1 .. N /\ h \in 1 .. N /\ 1 \in 1 .. N
      BY <1>8, <1>20
    <3> QED
      BY <1>7, <1>10, <3>1 DEF g
  <2> HIDE DEF h
  <2>2. t[1].dt <= t[g].dt /\ t[1].dt <= t[h].dt /\ t[1].dt \in Nat /\ t[g].dt \in Nat /\ t[h].dt \in Nat
    <3>1. \A i \in 1 .. N : t[1].dt <= t[i].dt /\ t[i].dt \in Nat
      <4> TAKE i \in 1 .. N
      <4>1. i = 1 \/ 1 < i
        OBVIOUS
      <4>2. t[1].dt \in Nat /\ t[i].dt \in Nat
        BY <1>1, <2>1
      <4>3. 1 < i => t[1].dt < t[i].dt
        BY <1>1, <2>1
      <4> QED
        BY <4>1, <4>2, <4>3
    <3> QED
      BY <2>1, <3>1
  <2>3. f <= t[1].dt /\ f \in Nat
    BY <1>1
  <2>4. f <= t[g].dt /\ f <= t[h].dt
    BY <2>2, <2>3
  <2> QED
    BY <1>7, <2>1, <2>4
<1>14. /\ all \in Seq(BiSet) /\ Len(all) = l + 1 /\ all[l + 1] = x
       /\ \A i \in 1 .. l : all[i] = bis[i]
  <2> DEFINE y == <<x>>
  <2>1. y \in Seq(BiSet) /\ Len(y) = 1 /\ y[1] = x /\ 1 \in 1 .. 1
    BY <1>5
  <2>2. all = bis \o y
    BY <1>0
  <2> HIDE DEF y
  <2>3. /\ all \in Seq(BiSet) /\ Len(all) = Len(bis) + Len(y)
        /\ \A i \in 1 .. Len(bis) : all[i] = bis[i]
        /\ \A i \in 1 .. Len(y) : all[Len(bis) + i] = y[i]
    BY <1>6, <2>1, <2>2, Joined
  <2> QED
    BY <2>1, <2>3 DEF l
<1>15. \A i \in 1 .. l + 1 : i \in 1 .. l \/ i = l + 1
  BY <1>6
<1>16. /\ \A i \in 1 .. l : Finished(bis[i]) /\ f <= bis[i].bars[1].dt
       /\ \A i, j \in 1 .. l : i < j => bis[i].bars[1].dt <= bis[j].bars[1].dt
       /\ \A i \in 1 .. l - 1 : Follows(bis[i], bis[i + 1].bars, n)
  BY <1>6 DEF Strokes, l
<1>17. \A i \in 1 .. l : bis[i].bars[1].dt <= b[1].dt /\ Follows(bis[l], b, n)
  <2> TAKE i \in 1 .. l
  <2>1. bis # <<>> /\ l \in 1 .. l /\ (i = l \/ i < l)
    BY <1>6 DEF l
  <2> DEFINE w == bis[l]
             m == Len(w.bars)
             e == m - 2
  <2>2. Finished(w)
    BY <1>16, <2>1
  <2>3. /\ w.bars \in Seq(UbiBars) /\ Good(w.bars) /\ m \in Nat /\ m >= 4
    BY <2>2, EndBars
  <2>4. t[1] = w.bars[m - 2] /\ Joins(w, t)
    BY <1>6, <2>1 DEF Follows, Joins
  <2>5. w.bars[1].dt <= t[1].dt /\ w.bars[1].dt \in Nat /\ t[1].dt \in Nat
    <3>3. m \in Nat /\ m >= 4
      BY <2>3
    <3> HIDE DEF m
    <3>1. 1 \in 1 .. m /\ e \in 1 .. m /\ 1 < e
      BY <3>3
    <3> HIDE DEF e, m, w
    <3>2. w.bars[1].dt < w.bars[e].dt /\ w.bars[1].dt \in Nat /\ w.bars[e].dt \in Nat
      BY <2>3, <3>1, DatesRise DEF Good, m
    <3> QED
      BY <2>4, <3>2 DEF e
  <2>6. bis[i].bars[1].dt <= w.bars[1].dt /\ bis[i].bars[1].dt \in Nat
    <3>1. bis[i].bars[1] \in UbiBars
      BY <1>16, EndBars
    <3>2. bis[i].bars[1].dt \in Nat
      BY <3>1 DEF UbiBars
    <3> QED
      BY <1>16, <2>1, <2>5, <3>2
  <2>7. Follows(w, b, n)
    <3>1. Len(t) >= 3 /\ Len(b) >= 3
      <4>1. N \in Nat /\ L >= 3
        BY <1>3, <1>8
      <4>2. N >= 3
        BY <1>20, <4>1
      <4> QED
        BY <4>1, <4>2 DEF N, b, L
    <3> HIDE DEF w
    <3> QED
      BY <1>3, <1>6, <1>7, <2>1, <3>1, FollowsSame DEF w
  <2> QED
    BY <1>13, <2>1, <2>5, <2>6, <2>7
<1>18. Strokes(all, f, n)
  <2>1. \A i \in 1 .. Len(all) : Finished(all[i]) /\ f <= all[i].bars[1].dt
    BY <1>2, <1>13, <1>14, <1>15, <1>16 DEF b
  <2>2. \A i, j \in 1 .. Len(all) : i < j => all[i].bars[1].dt <= all[j].bars[1].dt
    <3> SUFFICES ASSUME NEW i \in 1 .. l + 1, NEW j \in 1 .. l + 1, i < j
                 PROVE all[i].bars[1].dt <= all[j].bars[1].dt
      BY <1>14
    <3>1. i \in 1 .. l
      BY <1>6
    <3>2. CASE j \in 1 .. l
      BY <1>14, <1>16, <3>1, <3>2
    <3>3. CASE j = l + 1
      BY <1>14, <1>17, <3>1, <3>3 DEF b
    <3> QED
      BY <1>15, <3>2, <3>3
  <2>3. \A i \in 1 .. Len(all) - 1 : Follows(all[i], all[i + 1].bars, n)
    <3> SUFFICES ASSUME NEW i \in 1 .. l PROVE Follows(all[i], all[i + 1].bars, n)
      BY <1>6, <1>14
    <3>1. CASE i = l
      BY <1>14, <1>17, <3>1 DEF b
    <3>2. CASE i # l
      <4> DEFINE j == i + 1
      <4>1. i \in 1 .. l - 1 /\ j \in 1 .. l
        BY <1>6, <3>2
      <4>2. all[j] = bis[j] /\ all[i] = bis[i]
        BY <1>14, <4>1
      <4>3. Follows(bis[i], bis[j].bars, n)
        BY <1>16, <4>1
      <4> QED
        BY <4>2, <4>3
    <3> QED
      BY <3>1, <3>2
  <2> QED
    BY <1>14, <2>1, <2>2, <2>3 DEF Strokes
<1>19. Stands(all, r, f, n)
  <2>1. r # <<>> /\ all[Len(all)] = x
    <3>1. r # <<>>
      <4>1. r \in Seq(UbiBars) /\ Len(r) >= 3
        BY <1>22
      <4> QED
        BY ONLY <4>1
    <3>2. Len(all) = l + 1 /\ all[l + 1] = x
      BY <1>14
    <3> QED
      BY <3>1, <3>2
  <2> QED
    BY <1>11, <1>12, <1>13, <1>18, <2>1 DEF Stands
<1> QED
  BY <1>10, <1>19, <1>22

(* Strokes next to each other in bis are next to each other in what is left   *)
(* of bis when the first and the last ones go.                                *)
LEMMA StrokesPiece ==
    ASSUME NEW bis, NEW f, NEW n, Strokes(bis, f, n),
           NEW v \in Seq(BiSet), NEW c \in Nat, c + Len(v) <= Len(bis),
           \A i \in 1 .. Len(v) : v[i] = bis[c + i]
    PROVE  Strokes(v, f, n)
<1> DEFINE L == Len(bis)
           l == Len(v)
<1>1. bis \in Seq(BiSet) /\ L \in Nat /\ l \in Nat /\ c + l <= L
  BY DEF Strokes
<1>2. \A i \in 1 .. l : c + i \in 1 .. L /\ v[i] = bis[c + i]
  BY <1>1
<1>3. /\ \A i \in 1 .. L : Finished(bis[i]) /\ f <= bis[i].bars[1].dt
      /\ \A i, j \in 1 .. L : i < j => bis[i].bars[1].dt <= bis[j].bars[1].dt
      /\ \A i \in 1 .. L - 1 : Follows(bis[i], bis[i + 1].bars, n)
  BY DEF Strokes
<1>4. \A i \in 1 .. l : Finished(v[i]) /\ f <= v[i].bars[1].dt
  BY <1>2, <1>3
<1>5. \A i, j \in 1 .. l : i < j => v[i].bars[1].dt <= v[j].bars[1].dt
  <2> SUFFICES ASSUME NEW i \in 1 .. l, NEW j \in 1 .. l, i < j PROVE v[i].bars[1].dt <= v[j].bars[1].dt
    OBVIOUS
  <2> DEFINE d == c + i
             e == c + j
  <2>1. d \in 1 .. L /\ e \in 1 .. L /\ d < e /\ v[i] = bis[d] /\ v[j] = bis[e]
    BY <1>1, <1>2
  <2> HIDE DEF d, e
  <2> QED
    BY <1>3, <2>1
<1>6. \A i \in 1 .. l - 1 : Follows(v[i], v[i + 1].bars, n)
  <2> TAKE i \in 1 .. l - 1
  <2> DEFINE d == c + i
             j == i + 1
  <2>1. d \in 1 .. L - 1 /\ v[i] = bis[d] /\ v[j] = bis[d + 1]
    <3>1. i \in 1 .. l /\ j \in 1 .. l /\ c + j = d + 1 /\ d \in 1 .. L - 1
      BY <1>1
    <3> QED
      BY <1>2, <3>1
  <2> HIDE DEF d, j
  <2>2. Follows(bis[d], bis[d + 1].bars, n)
    BY <1>3, <2>1
  <2> QED
    BY <2>1, <2>2 DEF j
<1> QED
  BY <1>4, <1>5, <1>6 DEF Strokes

(* A stroke taken back. *)
LEMMA StrokeLess ==
    ASSUME NEW all, NEW f, NEW n, Strokes(all, f, n), all # <<>>,
           NEW r, Good(r), Joins(all[Len(all)], r), NEW u, u = TakenBack(r, all[Len(all)])
    PROVE  /\ Stands(Front(all), u, f, n) /\ Len(u) \in Nat /\ Len(u) >= 3 /\ u[Len(u)] = r[Len(r)]
<1> DEFINE L == Len(all)
           x == all[L]
           v == Front(all)
           l == Len(v)
<1>1. all \in Seq(BiSet) /\ L \in Nat \ {0} /\ L \in 1 .. L
  <2>1. all \in Seq(BiSet)
    BY DEF Strokes
  <2> QED
    BY <2>1
<1>2. v \in Seq(BiSet) /\ l = L - 1 /\ l \in Nat /\ \A i \in 1 .. l : v[i] = all[i]
  <2>1. v \in Seq(BiSet) /\ l = L - 1 /\ \A i \in 1 .. L - 1 : v[i] = all[i]
    BY <1>1, Fronted
  <2> QED
    BY <1>1, <2>1
<1>3. /\ \A i \in 1 .. L : Finished(all[i]) /\ f <= all[i].bars[1].dt
      /\ \A i \in 1 .. L - 1 : Follows(all[i], all[i + 1].bars, n)
  BY DEF Strokes
<1>4. Finished(x) /\ f <= x.bars[1].dt
  BY <1>1, <1>3
<1>5. Strokes(v, f, n)
  <2>1. 0 \in Nat /\ 0 + l <= L /\ \A i \in 1 .. l : 0 + i = i
    BY <1>1, <1>2
  <2>2. \A i \in 1 .. l : v[i] = all[0 + i]
    BY <1>2, <2>1
  <2> HIDE DEF v
  <2> QED
    BY <1>2, <2>1, <2>2, StrokesPiece
<1>6. /\ Good(u) /\ Len(u) \in Nat /\ Len(u) >= 3 /\ u[1] = x.bars[1] /\ u[Len(u)] = r[Len(r)]
  <2> HIDE DEF x
  <2> QED
    BY <1>4, BackAgain DEF x
<1>7. u # <<>>
  <2>1. Len(u) >= 3
    BY <1>6
  <2> QED
    BY ONLY <2>1
<1>8. v # <<>> => Follows(v[l], u, n) /\ Stretched(v[l], u)
  <2> SUFFICES ASSUME v # <<>> PROVE Follows(v[l], u, n) /\ Stretched(v[l], u)
    OBVIOUS
  <2>1. l \in 1 .. l /\ l \in 1 .. L - 1 /\ l \in 1 .. L /\ l + 1 = L
    <3>1. v \in Seq(BiSet) /\ v # <<>> /\ l \in Nat /\ l = L - 1 /\ L \in Nat
      BY <1>1, <1>2
    <3> HIDE DEF v, L
    <3> QED
      BY <3>1
  <2> HIDE DEF l, v
  <2>2. v[l] = all[l] /\ Finished(all[l]) /\ Follows(all[l], x.bars, n)
    <3>1. Follows(all[l], all[l + 1].bars, n)
      BY <1>3, <2>1
    <3> QED
      BY <1>2, <1>3, <2>1, <3>1
  <2> DEFINE w == all[l]
  <2>3. v[l] = w /\ Finished(w) /\ Follows(w, x.bars, n)
    BY <2>2
  <2> HIDE DEF w, x
  <2> QED
    BY <1>4, <2>3, FollowsBack DEF x
<1> QED
  BY <1>4, <1>5, <1>6, <1>7, <1>8 DEF Stands

(* The limit of strokes drops the first ones. *)
LEMMA LimitedStands ==
    ASSUME NEW all, NEW r, NEW f, NEW n, Stands(all, r, f, n)
    PROVE  Stands(Limited(all), r, f, n)
<1> DEFINE L == Len(all)
           c == L - MaxBiNum
           g == c + 1
           v == SubSeq(all, g, L)
<1>1. all \in Seq(BiSet) /\ L \in Nat /\ MaxBiNum \in Nat \ {0} /\ Strokes(all, f, n)
  <2>1. all \in Seq(BiSet) /\ Strokes(all, f, n)
    BY DEF Stands, Strokes
  <2> QED
    BY <2>1, CzscAssumption
<1>2. CASE ~(L > MaxBiNum)
  BY <1>2 DEF Limited
<1>3. CASE L > MaxBiNum
  <2>1. Limited(all) = v
    BY <1>3 DEF Limited
  <2>2. c \in Nat /\ g \in 1 .. L /\ g \in 1 .. L + 1 /\ L \in 0 .. L /\ g <= L + 1 /\ L + 1 - g = MaxBiNum
        /\ c + MaxBiNum = L /\ MaxBiNum \in 1 .. MaxBiNum /\ all # <<>> /\ \A i \in 1 .. MaxBiNum : g + i - 1 = c + i
    BY <1>1, <1>3
  <2> HIDE DEF c, g
  <2>3. v \in Seq(BiSet) /\ Len(v) = L + 1 - g /\ \A i \in 1 .. L + 1 - g : v[i] = all[g + i - 1]
    BY <1>1, <2>2, Piece
  <2> HIDE DEF v
  <2>4. Len(v) = MaxBiNum /\ \A i \in 1 .. Len(v) : v[i] = all[c + i]
    BY <2>2, <2>3
  <2>5. Strokes(v, f, n)
    <3>1. c + Len(v) <= Len(all)
      BY <1>1, <2>2, <2>4
    <3> QED
      BY <1>1, <2>2, <2>3, <2>4, <3>1, StrokesPiece
  <2>6. v[Len(v)] = all[L]
    BY <2>2, <2>4
  <2> QED
    BY <2>1, <2>2, <2>5, <2>6 DEF Stands
<1> QED
  BY <1>2, <1>3

-----------------------------------------------------------------------------
(* Bars that turn back after the end of a stroke begin with a fractal.        *)
LEMMA TurnsFractal ==
    ASSUME NEW x, x.up \in BOOLEAN, NEW s, Joins(x, s), Turns(x, s), Len(s) >= 3
    PROVE  FractalAt(s, 2)
<1>1. Past(s[2], s[1], x.up) /\ Past(s[2], s[3], x.up)
  BY DEF Joins, Turns
<1>2. 2 - 1 = 1 /\ 2 + 1 = 3
  OBVIOUS
<1> QED
  BY <1>1, <1>2 DEF FractalAt, Past

(* Bars that carry on past the end of the last stroke break it, and are too   *)
(* few for a stroke of their own.                                             *)
LEMMA CarriesBreaks ==
    ASSUME NEW x, Finished(x), NEW s, Good(s), Joins(x, s), Carries(x, s)
    PROVE  Broken(s, x) /\ Stroke(s) = <<>>
<1> DEFINE c == x.up
<1>1. /\ c \in BOOLEAN /\ x.a \in Fxs /\ x.b \in Fxs
  BY EndBars
<1>2. Len(s) = 3 /\ Past(s[3], s[2], c) /\ Extreme(x.b, c) <= Extreme(s[2], c)
  BY DEF Carries, Joins
<1>3. /\ 2 \in 1 .. Len(s) /\ 3 \in 1 .. Len(s)
  BY <1>2
<1>4. /\ s[2].hi \in Int /\ s[2].lo \in Int /\ s[3].hi \in Int /\ s[3].lo \in Int
      /\ x.a.hi \in Int /\ x.a.lo \in Int /\ x.b.hi \in Int /\ x.b.lo \in Int
  <2>1. s[2] \in UbiBars /\ s[3] \in UbiBars
    BY <1>3, DatesRise DEF Good
  <2> QED
    BY <1>1, <2>1 DEF Fxs, UbiBars
<1>5. Extreme(x.a, c) < Extreme(x.b, c)
  BY DEF Finished
<1> DEFINE k == s[3]
           j == s[2]
<1>6. IF c THEN k.hi > Hi(x) ELSE k.lo < Lo(x)
  <2> HIDE DEF c, k, j
  <2>1. ASSUME c = TRUE PROVE k.hi > Hi(x)
    <3>1. k.hi > j.hi /\ x.b.hi <= j.hi /\ x.a.hi < x.b.hi
      BY <1>2, <1>5, <2>1 DEF Past, Above, Extreme, k, j
    <3>2. Hi(x) = x.b.hi
      BY <1>4, <3>1 DEF Hi, Higher
    <3> QED
      BY <1>4, <3>1, <3>2 DEF k, j
  <2>2. ASSUME c = FALSE PROVE k.lo < Lo(x)
    <3>1. j.lo > k.lo /\ -x.b.lo <= -j.lo /\ -x.a.lo < -x.b.lo
      BY <1>2, <1>5, <2>2 DEF Past, Above, Extreme, k, j
    <3>2. Lo(x) = x.b.lo
      BY <1>4, <3>1 DEF Lo, Lower
    <3> QED
      BY <1>4, <3>1, <3>2 DEF k, j
  <2> QED
    BY <1>1, <2>1, <2>2
<1>7. Broken(s, x)
  BY <1>3, <1>6 DEF Broken
<1>8. Stroke(s) = <<>>
  <2> SUFFICES ASSUME Stroke(s) # <<>> PROVE FALSE
    OBVIOUS
  <2>1. PICK y, p, q : StrokeOf(y, s, p, q)
    BY StrokeFound
  <2>2. p \in 2 .. 3 - 1 /\ q \in 2 .. 3 - 1 /\ p < q
    BY <1>2, <2>1 DEF StrokeOf
  <2> QED
    BY ONLY <2>2
<1> QED
  BY <1>7, <1>8

(* The strokes found so far and the bars left over after one search.          *)
Search(bis, t, found, all, rest) ==
    /\ Len(t) \in Nat /\ Len(t) >= 3 /\ (bis # <<>> => FractalAt(t, 2))
    /\ found = Stroke(t) /\ rest = RestAfter(t, found) /\ all = bis \o found

LEMMA Searched ==
    ASSUME NEW bis, NEW t, NEW f \in Nat, NEW n, Stands(bis, t, f, n),
           NEW found, NEW rest, NEW all, Search(bis, t, found, all, rest)
    PROVE  Stands(all, rest, f, n) /\ Len(rest) \in Nat /\ Len(rest) >= 3 /\ rest[Len(rest)] = t[Len(t)]
<1>0. /\ Len(t) \in Nat /\ Len(t) >= 3 /\ (bis # <<>> => FractalAt(t, 2))
      /\ found = Stroke(t) /\ rest = RestAfter(t, found) /\ all = bis \o found
  BY DEF Search
<1>1. Good(t) /\ bis \in Seq(BiSet)
  BY DEF Stands, Strokes
<1>2. CASE found = <<>>
  <2>1. rest = t
    BY <1>0, <1>2 DEF RestAfter
  <2>2. all = bis
    BY <1>0, <1>1, <1>2
  <2> QED
    BY <1>0, <2>1, <2>2
<1>3. CASE found # <<>>
  <2>1. PICK x, p, q :
          /\ StrokeOf(x, t, p, q) /\ Stroke(t) = <<x>> /\ (FractalAt(t, 2) => p = 2)
          /\ RestAfter(t, Stroke(t)) = SubSeq(t, q - 1, Len(t))
    BY <1>0, <1>1, <1>3, StrokeFound
  <2>2. OneMore(bis, t, x, p, q, all, rest)
    BY <1>0, <2>1 DEF OneMore
  <2> QED
    BY <2>2, StrokeAdded
<1> QED
  BY <1>2, <1>3

(* The bars before the first fractal are dropped while there is no stroke.    *)
LEMMA Started ==
    ASSUME NEW s, Good(s), Len(s) >= 3, NEW f \in Nat, NEW n, f <= s[1].dt,
           NEW t, t = FirstStart(s)
    PROVE  Stands(<<>>, t, f, n) /\ Len(t) \in Nat /\ Len(t) >= 3 /\ t[Len(t)] = s[Len(s)]
<1> DEFINE N == Len(s)
<1>1. /\ s \in Seq(UbiBars) /\ N \in Nat /\ N >= 3 /\ Sound(s)
      /\ \A i \in 1 .. N : s[i] \in UbiBars /\ s[i].dt \in Nat
      /\ \A i, j \in 1 .. N : i < j => s[i].dt < s[j].dt
  <2>1. Sound(s)
    BY DEF Good
  <2> QED
    BY <2>1, DatesRise
<1>2. PICK c \in 1 .. N - 2 : t = SubSeq(s, c, N)
  BY StartFound
<1> HIDE DEF N
<1> DEFINE d == c - 1
<1>3. /\ c \in 1 .. N /\ c \in 1 .. N + 1 /\ N \in 0 .. N /\ c <= N + 1 /\ N + 1 - c >= 3 /\ N + 1 - c \in Nat
      /\ 1 \in 1 .. N + 1 - c /\ N + 1 - c \in 1 .. N + 1 - c /\ c + 1 - 1 = c /\ c + (N + 1 - c) - 1 = N
      /\ d \in Nat /\ d + (N + 1 - c) <= N /\ \A i \in 1 .. N + 1 - c : c + i - 1 = d + i
      /\ 1 \in 1 .. N /\ c \in Nat /\ c >= 1
  BY <1>1
<1> HIDE DEF d
<1>4. t \in Seq(UbiBars) /\ Len(t) = N + 1 - c /\ \A i \in 1 .. N + 1 - c : t[i] = s[c + i - 1]
  <2>1. s \in Seq(UbiBars) /\ t = SubSeq(s, c, N) /\ c \in 1 .. Len(s) + 1 /\ N \in 0 .. Len(s) /\ c <= N + 1
    BY <1>1, <1>2, <1>3 DEF N
  <2> QED
    BY ONLY <2>1, Piece
<1>5. Len(t) \in Nat /\ Len(t) >= 3 /\ t[1] = s[c] /\ t[Len(t)] = s[N]
  BY <1>3, <1>4
<1>6. Good(t)
  <2>1. d + Len(t) <= Len(s) /\ \A i \in 1 .. Len(t) : t[i] = s[d + i]
    BY <1>3, <1>4 DEF N
  <2> QED
    BY <1>3, <1>4, <2>1, GoodPiece
<1>7. f <= t[1].dt
  <2>1. c = 1 \/ 1 < c
    BY <1>3
  <2>2. s[1].dt <= s[c].dt
    BY <1>1, <1>3, <2>1
  <2>3. s[1].dt \in Nat /\ s[c].dt \in Nat
    BY <1>1, <1>3
  <2> QED
    BY <1>5, <2>2, <2>3
<1>8. t # <<>>
  <2>1. Len(t) >= 3
    BY <1>5
  <2> QED
    BY ONLY <2>1
<1>9. Strokes(<<>>, f, n)
  <2> DEFINE v == <<>>
  <2>1. v \in Seq(BiSet) /\ Len(v) = 0
    OBVIOUS
  <2> HIDE DEF v
  <2>2. Strokes(v, f, n)
    BY <2>1 DEF Strokes
  <2> QED
    BY <2>2 DEF v
<1> QED
  BY <1>5, <1>6, <1>7, <1>8, <1>9 DEF Stands, N

(* UpdateBi keeps the strokes in order, whatever it finds and takes back.     *)
LEMMA UpdateBiStep ==
    ASSUME NEW f \in Nat, NEW n, Strokes(bi_list, f, n), NEW s, Good(s), s # <<>>, f <= s[1].dt,
           bi_list # <<>> =>
             /\ Joins(bi_list[Len(bi_list)], s) /\ Stretched(bi_list[Len(bi_list)], s)
             /\ Turns(bi_list[Len(bi_list)], s) \/ Carries(bi_list[Len(bi_list)], s)
             /\ n = 0 => Fixed(bi_list[Len(bi_list)], s),
           UpdateBi(s)
    PROVE  /\ Stands(bi_list', bars_ubi', f, n) /\ bars_ubi'[Len(bars_ubi')] = s[Len(s)]
           /\ Len(bars_ubi') = 1 => bars_ubi' = s
<1> DEFINE x == bi_list[Len(bi_list)]
<1>1. /\ bi_list \in Seq(BiSet) /\ Len(s) \in Nat /\ s \in Seq(UbiBars)
  <2>1. bi_list \in Seq(BiSet) /\ s \in Seq(UbiBars)
    BY DEF Strokes, Good, Sound
  <2> QED
    BY <2>1
<1>2. bi_list # <<>> => Finished(x) /\ x.up \in BOOLEAN
  <2> SUFFICES ASSUME bi_list # <<>> PROVE Finished(x) /\ x.up \in BOOLEAN
    OBVIOUS
  <2>1. Len(bi_list) \in 1 .. Len(bi_list)
    BY <1>1
  <2>2. Finished(x)
    BY <2>1 DEF Strokes
  <2> QED
    BY <2>2, EndBars
<1>3. CASE Len(s) < 3
  <2>1. bars_ubi' = s /\ bi_list' = bi_list
    BY <1>1, <1>3 DEF UpdateBi
  <2>2. bi_list # <<>> => Turns(x, s) /\ (n = 0 => Fixed(x, s)) /\ Joins(x, s) /\ Stretched(x, s)
    BY <1>1, <1>3 DEF Turns
  <2>3. Stands(bi_list, s, f, n)
    BY <2>2 DEF Stands, Follows
  <2> QED
    BY <2>1, <2>3
<1>4. CASE ~(Len(s) < 3)
  <2> DEFINE t == Start(s)
             found == Stroke(t)
             rest == RestAfter(t, found)
             all == bi_list \o found
             broken == bi_list # <<>> /\ Broken(rest, Last(all))
  <2>1. \/ ~broken /\ bars_ubi' = rest /\ bi_list' = Limited(all)
        \/ broken /\ bars_ubi' = TakenBack(rest, Last(all)) /\ bi_list' = Limited(Front(all))
    BY <1>4 DEF UpdateBi
  <2>2. Len(s) >= 3
    BY <1>1, <1>4
  <2>3. CASE bi_list # <<>> /\ ~Turns(x, s)
    <3>1. t = s /\ Carries(x, s)
      BY <2>3 DEF Start
    <3>2. Broken(s, x) /\ Stroke(s) = <<>>
      BY <1>2, <2>3, <3>1, CarriesBreaks
    <3>3. rest = s /\ all = bi_list
      <4>1. found = <<>>
        BY <3>1, <3>2
      <4>2. bi_list \o <<>> = bi_list
        BY <1>1
      <4> QED
        BY <3>1, <4>1, <4>2 DEF RestAfter
    <3>4. Last(all) = x
      BY <3>3 DEF Last
    <3>5. broken
      BY <2>3, <3>2, <3>3, <3>4
    <3>6. bars_ubi' = TakenBack(s, x) /\ bi_list' = Limited(Front(bi_list))
      BY <2>1, <3>3, <3>4, <3>5
    <3> DEFINE u == TakenBack(s, x)
               v == Front(bi_list)
    <3>7. Stands(v, u, f, n) /\ Len(u) \in Nat /\ Len(u) >= 3 /\ u[Len(u)] = s[Len(s)]
      <4>1. Joins(x, s)
        BY <2>3
      <4> HIDE DEF u, v
      <4>2. u = TakenBack(s, bi_list[Len(bi_list)])
        BY DEF u
      <4> QED
        BY <2>3, <4>1, <4>2, StrokeLess DEF v
    <3> HIDE DEF u, v
    <3>8. Stands(Limited(v), u, f, n)
      BY <3>7, LimitedStands
    <3> QED
      BY <3>6, <3>7, <3>8 DEF u, v
  <2>4. CASE bi_list = <<>> \/ Turns(x, s)
    <3>1. /\ Stands(bi_list, t, f, n) /\ Len(t) \in Nat /\ Len(t) >= 3 /\ t[Len(t)] = s[Len(s)]
          /\ bi_list # <<>> => FractalAt(t, 2)
      <4>1. CASE bi_list = <<>>
        <5>1. t = FirstStart(s)
          BY <4>1 DEF Start
        <5> HIDE DEF t
        <5>2. Stands(<<>>, t, f, n) /\ Len(t) \in Nat /\ Len(t) >= 3 /\ t[Len(t)] = s[Len(s)]
          BY <2>2, <5>1, Started
        <5> QED
          BY <4>1, <5>2
      <4>2. CASE bi_list # <<>>
        <5>1. t = s
          BY <4>2 DEF Start
        <5>2. Stands(bi_list, s, f, n)
          BY <2>4, <4>2 DEF Stands, Follows
        <5>3. FractalAt(s, 2)
          BY <1>2, <2>2, <2>4, <4>2, TurnsFractal
        <5> QED
          BY <1>1, <2>2, <5>1, <5>2, <5>3
      <4> QED
        BY <4>1, <4>2
    <3> HIDE DEF t
    <3>2. Stands(all, rest, f, n) /\ Len(rest) \in Nat /\ Len(rest) >= 3 /\ rest[Len(rest)] = s[Len(s)]
      <4> DEFINE g == found  r == rest  a == all
      <4>1. Search(bi_list, t, g, a, r)
        BY <3>1 DEF Search
      <4> HIDE DEF g, r, a
      <4>2. Stands(a, r, f, n) /\ Len(r) \in Nat /\ Len(r) >= 3 /\ r[Len(r)] = t[Len(t)]
        BY <3>1, <4>1, Searched
      <4> QED
        BY <3>1, <4>2 DEF g, r, a
    <3>3. CASE ~broken
      <4>1. bars_ubi' = rest /\ bi_list' = Limited(all)
        BY <2>1, <3>3
      <4> HIDE DEF rest, all
      <4>2. Stands(Limited(all), rest, f, n)
        BY <3>2, LimitedStands
      <4> QED
        BY <3>2, <4>1, <4>2
    <3>4. CASE broken
      <4>1. bars_ubi' = TakenBack(rest, Last(all)) /\ bi_list' = Limited(Front(all))
        BY <2>1, <3>4
      <4>2. all # <<>>
        <5>1. bi_list # <<>>
          BY <3>4
        <5>2. found = <<>> \/ found # <<>>
          OBVIOUS
        <5>3. bi_list \o found # <<>>
          <6>1. CASE found = <<>>
            BY <1>1, <5>1, <6>1
          <6>2. CASE found # <<>>
            <7>1. Good(t)
              BY <3>1 DEF Stands
            <7>2. PICK y, p, q : Stroke(t) = <<y>> /\ StrokeOf(y, t, p, q)
              BY <6>2, <7>1, StrokeFound
            <7>3. bi_list \o <<y>> # <<>>
              BY <1>1
            <7> QED
              BY <7>2, <7>3
          <6> QED
            BY <6>1, <6>2
        <5> QED
          BY <5>3
      <4> DEFINE u == TakenBack(rest, Last(all))
                 v == Front(all)
      <4> HIDE DEF rest, all
      <4>3. Strokes(all, f, n) /\ Good(rest) /\ Follows(all[Len(all)], rest, n)
        BY <3>2, <4>2 DEF Stands
      <4>4. Joins(all[Len(all)], rest) /\ u = TakenBack(rest, all[Len(all)])
        BY <4>3 DEF Follows, Last
      <4> HIDE DEF u
      <4>5. Stands(v, u, f, n) /\ Len(u) \in Nat /\ Len(u) >= 3 /\ u[Len(u)] = rest[Len(rest)]
        BY <4>2, <4>3, <4>4, StrokeLess
      <4> HIDE DEF v
      <4>6. Stands(Limited(v), u, f, n)
        BY <4>5, LimitedStands
      <4> QED
        BY <3>2, <4>1, <4>5, <4>6 DEF u, v
    <3> QED
      BY <3>3, <3>4
  <2> QED
    BY <2>3, <2>4
<1> QED
  BY <1>3, <1>4

(* The raw bars before the first stroke go. *)
LEMMA Drained ==
    ASSUME NEW bis, NEW r, NEW f \in Nat, NEW n, Stands(bis, r, f, n), bis # <<>>,
           NEW g, g = Higher(f, bis[1].a.from)
    PROVE  g \in Nat /\ Stands(bis, r, g, n)
<1> DEFINE L == Len(bis)
           y == bis[1]
           x == bis[L]
<1>1. bis \in Seq(BiSet) /\ L \in Nat \ {0} /\ 1 \in 1 .. L /\ L \in 1 .. L /\ Strokes(bis, f, n)
  <2>1. bis \in Seq(BiSet) /\ Strokes(bis, f, n)
    BY DEF Stands, Strokes
  <2> QED
    BY <2>1
<1>2. /\ \A i \in 1 .. L : Finished(bis[i]) /\ f <= bis[i].bars[1].dt
      /\ \A i, j \in 1 .. L : i < j => bis[i].bars[1].dt <= bis[j].bars[1].dt
      /\ \A i \in 1 .. L - 1 : Follows(bis[i], bis[i + 1].bars, n)
  BY <1>1 DEF Strokes
<1>3. \A i \in 1 .. L : bis[i].bars[1].dt \in Nat
  <2> TAKE i \in 1 .. L
  <2>1. bis[i].bars[1] \in UbiBars
    BY <1>2, EndBars
  <2> QED
    BY <2>1 DEF UbiBars
<1>4. g = y.bars[1].dt /\ g \in Nat
  <2>1. y.a.from = y.bars[1].dt
    <3>1. y.a = Fractal(y.bars, 2) /\ 2 - 1 = 1
      BY <1>1, <1>2 DEF Finished
    <3> QED
      BY <3>1 DEF Fractal
  <2>2. f <= y.bars[1].dt /\ y.bars[1].dt \in Nat
    BY <1>1, <1>2, <1>3
  <2> QED
    BY <2>1, <2>2 DEF Higher
<1>5. \A i \in 1 .. L : g <= bis[i].bars[1].dt
  <2> TAKE i \in 1 .. L
  <2>1. i = 1 \/ 1 < i
    BY <1>1
  <2>2. 1 < i => y.bars[1].dt <= bis[i].bars[1].dt
    BY <1>1, <1>2
  <2> QED
    BY <1>4, <2>1, <2>2
<1>6. g <= r[1].dt
  <2> DEFINE t == x.bars
             m == Len(x.bars)
             e == m - 2
  <2>1. Finished(x) /\ g <= t[1].dt /\ t[1].dt \in Nat /\ Joins(x, r)
    <3>1. Joins(x, r)
      BY DEF Stands, Follows
    <3> QED
      BY <1>1, <1>2, <1>3, <1>5, <3>1
  <2> HIDE DEF x
  <2>2. t \in Seq(UbiBars) /\ Good(t) /\ m \in Nat /\ m >= 4
    BY <2>1, EndBars
  <2>3. r[1] = t[e]
    BY <2>1 DEF Joins
  <2>5. m = Len(t)
    OBVIOUS
  <2> HIDE DEF t, m
  <2>4. 1 \in 1 .. m /\ e \in 1 .. m /\ 1 < e
    BY <2>2
  <2> HIDE DEF e
  <2>6. t[1].dt < t[e].dt /\ t[e].dt \in Nat
    BY <2>2, <2>4, <2>5, DatesRise DEF Good
  <2> QED
    BY <1>4, <2>1, <2>3, <2>6
<1>7. Strokes(bis, g, n)
  BY <1>1, <1>2, <1>5 DEF Strokes
<1> QED
  BY <1>4, <1>6, <1>7 DEF Stands

(* The first bar stays when more are added. *)
LEMMA AddedFirst ==
    ASSUME NEW s, NEW raw, Fits(s, raw), Len(s) >= 1
    PROVE  \A n \in 0 .. Len(raw) : Added(s, raw)[n][1] = s[1]
<1> DEFINE N == Len(raw)
           t == Added(s, raw)
           P == {n \in 0 .. N : t[n][1] = s[1]}
<1>1. N \in Nat /\ s \in Seq(UbiBars) /\ Len(s) \in Nat
  BY DEF Fits, Sound
<1>2. /\ t[0] = s
      /\ \A n \in 1 .. N : t[n] = AddBar(t[n - 1], raw[n])
      /\ \A n \in 0 .. N : After(t[n], s, raw, n)
  BY AddedSteps
<1>3. 0 \in P
  BY <1>1, <1>2
<1>4. ASSUME NEW n \in 1 .. N, n - 1 \in P PROVE n \in P
  <2> DEFINE m == n - 1
             u == t[m]
  <2>1. m \in 0 .. N /\ 0 \in 0 .. N /\ 0 \in 0 .. m /\ m \in 0 .. N /\ n \in 0 .. N /\ m \in 0 .. Len(raw)
    BY <1>1
  <2>2. u[1] = s[1] /\ t[n] = AddBar(u, raw[n]) /\ After(u, s, raw, m) /\ Len(s) <= Len(u)
    <3>1. Len(t[0]) <= Len(t[m])
      <4>1. 0 \in 0 .. Len(raw) /\ m \in 0 .. Len(raw)
        BY <2>1
      <4> HIDE DEF m
      <4> QED
        BY <2>1, <4>1, AddedLengths
    <3> QED
      BY <1>2, <1>4, <2>1, <3>1
  <2> HIDE DEF u, t
  <2>3. /\ Sound(u) /\ raw[n] \in RawBars /\ (u # <<>> => Newest(u[Len(u)]) < raw[n].dt)
    BY <2>2, OneAdded
  <2> DEFINE v == AddBar(u, raw[n])
  <2>4. v[1] = u[1]
    <3>1. /\ Len(u) \in Nat
          /\ Absorbs(u, raw[n]) => Len(u) >= 2 /\ \A i \in 1 .. Len(u) - 1 : v[i] = u[i]
          /\ ~Absorbs(u, raw[n]) => \A i \in 1 .. Len(u) : v[i] = u[i]
      BY <2>3, AddBarCases
    <3>2. Len(u) >= 1
      BY <1>1, <2>2, <3>1
    <3>3. 1 \in 1 .. Len(u) /\ (Len(u) >= 2 => 1 \in 1 .. Len(u) - 1)
      BY <3>1, <3>2
    <3> QED
      BY <3>1, <3>3
  <2> QED
    BY <2>1, <2>2, <2>4 DEF t
<1>5. 0 .. N \subseteq P
  <2> HIDE DEF P, N
  <2> QED
    BY <1>1, <1>3, <1>4, UpTo
<1> QED
  BY <1>5

-----------------------------------------------------------------------------
(* What holds of an analysis between its operations.  A single bar of         *)
(* bars_ubi is a single raw bar, so that a new form of it leaves none of the  *)
(* old behind; and only a bar that has changed can move the end of a stroke.  *)
EngInv ==
    /\ bars_raw \in [first : Nat, last : Nat] /\ revisions \in Nat
    /\ ahead \in Seq([hi : Int, lo : Int])
    /\ bars_raw.last = 0 => bars_ubi = <<>> /\ bi_list = <<>> /\ bars_raw.first = 1
    /\ bars_raw.last > 0 =>
         /\ Stands(bi_list, bars_ubi, bars_raw.first, revisions)
         /\ Newest(bars_ubi[Len(bars_ubi)]) = bars_raw.last
         /\ Len(bars_ubi) = 1 => Len(bars_ubi[1].elements) = 1

(* What UpdateBi is given: the merged bars s, the newest of dt. *)
Merges(s, f, n, dt) ==
    /\ Strokes(bi_list, f, n) /\ Good(s) /\ s # <<>> /\ f <= s[1].dt
    /\ bi_list # <<>> =>
         /\ Joins(bi_list[Len(bi_list)], s) /\ Stretched(bi_list[Len(bi_list)], s)
         /\ Turns(bi_list[Len(bi_list)], s) \/ Carries(bi_list[Len(bi_list)], s)
         /\ n = 0 => Fixed(bi_list[Len(bi_list)], s)
    /\ Newest(s[Len(s)]) = dt
    /\ Len(s) = 1 => Len(s[1].elements) = 1

(* The first bar of an analysis.                                              *)
LEMMA FirstBar ==
    ASSUME NEW b \in RawBars, NEW s, s = AddBar(<<>>, b)
    PROVE  /\ Good(s) /\ s # <<>> /\ Len(s) = 1 /\ s[1] = FromRaw(b) /\ s[Len(s)] = FromRaw(b)
           /\ s[1].dt = b.dt /\ Newest(s[1]) = b.dt /\ Len(s[1].elements) = 1
<1> DEFINE u == <<>>
<1>1. u \in Seq(UbiBars) /\ Len(u) = 0 /\ u = <<>>
  OBVIOUS
<1> HIDE DEF u
<1>2. Sound(u)
  BY <1>1 DEF Sound
<1>3. Good(u)
  BY <1>1, <1>2 DEF Good
<1>4. ~Absorbs(u, b)
  BY <1>1 DEF Absorbs
<1>5. s = AddBar(u, b) /\ (u # <<>> => Newest(u[Len(u)]) < b.dt)
  BY <1>1
<1>6. Good(s)
  BY <1>3, <1>5, AddBarGood
<1>7. Len(s) = Len(u) + 1 /\ s[Len(u) + 1] = FromRaw(b)
  BY <1>2, <1>4, <1>5, AddBarCases
<1>8. Len(s) = 1 /\ s[1] = FromRaw(b)
  <2>1. Len(u) + 1 = 1
    BY <1>1
  <2> QED
    BY <1>7, <2>1
<1>9. s # <<>>
  BY ONLY <1>8
<1>10. Len(<<b>>) = 1
  OBVIOUS
<1> QED
  BY <1>6, <1>8, <1>9, <1>10, RawBar

(* A bar of a new dt. *)
LEMMA ExtendMerges ==
    ASSUME EngInv, NEW dt, dt = bars_raw.last + 1, NEW b \in RawBars, b.dt = dt,
           NEW s, s = AddBar(bars_ubi, b)
    PROVE  Merges(s, bars_raw.first, revisions, dt)
<1> DEFINE u == bars_ubi
           f == bars_raw.first
           n == revisions
           x == bi_list[Len(bi_list)]
<1>1. f \in Nat /\ bars_raw.last \in Nat /\ n \in Nat
  BY DEF EngInv
<1>2. CASE bars_raw.last = 0
  <2>1. u = <<>> /\ bi_list = <<>> /\ f = 1 /\ dt = 1
    BY <1>2 DEF EngInv
  <2>2. /\ Good(s) /\ s # <<>> /\ Len(s) = 1 /\ s[1].dt = b.dt /\ Newest(s[1]) = b.dt
        /\ Len(s[1].elements) = 1
    BY <2>1, FirstBar
  <2>3. Strokes(bi_list, f, n)
    <3> DEFINE v == bi_list
    <3>1. v \in Seq(BiSet) /\ Len(v) = 0
      BY <2>1
    <3> HIDE DEF v
    <3>2. Strokes(v, f, n)
      BY <3>1 DEF Strokes
    <3> QED
      BY <3>2 DEF v
  <2> QED
    BY <2>1, <2>2, <2>3 DEF Merges
<1>3. CASE bars_raw.last > 0
  <2>1. Stands(bi_list, u, f, n) /\ Newest(u[Len(u)]) = bars_raw.last
    BY <1>3 DEF EngInv
  <2>2. /\ Strokes(bi_list, f, n) /\ Good(u) /\ u # <<>> /\ f <= u[1].dt /\ Sound(u)
        /\ bi_list # <<>> => Follows(x, u, n) /\ Stretched(x, u)
    BY <2>1 DEF Stands, Good
  <2>3. Newest(u[Len(u)]) < b.dt
    BY <1>1, <2>1
  <2> HIDE DEF u, f, n, x
  <2>4. s = AddBar(u, b)
    BY DEF u
  <2>5. Good(s)
    BY <2>2, <2>3, <2>4, AddBarGood
  <2>6. /\ u \in Seq(UbiBars) /\ Len(u) \in Nat /\ Len(s) \in Nat
        /\ Len(s) >= 1 /\ Newest(s[Len(s)]) = b.dt
        /\ Absorbs(u, b) =>
             /\ Len(s) = Len(u) /\ Len(u) >= 2
             /\ \A i \in 1 .. Len(u) - 1 : s[i] = u[i]
        /\ ~Absorbs(u, b) =>
             /\ Len(s) = Len(u) + 1
             /\ \A i \in 1 .. Len(u) : s[i] = u[i]
    BY <2>2, <2>3, <2>4, AddBarCases
  <2>7. Len(u) >= 1
    BY <2>2, <2>6
  <2>8. s[1] = u[1] /\ Len(s) >= 2
    <3>1. 1 \in 1 .. Len(u) /\ (Len(u) >= 2 => 1 \in 1 .. Len(u) - 1)
      BY <2>6, <2>7
    <3>2. s[1] = u[1]
      BY <2>6, <3>1
    <3>3. Len(s) >= 2
      <4>1. Len(u) \in Nat /\ Len(u) >= 1 /\ ((Len(s) = Len(u) /\ Len(u) >= 2) \/ Len(s) = Len(u) + 1)
        BY <2>6, <2>7
      <4> QED
        BY ONLY <4>1
    <3> QED
      BY <3>2, <3>3
  <2>9. s # <<>> /\ ~(Len(s) = 1)
    <3>1. Len(s) \in Nat /\ Len(s) >= 2 /\ s \in Seq(UbiBars)
      BY <2>5, <2>6, <2>8 DEF Good, Sound
    <3>2. ~(Len(s) = 1)
      BY ONLY <3>1, Sizes
    <3>3. s # <<>>
      BY ONLY <3>1
    <3> QED
      BY <3>2, <3>3
  <2>10. bi_list # <<>> =>
           Joins(x, s) /\ Stretched(x, s) /\ (Turns(x, s) \/ Carries(x, s)) /\ (n = 0 => Fixed(x, s))
    <3> SUFFICES ASSUME bi_list # <<>>
                 PROVE Joins(x, s) /\ Stretched(x, s) /\ (Turns(x, s) \/ Carries(x, s)) /\ (n = 0 => Fixed(x, s))
      OBVIOUS
    <3>1. Finished(x)
      <4>1. bi_list \in Seq(BiSet) /\ \A i \in 1 .. Len(bi_list) : Finished(bi_list[i])
        BY <2>2 DEF Strokes
      <4>2. Len(bi_list) \in 1 .. Len(bi_list)
        BY <4>1
      <4> QED
        BY <4>1, <4>2 DEF x
    <3>2. Joins(x, u) /\ Turns(x, u) /\ (n = 0 => Fixed(x, u))
      BY <2>2 DEF Follows
    <3>3. /\ Joins(x, s)
          /\ Len(u) >= 3 /\ Turns(x, u) => Len(s) >= 3 /\ Turns(x, s)
          /\ Len(u) = 2 => Stretched(x, s) /\ (Turns(x, s) \/ Carries(x, s))
          /\ Fixed(x, u) => Fixed(x, s)
      BY <2>2, <2>3, <2>4, <3>1, <3>2, JoinAdd
    <3>4. Len(u) >= 3 \/ Len(u) = 2
      <4>1. Len(u) \in Nat /\ Len(u) >= 2
        BY <2>6, <3>2 DEF Joins
      <4> QED
        BY ONLY <4>1, Sizes
    <3>5. Len(s) >= 3 => Stretched(x, s)
      <4>1. Len(s) \in Nat
        BY <2>6
      <4>2. Len(s) >= 3 => ~(Len(s) = 2)
        BY ONLY <4>1, Sizes
      <4> QED
        BY <4>2 DEF Stretched
    <3> QED
      BY <3>2, <3>3, <3>4, <3>5
  <2> QED
    BY <2>2, <2>5, <2>6, <2>8, <2>9, <2>10 DEF Merges, f, n, x
<1>4. bars_raw.last = 0 \/ bars_raw.last > 0
  BY <1>1
<1> QED
  BY <1>2, <1>3, <1>4

(* A bar that is there already, in a new form. *)
LEMMA ReplaceMerges ==
    ASSUME EngInv, bars_raw.last > 0, NEW b \in RawBars, b.dt = bars_raw.last,
           NEW g, g = Retold(bars_ubi, b), NEW s, s = Added(Front(bars_ubi), g)[Len(g)],
           NEW m, m # 0
    PROVE  Merges(s, bars_raw.first, m, bars_raw.last)
<1> DEFINE u == bars_ubi
           f == bars_raw.first
           p == Front(u)
           e == u[Len(u)].elements
           N == Len(g)
           x == bi_list[Len(bi_list)]
<1>1. f \in Nat /\ bars_raw.last \in Nat
  BY DEF EngInv
<1>2. /\ Stands(bi_list, u, f, revisions) /\ Newest(u[Len(u)]) = bars_raw.last
      /\ Len(u) = 1 => Len(u[1].elements) = 1
  BY DEF EngInv
<1>3. /\ Strokes(bi_list, f, revisions) /\ Good(u) /\ u # <<>> /\ f <= u[1].dt
      /\ bi_list # <<>> => Follows(x, u, revisions) /\ Stretched(x, u)
  BY <1>2 DEF Stands
<1>4. /\ e \in Seq(RawBars) /\ Len(e) \in Nat /\ Len(e) >= 1
      /\ g \in Seq(RawBars) /\ N = Len(e) /\ g[Len(e)] = b
      /\ Good(p) /\ Fits(p, g)
      /\ p \in Seq(UbiBars) /\ Len(u) \in Nat /\ Len(u) >= 1 /\ Len(p) = Len(u) - 1
      /\ \A i \in 1 .. Len(u) - 1 : p[i] = u[i]
  <2> DEFINE e2 == e  u2 == u
  <2>1. Good(u2) /\ u2 # <<>> /\ b.dt = Newest(u2[Len(u2)]) /\ e2 = u2[Len(u2)].elements /\ g = Retold(u2, b)
    BY <1>2, <1>3
  <2> HIDE DEF e2, u2
  <2>2. /\ e2 \in Seq(RawBars) /\ Len(e2) \in Nat /\ Len(e2) >= 1
        /\ g \in Seq(RawBars) /\ Len(g) = Len(e2) /\ g[Len(e2)] = b
        /\ Good(Front(u2)) /\ Fits(Front(u2), g)
        /\ Front(u2) \in Seq(UbiBars) /\ Len(u2) \in Nat /\ Len(u2) >= 1 /\ Len(Front(u2)) = Len(u2) - 1
        /\ \A i \in 1 .. Len(u2) - 1 : Front(u2)[i] = u2[i]
    BY <2>1, Again
  <2> QED
    BY <2>2 DEF e2, u2
<1>5. N \in Nat /\ N >= 1 /\ N \in 0 .. N /\ 1 \in 1 .. N /\ 0 \in 0 .. N /\ 1 \in 0 .. N /\ N \in 1 .. N /\ g[N] = b
  BY <1>4
<1> HIDE DEF p, e, N
<1>6. Good(s) /\ After(s, p, g, N) /\ s = Added(p, g)[N]
  <2>1. s = Added(p, g)[N]
    BY DEF p, N, u
  <2>2. N \in 0 .. Len(g)
    BY <1>5 DEF N
  <2> QED
    BY <1>4, <2>1, <2>2, AddedGood, AddedSteps
<1>7. s # <<>> /\ Newest(s[Len(s)]) = bars_raw.last
  BY <1>5, <1>6 DEF After
<1>8. f <= s[1].dt /\ (Len(s) = 1 => Len(s[1].elements) = 1)
  <2>1. CASE Len(u) = 1
    <3>1. N = 1 /\ p = <<>> /\ g[1] = b
      <4>1. Len(e) = 1
        BY <1>2, <2>1 DEF e
      <4>2. Len(p) = 0 /\ p \in Seq(UbiBars)
        BY <1>4, <2>1
      <4>3. p = <<>>
        BY ONLY <4>2
      <4> QED
        BY <1>4, <4>1, <4>3
    <3>2. s = AddBar(<<>>, b)
      <4>1. /\ Added(p, g)[0] = p /\ \A n \in 1 .. N : Added(p, g)[n] = AddBar(Added(p, g)[n - 1], g[n])
        BY <1>4, AddedSteps DEF N
      <4>2. Added(p, g)[1] = AddBar(Added(p, g)[1 - 1], g[1]) /\ 1 - 1 = 0
        BY <1>5, <4>1
      <4> QED
        BY <1>6, <3>1, <4>1, <4>2
    <3>3. s[1].dt = bars_raw.last /\ Len(s[1].elements) = 1
      BY <3>2, FirstBar
    <3>4. f <= bars_raw.last
      <4>1. u[1] \in UbiBars /\ Dated(u[1]) /\ Newest(u[1]) = bars_raw.last
        <5>1. 1 \in 1 .. Len(u)
          BY <2>1
        <5>2. u[1] \in UbiBars /\ Dated(u[1])
          BY <1>3, <5>1 DEF Good, Sound
        <5> QED
          BY <1>2, <2>1, <5>2
      <4>2. u[1].dt \in Nat /\ u[1].dt <= Newest(u[1])
        BY <4>1 DEF Dated, UbiBars
      <4> QED
        BY <1>1, <1>3, <4>1, <4>2
    <3> QED
      BY <3>3, <3>4
  <2>2. CASE Len(u) >= 2
    <3>1. Len(p) >= 1 /\ Len(p) \in Nat /\ p[1] = u[1] /\ p # <<>>
      <4>1. Len(p) >= 1 /\ Len(p) \in Nat /\ 1 \in 1 .. Len(u) - 1
        BY <1>4, <2>2
      <4>2. p # <<>>
        BY ONLY <4>1
      <4> QED
        BY <1>4, <4>1, <4>2
    <3>2. s[1] = u[1]
      <4>1. Added(p, g)[N][1] = p[1]
        BY <1>4, <1>5, <3>1, AddedFirst DEF N
      <4> QED
        BY <1>6, <3>1, <4>1
    <3>3. Len(s) >= 2
      <4> DEFINE v == AddBar(p, g[1])
      <4>1. Added(p, g)[1] = v
        <5>1. /\ Added(p, g)[0] = p /\ \A n \in 1 .. N : Added(p, g)[n] = AddBar(Added(p, g)[n - 1], g[n])
          BY <1>4, AddedSteps DEF N
        <5>2. Added(p, g)[1] = AddBar(Added(p, g)[1 - 1], g[1]) /\ 1 - 1 = 0
          BY <1>5, <5>1
        <5> QED
          BY <5>1, <5>2
      <4>2. Len(v) <= Len(s)
        <5>1. 1 \in 0 .. Len(g) /\ N \in 1 .. Len(g)
          BY <1>5 DEF N
        <5>2. Len(Added(p, g)[1]) <= Len(Added(p, g)[N])
          BY <1>4, <5>1, AddedLengths
        <5> QED
          BY <1>6, <4>1, <5>2
      <4>3. Len(v) >= 2 /\ Len(v) \in Nat /\ Len(s) \in Nat
        <5>1. Sound(p) /\ g[1] \in RawBars /\ Newest(p[Len(p)]) < g[1].dt
          <6>1. g # <<>> /\ g[1] \in RawBars
            BY <1>4, <1>5 DEF N
          <6> QED
            BY <1>4, <3>1, <6>1 DEF Fits
        <5>2. /\ Len(v) \in Nat
              /\ Absorbs(p, g[1]) => Len(v) = Len(p) /\ Len(p) >= 2
              /\ ~Absorbs(p, g[1]) => Len(v) = Len(p) + 1
          BY <5>1, AddBarCases
        <5>3. s \in Seq(UbiBars)
          BY <1>6 DEF Good, Sound
        <5>4. Len(s) \in Nat
          BY ONLY <5>3
        <5>5. (Len(v) = Len(p) /\ Len(p) >= 2) \/ Len(v) = Len(p) + 1
          BY <5>2
        <5>6. Len(p) >= 1 /\ Len(p) \in Nat
          BY <3>1
        <5>7. Len(v) >= 2
          BY ONLY <5>5, <5>6
        <5> QED
          BY <5>2, <5>4, <5>7
      <4> HIDE DEF v
      <4> QED
        BY <4>2, <4>3
    <3>4. ~(Len(s) = 1)
      <4>1. s \in Seq(UbiBars)
        BY <1>6 DEF Good, Sound
      <4> QED
        BY ONLY <3>3, <4>1
    <3> QED
      BY <1>3, <3>2, <3>4
  <2>3. Len(u) = 1 \/ Len(u) >= 2
    <3>1. Len(u) \in Nat /\ Len(u) >= 1
      BY <1>4
    <3> QED
      BY ONLY <3>1, Sizes
  <2> QED
    BY <2>1, <2>2, <2>3
<1>9. bi_list # <<>> =>
        Joins(x, s) /\ Stretched(x, s) /\ (Turns(x, s) \/ Carries(x, s)) /\ (m = 0 => Fixed(x, s))
  <2> SUFFICES ASSUME bi_list # <<>>
               PROVE Joins(x, s) /\ Stretched(x, s) /\ (Turns(x, s) \/ Carries(x, s))
    OBVIOUS
  <2> HIDE DEF x, u
  <2>1. Finished(x)
    <3>1. bi_list \in Seq(BiSet) /\ \A i \in 1 .. Len(bi_list) : Finished(bi_list[i])
      BY <1>3 DEF Strokes
    <3>2. Len(bi_list) \in 1 .. Len(bi_list)
      BY <3>1
    <3> QED
      BY <3>1, <3>2 DEF x
  <2>2. Joins(x, u) /\ Turns(x, u) /\ Stretched(x, u)
    BY <1>3 DEF Follows
  <2>3. g = Retold(u, b) /\ s = Added(Front(u), g)[Len(g)] /\ b.dt = Newest(u[Len(u)])
    BY <1>2 DEF u
  <2> QED
    BY <1>3, <2>1, <2>2, <2>3, JoinRetold
<1>10. Strokes(bi_list, f, m)
  <2>1. \A i \in 1 .. Len(bi_list) - 1 : Follows(bi_list[i], bi_list[i + 1].bars, m)
    <3>1. \A w, t : Follows(w, t, revisions) => Follows(w, t, m)
      BY DEF Follows
    <3> QED
      BY <1>3, <3>1 DEF Strokes
  <2> QED
    BY <1>3, <2>1 DEF Strokes
<1> QED
  BY <1>3, <1>6, <1>7, <1>8, <1>9, <1>10 DEF Merges

LEMMA InitInv == CzscInit => EngInv
<1> SUFFICES ASSUME CzscInit PROVE EngInv
  OBVIOUS
<1>1. /\ bars_raw = [first |-> 1, last |-> 0] /\ bars_ubi = <<>> /\ bi_list = <<>>
      /\ ahead \in Histories /\ revisions = 0
  BY DEF CzscInit
<1>2. ahead \in Seq([hi : Int, lo : Int])
  BY <1>1, CzscAssumption
<1>3. bars_raw \in [first : Nat, last : Nat] /\ bars_raw.first = 1 /\ bars_raw.last = 0
  BY <1>1
<1>4. ~(bars_raw.last > 0)
  BY <1>3
<1> QED
  BY <1>1, <1>2, <1>3, <1>4 DEF EngInv

(* The analysis and the limits of the raw bars. *)
LEMMA AnalysisStep ==
    ASSUME EngInv, NEW dt \in Nat, dt > 0, NEW n \in Nat, NEW s, Merges(s, bars_raw.first, n, dt),
           UpdateBi(s), Drain(dt), revisions' = n, ahead' \in Seq([hi : Int, lo : Int])
    PROVE  EngInv'
<1> DEFINE f == bars_raw.first
           g == IF bi_list' = <<>> THEN f ELSE Higher(f, bi_list'[1].a.from)
           bis == bi_list'
           r == bars_ubi'
<1>1. f \in Nat
  BY DEF EngInv
<1>2. /\ Strokes(bi_list, f, n) /\ Good(s) /\ s # <<>> /\ f <= s[1].dt
      /\ bi_list # <<>> =>
           /\ Joins(bi_list[Len(bi_list)], s) /\ Stretched(bi_list[Len(bi_list)], s)
           /\ Turns(bi_list[Len(bi_list)], s) \/ Carries(bi_list[Len(bi_list)], s)
           /\ n = 0 => Fixed(bi_list[Len(bi_list)], s)
      /\ Newest(s[Len(s)]) = dt
      /\ Len(s) = 1 => Len(s[1].elements) = 1
  BY DEF Merges
<1>3. Stands(bis, r, f, n) /\ r[Len(r)] = s[Len(s)] /\ (Len(r) = 1 => r = s)
  <2> HIDE DEF f
  <2> QED
    BY <1>1, <1>2, UpdateBiStep DEF bis, r
<1>4. bars_raw' = [first |-> g, last |-> dt]
  BY DEF Drain
<1> HIDE DEF r, bis, f
<1>5. g \in Nat /\ Stands(bis, r, g, n)
  <2>1. CASE bis = <<>>
    BY <1>1, <1>3, <2>1 DEF bis
  <2>2. CASE bis # <<>>
    <3> DEFINE h == Higher(f, bis[1].a.from)
    <3>1. g = h
      BY <2>2 DEF bis
    <3>2. h = Higher(f, bis[1].a.from)
      OBVIOUS
    <3> HIDE DEF h, g
    <3>3. h \in Nat /\ Stands(bis, r, h, n)
      BY <1>1, <1>3, <2>2, <3>2, Drained
    <3> QED
      BY <3>1, <3>3
  <2> QED
    BY <2>1, <2>2
<1> HIDE DEF g
<1>6. bars_raw' \in [first : Nat, last : Nat] /\ bars_raw'.first = g /\ bars_raw'.last = dt
  BY <1>4, <1>5
<1>7. Newest(r[Len(r)]) = dt /\ (Len(r) = 1 => Len(r[1].elements) = 1)
  BY <1>2, <1>3
<1>8. ~(bars_raw'.last = 0)
  BY <1>6
<1>9. Stands(bi_list', bars_ubi', bars_raw'.first, revisions')
  BY <1>5, <1>6 DEF bis, r
<1> QED
  BY <1>6, <1>7, <1>8, <1>9 DEF EngInv, r

(* update_bar with a new dt.                                                  *)
LEMMA ExtendStep ==
    ASSUME EngInv, NEW b \in [hi : Int, lo : Int], Extend(b),
           revisions' = revisions, ahead' \in Seq([hi : Int, lo : Int])
    PROVE  EngInv'
<1> DEFINE dt == bars_raw.last + 1
           k == Raw(dt, b)
           s == AddBar(bars_ubi, k)
<1>1. bars_raw.last \in Nat /\ revisions \in Nat /\ dt \in Nat /\ dt > 0
  <2>1. bars_raw.last \in Nat /\ revisions \in Nat
    BY DEF EngInv
  <2> QED
    BY <2>1
<1>2. UpdateBi(s) /\ Drain(dt)
  BY DEF Extend
<1> HIDE DEF dt
<1>3. k \in RawBars /\ k.dt = dt
  BY <1>1 DEF Raw, RawBars
<1> HIDE DEF k
<1>4. dt = bars_raw.last + 1 /\ s = AddBar(bars_ubi, k)
  BY DEF dt
<1> HIDE DEF s
<1>5. Merges(s, bars_raw.first, revisions, dt)
  BY <1>3, <1>4, ExtendMerges
<1> QED
  BY <1>1, <1>2, <1>5, AnalysisStep

(* update_bar with the last dt again.                                         *)
LEMMA ReplaceStep ==
    ASSUME EngInv, bars_raw.last > 0, NEW b \in [hi : Int, lo : Int], Replace(b),
           revisions' = revisions + 1, ahead' \in Seq([hi : Int, lo : Int])
    PROVE  EngInv'
<1> DEFINE dt == bars_raw.last
           k == Raw(dt, b)
           g == Retold(bars_ubi, k)
           s == Added(Front(bars_ubi), g)[Len(g)]
           m == revisions + 1
<1>1. dt \in Nat /\ dt > 0 /\ m \in Nat /\ m # 0
  <2>1. bars_raw.last \in Nat /\ revisions \in Nat
    BY DEF EngInv
  <2> QED
    BY <2>1
<1>2. UpdateBi(s) /\ Drain(dt)
  <2> DEFINE again == Append(Front(Last(bars_ubi).elements), k)
  <2>1. UpdateBi(Added(Front(bars_ubi), again)[Len(again)]) /\ Drain(dt)
    BY DEF Replace
  <2>2. again = g
    BY DEF Retold, Last
  <2> QED
    BY <2>1, <2>2
<1>3. k \in RawBars /\ k.dt = dt
  BY <1>1 DEF Raw, RawBars
<1> HIDE DEF k, m
<1>4. g = Retold(bars_ubi, k) /\ s = Added(Front(bars_ubi), g)[Len(g)]
  OBVIOUS
<1> HIDE DEF g, s
<1>5. Merges(s, bars_raw.first, m, bars_raw.last)
  BY <1>1, <1>3, <1>4, ReplaceMerges
<1>6. revisions' = m
  BY DEF m
<1> QED
  BY <1>1, <1>2, <1>5, <1>6, AnalysisStep

(* Every operation of an analysis keeps the invariant.                        *)
LEMMA CzscStep == EngInv /\ [CzscNext]_czscVars => EngInv'
<1> SUFFICES ASSUME EngInv, [CzscNext]_czscVars PROVE EngInv'
  OBVIOUS
<1>1. ahead \in Seq([hi : Int, lo : Int])
  BY DEF EngInv
<1>2. ASSUME StoredBar PROVE EngInv'
  <2>1. ahead # <<>> /\ ahead' = Tail(ahead) /\ Extend(Head(ahead)) /\ revisions' = revisions
    BY <1>2 DEF StoredBar
  <2>2. Head(ahead) \in [hi : Int, lo : Int] /\ ahead' \in Seq([hi : Int, lo : Int])
    BY <1>1, <2>1, HeadTail
  <2> QED
    BY <2>1, <2>2, ExtendStep
<1>3. ASSUME NewBar PROVE EngInv'
  <2>1. PICK b \in Shapes : Extend(b)
    BY <1>3 DEF NewBar
  <2>2. revisions' = revisions /\ ahead' = ahead
    BY <1>3 DEF NewBar
  <2>3. b \in [hi : Int, lo : Int] /\ ahead' \in Seq([hi : Int, lo : Int])
    BY <1>1, <2>2, CzscAssumption
  <2> QED
    BY <2>1, <2>2, <2>3, ExtendStep
<1>4. ASSUME SameBar PROVE EngInv'
  <2>1. PICK b \in Shapes : Replace(b)
    BY <1>4 DEF SameBar
  <2>2. bars_raw.last > 0 /\ revisions' = revisions + 1 /\ ahead' = ahead
    BY <1>4 DEF SameBar
  <2>3. b \in [hi : Int, lo : Int] /\ ahead' \in Seq([hi : Int, lo : Int])
    BY <1>1, <2>2, CzscAssumption
  <2> QED
    BY <2>1, <2>2, <2>3, ReplaceStep
<1>5. ASSUME UNCHANGED czscVars PROVE EngInv'
  <2>1. /\ bars_raw' = bars_raw /\ bars_ubi' = bars_ubi /\ bi_list' = bi_list
        /\ ahead' = ahead /\ revisions' = revisions
    BY <1>5 DEF czscVars
  <2> QED
    BY <2>1 DEF EngInv
<1> QED
  BY <1>2, <1>3, <1>4, <1>5 DEF CzscNext

(* The analysis of any bars, with any bounds: between two calls of update_bar *)
(* the finished strokes hang together and bars_ubi goes on where the last of  *)
(* them ends (EngInv), although strokes are taken back, replaced and dropped  *)
(* in between.                                                                *)
THEOREM CzscInductive == CzscSpec => []EngInv
  BY InitInv, CzscStep, PTL DEF CzscSpec

-----------------------------------------------------------------------------
(* What the invariant says of bars_ubi.                                       *)
LEMMA UbiGood == EngInv => UbiWellFormed
<1> SUFFICES ASSUME EngInv, bars_raw.last > 0
             PROVE  LET s == bars_ubi IN
                    /\ Last(Last(s).elements).dt = bars_raw.last /\ bars_raw.first <= s[1].dt
                    /\ \A i \in 1 .. Len(s) - 1 : s[i].dt < s[i + 1].dt
                    /\ \A i \in 2 .. Len(s) - 1 : Includes(s[i], s[i + 1]) => s[i].hi = s[i - 1].hi
  BY DEF UbiWellFormed
<1> DEFINE s == bars_ubi
           N == Len(s)
<1>1. Stands(bi_list, s, bars_raw.first, revisions) /\ Newest(s[Len(s)]) = bars_raw.last
  BY DEF EngInv
<1>2. Good(s) /\ bars_raw.first <= s[1].dt
  BY <1>1 DEF Stands
<1>3. Last(Last(s).elements).dt = bars_raw.last
  BY <1>1 DEF Newest, Last
<1> HIDE DEF s
<1>4. N \in Nat /\ \A i, j \in 1 .. N : i < j => s[i].dt < s[j].dt
  BY <1>2, DatesRise DEF Good
<1> HIDE DEF N
<1>5. \A i \in 1 .. N - 1 : s[i].dt < s[i + 1].dt
  <2> TAKE i \in 1 .. N - 1
  <2> DEFINE j == i + 1
  <2>1. i \in 1 .. N /\ j \in 1 .. N /\ i < j
    BY <1>4
  <2> HIDE DEF j
  <2> s[i].dt < s[j].dt
    BY <1>4, <2>1
  <2> QED
    BY DEF j
<1>6. \A i \in 2 .. N - 1 : Includes(s[i], s[i + 1]) => s[i].hi = s[i - 1].hi
  <2> TAKE i \in 2 .. N - 1
  <2> DEFINE h == i - 1
             j == i + 1
  <2>1. h \in 1 .. N - 2 /\ h + 1 = i /\ h + 2 = j
    BY <1>4
  <2> HIDE DEF h, j
  <2>2. Triple(s[h], s[h + 1], s[h + 2])
    BY <1>2, <2>1 DEF Good, N
  <2>3. Triple(s[h], s[i], s[j])
    BY <2>1, <2>2
  <2>4. Includes(s[i], s[j]) => s[i].hi = s[h].hi
    BY <2>3 DEF Triple
  <2> QED
    BY <2>4 DEF h, j
<1> QED
  BY <1>2, <1>3, <1>5, <1>6 DEF s, N

(* What the invariant says of bi_list.                                        *)
LEMMA ListStrokes ==
    ASSUME EngInv
    PROVE  /\ \A i \in 1 .. Len(bi_list) : Finished(bi_list[i])
           /\ \A i \in 1 .. Len(bi_list) - 1 : Follows(bi_list[i], bi_list[i + 1].bars, revisions)
           /\ Len(bi_list) \in Nat
<1>1. bars_raw.last \in Nat
  BY DEF EngInv
<1>2. CASE bars_raw.last = 0
  <2>1. bi_list = <<>>
    BY <1>2 DEF EngInv
  <2>2. Len(bi_list) = 0
    BY <2>1
  <2> QED
    BY <2>2
<1>3. CASE bars_raw.last > 0
  <2>1. Strokes(bi_list, bars_raw.first, revisions)
    BY <1>3 DEF EngInv, Stands
  <2>2. Len(bi_list) \in Nat
    <3>1. bi_list \in Seq(BiSet)
      BY <2>1 DEF Strokes
    <3> QED
      BY ONLY <3>1
  <2> QED
    BY <2>1, <2>2 DEF Strokes
<1>4. bars_raw.last = 0 \/ bars_raw.last > 0
  BY <1>1
<1> QED
  BY <1>2, <1>3, <1>4

(* No bar between the ends of a stroke goes past its end.                     *)
LEMMA EndReached ==
    ASSUME NEW x, Finished(x), NEW n \in 1 .. Len(x.bars), NEW k, k = x.bars[n],
           x.a.dt <= k.dt, k.dt <= x.b.dt
    PROVE  IF x.up THEN k.hi <= x.b.hi ELSE k.lo >= x.b.lo
<1> DEFINE t == x.bars
           L == Len(t)
           e == L - 1
<1>1. /\ x.up \in BOOLEAN /\ x.b \in Fxs /\ t \in Seq(UbiBars) /\ Good(t) /\ L \in Nat /\ L >= 4
  BY EndBars
<1>2. /\ \A i \in 1 .. L : t[i].dt \in Nat /\ t[i].hi \in Int /\ t[i].lo \in Int
      /\ \A i, j \in 1 .. L : i < j => t[i].dt < t[j].dt
  BY <1>1, DatesRise DEF Good
<1>3. x.a.dt = t[2].dt /\ x.b.dt = t[e].dt
  BY DEF Finished, Fractal
<1>4. \A i \in 2 .. e : Extreme(t[i], x.up) <= Extreme(x.b, x.up)
  BY DEF Finished
<1>5. n \in 1 .. L /\ k = t[n]
  OBVIOUS
<1> HIDE DEF t, L
<1>6. 2 \in 1 .. L /\ e \in 1 .. L /\ n \in Nat /\ e \in Nat
  BY <1>1, <1>5
<1> HIDE DEF e
<1>7. ~(n < 2) /\ ~(e < n)
  <2>1. n < 2 => k.dt < x.a.dt
    BY <1>2, <1>3, <1>5, <1>6
  <2>2. e < n => x.b.dt < k.dt
    BY <1>2, <1>3, <1>5, <1>6
  <2>3. k.dt \in Nat /\ x.a.dt \in Nat /\ x.b.dt \in Nat
    BY <1>2, <1>3, <1>5, <1>6
  <2> QED
    BY <2>1, <2>2, <2>3
<1>8. n \in 2 .. e
  BY <1>6, <1>7
<1>9. Extreme(k, x.up) <= Extreme(x.b, x.up)
  BY <1>4, <1>5, <1>8
<1>10. k.hi \in Int /\ k.lo \in Int /\ x.b.hi \in Int /\ x.b.lo \in Int
  BY <1>1, <1>2, <1>5 DEF Fxs
<1>11. ASSUME x.up = TRUE PROVE k.hi <= x.b.hi
  BY <1>9, <1>11 DEF Extreme
<1>12. ASSUME x.up = FALSE PROVE k.lo >= x.b.lo
  <2>1. -k.lo <= -x.b.lo
    BY <1>9, <1>12 DEF Extreme
  <2> QED
    BY <1>10, <2>1
<1> QED
  BY <1>1, <1>11, <1>12

LEMMA EndsReached == EngInv => StrokesEnd
<1> SUFFICES ASSUME EngInv, NEW i \in 1 .. Len(bi_list), NEW n \in 1 .. Len(bi_list[i].bars)
             PROVE  LET x == bi_list[i]  k == x.bars[n] IN
                    x.a.dt <= k.dt /\ k.dt <= x.b.dt =>
                        IF x.up THEN k.hi <= x.b.hi ELSE k.lo >= x.b.lo
  BY DEF StrokesEnd
<1> DEFINE x == bi_list[i]
           k == x.bars[n]
<1>1. Finished(x)
  BY ListStrokes
<1>2. n \in 1 .. Len(x.bars) /\ k = x.bars[n]
  OBVIOUS
<1> HIDE DEF x, k
<1>3. x.a.dt <= k.dt /\ k.dt <= x.b.dt => IF x.up THEN k.hi <= x.b.hi ELSE k.lo >= x.b.lo
  BY <1>1, <1>2, EndReached
<1> QED
  BY <1>3 DEF x, k

(* A stroke that follows another goes the other way, and begins with the      *)
(* fractal the other ends with.                                               *)
LEMMA InTurn ==
    ASSUME NEW x, Finished(x), NEW y, Finished(y), NEW n, Follows(x, y.bars, n)
    PROVE  x.up # y.up /\ (n = 0 => [x.b EXCEPT !.to = y.a.to] = y.a)
<1> DEFINE t == x.bars
           s == y.bars
           L == Len(t)
           e == L - 1
           k == s[2]
           j == s[1]
<1>1. /\ x.up \in BOOLEAN /\ L \in Nat /\ L >= 4 /\ EndBar(x) = t[e]
  BY EndBars
<1>2. /\ y.up \in BOOLEAN /\ k \in UbiBars /\ j \in UbiBars /\ Past(k, j, ~y.up)
  BY EndBars
<1>3. Past(k, j, x.up) /\ j = t[L - 2] /\ (n = 0 => k = EndBar(x))
  BY DEF Follows, Joins, Fixed
<1>4. x.b = Fractal(t, e) /\ y.a = Fractal(s, 2)
  BY DEF Finished
<1> HIDE DEF t, s, L
<1>5. x.up # y.up
  <2>1. k.hi \in Int /\ j.hi \in Int /\ k.lo \in Int /\ j.lo \in Int
    BY <1>2 DEF UbiBars
  <2> HIDE DEF k, j
  <2>2. Above(k, j) => ~Above(j, k)
    BY <2>1 DEF Above
  <2> QED
    BY <1>1, <1>2, <1>3, <2>2 DEF Past
<1>6. ASSUME n = 0 PROVE [x.b EXCEPT !.to = y.a.to] = y.a
  <2>1. e - 1 = L - 2 /\ 2 - 1 = 1
    BY <1>1
  <2>2. t[e] = k /\ t[e - 1] = j
    BY <1>1, <1>3, <1>6, <2>1
  <2>3. x.b = [top |-> Above(k, j), dt |-> k.dt, hi |-> k.hi, lo |-> k.lo, from |-> j.dt, to |-> t[e + 1].dt]
    BY <1>4, <2>2 DEF Fractal
  <2>4. y.a = [top |-> Above(k, j), dt |-> k.dt, hi |-> k.hi, lo |-> k.lo, from |-> j.dt, to |-> s[2 + 1].dt]
    BY <1>4, <2>1 DEF Fractal
  <2> HIDE DEF k, j, e
  <2> QED
    BY <2>3, <2>4
<1> QED
  BY <1>5, <1>6

LEMMA ChainStands == EngInv => StrokesChain
<1> SUFFICES ASSUME EngInv, NEW i \in 1 .. Len(bi_list) - 1
             PROVE  LET x == bi_list[i]  y == bi_list[i + 1] IN
                    x.up # y.up /\ (revisions = 0 => [x.b EXCEPT !.to = y.a.to] = y.a)
  BY DEF StrokesChain
<1> DEFINE j == i + 1
           x == bi_list[i]
           y == bi_list[j]
<1>1. Len(bi_list) \in Nat /\ Follows(x, y.bars, revisions)
  BY ListStrokes
<1>2. i \in 1 .. Len(bi_list) /\ j \in 1 .. Len(bi_list)
  BY <1>1
<1> HIDE DEF j
<1>3. Finished(x) /\ Finished(y)
  BY <1>2, ListStrokes
<1> HIDE DEF x, y
<1>4. x.up # y.up /\ (revisions = 0 => [x.b EXCEPT !.to = y.a.to] = y.a)
  BY <1>1, <1>3, InTurn
<1> QED
  BY <1>4 DEF x, y, j

(* update_bar leaves bars_ubi as its next call needs it, for all bars: ending *)
(* with the newest raw bar, within bars_raw, its dts rising and its bars      *)
(* without inclusion where there is a direction.                              *)
THEOREM BarsWellFormed == CzscSpec => []UbiWellFormed
  BY CzscInductive, UbiGood, PTL

(* The strokes of bi_list go up and down in turn, for all bars, and as long   *)
(* as update_bar only appends each begins where the one before it ends.       *)
THEOREM StrokesInTurn == CzscSpec => []StrokesChain
  BY CzscInductive, ChainStands, PTL

(* Every stroke of bi_list ends at the extreme of the bars between its ends,  *)
(* for all bars.                                                              *)
THEOREM StrokesAtExtremes == CzscSpec => []StrokesEnd
  BY CzscInductive, EndsReached, PTL

-----------------------------------------------------------------------------
(* Where a task is: past Analyse there is something newer than last_ts, and   *)
(* before its last INSERT the table has room for one more.                    *)
TaskPlace ==
    /\ pc # "rest" => last_ts < newest
    /\ pc = "insert" => table.parts < Parts
    /\ initialized => incremental
    /\ ~initialized => last_ts = 0
    /\ pc # "rest" /\ incremental => initialized

(* How far the CZSC has been fed, unless a failed connection has lost count:  *)
(* to the newest bar of the task, and between tasks to last_ts or to the one  *)
(* bar that is fed again.                                                     *)
FedTo ==
    /\ FedOnce
    /\ ~lost /\ (pc # "rest" \/ initialized) =>
        /\ Len(engine) >= 1
        /\ pc # "rest" => engine[Len(engine)].dt = newest
        /\ pc = "rest" => engine[Len(engine)].dt \in {last_ts, last_ts + 1}

LoopInv == LoopTypeOK /\ TaskPlace /\ FedTo

(* The place of a number in a set of numbers, from the smallest on.           *)
Rank(B, b) == Cardinality({c \in B : c <= b})

LEMMA Ranks ==
    ASSUME NEW B, IsFiniteSet(B), \A b \in B : b \in Nat
    PROVE  /\ Cardinality(B) \in Nat
           /\ \A b \in B : Rank(B, b) \in 1 .. Cardinality(B)
           /\ \A b, c \in B : b < c => Rank(B, b) < Rank(B, c)
           /\ \A n \in 1 .. Cardinality(B) : \E b \in B : Rank(B, b) = n
<1>1. \A b \in B : b \in Nat
  OBVIOUS
<1>2. IsFiniteSet(B) /\ Cardinality(B) \in Nat
  BY FS_CardinalityType
<1> DEFINE Below(b) == {c \in B : c <= b}
<1>3. ASSUME NEW b \in B PROVE IsFiniteSet(Below(b)) /\ Rank(B, b) \in 1 .. Cardinality(B)
  <2>1. IsFiniteSet(Below(b)) /\ Cardinality(Below(b)) <= Cardinality(B)
    BY <1>2, FS_Subset
  <2>2. b \in Below(b)
    OBVIOUS
  <2>3. Cardinality(Below(b)) \in Nat /\ Cardinality(Below(b)) # 0
    BY <2>1, <2>2, FS_CardinalityType, FS_EmptySet
  <2> QED
    BY <1>2, <2>1, <2>3 DEF Rank
<1>4. ASSUME NEW b \in B, NEW c \in B, b < c PROVE Rank(B, b) < Rank(B, c)
  <2>1. Below(b) \subseteq Below(c) /\ c \in Below(c) /\ c \notin Below(b)
    <3>1. b \in Nat /\ c \in Nat /\ c <= c /\ ~(c <= b)
      BY <1>1, <1>4
    <3>2. \A x \in B : x <= b => x <= c
      BY <1>1, <1>4
    <3> QED
      BY <3>1, <3>2, Zenon
  <2> HIDE DEF Below
  <2>2. Cardinality(Below(b)) <= Cardinality(Below(c)) /\ Cardinality(Below(b)) # Cardinality(Below(c))
    BY <1>3, <2>1, FS_Subset
  <2>3. Rank(B, b) = Cardinality(Below(b)) /\ Rank(B, c) = Cardinality(Below(c))
    BY DEF Rank, Below
  <2> QED
    BY <1>2, <1>3, <2>2, <2>3
<1>5. \A n \in 1 .. Cardinality(B) : \E b \in B : Rank(B, b) = n
  <2> DEFINE f == [b \in B |-> Rank(B, b)]
  <2>1. f \in Injection(B, 1 .. Cardinality(B))
    <3>1. f \in [B -> 1 .. Cardinality(B)]
      BY <1>3
    <3>2. ASSUME NEW b \in B, NEW c \in B, f[b] = f[c] PROVE b = c
      <4> HIDE DEF Below
      <4>1. Rank(B, b) \in Nat /\ Rank(B, b) = Rank(B, c)
        BY <1>2, <1>3, <3>2
      <4>2. ~(b < c) /\ ~(c < b)
        BY <1>4, <4>1
      <4> QED
        BY <1>1, <4>2
    <3> QED
      BY <3>1, <3>2 DEF Injection, IsInjective
  <2>2. IsFiniteSet(1 .. Cardinality(B)) /\ Cardinality(1 .. Cardinality(B)) = Cardinality(B)
    BY <1>2, FS_Interval
  <2>3. f \in Surjection(B, 1 .. Cardinality(B))
    BY <2>1, <2>2, FS_Injection
  <2> QED
    BY <2>3 DEF Surjection
<1> QED
  BY <1>2, <1>3, <1>4, <1>5

(* The entries that a filter leaves of a sequence stand in the order of their *)
(* indices, none of them twice and none missing.                              *)
Places(B) == [n \in 1 .. Cardinality(B) |-> CHOOSE b \in B : Rank(B, b) = n]

LEMMA PlacesInOrder ==
    ASSUME NEW B, IsFiniteSet(B), \A b \in B : b \in Nat
    PROVE  /\ Places(B) \in [1 .. Cardinality(B) -> B]
           /\ \A i, j \in 1 .. Cardinality(B) : i < j => Places(B)[i] < Places(B)[j]
           /\ \A b \in B : \E n \in 1 .. Cardinality(B) : Places(B)[n] = b
<1>1. /\ Cardinality(B) \in Nat /\ \A b \in B : b \in Nat
      /\ \A b \in B : Rank(B, b) \in 1 .. Cardinality(B)
      /\ \A b, c \in B : b < c => Rank(B, b) < Rank(B, c)
      /\ \A n \in 1 .. Cardinality(B) : \E b \in B : Rank(B, b) = n
  BY Ranks
<1>2. PICK place :
        /\ place = Places(B) /\ place \in [1 .. Cardinality(B) -> B]
        /\ \A n \in 1 .. Cardinality(B) : Rank(B, place[n]) = n
  <2>1. ASSUME NEW n \in 1 .. Cardinality(B)
        PROVE  Places(B)[n] \in B /\ Rank(B, Places(B)[n]) = n
    <3>1. \E b \in B : Rank(B, b) = n
      BY <1>1
    <3> QED
      BY <3>1 DEF Places
  <2>2. Places(B) \in [1 .. Cardinality(B) -> B]
    BY <2>1 DEF Places
  <2> QED
    BY <2>1, <2>2
<1>3. ASSUME NEW i \in 1 .. Cardinality(B), NEW j \in 1 .. Cardinality(B), i < j
      PROVE  place[i] < place[j]
  <2>1. place[i] \in B /\ place[j] \in B /\ Rank(B, place[i]) < Rank(B, place[j])
    BY <1>2, <1>3
  <2>2. Rank(B, place[i]) \in Nat /\ Rank(B, place[j]) \in Nat
    BY <1>1, <2>1
  <2>3. place[i] # place[j] /\ ~(place[j] < place[i])
    BY <1>1, <2>1, <2>2
  <2> QED
    BY <1>1, <2>1, <2>3
<1>4. ASSUME NEW b \in B PROVE \E n \in 1 .. Cardinality(B) : place[n] = b
  <2>1. Rank(B, b) \in 1 .. Cardinality(B) /\ Rank(B, b) \in Nat
    BY <1>1
  <2>2. place[Rank(B, b)] \in B /\ Rank(B, place[Rank(B, b)]) = Rank(B, b)
    BY <1>2, <2>1
  <2>3. ~(place[Rank(B, b)] < b) /\ ~(b < place[Rank(B, b)])
    BY <1>1, <2>1, <2>2
  <2>4. place[Rank(B, b)] = b
    BY <1>1, <2>2, <2>3
  <2> QED
    BY <2>1, <2>4
<1> QED
  BY <1>2, <1>3, <1>4

(* What a round reads of the bars of B: each once, in order, m the last.      *)
LEMMA SeenBars ==
    ASSUME LoopTypeOK, NEW B, B \subseteq 1 .. bars, NEW m \in B, \A b \in B : b <= m
    PROVE  /\ Seen(B) \in Seq(Bar) /\ Len(Seen(B)) \in Nat /\ Len(Seen(B)) >= 1
           /\ Ascending(Seen(B))
           /\ \A i \in 1 .. Len(Seen(B)) : Seen(B)[i].dt \in B
           /\ \A b \in B : Fetched(Seen(B), b)
           /\ Seen(B)[Len(Seen(B))].dt = m
<1> USE LoopAssumption DEF LoopTypeOK
<1> DEFINE s == [i \in 1 .. bars |-> [dt |-> i, final |-> i < bars \/ ~forming]]
           k == Cardinality(B)
<1>1. IsFiniteSet(B) /\ \A b \in B : b \in Nat /\ b \in 1 .. bars /\ b \in 1 .. MaxBars
  <2>1. bars \in Nat /\ MaxBars \in Nat /\ bars <= MaxBars
    OBVIOUS
  <2> HIDE DEF LoopTypeOK
  <2>2. IsFiniteSet(B)
    <3>1. IsFiniteSet(1 .. bars) /\ B \subseteq 1 .. bars
      BY <2>1, FS_Interval
    <3> QED
      BY <3>1, FS_Subset, Zenon
  <2>3. ASSUME NEW b \in B PROVE b \in Nat /\ b \in 1 .. bars /\ b \in 1 .. MaxBars
    BY <2>1
  <2> QED
    BY <2>2, <2>3
<1>2. PICK place \in [1 .. k -> B] :
        /\ place = Places(B)
        /\ \A i, j \in 1 .. k : i < j => place[i] < place[j]
        /\ \A b \in B : \E n \in 1 .. k : place[n] = b
  <2> HIDE DEF s, LoopTypeOK
  <2> QED
    BY <1>1, PlacesInOrder
<1>3. k \in Nat /\ k >= 1
  <2>1. k \in Nat
    BY <1>1, FS_CardinalityType
  <2>2. \E n \in 1 .. k : place[n] = m
    BY <1>2
  <2> QED
    BY <2>1, <2>2
<1>4. ASSUME NEW b \in B PROVE s[b] \in Bar /\ s[b].dt = b
  <2>1. (b < bars \/ ~forming) \in BOOLEAN /\ b \in 1 .. bars /\ b \in 1 .. MaxBars
    BY <1>1
  <2>2. s[b] = [dt |-> b, final |-> b < bars \/ ~forming]
    BY <2>1
  <2> QED
    BY <2>1, <2>2 DEF Bar
<1>5. Seen(B) = [n \in 1 .. k |-> s[place[n]]]
  <2>1. At(s, B) = [n \in 1 .. k |-> s[Places(B)[n]]]
    <3> HIDE DEF s
    <3> QED
      BY DEF At, Places, Rank
  <2> QED
    BY <1>2, <2>1 DEF Seen
<1> HIDE DEF s, k
<1>6. Seen(B) \in Seq(Bar) /\ Len(Seen(B)) = k
  <2>1. \A n \in 1 .. k : s[place[n]] \in Bar
    BY <1>4
  <2> QED
    BY <1>3, <1>5, <2>1
<1>7. \A n \in 1 .. k : Seen(B)[n].dt = place[n]
  BY <1>4, <1>5
<1>8. Ascending(Seen(B)) /\ \A b \in B : Fetched(Seen(B), b)
  <2> HIDE DEF LoopTypeOK
  <2>1. \A i, j \in 1 .. k : i < j => Seen(B)[i].dt < Seen(B)[j].dt
    BY <1>2, <1>7
  <2>2. \A b \in B : \E n \in 1 .. k : Seen(B)[n].dt = b
    BY <1>2, <1>7
  <2> QED
    BY <1>6, <2>1, <2>2 DEF Ascending, Fetched
<1>9. Seen(B)[k].dt = m
  <2>1. PICK n \in 1 .. k : place[n] = m
    BY <1>2
  <2>2. k \in 1 .. k /\ place[k] \in B
    BY <1>3
  <2> HIDE DEF LoopTypeOK
  <2>3. place[k] <= m /\ m \in Nat /\ place[k] \in Nat
    BY <1>1, <2>2
  <2>6. n \in Nat /\ n <= k
    BY <1>3
  <2>4. ~(n < k)
    BY <1>2, <2>1, <2>2, <2>3
  <2>5. n = k
    BY <1>3, <2>4, <2>6
  <2> QED
    BY <1>7, <2>1, <2>2, <2>5
<1> QED
  BY <1>3, <1>6, <1>7, <1>8, <1>9

(* A later round's bars continue the engine's, the doubled one replaced.      *)
LEMMA FedBars ==
    ASSUME LoopTypeOK, NEW new \in Seq(Bar), Len(new) >= 1, Ascending(new), new[1].dt > last_ts
    PROVE  /\ Fed(new) \in Seq(Bar) /\ Len(Fed(new)) >= 1
           /\ Fed(new)[Len(Fed(new))] = new[Len(new)]
           /\ Ascending(engine) /\ Len(engine) >= 1
                /\ engine[Len(engine)].dt \in {last_ts, last_ts + 1} =>
              /\ Ascending(Fed(new))
              /\ \A b : Fetched(engine, b) \/ Fetched(new, b) => Fetched(Fed(new), b)
<1> USE LoopAssumption DEF LoopTypeOK
<1> DEFINE l == Len(engine)
           n == IF engine # <<>> /\ engine[l].dt = new[1].dt THEN l - 1 ELSE l
           old == SubSeq(engine, 1, n)
<1>1. l \in Nat /\ n \in 0 .. l /\ Len(new) \in Nat /\ last_ts \in Nat
  OBVIOUS
<1>2. Fed(new) = old \o new
  BY DEF Fed
<1>3. /\ old \in Seq(Bar) /\ Len(old) = n
      /\ \A i \in 1 .. n : old[i] = engine[i]
  <2> HIDE DEF n
  <2> QED
    BY <1>1
<1> HIDE DEF old
<1>4. /\ old \o new \in Seq(Bar) /\ Len(old \o new) = n + Len(new)
      /\ \A i \in 1 .. n : (old \o new)[i] = engine[i]
      /\ \A i \in 1 .. Len(new) : (old \o new)[n + i] = new[i]
      /\ \A i \in n + 1 .. n + Len(new) : (old \o new)[i] = new[i - n]
  <2> HIDE DEF n
  <2>1. /\ old \o new \in Seq(Bar) /\ Len(old \o new) = Len(old) + Len(new)
        /\ \A i \in 1 .. Len(old) : (old \o new)[i] = old[i]
        /\ \A i \in 1 .. Len(new) : (old \o new)[Len(old) + i] = new[i]
        /\ \A i \in Len(old) + 1 .. Len(old) + Len(new) : (old \o new)[i] = new[i - Len(old)]
    <3> HIDE DEF LoopTypeOK
    <3> QED
      BY <1>3, Joined
  <2> QED
    BY <1>3, <2>1
<1>5. Len(new) \in 1 .. Len(new) /\ (old \o new)[n + Len(new)] = new[Len(new)] /\ n + Len(new) >= 1
  BY <1>1, <1>4
<1>6. ASSUME Ascending(engine), l >= 1, engine[l].dt \in {last_ts, last_ts + 1}
      PROVE  /\ Ascending(Fed(new))
             /\ \A b : Fetched(engine, b) \/ Fetched(new, b) => Fetched(Fed(new), b)
  <2>1. \A i \in 1 .. l : engine[i].dt \in Nat
    <3>1. \A i \in 1 .. l : engine[i] \in Bar
      OBVIOUS
    <3> QED
      BY <3>1 DEF Bar
  <2>2. \A i \in 1 .. Len(new) : new[i].dt \in Nat
    <3>1. \A i \in 1 .. Len(new) : new[i] \in Bar
      OBVIOUS
    <3> QED
      BY <3>1 DEF Bar
  <2>3. engine # <<>> /\ 1 \in 1 .. Len(new) /\ l \in 1 .. l
    BY <1>1, <1>6
  <2>4. ASSUME NEW i \in 1 .. n PROVE engine[i].dt < new[1].dt
    <3>1. CASE engine[l].dt = new[1].dt
      <4>1. n = l - 1 /\ i \in 1 .. l /\ i < l
        BY <1>1, <2>3, <3>1
      <4> QED
        BY <1>6, <2>3, <3>1, <4>1 DEF Ascending
    <3>2. CASE engine[l].dt # new[1].dt
      <4>1. engine[l].dt < new[1].dt
        BY <1>1, <1>6, <2>1, <2>2, <2>3, <3>2
      <4>2. i \in 1 .. l /\ (i = l \/ engine[i].dt < engine[l].dt)
        BY <1>1, <1>6, <2>3 DEF Ascending
      <4> QED
        BY <2>1, <2>2, <2>3, <4>1, <4>2
    <3> QED
      BY <3>1, <3>2
  <2>5. \A i \in 1 .. l : i \notin 1 .. n => engine[i].dt = new[1].dt
    <3>1. \A i \in 1 .. l : i \notin 1 .. n => i = l /\ engine[l].dt = new[1].dt
      BY <1>1
    <3> QED
      BY <3>1
  <2> HIDE DEF n, l, LoopTypeOK
  <2>6. \A i \in 1 .. Len(new) : new[1].dt <= new[i].dt
    BY <2>2, <2>3 DEF Ascending
  <2>7. ASSUME NEW i \in 1 .. n + Len(new), NEW j \in 1 .. n + Len(new), i < j
        PROVE  (old \o new)[i].dt < (old \o new)[j].dt
    <3>1. CASE j \in 1 .. n
      <4>1. i \in 1 .. n /\ i \in 1 .. l /\ j \in 1 .. l
        BY <1>1, <2>7, <3>1
      <4> QED
        BY <1>4, <1>6, <2>7, <3>1, <4>1 DEF Ascending, l
    <3>2. CASE i \in 1 .. n /\ j \notin 1 .. n
      <4>1. j \in n + 1 .. n + Len(new) /\ j - n \in 1 .. Len(new)
        BY <1>1, <3>2
      <4>2. (old \o new)[j] = new[j - n] /\ (old \o new)[i] = engine[i] /\ i \in 1 .. l
        BY <1>1, <1>4, <3>2, <4>1
      <4>3. engine[i].dt < new[1].dt /\ new[1].dt <= new[j - n].dt
        BY <2>4, <2>6, <3>2, <4>1
      <4>4. engine[i].dt \in Nat /\ new[1].dt \in Nat /\ new[j - n].dt \in Nat
        BY <2>1, <2>2, <2>3, <4>1, <4>2
      <4>5. engine[i].dt < new[j - n].dt
        BY <4>3, <4>4
      <4> QED
        BY <4>2, <4>5, Zenon
    <3>3. CASE i \notin 1 .. n
      <4>1. /\ i \in n + 1 .. n + Len(new) /\ i - n \in 1 .. Len(new)
            /\ j \in n + 1 .. n + Len(new) /\ j - n \in 1 .. Len(new) /\ i - n < j - n
        BY <1>1, <2>7, <3>3
      <4>2. (old \o new)[i] = new[i - n] /\ (old \o new)[j] = new[j - n]
        BY <1>4, <4>1
      <4>3. new[i - n].dt < new[j - n].dt
        BY <4>1 DEF Ascending
      <4> QED
        BY <4>2, <4>3, Zenon
    <3> QED
      BY <3>1, <3>2, <3>3
  <2>8. ASSUME NEW b, NEW i \in 1 .. l, engine[i].dt = b PROVE Fetched(old \o new, b)
    <3>1. CASE i \in 1 .. n
      <4>1. i \in 1 .. n + Len(new) /\ (old \o new)[i].dt = b
        BY <1>1, <1>4, <2>8, <3>1
      <4> QED
        BY <1>4, <4>1 DEF Fetched
    <3>2. CASE i \notin 1 .. n
      <4>1. new[1].dt = b
        BY <2>5, <2>8, <3>2
      <4>2. n + 1 \in 1 .. n + Len(new)
        BY <1>1, <2>3
      <4>3. (old \o new)[n + 1] = new[1]
        BY <1>4, <2>3
      <4>4. (old \o new)[n + 1].dt = b
        BY <4>1, <4>3, Zenon
      <4> QED
        BY <1>4, <4>2, <4>4 DEF Fetched
    <3> QED
      BY <3>1, <3>2
  <2>9. ASSUME NEW b, NEW i \in 1 .. Len(new), new[i].dt = b PROVE Fetched(old \o new, b)
    <3>1. n + i \in 1 .. n + Len(new) /\ (old \o new)[n + i].dt = b
      BY <1>1, <1>4, <2>9
    <3> QED
      BY <1>4, <3>1 DEF Fetched
  <2> QED
    BY <1>2, <1>4, <2>7, <2>8, <2>9 DEF Ascending, Fetched, l
<1> QED
  BY <1>2, <1>4, <1>5, <1>6

LEMMA LoopInitInv == LoopInit => LoopInv
<1> SUFFICES ASSUME LoopInit PROVE LoopInv
  OBVIOUS
<1> USE LoopAssumption DEF LoopInit
<1>1. engine \in Seq(Bar) /\ Len(engine) = 0
  OBVIOUS
<1>2. table \in [of : Seq(Bar), parts : 0 .. Parts]
  BY <1>1 DEF NoTable
<1> QED
  <2>1. LoopTypeOK
    <3>1. 0 \in 0 .. MaxBars
      OBVIOUS
    <3> QED
      BY <1>1, <1>2, <3>1 DEF LoopTypeOK
  <2> QED
    BY <1>1, <2>1 DEF LoopInv, TaskPlace, FedTo, FedOnce, Ascending

(* The first step of a task. *)
LEMMA AnalyseStep ==
    ASSUME LoopInv, NEW m \in 1 .. bars, NEW B \in SUBSET (1 .. m), Analyse(m, B) PROVE LoopInv'
<1> USE LoopAssumption DEF LoopInv, LoopTypeOK, TaskPlace
<1>1. m \in B /\ B \in SUBSET (1 .. bars) /\ (\A b \in B : b <= m) /\ m \in 1 .. MaxBars
  BY DEF Analyse
<1>2. /\ UNCHANGED <<bars, forming, incremental, writes, table, lost>> /\ failed' = FALSE
      /\ pc = "rest" /\ initialized' = incremental /\ newest' = m
      /\ \/ writes /\ pc' = "connect" /\ last_ts' = last_ts
         \/ pc' = "rest" /\ last_ts' = IF incremental THEN m ELSE 0
  BY DEF Analyse, Continue, Keep, source, options
<1>3. /\ engine' \in Seq(Bar) /\ Len(engine') >= 1 /\ engine'[Len(engine')].dt = m
      /\ m > last_ts /\ unread' \subseteq 1 .. MaxBars
      /\ ~lost => /\ Ascending(engine')
                  /\ \A b \in 1 .. m : Fetched(engine', b) \/ b \in unread'
  <2>1. CASE /\ incremental /\ initialized /\ m > last_ts
             /\ engine' = Fed(Seen({b \in B : b > last_ts}))
             /\ unread' = unread \cup ((last_ts + 1 .. m) \ B)
    <3> DEFINE C == {b \in B : b > last_ts}
               new == Seen(C)
    <3>1. m \in C /\ C \in SUBSET (1 .. bars) /\ \A b \in C : b <= m
      BY <1>1, <2>1
    <3>2. \A b \in C : b > last_ts
      OBVIOUS
    <3>3. \A b \in 1 .. m : b > last_ts /\ b \notin unread' => b \in C
      BY <1>1, <2>1
    <3> HIDE DEF C
    <3>4. /\ new \in Seq(Bar) /\ Len(new) \in Nat /\ Len(new) >= 1 /\ Ascending(new)
          /\ \A i \in 1 .. Len(new) : new[i].dt \in C
          /\ \A b \in C : Fetched(new, b)
          /\ new[Len(new)].dt = m
      BY <3>1, SeenBars
    <3>5. new[1].dt > last_ts
      <4>1. 1 \in 1 .. Len(new)
        BY <3>4
      <4> QED
        BY <3>2, <3>4, <4>1
    <3> HIDE DEF new
    <3>6. engine' = Fed(new)
      BY <2>1 DEF new, C
    <3>7. /\ Fed(new) \in Seq(Bar) /\ Len(Fed(new)) >= 1
          /\ Fed(new)[Len(Fed(new))] = new[Len(new)]
          /\ Ascending(engine) /\ Len(engine) >= 1
               /\ engine[Len(engine)].dt \in {last_ts, last_ts + 1} =>
             /\ Ascending(Fed(new))
             /\ \A b : Fetched(engine, b) \/ Fetched(new, b) => Fetched(Fed(new), b)
      BY <3>4, <3>5, FedBars
    <3>8. ASSUME ~lost
          PROVE  Ascending(engine') /\ \A b \in 1 .. m : Fetched(engine', b) \/ b \in unread'
      <4>1. /\ Ascending(engine) /\ Len(engine) >= 1
            /\ engine[Len(engine)].dt \in {last_ts, last_ts + 1}
        BY <1>2, <2>1, <3>8 DEF FedTo, FedOnce
      <4>2. ASSUME NEW b \in 1 .. m PROVE Fetched(engine', b) \/ b \in unread'
        <5>1. CASE b > last_ts
          BY <3>3, <3>4, <3>6, <3>7, <4>1, <5>1
        <5>2. CASE ~(b > last_ts)
          <6>1. Len(engine) \in 1 .. Len(engine) /\ b \in 1 .. engine[Len(engine)].dt
            BY <4>1, <5>2
          <6>2. Fetched(engine, b) \/ b \in unread
            BY <3>8, <6>1 DEF FedTo, FedOnce
          <6> QED
            BY <2>1, <3>6, <3>7, <4>1, <6>2
        <5> QED
          BY <5>1, <5>2
      <4> QED
        BY <3>6, <3>7, <4>1, <4>2
    <3>9. unread' \subseteq 1 .. MaxBars
      BY <1>1, <2>1
    <3> QED
      BY <2>1, <3>4, <3>6, <3>7, <3>8, <3>9
  <2>2. CASE ~(incremental /\ initialized) /\ engine' = Seen(B) /\ unread' = (1 .. m) \ B
    <3>1. /\ engine' \in Seq(Bar) /\ Len(engine') >= 1 /\ engine'[Len(engine')].dt = m
          /\ Ascending(engine') /\ \A b \in B : Fetched(engine', b)
      BY <1>1, <2>2, SeenBars
    <3>2. m > last_ts /\ unread' \subseteq 1 .. MaxBars
      BY <1>1, <2>2
    <3> QED
      BY <2>2, <3>1, <3>2
  <2> QED
    BY <2>1, <2>2 DEF Analyse
<1>4. LoopTypeOK'
  <2>1. m \in 0 .. MaxBars /\ 0 \in 0 .. MaxBars
    BY <1>1
  <2>2. last_ts' \in 0 .. MaxBars /\ pc' \in {"rest", "connect", "drop", "insert"}
    BY <1>2, <2>1
  <2>3. engine' \in Seq(Bar) /\ unread' \subseteq 1 .. MaxBars
    BY <1>3
  <2> QED
    BY <1>2, <2>1, <2>2, <2>3
<1>5. TaskPlace'
  BY <1>1, <1>2, <1>3
<1>6. FedOnce'
  <2> SUFFICES ASSUME ~lost, NEW i \in 1 .. Len(engine'), NEW b \in 1 .. engine'[i].dt
               PROVE  Fetched(engine', b) \/ b \in unread'
    BY <1>2, <1>3 DEF FedOnce
  <2>1. Len(engine') \in Nat /\ engine'[i].dt \in Nat
    <3>1. Len(engine') \in Nat /\ engine'[i] \in Bar
      BY <1>3
    <3> QED
      BY <3>1 DEF Bar
  <2>2. i = Len(engine') \/ engine'[i].dt < engine'[Len(engine')].dt
    BY <1>3, <2>1 DEF Ascending
  <2>3. b \in 1 .. m
    BY <1>1, <1>3, <2>1, <2>2
  <2> QED
    BY <1>3, <2>3
<1>7. FedTo'
  BY <1>1, <1>2, <1>3, <1>6 DEF FedTo
<1> QED
  BY <1>4, <1>5, <1>7

(* Every step of the rounds keeps the invariant.                              *)
LEMMA LoopStep == LoopInv /\ [LoopNext]_loopVars => LoopInv'
<1> SUFFICES ASSUME LoopInv, [LoopNext]_loopVars PROVE LoopInv'
  OBVIOUS
<1> USE LoopAssumption DEF LoopInv, LoopTypeOK, TaskPlace, FedTo, FedOnce, Ascending, Fetched,
        source, options, stateVars, history, Keep
<1>1. CASE BarBegins
  BY <1>1 DEF BarBegins
<1>2. CASE BarEnds
  BY <1>2 DEF BarEnds
<1>3. CASE Round
  BY <1>3, AnalyseStep DEF Round
<1>4. CASE Connect
  BY <1>4 DEF Connect
<1>5. CASE ConnectFails
  BY <1>5 DEF ConnectFails
<1>6. CASE Drop
  <2>1. table' \in [of : Seq(Bar), parts : 0 .. Parts] /\ table'.parts = 0
    BY <1>6 DEF Drop, NoTable
  <2> QED
    BY <1>6, <2>1 DEF Drop
<1>7. CASE Insert
  <2>1. table'.parts = table.parts + 1 /\ table' \in [of : Seq(Bar), parts : 0 .. Parts]
    BY <1>7 DEF Insert
  <2> QED
    BY <1>7, <2>1 DEF Insert
<1>8. CASE StatementFails
  BY <1>8 DEF StatementFails
<1>9. CASE Restart
  <2>1. engine' \in Seq(Bar) /\ Len(engine') = 0 /\ 0 \in 0 .. MaxBars
    BY <1>9 DEF Restart
  <2>2. LoopTypeOK'
    BY <1>9, <2>1 DEF Restart
  <2> QED
    BY <1>9, <2>1, <2>2 DEF Restart
<1>10. CASE UNCHANGED loopVars
  BY <1>10 DEF loopVars
<1> QED
  BY <1>1, <1>2, <1>3, <1>4, <1>5, <1>6, <1>7, <1>8, <1>9, <1>10 DEF LoopNext, Task, Fails

(* Types of the rounds of `tdx czsc', for any number of bars and of INSERTs:  *)
(* RewriteSignals never writes more parts than there are.                     *)
THEOREM LoopType == LoopSpec => []LoopTypeOK
<1>1. LoopInv => LoopTypeOK
  BY DEF LoopInv
<1> QED
  BY <1>1, LoopInitInv, LoopStep, PTL DEF LoopSpec

(* The incremental analysis was fed bars once and in order, and every bar of  *)
(* the read that came to it or past it, whichever rounds read less, failed or *)
(* were cut short, unless a connection failed with more fed than the bar next *)
(* to last_ts.                                                                *)
THEOREM LoopFedOnce == LoopSpec => []FedOnce
<1>1. LoopInv => FedOnce
  BY DEF LoopInv, FedTo, FedOnce
<1> QED
  BY <1>1, LoopInitInv, LoopStep, PTL DEF LoopSpec
=============================================================================
