------------------------------ MODULE CzscEngine ------------------------------
(* The chan analysis of one symbol (src/src/czsc/analyze): update_bar merges  *)
(* a raw bar into bars_ubi, the bars no stroke is made of yet, finds at most  *)
(* one stroke there, and takes the last stroke back when a new extreme breaks *)
(* it.  A raw bar is its high and low at a dt; what the signals read besides  *)
(* (volume, open, close, the raw bars of finished strokes) is left out.       *)

EXTENDS Integers, Sequences, FiniteSets, SequencesExt, Filters

CONSTANTS
    Histories,    \* bound: the bars an analysis is built from, sequences of shapes
    Shapes,       \* bound: the highs and lows of later bars, records of hi and lo
    MaxMore,      \* bound: later bars
    MaxRevisions, \* bound: updates of a bar that is there already
    MinBiLen,     \* min_bi_len: 6
    MaxBiNum      \* max_bi_num: 50

ASSUME CzscAssumption ==
    /\ MaxMore \in Nat /\ MaxRevisions \in Nat
    /\ MinBiLen \in Nat \ {0} /\ MaxBiNum \in Nat \ {0}
    /\ Shapes \subseteq [hi : Int, lo : Int] /\ Histories \subseteq Seq([hi : Int, lo : Int])

VARIABLES
    bars_raw,  \* its first and its last dt
    bars_ubi,  \* bars without inclusion: dt, hi, lo, the raw bars merged
    bi_list,   \* the strokes
    ahead,     \* bars of the history still to come
    more,      \* later bars so far
    revisions  \* updates of a bar so far

czscVars == <<bars_raw, bars_ubi, bi_list, ahead, more, revisions>>

Raw(dt, b) == [dt |-> dt, hi |-> b.hi, lo |-> b.lo]
FromRaw(b) == [dt |-> b.dt, hi |-> b.hi, lo |-> b.lo, elements |-> <<b>>]
Last2(s) == s[Len(s) - 1]

-----------------------------------------------------------------------------
(* remove_include: the third bar goes into the second when one includes the   *)
(* other; the first and the second say in which direction the market moves.   *)
Includes(k, b) ==
    \/ k.hi <= b.hi /\ k.lo >= b.lo
    \/ k.hi >= b.hi /\ k.lo <= b.lo
Higher(x, y) == IF x > y THEN x ELSE y
Lower(x, y) == IF x < y THEN x ELSE y
Merged(k1, k2, b) ==
    LET up == k1.hi < k2.hi
        older == IF up THEN k2.hi > b.hi ELSE k2.lo < b.lo
    IN  [dt |-> IF older THEN k2.dt ELSE b.dt,
         hi |-> IF up THEN Higher(k2.hi, b.hi) ELSE Lower(k2.hi, b.hi),
         lo |-> IF up THEN Higher(k2.lo, b.lo) ELSE Lower(k2.lo, b.lo),
         elements |-> Append(At(k2.elements, {i \in 1 .. Len(k2.elements) : k2.elements[i].dt # b.dt}), b)]

(* Mutant of AddBar: inclusion is looked for from the fourth bar on. *)
AddBarFourth(s, b) ==
    IF Len(s) >= 3 /\ Last2(s).hi # Last(s).hi /\ Includes(Last(s), b)
    THEN Append(Front(s), Merged(Last2(s), Last(s), b))
    ELSE Append(s, FromRaw(b))

AddBar(s, b) ==
    IF Len(s) >= 2 /\ Last2(s).hi # Last(s).hi /\ Includes(Last(s), b)
    THEN Append(Front(s), Merged(Last2(s), Last(s), b))
    ELSE Append(s, FromRaw(b))

(* The bars raw added to s one after the other: the first n of them.          *)
Added(s, raw) ==
    LET t[n \in 0 .. Len(raw)] == IF n = 0 THEN s ELSE AddBar(t[n - 1], raw[n])
    IN  t

(* check_fx, check_fxs: tops and bottoms; from the third on one with the mark *)
(* of its predecessor is left out.                                            *)
Above(k, j) == k.hi > j.hi /\ k.lo > j.lo
FractalAt(s, i) ==
    \/ Above(s[i], s[i - 1]) /\ Above(s[i], s[i + 1])
    \/ Above(s[i - 1], s[i]) /\ Above(s[i + 1], s[i])
Fractal(s, i) ==
    [top |-> Above(s[i], s[i - 1]), dt |-> s[i].dt, hi |-> s[i].hi, lo |-> s[i].lo,
     from |-> s[i - 1].dt, to |-> s[i + 1].dt]
AddFractal(fxs, s, i) ==
    IF ~FractalAt(s, i) \/ (Len(fxs) >= 2 /\ Last(fxs).top = Fractal(s, i).top)
    THEN fxs ELSE Append(fxs, Fractal(s, i))
FractalsIn(s) ==
    LET fxs[n \in 0 .. Len(s)] == IF n < 3 THEN <<>> ELSE AddFractal(fxs[n - 1], s, n - 1)
    IN  fxs
Fractals(s) == FractalsIn(s)[Len(s)]

(* check_bi: a stroke from the first fractal to the most extreme opposite one *)
(* after it, the first of equals, when it is long enough; none is the empty   *)
(* sequence.                                                                  *)
Beyond(f, g) == IF f.top THEN f.hi > g.hi ELSE f.lo < g.lo
Opposite(fxs) ==
    {j \in 1 .. Len(fxs) :
        /\ fxs[j].top # fxs[1].top /\ fxs[j].dt > fxs[1].dt
        /\ IF fxs[j].top THEN fxs[j].hi > fxs[1].lo ELSE fxs[j].lo < fxs[1].hi}

(* Mutant of End: the last opposite fractal. *)
EndLast(fxs) == CHOOSE e \in Opposite(fxs) : \A i \in Opposite(fxs) : i <= e

End(fxs) ==
    CHOOSE e \in Opposite(fxs) : \A i \in Opposite(fxs) \ {e} :
        Beyond(fxs[e], fxs[i]) \/ (~Beyond(fxs[i], fxs[e]) /\ e < i)
Inside(f, g) == f.hi < g.hi /\ f.lo > g.lo
Stroke(s) ==
    LET fxs == Fractals(s)
        a == fxs[1]
        b == fxs[End(fxs)]
        bars == At(s, {i \in 1 .. Len(s) : a.from <= s[i].dt /\ s[i].dt <= b.to})
    IN  IF Len(fxs) < 2 \/ Opposite(fxs) = {} THEN <<>>
        ELSE IF Inside(a, b) \/ Inside(b, a) \/ Len(bars) < MinBiLen THEN <<>>
        ELSE <<[up |-> ~a.top, a |-> a, b |-> b, bars |-> bars]>>

From(s, dt) == At(s, {i \in 1 .. Len(s) : s[i].dt >= dt})

RestAfter(s, found) == IF found = <<>> THEN s ELSE From(s, found[1].b.from)

(* find_first_bi_: what precedes the most extreme fractal that has the mark   *)
(* of the first, the last of equals, is dropped.                              *)
FirstStart(s) ==
    LET fxs == Fractals(s)
        same == {i \in 1 .. Len(fxs) : fxs[i].top = fxs[1].top}
        j == CHOOSE e \in same : \A i \in same \ {e} :
                 Beyond(fxs[e], fxs[i]) \/ (~Beyond(fxs[i], fxs[e]) /\ e > i)
    IN  IF fxs = <<>> THEN s ELSE From(s, fxs[j].from)

(* last_bi_is_broken_, handle_bi_break_ *)
Hi(bi) == Higher(bi.a.hi, bi.b.hi)
Lo(bi) == Lower(bi.a.lo, bi.b.lo)

Broken(s, bi) ==
    \E i \in 1 .. Len(s) : IF bi.up THEN s[i].hi > Hi(bi) ELSE s[i].lo < Lo(bi)
TakenBack(s, bi) ==
    SubSeq(bi.bars, 1, Len(bi.bars) - 2) \o From(s, Last2(bi.bars).dt)

(* update_bi_ and the limit of strokes.  The first stroke is not tested.      *)
Limited(bis) ==
    IF Len(bis) > MaxBiNum THEN SubSeq(bis, Len(bis) - MaxBiNum + 1, Len(bis)) ELSE bis

(* Mutant of Start: every stroke starts at the most extreme fractal. *)
StartAnew(s) == FirstStart(s)

Start(s) == IF bi_list = <<>> THEN FirstStart(s) ELSE s

(* From the merged bars s: at most one stroke is found, and the last one,     *)
(* that one or an earlier, taken back when the bars left over break it.  The  *)
(* first stroke is not tested.                                                *)
UpdateBi(s) ==
    \/ Len(s) < 3 /\ bars_ubi' = s /\ UNCHANGED bi_list
    \/ /\ Len(s) >= 3
       /\ \E start \in {Start(s)} : \E found \in {Stroke(start)} :
            LET rest == RestAfter(start, found)
                all == bi_list \o found
                broken == bi_list # <<>> /\ Broken(rest, Last(all))
            IN  \/ ~broken /\ bars_ubi' = rest /\ bi_list' = Limited(all)
                \/ broken /\ bars_ubi' = TakenBack(rest, Last(all)) /\ bi_list' = Limited(Front(all))

(* The raw bars before the first stroke go. *)
Drain(last) ==
    bars_raw' = [first |-> IF bi_list' = <<>> THEN bars_raw.first
                           ELSE Higher(bars_raw.first, bi_list'[1].a.from),
                 last |-> last]

(* update_bar with a bar of a new dt. *)
Extend(b) ==
    LET dt == bars_raw.last + 1 IN
    /\ \E s \in {AddBar(bars_ubi, Raw(dt, b))} : UpdateBi(s)
    /\ Drain(dt)

(* update_bar with the last dt again: the last merged bar is taken apart and  *)
(* built again.                                                               *)
Replace(b) ==
    LET again == Append(Front(Last(bars_ubi).elements), Raw(bars_raw.last, b)) IN
    /\ \E s \in {Added(Front(bars_ubi), again)[Len(again)]} : UpdateBi(s)
    /\ Drain(bars_raw.last)

-----------------------------------------------------------------------------
(* CZSC::CZSC appends the bars of the database, one after the other. *)
CzscInit ==
    /\ bars_raw = [first |-> 1, last |-> 0] /\ bars_ubi = <<>> /\ bi_list = <<>>
    /\ ahead \in Histories
    /\ more = 0 /\ revisions = 0

StoredBar ==
    /\ ahead # <<>> /\ ahead' = Tail(ahead)
    /\ Extend(Head(ahead))
    /\ UNCHANGED <<more, revisions>>

NewBar ==
    /\ ahead = <<>> /\ more < MaxMore /\ more' = more + 1
    /\ \E b \in Shapes : Extend(b)
    /\ UNCHANGED <<ahead, revisions>>

SameBar ==
    /\ ahead = <<>> /\ bars_raw.last > 0 /\ revisions < MaxRevisions /\ revisions' = revisions + 1
    /\ \E b \in Shapes : Replace(b)
    /\ UNCHANGED <<ahead, more>>

CzscNext == StoredBar \/ NewBar \/ SameBar
CzscSpec == CzscInit /\ [][CzscNext]_czscVars

-----------------------------------------------------------------------------
(* The bars no stroke is made of yet end with the newest raw bar, which the   *)
(* next update of that bar relies on (the assert of update_bar), reach no     *)
(* further back than bars_raw, and are without inclusion (czsc.hpp,           *)
(* bars_ubi): apart from the first pair, which nothing tests, and from bars   *)
(* after two equal highs, which give no direction.                            *)
UbiWellFormed ==
    LET s == bars_ubi IN bars_raw.last > 0 =>
    /\ Last(Last(s).elements).dt = bars_raw.last /\ bars_raw.first <= s[1].dt
    /\ \A i \in 1 .. Len(s) - 1 : s[i].dt < s[i + 1].dt
    /\ \A i \in 2 .. Len(s) - 1 : Includes(s[i], s[i + 1]) => s[i].hi = s[i - 1].hi

(* Strokes follow each other: up and down in turn, and, as long as bars are   *)
(* only appended, each from the turning point where the one before it ends,   *)
(* whatever strokes were taken back in between.  A bar that changes after its *)
(* first update may move the turning point under a finished stroke.           *)
StrokesChain ==
    \A i \in 1 .. Len(bi_list) - 1 :
        LET x == bi_list[i]  y == bi_list[i + 1] IN
        /\ x.up # y.up
        /\ revisions = 0 => [x.b EXCEPT !.to = y.a.to] = y.a

(* A stroke ends at the extreme of what lies between its ends, which a stroke *)
(* of a lower top or a higher bottom would miss.  Nothing like it holds of its*)
(* start: when a stroke is taken back, the one before it is not tested, and   *)
(* bars beyond its end then lie inside the stroke that follows it.            *)
StrokesEnd ==
    \A i \in 1 .. Len(bi_list) : \A n \in 1 .. Len(bi_list[i].bars) :
        LET x == bi_list[i]  k == x.bars[n] IN
        x.a.dt <= k.dt /\ k.dt <= x.b.dt =>
            IF x.up THEN k.hi <= x.b.hi ELSE k.lo >= x.b.lo
=============================================================================
