------------------------ MODULE SnapshotSegmentProofs ------------------------
(* Proofs for SnapshotSegment, for any number of processes, readers, slots,   *)
(* words, Creates and crashes, where the odd store of a Put is visible before *)
(* its payload.  They build on the writer's and the reader's half of the      *)
(* table's invariant: a crash takes away the first, and the second lasts      *)
(* until a memset begins.                                                     *)
EXTENDS SnapshotSegment, SnapshotTableProofs

AllWords == Fields \cup {SeqWord}
WordEmpty(s, f) == IF f = SeqWord THEN seq[s] = 0 ELSE mem[s][f] = EmptySlot[f]

(* Where a Create is: it has a generation left to store until it has stored   *)
(* it, and the memset has emptied what is behind it.                          *)
Ages == \A p \in Writers : stage[p] \in {"magic", "generation"} => generation < MaxCreates
Memset ==
    \A p \in Writers : stage[p] = "clear" =>
        /\ \A s \in Slots, f \in AllWords : s < clearing => WordEmpty(s, f)
        /\ \A f \in AllWords \ uncleared : WordEmpty(clearing, f)
        /\ clearing # 0 \/ uncleared # AllWords => ~whole

(* Only a process whose Create has returned is inside a Put, and it finds the *)
(* table sound.                                                               *)
PutsAfterCreate == wslot # -1 => \E p \in Writers : stage[p] = "run"
Running == \A p \in Writers : stage[p] = "run" => whole /\ WriterInv

(* Unless a memset is under way or was cut short, a reader can trust what is  *)
(* under even numbers, and a Get that neither happened to its copy.           *)
Trusted == ProbePaths /\ EvenPublished /\ CodesKept
Reading == \A r \in Readers : ~disturbed[r] => whole /\ CopyOf(r) /\ PlaceOf(r)

Owned == SegTypeOK /\ OneWriter /\ Ages
SegInv ==
    Owned /\ WriterPlace /\ Memset /\ PutsAfterCreate /\ Running /\ (whole => Trusted) /\ Reading

LEMMA SegStart == SegInit => SegInv
<1> SUFFICES ASSUME SegInit PROVE SegInv
  OBVIOUS
<1>1. Inv
  BY InitInv DEF SegInit
<1>2. Owned
  <2>1. TypeOK /\ 0 \in Slots /\ 0 \in 0 .. MaxCreates
    BY <1>1, SizesAssumption, SegmentAssumption DEF Inv, WriterInv, Slots
  <2>2. SegTypeOK
    BY <2>1 DEF SegInit, SegTypeOK
  <2> QED
    BY <2>2 DEF Owned, OneWriter, Ages, SegInit
<1>3. Trusted
  BY <1>1, EvenIsPublished DEF Inv, WriterInv, Trusted
<1>4. whole /\ wslot = -1 /\ \A p \in Writers : stage[p] = "out"
  BY DEF SegInit, Init
<1>5. WriterPlace /\ Reading
  BY <1>1, <1>4 DEF Inv, WriterInv, Reading
<1>6. Memset /\ PutsAfterCreate /\ Running
  BY <1>4 DEF Memset, PutsAfterCreate, Running
<1> QED
  BY <1>2, <1>3, <1>5, <1>6 DEF SegInv

-----------------------------------------------------------------------------
(* Steps that leave the table and its users alone. *)
LEMMA TableStill ==
    ASSUME UNCHANGED vars
    PROVE  /\ TypeOK => TypeOK'
           /\ WriterPlace => WriterPlace'
           /\ WriterInv => WriterInv'
           /\ Trusted => Trusted'
           /\ \A r \in Readers : (CopyOf(r) => CopyOf(r)') /\ (PlaceOf(r) => PlaceOf(r)')
           /\ \A s \in Slots, f \in AllWords : WordEmpty(s, f)' <=> WordEmpty(s, f)
<1>1. UNCHANGED <<seq, mem, wslot, wcode, wval, ws0, wleft, puts, published,
                  rpc, rkey, rprobe, rretry, rs1, rbuf, rout>>
  BY DEF vars, writerVars, readerVars
<1>2. TypeOK => TypeOK'
  BY <1>1 DEF TypeOK
<1>3. ProbePaths => ProbePaths'
  BY <1>1 DEF ProbePaths, OnPath
<1>4. SlotsPublished => SlotsPublished'
  BY <1>1 DEF SlotsPublished, Writing
<1>5. WriterPlace => WriterPlace'
  BY <1>1 DEF WriterPlace, OnPath
<1>6. EvenOutsidePut => EvenOutsidePut'
  BY <1>1 DEF EvenOutsidePut
<1>7. EvenPublished /\ CodesKept => EvenPublished' /\ CodesKept'
  BY <1>1 DEF EvenPublished, CodesKept
<1>8. ASSUME NEW r \in Readers PROVE (CopyOf(r) => CopyOf(r)') /\ (PlaceOf(r) => PlaceOf(r)')
  <2>1. At(r)' = At(r)
    BY <1>1 DEF At
  <2> QED
    BY <1>1, <2>1 DEF CopyOf, PlaceOf
<1>9. \A s \in Slots, f \in AllWords : WordEmpty(s, f)' <=> WordEmpty(s, f)
  BY <1>1 DEF WordEmpty
<1> QED
  BY <1>2, <1>3, <1>4, <1>5, <1>6, <1>7, <1>8, <1>9 DEF WriterInv, Trusted

LEMMA StillKeeps ==
    ASSUME SegInv, UNCHANGED <<vars, whole, disturbed>>, Owned', Memset',
           \A p \in Writers : stage'[p] = "run" <=> stage[p] = "run"
    PROVE  SegInv'
<1> USE DEF SegInv
<1>1. WriterPlace' /\ (whole => Trusted)'
  BY TableStill
<1>2. Running' /\ Reading'
  BY TableStill DEF Running, Reading
<1>3. PutsAfterCreate'
  BY DEF PutsAfterCreate, vars, writerVars
<1> QED
  BY <1>1, <1>2, <1>3

(* What the steps of a process have in common: it holds the lock, alone.      *)
LEMMA Alone ==
    ASSUME SegInv, NEW p \in Writers, stage[p] # "out"
    PROVE  lock = p /\ \A q \in Writers : q # p => stage[q] = "out"
BY DEF SegInv, Owned, OneWriter

LEMMA AcquireKeeps == ASSUME SegInv, NEW p \in Writers, Acquire(p) PROVE SegInv'
<1>1. /\ lock = NoOne /\ generation < MaxCreates /\ stage' = [stage EXCEPT ![p] = "magic"] /\ lock' = p
      /\ UNCHANGED <<vars, magic, generation, layout, clearing, uncleared, mount, whole, disturbed>>
  BY DEF Acquire, To
<1>2. \A q \in Writers : stage[q] = "out"
  BY <1>1, SegmentAssumption DEF SegInv, Owned, OneWriter
<1>3. stage \in [Writers -> {"out", "magic", "generation", "layout", "clear", "run"}]
  BY DEF SegInv, Owned, SegTypeOK
<1>4. Owned'
  <2>1. SegTypeOK'
    BY <1>1, TableStill DEF SegInv, Owned, SegTypeOK
  <2>2. OneWriter' /\ Ages'
    BY <1>1, <1>2, <1>3 DEF OneWriter, Ages
  <2> QED
    BY <2>1, <2>2 DEF Owned
<1>5. Memset'
  BY <1>1, <1>2, <1>3 DEF Memset
<1> QED
  BY <1>1, <1>2, <1>3, <1>4, <1>5, StillKeeps

LEMMA StampMagicKeeps == ASSUME SegInv, NEW p \in Writers, StampMagic(p) PROVE SegInv'
<1>1. /\ stage[p] = "magic" /\ stage' = [stage EXCEPT ![p] = "generation"] /\ magic' = TRUE
      /\ (generation' = generation \/ generation' = 0)
      /\ UNCHANGED <<vars, lock, layout, clearing, uncleared, mount, whole, disturbed>>
  BY DEF StampMagic, To
<1>2. lock = p /\ \A q \in Writers : q # p => stage[q] = "out"
  BY <1>1, Alone
<1>3. stage \in [Writers -> {"out", "magic", "generation", "layout", "clear", "run"}]
  BY DEF SegInv, Owned, SegTypeOK
<1>4. Owned'
  <2>1. generation < MaxCreates /\ generation \in 0 .. MaxCreates /\ MaxCreates \in Nat
    BY <1>1, SegmentAssumption DEF SegInv, Owned, Ages, SegTypeOK
  <2>2. generation' \in 0 .. MaxCreates /\ generation' < MaxCreates
    BY <1>1, <2>1
  <2>3. SegTypeOK'
    BY <1>1, <2>2, TableStill DEF SegInv, Owned, SegTypeOK
  <2>4. OneWriter' /\ Ages'
    BY <1>1, <1>2, <1>3, <2>2 DEF OneWriter, Ages
  <2> QED
    BY <2>3, <2>4 DEF Owned
<1>5. Memset'
  BY <1>1, <1>2, <1>3 DEF Memset
<1> QED
  BY <1>1, <1>2, <1>3, <1>4, <1>5, StillKeeps

LEMMA StoreGenerationKeeps == ASSUME SegInv, NEW p \in Writers, StoreGeneration(p) PROVE SegInv'
<1>1. /\ stage[p] = "generation" /\ stage' = [stage EXCEPT ![p] = "layout"] /\ generation' = generation + 1
      /\ UNCHANGED <<vars, lock, magic, layout, clearing, uncleared, mount, whole, disturbed>>
  BY DEF StoreGeneration, To
<1>2. lock = p /\ \A q \in Writers : q # p => stage[q] = "out"
  BY <1>1, Alone
<1>3. stage \in [Writers -> {"out", "magic", "generation", "layout", "clear", "run"}]
  BY DEF SegInv, Owned, SegTypeOK
<1>4. Owned'
  <2>1. generation < MaxCreates /\ generation \in 0 .. MaxCreates /\ MaxCreates \in Nat
    BY <1>1, SegmentAssumption DEF SegInv, Owned, Ages, SegTypeOK
  <2>2. generation' \in 0 .. MaxCreates
    BY <1>1, <2>1
  <2>3. SegTypeOK'
    BY <1>1, <2>2, TableStill DEF SegInv, Owned, SegTypeOK
  <2>4. OneWriter' /\ Ages'
    BY <1>1, <1>2, <1>3 DEF OneWriter, Ages
  <2> QED
    BY <2>3, <2>4 DEF Owned
<1>5. Memset'
  BY <1>1, <1>2, <1>3 DEF Memset
<1> QED
  BY <1>1, <1>2, <1>3, <1>4, <1>5, StillKeeps

LEMMA StoreLayoutKeeps == ASSUME SegInv, NEW p \in Writers, StoreLayout(p) PROVE SegInv'
<1>1. /\ stage[p] = "layout" /\ stage' = [stage EXCEPT ![p] = "clear"] /\ layout' = TRUE
      /\ clearing' = 0 /\ uncleared' = AllWords
      /\ UNCHANGED <<vars, lock, magic, generation, mount, whole, disturbed>>
  BY DEF StoreLayout, To, AllWords
<1>2. lock = p /\ \A q \in Writers : q # p => stage[q] = "out"
  BY <1>1, Alone
<1>3. stage \in [Writers -> {"out", "magic", "generation", "layout", "clear", "run"}]
  BY DEF SegInv, Owned, SegTypeOK
<1>4. Owned'
  <2>1. 0 \in Slots
    BY SizesAssumption DEF Slots
  <2>2. SegTypeOK'
    BY <1>1, <2>1, TableStill DEF SegInv, Owned, SegTypeOK, AllWords
  <2>3. OneWriter' /\ Ages'
    BY <1>1, <1>2, <1>3 DEF OneWriter, Ages
  <2> QED
    BY <2>2, <2>3 DEF Owned
<1>5. Memset'
  <2>1. \A s \in Slots : ~(s < 0)
    BY DEF Slots
  <2> QED
    BY <1>1, <2>1 DEF Memset
<1> QED
  BY <1>1, <1>2, <1>3, <1>4, <1>5, StillKeeps

LEMMA ClearNextSlotKeeps == ASSUME SegInv, NEW p \in Writers, ClearNextSlot(p) PROVE SegInv'
<1>1. /\ stage[p] = "clear" /\ uncleared = {} /\ clearing + 1 < Count
      /\ clearing' = clearing + 1 /\ uncleared' = AllWords
      /\ UNCHANGED <<vars, lock, stage, magic, generation, layout, mount, whole, disturbed>>
  BY DEF ClearNextSlot, AllWords
<1>2. clearing \in Slots /\ Count \in Nat /\ clearing' \in Slots
  BY <1>1, SizesAssumption DEF SegInv, Owned, SegTypeOK, Slots
<1>3. Owned'
  BY <1>1, <1>2, TableStill DEF SegInv, Owned, SegTypeOK, OneWriter, Ages, AllWords
<1>4. /\ \A s \in Slots, f \in AllWords : s < clearing => WordEmpty(s, f)
      /\ \A f \in AllWords : WordEmpty(clearing, f)
      /\ ~whole
  <2>1. uncleared # AllWords
    BY <1>1 DEF AllWords
  <2> QED
    BY <1>1, <2>1 DEF SegInv, Memset
<1>5. \A s \in Slots : s < clearing + 1 => s < clearing \/ s = clearing
  BY <1>2 DEF Slots
<1>6. \A s \in Slots, f \in AllWords : s < clearing + 1 => WordEmpty(s, f)'
  BY <1>1, <1>2, <1>4, <1>5, TableStill
<1>7. Memset'
  <2>1. SUFFICES /\ \A s \in Slots, f \in AllWords : s < clearing' => WordEmpty(s, f)'
                 /\ \A f \in AllWords \ uncleared' : WordEmpty(clearing, f)'
                 /\ ~whole'
    BY DEF Memset
  <2> QED
    BY <1>1, <1>4, <1>6
<1> QED
  BY <1>1, <1>3, <1>7, StillKeeps

LEMMA ClearWordKeeps ==
    ASSUME SegInv, NEW p \in Writers, NEW f \in AllWords, ClearWord(p, f) PROVE SegInv'
<1>1. /\ stage[p] = "clear" /\ f \in uncleared /\ uncleared' = uncleared \ {f} /\ whole' = FALSE
      /\ disturbed' = [r \in Readers |-> TRUE]
      /\ UNCHANGED <<wslot, wcode, wval, ws0, wleft, puts, published, readerVars,
                     lock, stage, magic, generation, layout, clearing, mount>>
  BY DEF ClearWord, writerVars
<1>2. \/ f = SeqWord /\ seq' = [seq EXCEPT ![clearing] = 0] /\ mem' = mem
      \/ f # SeqWord /\ mem' = [mem EXCEPT ![clearing][f] = EmptySlot[f]] /\ seq' = seq
  BY DEF ClearWord
<1>3. lock = p /\ \A q \in Writers : q # p => stage[q] = "out"
  BY <1>1, Alone
<1>4. clearing \in Slots /\ TypeOK /\ uncleared \subseteq AllWords
  BY DEF SegInv, Owned, SegTypeOK, AllWords
<1>5. wslot = -1
  BY <1>1, <1>3 DEF SegInv, PutsAfterCreate
<1>6. \A s \in Slots, g \in AllWords :
        WordEmpty(s, g)' <=> WordEmpty(s, g) \/ (s = clearing /\ g = f)
  <2>1. CASE f = SeqWord /\ seq' = [seq EXCEPT ![clearing] = 0] /\ mem' = mem
    BY <1>4, <2>1 DEF WordEmpty, TypeOK
  <2>2. CASE f # SeqWord /\ mem' = [mem EXCEPT ![clearing][f] = EmptySlot[f]] /\ seq' = seq
    <3>1. f \in Fields
      BY <2>2 DEF AllWords
    <3>2. \A s \in Slots, g \in Fields :
            mem'[s][g] = IF s = clearing /\ g = f THEN EmptySlot[f] ELSE mem[s][g]
      BY <1>4, <2>2, <3>1 DEF TypeOK
    <3>3. ASSUME NEW s \in Slots, NEW g \in AllWords
          PROVE  WordEmpty(s, g)' <=> WordEmpty(s, g) \/ (s = clearing /\ g = f)
      <4>1. CASE g = SeqWord
        BY <2>2, <4>1 DEF WordEmpty
      <4>2. CASE g # SeqWord
        <5>1. g \in Fields
          BY <4>2 DEF AllWords
        <5> QED
          BY <3>2, <4>2, <5>1 DEF WordEmpty
      <4> QED
        BY <4>1, <4>2
    <3> QED
      BY <3>3
  <2> QED
    BY <1>2, <2>1, <2>2
<1>7. TypeOK'
  <2>1. CASE f = SeqWord /\ seq' = [seq EXCEPT ![clearing] = 0] /\ mem' = mem
    BY <1>1, <1>4, <2>1 DEF TypeOK, readerVars
  <2>2. CASE f # SeqWord /\ mem' = [mem EXCEPT ![clearing][f] = EmptySlot[f]] /\ seq' = seq
    <3>1. f \in Fields /\ EmptySlot[f] = IF f = CodeWord THEN NoCode ELSE NoQuote
      BY <2>2 DEF AllWords, EmptySlot
    <3>2. EmptySlot[f] \in Cells
      BY <3>1 DEF Cells
    <3>3. mem' \in [Slots -> [Fields -> Cells]]
      BY <1>4, <2>2, <3>1, <3>2 DEF TypeOK
    <3>4. /\ \A s \in Slots : mem'[s][CodeWord] \in Codes \cup {NoCode}
          /\ \A s \in Slots, g \in Words : mem'[s][g] \in Quotes \cup {NoQuote}
      BY <1>4, <2>2, <3>1, WordsAssumption DEF TypeOK, Fields
    <3> QED
      BY <1>1, <1>4, <2>2, <3>3, <3>4 DEF TypeOK, readerVars
  <2> QED
    BY <1>2, <2>1, <2>2
<1>8. Owned'
  <2>1. whole' \in BOOLEAN /\ disturbed' \in [Readers -> BOOLEAN]
    BY <1>1
  <2>2. SegTypeOK'
    BY <1>1, <1>7, <2>1 DEF SegInv, Owned, SegTypeOK
  <2>3. OneWriter' /\ Ages'
    BY <1>1 DEF SegInv, Owned, OneWriter, Ages
  <2> QED
    BY <2>2, <2>3 DEF Owned
<1>9. Memset'
  <2>1. /\ \A s \in Slots, g \in AllWords : s < clearing => WordEmpty(s, g)
        /\ \A g \in AllWords \ uncleared : WordEmpty(clearing, g)
    BY <1>1 DEF SegInv, Memset
  <2>2. \A s \in Slots, g \in AllWords : s < clearing => WordEmpty(s, g)'
    BY <1>6, <2>1
  <2>3. \A g \in AllWords \ uncleared' : WordEmpty(clearing, g)'
    BY <1>1, <1>4, <1>6, <2>1
  <2>4. clearing' = clearing /\ ~whole'
    BY <1>1
  <2>5. SUFFICES /\ \A s \in Slots, g \in AllWords : s < clearing' => WordEmpty(s, g)'
                 /\ \A g \in AllWords \ uncleared' : WordEmpty(clearing, g)'
                 /\ ~whole'
    BY DEF Memset
  <2> QED
    BY <2>2, <2>3, <2>4
<1>10. WriterPlace' /\ PutsAfterCreate'
  BY <1>1, <1>5 DEF WriterPlace, PutsAfterCreate
<1>11. Running' /\ (whole => Trusted)' /\ Reading'
  BY <1>1, <1>3 DEF Running, Reading
<1> QED
  BY <1>8, <1>9, <1>10, <1>11 DEF SegInv

LEMMA CreatedKeeps == ASSUME SegInv, NEW p \in Writers, Created(p) PROVE SegInv'
<1>1. /\ stage[p] = "clear" /\ stage' = [stage EXCEPT ![p] = "run"] /\ uncleared = {} /\ clearing + 1 = Count
      /\ published' = [c \in Codes |-> Absent] /\ whole' = TRUE
      /\ UNCHANGED <<seq, mem, wslot, wcode, wval, ws0, wleft, puts, readerVars, lock, magic, generation,
                     layout, clearing, uncleared, mount, disturbed>>
  BY DEF Created, To, writerVars
<1>2. lock = p /\ \A q \in Writers : q # p => stage[q] = "out"
  BY <1>1, Alone
<1>3. stage \in [Writers -> {"out", "magic", "generation", "layout", "clear", "run"}]
  BY DEF SegInv, Owned, SegTypeOK
<1>4. wslot = -1 /\ TypeOK /\ clearing \in Slots
  BY <1>1, <1>2 DEF SegInv, PutsAfterCreate, Owned, SegTypeOK
<1>5. /\ \A s \in Slots, f \in AllWords : s < clearing => WordEmpty(s, f)
      /\ \A f \in AllWords : WordEmpty(clearing, f)
      /\ ~whole
  <2>1. uncleared # AllWords
    BY <1>1 DEF AllWords
  <2> QED
    BY <1>1, <2>1 DEF SegInv, Memset
<1>6. \A s \in Slots : s < clearing \/ s = clearing
  BY <1>1, <1>4 DEF Slots
<1>7. \A s \in Slots, f \in AllWords : WordEmpty(s, f)
  BY <1>5, <1>6
<1>8. \A s \in Slots : seq[s] = 0 /\ mem[s][CodeWord] = NoCode
  <2>1. SeqWord \in AllWords /\ CodeWord \in AllWords /\ CodeWord # SeqWord /\ EmptySlot[CodeWord] = NoCode
    BY SegmentAssumption DEF AllWords, Fields, EmptySlot
  <2> QED
    BY <1>7, <2>1 DEF WordEmpty
<1>9. TypeOK'
  <2>1. published' \in [Codes -> PODs \cup {Absent}]
    BY <1>1
  <2> QED
    BY <1>1, <1>4, <2>1 DEF TypeOK, readerVars
<1>10. \A s \in Slots : seq'[s] = 0 /\ seq'[s] % 2 = 0 /\ mem'[s][CodeWord] = NoCode
  BY <1>1, <1>8
<1>11. ProbePaths' /\ SlotsPublished' /\ WriterPlace' /\ EvenOutsidePut' /\ EvenPublished' /\ CodesKept'
  BY <1>1, <1>4, <1>10 DEF ProbePaths, SlotsPublished, WriterPlace, EvenOutsidePut, EvenPublished, CodesKept
<1>12. Owned'
  <2>1. SegTypeOK'
    BY <1>1, <1>3, <1>9 DEF SegInv, Owned, SegTypeOK
  <2>2. OneWriter' /\ Ages'
    BY <1>1, <1>2, <1>3 DEF SegInv, Owned, OneWriter, Ages
  <2> QED
    BY <2>1, <2>2 DEF Owned
<1>13. Memset' /\ PutsAfterCreate'
  BY <1>1, <1>2, <1>3, <1>4 DEF Memset, PutsAfterCreate
<1>14. Running' /\ (whole => Trusted)'
  BY <1>1, <1>9, <1>11 DEF Running, WriterInv, Trusted
<1>15. Reading'
  <2>1. \A r \in Readers : disturbed[r]
    BY <1>5 DEF SegInv, Reading
  <2> QED
    BY <1>1, <2>1 DEF Reading
<1> QED
  BY <1>11, <1>12, <1>13, <1>14, <1>15 DEF SegInv

(* EvenIsPublished of the next state. *)
LEMMA StillPublished == ASSUME WriterInv' PROVE EvenPublished' /\ CodesKept'
<1> USE DEF WriterInv, TypeOK
<1>1. CodesKept'
  BY DEF SlotsPublished, CodesKept
<1>2. ASSUME NEW s \in Slots, seq'[s] % 2 = 0 PROVE ~Writing(s)'
  <2>1. SUFFICES ASSUME s = wslot' PROVE wleft' = Fields
    BY DEF Writing
  <2>2. wslot' # -1
    <3>1. s # -1
      BY DEF Slots
    <3> QED
      BY <2>1, <3>1
  <2>3. /\ seq'[wslot'] \in {ws0', ws0' + 1} /\ ws0' % 2 = 0 /\ ws0' \in Nat
        /\ seq'[wslot'] = ws0' => wleft' = Fields
    BY <2>2 DEF WriterPlace
  <2>4. seq'[s] # ws0' + 1
    BY <1>2, <2>1, <2>3, Parity
  <2> QED
    BY <2>1, <2>3, <2>4
<1>3. EvenPublished'
  BY <1>2 DEF SlotsPublished, EvenPublished
<1> QED
  BY <1>1, <1>3

(* A Put's step: the table keeps its invariant, and so do the readers that    *)
(* trust it.                                                                  *)
LEMMA WriterStepKeeps == ASSUME Ordered, SegInv, NEW p \in Writers, WriterStep(p) PROVE SegInv'
<1>1. stage[p] = "run" /\ Writer /\ UNCHANGED segVars
  BY DEF WriterStep
<1>2. UNCHANGED <<lock, stage, magic, generation, layout, clearing, uncleared, mount, whole, disturbed>>
  BY <1>1 DEF segVars, createVars
<1>3. [Next]_vars
  BY <1>1 DEF Next
<1>4. whole /\ WriterInv /\ WriterPlace /\ TypeOK
  BY <1>1 DEF SegInv, Running, WriterInv
<1>5. WriterInv'
  BY <1>3, <1>4, TypeStep, ProbePathsStep, SlotsPublishedStep, WriterPlaceStep DEF WriterInv
<1>6. Trusted' /\ WriterPlace' /\ TypeOK'
  <2>1. EvenPublished' /\ CodesKept'
    BY <1>5, StillPublished
  <2> QED
    BY <1>5, <2>1 DEF WriterInv, Trusted
<1>7. Reading'
  <2>1. ASSUME NEW r \in Readers, ~disturbed[r] PROVE CopyOf(r)' /\ PlaceOf(r)'
    <3>1. CopyOf(r) /\ PlaceOf(r)
      BY <2>1 DEF SegInv, Reading
    <3> QED
      BY <1>3, <1>4, <3>1, CopyStep, PlaceStep
  <2> QED
    BY <1>2, <1>4, <2>1 DEF Reading
<1>8. Owned'
  BY <1>2, <1>6 DEF SegInv, Owned, SegTypeOK, OneWriter, Ages
<1>9. \A q \in Writers : stage[q] # "clear"
  BY <1>1, Alone
<1>10. Memset' /\ PutsAfterCreate' /\ Running'
  BY <1>1, <1>2, <1>4, <1>5, <1>9 DEF Memset, PutsAfterCreate, Running
<1> QED
  BY <1>6, <1>7, <1>8, <1>10 DEF SegInv

(* A crash: what was stored stays, also half a Put, under its odd number.     *)
LEMMA StopKeeps == ASSUME SegInv, NEW p \in Writers, Stop(p) PROVE SegInv'
<1>1. /\ stage[p] # "out" /\ stage' = [stage EXCEPT ![p] = "out"] /\ lock' = NoOne
      /\ wslot' = -1 /\ wleft' = {} /\ uncleared' = {}
      /\ UNCHANGED <<seq, mem, wcode, wval, ws0, puts, published, rpc, rkey, rprobe, rretry, rs1, rbuf, rout,
                     magic, generation, layout, clearing, mount, whole, disturbed>>
  BY DEF Stop, readerVars
<1>2. \A q \in Writers : q # p => stage[q] = "out"
  BY <1>1, Alone
<1>3. stage \in [Writers -> {"out", "magic", "generation", "layout", "clear", "run"}] /\ TypeOK
  BY DEF SegInv, Owned, SegTypeOK
<1>4. \A q \in Writers : stage'[q] = "out"
  BY <1>1, <1>2, <1>3
<1>5. TypeOK'
  BY <1>1, <1>3 DEF TypeOK
<1>6. Owned'
  <2>1. SegTypeOK'
    BY <1>1, <1>3, <1>5 DEF SegInv, Owned, SegTypeOK
  <2> QED
    BY <1>4, <2>1 DEF Owned, OneWriter, Ages
<1>7. Memset' /\ Running' /\ WriterPlace' /\ PutsAfterCreate'
  BY <1>1, <1>4 DEF Memset, Running, WriterPlace, PutsAfterCreate
<1>8. (whole => Trusted)'
  BY <1>1 DEF SegInv, Trusted, ProbePaths, OnPath, EvenPublished, CodesKept
<1>9. Reading'
  <2>1. \A r \in Readers : At(r)' = At(r)
    BY <1>1 DEF At
  <2> QED
    BY <1>1, <2>1 DEF SegInv, Reading, CopyOf, PlaceOf
<1> QED
  BY <1>6, <1>7, <1>8, <1>9 DEF SegInv

-----------------------------------------------------------------------------
(* The readers' steps. *)
LEMMA MappingKeeps ==
    ASSUME SegInv, NEW r \in Readers, OpenReadOnly(r) \/ CloseMapping(r) PROVE SegInv'
<1>1. UNCHANGED <<vars, lock, stage, magic, generation, layout, clearing, uncleared, whole, disturbed>>
  BY DEF OpenReadOnly, CloseMapping, createVars
<1>2. mount' \in [Readers -> {"none", "whole", "partial"}]
  BY DEF OpenReadOnly, CloseMapping, SegInv, Owned, SegTypeOK
<1>3. Owned'
  BY <1>1, <1>2, TableStill DEF SegInv, Owned, SegTypeOK, OneWriter, Ages
<1>4. Memset'
  <2>1. ASSUME NEW p \in Writers, stage[p] = "clear" PROVE clearing \in Slots
    BY DEF SegInv, Owned, SegTypeOK
  <2> QED
    BY <1>1, <2>1, TableStill DEF SegInv, Memset
<1> QED
  BY <1>1, <1>3, <1>4, StillKeeps

(* A step of Get, with the table as it is. *)
LEMMA ReadingKeeps ==
    ASSUME Ordered, SegInv, NEW r \in Readers, Reader(r),
           UNCHANGED <<createVars, mount, whole>>,
           disturbed' \in [Readers -> BOOLEAN],
           \A q \in Readers : ~disturbed'[q] => whole /\ ((q = r /\ rpc[r] = "idle") \/ ~disturbed[q])
    PROVE  SegInv'
<1>1. [Next]_vars
  BY DEF Next
<1>2. UNCHANGED <<seq, mem, wslot, wcode, wval, ws0, wleft, puts, published,
                  lock, stage, magic, generation, layout, clearing, uncleared, mount, whole>>
  BY DEF Reader, GetStep, BeginGet, LoadSeq1, LoadSeq2, ReadWord, tableVars, writerVars, createVars
<1>3. TypeOK /\ WriterPlace
  BY DEF SegInv, Owned, SegTypeOK
<1>4. TypeOK'
  BY <1>1, <1>3, TypeStep
<1>5. WriterPlace' /\ (WriterInv => WriterInv') /\ (Trusted => Trusted')
  <2>1. WriterPlace'
    BY <1>2, <1>3 DEF WriterPlace, OnPath
  <2>2. ProbePaths => ProbePaths'
    BY <1>2 DEF ProbePaths, OnPath
  <2>3. SlotsPublished => SlotsPublished'
    BY <1>2 DEF SlotsPublished, Writing
  <2>4. EvenOutsidePut => EvenOutsidePut'
    BY <1>2 DEF EvenOutsidePut
  <2>5. EvenPublished /\ CodesKept => EvenPublished' /\ CodesKept'
    BY <1>2 DEF EvenPublished, CodesKept
  <2> QED
    BY <1>4, <2>1, <2>2, <2>3, <2>4, <2>5 DEF WriterInv, Trusted
<1>6. Owned'
  BY <1>2, <1>4 DEF SegInv, Owned, SegTypeOK, OneWriter, Ages
<1>7. Memset'
  BY <1>2 DEF SegInv, Memset, WordEmpty
<1>8. PutsAfterCreate' /\ Running' /\ (whole => Trusted)'
  BY <1>2, <1>5 DEF SegInv, PutsAfterCreate, Running
<1>9. ASSUME NEW q \in Readers, ~disturbed'[q] PROVE CopyOf(q)' /\ PlaceOf(q)'
  <2>1. CopyOf(q) /\ PlaceOf(q)
    <3>1. CASE ~disturbed[q]
      BY <3>1 DEF SegInv, Reading
    <3>2. CASE q = r /\ rpc[r] = "idle"
      BY <3>2 DEF CopyOf, PlaceOf
    <3> QED
      BY <1>9, <3>1, <3>2
  <2> QED
    BY <1>1, <1>3, <2>1, CopyStep, PlaceStep
<1>10. Reading'
  BY <1>2, <1>9 DEF Reading
<1> QED
  BY <1>5, <1>6, <1>7, <1>8, <1>10 DEF SegInv

LEMMA GetStepKeeps ==
    ASSUME Ordered, SegInv, NEW r \in Readers, GetStep(r), UNCHANGED segVars PROVE SegInv'
<1>1. Reader(r) /\ UNCHANGED <<createVars, mount, whole, disturbed>>
  BY DEF Reader, segVars
<1>2. disturbed \in [Readers -> BOOLEAN] /\ \A q \in Readers : ~disturbed[q] => whole
  BY DEF SegInv, Owned, SegTypeOK, Reading
<1> QED
  BY <1>1, <1>2, ReadingKeeps

LEMMA SegBeginGetKeeps ==
    ASSUME Ordered, SegInv, NEW r \in Readers, NEW c \in Codes, SegBeginGet(r, c) PROVE SegInv'
<1>1. /\ Reader(r) /\ rpc[r] = "idle" /\ UNCHANGED <<createVars, mount, whole>>
      /\ disturbed' = [disturbed EXCEPT ![r] = ~whole]
  BY DEF SegBeginGet, BeginGet, Reader
<1>2. disturbed \in [Readers -> BOOLEAN] /\ \A q \in Readers : ~disturbed[q] => whole
  BY DEF SegInv, Owned, SegTypeOK, Reading
<1>3. disturbed' \in [Readers -> BOOLEAN]
  BY <1>1, <1>2, Zenon
<1>4. \A q \in Readers : q # r => disturbed'[q] = disturbed[q]
  BY <1>1, <1>2
<1>5. disturbed'[r] = ~whole
  BY <1>1, <1>2, Zenon
<1>6. ~disturbed'[r] => whole
  BY <1>5, Zenon
<1> QED
  BY <1>1, <1>2, <1>3, <1>4, <1>6, ReadingKeeps

LEMMA GetOnPartialKeeps ==
    ASSUME SegInv, NEW r \in Readers, NEW c \in Codes, GetOnPartial(r, c) PROVE SegInv'
<1>1. /\ rpc[r] = "idle" /\ rkey' = [rkey EXCEPT ![r] = c] /\ rout' = [rout EXCEPT ![r] = GaveUp]
      /\ UNCHANGED <<seq, mem, wslot, wcode, wval, ws0, wleft, puts, published, rpc, rprobe, rretry, rs1, rbuf,
                     lock, stage, magic, generation, layout, clearing, uncleared, mount, whole, disturbed>>
  BY DEF GetOnPartial, tableVars, writerVars, segVars, createVars
<1>2. TypeOK
  BY DEF SegInv, Owned, SegTypeOK
<1>3. TypeOK'
  BY <1>1, <1>2 DEF TypeOK
<1>4. WriterPlace' /\ (WriterInv => WriterInv') /\ (Trusted => Trusted')
  <2>1. WriterPlace'
    BY <1>1 DEF SegInv, WriterPlace, OnPath
  <2>2. ProbePaths => ProbePaths'
    BY <1>1 DEF ProbePaths, OnPath
  <2>3. SlotsPublished => SlotsPublished'
    BY <1>1 DEF SlotsPublished, Writing
  <2>4. EvenOutsidePut => EvenOutsidePut'
    BY <1>1 DEF EvenOutsidePut
  <2>5. EvenPublished /\ CodesKept => EvenPublished' /\ CodesKept'
    BY <1>1 DEF EvenPublished, CodesKept
  <2> QED
    BY <1>3, <2>1, <2>2, <2>3, <2>4, <2>5 DEF WriterInv, Trusted
<1>5. Owned'
  BY <1>1, <1>3 DEF SegInv, Owned, SegTypeOK, OneWriter, Ages
<1>6. Memset'
  BY <1>1 DEF SegInv, Memset, WordEmpty
<1>7. PutsAfterCreate' /\ Running' /\ (whole => Trusted)'
  BY <1>1, <1>4 DEF SegInv, PutsAfterCreate, Running
<1>8. ASSUME NEW q \in Readers, ~disturbed[q] PROVE CopyOf(q)' /\ PlaceOf(q)'
  <2>1. CASE q = r
    BY <1>1, <2>1 DEF CopyOf, PlaceOf
  <2>2. CASE q # r
    <3>1. rkey'[q] = rkey[q]
      BY <1>1, <1>2, <2>2 DEF TypeOK
    <3>2. At(q)' = At(q)
      BY <1>1, <3>1 DEF At
    <3> QED
      BY <1>1, <1>8, <3>1, <3>2 DEF SegInv, Reading, CopyOf, PlaceOf
  <2> QED
    BY <2>1, <2>2
<1>9. Reading'
  BY <1>1, <1>8 DEF SegInv, Reading
<1> QED
  BY <1>4, <1>5, <1>6, <1>7, <1>9 DEF SegInv

LEMMA SegStep == ASSUME Ordered, SegInv, [SegNext]_allVars PROVE SegInv'
<1>1. ASSUME NEW p \in Writers, Create(p) PROVE SegInv'
  BY <1>1, AcquireKeeps, StampMagicKeeps, StoreGenerationKeeps, StoreLayoutKeeps, ClearNextSlotKeeps,
     ClearWordKeeps, CreatedKeeps DEF Create, AllWords
<1>2. ASSUME NEW p \in Writers, WriterStep(p) \/ Stop(p) PROVE SegInv'
  BY <1>2, WriterStepKeeps, StopKeeps
<1>3. ASSUME NEW r \in Readers, OpenReadOnly(r) \/ CloseMapping(r) PROVE SegInv'
  BY <1>3, MappingKeeps
<1>4. ASSUME NEW r \in Readers, GetStep(r), UNCHANGED segVars PROVE SegInv'
  BY <1>4, GetStepKeeps
<1>5. ASSUME NEW r \in Readers, NEW c \in Codes, SegBeginGet(r, c) \/ GetOnPartial(r, c) PROVE SegInv'
  BY <1>5, SegBeginGetKeeps, GetOnPartialKeeps
<1>6. CASE UNCHANGED allVars
  <2>1. UNCHANGED <<vars, lock, stage, magic, generation, layout, clearing, uncleared, mount, whole, disturbed>>
    BY <1>6 DEF allVars, segVars, createVars
  <2>2. Owned'
    BY <2>1, TableStill DEF SegInv, Owned, SegTypeOK, OneWriter, Ages
  <2>3. Memset'
    <3>1. clearing \in Slots
      BY DEF SegInv, Owned, SegTypeOK
    <3> QED
      BY <2>1, <3>1, TableStill DEF SegInv, Memset
  <2> QED
    BY <2>1, <2>2, <2>3, StillKeeps
<1> QED
  BY <1>1, <1>2, <1>3, <1>4, <1>5, <1>6 DEF SegNext

-----------------------------------------------------------------------------
LEMMA SegInvariance == ASSUME Ordered PROVE SegSpec => []SegInv
<1>1. SegInit => SegInv
  BY SegStart
<1>2. SegInv /\ [SegNext]_allVars => SegInv'
  BY SegStep
<1> QED
  BY <1>1, <1>2, PTL DEF SegSpec

(* The variables of the segment and of its processes have their types, and    *)
(* the generation its bound.                                                  *)
THEOREM SegmentType == ASSUME Ordered PROVE SegSpec => []SegTypeOK
<1>1. SegInv => SegTypeOK
  BY DEF SegInv, Owned
<1> QED
  BY <1>1, SegInvariance, PTL

(* However many fetchers start, crash and start again over one path, at most  *)
(* one is past the lock.                                                      *)
THEOREM SegmentOneWriter == ASSUME Ordered PROVE SegSpec => []OneWriter
<1>1. SegInv => OneWriter
  BY DEF SegInv, Owned
<1> QED
  BY <1>1, SegInvariance, PTL

(* Whatever its predecessors left, a writer's Puts start from a sound table.  *)
THEOREM SegmentRunsOnSoundTable == ASSUME Ordered PROVE SegSpec => []RunsOnSoundTable
<1>1. SegInv => RunsOnSoundTable
  BY DEF SegInv, Running, WriterInv, EvenOutsidePut, RunsOnSoundTable
<1> QED
  BY <1>1, SegInvariance, PTL

(* A Get answers as the map does, across crashes, unless a memset ran while   *)
(* it did or the last one before it was cut short.                            *)
THEOREM SegmentAnswers == ASSUME Ordered PROVE SegSpec => AnswersWithinOneGeneration
<1>1. ASSUME SegInv, [SegNext]_allVars, NEW r \in Readers,
             rpc[r] = "copy", rpc'[r] = "idle", ~disturbed[r]
      PROVE  rout'[r] \in {published[rkey[r]], GaveUp}
  <2>1. TypeOK /\ ProbePaths /\ EvenPublished /\ CodesKept /\ CopyOf(r) /\ PlaceOf(r)
    BY <1>1 DEF SegInv, Owned, SegTypeOK, Reading, Trusted
  <2>2. LoadSeq2(r)
    <3>1. PICK q \in Readers : GetStep(q)
      <4>1. ASSUME NEW p \in Writers, Create(p) \/ WriterStep(p) \/ Stop(p) PROVE UNCHANGED rpc
        BY <4>1 DEF Create, Acquire, StampMagic, StoreGeneration, StoreLayout, ClearNextSlot, Created, ClearWord,
           WriterStep, Writer, PutStep, Drop, Claim, StoreOdd, StoreWord, StoreEven, Stop, vars, readerVars
      <4>2. ASSUME NEW q \in Readers, OpenReadOnly(q) \/ CloseMapping(q) PROVE UNCHANGED rpc
        BY <4>2 DEF OpenReadOnly, CloseMapping, vars, readerVars
      <4>3. ASSUME NEW q \in Readers, NEW c \in Codes, GetOnPartial(q, c) PROVE UNCHANGED rpc
        BY <4>3 DEF GetOnPartial
      <4>4. ASSUME NEW q \in Readers, NEW c \in Codes, SegBeginGet(q, c) PROVE FALSE
        <5>1. rpc' = [rpc EXCEPT ![q] = "seq1"] /\ rpc[q] = "idle"
          BY <4>4 DEF SegBeginGet, BeginGet
        <5> QED
          BY <1>1, <2>1, <5>1 DEF TypeOK
      <4>5. UNCHANGED allVars => UNCHANGED rpc
        BY DEF allVars, vars, readerVars
      <4>6. rpc' # rpc
        BY <1>1
      <4> QED
        BY <1>1, <4>1, <4>2, <4>3, <4>4, <4>5, <4>6 DEF SegNext
    <3>2. q = r
      BY <1>1, <2>1, <3>1, OneReaderMoves DEF Reader
    <3> QED
      BY <1>1, <2>1, <3>1, <3>2 DEF GetStep, LoadSeq1, ReadWord
  <2> QED
    BY <1>1, <2>1, <2>2, AnswerIsCurrent
<1>2. SegInv /\ [SegNext]_allVars =>
        [\A r \in Readers : rpc[r] = "copy" /\ rpc'[r] = "idle" /\ ~disturbed[r]
            => rout'[r] \in {published[rkey[r]], GaveUp}]_allVars
  BY <1>1
<1> QED
  BY <1>2, SegInvariance, PTL DEF SegSpec, AnswersWithinOneGeneration
=============================================================================
