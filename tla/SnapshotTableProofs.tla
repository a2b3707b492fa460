------------------------- MODULE SnapshotTableProofs -------------------------
(* The snapshot table of snapshot.cpp implements the map of SnapshotMap, for  *)
(* any number of slots, codes, readers, payload words and Puts, where the odd *)
(* store is visible before the payload (Ordered).                             *)
EXTENDS SnapshotTable, TLAPS

(* The writer's half of the invariant, and that of one reader: the reader's   *)
(* is kept whatever state the writer left the published payloads in.          *)
WriterInv == TypeOK /\ ProbePaths /\ SlotsPublished /\ WriterPlace /\ EvenOutsidePut
CopyOf(r) ==
    rpc[r] = "copy" /\ seq[At(r)] = rs1[r] =>
        \A f \in Fields : rbuf[r][f] \in {Unread, mem[At(r)][f]}
PlaceOf(r) ==
    /\ rpc[r] = "copy" => rs1[r] % 2 = 0 /\ rs1[r] <= seq[At(r)]
    /\ rpc[r] # "idle" =>
        \A p \in 0 .. rprobe[r] - 1 :
            mem[Slot(rkey[r], p)][CodeWord] \notin {NoCode, rkey[r]}
Inv == WriterInv /\ \A r \in Readers : CopyOf(r) /\ PlaceOf(r)

(* What a reader relies on in a slot with an even number, and in the table.   *)
EvenPublished ==
    \A s \in Slots :
        mem[s][CodeWord] # NoCode /\ seq[s] % 2 = 0 =>
            published[mem[s][CodeWord]] = [f \in Words |-> mem[s][f]]
CodesKept == \A c \in Codes : published[c] # Absent => \E s \in Slots : mem[s][CodeWord] = c

(* Probing stays inside the table. *)
LEMMA SlotInTable == ASSUME NEW c \in Codes, NEW p \in Nat PROVE Slot(c, p) \in Slots
  BY SizesAssumption, HashAssumption DEF Slot, Slots

(* Odd and even sequence numbers differ; two stores keep the parity. *)
LEMMA Parity ==
  ASSUME NEW m \in Nat, NEW n \in Nat, n % 2 = 0
  PROVE  m % 2 = 0 => m # n + 1 /\ (n + 1) % 2 = 1 /\ (n + 2) % 2 = 0
  OBVIOUS

(* A range that grows by one gains one member. *)
LEMMA OneMore == ASSUME NEW n \in Nat, NEW p \in 0 .. (n + 1) - 1
                 PROVE  p \in 0 .. n - 1 \/ p = n
  OBVIOUS

(* A probe counter is a natural number. *)
LEMMA ProbeNumbers == ASSUME TypeOK, NEW r \in Readers PROVE rprobe[r] \in Nat
  BY SizesAssumption DEF TypeOK

(* Two naturals are equal or one is below the other. *)
LEMMA Ordering == ASSUME NEW m \in Nat, NEW n \in Nat
                  PROVE  m = n \/ m \in 0 .. n - 1 \/ n \in 0 .. m - 1
  OBVIOUS

(* The loop counters of a Get stay below their bounds, and what it answers is *)
(* a payload, a miss or a failure.                                            *)
LEMMA LoopTypes ==
  ASSUME TypeOK, NEW r \in Readers,
         \/ Retry(r)
         \/ NextSlot(r)
         \/ \E a \in PODs \cup {Absent, GaveUp} : Answer(r, a)
  PROVE  /\ rpc' \in [Readers -> {"idle", "seq1", "copy"}]
         /\ rprobe' \in [Readers -> 0 .. Count - 1]
         /\ rretry' \in [Readers -> 0 .. Retries - 1]
         /\ rout' \in [Readers -> PODs \cup {Absent, GaveUp}]
<1> USE SizesAssumption DEF TypeOK
<1>1. CASE \E a \in PODs \cup {Absent, GaveUp} : Answer(r, a)
  BY <1>1 DEF Answer
<1>2. CASE Retry(r)
  <2>1. CASE Answer(r, GaveUp)
    BY <2>1, <1>1
  <2>2. CASE ~Answer(r, GaveUp)
    <3>1. /\ rretry[r] + 1 < Retries
          /\ rretry' = [rretry EXCEPT ![r] = rretry[r] + 1]
          /\ rprobe' = [rprobe EXCEPT ![r] = 0]
          /\ rpc' = [rpc EXCEPT ![r] = "seq1"]
          /\ rout' = rout
      BY <1>2, <2>2 DEF Retry
    <3>2. rretry[r] + 1 \in 0 .. Retries - 1 /\ 0 \in 0 .. Count - 1
      BY <3>1
    <3>3. QED
      BY <3>1, <3>2
  <2>3. QED
    BY <2>1, <2>2
<1>3. CASE NextSlot(r)
  <2>1. CASE Retry(r)
    BY <2>1, <1>2
  <2>2. CASE ~Retry(r)
    <3>1. /\ rprobe[r] + 1 < Count
          /\ rprobe' = [rprobe EXCEPT ![r] = rprobe[r] + 1]
          /\ rpc' = [rpc EXCEPT ![r] = "seq1"]
          /\ rretry' = rretry /\ rout' = rout
      BY <1>3, <2>2 DEF NextSlot
    <3>2. rprobe[r] + 1 \in 0 .. Count - 1
      BY <3>1
    <3>3. QED
      BY <3>1, <3>2
  <2>3. QED
    BY <2>1, <2>2
<1>4. QED
  BY <1>1, <1>2, <1>3

(* Each variable keeps its type. *)
LEMMA TypeStep == TypeOK /\ [Next]_vars => TypeOK'
<1> SUFFICES ASSUME TypeOK, [Next]_vars PROVE TypeOK'
  OBVIOUS
<1> USE SizesAssumption DEF TypeOK
<1>1. CASE \E c \in Codes : Drop(c)
  BY <1>1 DEF Drop, readerVars
<1>2. CASE \E c \in Codes, v \in Quotes : Claim(c, v)
  <2>1. PICK c \in Codes, v \in Quotes : Claim(c, v)
    BY <1>2
  <2>2. PICK p \in 0 .. Count - 1 : wslot' = Slot(c, p) /\ ws0' = seq[Slot(c, p)]
    BY <2>1 DEF Claim
  <2>3. wslot' \in Slots /\ ws0' \in Nat
    BY <2>2, SlotInTable
  <2>4. QED
    BY <2>1, <2>3 DEF Claim, readerVars
<1>3. CASE StoreOdd
  BY <1>3 DEF StoreOdd, readerVars, writerVars
<1>4. CASE \E f \in Fields : StoreWord(f)
  <2>1. PICK f \in Fields : StoreWord(f)
    BY <1>4
  <2>2. wslot \in Slots
    BY <2>1 DEF StoreWord
  <2> DEFINE v == IF f = CodeWord THEN wcode ELSE wval
  <2>3. v \in Cells /\ mem' = [mem EXCEPT ![wslot][f] = v]
    BY <2>1 DEF StoreWord, Cells
  <2>4. mem' \in [Slots -> [Fields -> Cells]]
    BY <2>2, <2>3
  <2>5. /\ \A s \in Slots : mem'[s][CodeWord] \in Codes \cup {NoCode}
        /\ \A s \in Slots, g \in Words : mem'[s][g] \in Quotes \cup {NoQuote}
    BY <2>2, <2>3, WordsAssumption DEF Fields
  <2>6. QED
    BY <2>1, <2>4, <2>5 DEF StoreWord, readerVars
<1>5. CASE StoreEven
  <2>1. POD(wval) \in PODs
    BY DEF POD, PODs
  <2>2. QED
    BY <1>5, <2>1 DEF StoreEven, readerVars
<1>6. CASE \E r \in Readers, c \in Codes : BeginGet(r, c)
  BY <1>6 DEF BeginGet, tableVars, writerVars
<1>7. CASE \E r \in Readers : LoadSeq1(r)
  <2>1. PICK r \in Readers : LoadSeq1(r)
    BY <1>7
  <2>2. At(r) \in Slots
    BY SlotInTable DEF At
  <2>3. Unfilled \in [Fields -> Cells \cup {Unread}]
    BY DEF Unfilled
  <2>4. /\ rpc' \in [Readers -> {"idle", "seq1", "copy"}]
        /\ rprobe' \in [Readers -> 0 .. Count - 1]
        /\ rretry' \in [Readers -> 0 .. Retries - 1]
        /\ rout' \in [Readers -> PODs \cup {Absent, GaveUp}]
    <3>1. CASE Retry(r)
      BY <3>1, LoopTypes
    <3>2. CASE ~Retry(r)
      BY <2>1, <3>2 DEF LoadSeq1
    <3>3. QED
      BY <3>1, <3>2
  <2>5. rbuf' = [rbuf EXCEPT ![r] = Unfilled] /\ rs1' = [rs1 EXCEPT ![r] = seq[At(r)]]
    BY <2>1 DEF LoadSeq1
  <2>6. \A q \in Readers, f \in Words : rbuf'[q][f] \in Quotes \cup {NoQuote, Unread}
    BY <2>5 DEF Unfilled, Fields
  <2>7. rbuf' \in [Readers -> [Fields -> Cells \cup {Unread}]] /\ rs1' \in [Readers -> Nat]
    BY <2>2, <2>3, <2>5
  <2>8. UNCHANGED <<tableVars, rkey>>
    BY <2>1 DEF LoadSeq1
  <2>9. QED
    BY <2>4, <2>6, <2>7, <2>8 DEF tableVars, writerVars
<1>8. CASE \E r \in Readers, f \in Fields : ReadWord(r, f)
  <2>1. PICK r \in Readers, f \in Fields : ReadWord(r, f)
    BY <1>8
  <2>2. mem[At(r)][f] \in Cells
    BY SlotInTable DEF At
  <2>3. rbuf' = [rbuf EXCEPT ![r][f] = mem[At(r)][f]]
    BY <2>1 DEF ReadWord
  <2>4. rbuf' \in [Readers -> [Fields -> Cells \cup {Unread}]]
    BY <2>2, <2>3
  <2>5. \A q \in Readers, g \in Words : rbuf'[q][g] \in Quotes \cup {NoQuote, Unread}
    BY <2>3, SlotInTable DEF At, Fields
  <2>6. UNCHANGED <<tableVars, rpc, rkey, rprobe, rretry, rs1, rout>>
    BY <2>1 DEF ReadWord
  <2>7. QED
    BY <2>4, <2>5, <2>6 DEF tableVars, writerVars
<1>9. CASE \E r \in Readers : LoadSeq2(r)
  <2>1. PICK r \in Readers : LoadSeq2(r)
    BY <1>9
  <2>2. Copied(r) \in PODs
    BY <2>1, WordsAssumption DEF LoadSeq2, Copied, PODs, Fields
  <2>3. Retry(r) \/ NextSlot(r) \/ \E a \in PODs \cup {Absent, GaveUp} : Answer(r, a)
    BY <2>1, <2>2 DEF LoadSeq2
  <2>4. QED
    BY <2>1, <2>3, LoopTypes DEF LoadSeq2, tableVars, writerVars
<1>10. CASE UNCHANGED vars
  BY <1>10 DEF vars, writerVars, readerVars
<1>11. QED
  BY <1>1, <1>2, <1>3, <1>4, <1>5, <1>6, <1>7, <1>8, <1>9, <1>10
     DEF Next, Writer, PutStep, Reader, GetStep

-----------------------------------------------------------------------------
(* A step is one of the writer's or leaves the shared memory alone. *)
LEMMA WriterOrNot ==
  ASSUME [Next]_vars
  PROVE  \/ \E c \in Codes, v \in Quotes : Claim(c, v)
         \/ \E c \in Codes : Drop(c)
         \/ StoreOdd
         \/ \E f \in Fields : StoreWord(f)
         \/ StoreEven
         \/ UNCHANGED tableVars
  BY DEF Next, Writer, PutStep, Reader, GetStep, BeginGet, LoadSeq1, ReadWord, LoadSeq2,
         vars, tableVars, writerVars

(* The writer's steps leave the readers alone. *)
LEMMA ReadersUnmoved ==
  ASSUME \/ \E c \in Codes, v \in Quotes : Claim(c, v)
         \/ \E c \in Codes : Drop(c)
         \/ StoreOdd
         \/ \E f \in Fields : StoreWord(f)
         \/ StoreEven
  PROVE  UNCHANGED readerVars
  BY DEF Claim, Drop, StoreOdd, StoreWord, StoreEven

(* The code of a slot changes at most once, from empty to the code being put. *)
LEMMA CodeStep ==
  ASSUME TypeOK, WriterPlace, [Next]_vars, NEW s \in Slots
  PROVE  \/ mem'[s][CodeWord] = mem[s][CodeWord]
         \/ /\ mem[s][CodeWord] = NoCode
            /\ s = wslot /\ mem'[s][CodeWord] = wcode
            /\ wslot' = wslot /\ wcode' = wcode
<1> USE DEF TypeOK
<1>1. CASE \E f \in Fields : StoreWord(f)
  <2>1. PICK f \in Fields : StoreWord(f)
    BY <1>1
  <2>2. mem[wslot][CodeWord] \in {NoCode, wcode} /\ wslot \in Slots
    BY <2>1 DEF StoreWord, WriterPlace
  <2>3. CASE f = CodeWord
    BY <2>1, <2>2, <2>3 DEF StoreWord
  <2>4. CASE f # CodeWord
    BY <2>1, <2>2, <2>4, WordsAssumption DEF StoreWord, Fields
  <2>5. QED
    BY <2>3, <2>4
<1>2. CASE UNCHANGED mem
  BY <1>2
<1>3. QED
  BY <1>1, <1>2, WriterOrNot DEF Claim, Drop, StoreOdd, StoreEven, tableVars

(* So a path never breaks. *)
LEMMA PathStep ==
  ASSUME TypeOK, WriterPlace, [Next]_vars, NEW c \in Codes, NEW s \in Slots, OnPath(c, s)
  PROVE  OnPath(c, s)'
<1>1. PICK d \in 0 .. Count - 1 :
        s = Slot(c, d) /\ \A e \in 0 .. d - 1 : mem[Slot(c, e)][CodeWord] \notin {NoCode, c}
  BY DEF OnPath
<1>2. ASSUME NEW e \in 0 .. d - 1
      PROVE  mem'[Slot(c, e)][CodeWord] \notin {NoCode, c}
  BY <1>1, CodeStep, SlotInTable
<1>3. QED
  BY <1>1, <1>2 DEF OnPath

(* One code occupies one slot. *)
LEMMA OneSlot ==
  ASSUME TypeOK, ProbePaths, NEW s \in Slots, NEW t \in Slots,
         mem[s][CodeWord] # NoCode, mem[s][CodeWord] = mem[t][CodeWord]
  PROVE  s = t
<1> DEFINE c == mem[s][CodeWord]
<1>1. c \in Codes
  BY DEF TypeOK
<1>2. OnPath(c, s) /\ OnPath(c, t)
  BY DEF ProbePaths
<1>3. PICK d \in 0 .. Count - 1 :
        s = Slot(c, d) /\ \A e \in 0 .. d - 1 : mem[Slot(c, e)][CodeWord] \notin {NoCode, c}
  BY <1>2 DEF OnPath
<1>4. PICK b \in 0 .. Count - 1 :
        t = Slot(c, b) /\ \A e \in 0 .. b - 1 : mem[Slot(c, e)][CodeWord] \notin {NoCode, c}
  BY <1>2 DEF OnPath
<1>5. ~ (d < b)
  <2> SUFFICES ASSUME d < b PROVE FALSE
    OBVIOUS
  <2>1. d \in 0 .. b - 1
    BY SizesAssumption
  <2>2. mem[Slot(c, d)][CodeWord] # c
    BY <1>4, <2>1
  <2>3. QED
    BY <1>3, <2>2
<1>6. ~ (b < d)
  <2> SUFFICES ASSUME b < d PROVE FALSE
    OBVIOUS
  <2>1. b \in 0 .. d - 1
    BY SizesAssumption
  <2>2. mem[Slot(c, b)][CodeWord] # c
    BY <1>3, <2>1
  <2>3. QED
    BY <1>4, <2>2
<1>7. d = b
  BY <1>5, <1>6, SizesAssumption
<1>8. QED
  BY <1>3, <1>4, <1>7

(* A Put fills the first empty slot of its path, so ProbePaths is preserved. *)
LEMMA ProbePathsStep == TypeOK /\ ProbePaths /\ WriterPlace /\ [Next]_vars => ProbePaths'
<1> SUFFICES ASSUME TypeOK, ProbePaths, WriterPlace, [Next]_vars, NEW s \in Slots, mem'[s][CodeWord] # NoCode
             PROVE  OnPath(mem[s][CodeWord], s)'
  BY DEF ProbePaths
<1>1. CASE mem'[s][CodeWord] = mem[s][CodeWord]
  <2>1. mem[s][CodeWord] \in Codes /\ OnPath(mem[s][CodeWord], s)
    BY <1>1 DEF TypeOK, ProbePaths
  <2>2. QED
    BY <1>1, <2>1, PathStep DEF OnPath
<1>2. CASE mem'[s][CodeWord] # mem[s][CodeWord]
  <2>1. s = wslot /\ mem'[s][CodeWord] = wcode
    BY <1>2, CodeStep
  <2>2. wslot # -1 /\ wcode \in Codes /\ OnPath(wcode, s)
    BY <2>1 DEF TypeOK, Slots, WriterPlace
  <2>3. QED
    BY <2>1, <2>2, PathStep DEF OnPath
<1>3. QED
  BY <1>1, <1>2

(* Only the even store of Put publishes, and it finds the payload complete:   *)
(* SlotsPublished is preserved.                                               *)
LEMMA SlotsPublishedStep == WriterInv /\ [Next]_vars => SlotsPublished'
<1> SUFFICES ASSUME WriterInv, [Next]_vars PROVE SlotsPublished'
  OBVIOUS
<1> USE DEF WriterInv, TypeOK
<1>1. CASE UNCHANGED tableVars
  BY <1>1 DEF tableVars, writerVars, SlotsPublished, Writing
<1>2. CASE \E c \in Codes : Drop(c)
  BY <1>2 DEF Drop, SlotsPublished, Writing
<1>3. CASE StoreOdd
  BY <1>3 DEF StoreOdd, writerVars, SlotsPublished, Writing
<1>4. CASE \E c \in Codes, v \in Quotes : Claim(c, v)
  <2>1. wslot = -1 /\ wleft' = Fields /\ UNCHANGED <<mem, published>>
    BY <1>4 DEF Claim
  <2>2. \A s \in Slots : ~Writing(s) /\ ~Writing(s)'
    BY <2>1 DEF Writing, Slots
  <2>3. QED
    BY <2>1, <2>2 DEF SlotsPublished
<1>5. CASE \E f \in Fields : StoreWord(f)
  <2>1. PICK f \in Fields : StoreWord(f)
    BY <1>5
  <2>2. /\ wslot \in Slots /\ wslot' = wslot /\ published' = published
        /\ f \in wleft /\ wleft' = wleft \ {f}
    BY <2>1 DEF StoreWord
  <2>3. \A s \in Slots : ~Writing(s)' => s # wslot /\ ~Writing(s) /\ mem'[s] = mem[s]
    BY <2>1, <2>2 DEF Writing, StoreWord
  <2>4. \A s \in Slots : mem[s][CodeWord] # NoCode => mem'[s][CodeWord] = mem[s][CodeWord]
    BY CodeStep
  <2>5. ASSUME NEW c \in Codes, published[c] # Absent
        PROVE  \E s \in Slots : mem'[s][CodeWord] = c
    BY <2>4, <2>5, ValuesAssumption DEF SlotsPublished
  <2>6. QED
    BY <2>2, <2>3, <2>5 DEF SlotsPublished
<1>6. CASE StoreEven
  <2>1. /\ wslot \in Slots /\ wslot' = -1 /\ mem' = mem /\ wleft = {}
        /\ published' = [published EXCEPT ![wcode] = POD(wval)]
    BY <1>6 DEF StoreEven
  <2>2. mem[wslot][CodeWord] = wcode /\ \A f \in Words : mem[wslot][f] = wval
    BY <2>1 DEF WriterPlace, Slots
  <2>3. ASSUME NEW s \in Slots, mem[s][CodeWord] # NoCode
        PROVE  published'[mem[s][CodeWord]] = [f \in Words |-> mem[s][f]]
    <3>1. CASE s = wslot
      BY <3>1, <2>1, <2>2 DEF POD
    <3>2. CASE s # wslot
      <4>1. mem[s][CodeWord] # wcode
        BY <3>2, <2>1, <2>2, <2>3, OneSlot
      <4>2. ~Writing(s)
        BY <3>2 DEF Writing
      <4>3. QED
        BY <4>1, <4>2, <2>1, <2>3 DEF SlotsPublished
    <3>3. QED
      BY <3>1, <3>2
  <2>4. ASSUME NEW c \in Codes, published'[c] # Absent
        PROVE  \E s \in Slots : mem[s][CodeWord] = c
    <3>1. CASE c = wcode
      BY <3>1, <2>1, <2>2
    <3>2. CASE c # wcode
      BY <3>2, <2>1, <2>4 DEF SlotsPublished
    <3>3. QED
      BY <3>1, <3>2
  <2>5. QED
    BY <2>1, <2>3, <2>4 DEF SlotsPublished
<1>7. QED
  BY <1>1, <1>2, <1>3, <1>4, <1>5, <1>6, WriterOrNot

(* A reader that is not at work keeps its place while another one moves. *)
LEMMA OneReaderMoves ==
  ASSUME TypeOK, NEW r \in Readers, NEW q \in Readers, Reader(q), q # r
  PROVE  /\ rpc'[r] = rpc[r] /\ rkey'[r] = rkey[r] /\ rprobe'[r] = rprobe[r]
         /\ rs1'[r] = rs1[r] /\ rbuf'[r] = rbuf[r]
<1> USE DEF TypeOK
<1>1. CASE \E c \in Codes : BeginGet(q, c)
  BY <1>1 DEF BeginGet
<1>2. CASE LoadSeq1(q)
  BY <1>2 DEF LoadSeq1, Retry, Answer
<1>3. CASE \E f \in Fields : ReadWord(q, f)
  BY <1>3 DEF ReadWord
<1>4. CASE LoadSeq2(q)
  BY <1>4 DEF LoadSeq2, Retry, NextSlot, Answer
<1>5. QED
  BY <1>1, <1>2, <1>3, <1>4 DEF Reader, GetStep

(* The heart of the sequence lock: a copy begun at an even number is current  *)
(* as long as that number stands.                                             *)
LEMMA CopyStep ==
  ASSUME Ordered, TypeOK, WriterPlace, [Next]_vars, NEW r \in Readers, CopyOf(r), PlaceOf(r)
  PROVE  CopyOf(r)'
<1> SUFFICES ASSUME rpc'[r] = "copy", seq'[At(r)'] = rs1'[r], NEW f \in Fields
             PROVE  rbuf'[r][f] \in {Unread, mem'[At(r)'][f]}
  BY DEF CopyOf
<1> USE DEF TypeOK
<1>1. At(r) \in Slots
  BY SlotInTable DEF At
<1>2. ASSUME UNCHANGED readerVars
      PROVE  At(r)' = At(r) /\ rs1[r] % 2 = 0 /\ rs1[r] <= seq[At(r)] /\ rbuf' = rbuf
             /\ rs1' = rs1 /\ rpc[r] = "copy"
  BY <1>2 DEF readerVars, At, PlaceOf
<1>3. CASE UNCHANGED <<readerVars, seq, mem>>
  BY <1>2, <1>3 DEF CopyOf
<1>4. CASE StoreOdd
  <2>1. UNCHANGED readerVars /\ wslot \in Slots /\ ws0 % 2 = 0 /\ mem' = mem
        /\ seq' = [seq EXCEPT ![wslot] = ws0 + 1]
    BY <1>4 DEF StoreOdd, WriterPlace
  <2>2. At(r) # wslot
    BY <1>2, <2>1, Parity
  <2>3. QED
    BY <1>1, <1>2, <2>1, <2>2 DEF CopyOf
<1>5. CASE StoreEven
  <2>1. UNCHANGED readerVars /\ wslot \in Slots /\ seq[wslot] = ws0 + 1 /\ mem' = mem
        /\ seq' = [seq EXCEPT ![wslot] = ws0 + 2]
    BY <1>5 DEF StoreEven
  <2>2. At(r) # wslot
    BY <1>2, <2>1, Parity
  <2>3. QED
    BY <1>1, <1>2, <2>1, <2>2 DEF CopyOf
<1>6. CASE \E g \in Fields : StoreWord(g)
  <2>1. UNCHANGED readerVars /\ wslot \in Slots /\ seq[wslot] = ws0 + 1 /\ ws0 % 2 = 0
        /\ seq' = seq /\ \A s \in Slots : s # wslot => mem'[s] = mem[s]
    BY <1>6, Ordered DEF StoreWord, WriterPlace
  <2>2. seq[At(r)] = rs1[r] /\ rs1[r] \in Nat /\ ws0 \in Nat
    <3>1. At(r)' = At(r) /\ rs1' = rs1 /\ seq' = seq
      BY <1>2, <2>1
    <3>2. QED
      BY <3>1
  <2>3. At(r) # wslot
    <3>1. rs1[r] # ws0 + 1
      BY <1>2, <2>1, <2>2, Parity
    <3>2. QED
      BY <2>1, <2>2, <3>1
  <2>4. QED
    BY <1>1, <1>2, <2>1, <2>2, <2>3 DEF CopyOf
<1>7. CASE \E q \in Readers : Reader(q)
  <2>1. PICK q \in Readers : Reader(q)
    BY <1>7
  <2>2. seq' = seq /\ mem' = mem
    BY <2>1 DEF Reader, GetStep, BeginGet, LoadSeq1, ReadWord, LoadSeq2, tableVars
  <2>3. CASE q # r
    <3>1. At(r)' = At(r)
      BY <2>1, <2>3, OneReaderMoves DEF At
    <3>2. QED
      BY <2>1, <2>2, <2>3, <3>1, OneReaderMoves DEF CopyOf
  <2>4. CASE q = r
    <3>1. CASE LoadSeq1(r)
      BY <3>1 DEF LoadSeq1, Unfilled
    <3>2. CASE \E g \in Fields : ReadWord(r, g)
      BY <2>2, <3>2 DEF ReadWord, At, CopyOf
    <3>3. CASE \E c \in Codes : BeginGet(r, c)
      BY <3>3 DEF BeginGet
    <3>4. CASE LoadSeq2(r)
      BY <3>4 DEF LoadSeq2, Retry, NextSlot, Answer
    <3>5. QED
      BY <2>1, <2>4, <3>1, <3>2, <3>3, <3>4 DEF Reader, GetStep
  <2>5. QED
    BY <2>3, <2>4
<1>8. QED
  BY <1>3, <1>4, <1>5, <1>6, <1>7 DEF Next, Writer, PutStep, Claim, Drop, vars

(* The Put in progress keeps its slot, its number and what it stored there. *)
LEMMA WriterPlaceStep ==
  ASSUME Ordered PROVE WriterInv /\ [Next]_vars => WriterPlace' /\ EvenOutsidePut'
<1> SUFFICES ASSUME WriterInv, [Next]_vars PROVE WriterPlace' /\ EvenOutsidePut'
  OBVIOUS
<1> USE DEF WriterInv, TypeOK
<1>1. CASE UNCHANGED tableVars
  BY <1>1 DEF tableVars, writerVars, WriterPlace, EvenOutsidePut, OnPath
<1>2. CASE \E c \in Codes : Drop(c)
  BY <1>2 DEF Drop, WriterPlace, EvenOutsidePut
<1>3. CASE \E c \in Codes, v \in Quotes : Claim(c, v)
  <2>1. PICK c \in Codes, v \in Quotes : Claim(c, v)
    BY <1>3
  <2>2. PICK p \in 0 .. Count - 1 :
          FirstStop(c, p) /\ wslot' = Slot(c, p) /\ ws0' = seq[Slot(c, p)]
    BY <2>1 DEF Claim
  <2>3. /\ wslot = -1 /\ wcode' = c /\ wval' = v /\ wleft' = Fields
        /\ UNCHANGED <<seq, mem>>
    BY <2>1 DEF Claim
  <2>4. Slot(c, p) \in Slots
    BY SlotInTable
  <2>5. seq[Slot(c, p)] % 2 = 0
    BY <2>3, <2>4 DEF EvenOutsidePut, Slots
  <2>6. OnPath(c, Slot(c, p)) /\ mem[Slot(c, p)][CodeWord] \in {NoCode, c}
    BY <2>2 DEF FirstStop, Stops, OnPath
  <2>7. OnPath(wcode, wslot)'
    BY <2>2, <2>3, <2>6 DEF OnPath
  <2>8. WriterPlace'
    BY <2>2, <2>3, <2>4, <2>5, <2>6, <2>7, WordsAssumption DEF WriterPlace, Fields
  <2>9. EvenOutsidePut'
    BY <2>3, <2>2 DEF EvenOutsidePut, Slots
  <2>10. QED
    BY <2>8, <2>9
<1>4. CASE StoreOdd
  <2>1. /\ wslot \in Slots /\ wslot # -1 /\ seq[wslot] = ws0
        /\ seq' = [seq EXCEPT ![wslot] = ws0 + 1]
        /\ UNCHANGED <<mem, wslot, wcode, wval, ws0, wleft>>
    BY <1>4 DEF StoreOdd, writerVars
  <2>2. OnPath(wcode, wslot)'
    BY <2>1 DEF WriterPlace, OnPath
  <2>3. QED
    BY <2>1, <2>2 DEF WriterPlace, EvenOutsidePut
<1>5. CASE \E f \in Fields : StoreWord(f)
  <2>1. PICK f \in Fields : StoreWord(f)
    BY <1>5
  <2>2. /\ wslot \in Slots /\ wslot # -1 /\ seq[wslot] = ws0 + 1
        /\ wleft' = wleft \ {f}
        /\ mem' = [mem EXCEPT ![wslot][f] = IF f = CodeWord THEN wcode ELSE wval]
        /\ UNCHANGED <<seq, wslot, wcode, wval, ws0>>
    BY <2>1, Ordered DEF StoreWord
  <2>3. OnPath(wcode, wslot)'
    BY <2>2, PathStep DEF WriterPlace, OnPath
  <2>4. EvenOutsidePut'
    BY <2>2 DEF EvenOutsidePut
  <2>5. mem'[wslot][CodeWord] \in {NoCode, wcode}
    BY <2>2, CodeStep DEF WriterPlace
  <2>6. CodeWord \notin wleft' => mem'[wslot][CodeWord] = wcode
    BY <2>2, WordsAssumption DEF WriterPlace, Fields
  <2>7. \A g \in Words \ wleft' : mem'[wslot][g] = wval
    BY <2>2, WordsAssumption DEF WriterPlace, Fields
  <2>8. ws0 % 2 = 0 /\ seq'[wslot'] = ws0' + 1
    BY <2>2 DEF WriterPlace
  <2>9. QED
    BY <2>2, <2>3, <2>4, <2>5, <2>6, <2>7, <2>8 DEF WriterPlace
<1>6. CASE StoreEven
  <2>1. /\ wslot \in Slots /\ seq' = [seq EXCEPT ![wslot] = ws0 + 2] /\ wslot' = -1
        /\ ws0 % 2 = 0
    BY <1>6 DEF StoreEven, WriterPlace
  <2>2. (ws0 + 2) % 2 = 0
    BY <2>1, Parity
  <2>3. QED
    BY <2>1, <2>2 DEF WriterPlace, EvenOutsidePut
<1>7. QED
  BY <1>1, <1>2, <1>3, <1>4, <1>5, <1>6, WriterOrNot

(* What a reader has passed stays passed: a code never leaves its slot. *)
LEMMA PlaceStep ==
  ASSUME Ordered, TypeOK, WriterPlace, [Next]_vars, NEW r \in Readers, CopyOf(r), PlaceOf(r)
  PROVE  PlaceOf(r)'
<1> SUFFICES /\ rpc'[r] = "copy" => rs1'[r] % 2 = 0 /\ rs1'[r] <= seq'[At(r)']
             /\ rpc'[r] # "idle" =>
                 \A p \in 0 .. rprobe'[r] - 1 :
                     mem'[Slot(rkey'[r], p)][CodeWord] \notin {NoCode, rkey'[r]}
  BY DEF PlaceOf
<1> USE DEF TypeOK
<1> DEFINE Passed(s) == mem[s][CodeWord] \notin {NoCode, rkey[r]}
<1>1. At(r) \in Slots
  BY SlotInTable DEF At
<1>2. \A s \in Slots : seq'[s] >= seq[s] /\ seq[s] \in Nat
  <2>1. CASE UNCHANGED seq
    BY <2>1
  <2>2. CASE StoreOdd
    BY <2>2 DEF StoreOdd
  <2>3. CASE StoreEven
    BY <2>3 DEF StoreEven
  <2>4. QED
    BY <2>1, <2>2, <2>3, WriterOrNot DEF Claim, Drop, StoreWord, tableVars
<1>3. ASSUME NEW p \in 0 .. rprobe[r] - 1, Passed(Slot(rkey[r], p))
      PROVE  mem'[Slot(rkey[r], p)][CodeWord] \notin {NoCode, rkey[r]}
  <2>1. Slot(rkey[r], p) \in Slots
    BY SlotInTable
  <2>2. QED
    BY <1>3, <2>1, CodeStep
<1>4. CASE UNCHANGED readerVars
  <2>1. At(r)' = At(r)
    BY <1>4 DEF readerVars, At
  <2>2. rpc' = rpc /\ rs1' = rs1 /\ rkey' = rkey /\ rprobe' = rprobe
    BY <1>4 DEF readerVars
  <2>3. rpc[r] # "idle" => \A p \in 0 .. rprobe[r] - 1 : Passed(Slot(rkey[r], p))
    BY DEF PlaceOf
  <2>4. rpc[r] = "copy" => rs1[r] % 2 = 0 /\ rs1[r] <= seq[At(r)]
    BY DEF PlaceOf
  <2>5. rpc[r] = "copy" => rs1[r] <= seq'[At(r)]
    <3>1. rs1[r] \in Nat /\ seq'[At(r)] \in Nat /\ seq[At(r)] \in Nat
      BY <1>1, TypeStep
    <3>2. QED
      BY <2>4, <1>1, <1>2, <3>1
  <2>6. QED
    BY <1>3, <2>1, <2>2, <2>3, <2>4, <2>5
<1>5. CASE \E q \in Readers : Reader(q)
  <2>1. PICK q \in Readers : Reader(q)
    BY <1>5
  <2>2. seq' = seq /\ mem' = mem
    BY <2>1 DEF Reader, GetStep, BeginGet, LoadSeq1, ReadWord, LoadSeq2, tableVars
  <2>3. CASE q # r
    <3>1. At(r)' = At(r)
      BY <2>1, <2>3, OneReaderMoves DEF At
    <3>2. QED
      BY <2>1, <2>2, <2>3, <3>1, OneReaderMoves DEF PlaceOf
  <2>4. CASE q = r /\ \E c \in Codes : BeginGet(r, c)
    BY <2>4 DEF BeginGet
  <2>5. CASE q = r /\ LoadSeq1(r)
    <3>1. CASE Retry(r)
      BY <3>1 DEF Retry, Answer
    <3>2. CASE ~Retry(r)
      <4>1. /\ rpc[r] = "seq1" /\ rs1'[r] = seq[At(r)] /\ seq[At(r)] % 2 = 0
            /\ rkey' = rkey /\ rprobe' = rprobe
        BY <2>5, <3>2, <1>1 DEF LoadSeq1
      <4>2. At(r)' = At(r)
        BY <4>1 DEF At
      <4>3. QED
        BY <4>1, <4>2, <2>2, <1>1 DEF PlaceOf
    <3>3. QED
      BY <3>1, <3>2
  <2>6. CASE q = r /\ \E f \in Fields : ReadWord(r, f)
    BY <2>6, <2>2 DEF ReadWord, At, PlaceOf
  <2>7. CASE q = r /\ LoadSeq2(r)
    <3>1. rpc[r] = "copy" /\ rkey' = rkey
      BY <2>7 DEF LoadSeq2
    <3>2. CASE Retry(r)
      BY <3>2 DEF Retry, Answer
    <3>3. CASE \E a : Answer(r, a)
      BY <3>3 DEF Answer
    <3>4. CASE NextSlot(r) /\ ~Retry(r)
      <4>1. /\ rprobe'[r] = rprobe[r] + 1 /\ rpc'[r] = "seq1"
            /\ seq[At(r)] = rs1[r] /\ rbuf[r][CodeWord] \notin {NoCode, rkey[r], Unread}
        BY <2>7, <3>4 DEF LoadSeq2, NextSlot, Fields, Answer
      <4>2. Passed(Slot(rkey[r], rprobe[r]))
        BY <3>1, <4>1 DEF CopyOf, Fields, At
      <4>3. \A p \in 0 .. rprobe[r] - 1 : Passed(Slot(rkey[r], p))
        BY <3>1 DEF PlaceOf
      <4>4. \A p \in 0 .. rprobe'[r] - 1 : Passed(Slot(rkey[r], p))
        <5>1. TAKE p \in 0 .. rprobe'[r] - 1
        <5>2. p \in 0 .. rprobe[r] - 1 \/ p = rprobe[r]
          BY <4>1, ProbeNumbers, OneMore
        <5>3. CASE p = rprobe[r]
          BY <4>2, <5>3
        <5>4. CASE p \in 0 .. rprobe[r] - 1
          BY <4>3, <5>4
        <5>5. QED
          BY <5>2, <5>3, <5>4
      <4>5. QED
        BY <4>1, <4>4, <3>1, <2>2
    <3>5. QED
      BY <2>7, <3>2, <3>3, <3>4 DEF LoadSeq2
  <2>8. QED
    BY <2>1, <2>3, <2>4, <2>5, <2>6, <2>7 DEF Reader, GetStep
<1>6. QED
  BY <1>4, <1>5, ReadersUnmoved, WriterOrNot DEF Next, Writer, PutStep, vars

(* The inductive invariant: an even slot is published, a copy begun at an     *)
(* even number is current, and every code is on its own probing path.         *)
LEMMA InitInv == Init => Inv
<1> SUFFICES ASSUME Init PROVE Inv
  OBVIOUS
<1> USE SizesAssumption, WordsAssumption DEF Init
<1>1. TypeOK
  <2>1. EmptySlot \in [Fields -> Cells] /\ Unfilled \in [Fields -> Cells \cup {Unread}]
    BY DEF EmptySlot, Unfilled, Cells
  <2>2. /\ \A s \in Slots : mem[s][CodeWord] = NoCode
        /\ \A s \in Slots, f \in Words : mem[s][f] = NoQuote
        /\ \A r \in Readers, f \in Words : rbuf[r][f] = Unread
    BY DEF EmptySlot, Unfilled, Fields
  <2>3. QED
    BY <2>1, <2>2 DEF TypeOK
<1>2. \A s \in Slots : mem[s][CodeWord] = NoCode /\ seq[s] % 2 = 0
  BY DEF EmptySlot, Fields
<1>3. QED
  BY <1>1, <1>2 DEF Inv, WriterInv, ProbePaths, SlotsPublished, CopyOf, PlaceOf, WriterPlace,
                    EvenOutsidePut

(* The invariant is inductive. *)
LEMMA InvStep == ASSUME Ordered PROVE Inv /\ [Next]_vars => Inv'
<1> SUFFICES ASSUME Inv, [Next]_vars PROVE Inv'
  OBVIOUS
<1>1. WriterInv'
  BY TypeStep, ProbePathsStep, SlotsPublishedStep, WriterPlaceStep DEF Inv, WriterInv
<1>2. \A r \in Readers : CopyOf(r)' /\ PlaceOf(r)'
  BY CopyStep, PlaceStep DEF Inv, WriterInv
<1>3. QED
  BY <1>1, <1>2 DEF Inv

(* The table's types, for every size of table and number of processes. *)
THEOREM TableType == Spec => []TypeOK
<1>1. Init => TypeOK
  BY InitInv DEF Inv, WriterInv
<1>2. QED
  BY <1>1, TypeStep, PTL DEF Spec

(* The sequence lock's invariant: ProbePaths, SlotsPublished, CopiesCurrent   *)
(* and Places hold throughout.                                                *)
THEOREM TableInvariant ==
  ASSUME Ordered
  PROVE  Spec => [](ProbePaths /\ SlotsPublished /\ CopiesCurrent /\ Places)
<1>1. Inv => ProbePaths /\ SlotsPublished /\ CopiesCurrent /\ Places
  BY DEF Inv, WriterInv, CopyOf, PlaceOf, CopiesCurrent, Places, ReaderPlace
<1>2. QED
  BY <1>1, InitInv, InvStep, PTL DEF Spec

(* Of these, what the writer alone keeps: the early return of Get at an empty *)
(* slot is right, and no code has two slots.                                  *)
THEOREM TableProbePaths == ASSUME Ordered PROVE Spec => []ProbePaths
BY TableInvariant, PTL

(* A slot outside a Put is the payload last published for its code, and every *)
(* code ever published keeps a slot.                                          *)
THEOREM TableSlotsPublished == ASSUME Ordered PROVE Spec => []SlotsPublished
BY TableInvariant, PTL

-----------------------------------------------------------------------------
(* Outside a Put's odd numbers everything is published. *)
LEMMA EvenIsPublished == ASSUME WriterInv PROVE EvenPublished /\ CodesKept
<1> USE DEF WriterInv, TypeOK
<1>1. CodesKept
  BY DEF SlotsPublished, CodesKept
<1>2. ASSUME NEW s \in Slots, seq[s] % 2 = 0 PROVE ~Writing(s)
  <2>1. SUFFICES ASSUME s = wslot PROVE wleft = Fields
    BY DEF Writing
  <2>2. wslot # -1 /\ seq[wslot] \in {ws0, ws0 + 1} /\ ws0 % 2 = 0 /\ ws0 \in Nat
    BY <2>1 DEF WriterPlace, Slots
  <2>3. seq[s] # ws0 + 1
    BY <1>2, <2>2, Parity
  <2>4. QED
    BY <2>1, <2>2, <2>3 DEF WriterPlace
<1>3. EvenPublished
  BY <1>2 DEF SlotsPublished, EvenPublished
<1>4. QED
  BY <1>1, <1>3

(* What a Get answers at its second load of seq. *)
LEMMA AnswerIsCurrent ==
  ASSUME TypeOK, ProbePaths, EvenPublished, CodesKept,
         NEW r \in Readers, CopyOf(r), PlaceOf(r), LoadSeq2(r), rpc'[r] = "idle"
  PROVE  rout'[r] \in {published[rkey[r]], GaveUp}
<1> USE DEF TypeOK
<1> DEFINE s == At(r)
<1>1. s \in Slots /\ rkey[r] \in Codes
  BY SlotInTable DEF At
<1>2. CASE Retry(r)
  BY <1>2 DEF Retry, Answer
<1>3. CASE ~Retry(r)
  <2>1. rpc[r] = "copy" /\ seq[s] = rs1[r] /\ \A f \in Fields : rbuf[r][f] # Unread
    BY <1>3 DEF LoadSeq2
  <2>2. \A f \in Fields : rbuf[r][f] = mem[s][f]
    BY <2>1 DEF CopyOf
  <2>3. seq[s] % 2 = 0
    BY <2>1 DEF PlaceOf
  <2>4. CASE rbuf[r][CodeWord] = NoCode
    <3>1. mem[s][CodeWord] = NoCode
      BY <2>2, <2>4 DEF Fields
    <3>2. ASSUME published[rkey[r]] # Absent PROVE FALSE
      <4>1. PICK t \in Slots : mem[t][CodeWord] = rkey[r]
        BY <1>1, <3>2 DEF CodesKept
      <4>2. OnPath(rkey[r], t)
        BY <1>1, <4>1, ValuesAssumption DEF ProbePaths
      <4>3. PICK d \in 0 .. Count - 1 :
              /\ t = Slot(rkey[r], d)
              /\ \A e \in 0 .. d - 1 :
                    mem[Slot(rkey[r], e)][CodeWord] \notin {NoCode, rkey[r]}
        BY <4>2 DEF OnPath
      <4>4. d \notin 0 .. rprobe[r] - 1
        BY <2>1, <4>1, <4>3 DEF PlaceOf
      <4>5. rprobe[r] \notin 0 .. d - 1
        BY <3>1, <4>3 DEF At
      <4>6. d = rprobe[r]
        <5>1. d \in Nat /\ rprobe[r] \in Nat
          BY SizesAssumption
        <5>2. QED
          BY <4>4, <4>5, <5>1, Ordering
      <4>7. QED
        BY <1>1, <3>1, <4>1, <4>3, <4>6, ValuesAssumption DEF At
    <3>3. NoCode # rkey[r]
      BY <1>1, ValuesAssumption
    <3>4. Answer(r, Absent)
      BY <1>3, <2>4, <3>3 DEF LoadSeq2
    <3>5. QED
      BY <3>2, <3>4 DEF Answer
  <2>5. CASE rbuf[r][CodeWord] = rkey[r]
    <3>1. Answer(r, Copied(r))
      BY <1>1, <1>3, <2>5, ValuesAssumption DEF LoadSeq2
    <3>2. mem[s][CodeWord] = rkey[r] /\ rkey[r] # NoCode
      BY <1>1, <2>2, <2>5, ValuesAssumption DEF Fields
    <3>3. published[rkey[r]] = [f \in Words |-> mem[s][f]]
      <4>1. \A t \in Slots :
              mem[t][CodeWord] # NoCode /\ seq[t] % 2 = 0 =>
                published[mem[t][CodeWord]] = [f \in Words |-> mem[t][f]]
        BY DEF EvenPublished
      <4>2. published[mem[s][CodeWord]] = [f \in Words |-> mem[s][f]]
        BY <1>1, <2>3, <3>2, <4>1
      <4>3. QED
        BY <3>2, <4>2
    <3>4. Copied(r) = [f \in Words |-> mem[s][f]]
      BY <2>2 DEF Copied, Fields
    <3>5. rout'[r] = Copied(r)
      BY <3>1 DEF Answer
    <3>6. QED
      BY <3>3, <3>4, <3>5
  <2>6. CASE rbuf[r][CodeWord] \notin {NoCode, rkey[r]}
    <3>1. NextSlot(r)
      BY <1>3, <2>6 DEF LoadSeq2
    <3>2. rpc'[r] = "seq1"
      BY <1>3, <3>1 DEF NextSlot
    <3>3. QED
      BY <3>2
  <2>7. QED
    BY <2>4, <2>5, <2>6
<1>4. QED
  BY <1>2, <1>3

(* The readers' part of the map's state. *)
Calling == [r \in Readers |-> rpc[r] # "idle"]

(* Between its call and its return a Get changes nothing the map shows. *)
LEMMA GetInside ==
  ASSUME TypeOK, NEW r \in Readers, rpc[r] # "idle", rpc'[r] # "idle",
         LoadSeq1(r) \/ LoadSeq2(r) \/ \E f \in Fields : ReadWord(r, f)
  PROVE  Calling' = Calling /\ UNCHANGED <<published, rkey, rout>>
<1> USE DEF TypeOK, Calling
<1>1. UNCHANGED <<published, rkey, rout>>
  BY DEF LoadSeq1, LoadSeq2, ReadWord, Retry, NextSlot, Answer, tableVars
<1>2. \A q \in Readers : q # r => rpc'[q] = rpc[q]
  BY DEF LoadSeq1, LoadSeq2, ReadWord, Retry, NextSlot, Answer
<1>3. QED
  BY <1>1, <1>2

(* Its last step is the map's Return. *)
LEMMA GetReturn ==
  ASSUME TypeOK, NEW r \in Readers, rpc[r] # "idle", rpc'[r] = "idle",
         LoadSeq1(r) \/ LoadSeq2(r),
         rout'[r] \in {published[rkey[r]], GaveUp}
  PROVE  Map!Return(r)
<1> USE DEF TypeOK
<1>1. UNCHANGED <<published, rkey>>
  BY DEF LoadSeq1, LoadSeq2, tableVars
<1>2. rpc' = [rpc EXCEPT ![r] = "idle"] /\ rout' = [rout EXCEPT ![r] = rout'[r]]
  BY DEF LoadSeq1, LoadSeq2, Retry, NextSlot, Answer
<1>3. Calling[r] /\ Calling' = [Calling EXCEPT ![r] = FALSE]
  BY <1>2 DEF Calling
<1>4. QED
  BY <1>1, <1>2, <1>3 DEF Map!Return, Calling

(* Every step is a step of the map or invisible to it. *)
LEMMA MapStep ==
  ASSUME Ordered PROVE Inv /\ [Next]_vars => [Map!AbsNext]_(Map!absVars)
<1> SUFFICES ASSUME Inv, [Next]_vars PROVE [Map!AbsNext]_(Map!absVars)
  OBVIOUS
<1> USE DEF Inv, WriterInv
<1>1. CASE UNCHANGED <<published, rpc, rkey, rout>>
  BY <1>1 DEF Map!absVars
<1>2. CASE StoreEven
  <2>1. Map!Put(wcode, POD(wval))
    BY <1>2 DEF StoreEven, readerVars, Map!Put
  <2>2. wcode \in Codes /\ POD(wval) \in PODs
    BY DEF TypeOK, POD, PODs
  <2>3. QED
    BY <2>1, <2>2 DEF Map!AbsNext
<1>3. CASE \E r \in Readers, c \in Codes : BeginGet(r, c)
  <2>1. PICK r \in Readers, c \in Codes : BeginGet(r, c)
    BY <1>3
  <2>2. Calling[r] = FALSE /\ Calling' = [Calling EXCEPT ![r] = TRUE]
    BY <2>1 DEF BeginGet, Calling, TypeOK
  <2>3. Map!Call(r, c)
    BY <2>1, <2>2 DEF BeginGet, Map!Call, Calling, tableVars
  <2>4. QED
    BY <2>3 DEF Map!AbsNext
<1>4. CASE \E r \in Readers : GetStep(r)
  <2>1. PICK r \in Readers : GetStep(r)
    BY <1>4
  <2>2. rpc[r] # "idle"
    BY <2>1 DEF GetStep, LoadSeq1, LoadSeq2, ReadWord
  <2>3. CASE rpc'[r] # "idle"
    BY <2>1, <2>2, <2>3, GetInside DEF GetStep, Map!absVars, Calling
  <2>4. CASE rpc'[r] = "idle"
    <3>1. CASE LoadSeq1(r)
      <4>1. rout'[r] = GaveUp
        BY <2>4, <3>1 DEF LoadSeq1, Retry, Answer, TypeOK
      <4>2. QED
        BY <2>2, <2>4, <3>1, <4>1, GetReturn DEF Map!AbsNext
    <3>2. CASE LoadSeq2(r)
      BY <2>2, <2>4, <3>2, EvenIsPublished, AnswerIsCurrent, GetReturn DEF Map!AbsNext
    <3>3. CASE \E f \in Fields : ReadWord(r, f)
      BY <2>2, <2>4, <3>3 DEF ReadWord
    <3>4. QED
      BY <2>1, <3>1, <3>2, <3>3 DEF GetStep
  <2>5. QED
    BY <2>3, <2>4
<1>5. QED
  BY <1>1, <1>2, <1>3, <1>4
     DEF Next, Writer, PutStep, Reader, Claim, Drop, StoreOdd, StoreWord, readerVars, vars

(* The snapshot table is a linearizable map: every Get that answers true      *)
(* answers one whole payload, the one published last when it compared the     *)
(* sequence numbers, and a miss is a code that is not there.                  *)
THEOREM TableImplementsMap == ASSUME Ordered PROVE Spec => ImplementsMap
<1>1. Init => Map!AbsInit
  BY DEF Init, Map!AbsInit
<1>2. QED
  BY <1>1, InitInv, InvStep, MapStep, PTL DEF Spec, ImplementsMap, Map!AbsSpec
=============================================================================
