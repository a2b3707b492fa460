---------------------------- MODULE SnapshotTable ----------------------------
(* The lock-free snapshot table of src/shm/snapshot.cpp: open addressing with *)
(* linear probing over fixed slots, each slot guarded by a sequence lock, one *)
(* writer (the quote fetcher) and any number of reading processes.            *)
(*                                                                            *)
(* A slot is its sequence number plus the plain memory behind it: the code    *)
(* word and the words of the QuotePOD, read and written one word at a time.   *)
(* Ordered says what keeps the writer's plain stores behind its odd store:    *)
(* TRUE for a build on x86-64 (total store order), FALSE for no more than the *)
(* C++ release store of the source guarantees (an ARM64 build): a release     *)
(* store orders what comes before it, not what comes after it.                *)

EXTENDS Integers, FiniteSets

CONSTANTS
    Codes,     \* codes of legal length, 1..7; Put and Get ignore all others
    Words,     \* the words of a QuotePOD
    Quotes,    \* what a word may hold
    Readers,   \* the reading processes
    Count,     \* number of slots
    Hash,      \* home slot of a code: FNV-1a masked
    Retries,   \* 8 in the source
    MaxPuts,   \* bound: Put calls explored
    Ordered,   \* whether the odd store is visible before the payload
    CodeWord,  \* the slot's code[8]
    NoCode,    \* code of an empty slot
    NoQuote,   \* content of a zeroed payload word
    Unread,    \* a word the reader has not copied yet
    Absent, GaveUp

ASSUME SizesAssumption ==
    /\ Count \in Nat \ {0}
    /\ Retries \in Nat \ {0}
    /\ MaxPuts \in Nat
    /\ Ordered \in BOOLEAN
ASSUME HashAssumption == Hash \in [Codes -> 0 .. Count - 1]
ASSUME WordsAssumption == Words # {} /\ CodeWord \notin Words
ASSUME ValuesAssumption ==
    /\ NoCode \notin Codes
    /\ NoQuote \notin Quotes
    /\ Unread \notin Codes \cup {NoCode} \cup Quotes \cup {NoQuote}

Slots == 0 .. Count - 1
Fields == Words \cup {CodeWord}
Cells == Codes \cup {NoCode} \cup Quotes \cup {NoQuote}
PODs == [Words -> Quotes \cup {NoQuote}]

(* The complete payload a Put of v stores. *)
POD(v) == [f \in Words |-> v]

ASSUME AnswersAssumption ==
    Absent \notin PODs /\ GaveUp \notin PODs /\ Absent # GaveUp

VARIABLES
    seq,        \* [Slots -> Nat]: even = stable, odd = being written
    mem,        \* [Slots -> [Fields -> Cells]]: plain memory
    wslot,      \* slot of the Put in progress, or -1
    wcode, wval,\* its arguments
    ws0,        \* the sequence number it found
    wleft,      \* its plain stores not yet visible
    puts,       \* Put calls so far (bound)
    published,  \* history: per code, the payload of its latest finished Put
    rpc,        \* reader: "idle", "seq1" (before the s1 load), "copy"
    rkey, rprobe, rretry, rs1, rbuf, rout

writerVars == <<wslot, wcode, wval, ws0, wleft, puts>>
readerVars == <<rpc, rkey, rprobe, rretry, rs1, rbuf, rout>>
vars == <<seq, mem, writerVars, published, readerVars>>

EmptySlot == [f \in Fields |-> IF f = CodeWord THEN NoCode ELSE NoQuote]
Unfilled == [f \in Fields |-> Unread]
Slot(c, p) == (Hash[c] + p) % Count

Init ==
    /\ seq = [s \in Slots |-> 0]
    /\ mem = [s \in Slots |-> EmptySlot]
    /\ wslot = -1 /\ ws0 = 0 /\ wleft = {} /\ puts = 0
    /\ wcode \in Codes /\ wval \in Quotes
    /\ published = [c \in Codes |-> Absent]
    /\ rpc = [r \in Readers |-> "idle"]
    /\ rkey \in [Readers -> Codes]
    /\ rprobe = [r \in Readers |-> 0]
    /\ rretry = [r \in Readers |-> 0]
    /\ rs1 = [r \in Readers |-> 0]
    /\ rbuf = [r \in Readers |-> Unfilled]
    /\ rout = [r \in Readers |-> Absent]

-----------------------------------------------------------------------------
(* The writer. *)

(* The slot the probing loop of Put stops at: the first one, from the home    *)
(* slot on, that is empty or already holds the code.  The writer alone        *)
(* changes code words, so the loop is one step.                               *)
Stops(c, p) == mem[Slot(c, p)][CodeWord] \in {NoCode, c}

(* Mutant of FirstStop: probing begins one slot late. *)
FirstStopLate(c, p) == p > 0 /\ Stops(c, p) /\ \A d \in 1 .. p - 1 : ~Stops(c, d)

FirstStop(c, p) == Stops(c, p) /\ \A d \in 0 .. p - 1 : ~Stops(c, d)

Claim(c, v) ==
    /\ wslot = -1 /\ puts < MaxPuts
    /\ \E p \in 0 .. Count - 1 :
        /\ FirstStop(c, p)
        /\ wslot' = Slot(c, p)
        /\ ws0' = seq[Slot(c, p)]
    /\ wcode' = c /\ wval' = v /\ wleft' = Fields /\ puts' = puts + 1
    /\ UNCHANGED <<seq, mem, published, readerVars>>

(* Every slot holds another code: the quote is dropped. *)
Drop(c) ==
    /\ wslot = -1 /\ puts < MaxPuts
    /\ \A p \in 0 .. Count - 1 : ~Stops(c, p)
    /\ puts' = puts + 1
    /\ UNCHANGED <<seq, mem, wslot, wcode, wval, ws0, wleft, published, readerVars>>

StoreOdd ==
    /\ wslot # -1 /\ seq[wslot] = ws0
    /\ seq' = [seq EXCEPT ![wslot] = ws0 + 1]
    /\ UNCHANGED <<mem, writerVars, published, readerVars>>

(* Mutant of StoreWord: the payload does not wait for the odd store. *)
StoreWordAnyTime(f) ==
    /\ wslot # -1 /\ f \in wleft
    /\ mem' = [mem EXCEPT ![wslot][f] = IF f = CodeWord THEN wcode ELSE wval]
    /\ wleft' = wleft \ {f}
    /\ UNCHANGED <<seq, wslot, wcode, wval, ws0, puts, published, readerVars>>

StoreWord(f) ==
    /\ wslot # -1 /\ f \in wleft
    /\ Ordered => seq[wslot] = ws0 + 1
    /\ mem' = [mem EXCEPT ![wslot][f] = IF f = CodeWord THEN wcode ELSE wval]
    /\ wleft' = wleft \ {f}
    /\ UNCHANGED <<seq, wslot, wcode, wval, ws0, puts, published, readerVars>>

(* Mutant of StoreEven: it does not wait for the payload.                     *)
StoreEvenEarly ==
    /\ wslot # -1 /\ seq[wslot] = ws0 + 1
    /\ seq' = [seq EXCEPT ![wslot] = ws0 + 2]
    /\ published' = [published EXCEPT ![wcode] = POD(wval)]
    /\ wslot' = -1
    /\ UNCHANGED <<mem, wcode, wval, ws0, wleft, puts, readerVars>>

StoreEven ==
    /\ wslot # -1 /\ wleft = {} /\ seq[wslot] = ws0 + 1
    /\ seq' = [seq EXCEPT ![wslot] = ws0 + 2]
    /\ published' = [published EXCEPT ![wcode] = POD(wval)]
    /\ wslot' = -1
    /\ UNCHANGED <<mem, wcode, wval, ws0, wleft, puts, readerVars>>

PutStep == StoreOdd \/ StoreEven \/ \E f \in Fields : StoreWord(f)
Writer ==
    \/ \E c \in Codes : Drop(c) \/ \E v \in Quotes : Claim(c, v)
    \/ PutStep

-----------------------------------------------------------------------------
(* A reader. *)

tableVars == <<seq, mem, writerVars, published>>

BeginGet(r, c) ==
    /\ rpc[r] = "idle"
    /\ rpc' = [rpc EXCEPT ![r] = "seq1"]
    /\ rkey' = [rkey EXCEPT ![r] = c]
    /\ rprobe' = [rprobe EXCEPT ![r] = 0]
    /\ rretry' = [rretry EXCEPT ![r] = 0]
    /\ UNCHANGED <<tableVars, rs1, rbuf, rout>>

Answer(r, a) ==
    /\ rpc' = [rpc EXCEPT ![r] = "idle"]
    /\ rout' = [rout EXCEPT ![r] = a]
    /\ UNCHANGED <<rprobe, rretry>>

(* Mutant of Retry: the rounds are not counted. *)
RetryForever(r) ==
    /\ rprobe' = [rprobe EXCEPT ![r] = 0]
    /\ rpc' = [rpc EXCEPT ![r] = "seq1"]
    /\ UNCHANGED <<rretry, rout>>

(* The outer loop's next round, or its end. *)
Retry(r) ==
    \/ /\ rretry[r] + 1 < Retries
       /\ rretry' = [rretry EXCEPT ![r] = @ + 1]
       /\ rprobe' = [rprobe EXCEPT ![r] = 0]
       /\ rpc' = [rpc EXCEPT ![r] = "seq1"]
       /\ UNCHANGED rout
    \/ rretry[r] + 1 = Retries /\ Answer(r, GaveUp)

(* The inner loop's next slot; past the last one the outer loop goes on. *)
NextSlot(r) ==
    \/ /\ rprobe[r] + 1 < Count
       /\ rprobe' = [rprobe EXCEPT ![r] = @ + 1]
       /\ rpc' = [rpc EXCEPT ![r] = "seq1"]
       /\ UNCHANGED <<rretry, rout>>
    \/ rprobe[r] + 1 = Count /\ Retry(r)

At(r) == Slot(rkey[r], rprobe[r])

LoadSeq1(r) ==
    /\ rpc[r] = "seq1"
    /\ rs1' = [rs1 EXCEPT ![r] = seq[At(r)]]
    /\ rbuf' = [rbuf EXCEPT ![r] = Unfilled]
    /\ \/ /\ seq[At(r)] % 2 = 0
          /\ rpc' = [rpc EXCEPT ![r] = "copy"]
          /\ UNCHANGED <<rprobe, rretry, rout>>
       \/ seq[At(r)] % 2 = 1 /\ Retry(r)
    /\ UNCHANGED <<tableVars, rkey>>

ReadWord(r, f) ==
    /\ rpc[r] = "copy" /\ rbuf[r][f] = Unread
    /\ rbuf' = [rbuf EXCEPT ![r][f] = mem[At(r)][f]]
    /\ UNCHANGED <<tableVars, rpc, rkey, rprobe, rretry, rs1, rout>>

Copied(r) == [f \in Words |-> rbuf[r][f]]

(* Mutant of LoadSeq2: the numbers are not compared. *)
LoadSeq2Unchecked(r) ==
    /\ rpc[r] = "copy" /\ \A f \in Fields : rbuf[r][f] # Unread
    /\ \/ rbuf[r][CodeWord] = NoCode /\ Answer(r, Absent)
       \/ rbuf[r][CodeWord] = rkey[r] /\ Answer(r, Copied(r))
       \/ rbuf[r][CodeWord] \notin {NoCode, rkey[r]} /\ NextSlot(r)
    /\ UNCHANGED <<tableVars, rkey, rs1, rbuf>>

LoadSeq2(r) ==
    /\ rpc[r] = "copy" /\ \A f \in Fields : rbuf[r][f] # Unread
    /\ \/ seq[At(r)] # rs1[r] /\ Retry(r)
       \/ /\ seq[At(r)] = rs1[r]
          /\ \/ rbuf[r][CodeWord] = NoCode /\ Answer(r, Absent)
             \/ rbuf[r][CodeWord] = rkey[r] /\ Answer(r, Copied(r))
             \/ rbuf[r][CodeWord] \notin {NoCode, rkey[r]} /\ NextSlot(r)
    /\ UNCHANGED <<tableVars, rkey, rs1, rbuf>>

GetStep(r) == LoadSeq1(r) \/ LoadSeq2(r) \/ \E f \in Fields : ReadWord(r, f)
Reader(r) == GetStep(r) \/ \E c \in Codes : BeginGet(r, c)

Next == Writer \/ \E r \in Readers : Reader(r)
Spec == Init /\ [][Next]_vars

(* Only the readers are scheduled: the writer may stop anywhere, for good.    *)
ReaderFairSpec == Spec /\ \A r \in Readers : WF_vars(GetStep(r))

-----------------------------------------------------------------------------
(* Types; the loops of Get stay within Count slots and Retries passes. *)
TypeOK ==
    /\ seq \in [Slots -> Nat]
    /\ mem \in [Slots -> [Fields -> Cells]]
    /\ \A s \in Slots : mem[s][CodeWord] \in Codes \cup {NoCode}
    /\ \A s \in Slots, f \in Words : mem[s][f] \in Quotes \cup {NoQuote}
    /\ wslot \in Slots \cup {-1}
    /\ wcode \in Codes /\ wval \in Quotes /\ ws0 \in Nat
    /\ wleft \subseteq Fields /\ puts \in Nat
    /\ published \in [Codes -> PODs \cup {Absent}]
    /\ rpc \in [Readers -> {"idle", "seq1", "copy"}]
    /\ rkey \in [Readers -> Codes]
    /\ rprobe \in [Readers -> 0 .. Count - 1]
    /\ rretry \in [Readers -> 0 .. Retries - 1]
    /\ rs1 \in [Readers -> Nat]
    /\ rbuf \in [Readers -> [Fields -> Cells \cup {Unread}]]
    /\ \A r \in Readers, f \in Words : rbuf[r][f] \in Quotes \cup {NoQuote, Unread}
    /\ rout \in [Readers -> PODs \cup {Absent, GaveUp}]

(* Writing(s): the plain memory of slot s may differ from what its latest     *)
(* finished Put left there.                                                   *)
Writing(s) == s = wslot /\ wleft # Fields

(* Linear probing finds every code word in the table: the path from the home  *)
(* slot to it holds no empty slot and no second copy of the code (Put never   *)
(* duplicates a code, and the early return of Get at an empty slot is right). *)
OnPath(c, s) ==
    \E d \in 0 .. Count - 1 :
        /\ s = Slot(c, d)
        /\ \A e \in 0 .. d - 1 : mem[Slot(c, e)][CodeWord] \notin {NoCode, c}
ProbePaths ==
    \A s \in Slots :
        mem[s][CodeWord] # NoCode => OnPath(mem[s][CodeWord], s)

(* A slot outside a Put holds the whole payload last published for its code,  *)
(* and a code that was ever published keeps a slot of its own.                *)
SlotsPublished ==
    /\ \A s \in Slots :
        mem[s][CodeWord] # NoCode /\ ~Writing(s) =>
            published[mem[s][CodeWord]] = [f \in Words |-> mem[s][f]]
    /\ \A c \in Codes :
        published[c] # Absent => \E s \in Slots : mem[s][CodeWord] = c

(* As long as the sequence number a reader started from is still there, every *)
(* word it has copied is still what the slot holds: what makes the comparison *)
(* s1 = s2 of Get mean that the copy is whole.                                *)
CopiesCurrent ==
    \A r \in Readers :
        rpc[r] = "copy" /\ seq[At(r)] = rs1[r] =>
            \A f \in Fields : rbuf[r][f] \in {Unread, mem[At(r)][f]}

(* Who is where: the slot of a Put in progress is on its code's path, carries *)
(* what has been stored of it, and is even only before the first store; the   *)
(* sequence number a reader holds is even and never ahead of its slot's, and  *)
(* the slots it walked past belong to other codes for good.                   *)
WriterPlace ==
    wslot # -1 =>
        /\ ws0 % 2 = 0 /\ seq[wslot] \in {ws0, ws0 + 1}
        /\ seq[wslot] = ws0 => wleft = Fields
        /\ OnPath(wcode, wslot)
        /\ mem[wslot][CodeWord] \in {NoCode, wcode}
        /\ CodeWord \notin wleft => mem[wslot][CodeWord] = wcode
        /\ \A f \in Words \ wleft : mem[wslot][f] = wval
EvenOutsidePut == \A s \in Slots : s # wslot => seq[s] % 2 = 0
ReaderPlace ==
    \A r \in Readers :
        /\ rpc[r] = "copy" => rs1[r] % 2 = 0 /\ rs1[r] <= seq[At(r)]
        /\ rpc[r] # "idle" =>
            \A p \in 0 .. rprobe[r] - 1 :
                mem[Slot(rkey[r], p)][CodeWord] \notin {NoCode, rkey[r]}
Places == WriterPlace /\ EvenOutsidePut /\ ReaderPlace

(* The table behaves as the map of SnapshotMap: a Put takes effect when its   *)
(* even store becomes visible, a Get at its second load of seq.  So answers   *)
(* are whole and current, one reader never goes back to an older quote, and a *)
(* miss is never reported for a code that is in the table.                    *)
Map == INSTANCE SnapshotMap WITH
    table <- published, calling <- [r \in Readers |-> rpc[r] # "idle"],
    asked <- rkey, answer <- rout
ImplementsMap == Map!AbsSpec

(* Get is wait-free: it returns although the writer may have stopped in the   *)
(* middle of a Put (a crashed fetcher leaves its slot odd for ever).          *)
GetReturns == \A r \in Readers : rpc[r] # "idle" ~> rpc[r] = "idle"
=============================================================================
