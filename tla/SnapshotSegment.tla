--------------------------- MODULE SnapshotSegment ---------------------------
(* The life of the shared-memory segment around the snapshot table            *)
(* (src/shm/segment.cpp): fetcher processes create it, die and create it      *)
(* again over the same path, while reading processes keep their mapping.      *)
(* flock and mmap are the kernel's: a lock is free or held by one process and *)
(* goes away with it; what was stored in the mapping stays.                   *)

EXTENDS SnapshotTable

CONSTANTS
    Writers,    \* processes that may run fetch-quotes on the path
    NoOne,      \* the lock is free
    SeqWord,    \* the sequence number, as one of the words memset clears
    MaxCreates  \* bound: successful Creates explored

ASSUME SegmentAssumption ==
    NoOne \notin Writers /\ SeqWord \notin Fields /\ MaxCreates \in Nat

VARIABLES
    lock,       \* holder of the exclusive flock, or NoOne
    stage,      \* [Writers -> how far Create has come; "run" = it returned]
    magic,      \* header.magic is written
    generation, \* header.generation
    layout,     \* header.snap_slots and snap_off are written
    clearing,   \* slot the memset of Create works on
    uncleared,  \* the words of that slot it has not reached
    mount,      \* [Readers -> "none" / "whole" / "partial"]: what OpenReadOnly bound
    whole,      \* history: the last memset that began has come to its end
    disturbed   \* history: a memset ran during the reader's current Get, or the
                \* last one before it was cut short and has left its half behind

createVars == <<lock, stage, magic, generation, layout, clearing, uncleared>>
segVars == <<createVars, mount, whole, disturbed>>
allVars == <<vars, segVars>>

SegInit ==
    /\ Init
    /\ lock = NoOne
    /\ stage = [p \in Writers |-> "out"]
    /\ magic = FALSE /\ generation = 0 /\ layout = FALSE
    /\ clearing = 0 /\ uncleared = {}
    /\ mount = [r \in Readers |-> "none"]
    /\ whole = TRUE
    /\ disturbed = [r \in Readers |-> FALSE]

To(p, from, next) == stage[p] = from /\ stage' = [stage EXCEPT ![p] = next]

(* Mutant of Acquire: nobody asks for the lock. *)
AcquireShared(p) ==
    /\ generation < MaxCreates
    /\ To(p, "out", "magic")
    /\ lock' = p
    /\ UNCHANGED <<vars, magic, generation, layout, clearing, uncleared, mount, whole, disturbed>>

(* open, flock(LOCK_EX | LOCK_NB), ftruncate, mmap; the file grows by zeros.  *)
(* A process that does not get the lock leaves without touching anything.     *)
Acquire(p) ==
    /\ lock = NoOne /\ generation < MaxCreates
    /\ To(p, "out", "magic")
    /\ lock' = p
    /\ UNCHANGED <<vars, magic, generation, layout, clearing, uncleared, mount, whole, disturbed>>

(* The header, field by field, in the order of the source; the generation of  *)
(* a segment left by an earlier process is read before magic is written.      *)
StampMagic(p) ==
    /\ To(p, "magic", "generation")
    /\ magic' = TRUE
    /\ generation' = IF magic THEN generation ELSE 0
    /\ UNCHANGED <<vars, lock, layout, clearing, uncleared, mount, whole, disturbed>>

StoreGeneration(p) ==
    /\ To(p, "generation", "layout")
    /\ generation' = generation + 1
    /\ UNCHANGED <<vars, lock, magic, layout, clearing, uncleared, mount, whole, disturbed>>

(* Mutant of StoreLayout: a segment that is there already is not cleared. *)
StoreLayoutOnly(p) ==
    /\ To(p, "layout", IF generation > 1 THEN "run" ELSE "clear")
    /\ layout' = TRUE
    /\ clearing' = 0 /\ uncleared' = Fields \cup {SeqWord}
    /\ UNCHANGED <<vars, lock, magic, generation, mount, whole, disturbed>>

StoreLayout(p) ==
    /\ To(p, "layout", "clear")
    /\ layout' = TRUE
    /\ clearing' = 0 /\ uncleared' = Fields \cup {SeqWord}
    /\ UNCHANGED <<vars, lock, magic, generation, mount, whole, disturbed>>

(* memset over the slots, one word at a time, under the readers' eyes. *)
ClearWord(p, f) ==
    /\ stage[p] = "clear" /\ f \in uncleared
    /\ uncleared' = uncleared \ {f}
    /\ \/ /\ f = SeqWord
          /\ seq' = [seq EXCEPT ![clearing] = 0]
          /\ UNCHANGED mem
       \/ /\ f # SeqWord
          /\ mem' = [mem EXCEPT ![clearing][f] = EmptySlot[f]]
          /\ UNCHANGED seq
    /\ whole' = FALSE
    /\ disturbed' = [r \in Readers |-> TRUE]
    /\ UNCHANGED <<writerVars, published, readerVars, lock, stage, magic,
                   generation, layout, clearing, mount>>

ClearNextSlot(p) ==
    /\ stage[p] = "clear" /\ uncleared = {} /\ clearing + 1 < Count
    /\ clearing' = clearing + 1 /\ uncleared' = Fields \cup {SeqWord}
    /\ UNCHANGED <<vars, lock, stage, magic, generation, layout, mount, whole, disturbed>>

(* Create returns; from here on the process calls Put. *)
Created(p) ==
    /\ uncleared = {} /\ clearing + 1 = Count
    /\ To(p, "clear", "run")
    /\ published' = [c \in Codes |-> Absent]
    /\ whole' = TRUE
    /\ UNCHANGED <<seq, mem, writerVars, readerVars, lock, magic, generation,
                   layout, clearing, uncleared, mount, disturbed>>

Create(p) ==
    \/ Acquire(p) \/ StampMagic(p) \/ StoreGeneration(p) \/ StoreLayout(p)
    \/ ClearNextSlot(p) \/ Created(p)
    \/ \E f \in Fields \cup {SeqWord} : ClearWord(p, f)

WriterStep(p) == stage[p] = "run" /\ Writer /\ UNCHANGED segVars

(* Mutant of Stop: the slot of a Put under way is left even. *)
StopEven(p) ==
    /\ stage[p] # "out"
    /\ stage' = [stage EXCEPT ![p] = "out"]
    /\ lock' = NoOne
    /\ seq' = IF wslot = -1 THEN seq ELSE [seq EXCEPT ![wslot] = ws0 + 2]
    /\ wslot' = -1 /\ wleft' = {}
    /\ uncleared' = {}
    /\ UNCHANGED <<mem, wcode, wval, ws0, puts, published, readerVars,
                   magic, generation, layout, clearing, mount, whole, disturbed>>

(* The process dies, at any point, or ends and runs ~Segment: the kernel      *)
(* drops the flock, a Put under way stops half-way, the mapping stays.        *)
Stop(p) ==
    /\ stage[p] # "out"
    /\ stage' = [stage EXCEPT ![p] = "out"]
    /\ lock' = NoOne
    /\ wslot' = -1 /\ wleft' = {}
    /\ uncleared' = {}
    /\ UNCHANGED <<seq, mem, wcode, wval, ws0, puts, published, readerVars,
                   magic, generation, layout, clearing, mount, whole, disturbed>>

(* OpenReadOnly checks magic, version and bounds; a header whose layout words *)
(* are still zero passes these checks and binds no slots or the wrong place.  *)
OpenReadOnly(r) ==
    /\ mount[r] = "none" /\ magic
    /\ mount' = [mount EXCEPT ![r] = IF layout THEN "whole" ELSE "partial"]
    /\ UNCHANGED <<vars, createVars, whole, disturbed>>

CloseMapping(r) ==
    /\ mount[r] # "none" /\ rpc[r] = "idle"
    /\ mount' = [mount EXCEPT ![r] = "none"]
    /\ UNCHANGED <<vars, createVars, whole, disturbed>>

SegBeginGet(r, c) ==
    /\ mount[r] = "whole" /\ BeginGet(r, c)
    /\ disturbed' = [disturbed EXCEPT ![r] = ~whole]
    /\ UNCHANGED <<createVars, mount, whole>>

(* With count_ = 0 Get answers false at once; at the wrong offset no code     *)
(* matches.                                                                   *)
GetOnPartial(r, c) ==
    /\ mount[r] = "partial" /\ rpc[r] = "idle"
    /\ rkey' = [rkey EXCEPT ![r] = c]
    /\ rout' = [rout EXCEPT ![r] = GaveUp]
    /\ UNCHANGED <<tableVars, rpc, rprobe, rretry, rs1, rbuf, segVars>>

SegNext ==
    \/ \E p \in Writers : Create(p) \/ WriterStep(p) \/ Stop(p)
    \/ \E r \in Readers :
        \/ OpenReadOnly(r) \/ CloseMapping(r)
        \/ GetStep(r) /\ UNCHANGED segVars
        \/ \E c \in Codes : SegBeginGet(r, c) \/ GetOnPartial(r, c)

SegSpec == SegInit /\ [][SegNext]_allVars

-----------------------------------------------------------------------------
(* Types of the header and of the processes over it. *)
SegTypeOK ==
    /\ TypeOK
    /\ lock \in Writers \cup {NoOne}
    /\ stage \in [Writers -> {"out", "magic", "generation", "layout", "clear", "run"}]
    /\ magic \in BOOLEAN /\ layout \in BOOLEAN /\ whole \in BOOLEAN
    /\ generation \in 0 .. MaxCreates
    /\ clearing \in Slots /\ uncleared \subseteq Fields \cup {SeqWord}
    /\ mount \in [Readers -> {"none", "whole", "partial"}]
    /\ disturbed \in [Readers -> BOOLEAN]

(* Whoever is past the flock in Create holds it, so two fetchers never write  *)
(* the same segment: the seqlock's one-writer rule across processes and their *)
(* deaths.                                                                    *)
OneWriter == \A p \in Writers : stage[p] # "out" => lock = p

(* A writer starts its Puts from a table that keeps the invariants of the     *)
(* probing and of the sequence lock, also when the process before it died in  *)
(* the middle of a Put or of the memset.                                      *)
RunsOnSoundTable ==
    \A p \in Writers : stage[p] = "run" =>
        /\ ProbePaths /\ SlotsPublished
        /\ \A s \in Slots : s # wslot => seq[s] % 2 = 0

(* A Get answers as the map does, whatever writers died before or during it:  *)
(* the payload last published, a miss only for a code that is not there, or   *)
(* false after its retries.  Two Gets are excepted: one during which a memset *)
(* of Create ran, and one over a table that a memset cut short by its         *)
(* process's death has left half cleared, until a Create has cleared all of   *)
(* it.  (The number of a dead writer's slot may be cleared to an even 0       *)
(* before the half payload under it: either Get may answer a torn payload.)   *)
AnswersWithinOneGeneration ==
    [][\A r \in Readers :
        rpc[r] = "copy" /\ rpc'[r] = "idle" /\ ~disturbed[r]
            => rout'[r] \in {published[rkey[r]], GaveUp}]_allVars
=============================================================================
