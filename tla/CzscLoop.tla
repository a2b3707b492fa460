------------------------------- MODULE CzscLoop -------------------------------
(* `tdx czsc' (src/src/cli/czsc.cpp) for one code and frequency: round after  *)
(* round RunOneFreq reads the bars (czsc/io/data_loader.cpp), feeds them to a *)
(* CZSC and replaces the stored signals by what it says                       *)
(* (czsc/io/signal_store.cpp).  With --czsc_incremental the CZSC stays and is *)
(* fed what is newer than last_ts; otherwise each round has a new one.  The   *)
(* tasks of a round share nothing that is modelled, and each is one worker's. *)
(* Bars are numbered; CzscEngine has what a CZSC makes of them.               *)

EXTENDS Naturals, Sequences, Filters

CONSTANTS
    MinBars,  \* bars below which a task is passed over: 6
    Parts,    \* INSERT statements of a write
    MaxBars,  \* bound: bars of the source
    MaxFed    \* bound: bars a CZSC has been fed when a connection fails

ASSUME LoopAssumption ==
    /\ MinBars \in Nat \ {0} /\ Parts \in Nat \ {0}
    /\ MaxBars \in Nat /\ MaxFed \in Nat

VARIABLES
    bars,        \* bars begun
    forming,     \* the newest of them is not over
    incremental, \* --czsc_incremental, or --czsc_shm (never changes)
    writes,      \* neither --czsc_shm nor --czsc_dry (never changes)
    pc,          \* "rest" between rounds, "connect", "drop", "insert"
    engine,      \* the bars fed to the CZSC
    initialized, \* state->initialized
    last_ts,     \* state->last_ts, 0 at first
    newest,      \* r.last_ts of the task under way
    table,       \* the stored signals: the bars they are about, and how many parts
    unread,      \* history: the bars that were missing when newer ones were fed
    lost,        \* history: a connection failed with more fed than last_ts's next
    failed       \* history: the last write was broken off by a statement

source == <<bars, forming>>
options == <<incremental, writes>>
stateVars == <<engine, initialized, last_ts>>
history == <<unread, lost, failed>>
loopVars == <<source, options, pc, stateVars, newest, table, history>>

Bar == [dt : 1 .. MaxBars, final : BOOLEAN]
NoTable == [of |-> <<>>, parts |-> 0]

(* The bars of B as the source has them now, in their order. *)
Seen(B) == At([i \in 1 .. bars |-> [dt |-> i, final |-> i < bars \/ ~forming]], B)

LoopInit ==
    /\ bars = 0 /\ forming = FALSE
    /\ incremental \in BOOLEAN /\ writes \in BOOLEAN
    /\ pc = "rest" /\ engine = <<>> /\ initialized = FALSE /\ last_ts = 0
    /\ newest = 0 /\ table = NoTable /\ unread = {}
    /\ lost = FALSE /\ failed = FALSE

-----------------------------------------------------------------------------
(* The source: a bar begins when the one before it is over.                   *)
BarBegins ==
    /\ bars < MaxBars
    /\ bars' = bars + 1 /\ forming' = TRUE
    /\ UNCHANGED <<options, pc, stateVars, newest, table, history>>

BarEnds ==
    /\ forming /\ forming' = FALSE
    /\ UNCHANGED <<bars, options, pc, stateVars, newest, table, history>>

(* A task is over; there is a state to keep last_ts in, or none.              *)
Keep(m) == last_ts' = (IF incremental THEN m ELSE 0) /\ pc' = "rest"

(* update_bar of the bars new, all newer than last_ts: the CZSC takes a bar   *)
(* of its newest dt for a revision and appends any other.                     *)
Fed(new) ==
    LET again == engine # <<>> /\ engine[Len(engine)].dt = new[1].dt
    IN  SubSeq(engine, 1, IF again THEN Len(engine) - 1 ELSE Len(engine)) \o new

(* The task's bars are fed, and its signals are to be written or go nowhere   *)
(* (Push refuses each of them, for its score is 0).                           *)
Continue(m) ==
    /\ newest' = m
    /\ \/ writes /\ pc' = "connect" /\ UNCHANGED last_ts
       \/ ~writes /\ Keep(m)

(* Mutant of Analyse: a later round feeds the newest bar alone. *)
AnalyseNewest(m, B) ==
    /\ pc = "rest"
    /\ m \in B /\ Cardinality(B) >= MinBars
    /\ \/ /\ incremental /\ initialized /\ m > last_ts
          /\ engine' = Fed(Seen({m}))
          /\ unread' = unread \cup ((last_ts + 1 .. m) \ B)
       \/ /\ ~(incremental /\ initialized)
          /\ engine' = Seen(B) /\ unread' = (1 .. m) \ B
    /\ initialized' = incremental
    /\ Continue(m) /\ failed' = FALSE
    /\ UNCHANGED <<source, options, table, lost>>

(* RunOneFreq reads the bars B, m the newest of them: all that have begun, or *)
(* any others.  An import may be filling the table again, the table may have  *)
(* holes or lag behind by days, and LoadDailyBars puts today's bar, from the  *)
(* snapshot of fetch-quotes, after whatever the table has.                    *)
Analyse(m, B) ==
    /\ pc = "rest"
    /\ m \in B /\ Cardinality(B) >= MinBars
    /\ \/ /\ incremental /\ initialized /\ m > last_ts
          /\ engine' = Fed(Seen({b \in B : b > last_ts}))
          /\ unread' = unread \cup ((last_ts + 1 .. m) \ B)
       \/ /\ ~(incremental /\ initialized)
          /\ engine' = Seen(B) /\ unread' = (1 .. m) \ B
    /\ initialized' = incremental
    /\ Continue(m) /\ failed' = FALSE
    /\ UNCHANGED <<source, options, table, lost>>

Connect ==
    /\ pc = "connect" /\ pc' = "drop"
    /\ UNCHANGED <<source, options, stateVars, newest, table, history>>

(* Mutant of ConnectFails: the task ends like any other. *)
ConnectFailsKeeps ==
    /\ pc = "connect" /\ Len(engine) <= MaxFed
    /\ Keep(newest)
    /\ UNCHANGED <<source, options, engine, initialized, newest, table, history>>

(* Without a connection RunOneFreq returns before last_ts is set.             *)
ConnectFails ==
    /\ pc = "connect" /\ Len(engine) <= MaxFed
    /\ pc' = "rest"
    /\ lost' = (lost \/ (incremental /\ newest > last_ts + 1))
    /\ UNCHANGED <<source, options, stateVars, newest, table, unread, failed>>

(* RewriteSignals: the first statement that fails ends it, unnoticed by       *)
(* last_ts.                                                                   *)
Drop ==
    /\ pc = "drop" /\ pc' = "insert"
    /\ table' = NoTable
    /\ UNCHANGED <<source, options, stateVars, newest, history>>

(* Mutant of Insert: one statement too many. *)
InsertPastEnd ==
    /\ pc = "insert"
    /\ table' = [of |-> engine, parts |-> table.parts + 1]
    /\ IF table.parts = Parts THEN Keep(newest) ELSE UNCHANGED <<pc, last_ts>>
    /\ UNCHANGED <<source, options, engine, initialized, newest, history>>

Insert ==
    /\ pc = "insert"
    /\ table' = [of |-> engine, parts |-> table.parts + 1]
    /\ IF table'.parts = Parts THEN Keep(newest) ELSE UNCHANGED <<pc, last_ts>>
    /\ UNCHANGED <<source, options, engine, initialized, newest, history>>

StatementFails ==
    /\ pc \in {"drop", "insert"}
    /\ Keep(newest) /\ failed' = TRUE
    /\ UNCHANGED <<source, options, engine, initialized, newest, table, unread, lost>>

(* The program ends, or is killed anywhere, and is started again. *)
Restart ==
    /\ pc' = "rest" /\ engine' = <<>> /\ initialized' = FALSE /\ last_ts' = 0
    /\ newest' = 0 /\ unread' = {} /\ lost' = FALSE /\ failed' = FALSE
    /\ UNCHANGED <<source, options, table>>

Round == \E m \in 1 .. bars : \E B \in SUBSET (1 .. m) : Analyse(m, B)
Task == Round \/ Connect \/ Drop \/ Insert
Fails == ConnectFails \/ StatementFails
LoopNext == BarBegins \/ BarEnds \/ Task \/ Fails \/ Restart
LoopSpec == LoopInit /\ [][LoopNext]_loopVars

(* The rounds go on, every --czsc_interval seconds; statements return. *)
LoopFairSpec == LoopSpec /\ WF_loopVars(Task)

-----------------------------------------------------------------------------
(* Types; RewriteSignals writes no more than the parts there are. *)
LoopTypeOK ==
    /\ bars \in 0 .. MaxBars /\ forming \in BOOLEAN
    /\ incremental \in BOOLEAN /\ writes \in BOOLEAN
    /\ pc \in {"rest", "connect", "drop", "insert"}
    /\ engine \in Seq(Bar) /\ initialized \in BOOLEAN
    /\ last_ts \in 0 .. MaxBars /\ newest \in 0 .. MaxBars
    /\ table \in [of : Seq(Bar), parts : 0 .. Parts]
    /\ unread \subseteq 1 .. MaxBars /\ lost \in BOOLEAN /\ failed \in BOOLEAN

(* What the incremental analysis is, up to the content of bars that were read *)
(* while they were forming or in part: the CZSC was fed bars once and in      *)
(* order, and of those up to its newest every one that was in the read which  *)
(* reached or passed it, whatever rounds read less, failed or were cut short. *)
(* Two exceptions: a bar that was not in that read stays out for good, though *)
(* later reads have it; and a failed connection leaves last_ts behind, which  *)
(* feeding again makes up for if only the next bar had been fed.              *)
Ascending(s) == \A i, j \in 1 .. Len(s) : i < j => s[i].dt < s[j].dt
Fetched(s, b) == \E i \in 1 .. Len(s) : s[i].dt = b
FedOnce ==
    ~lost => /\ Ascending(engine)
             /\ \A i \in 1 .. Len(engine) :
                    \A b \in 1 .. engine[i].dt : Fetched(engine, b) \/ b \in unread

(* The stored signals are brought up to date: once source, database and       *)
(* program are quiet, those of the newest bar are there.  A new CZSC each     *)
(* round also makes them those of the bars as they are; the incremental one   *)
(* leaves them unwritten when a statement failed after the newest bar.        *)
Quiet ==
    /\ UNCHANGED source /\ ~Fails /\ ~Restart
    /\ pc = "rest" /\ pc' # "rest" => Analyse(bars, 1 .. bars)
Stored == table.parts = Parts /\ table.of # <<>> /\ table.of[Len(table.of)].dt = bars
WrittenAgain ==
    writes /\ <>[][Quiet]_loopVars /\ []<>(bars >= MinBars) =>
        []<>(IF incremental THEN Stored \/ (failed /\ last_ts = bars)
             ELSE table = [of |-> Seen(1 .. bars), parts |-> Parts])

=============================================================================
