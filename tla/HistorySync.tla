----------------------------- MODULE HistorySync -----------------------------
(* TdxData::FetchHistory (src/src/data/tdx_data.cpp) over SyncState           *)
(* (sync_state.cpp): which stocks of a batch are done is kept in a map and,   *)
(* at every mark, in a JSON file that is truncated and written anew, so that  *)
(* a restarted program can resume the batch.  Every operation of SyncState    *)
(* holds mu_.  FetchHistory keeps its bars in memory and hands them to its    *)
(* caller when it has been through all of its codes.                          *)

CONSTANTS
    Stocks,
    Prefixed,  \* the stocks named with their market, which ParseMarketCode wants
    Batches,
    NoBatch,   \* the empty batch_id
    Fibers,
    NoFiber,
    NoStock,
    Missing,   \* no state file
    Torn       \* a state file that is not JSON: empty, or cut short

Entries == [batch : Batches \cup {NoBatch}, status : {"", "completed", "failed"}]
States == [Stocks -> Entries]

ASSUME HistoryAssumption ==
    /\ Prefixed \subseteq Stocks
    /\ NoBatch \notin Batches /\ NoFiber \notin Fibers /\ NoStock \notin Stocks
    /\ Missing \notin States /\ Torn \notin States /\ Missing # Torn

VARIABLES
    direct,    \* the program uses SyncState by itself, as tests/test_sync4.cpp
               \* does, and not through TdxData (never changes)
    up,        \* the process runs
    state,     \* state_: what is marked, a stock without an entry as NoEntry
    file,      \* the state file: Missing, Torn or a map
    mu,        \* the fiber that holds mu_ while it writes the file, or NoFiber
    text,      \* [fibers -> what it is writing]
    behind,    \* a save has failed, and none has succeeded since
    pc,        \* [fibers -> "idle" / "loop" / "asked" / "write"]
    batch,     \* [fibers -> batch_id of its FetchHistory]
    todo,      \* [fibers -> codes it has not been through]
    cur,       \* [fibers -> code of its Bars call]
    all,       \* [fibers -> stocks whose bars it holds]
    returned,  \* history: the <<stock, batch>> whose bars a caller was given,
    gone       \* and those whose bars a crash destroyed, or an error of Bars

syncVars == <<state, file, mu, text, behind>>
fetchVars == <<batch, todo, cur, all>>
fate == <<returned, gone>>
histVars == <<direct, up, syncVars, pc, fetchVars, fate>>

NoEntry == [batch |-> NoBatch, status |-> ""]
Empty == [s \in Stocks |-> NoEntry]
Completed(m, s, b) == m[s] = [batch |-> b, status |-> "completed"]

(* Load: a file that cannot be read or parsed counts as empty. *)
Load == IF file \in States THEN file ELSE Empty

(* No FetchHistory and no save is under way. *)
Idle ==
    [pc |-> [f \in Fibers |-> "idle"], text |-> [f \in Fibers |-> Empty],
     batch |-> [f \in Fibers |-> NoBatch], todo |-> [f \in Fibers |-> {}],
     cur |-> [f \in Fibers |-> NoStock], all |-> [f \in Fibers |-> {}]]

HistInit ==
    /\ direct \in BOOLEAN /\ up = TRUE
    /\ file \in {Missing, Torn} /\ state = Empty
    /\ mu = NoFiber /\ behind = FALSE
    /\ pc = Idle.pc /\ text = Idle.text
    /\ batch = Idle.batch /\ todo = Idle.todo /\ cur = Idle.cur /\ all = Idle.all
    /\ returned = {} /\ gone = {}

-----------------------------------------------------------------------------
(* WriteState: the open truncates the file, or fails and leaves it alone.     *)
WriteState(f, m) ==
    \/ /\ file' = Torn /\ mu' = f /\ text' = [text EXCEPT ![f] = m]
       /\ pc' = [pc EXCEPT ![f] = "write"]
       /\ UNCHANGED behind
    \/ /\ behind' = TRUE /\ pc' = [pc EXCEPT ![f] = "loop"]
       /\ UNCHANGED <<file, mu, text>>

(* Mutant of Mark: mu_ is not taken. *)
MarkUnlocked(f, s, e) ==
    state' = [state EXCEPT ![s] = e] /\ WriteState(f, state')

(* An operation that changes the entry of s and saves all of them.            *)
Mark(f, s, e) ==
    mu = NoFiber /\ state' = [state EXCEPT ![s] = e] /\ WriteState(f, state')

MarkStockComplete(f, s, b) == Mark(f, s, [batch |-> b, status |-> "completed"])
MarkStockFailed(f, s, b) == Mark(f, s, [batch |-> b, status |-> "failed"])
UpdateSync(f, s) == Mark(f, s, state[s])

(* The text goes out, or the disk is full, which nobody notices. *)
EndWrite(f) ==
    /\ pc[f] = "write"
    /\ \/ file' = text[f] /\ behind' = FALSE
       \/ behind' = TRUE /\ UNCHANGED file
    /\ mu' = NoFiber /\ text' = [text EXCEPT ![f] = Empty]
    /\ pc' = [pc EXCEPT ![f] = "loop"]
    /\ UNCHANGED <<direct, up, state, fetchVars, fate>>

-----------------------------------------------------------------------------
InBatch(f, stocks) == stocks \X ({batch[f]} \ {NoBatch})

FetchHistory(f) ==
    /\ up /\ ~direct /\ pc[f] = "idle"
    /\ \E codes \in SUBSET Stocks : todo' = [todo EXCEPT ![f] = codes]
    /\ \E b \in Batches \cup {NoBatch} : batch' = [batch EXCEPT ![f] = b]
    /\ pc' = [pc EXCEPT ![f] = "loop"]
    /\ UNCHANGED <<direct, up, syncVars, cur, all, fate>>

SkipsIt(f, s) ==
    (batch[f] # NoBatch /\ Completed(state, s, batch[f])) \/ s \notin Prefixed

Skip(f, s) ==
    /\ pc[f] = "loop" /\ s \in todo[f] /\ mu = NoFiber /\ SkipsIt(f, s)
    /\ todo' = [todo EXCEPT ![f] = @ \ {s}]
    /\ UNCHANGED <<direct, up, syncVars, pc, batch, cur, all, fate>>

Ask(f, s) ==
    /\ pc[f] = "loop" /\ s \in todo[f] /\ mu = NoFiber /\ ~SkipsIt(f, s)
    /\ todo' = [todo EXCEPT ![f] = @ \ {s}]
    /\ cur' = [cur EXCEPT ![f] = s]
    /\ pc' = [pc EXCEPT ![f] = "asked"]
    /\ UNCHANGED <<direct, up, syncVars, batch, all, fate>>

MarkAsked(f) ==
    IF batch[f] = NoBatch THEN UpdateSync(f, cur[f])
    ELSE MarkStockComplete(f, cur[f], batch[f])

(* Mutant of Bars: an error gives up what the other codes brought. *)
BarsGivesUp(f) ==
    /\ pc[f] = "asked"
    /\ \/ all' = [all EXCEPT ![f] = @ \cup {cur[f]}] /\ UNCHANGED gone
       \/ all' = [all EXCEPT ![f] = {}] /\ gone' = gone \cup InBatch(f, {cur[f]})
    /\ MarkAsked(f)
    /\ cur' = [cur EXCEPT ![f] = NoStock]
    /\ UNCHANGED <<direct, up, batch, todo, returned>>

(* Bars answers, with nothing when an error occurred; in both cases the stock *)
(* is marked.                                                                 *)
Bars(f) ==
    /\ pc[f] = "asked"
    /\ \/ all' = [all EXCEPT ![f] = @ \cup {cur[f]}] /\ UNCHANGED gone
       \/ gone' = gone \cup InBatch(f, {cur[f]}) /\ UNCHANGED all
    /\ MarkAsked(f)
    /\ cur' = [cur EXCEPT ![f] = NoStock]
    /\ UNCHANGED <<direct, up, batch, todo, returned>>

Return(f) ==
    /\ pc[f] = "loop" /\ todo[f] = {}
    /\ returned' = returned \cup InBatch(f, all[f])
    /\ all' = [all EXCEPT ![f] = {}] /\ batch' = [batch EXCEPT ![f] = NoBatch]
    /\ pc' = [pc EXCEPT ![f] = "idle"]
    /\ UNCHANGED <<direct, up, syncVars, todo, cur, gone>>

(* The operations of a SyncState used directly. *)
DirectCall(f) ==
    /\ up /\ direct /\ pc[f] = "idle"
    /\ \/ \E s \in Stocks, b \in Batches : MarkStockComplete(f, s, b) \/ MarkStockFailed(f, s, b)
       \/ \E s \in Stocks : UpdateSync(f, s)
       \/ mu = NoFiber /\ WriteState(f, state) /\ UNCHANGED state  \* Save
    /\ UNCHANGED <<direct, up, fetchVars, fate>>

Clear ==
    /\ up /\ direct /\ mu = NoFiber
    /\ state' = Empty /\ file' = Missing /\ behind' = FALSE
    /\ UNCHANGED <<direct, up, mu, text, pc, fetchVars, fate>>

(* The process is killed at any point, or ends: memory goes, the file stays.  *)
Crash ==
    /\ up
    /\ up' = FALSE /\ state' = Empty /\ mu' = NoFiber
    /\ gone' = gone \cup UNION {InBatch(f, all[f]) : f \in Fibers}
    /\ pc' = Idle.pc /\ text' = Idle.text
    /\ batch' = Idle.batch /\ todo' = Idle.todo /\ cur' = Idle.cur /\ all' = Idle.all
    /\ UNCHANGED <<direct, file, behind, returned>>

Restart ==
    /\ ~up
    /\ up' = TRUE /\ state' = Load /\ behind' = FALSE
    /\ UNCHANGED <<direct, file, mu, text, pc, fetchVars, fate>>

HistNext ==
    \/ \E f \in Fibers :
        \/ FetchHistory(f) \/ Bars(f) \/ EndWrite(f) \/ Return(f) \/ DirectCall(f)
        \/ \E s \in Stocks : Skip(f, s) \/ Ask(f, s)
    \/ Clear \/ Crash \/ Restart
HistSpec == HistInit /\ [][HistNext]_histVars

-----------------------------------------------------------------------------
(* Types, and that a fiber waiting for Bars has a stock it asked for. *)
HistTypeOK ==
    /\ direct \in BOOLEAN /\ up \in BOOLEAN /\ behind \in BOOLEAN
    /\ state \in States /\ file \in States \cup {Missing, Torn}
    /\ mu \in Fibers \cup {NoFiber} /\ text \in [Fibers -> States]
    /\ pc \in [Fibers -> {"idle", "loop", "asked", "write"}]
    /\ batch \in [Fibers -> Batches \cup {NoBatch}]
    /\ todo \in [Fibers -> SUBSET Stocks] /\ all \in [Fibers -> SUBSET Stocks]
    /\ cur \in [Fibers -> Stocks \cup {NoStock}]
    /\ \A f \in Fibers : pc[f] = "asked" => cur[f] \in Stocks
    /\ returned \cup gone \subseteq Stocks \X Batches

(* What a crash cannot take: whenever no fiber is inside WriteState, the file *)
(* holds every mark of every fiber, so a restart finds them all (SyncState's  *)
(* test of concurrent fibers, and its crash recovery).  Only a save that      *)
(* failed unnoticed, or a crash inside one, leaves less.                      *)
MarksSaved == up /\ mu = NoFiber /\ ~behind => Load = state

(* A mark never stands for nothing: a stock that is completed in a batch, in  *)
(* memory or in the file a restart will read, was asked for, and its bars     *)
(* were returned, are held by a FetchHistory of that batch, or are one of the *)
(* two cases in which resuming the batch will not bring them: a crash after   *)
(* the mark, and an error of Bars.                                            *)
Held(s, b) == \E f \in Fibers : pc[f] # "idle" /\ batch[f] = b /\ s \in all[f]
MarksAccounted ==
    ~direct =>
        \A s \in Stocks, b \in Batches :
            Completed(state, s, b) \/ Completed(Load, s, b) =>
                <<s, b>> \in returned \cup gone \/ Held(s, b)
=============================================================================
