---------------------------- MODULE ShardedFetch ----------------------------
(* The fetching half of a round (src/cli/fetch_quotes.cpp, WorkerRun): n      *)
(* fibers with a connection each; fiber w is to request the codes at          *)
(* positions w, w + n, w + 2n, ... of the list in windows of a batch each.    *)
(* A code without a market prefix is left out of the A-share request.  A      *)
(* request that fails is counted and passed over: what the model keeps of a   *)
(* request is that it was made.  IngestPipeline runs the rounds.              *)

EXTENDS Integers, FiniteSets

CONSTANTS
    Total,      \* length of the code list
    Jobs,       \* n: fibers of a round, no more than codes
    Batch,      \* --quote_batch
    Prefixings  \* which positions of the list may have codes with a market prefix

ASSUME ShardAssumption ==
    /\ Total \in Nat /\ Jobs \in 1 .. Total /\ Batch \in Nat \ {0}
    /\ Prefixings \subseteq SUBSET (0 .. Total - 1)

VARIABLES
    stop,      \* g_stop
    prefixed,  \* positions whose code has its market prefix (never changes)
    fiber,     \* [fibers -> "new" / "loop" / "pushed" / "failed"]
    bi,        \* [fibers -> first position of the next window]
    asked      \* [positions -> requests made for it, counted up to 2]

roundVars == <<fiber, bi, asked>>
shardVars == <<stop, prefixed, roundVars>>
Positions == 0 .. Total - 1
Fibers == 0 .. Jobs - 1

(* The locals of a round: nothing requested yet. *)
Fresh ==
    [fiber |-> [w \in Fibers |-> "new"], bi |-> [w \in Fibers |-> w],
     asked |-> [p \in Positions |-> 0]]
ShardInit ==
    /\ stop = FALSE
    /\ prefixed \in Prefixings
    /\ fiber = Fresh.fiber /\ bi = Fresh.bi /\ asked = Fresh.asked

(* The next round starts over. *)
StartOver == fiber' = Fresh.fiber /\ bi' = Fresh.bi /\ asked' = Fresh.asked

(* Connect and login; a fiber that fails leaves its shard unfetched. *)
Login(w) ==
    /\ fiber[w] = "new"
    /\ \E end \in {"loop", "failed"} : fiber' = [fiber EXCEPT ![w] = end]
    /\ UNCHANGED <<prefixed, stop, bi, asked>>

(* The positions of the window, and those the request is made for. *)
Window(w) == {bi[w] + k * Jobs : k \in 0 .. Batch - 1} \cap Positions
Requested(w) == Window(w) \cap prefixed

Ask(w) == asked' = [p \in Positions |->
                       IF p \in Requested(w) /\ asked[p] < 2 THEN asked[p] + 1 ELSE asked[p]]

(* Mutants of FetchBatch: the window moves on by a single step, by a step too *)
(* many.                                                                      *)
FetchBatchOneStep(w) ==
    /\ fiber[w] = "loop" /\ bi[w] < Total /\ ~stop /\ Ask(w)
    /\ bi' = [bi EXCEPT ![w] = @ + Jobs]
    /\ UNCHANGED <<prefixed, stop, fiber>>
FetchBatchSkips(w) ==
    /\ fiber[w] = "loop" /\ bi[w] < Total /\ ~stop /\ Ask(w)
    /\ bi' = [bi EXCEPT ![w] = @ + (Cardinality(Requested(w)) + 1) * Jobs]
    /\ UNCHANGED <<prefixed, stop, fiber>>

(* One turn of the loop: the window moves on by as many steps as codes were   *)
(* requested.                                                                 *)
FetchBatch(w) ==
    /\ fiber[w] = "loop" /\ bi[w] < Total /\ ~stop /\ Ask(w)
    /\ bi' = [bi EXCEPT ![w] = @ + Cardinality(Requested(w)) * Jobs]
    /\ UNCHANGED <<prefixed, stop, fiber>>

(* Mutant of Push: only a window that ends with the list is the last. *)
PushExact(w) ==
    /\ fiber[w] = "loop" /\ (bi[w] = Total \/ stop)
    /\ fiber' = [fiber EXCEPT ![w] = "pushed"]
    /\ UNCHANGED <<prefixed, stop, bi, asked>>

(* The shard is done or g_stop is set: the chunk is pushed. *)
Push(w) ==
    /\ fiber[w] = "loop" /\ (bi[w] >= Total \/ stop)
    /\ fiber' = [fiber EXCEPT ![w] = "pushed"]
    /\ UNCHANGED <<prefixed, stop, bi, asked>>

Joined == \A w \in Fibers : fiber[w] \in {"pushed", "failed"}
WorkerRun(w) == Login(w) \/ FetchBatch(w) \/ Push(w)

-----------------------------------------------------------------------------
(* Types of the fibers of a round (WorkerRun). *)
ShardTypeOK ==
    /\ prefixed \subseteq Positions /\ stop \in BOOLEAN
    /\ fiber \in [Fibers -> {"new", "loop", "pushed", "failed"}]
    /\ bi \in [Fibers -> 0 .. Total + Batch * Jobs]
    /\ \A w \in Fibers : bi[w] % Jobs = w
    /\ asked \in [Positions -> 0 .. 2]

(* What is behind a fiber was requested: the windows leave no gap, although   *)
(* they move by the number of codes requested and not by a batch; so without  *)
(* a stop a finished shard has been fetched completely.                       *)
NoGaps ==
    \A w \in Fibers, p \in prefixed :
        p % Jobs = w /\ (p < bi[w] \/ (fiber[w] = "pushed" /\ ~stop)) => asked[p] > 0

(* Codes that all have their prefix are requested once each: no fiber's       *)
(* windows overlap each other or another fiber's.                             *)
OnceEach == prefixed = Positions => \A p \in Positions : asked[p] <= 1
=============================================================================
