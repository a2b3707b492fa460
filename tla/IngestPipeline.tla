--------------------------- MODULE IngestPipeline ---------------------------
(* tdx fetch-quotes (src/cli/fetch_quotes.cpp): rounds of sharded fetching    *)
(* and what becomes of their chunks.  The main thread puts each chunk's       *)
(* quotes into the snapshot and the chunk into a bounded SPSC queue;          *)
(* IngestWorker drains the queue into TDengine over a connection it opens     *)
(* when it first needs one.  Without --mmap_path the main thread inserts by   *)
(* itself.  Chunks are numbered in the order they are produced; HK rounds go  *)
(* to the snapshot only.                                                      *)

EXTENDS ShardedFetch, Sequences

CONSTANTS
    QueueSlots,  \* ring size of the queue, one slot of which stays free: 64
    MaxMade      \* bound: chunks produced in a behaviour

ASSUME PipelineAssumption == QueueSlots \in Nat \ {0, 1} /\ MaxMade \in Nat

VARIABLES
    async,    \* --mmap_path given (never changes)
    loop,     \* --quote_loop (never changes)
    pc,       \* the main thread: where it is in DoFetchQuotes
    made,     \* chunks 1 .. made were fetched
    shown,    \* the quotes of 1 .. shown are in the snapshot
    queue,    \* ingest_q
    dropped,  \* chunks the full queue refused
    wpc,      \* the worker: "test", "drain", "read", "ingest", "exited"
    final,    \* it is in the drain after its loop
    conn,     \* it has its TDengine connection
    hand,     \* the chunk being inserted, or 0
    done,     \* chunks through IngestChunk, in that order
    failed,   \* chunks whose SQL, or whose round's connection, failed
    cut       \* a signal came while a round was still at work

options == <<async, loop, prefixed>>
mainVars == <<pc, made, shown, dropped>>
workVars == <<wpc, final, conn, hand, done, failed>>
pipeVars == <<options, stop, roundVars, queue, mainVars, workVars, cut>>

PipeInit ==
    /\ ShardInit
    /\ async \in BOOLEAN /\ loop \in BOOLEAN
    /\ pc = "fetch" /\ made = 0 /\ shown = 0
    /\ queue = <<>> /\ dropped = {}
    /\ wpc = IF async THEN "test" ELSE "exited"
    /\ final = FALSE /\ conn = FALSE /\ hand = 0 /\ done = <<>> /\ failed = {}
    /\ cut = FALSE

-----------------------------------------------------------------------------
(* RunOneRound: without a server the round has no chunks at all. *)
SelectServer ==
    /\ pc = "fetch"
    /\ \/ pc' = "hk"
       \/ made + 1 + Jobs <= MaxMade /\ pc' = "shards"
    /\ UNCHANGED <<options, stop, roundVars, queue, made, shown, dropped, workVars, cut>>

FetchShard(w) ==
    /\ pc = "shards" /\ WorkerRun(w)
    /\ UNCHANGED <<async, loop, queue, mainVars, workVars, cut>>

(* The chunks: an empty first one and one of each fiber that got through.     *)
JoinShards ==
    /\ pc = "shards" /\ Joined
    /\ made' = made + 1 + Cardinality({w \in Fibers : fiber[w] = "pushed"})
    /\ pc' = IF async THEN "put" ELSE "connect"
    /\ StartOver
    /\ UNCHANGED <<options, stop, queue, shown, dropped, workVars, cut>>

(* The chunk's quotes are put, then the chunk is handed to the queue. *)
PutQuotes ==
    /\ pc = "put"
    /\ shown' = shown + 1
    /\ pc' = "enqueue"
    /\ UNCHANGED <<options, roundVars, stop, queue, made, dropped, workVars, cut>>

NextChunk == IF shown = made THEN "hk" ELSE "put"

(* Mutant of Enqueue: the slot that has to stay free is used. *)
EnqueueLastSlot ==
    /\ pc = "enqueue" /\ Len(queue) < QueueSlots
    /\ queue' = Append(queue, shown)
    /\ pc' = NextChunk
    /\ UNCHANGED <<options, roundVars, stop, made, shown, dropped, workVars, cut>>

Enqueue ==
    /\ pc = "enqueue" /\ Len(queue) < QueueSlots - 1
    /\ queue' = Append(queue, shown)
    /\ pc' = NextChunk
    /\ UNCHANGED <<options, roundVars, stop, made, shown, dropped, workVars, cut>>

QueueFull ==
    /\ pc = "enqueue" /\ Len(queue) >= QueueSlots - 1
    /\ dropped' = dropped \cup {shown}
    /\ pc' = NextChunk
    /\ UNCHANGED <<options, roundVars, stop, queue, made, shown, workVars, cut>>

(* The synchronous round: one connection for it, or its chunks are lost.      *)
Handled == Len(done) + Cardinality(failed)
ConnectRound ==
    /\ pc = "connect"
    /\ \/ pc' = "insert" /\ UNCHANGED failed
       \/ pc' = "hk" /\ failed' = failed \cup Handled + 1 .. made
    /\ UNCHANGED <<options, roundVars, stop, queue, made, shown, dropped, wpc, final, conn, hand, done, cut>>

InsertChunk ==
    /\ pc = "insert"
    /\ \/ done' = Append(done, Handled + 1) /\ UNCHANGED failed
       \/ failed' = failed \cup {Handled + 1} /\ UNCHANGED done
    /\ pc' = IF Handled + 1 = made THEN "hk" ELSE "insert"
    /\ UNCHANGED <<options, roundVars, stop, queue, made, shown, dropped, wpc, final, conn, hand, cut>>

(* The HK round, if any: snapshot only. *)
HkRound ==
    /\ pc = "hk"
    /\ pc' = "rest"
    /\ UNCHANGED <<options, roundVars, stop, queue, made, shown, dropped, workVars, cut>>

(* The wait between rounds; the loop goes on or the worker is told to stop.   *)
Rest ==
    /\ pc = "rest"
    /\ \/ loop /\ ~stop /\ pc' = "fetch" /\ UNCHANGED stop
       \/ (~loop \/ stop) /\ pc' = "join" /\ stop' = (stop \/ async)
    /\ UNCHANGED <<options, roundVars, queue, made, shown, dropped, workVars, cut>>

Join ==
    /\ pc = "join" /\ wpc = "exited"
    /\ pc' = "done"
    /\ UNCHANGED <<options, roundVars, stop, queue, made, shown, dropped, workVars, cut>>

(* SIGINT or SIGTERM: the handler is installed in these modes only. *)
Signal ==
    /\ async \/ loop
    /\ ~stop
    /\ stop' = TRUE
    /\ cut' = (pc \in {"fetch", "shards", "put", "enqueue"})
    /\ UNCHANGED <<options, roundVars, queue, mainVars, workVars>>

-----------------------------------------------------------------------------
(* Mutants of TestStop: no drain after the loop; the loop never ends. *)
TestStopQuits ==
    /\ wpc = "test"
    /\ wpc' = IF stop THEN "exited" ELSE "drain"
    /\ UNCHANGED <<options, roundVars, stop, queue, mainVars, final, conn, hand, done, failed, cut>>
TestStopIgnored ==
    /\ wpc = "test"
    /\ wpc' = "drain"
    /\ UNCHANGED <<options, roundVars, stop, queue, mainVars, final, conn, hand, done, failed, cut>>

(* IngestWorker. *)
TestStop ==
    /\ wpc = "test"
    /\ wpc' = "drain"
    /\ final' = stop
    /\ UNCHANGED <<options, roundVars, stop, queue, mainVars, conn, hand, done, failed, cut>>

EndOfDrain == wpc' = IF final THEN "exited" ELSE "test"

(* drain_all connects if it has not; without a connection it reads nothing.   *)
Drain ==
    /\ wpc = "drain"
    /\ \/ conn' = TRUE /\ wpc' = "read"
       \/ ~conn /\ EndOfDrain /\ UNCHANGED conn
    /\ UNCHANGED <<options, roundVars, stop, queue, mainVars, final, hand, done, failed, cut>>

(* Mutants of ReadChunk: the chunk is read and stays in the queue; the newest *)
(* chunk is taken.                                                            *)
ReadChunkPeeks ==
    /\ wpc = "read" /\ queue # <<>>
    /\ hand' = Head(queue)
    /\ wpc' = "ingest"
    /\ UNCHANGED <<options, roundVars, stop, queue, mainVars, final, conn, done, failed, cut>>
ReadChunkNewest ==
    /\ wpc = "read" /\ queue # <<>>
    /\ hand' = queue[Len(queue)] /\ queue' = SubSeq(queue, 1, Len(queue) - 1)
    /\ wpc' = "ingest"
    /\ UNCHANGED <<options, roundVars, stop, mainVars, final, conn, done, failed, cut>>

ReadChunk ==
    /\ wpc = "read"
    /\ \/ /\ queue # <<>>
          /\ hand' = Head(queue) /\ queue' = Tail(queue)
          /\ wpc' = "ingest"
       \/ /\ queue = <<>>
          /\ EndOfDrain
          /\ UNCHANGED <<hand, queue>>
    /\ UNCHANGED <<options, roundVars, stop, mainVars, final, conn, done, failed, cut>>

(* IngestChunk; what its statements failed to insert is gone. *)
Ingest ==
    /\ wpc = "ingest"
    /\ \/ done' = Append(done, hand) /\ UNCHANGED failed
       \/ failed' = failed \cup {hand} /\ UNCHANGED done
    /\ hand' = 0
    /\ wpc' = "read"
    /\ UNCHANGED <<options, roundVars, stop, queue, mainVars, final, conn, cut>>

MainStep ==
    \/ SelectServer \/ JoinShards \/ PutQuotes \/ Enqueue \/ QueueFull \/ ConnectRound \/ InsertChunk
    \/ HkRound \/ Rest \/ Join
WorkerStep == TestStop \/ Drain \/ ReadChunk \/ Ingest
PipeNext ==
    \/ \E w \in Fibers : FetchShard(w)
    \/ MainStep \/ WorkerStep \/ Signal
    \/ pc = "done" /\ UNCHANGED pipeVars
PipeSpec == PipeInit /\ [][PipeNext]_pipeVars

(* Threads and fibers are scheduled; requests and inserts return (they time   *)
(* out).                                                                      *)
PipeFairSpec ==
    /\ PipeSpec /\ WF_pipeVars(MainStep) /\ WF_pipeVars(WorkerStep)
    /\ \A w \in Fibers : WF_pipeVars(FetchShard(w))

-----------------------------------------------------------------------------
Chunks == 1 .. MaxMade
(* Types, and that the queue (ProducerConsumerQueue) leaves a slot free.      *)
PipeTypeOK ==
    /\ ShardTypeOK
    /\ async \in BOOLEAN /\ loop \in BOOLEAN /\ cut \in BOOLEAN /\ final \in BOOLEAN /\ conn \in BOOLEAN
    /\ pc \in {"fetch", "shards", "put", "enqueue", "connect", "insert", "hk", "rest", "join", "done"}
    /\ made \in 0 .. MaxMade /\ shown \in 0 .. made
    /\ queue \in Seq(Chunks) /\ Len(queue) < QueueSlots
    /\ dropped \subseteq Chunks /\ failed \subseteq Chunks /\ done \in Seq(Chunks)
    /\ wpc \in {"test", "drain", "read", "ingest", "exited"}
    /\ hand \in Chunks \cup {0}

Members(s) == {s[i] : i \in 1 .. Len(s)}

(* No chunk is lost or duplicated on its way: one that was produced and put   *)
(* is in exactly one place: the queue, the worker's hand, the database, or    *)
(* the failures and drops.                                                    *)
Sent == IF async THEN 1 .. (IF pc = "enqueue" THEN shown - 1 ELSE shown)
        ELSE 1 .. Handled
Places == <<Members(queue), {hand} \ {0}, Members(done), dropped, failed>>
Accounted ==
    /\ Sent = UNION {Places[i] : i \in 1 .. 5}
    /\ \A i, j \in 1 .. 5 : i # j => Places[i] \cap Places[j] = {}

(* What the database has, what is being inserted and what waits is in the     *)
(* order of production, each chunk once: newer rows never precede older ones. *)
InOrder ==
    LET s == done \o (IF hand = 0 THEN <<>> ELSE <<hand>>) \o queue
    IN  \A i, j \in 1 .. Len(s) : i < j => s[i] < s[j]

(* After a run with a database and without an interrupted round the queue is  *)
(* empty: the worker's last drain comes after the last write.                 *)
ExitDrains == pc = "done" /\ conn /\ ~cut => queue = <<>>

(* g_stop ends the program: the round under way finishes, the worker's last   *)
(* drain ends, the join returns, also when the database cannot be reached.    *)
Stops == stop ~> pc = "done"

(* With prefixes throughout a round's fetching comes to its end.              *)
PrefixedRoundEnds == prefixed = Positions => (pc = "shards" ~> pc # "shards")
=============================================================================
