# A TLA+ model of tdx-cpp

tdx-cpp fetches Chinese stock quotes from TDX servers, shows them to other
processes through a shared-memory table, stores them in TDengine and analyses
them (czsc). This directory models the parts of it that keep state: the
lock-free snapshot table and the segment it lives in, the connection with its
circuit breaker and the reconnecting clients, the fetch-quotes pipeline, the
history download and its state file, the TDengine import of code list and
klines, fetch-kline, the incremental stroke analysis and the rounds of `tdx czsc`.

TLC checks each of them on small instances. TLAPS proves their safety properties,
every one the runs check, for every value of the constants.

Source paths below are relative to the repository root.

## 1. The system

| part | state | operations | interacts by |
|---|---|---|---|
| Snapshot table, `src/shm/snapshot.cpp` | slots: sequence number, code, QuotePOD | Put (one writer), Get (any process) | shared memory, no lock |
| Segment, `src/shm/segment.cpp` | file, flock, header with generation and layout | Create, OpenReadOnly, destructor | flock; mappings that outlive the writer |
| Circuit breaker, `src/proto/retry.cpp` | state, failure count, failed recoveries, opening time | AllowRequest, RecordSuccess, RecordFailure | called under its mutex by request and reconnect fibers |
| Retry policy, `include/tdx/proto/retry.hpp` | none | Execute | sleeps the calling fiber |
| Connection, `src/proto/connection.cpp` | socket, connected_, call_mu_ | Connect, Close, Call | fibers of one proactor; TCP |
| Heartbeat, `src/proto/heartbeat.cpp` | timer, idle_count_, last_activity_ | Start, Stop, NotifyActivity, OnTimer | starts fibers for its callbacks |
| StdQuotes, SPQuotes, ExtQuotes, `src/quotes/` | conn_, heartbeat_, breaker_, connected_, reconnecting_ | Connect, Close, Call, Reconnect and the query methods | all of the above |
| Server pool, `src/proto/server_pool.cpp` | none kept | SelectBest | one probing fiber per host |
| fetch-quotes, `src/cli/fetch_quotes.cpp` | g_stop, chunks, SPSC queue, segment | WorkerRun, RunOneRound, IngestWorker, DoFetchQuotes | fibers, an ingest thread, signals, TDengine |
| Batch fetch, `src/batch/batch_fetch.cpp` | results | BatchFetchKline | fibers with a connection each |
| Sync state, `src/data/sync_state.cpp`, `tdx_data.cpp` | map of marks, JSON file | Load, UpdateSync, MarkStockComplete, MarkStockFailed, Clear, FetchHistory | fibers share a mutex; the file outlives the process |
| Data helpers, `src/data/` | none | calendar, resampling, price adjustment | pure |
| TDengine import, `src/taos/` | code list, kline tables and their newest rows | SyncStockNames, KlineWorker::Run, CleanupStaleCodes | SQL, vipdoc files, quote servers |
| fetch-kline, `src/cli/main.cpp` | newest bar and idle count of its loop | DoFetchKline | the tables of the import, quote servers, the clock |
| Wire codec and parsers, `src/proto/*parsers*.cpp`, `codec.cpp` | none | serialize, deserialize | pure |
| czsc, `src/czsc/` | bars_raw, bars_ubi, bi_list per symbol | update_bar, hubs, signals | single-threaded per symbol |
| `tdx czsc`, `src/cli/czsc.cpp` | states of all symbols, signal ring | scan loop, Push | worker threads, shared memory |
| Signal ring, `include/tdx/shm/signal_shm.hpp` | ring of slots, head | Open, Push | shared memory, no sequence numbers |
| CLI, tools, scripts | none of their own | printing, flags, research | the database, the segment |

What is hard in it, and what each part must guarantee:

* **Snapshot table.** Readers copy plain memory that the writer is changing and
  may die in. An answer is one whole payload, the one published last; a code
  that was published is found; Get returns.
* **Segment.** Processes die inside Create and inside Put, new ones start over
  the same file while readers keep their mapping. There is one writer; it
  starts from a sound table.
* **Connection.** Responses do not name their request. What a reader gets is
  decided by what is left in the stream after errors and timeouts.
* **Breaker.** Results are reported late and by several fibers. The wait has to
  double, be bounded, end, and must not be prolonged.
* **Clients.** Reconnect replaces the connection under suspended requests and
  heartbeats. Nothing may be leaked or left behind, and the link must recover.
* **fetch-quotes.** Sharding covers every code once; a chunk is neither lost nor
  duplicated nor reordered between round and database; a signal ends the
  program without losing what is queued.
* **Sync state.** A mark says that a stock's bars need not be asked for again.
  The file that carries it over a crash is truncated and rewritten at each mark.
  No mark may be lost, and none may stand for bars that nobody has.
* **Import.** The newest row of a table is taken to stand for all older ones,
  whatever failed or was killed, and a table is dropped on the word of a code
  list that was itself replaced in several statements that may fail.
* **fetch-kline.** It has to end by itself after the close, from a count of
  rounds without a new bar.
* **czsc.** Strokes are found, taken back and found again while bars arrive and
  the newest one changes. They have to stay a chain.

All hazards, with their lines and the properties that cover them, are listed
in `PROJECT.json`.

## 2. Modules

| module | models | composed of |
|---|---|---|
| `SnapshotMap` | what the table promises: a register per code | |
| `SnapshotTable` | Put and Get, word by word | refines `SnapshotMap` |
| `SnapshotSegment` | Create, OpenReadOnly, crashes | `SnapshotTable` |
| `CircuitBreaker` | the breaker as an object | |
| `Connection` | Connection objects, stream and lock | |
| `QuoteClient` | requests, heartbeats, Reconnect, Close | `Connection`, `CircuitBreaker` |
| `ShardedFetch` | the fetching fibers of a round and their windows | |
| `IngestPipeline` | rounds, queue, worker, signals | `ShardedFetch` |
| `HistorySync` | FetchHistory, SyncState and its file | |
| `KlineImport` | one kline table, `tdx import` and `tdx fetch-kline` | |
| `CodeList` | the code list and the tables that depend on it | |
| `Filters` | a vector filtered into a new one | |
| `CzscEngine` | update_bar: inclusion, fractals, strokes | `Filters` |
| `CzscLoop` | the rounds of `tdx czsc` for one code and frequency | `Filters` |

`MCx.tla` instantiates `x` for TLC; `Connection` and `CircuitBreaker` are
checked as parts of `QuoteClient`, `ShardedFetch` as a part of `IngestPipeline`.
`xProofs.tla` proves about `x` and what it is composed of, `CzscProofs.tla` about
`CzscEngine` and `CzscLoop` (section 4). Operators
marked "Mutant of" in a comment are not part of any specification: each is a
plausible bug of the operator that follows it, kept to show that a property can
fail.

### Snapshot table

A slot is `seq` plus `mem`, one entry per plain word: the code and the words of
the QuotePOD. The writer's Put is `Claim` (probing; the writer alone changes
code words, so this is one step), `StoreOdd`, one `StoreWord` per word in any
order, `StoreEven`; `Drop` is a Put into a full table. A reader's Get is
`BeginGet`, per probed slot `LoadSeq1`, one `ReadWord` per word in any order,
`LoadSeq2`, with `NextSlot` for the inner loop and `Retry` for the outer.

`Ordered` distinguishes two machines. The even store is a release store and so
always comes after the payload. The odd one is a release store too, which says
nothing about the stores *after* it. With `Ordered = TRUE` (x86-64, as long as
the compiler keeps the stores in place) the payload waits for it; with FALSE it
need not; no run or proof covers that case, but the mutant `StoreWordAnyTime`,
which drops the wait, shows that every guarantee of the table hangs on it. The
reader's side is ordered in both: an acquire load before the
copy, an acquire fence after it.

`published` is history: per code the payload of the last finished Put. The map
of `SnapshotMap` is `published`; a Put takes effect at `StoreEven`, a Get at the
step that decides its answer. `Absent` and `GaveUp` are both the answer false
of the code, told apart to say that false for "not there" is never wrong.

Codes of length 0 or above 7 are refused at once by both operations and are not
members of `Codes`. Code and payload words are read atomically, as aligned
words are.

### Segment

`Acquire` is open, `flock(LOCK_EX | LOCK_NB)`, ftruncate, mmap; a process that
does not get the lock leaves without an effect. `StampMagic`, `StoreGeneration`
and `StoreLayout` write the header in the source's order, `ClearWord` and
`ClearNextSlot` are the memset, `Created` the return. `Stop` is a crash at any
point or the destructor: lock and local state go, memory stays. A reader that
opens a header not yet laid out maps nothing useful (`GetOnPartial`). A Get is
`disturbed` by a memset that runs while it does, and by the last one before it if a
death cut that short: until a Create has cleared the whole table again (`whole`),
readers find one that is half cleared. `AnswersWithinOneGeneration` is about all
other Gets.

### Connection

A step runs from one suspension of a fiber to the next. `owed`, `own` and `rest`
say what the stream holds: answers to round trips given up, the answer of the
one under way, the rest of a half-read answer. `connected` is dropped by a reset,
an end of stream, a bad prefix and a failed inflate (`MarkBroken`), but not by a
timeout (`RecvTimeout`, `SendFails`), as in `SendAll` and `RecvExact`. `Slow` are
the connections whose server may be late or silent: on the others no timeout
expires, although everything else may go wrong.

### Breaker

Every operation holds the mutex, so it is one step. `age` counts whole recovery
timeouts since opening; `Window` is `1 << min(recovery_failures, 5)` of them.
Its table `ShiftOne` is a constant with an assumption, because the provers do
not compute powers. The client's `ClockStep` is `Tick`; `Admit`, `Refuse`,
`RecordSuccess` and `RecordFailure` are conjuncts of the client's steps, so the
breaker is checked under the order of reports its callers really produce.

### Quotes client

`Request`, `RequestStep` and `Retry` are `Call` with `RetryPolicy::Execute`;
`TimerQuiet`, `TimerBeat`, `TimerIdle` are `Heartbeat::OnTimer`; `SendHeartbeat`
and `BeatStep` the heartbeat fiber. `Reconnect`, `SelectBest`, `Connect` and
`LoginStep` are `Reconnect` with `ConnectInFiber`; `ReconnectBusy` is the early
return on `reconnecting_`. `Heartbeats` selects StdQuotes and SPQuotes (TRUE) or
ExtQuotes (FALSE). `up` is the world outside: while it is TRUE the servers answer
in time and nothing breaks, while FALSE anything may. Close may come at any
suspension; after it nothing runs, because the pool is stopped.

### fetch-quotes

`IngestPipeline` numbers chunks in the order of production. The main thread is
`SelectServer`, the round's fibers (`FetchShard`), `JoinShards`, then per chunk
`PutQuotes` and `Enqueue` or `QueueFull`, and `HkRound`, `Rest`, `Join`; without
`--mmap_path` it is `ConnectRound` and `InsertChunk`. The worker is `TestStop`,
`Drain`, `ReadChunk`, `Ingest`. `async` and `loop` are the two options, chosen by
the initial state. A fiber of `ShardedFetch` has a step per window: `FetchBatch`
requests what has a prefix and moves on by the number of codes requested times
the number of fibers. The HK round, which fetches in the same way and only feeds
the snapshot, is one step. `cut` is history: a signal came inside a round, which
is the one case in which chunks may be left in the queue.

### History download

`FetchHistory` chooses codes and a batch; `Skip`, `Ask` and `Bars` are one turn
of its loop each (already completed or without a market; the request; the answer,
which is also empty after an error), `Return` hands the bars over. `Mark` is an
operation of SyncState: it takes `mu_`, changes the map and opens the file, which
truncates it (`file = Torn`); `EndWrite` is the text reaching the file, or a full
disk, which nobody notices. `Load` of a file that does not parse is empty, as in
the code. `Crash` comes anywhere, `Restart` loads. A state is chosen initially in
which the program uses SyncState by itself (`DirectCall`, `Clear`), as
`tests/test_sync4.cpp` does. `returned` and `gone` are history: where the bars of
a completed stock went.

### Kline import

The module has the table of one code and cycle, a market that opens and closes
bars and days, and a user who downloads vipdoc files. A timestamp is the number
of its bar. `Start`, `Clear`, `ReadFile`, `InsertKlineBatch`, `AskNetwork`,
`WriteKlineToDB`, `NoWorker` and `CrashImport` are `tdx import`; `StartLoop`,
`Fetch`, `EndRound`, `StopLoop` are `tdx fetch-kline`, which may run at the same
time. The two write paths differ in what they do with a failure: batches of file
bars stop at the first one, while the page of the network is one statement and
fetch-kline counts a bar it failed to write. All of them leave out rows with NaN,
Inf or an impossible date (taos_import.cpp:202-209): `Stored` is the file with any
rows of the bars in `Fragile` damaged, and `InsertOldest` skips these and goes on.
`LastTimestamp` is the newest row, or 0 when the query fails. `netWrote` and
`skipped` are history: the network has fed the table since it was last dropped, and
the bars that were passed over because they were damaged. A date that is wrong but
possible is not modelled.

### Code list

`SyncStockNames` is `Begin`, `Pages` or `Offline`, `DropNames`, `CopyNames`: the
statements of taos_import.cpp:628-681, each of which may fail without being
noticed. `ReadNames` takes the codes to work on, `DropKlineTables` is step 0 when
`--full-reset` was given, `Work` is what a worker does for a code,
`CleanupStaleCodes` the last step. `CrashImport` comes between any two. `tables` are
the codes that have kline tables; the adjust tables, which workers and cleanup drop
with them, are left out. `listed`, `old` and `cut` are history. Codes come in three nested sets, by
the filters `IsAStock` and `IsKronosTarget`.

### Stroke analysis

A raw bar is its high, its low and the number of its dt. `AddBar` with `Merged`
is remove_include, `Added` the loop over the bars to add, `Fractals` is check_fxs
(`FractalsIn` its list after each bar), `Stroke` is check_bi, `FirstStart`
the choice of the first stroke's start, `UpdateBi` is update_bi_ with
handle_bi_break_ and the limit of the list, `Drain` the loss of raw bars before
the first stroke. `Extend` is update_bar with a new dt, `Replace` with the last
one again: the merged bar is taken apart and built again. A history is appended
first, as the constructor does. `At` (in `Filters`) is a vector filtered into a new
one; like the loops it is a function over indices, about which one can prove.

`tdx czsc` feeds only bars newer than the last (`cli/czsc.cpp:249`), so it uses
`Extend` alone and keeps a bar that was read while forming as it was;
`Replace` is the interface's other half. Left out: the limit of a hundred
elements of a merged bar (`algorithms.cpp:68`), and
`sync_extended_last_ubi_in_bis`, which patches copies of elements inside
finished strokes and does not feed back into the analysis.

### Rounds of tdx czsc

`CzscLoop` has one code and frequency: a source in which bars begin and end, and
the task that each round runs for it. `Analyse` is RunOneFreq up to the signals,
with the bars the round could read, which are any of those that have begun: the
table may lag behind, have holes or be filled while it is read, and LoadDailyBars
puts today's bar of the snapshot after whatever is there
(`czsc/io/data_loader.cpp:141`). A read that fails or finds fewer than six bars
changes nothing and is a stuttering step. `Connect`, `ConnectFails`, `Drop`,
`Insert` and `StatementFails` write the signals, one step per statement. `engine`
is the sequence of bars a CZSC was fed, which is all that its state depends on;
what it makes of them is `CzscEngine`. `incremental` and `writes` are the modes:
without `--czsc_incremental` and `--czsc_shm` each round has a new CZSC, with
`--czsc_shm` or `--czsc_dry` nothing is written. `unread`, `lost` and `failed` are
history: the exceptions of the properties. What a bar holds is not modelled, so that
a week or half an hour read in part is a bar like any other.

The tasks of a round are spread over worker threads. A task has its own state and
table, so one task at a time is modelled; that the workers insert into the map of
states without a lock is a data race listed under hazards.

## 3. Runs

| run | bounds | shows |
|---|---|---|
| `snapshot_table` | 3 codes (2 collide), 2 slots, 2 words, 2 values, 1 reader, 2 retries, 3 Puts | the seqlock's invariants, the refinement of `SnapshotMap`, and that Get returns |
| `snapshot_segment` | 2 writers, 2 Creates, 2 Puts, 2 codes, 2 slots, 1 word | one writer; sound table; right answers but across a memset |
| `quote_client` | StdQuotes, 1 caller, 1 heartbeat fiber, 3 connections (2 slow), 1 retry, idle limit 2 | `connected_` means logged in; no leaked socket; the login keeps its connection; clean streams and own answers but for timeouts |
| `quote_client_ext` | ExtQuotes, 2 connections, threshold 1, windows of 1 and 2 timeouts | requests and reconnects end; the link recovers; the breaker's counters, wait and back-off |
| `quote_client_stuck` | StdQuotes, 2 connections | **violated**: no recovery after one failed reconnect |
| `fetch_quotes` | 2 fibers, 5 codes in batches of 2, three choices of prefixes, queue of 2, 6 chunks, all options | sharding without gap or overlap; accounting, order, draining, termination |
| `history` | 2 fibers, 3 stocks (1 without market), 1 batch or none | marks are saved, and stand for bars |
| `import` | 3 bars, days of 1 or 2 bars, pages of 1 bar, the second may be damaged | no hole below the newest row while files feed the table but for damaged bars; fetch-kline ends |
| `code_list` | 2 stocks, an ETF, a bond | the new list survives; no table of a share is dropped for a short list, only for `--full-reset` |
| `code_list_kept` | the same | **violated**: the old list is lost to a network that fails half-way |
| `czsc_engine` | 110 histories of 8 bars, 4 more bars of 6 shapes, 1 revision, strokes of 6 bars, at most 2 strokes | merged bars without inclusion; strokes chain and end at their extreme |
| `czsc_loop` | 4 bars, reads of any 2 or more of them, writes of 2 statements, all modes | each bar that was read in time fed once and in order; stored signals brought up to date |

Why the bounds are enough. Two slots with three codes reach a collision, a
wrap-around, a full table and a miss; two words are the fewest that can tear;
three Puts overwrite a slot during one Get; a second retry is the last one. Two
Creates are a crash and its successor. Three connections are the one in use, the
one a suspended caller holds and the new one, of which one is prompt; when all
are held, `SelectBest` waits in the model where the program allocates a fourth.
Threshold, back-off and cap of the breaker are all passed in `quote_client_ext`;
`quote_client` keeps them at their smallest, since its properties do not depend
on the length of a wait. The queue overflows with rounds of three chunks, and six
chunks are two full rounds. Five codes, two fibers and batches of two have a full
and a short window; the three prefix choices leave no gap, a gap in the middle of
a fiber's windows, and a first window with nothing to request. Two fibers in one
batch meet at the mutex, mark the same stock and skip each other's; a third stock
is the one refused. Three bars with two a day reach a second day, a day's clearing
above a kept row, and a page that leaves a hole; the damaged bar is the one that has
a bar on either side. A code of each filter class and
a second of the class that matters are enough for a list that is short, stale or
both. Eight bars and four more make
three strokes, one more than the limit, and take the last one back. Four bars in
`czsc_loop` are a first read, which may already have a hole, a later one that passes
over a bar, and one that has this bar too late, with a failure before any; the CZSC
takes at most `MaxFed` bars before a failed connection, so that a first round can
fail and be repeated.

The bounds that are not in the code: `MaxPuts`, `MaxCreates`, `MaxOwed`,
`MaxPending`, `RecoveryCap` (beyond `MaxExponent` the exact count has no effect),
`MaxMade`, `MaxBars`, `MaxPerDay`, `Histories`, `Shapes`, `MaxMore`,
`MaxRevisions`, `MaxFed`, `Fragile` (the bars whose rows may be damaged); all are
constants, named where they are declared.

Symmetry is used in `history` (fibers; the two stocks with a market) and in
`code_list` (the two stocks): both check invariants and action properties only,
and nothing in the modules tells the members apart.

Deadlock is checked except in the two models that run out of input. In `import`
it is the bars: after the last one has closed, both programs may be off and the
market has nothing more to offer. In `czsc_engine` it is the bounded number of
bars. In both a disabled next-state relation means the end of the instance, not of
the program. Elsewhere stopping is a stuttering step where the program really ends.

Fairness. `snapshot_table`: readers are scheduled, the writer is not.
`quote_client_ext` and `quote_client_stuck`: a fiber inside Call is resumed, which
the socket timeout and the queue of `fb2::Mutex` give (strong fairness, as the
lock is contended); timers fire, the clock advances and requests keep coming;
nothing is assumed of servers, network or Close, and `Recovers` asks for recovery
only when the servers are up for good. `fetch_quotes`: both threads and all fibers
run, requests and database calls return. `import`: the loop of fetch-kline runs on
(its requests time out); nothing is assumed of market, import or user, and
`LoopEnds` is about a market that stays closed. `czsc_loop`: rounds go on and
statements return; `WrittenAgain` is about a source and a database that are quiet
from some time on. The other runs state no liveness
and assume no fairness.

### What the code does otherwise than it says

Two claims of comments have a run that TLC refutes;
`PROJECT.json` quotes them.

1. *No recovery* (`src/quotes/std_quotes.cpp:130`): a failed reconnect leaves no
   heartbeat and StdQuotes has no other trigger.
2. *The code list* (`src/taos/taos_import.cpp:667` against :620): "网络成功则原子替换，
   失败则清临时表保留旧 stock_name", but a network that fails in the middle of the
   pages leaves a shorter list that replaces the old one all the same, in two
   statements.

Others are stated as the exceptions of a property that holds; the property says
that there are no others.

* *Torn answer across a re-creation* (`src/shm/segment.cpp:72`): sequence numbers
  restart at 0 under a reader; `generation` is written for this and read by
  nobody. A writer that is killed in the memset leaves worse: the table stays half
  cleared, and the number of a slot that an earlier writer died in may be an even 0
  while half its payload is still there, for every reader until the next Create.
  `AnswersWithinOneGeneration`: only a Get that a memset overlaps, or that finds
  such a table.
* *Foreign answer after a timeout* (`src/proto/connection.cpp:65`): a timeout
  leaves `connected_` set and the late answer in the stream. `PromptAnswersOwn`:
  only on a connection whose server is late.
* *Chunks left in the queue* (`src/cli/fetch_quotes.cpp:777`): the worker's last
  drain runs when the signal comes, not when the main loop has ended. `ExitDrains`:
  only when a signal comes inside a round.
* *A round without end* (`src/cli/fetch_quotes.cpp:469`): a window of codes
  without prefix moves on by nothing. `PrefixedRoundEnds`: not when all have one.
* *A hole below the watermark* (`src/cli/import.cpp:67`, "历史增量从 vipdoc 导入"): rows
  that the network wrote before the first import of a file hide all older bars of
  the file. `VipdocPrefix`: only after a write of the network.
* *Damaged rows* (`src/taos/taos_import.cpp:202-209`): a row of the file with NaN,
  Inf or an impossible date is passed over while newer rows are written, so that
  the same bar from a repaired file is below the watermark for good.
  `VipdocPrefix`: only the bars whose rows were damaged when they were read.
* *Tables dropped on request* (`src/taos/taos_import.cpp:800`): with `--full-reset`
  step 0 drops the kline tables of all codes the import is to work on, and an
  import that is killed after it leaves them dropped. `HistoryKept`: only then,
  only these, or on the word of an earlier import's list.
* *Bars left out of the incremental analysis* (`src/czsc/io/data_loader.cpp:141`
  with `src/cli/czsc.cpp:249`): today's bar of the snapshot is put after whatever
  the table has, and `last_ts` becomes its date. Bars of the days between that are
  imported later do not pass `b.dt > last_ts` and never reach the CZSC, until the
  program starts again. `FedOnce`: only bars that were missing from the read which
  passed them.
* *Bars analysed twice* (`src/cli/czsc.cpp:346`): with `--czsc_incremental` a task
  that gets no connection returns after its CZSC was fed and before `last_ts` is
  set, "已处理的最大 bar 时间" (:204). The next round feeds the same bars again: a
  bar that is its newest replaces itself, others are appended after newer ones.
  `FedOnce`: not when no more than the bar after `last_ts` had been fed. That `last_ts` stays is also what makes the signals of
  those bars be written after all (`WrittenAgain`).
* *Signals left out* (`src/cli/czsc.cpp:350`): a statement of the write that fails
  is reported, but `last_ts` goes on, and with `--czsc_incremental` the table stays
  old, empty or partial until the next bar. `WrittenAgain`: only then.

And some, met while modelling, that no property states: fetch-kline's "15:00 后 3
轮无新 bar 退出" (`src/cli/main.cpp:407`), where rounds without a new bar count before
the close as well, so that the last round may have asked before it and written a bar
that was still forming; a release store does not
order the payload after the odd number (`src/shm/snapshot.cpp:31` says it does;
matters off x86-64); `HALF_OPEN` admits every caller, not one trial request
(`include/tdx/proto/retry.hpp:48`); Close from another thread can drop the
connection under a login, which calls through `conn_` without a snapshot
(`src/quotes/std_quotes.cpp:148`; `LoginKeepsConnection` excepts it); comments on
`--kronos` (`src/taos/taos_import.cpp:252-254`, :710-711) do not hold when the
import falls back to a list written without it; the bars of `bars_ubi`
(`include/tdx/czsc/analyze/czsc.hpp:22`, "无包含关系K线序列") do include each other in
the first pair and after two equal highs (`UbiWellFormed` excepts both); a stroke
that is taken back uncovers the one before it untested, so a stroke's start need
not be an extreme (`StrokesEnd` is about its end alone); a revised bar may move the
turning point under a finished stroke (`StrokesChain` excepts it).

## 4. Proofs

Assumptions are the `ASSUME`s of the modules, which TLC evaluates in every run:
sizes are positive numbers, distinguished values are distinct. Nothing else is
assumed. Each proof module names an inductive invariant; the theorems a reader
needs are its `THEOREM`s.

**`SnapshotTableProofs`.** `TableType` and, under `Ordered`, `TableInvariant`,
`TableProbePaths`, `TableSlotsPublished` and `TableImplementsMap`. The invariant `Inv` has two halves. The writer's: probing
paths, published slots, and where the writer is in its Put. The reader's, per
reader: while a slot's number is the even one it began with, what it has copied
is still there (`CopyOf`), and what it has passed stays passed (`PlaceOf`). The
payload is written only under an odd number and numbers only grow; a code word
changes once, from empty to a code (`CodeStep`), so a probing path never breaks
(`PathStep`). `AnswerIsCurrent` shows that an answer is the register's value at
the second load of the number; `OneSlot` that an empty slot on the path means the
code is nowhere. Every step then is a Put, a Call or a Return of `SnapshotMap` or
invisible to it.

**`SnapshotSegmentProofs`.** `SegmentOneWriter`, `SegmentRunsOnSoundTable` and
`SegmentAnswers`, under `Ordered`, for any number of processes, Creates and
crashes. A crash takes the writer's half of the table's invariant away: it leaves
half a Put under an odd number for ever. `Trusted` is what remains; the reader's
half lasts until a memset begins and is back when one has cleared the whole table,
which is what `whole` and `disturbed` record: nothing is said of a Get that meets
the table in between, be it because the memset runs or because it was cut short.
`Memset` says how far the clearing has come, so that a completed one gives the
initial table, from which the writer's half holds again.

**`QuoteClientProofs`.** First the breaker alone: `BreakerType`, `BreakerCounters`,
`BreakerWait` and `BreakerDoubles`, for every threshold, cap and longest window.
Then the client, for any number of callers, heartbeats, connections, slow
or prompt, and for both kinds of client. `CallInv` is about the connections: who is inside a
round trip holds the lock of its connection and nobody else does; a connection in
somebody's hands is `connected_` until its socket is closed; on a prompt one
nothing is left over but the answer of the holder. `Places` and `Links` say where
reconnect, login, requests and heartbeats are, and that an open socket is
`conn_`'s. Their conjunction `ClientInv` is inductive and gives `ClientOnline`,
`ClientLeaksNothing`, `ClientLogin`, `ClientStreams` and, for the action property,
`ClientAnswers`. `ClientUsesBreaker` shows that every step of the client is a step
of the breaker or leaves it alone; `ClientBreaker` then has the breaker's
properties of the client without a second proof.

**`IngestPipelineProofs`.** For any list of codes, number of fibers, batch size,
queue size and number of chunks. `ShardInv` is arithmetic: `bi[w]` keeps the
remainder `w`, what a window requests are the positions of that remainder from
`bi[w]` on, and what is behind `bi[w]` and has a prefix was requested; two fibers
cannot meet because their remainders differ. It gives `ShardsLeaveNoGaps` and
`ShardsAskOnce`. `Apart` and `Flow` are about the chunks: the five places are
disjoint, and database, hand, queue in this order are increasing and below the
next chunk. They give `PipelineAccounted` and `PipelineInOrder`. `ExitInv`, for
`PipelineExitDrains`, says what the worker still has to do when the main thread
waits for it.

**`HistorySyncProofs`.** `HistSaved` rests on the mutex: while a fiber holds it,
its text is the whole map. `HistAccounted` carries the accounting to the text
being written and to the file, because a crash may bring back either.

**`KlineImportProofs`.** `KlineHistory`: rows and what an import has still to
insert form a prefix together but for damaged rows, whichever step of it fails, as long as
the network has not written.

**`CodeListProofs`.** `ListKept` and `HistorySurvives`: what an import passes from
step to step, and that its workers and its cleanup drop only what its own filter
refuses, and step 0 only what the import was asked to fetch anew.

**`CzscProofs`, the analysis.** `BarsWellFormed`, `StrokesInTurn` and
`StrokesAtExtremes`, for any bars and histories, any number of revisions, and any
shortest stroke and limit of the list. None of the three is inductive: a stroke is
taken back into the bars that follow it, and a revised bar is taken out of the
merged bar it went into, which is built again. So `EngInv` (`CzscInductive`) says
what makes it possible to go back:

* `Good`, of the bars of each stroke and of those after the last: in order of time
  (`Sound`); each bar is what its raw bars make of the bar before it and lies on
  the side of it where the first of them lies (`Adjacent`); where two bars give a
  direction, neither the next bar nor its first raw bar is included (`Triple`).
  Rebuilding a bar from all its raw bars but the last therefore gives the bar as
  it was (`Adjacent`), and the new form of the raw bar is added to a good sequence.
* `Finished`, of each stroke: it runs from the fractal at its second bar to the one
  at its last but one, which is the extreme.
* `Follows`, of a stroke and the bars after it: they begin with the last three of
  its bars. The one of its end may have grown since (`Joins`), but later bars turn
  back from it (`Turns`), and without a revision it is the same bar (`Fixed`). A
  sequence of two bars is left only by a break, so the second has grown
  (`Stretched`).

`EngInv` was run through TLC with the constants of `czsc_engine` before it was proved.
The lemmas go from operators to operations: sequences and filters, `AddBar` and
`Added`, fractals (in a good sequence tops and bottoms alternate, so that check_fxs
leaves none out, `FractalAdded`), the end of a stroke, `Stroke`
(`StrokeOf`: it is finished and leaves bars that follow it), two good sequences
glued at a shared bar (what `TakenBack` makes), the first stroke (`FirstStart`),
and last `UpdateBi`, `Extend` and `Replace`. What is an induction over a sequence
in them is made from the least element of a set of numbers (`Least`, `UpTo`, from
`WellFoundedInduction`), and that a function defined step by step exists is
`StepByStep`: the library's induction theorems take an operator, which the provers
cannot instantiate.

**`CzscProofs`, the rounds.** `LoopType` and `LoopFedOnce`, for any number of bars, of
bars to begin with and of statements, and for reads of any of the bars. `Places`,
the places of a set of numbers in their order, give what `Seen` makes of a read
(`PlacesInOrder`, `SeenBars`). `FedTo` says how far the CZSC is: at the
newest bar while a task is under way, and between tasks at `last_ts` or one bar
ahead of it, the bar that is fed again; `TaskPlace` that a task past its analysis
has something newer than `last_ts`.

Model-checked only. The liveness properties (fairness is outside the prover's
reach): `GetReturns`, `RequestReturns`, `ReconnectEnds`, `Recovers`, `Stops`,
`PrefixedRoundEnds`, `LoopEnds`, `WrittenAgain`. Every other property of a passing
run is a theorem. What the recursive definitions of the analysis compute is proved
as far as the properties need it: of the list of fractals, that it has those of the
bars, which comes first, and on which side of the last the bars end.

The type invariants of `SnapshotTable`, `HistorySync` and `KlineImport` are proved
for every instance and not checked in a run as well.

## 5. Plan

Done, in this order: the table and its proofs; the segment; the breaker; the
connection and the clients; fetch-quotes; the history download; the import of
klines and fetch-kline; the code list; the stroke analysis and the rounds of
`tdx czsc`; proofs of the safety properties of all of them.

Left, in the order of what they would add:

1. The adjust, finance and F10 tables of the import. They differ from
   `KlineImport` in going on after a row that failed, which its mutant
   `InsertPassesOver` shows to break the watermark.
2. Hubs and buy and sell points over `CzscEngine`'s strokes, and the incremental
   analysis against one of the whole sequence of bars.
3. Pure operators against a reference: the variable-length numbers and the bitmap
   of the wire codec, resampler, calendar, `ServerPool::SelectBest`, batch fetch.
4. `SignalRing`, once the program writes to it: `Push` refuses signals of score
   0, and `tdx czsc` passes no other score.

## 6. Not modelled

The lines the models stand for are a small share of the repository's, and more
modelling would not change that much. More than half of its lines are the vendored
JSON library (`include/nlohmann/json.hpp`). Next come the czsc signals
(`src/czsc/signals/registry.cpp` and the indicators under `ta/`): floating-point
formulas over bars, one after another, without state of their own. Parsers and
serializers of the wire formats, SQL text, character sets, time formatting and
zlib convert data and keep nothing that the properties tell apart. Command-line
handling, viewers and Python scripts display and research around the modelled
parts; as readers of the segment the viewers are `SnapshotTable`'s readers.

Inside the modelled parts: the snapshot's keys are abstract codes: that the program
keys by the bare six digits, which codes of two markets can share, is not part of
the model and no property is about it; `SPQuotes` awaits each attempt from the calling thread instead
of running Call on the proactor; `SelectBest` is some host or none, its parallel
probing is not modelled; sync dates and retry counts of SyncState, and data types
other than one, are left out; import batches of a thousand bars are of one bar.
`PROJECT.json` lists every component with what its model leaves out.
