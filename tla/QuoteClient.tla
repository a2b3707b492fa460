----------------------------- MODULE QuoteClient -----------------------------
(* A quotes client (src/quotes/std_quotes.cpp; SPQuotes and ExtQuotes are     *)
(* built alike): requests with retries behind a circuit breaker, heartbeats   *)
(* with an idle count, and a Reconnect that replaces the connection under     *)
(* both.  All of it runs on one proactor thread: a step is what one fiber     *)
(* does between two suspensions.  The client starts connected: a program      *)
(* whose first Connect fails gives up.                                        *)

EXTENDS Connection, CircuitBreaker

CONSTANTS
    Callers,     \* fibers with requests, one at a time each
    Beats,       \* fibers for heartbeats; bound: so many are under way at once
    Recon,       \* the fiber that got hold of reconnecting_
    Heartbeats,  \* TRUE: heartbeats find a dead link (StdQuotes, SPQuotes);
                 \* FALSE: failed requests do (ExtQuotes)
    Retries,     \* length of the back-off table: 4
    MaxIdle,     \* kHeartbeatMaxIdle: 20
    MaxPending   \* bound: detached Reconnect fibers not yet run

ASSUME ClientAssumption ==
    /\ Callers \subseteq Fibers /\ Beats \subseteq Fibers \ Callers
    /\ Recon \in Fibers \ (Callers \cup Beats)
    /\ Heartbeats \in BOOLEAN
    /\ Retries \in Nat \ {0} /\ MaxIdle \in Nat \ {0} /\ MaxPending \in Nat \ {0}

VARIABLES
    up,        \* the outside world: servers are reachable and well-behaved
    cur,       \* conn_
    logged,    \* the login on conn_ was answered
    online,    \* connected_
    stage,     \* Reconnect: "idle" (reconnecting_ clear), "select", "connect", "login"
    pending,   \* detached fibers about to enter Reconnect
    hb,        \* heartbeat_ exists and its timer runs
    recent,    \* business traffic since the last timer tick
    idle,      \* idle_count_
    beat,      \* [Beats -> "idle" / "spawned" / "call"]
    request,   \* [Callers -> "idle" / "call" / "backoff"]
    tries,     \* [Callers -> attempts that failed]
    closed     \* Close() has run

heartVars == <<hb, recent, idle, beat>>
requestVars == <<request, tries>>
linkVars == <<cur, logged, online, stage>>
vars == <<connVars, breakerVars, up, linkVars, pending, heartVars, requestVars, closed>>

(* shared_ptr: conn_ and a caller's snapshot keep a connection alive; the     *)
(* object of a connection nobody holds is used for the next one.              *)
Held(k) == k = cur \/ \E f \in Callers \cup Beats : pc[f] # "out" /\ at[f] = k
Spawn(n) == pending' = IF pending + n < MaxPending THEN pending + n ELSE MaxPending

Init ==
    /\ cur \in Conns
    /\ sock = [k \in Conns |-> IF k = cur THEN "open" ELSE "new"]
    /\ peer = [k \in Conns |-> k = cur]
    /\ connected = peer
    /\ mu = [k \in Conns |-> NoFiber]
    /\ owed = [k \in Conns |-> 0]
    /\ own = [k \in Conns |-> FALSE]
    /\ rest = [k \in Conns |-> FALSE]
    /\ pc = [f \in Fibers |-> "out"]
    /\ at = [f \in Fibers |-> NoConn]
    /\ mine = [f \in Fibers |-> FALSE]
    /\ got = "nothing"
    /\ BreakerInit
    /\ up = TRUE /\ logged = TRUE /\ online = TRUE
    /\ stage = "idle" /\ pending = 0
    /\ hb = Heartbeats /\ recent = TRUE /\ idle = 0
    /\ beat = [b \in Beats |-> "idle"]
    /\ request = [c \in Callers |-> "idle"]
    /\ tries = [c \in Callers |-> 0]
    /\ closed = FALSE

-----------------------------------------------------------------------------
(* A world that is up loses no request and no connection, garbles nothing and *)
(* answers within the timeout.  That does not mend a stream already out of    *)
(* step: what starts inside a response is still a bad frame.                  *)
Coming(f) ==
    pc[f] = "body" \/ own[at[f]] \/ owed[at[f]] > 0 \/ rest[at[f]]
Resumed(f) ==
    LET k == at[f] IN
    /\ InCall(f)
    /\ up => /\ ~(BadFrame(f) /\ ~rest[k])
             /\ ~(RecvTimeout(f) /\ Coming(f))
             /\ ~(SendFails(f) /\ peer[k])

(* Requests: Call and RetryPolicy::Execute.                                   *)

RequestEnds(c) ==
    /\ request' = [request EXCEPT ![c] = "idle"]
    /\ tries' = [tries EXCEPT ![c] = 0]

(* Mutants of AttemptFails: the attempts are not counted; a request that is   *)
(* given up asks for nothing.                                                 *)
AttemptFailsForever(c) ==
    /\ request' = [request EXCEPT ![c] = "backoff"]
    /\ UNCHANGED <<breakerVars, pending, tries>>
AttemptFailsAlone(c) ==
    \/ /\ tries[c] < Retries
       /\ request' = [request EXCEPT ![c] = "backoff"]
       /\ tries' = [tries EXCEPT ![c] = @ + 1]
       /\ UNCHANGED <<breakerVars, pending>>
    \/ /\ tries[c] = Retries
       /\ RecordFailure
       /\ RequestEnds(c)
       /\ UNCHANGED pending

(* An attempt failed: back off and try again, or give up.  Only ExtQuotes     *)
(* then asks for a reconnect.                                                 *)
AttemptFails(c) ==
    \/ /\ tries[c] < Retries
       /\ request' = [request EXCEPT ![c] = "backoff"]
       /\ tries' = [tries EXCEPT ![c] = @ + 1]
       /\ UNCHANGED <<breakerVars, pending>>
    \/ /\ tries[c] = Retries
       /\ RecordFailure
       /\ RequestEnds(c)
       /\ Spawn(IF Heartbeats THEN 0 ELSE 1)

(* One attempt on the connection of this moment. *)
Attempt(c) ==
    \/ /\ cur # NoConn
       /\ Enter(c, cur)
       /\ request' = [request EXCEPT ![c] = "call"]
       /\ UNCHANGED pending
    \/ /\ cur = NoConn
       /\ request' = [request EXCEPT ![c] = "backoff"]
       /\ UNCHANGED <<callVars, pending>>

(* A request the breaker lets in; one that it refuses changes nothing. *)
Request(c) ==
    /\ request[c] = "idle" /\ Admit
    /\ Attempt(c)
    /\ tries' = [tries EXCEPT ![c] = IF cur = NoConn THEN 1 ELSE 0]
    /\ UNCHANGED <<streamVars, up, linkVars, heartVars, closed>>

(* The back-off ends: the next attempt takes a fresh snapshot of conn_.       *)
Retry(c) ==
    /\ request[c] = "backoff"
    /\ \/ /\ cur # NoConn
          /\ Attempt(c)
          /\ UNCHANGED <<breakerVars, tries>>
       \/ /\ cur = NoConn
          /\ AttemptFails(c)
          /\ UNCHANGED callVars
    /\ UNCHANGED <<streamVars, up, linkVars, heartVars, closed>>

(* RecordSuccess and NotifyActivity. *)
RequestSucceeds(c) ==
    /\ RecordSuccess
    /\ RequestEnds(c)
    /\ recent' = (recent \/ hb)
    /\ idle' = IF hb THEN 0 ELSE idle
    /\ UNCHANGED pending

RequestStep(c) ==
    /\ request[c] = "call" /\ Resumed(c)
    /\ \/ pc'[c] # "out" /\ UNCHANGED <<breakerVars, pending, requestVars, recent, idle>>
       \/ pc'[c] = "out" /\ got' # "error" /\ RequestSucceeds(c)
       \/ pc'[c] = "out" /\ got' = "error" /\ AttemptFails(c) /\ UNCHANGED <<recent, idle>>
    /\ UNCHANGED <<up, linkVars, hb, beat, closed>>

-----------------------------------------------------------------------------
(* Heartbeat::OnTimer: nothing after business traffic; else count, and send a *)
(* heartbeat or, at the limit, reconnect, in a fiber of its own.              *)
TimerQuiet ==
    /\ hb /\ recent
    /\ recent' = FALSE
    /\ UNCHANGED <<connVars, breakerVars, up, linkVars, pending, hb, idle, beat, requestVars, closed>>

TimerBeat(b) ==
    /\ hb /\ ~recent /\ idle + 1 < MaxIdle /\ beat[b] = "idle"
    /\ idle' = idle + 1
    /\ beat' = [beat EXCEPT ![b] = "spawned"]
    /\ UNCHANGED <<connVars, breakerVars, up, linkVars, pending, hb, recent, requestVars, closed>>

(* Mutant of TimerIdle: the count is not reset. *)
TimerIdleCounts ==
    /\ hb /\ ~recent /\ idle + 1 >= MaxIdle
    /\ idle' = idle + 1
    /\ Spawn(1)
    /\ UNCHANGED <<connVars, breakerVars, up, linkVars, hb, recent, beat, requestVars, closed>>

TimerIdle ==
    /\ hb /\ ~recent /\ idle + 1 >= MaxIdle
    /\ idle' = 0
    /\ Spawn(1)
    /\ UNCHANGED <<connVars, breakerVars, up, linkVars, hb, recent, beat, requestVars, closed>>

(* SendHeartbeat: no connection, nothing to do. *)
SendHeartbeat(b) ==
    /\ beat[b] = "spawned"
    /\ \/ /\ cur = NoConn
          /\ beat' = [beat EXCEPT ![b] = "idle"]
          /\ UNCHANGED callVars
       \/ /\ cur # NoConn
          /\ Enter(b, cur)
          /\ beat' = [beat EXCEPT ![b] = "call"]
    /\ UNCHANGED <<streamVars, breakerVars, up, linkVars, pending, hb, recent, idle,
                   requestVars, closed>>

(* A heartbeat that fails asks for a reconnect. *)
BeatStep(b) ==
    /\ beat[b] = "call" /\ Resumed(b)
    /\ \/ pc'[b] # "out" /\ UNCHANGED <<beat, pending>>
       \/ /\ pc'[b] = "out"
          /\ beat' = [beat EXCEPT ![b] = "idle"]
          /\ Spawn(IF got' = "error" THEN 1 ELSE 0)
    /\ UNCHANGED <<breakerVars, up, linkVars, hb, recent, idle, requestVars, closed>>

-----------------------------------------------------------------------------
(* Mutants of Reconnect: a second one does not turn back; the heartbeat is    *)
(* not stopped; the old connection is not closed.                             *)
ReconnectTwice ==
    /\ pending > 0
    /\ pending' = pending - 1
    /\ stage' = "select"
    /\ hb' = FALSE
    /\ IF cur = NoConn THEN UNCHANGED streamVars ELSE Closed(cur)
    /\ cur' = NoConn /\ online' = FALSE
    /\ UNCHANGED <<callVars, breakerVars, up, logged, recent, idle, beat, requestVars, closed>>
ReconnectBeating ==
    /\ pending > 0 /\ stage = "idle"
    /\ pending' = pending - 1
    /\ stage' = "select"
    /\ IF cur = NoConn THEN UNCHANGED streamVars ELSE Closed(cur)
    /\ cur' = NoConn /\ online' = FALSE
    /\ UNCHANGED <<callVars, breakerVars, up, logged, heartVars, requestVars, closed>>
ReconnectLeaks ==
    /\ pending > 0 /\ stage = "idle"
    /\ pending' = pending - 1
    /\ stage' = "select"
    /\ hb' = FALSE
    /\ cur' = NoConn /\ online' = FALSE
    /\ UNCHANGED <<connVars, breakerVars, up, logged, recent, idle, beat, requestVars, closed>>

(* Reconnect: the first fiber in stops the heartbeat and drops the            *)
(* connection; those that come while it is at work return at once.            *)
Reconnect ==
    /\ pending > 0 /\ stage = "idle"
    /\ pending' = pending - 1
    /\ stage' = "select"
    /\ hb' = FALSE
    /\ IF cur = NoConn THEN UNCHANGED streamVars ELSE Closed(cur)
    /\ cur' = NoConn /\ online' = FALSE
    /\ UNCHANGED <<callVars, breakerVars, up, logged, recent, idle, beat, requestVars, closed>>

ReconnectBusy ==
    /\ pending > 0 /\ stage # "idle"
    /\ pending' = pending - 1
    /\ UNCHANGED <<connVars, breakerVars, up, linkVars, heartVars, requestVars, closed>>

(* Mutant of ReconnectFails: reconnecting_ stays set. *)
ReconnectFailsBusy == RecordFailure /\ stage' = "failed"

(* ConnectInFiber failed: conn_ stays what it is. *)
ReconnectFails == RecordFailure /\ stage' = "idle"

(* SelectBest: no host answered, or conn_ is a new, unconnected object. *)
SelectBest ==
    /\ stage = "select"
    /\ \/ ~up /\ ReconnectFails /\ UNCHANGED <<streamVars, cur, logged>>
       \/ /\ \E k \in Conns :
             /\ ~Held(k)
             /\ cur' = k
             /\ sock' = [sock EXCEPT ![k] = "new"]
             /\ peer' = [peer EXCEPT ![k] = FALSE]
             /\ connected' = [connected EXCEPT ![k] = FALSE]
             /\ owed' = [owed EXCEPT ![k] = 0]
             /\ own' = [own EXCEPT ![k] = FALSE]
             /\ rest' = [rest EXCEPT ![k] = FALSE]
          /\ logged' = FALSE
          /\ stage' = "connect"
          /\ UNCHANGED <<mu, breakerVars>>
    /\ UNCHANGED <<callVars, up, online, pending, heartVars, requestVars, closed>>

(* Connection::Connect, and the login request: without a suspension between   *)
(* them, so that no other request is first on the new connection.             *)
Connect ==
    /\ stage = "connect"
    /\ \/ ~up /\ ReconnectFails /\ UNCHANGED connVars
       \/ /\ mu[cur] = NoFiber
          /\ sock' = [sock EXCEPT ![cur] = "open"]
          /\ peer' = [peer EXCEPT ![cur] = TRUE]
          /\ connected' = [connected EXCEPT ![cur] = TRUE]
          /\ mu' = [mu EXCEPT ![cur] = Recon]
          /\ own' = [own EXCEPT ![cur] = TRUE]
          /\ pc' = [pc EXCEPT ![Recon] = "head"]
          /\ at' = [at EXCEPT ![Recon] = cur]
          /\ stage' = "login"
          /\ UNCHANGED <<owed, rest, mine, got, breakerVars>>
    /\ UNCHANGED <<up, cur, logged, online, pending, heartVars, requestVars, closed>>

(* The login is answered: heartbeat, connected_ and breaker start afresh; or  *)
(* it fails.                                                                  *)
LoginStep ==
    /\ stage = "login" /\ Resumed(Recon)
    /\ \/ /\ pc'[Recon] # "out"
          /\ UNCHANGED <<breakerVars, logged, online, stage, hb, recent, idle>>
       \/ /\ pc'[Recon] = "out" /\ got' # "error"
          /\ RecordSuccess
          /\ logged' = TRUE /\ online' = TRUE /\ stage' = "idle"
          /\ hb' = Heartbeats /\ recent' = TRUE /\ idle' = 0
       \/ /\ pc'[Recon] = "out" /\ got' = "error"
          /\ ReconnectFails
          /\ UNCHANGED <<logged, online, hb, recent, idle>>
    /\ UNCHANGED <<up, cur, pending, beat, requestVars, closed>>

(* Close, from another thread; no fiber runs after it (the pool stops). *)
Close ==
    /\ closed' = TRUE
    /\ IF cur = NoConn THEN UNCHANGED streamVars ELSE Closed(cur)
    /\ cur' = NoConn /\ online' = FALSE /\ hb' = FALSE
    /\ UNCHANGED <<callVars, breakerVars, up, logged, stage, pending, recent, idle, beat,
                   requestVars>>

-----------------------------------------------------------------------------
WorldChanges ==
    /\ up' = ~up
    /\ UNCHANGED <<connVars, breakerVars, linkVars, pending, heartVars, requestVars, closed>>
NetworkStep ==
    /\ ~up /\ Network
    /\ UNCHANGED <<breakerVars, up, linkVars, pending, heartVars, requestVars, closed>>
ClockStep ==
    /\ Tick
    /\ UNCHANGED <<connVars, up, linkVars, pending, heartVars, requestVars, closed>>

Timer == TimerQuiet \/ TimerIdle \/ \E b \in Beats : TimerBeat(b)
Reconnecting == Reconnect \/ SelectBest \/ Connect \/ LoginStep
Next ==
    \/ /\ ~closed
       /\ \/ \E c \in Callers : Request(c) \/ Retry(c) \/ RequestStep(c)
          \/ Timer \/ \E b \in Beats : SendHeartbeat(b) \/ BeatStep(b)
          \/ Reconnecting \/ ReconnectBusy \/ Close
          \/ WorldChanges \/ NetworkStep \/ ClockStep
    \/ closed /\ UNCHANGED vars
Spec == Init /\ [][Next]_vars

(* Fibers are resumed, a waiter for call_mu_ in its turn; timers fire and     *)
(* clocks advance; new requests keep coming; nobody has to call Close and the *)
(* world need not change.                                                     *)
FairSpec ==
    /\ Spec
    /\ \A c \in Callers :
        /\ SF_vars(~closed /\ RequestStep(c)) /\ WF_vars(~closed /\ Retry(c))
        /\ SF_vars(~closed /\ Request(c))
    /\ \A b \in Beats : SF_vars(~closed /\ BeatStep(b)) /\ WF_vars(~closed /\ SendHeartbeat(b))
    /\ WF_vars(~closed /\ Timer)
    /\ SF_vars(~closed /\ Reconnecting) /\ WF_vars(~closed /\ ReconnectBusy)
    /\ WF_vars(~closed /\ ClockStep)

-----------------------------------------------------------------------------
(* Types of the client; idle_count_ stays within its limit (Heartbeat::OnTimer). *)
TypeOK ==
    /\ ConnTypeOK /\ BreakerTypeOK
    /\ up \in BOOLEAN /\ online \in BOOLEAN /\ closed \in BOOLEAN
    /\ cur \in Conns \cup {NoConn} /\ logged \in BOOLEAN
    /\ stage \in {"idle", "select", "connect", "login"}
    /\ pending \in 0 .. MaxPending
    /\ hb \in BOOLEAN /\ recent \in BOOLEAN /\ idle \in 0 .. MaxIdle - 1
    /\ beat \in [Beats -> {"idle", "spawned", "call"}]
    /\ request \in [Callers -> {"idle", "call", "backoff"}]
    /\ tries \in [Callers -> 0 .. Retries]

(* The client calls itself connected only while conn_ is a connection whose   *)
(* login was answered, and a heartbeat timer runs only then: no reconnect,    *)
(* failed or under way, leaves a timer of the previous link behind.           *)
OnlineIsLoggedIn ==
    /\ online => cur # NoConn /\ logged
    /\ hb => online /\ stage = "idle"

(* No connection is leaked: a descriptor that is open belongs to conn_, also  *)
(* while requests of an earlier link still hold their connection.             *)
OnlyCurrentOpen == \A k \in Conns : sock[k] = "open" => k = cur

(* The login keeps its connection: unlike requests and heartbeats, which hold *)
(* a snapshot, it relies on conn_, and reconnecting_ keeps every other        *)
(* Reconnect from replacing that (std_quotes.hpp: a replaced conn_ is no      *)
(* use-after-free; connection.cpp, Close: the socket lives until the Call     *)
(* that hangs in Recv has returned).  Close alone may drop it under a login.  *)
LoginKeepsConnection == ~closed /\ pc[Recon] # "out" => at[Recon] = cur

(* A request ends, answered or failed, whatever servers and reconnects do.    *)
RequestReturns == \A c \in Callers : request[c] # "idle" ~> request[c] = "idle" \/ closed

(* A reconnect ends: reconnecting_ is not left set, which would disable every *)
(* later one.                                                                 *)
ReconnectEnds == stage # "idle" ~> stage = "idle" \/ closed

(* The link is recovered (std_quotes.cpp: reconnect to recover a dead link):  *)
(* with servers that are up for good and requests that keep coming, the       *)
(* client has a working connection again and again.                           *)
Live == cur # NoConn /\ connected[cur] /\ peer[cur]
Recovers == <>[]up => []<>(closed \/ Live)
=============================================================================
