-------------------------- MODULE QuoteClientProofs --------------------------
(* Proofs for QuoteClient and the circuit breaker in it, for any number of    *)
(* connections, prompt or slow, of requests and heartbeats, and for both      *)
(* kinds of client.                                                           *)
EXTENDS QuoteClient, TLAPS

-----------------------------------------------------------------------------
(* The circuit breaker by itself: what retry.cpp keeps for every failure      *)
(* threshold and every longest window, whoever calls it.                      *)

(* The four counters stay in their ranges: the failure count within its cap,  *)
(* the clock within the longest window.                                       *)
THEOREM BreakerType == BreakerSpec => []BreakerTypeOK
<1> USE BreakerAssumption, ShiftAssumption DEF BreakerTypeOK, States, CountCap, LongestWindow
<1>1. BreakerInit => BreakerTypeOK
  BY DEF BreakerInit
<1>2. BreakerTypeOK /\ [BreakerNext]_breakerVars => BreakerTypeOK'
  <2> SUFFICES ASSUME BreakerTypeOK, [BreakerNext]_breakerVars PROVE BreakerTypeOK'
    OBVIOUS
  <2>1. CASE Admit
    BY <2>1 DEF Admit
  <2>2. CASE Refuse
    BY <2>2 DEF Refuse, breakerVars
  <2>3. CASE RecordSuccess
    BY <2>3 DEF RecordSuccess
  <2>4. CASE RecordFailure
    BY <2>4 DEF RecordFailure, Counted
  <2>5. CASE Tick
    BY <2>5 DEF Tick
  <2>6. CASE UNCHANGED breakerVars
    BY <2>6 DEF breakerVars
  <2>7. QED
    BY <2>1, <2>2, <2>3, <2>4, <2>5, <2>6 DEF BreakerNext
<1>3. QED
  BY <1>1, <1>2, PTL DEF BreakerSpec

(* A closed breaker is below its threshold and owes no back-off; any other    *)
(* has met the threshold, by at least as many failures as its exponent.       *)
THEOREM BreakerCounters == BreakerSpec => []CountersAgree
<1> USE BreakerAssumption DEF CountersAgree, BreakerTypeOK, States, CountCap
<1>1. BreakerInit => CountersAgree
  BY DEF BreakerInit
<1>2. BreakerTypeOK /\ CountersAgree /\ [BreakerNext]_breakerVars => CountersAgree'
  <2> SUFFICES ASSUME BreakerTypeOK, CountersAgree, [BreakerNext]_breakerVars
               PROVE  CountersAgree'
    OBVIOUS
  <2>1. CASE Admit
    BY <2>1 DEF Admit
  <2>2. CASE RecordSuccess
    BY <2>2 DEF RecordSuccess
  <2>3. CASE RecordFailure
    <3>1. CASE state = "half_open"
      BY <2>3, <3>1 DEF RecordFailure, Counted
    <3>2. CASE state = "closed"
      BY <2>3, <3>2 DEF RecordFailure, Counted
    <3>3. CASE state = "open"
      BY <2>3, <3>3 DEF RecordFailure, Counted
    <3>4. QED
      BY <3>1, <3>2, <3>3
  <2>4. CASE Tick
    BY <2>4 DEF Tick
  <2>5. CASE Refuse \/ UNCHANGED breakerVars
    BY <2>5 DEF Refuse, breakerVars
  <2>6. QED
    BY <2>1, <2>2, <2>3, <2>4, <2>5 DEF BreakerNext
<1>3. QED
  BY <1>1, <1>2, BreakerType, PTL DEF BreakerSpec

(* No operation sets an open breaker's clock back or moves its window.        *)
THEOREM BreakerWait == BreakerSpec => WaitNeverExtended
<1>1. BreakerTypeOK /\ [BreakerNext]_breakerVars
        => [state = "open" /\ state' = "open" => age' >= age /\ Window' = Window]_breakerVars
  <2> SUFFICES ASSUME BreakerTypeOK, [BreakerNext]_breakerVars,
                      state = "open", state' = "open"
               PROVE  age' >= age /\ Window' = Window
    OBVIOUS
  <2>1. age \in Int
    BY BreakerAssumption, ShiftAssumption DEF BreakerTypeOK, LongestWindow
  <2>2. recovery_failures' = recovery_failures /\ age' \in {age, age + 1}
    BY DEF BreakerNext, Admit, Refuse, RecordSuccess, RecordFailure, Tick, breakerVars
  <2>3. QED
    BY <2>1, <2>2 DEF Window
<1>2. QED
  BY <1>1, BreakerType, PTL DEF BreakerSpec, WaitNeverExtended

(* Opening starts the clock at zero, with the first window from closed and a  *)
(* doubled one, up to the longest, from half_open.                            *)
THEOREM BreakerDoubles == BreakerSpec => WindowDoubles
<1> DEFINE Step ==
      state # "open" /\ state' = "open" =>
        /\ age' = 0
        /\ Window' = IF state = "closed" THEN 1
                     ELSE IF recovery_failures < MaxExponent THEN 2 * Window
                     ELSE LongestWindow
<1>1. BreakerTypeOK /\ [BreakerNext]_breakerVars => [Step]_breakerVars
  <2> SUFFICES ASSUME BreakerTypeOK, [BreakerNext]_breakerVars,
                      state # "open", state' = "open"
               PROVE  Step
    OBVIOUS
  <2> USE BreakerAssumption, ShiftAssumption
  <2>1. RecordFailure /\ state \in {"closed", "half_open"} /\ age' = 0
    BY DEF BreakerNext, Admit, Refuse, RecordSuccess, RecordFailure, Tick, breakerVars,
           BreakerTypeOK, States
  <2>2. CASE state = "closed"
    BY <2>1, <2>2 DEF RecordFailure, Window
  <2>3. CASE state = "half_open"
    <3> DEFINE e == recovery_failures
    <3>1. e \in Nat /\ recovery_failures' = IF e < RecoveryCap THEN e + 1 ELSE RecoveryCap
      BY <2>1, <2>3 DEF RecordFailure, BreakerTypeOK
    <3>2. CASE e < MaxExponent
      <4>1. recovery_failures' = e + 1 /\ Window = ShiftOne[e]
        BY <3>1, <3>2 DEF Window
      <4>2. Window' = ShiftOne[e + 1]
        BY <4>1, <3>1, <3>2 DEF Window
      <4>3. ShiftOne[e + 1] = 2 * ShiftOne[e]
        BY <3>1, <3>2
      <4>4. QED
        BY <4>1, <4>2, <4>3, <3>1, <3>2, <2>1, <2>3
    <3>3. CASE e >= MaxExponent
      <4>1. recovery_failures' >= MaxExponent /\ recovery_failures' \in Nat
        BY <3>1, <3>3
      <4>2. Window = LongestWindow /\ Window' = LongestWindow
        BY <4>1, <3>1, <3>3 DEF Window, LongestWindow
      <4>3. QED
        BY <4>2, <3>1, <3>3, <2>1, <2>3
    <3>4. QED
      BY <3>1, <3>2, <3>3
  <2>4. QED
    BY <2>1, <2>2, <2>3
<1>2. QED
  BY <1>1, BreakerType, PTL DEF BreakerSpec, WindowDoubles

-----------------------------------------------------------------------------
(* The connections.  Who is inside the round trip of a Call has the lock of   *)
(* its connection, and nobody else has.                                       *)
Calls ==
    /\ \A f \in Fibers : pc[f] = "out" <=> at[f] = NoConn
    /\ \A f \in Fibers, k \in Conns : mu[k] = f <=> pc[f] \in {"head", "body"} /\ at[f] = k

(* A connection in somebody's hands is connected_ until its socket is closed. *)
(* On a prompt one that is connected nothing is left over, and an answer on   *)
(* its way is that of the holder, who has yet to read its header; a header    *)
(* that was read was the reader's own.                                        *)
Streams ==
    /\ \A k \in Conns : mu[k] # NoFiber /\ sock[k] = "open" => connected[k]
    /\ \A k \in Conns \ Slow : connected[k] =>
        owed[k] = 0 /\ ~rest[k] /\ (own[k] => mu[k] # NoFiber /\ pc[mu[k]] = "head")
    /\ \A f \in Fibers : pc[f] = "body" /\ at[f] \notin Slow => mine[f]

CallInv == ConnTypeOK /\ Calls /\ Streams

LEMMA CallIsClean == CallInv => CleanBetweenCalls
BY DEF CallInv, Streams, CleanBetweenCalls, ConnTypeOK

(* A Call changes nothing of the fibers and connections it is not about.      *)
LEMMA InCallAlone ==
    ASSUME CallInv, NEW f \in Fibers, InCall(f)
    PROVE  /\ pc[f] # "out" /\ at[f] \in Conns
           /\ sock' = sock /\ peer' = peer
           /\ \A g \in Fibers \ {f} : pc'[g] = pc[g] /\ at'[g] = at[g] /\ mine'[g] = mine[g]
           /\ \A k \in Conns \ {at[f]} :
                /\ connected'[k] = connected[k] /\ mu'[k] = mu[k]
                /\ owed'[k] = owed[k] /\ own'[k] = own[k] /\ rest'[k] = rest[k]
           /\ pc'[f] # "out" => at'[f] = at[f] /\ UNCHANGED got
           /\ pc'[f] = "out" => at'[f] = NoConn /\ mu'[at[f]] = NoFiber
<1> USE ConnectionAssumption DEF CallInv, ConnTypeOK, Calls, EndCall, Abandon, MarkBroken
<1>1. pc[f] # "out"
  BY DEF InCall, NotConnected, Send, SendFails, ReadHead, ReadBody, BadFrame, RecvClosed, RecvTimeout
<1>2. at[f] \in Conns
  BY <1>1
<1>3. CASE NotConnected(f)
  BY <1>1, <1>2, <1>3 DEF NotConnected
<1>4. CASE Send(f)
  BY <1>1, <1>2, <1>4 DEF Send
<1>5. CASE SendFails(f)
  BY <1>1, <1>2, <1>5 DEF SendFails
<1>6. CASE ReadHead(f)
  BY <1>1, <1>2, <1>6 DEF ReadHead
<1>7. CASE ReadBody(f)
  BY <1>1, <1>2, <1>7 DEF ReadBody
<1>8. CASE BadFrame(f)
  BY <1>1, <1>2, <1>8 DEF BadFrame
<1>9. CASE RecvClosed(f)
  BY <1>1, <1>2, <1>9 DEF RecvClosed
<1>10. CASE RecvTimeout(f)
  BY <1>1, <1>2, <1>10 DEF RecvTimeout
<1> QED
  BY <1>3, <1>4, <1>5, <1>6, <1>7, <1>8, <1>9, <1>10 DEF InCall

LEMMA InCallType ==
    ASSUME CallInv, NEW f \in Fibers, InCall(f)
    PROVE  ConnTypeOK'
<1> USE ConnectionAssumption DEF CallInv, ConnTypeOK, EndCall, Abandon, MarkBroken
<1>1. at[f] \in Conns
  BY InCallAlone
<1>2. CASE NotConnected(f)
  BY <1>1, <1>2 DEF NotConnected
<1>3. CASE Send(f)
  BY <1>1, <1>3 DEF Send
<1>4. CASE SendFails(f)
  BY <1>1, <1>4 DEF SendFails
<1>5. CASE ReadHead(f)
  <2>1. (owed[at[f]] = 0) \in BOOLEAN
    OBVIOUS
  <2>2. mine' \in [Fibers -> BOOLEAN]
    BY <1>5, <2>1, Zenon DEF ReadHead
  <2>3. owed' \in [Conns -> 0 .. MaxOwed] /\ own' \in [Conns -> BOOLEAN]
    <3>1. own' = own \/ own' = [own EXCEPT ![at[f]] = FALSE]
      BY <1>5 DEF ReadHead
    <3>2. owed' = owed \/ (owed[at[f]] > 0 /\ owed' = [owed EXCEPT ![at[f]] = @ - 1])
      BY <1>5 DEF ReadHead
    <3>3. own' \in [Conns -> BOOLEAN]
      BY <3>1, Zenon
    <3>4. owed[at[f]] \in 0 .. MaxOwed /\ (owed[at[f]] > 0 => owed[at[f]] - 1 \in 0 .. MaxOwed)
      BY <1>1
    <3>5. owed' \in [Conns -> 0 .. MaxOwed]
      BY <3>2, <3>4
    <3> QED
      BY <3>3, <3>5
  <2>4. pc' \in [Fibers -> {"out", "lock", "head", "body"}]
    BY <1>5 DEF ReadHead
  <2> QED
    BY <1>5, <2>2, <2>3, <2>4 DEF ReadHead
<1>6. CASE ReadBody(f)
  BY <1>1, <1>6 DEF ReadBody
<1>7. CASE BadFrame(f)
  BY <1>1, <1>7 DEF BadFrame
<1>8. CASE RecvClosed(f)
  BY <1>1, <1>8 DEF RecvClosed
<1>9. CASE RecvTimeout(f)
  BY <1>1, <1>9 DEF RecvTimeout
<1> QED
  BY <1>2, <1>3, <1>4, <1>5, <1>6, <1>7, <1>8, <1>9 DEF InCall

(* What a Call does to its own connection and to its place in Call.           *)
LEMMA InCallOwn ==
    ASSUME CallInv, NEW f \in Fibers, InCall(f)
    PROVE  LET k == at[f] IN
           /\ pc'[f] = "out" => (k \notin Slow /\ connected'[k] => owed'[k] = 0 /\ ~rest'[k] /\ ~own'[k])
           /\ pc'[f] # "out" =>
                /\ pc'[f] \in {"head", "body"} /\ mu'[k] = f
                /\ connected'[k] = connected[k]
                /\ k \notin Slow /\ connected[k] =>
                     owed'[k] = 0 /\ ~rest'[k] /\ (own'[k] => pc'[f] = "head")
                /\ pc'[f] = "body" /\ k \notin Slow => mine'[f]
                /\ sock[k] = "open" => connected[k]
<1> USE ConnectionAssumption DEF CallInv, ConnTypeOK, Calls, Streams, EndCall, Abandon, MarkBroken
<1>1. at[f] \in Conns
  BY InCallAlone
<1>2. CASE NotConnected(f)
  BY <1>1, <1>2 DEF NotConnected
<1>3. CASE Send(f)
  BY <1>1, <1>3 DEF Send
<1>4. CASE SendFails(f)
  BY <1>1, <1>4 DEF SendFails
<1>5. CASE ReadHead(f)
  BY <1>1, <1>5 DEF ReadHead
<1>6. CASE ReadBody(f)
  BY <1>1, <1>6 DEF ReadBody
<1>7. CASE BadFrame(f)
  BY <1>1, <1>7 DEF BadFrame
<1>8. CASE RecvClosed(f)
  BY <1>1, <1>8 DEF RecvClosed
<1>9. CASE RecvTimeout(f)
  BY <1>1, <1>9 DEF RecvTimeout
<1> QED
  BY <1>2, <1>3, <1>4, <1>5, <1>6, <1>7, <1>8, <1>9 DEF InCall

LEMMA InCallKeeps ==
    ASSUME CallInv, NEW f \in Fibers, InCall(f)
    PROVE  CallInv'
<1> DEFINE k == at[f]
<1>1. ConnTypeOK'
  BY InCallType
<1>2. k \in Conns /\ k # NoConn /\ f # NoFiber
  BY InCallAlone, ConnectionAssumption
<1>3. Calls'
  <2>1. ASSUME NEW g \in Fibers PROVE pc'[g] = "out" <=> at'[g] = NoConn
    BY <1>2, InCallAlone DEF CallInv, Calls
  <2>2. ASSUME NEW g \in Fibers, NEW j \in Conns
        PROVE  mu'[j] = g <=> pc'[g] \in {"head", "body"} /\ at'[g] = j
    <3>1. CASE j # k /\ g # f
      BY <3>1, InCallAlone DEF CallInv, Calls
    <3>2. CASE j # k /\ g = f
      <4>1. mu'[j] = mu[j] /\ mu[j] # f
        BY <3>2, InCallAlone DEF CallInv, Calls
      <4>2. at'[f] # j
        BY <3>2, <1>2, InCallAlone, ConnectionAssumption
      <4> QED
        BY <3>2, <4>1, <4>2
    <3>3. CASE j = k /\ g = f
      BY <3>3, <1>2, InCallAlone, InCallOwn, ConnectionAssumption
    <3>4. CASE j = k /\ g # f
      <4>1. mu[k] \in {f, NoFiber}
        <5>1. CASE pc[f] = "lock"
          BY <5>1 DEF InCall, NotConnected, Send, SendFails,
                ReadHead, ReadBody, BadFrame, RecvClosed, RecvTimeout
        <5>2. CASE pc[f] # "lock"
          BY <5>2, <1>2, InCallAlone DEF CallInv, Calls, ConnTypeOK
        <5> QED
          BY <5>1, <5>2
      <4>2. mu'[k] \in {f, NoFiber}
        BY InCallAlone, InCallOwn
      <4>3. ~(pc'[g] \in {"head", "body"} /\ at'[g] = k)
        BY <3>4, <4>1, <1>2, InCallAlone, ConnectionAssumption DEF CallInv, Calls
      <4> QED
        BY <3>4, <4>2, <4>3, ConnectionAssumption
    <3> QED
      BY <3>1, <3>2, <3>3, <3>4
  <2> QED
    BY <2>1, <2>2 DEF Calls
<1>4. Streams'
  <2>1. ASSUME NEW j \in Conns, mu'[j] # NoFiber, sock'[j] = "open" PROVE connected'[j]
    BY <2>1, <1>2, InCallAlone, InCallOwn DEF CallInv, Streams
  <2>2. ASSUME NEW j \in Conns \ Slow, connected'[j]
        PROVE  owed'[j] = 0 /\ ~rest'[j] /\ (own'[j] => mu'[j] # NoFiber /\ pc'[mu'[j]] = "head")
    <3>1. CASE j = k
      BY <2>2, <3>1, <1>2, InCallAlone, InCallOwn
    <3>2. CASE j # k
      <4>1. mu[j] # f
        BY <3>2 DEF CallInv, Calls
      <4>2. connected[j] /\ owed'[j] = owed[j] /\ rest'[j] = rest[j] /\ own'[j] = own[j] /\ mu'[j] = mu[j]
        BY <3>2, <2>2, InCallAlone
      <4>3. mu[j] \in Fibers \cup {NoFiber}
        BY DEF CallInv, ConnTypeOK
      <4>4. mu[j] # NoFiber => pc'[mu[j]] = pc[mu[j]]
        BY <4>1, <4>3, InCallAlone
      <4> QED
        BY <2>2, <4>2, <4>4 DEF CallInv, Streams
    <3> QED
      BY <3>1, <3>2
  <2>3. ASSUME NEW g \in Fibers, pc'[g] = "body", at'[g] \notin Slow PROVE mine'[g]
    <3>1. CASE g = f
      BY <2>3, <3>1, <1>2, InCallAlone, InCallOwn
    <3>2. CASE g # f
      BY <2>3, <3>2, InCallAlone DEF CallInv, Streams
    <3> QED
      BY <3>1, <3>2
  <2> QED
    BY <2>1, <2>2, <2>3 DEF Streams
<1> QED
  BY <1>1, <1>3, <1>4 DEF CallInv

(* On a prompt connection a Call that has read a header ends with its own     *)
(* answer or with an error.                                                   *)
LEMMA InCallPrompt ==
    ASSUME CallInv, NEW f \in Fibers, InCall(f), NEW g \in Fibers,
           pc[g] = "body", pc'[g] = "out", got' = "foreign"
    PROVE  at[g] \in Slow
<1>1. g = f
  BY InCallAlone
<1>2. ReadBody(f)
  BY <1>1 DEF InCall, NotConnected, Send, SendFails, ReadHead, BadFrame, RecvClosed, RecvTimeout, EndCall
<1> QED
  BY <1>1, <1>2 DEF ReadBody, EndCall, CallInv, Streams

LEMMA EnterKeeps ==
    ASSUME CallInv, NEW f \in Fibers, NEW k \in Conns, Enter(f, k), UNCHANGED streamVars
    PROVE  CallInv'
<1> USE ConnectionAssumption DEF CallInv, Enter, streamVars
<1>1. ConnTypeOK'
  BY DEF ConnTypeOK
<1>2. Calls'
  BY DEF ConnTypeOK, Calls
<1>3. Streams'
  BY DEF ConnTypeOK, Calls, Streams
<1> QED
  BY <1>1, <1>2, <1>3

(* Connection::Close may come at any time. *)
LEMMA ClosedKeeps ==
    ASSUME CallInv, NEW k \in Conns, Closed(k), UNCHANGED callVars
    PROVE  CallInv'
<1> USE ConnectionAssumption DEF CallInv, Closed, callVars
<1>1. ConnTypeOK'
  BY DEF ConnTypeOK
<1>2. Calls'
  BY DEF ConnTypeOK, Calls
<1>3. Streams'
  BY DEF ConnTypeOK, Streams
<1> QED
  BY <1>1, <1>2, <1>3

LEMMA NetworkKeeps == ASSUME CallInv, Network PROVE CallInv'
<1>1. PICK k \in Conns : Ignore(k) \/ Hangup(k)
  BY DEF Network
<1> USE DEF CallInv, Ignore, Hangup, callVars
<1>2. ConnTypeOK'
  BY <1>1 DEF ConnTypeOK
<1>3. Calls'
  BY <1>1 DEF ConnTypeOK, Calls
<1>4. Streams'
  BY <1>1 DEF ConnTypeOK, Streams
<1> QED
  BY <1>2, <1>3, <1>4

-----------------------------------------------------------------------------
(* The client.  TypeOK without its parts that are the connections' and the    *)
(* breaker's.                                                                 *)
LinkType ==
    /\ up \in BOOLEAN /\ online \in BOOLEAN /\ closed \in BOOLEAN
    /\ cur \in Conns \cup {NoConn} /\ logged \in BOOLEAN
    /\ stage \in {"idle", "select", "connect", "login"}
    /\ pending \in 0 .. MaxPending
    /\ hb \in BOOLEAN /\ recent \in BOOLEAN /\ idle \in 0 .. MaxIdle - 1
    /\ beat \in [Beats -> {"idle", "spawned", "call"}]
    /\ request \in [Callers -> {"idle", "call", "backoff"}]
    /\ tries \in [Callers -> 0 .. Retries]

(* Which fibers are inside Call: requests under way, heartbeats sent, and     *)
(* Reconnect while it logs in.                                                *)
Places ==
    /\ \A c \in Callers : pc[c] # "out" <=> request[c] = "call"
    /\ \A b \in Beats : pc[b] # "out" <=> beat[b] = "call"
    /\ pc[Recon] # "out" <=> stage = "login"
    /\ \A f \in Fibers \ (Callers \cup Beats \cup {Recon}) : pc[f] = "out"

(* A connection object nothing has happened to. *)
Unused(k) ==
    /\ sock[k] # "open" /\ ~connected[k] /\ mu[k] = NoFiber
    /\ owed[k] = 0 /\ ~own[k] /\ ~rest[k]

(* How far Reconnect has come: no connection, an unused one, and the one it   *)
(* logs in on; connected_ is FALSE throughout.                                *)
Links ==
    /\ stage = "select" => cur = NoConn
    /\ ~closed /\ stage = "connect" => cur # NoConn /\ Unused(cur)
    /\ ~closed /\ stage = "login" => at[Recon] = cur
    /\ stage # "idle" => ~online
    /\ OnlineIsLoggedIn

ClientInv == CallInv /\ LinkType /\ Places /\ Links /\ OnlyCurrentOpen

LEMMA ClientInit == Init => ClientInv
<1> SUFFICES ASSUME Init PROVE ClientInv
  OBVIOUS
<1> USE ConnectionAssumption, ClientAssumption DEF Init
<1>1. sock \in [Conns -> {"new", "open", "closed"}] /\ peer \in [Conns -> BOOLEAN]
  <2>1. \A k \in Conns : (k = cur) \in BOOLEAN
    OBVIOUS
  <2> QED
    BY <2>1
<1>2. ConnTypeOK
  BY <1>1 DEF ConnTypeOK
<1>3. \A k \in Conns : connected[k] <=> k = cur
  OBVIOUS
<1>4. Calls /\ Streams
  BY <1>3 DEF Calls, Streams
<1>5. LinkType
  <2>1. pending \in 0 .. MaxPending /\ idle \in 0 .. MaxIdle - 1 /\ tries \in [Callers -> 0 .. Retries]
    OBVIOUS
  <2>2. hb \in BOOLEAN
    BY Zenon
  <2> QED
    BY <2>1, <2>2 DEF LinkType
<1>6. Places
  BY DEF Places
<1>7. Links
  BY DEF Links, OnlineIsLoggedIn
<1>8. OnlyCurrentOpen
  BY DEF OnlyCurrentOpen
<1> QED
  BY <1>2, <1>4, <1>5, <1>6, <1>7, <1>8 DEF ClientInv, CallInv

(* A Call of a request, of a heartbeat or of the login goes on: what it may   *)
(* do to the link.                                                            *)
LEMMA CallStep ==
    ASSUME ClientInv, NEW f \in Fibers, InCall(f)
    PROVE  /\ CallInv'
           /\ sock' = sock
           /\ \A g \in Fibers \ {f} : pc'[g] = pc[g] /\ at'[g] = at[g]
           /\ pc[f] # "out" /\ (pc'[f] # "out" => at'[f] = at[f])
           /\ \A k \in Conns : Unused(k) => Unused(k)'
<1> USE DEF ClientInv
<1>1. ASSUME NEW k \in Conns, Unused(k) PROVE Unused(k)'
  <2>1. CASE k # at[f]
    BY <1>1, <2>1, InCallAlone DEF Unused
  <2>2. CASE k = at[f]
    <3>1. NotConnected(f)
      <4>1. pc[f] = "lock"
        BY <1>1, <2>2, InCallAlone, ConnectionAssumption DEF Unused, CallInv, Calls, ConnTypeOK
      <4> QED
        BY <4>1, <1>1, <2>2 DEF Unused, InCall, Send, SendFails, ReadHead, ReadBody, BadFrame,
              RecvClosed, RecvTimeout
    <3> QED
      BY <1>1, <2>2, <3>1, InCallAlone DEF Unused, NotConnected, EndCall, CallInv, ConnTypeOK
  <2> QED
    BY <2>1, <2>2
<1> QED
  BY <1>1, InCallKeeps, InCallAlone

(* Steps that concern neither connections nor the link.                       *)
LEMMA Aside ==
    ASSUME ClientInv, UNCHANGED <<connVars, linkVars, closed, request>>,
           hb' = hb, \A b \in Beats : beat'[b] = "call" <=> beat[b] = "call"
    PROVE  CallInv' /\ Places' /\ Links' /\ OnlyCurrentOpen'
<1> USE DEF ClientInv, connVars, streamVars, callVars, linkVars
<1>1. CallInv'
  BY DEF CallInv, ConnTypeOK, Calls, Streams
<1>2. Places'
  BY DEF Places
<1>3. Links'
  BY DEF Links, Unused, OnlineIsLoggedIn
<1>4. OnlyCurrentOpen'
  BY DEF OnlyCurrentOpen
<1> QED
  BY <1>1, <1>2, <1>3, <1>4

-----------------------------------------------------------------------------
LEMMA SpawnType ==
    ASSUME LinkType, NEW n \in {0, 1}, Spawn(n)
    PROVE  pending' \in 0 .. MaxPending
BY ClientAssumption DEF LinkType, Spawn

LEMMA AttemptFailsType ==
    ASSUME LinkType, NEW c \in Callers, AttemptFails(c)
    PROVE  /\ request' \in [Callers -> {"idle", "call", "backoff"}]
           /\ request'[c] # "call" /\ \A d \in Callers \ {c} : request'[d] = request[d]
           /\ tries' \in [Callers -> 0 .. Retries]
           /\ pending' \in 0 .. MaxPending
<1> USE ClientAssumption
<1>1. CASE tries[c] < Retries
  <2>1. request' = [request EXCEPT ![c] = "backoff"] /\ tries' = [tries EXCEPT ![c] = @ + 1] /\ pending' = pending
    BY <1>1 DEF AttemptFails
  <2>2. tries[c] + 1 \in 0 .. Retries
    BY <1>1 DEF LinkType
  <2> QED
    BY <2>1, <2>2 DEF LinkType
<1>2. CASE ~(tries[c] < Retries)
  <2>1. RequestEnds(c) /\ Spawn(IF Heartbeats THEN 0 ELSE 1)
    BY <1>2 DEF AttemptFails
  <2>2. pending' \in 0 .. MaxPending
    BY <2>1, SpawnType
  <2> QED
    BY <2>1, <2>2 DEF LinkType, RequestEnds
<1> QED
  BY <1>1, <1>2

(* A request's steps outside Call. *)
LEMMA RequestKeeps ==
    ASSUME ClientInv, NEW c \in Callers, Request(c)
    PROVE  ClientInv'
<1> USE ConnectionAssumption, ClientAssumption DEF ClientInv
<1>1. c \in Fibers /\ c # Recon /\ c \notin Beats
  OBVIOUS
<1>2. UNCHANGED <<streamVars, up, linkVars, heartVars, closed>> /\ request[c] = "idle" /\ pc[c] = "out"
  BY DEF Request, Places
<1>3. tries' \in [Callers -> 0 .. Retries]
  BY DEF Request, LinkType
<1>4. CASE cur = NoConn
  <2>1. UNCHANGED <<callVars, pending>> /\ request' = [request EXCEPT ![c] = "backoff"]
    BY <1>4 DEF Request, Attempt
  <2>2. CallInv' /\ OnlyCurrentOpen'
    BY <1>2, <2>1 DEF CallInv, ConnTypeOK, Calls, Streams, OnlyCurrentOpen, callVars, streamVars, linkVars
  <2>3. LinkType'
    BY <1>2, <1>3, <2>1 DEF LinkType, linkVars, heartVars
  <2>4. Places'
    BY <1>2, <2>1 DEF Places, LinkType, callVars, linkVars, heartVars
  <2>5. Links'
    BY <1>2, <2>1 DEF Links, Unused, OnlineIsLoggedIn, callVars, streamVars, linkVars, heartVars
  <2> QED
    BY <2>2, <2>3, <2>4, <2>5
<1>5. CASE cur # NoConn
  <2>1. Enter(c, cur) /\ request' = [request EXCEPT ![c] = "call"] /\ pending' = pending /\ cur \in Conns
    BY <1>5 DEF Request, Attempt, LinkType
  <2>2. CallInv' /\ OnlyCurrentOpen'
    BY <1>1, <1>2, <2>1, EnterKeeps DEF OnlyCurrentOpen, streamVars, linkVars
  <2>3. LinkType'
    BY <1>2, <1>3, <2>1 DEF LinkType, linkVars, heartVars
  <2>4. Places'
    BY <1>1, <1>2, <2>1 DEF Places, LinkType, Enter, CallInv, ConnTypeOK, linkVars, heartVars
  <2>5. Links'
    BY <1>1, <1>2, <2>1 DEF Links, Unused, OnlineIsLoggedIn, Enter, CallInv, ConnTypeOK, streamVars, linkVars, heartVars
  <2> QED
    BY <2>2, <2>3, <2>4, <2>5
<1> QED
  BY <1>4, <1>5

LEMMA RetryKeeps ==
    ASSUME ClientInv, NEW c \in Callers, Retry(c)
    PROVE  ClientInv'
<1> USE ConnectionAssumption, ClientAssumption DEF ClientInv
<1>1. c \in Fibers /\ c # Recon /\ c \notin Beats
  OBVIOUS
<1>2. UNCHANGED <<streamVars, up, linkVars, heartVars, closed>> /\ pc[c] = "out"
  BY DEF Retry, Places
<1>3. CASE cur = NoConn
  <2>1. UNCHANGED callVars /\ AttemptFails(c)
    BY <1>3 DEF Retry
  <2>2. CallInv' /\ OnlyCurrentOpen'
    BY <1>2, <2>1 DEF CallInv, ConnTypeOK, Calls, Streams, OnlyCurrentOpen, callVars, streamVars, linkVars
  <2>3. LinkType'
    BY <1>2, <2>1, AttemptFailsType DEF LinkType, linkVars, heartVars
  <2>4. Places'
    BY <1>2, <2>1, AttemptFailsType DEF Places, LinkType, callVars, linkVars, heartVars
  <2>5. Links'
    BY <1>2, <2>1 DEF Links, Unused, OnlineIsLoggedIn, callVars, streamVars, linkVars, heartVars
  <2> QED
    BY <2>2, <2>3, <2>4, <2>5
<1>4. CASE cur # NoConn
  <2>1. Enter(c, cur) /\ request' = [request EXCEPT ![c] = "call"] /\ UNCHANGED <<pending, tries>> /\ cur \in Conns
    BY <1>4 DEF Retry, Attempt, LinkType
  <2>2. CallInv' /\ OnlyCurrentOpen'
    BY <1>1, <1>2, <2>1, EnterKeeps DEF OnlyCurrentOpen, streamVars, linkVars
  <2>3. LinkType'
    BY <1>2, <2>1 DEF LinkType, linkVars, heartVars
  <2>4. Places'
    BY <1>1, <1>2, <2>1 DEF Places, LinkType, Enter, CallInv, ConnTypeOK, linkVars, heartVars
  <2>5. Links'
    BY <1>1, <1>2, <2>1 DEF Links, Unused, OnlineIsLoggedIn, Enter, CallInv, ConnTypeOK, streamVars, linkVars, heartVars
  <2> QED
    BY <2>2, <2>3, <2>4, <2>5
<1> QED
  BY <1>3, <1>4

(* What a step of a Call does to the link, whoever's Call it is.              *)
LEMMA CallStepLinks ==
    ASSUME ClientInv, NEW f \in Fibers \ {Recon}, InCall(f), UNCHANGED <<linkVars, hb, closed>>
    PROVE  Links' /\ OnlyCurrentOpen'
<1> USE ConnectionAssumption, ClientAssumption DEF ClientInv, linkVars
<1>1. OnlyCurrentOpen'
  BY CallStep DEF OnlyCurrentOpen
<1>2. ~closed /\ stage = "connect" => Unused(cur)'
  BY CallStep DEF Links, LinkType, Unused
<1>3. Links'
  BY <1>2, CallStep DEF Links, OnlineIsLoggedIn
<1> QED
  BY <1>1, <1>3

LEMMA RequestStepKeeps ==
    ASSUME ClientInv, NEW c \in Callers, RequestStep(c)
    PROVE  ClientInv'
<1> USE ConnectionAssumption, ClientAssumption DEF ClientInv
<1>1. c \in Fibers \ {Recon} /\ c \notin Beats /\ InCall(c) /\ UNCHANGED <<up, linkVars, hb, beat, closed>>
  BY DEF RequestStep, Resumed
<1>2. CallInv' /\ Links' /\ OnlyCurrentOpen'
  BY <1>1, CallStep, CallStepLinks
<1>3. /\ request' \in [Callers -> {"idle", "call", "backoff"}]
      /\ tries' \in [Callers -> 0 .. Retries] /\ pending' \in 0 .. MaxPending
      /\ pc'[c] # "out" <=> request'[c] = "call"
      /\ \A d \in Callers \ {c} : request'[d] = request[d]
      /\ recent' \in BOOLEAN /\ idle' \in 0 .. MaxIdle - 1
  <2>1. CASE pc'[c] # "out" /\ UNCHANGED <<breakerVars, pending, requestVars, recent, idle>>
    BY <2>1 DEF RequestStep, LinkType, requestVars
  <2>2. CASE pc'[c] = "out" /\ RequestSucceeds(c)
    <3>1. recent' \in BOOLEAN
      BY <2>2, Zenon DEF RequestSucceeds, LinkType
    <3> QED
      BY <2>2, <3>1 DEF RequestSucceeds, RequestEnds, LinkType
  <2>3. CASE pc'[c] = "out" /\ AttemptFails(c) /\ UNCHANGED <<recent, idle>>
    BY <2>3, AttemptFailsType DEF LinkType
  <2> QED
    BY <2>1, <2>2, <2>3 DEF RequestStep
<1>4. LinkType'
  BY <1>1, <1>3 DEF LinkType, linkVars
<1>5. Places'
  BY <1>1, <1>3, CallStep DEF Places, linkVars
<1> QED
  BY <1>2, <1>4, <1>5

(* A heartbeat's steps. *)
LEMMA SendHeartbeatKeeps ==
    ASSUME ClientInv, NEW b \in Beats, SendHeartbeat(b)
    PROVE  ClientInv'
<1> USE ConnectionAssumption, ClientAssumption DEF ClientInv
<1>1. b \in Fibers /\ b # Recon /\ b \notin Callers
  OBVIOUS
<1>2. /\ UNCHANGED <<streamVars, up, linkVars, pending, hb, recent, idle, requestVars, closed>>
      /\ pc[b] = "out" /\ beat[b] = "spawned"
  BY DEF SendHeartbeat, Places
<1>3. CASE cur = NoConn
  <2>1. UNCHANGED callVars /\ beat' = [beat EXCEPT ![b] = "idle"]
    BY <1>3 DEF SendHeartbeat
  <2>2. CallInv' /\ OnlyCurrentOpen'
    BY <1>2, <2>1 DEF CallInv, ConnTypeOK, Calls, Streams, OnlyCurrentOpen, callVars, streamVars, linkVars
  <2>3. LinkType'
    BY <1>2, <2>1 DEF LinkType, linkVars, requestVars
  <2>4. Places'
    BY <1>2, <2>1 DEF Places, LinkType, callVars, linkVars, requestVars
  <2>5. Links'
    BY <1>2, <2>1 DEF Links, Unused, OnlineIsLoggedIn, callVars, streamVars, linkVars
  <2> QED
    BY <2>2, <2>3, <2>4, <2>5
<1>4. CASE cur # NoConn
  <2>1. Enter(b, cur) /\ beat' = [beat EXCEPT ![b] = "call"] /\ cur \in Conns
    BY <1>4 DEF SendHeartbeat, LinkType
  <2>2. CallInv' /\ OnlyCurrentOpen'
    BY <1>1, <1>2, <2>1, EnterKeeps DEF OnlyCurrentOpen, streamVars, linkVars
  <2>3. LinkType'
    BY <1>2, <2>1 DEF LinkType, linkVars, requestVars
  <2>4. Places'
    BY <1>1, <1>2, <2>1 DEF Places, LinkType, Enter, CallInv, ConnTypeOK, linkVars, requestVars
  <2>5. Links'
    BY <1>1, <1>2, <2>1 DEF Links, Unused, OnlineIsLoggedIn, Enter, CallInv, ConnTypeOK, streamVars, linkVars
  <2> QED
    BY <2>2, <2>3, <2>4, <2>5
<1> QED
  BY <1>3, <1>4

LEMMA BeatStepKeeps ==
    ASSUME ClientInv, NEW b \in Beats, BeatStep(b)
    PROVE  ClientInv'
<1> USE ConnectionAssumption, ClientAssumption DEF ClientInv
<1>1. /\ b \in Fibers \ {Recon} /\ b \notin Callers /\ InCall(b) /\ beat[b] = "call"
      /\ UNCHANGED <<up, linkVars, hb, recent, idle, requestVars, closed>>
  BY DEF BeatStep, Resumed
<1>2. CallInv' /\ Links' /\ OnlyCurrentOpen'
  BY <1>1, CallStep, CallStepLinks
<1>3. /\ beat' \in [Beats -> {"idle", "spawned", "call"}] /\ pending' \in 0 .. MaxPending
      /\ pc'[b] # "out" <=> beat'[b] = "call"
      /\ \A d \in Beats \ {b} : beat'[d] = beat[d]
  <2>1. CASE pc'[b] # "out"
    BY <1>1, <2>1 DEF BeatStep, LinkType
  <2>2. CASE pc'[b] = "out"
    BY <2>2, SpawnType DEF BeatStep, LinkType
  <2> QED
    BY <2>1, <2>2
<1>4. LinkType'
  BY <1>1, <1>3 DEF LinkType, linkVars, requestVars
<1>5. Places'
  BY <1>1, <1>3, CallStep DEF Places, linkVars, requestVars
<1> QED
  BY <1>2, <1>4, <1>5

(* The timer, the clock, the world and a second Reconnect change neither the  *)
(* connections nor the link.                                                  *)
LEMMA AsideKeeps ==
    ASSUME ClientInv, Timer \/ ReconnectBusy \/ WorldChanges \/ ClockStep
    PROVE  ClientInv'
<1> USE ClientAssumption DEF ClientInv
<1>1. CASE TimerQuiet
  <2>1. LinkType'
    BY <1>1 DEF TimerQuiet, LinkType, linkVars, requestVars
  <2> QED
    BY <1>1, <2>1, Aside DEF TimerQuiet, requestVars
<1>2. CASE TimerIdle
  <2>1. LinkType'
    BY <1>2, SpawnType DEF TimerIdle, LinkType, linkVars, requestVars
  <2> QED
    BY <1>2, <2>1, Aside DEF TimerIdle, requestVars
<1>3. ASSUME NEW b \in Beats, TimerBeat(b) PROVE ClientInv'
  <2>1. LinkType'
    BY <1>3 DEF TimerBeat, LinkType, linkVars, requestVars
  <2>2. \A a \in Beats : beat'[a] = "call" <=> beat[a] = "call"
    BY <1>3 DEF TimerBeat, LinkType
  <2> QED
    BY <1>3, <2>1, <2>2, Aside DEF TimerBeat, requestVars
<1>4. CASE ReconnectBusy
  <2>1. LinkType'
    BY <1>4 DEF ReconnectBusy, LinkType, linkVars, requestVars, heartVars
  <2> QED
    BY <1>4, <2>1, Aside DEF ReconnectBusy, requestVars, heartVars
<1>5. CASE WorldChanges
  <2>1. up' \in BOOLEAN
    BY <1>5, Zenon DEF WorldChanges
  <2>2. LinkType'
    BY <1>5, <2>1 DEF WorldChanges, LinkType, linkVars, requestVars, heartVars
  <2> QED
    BY <1>5, <2>2, Aside DEF WorldChanges, requestVars, heartVars
<1>6. CASE ClockStep
  <2>1. LinkType'
    BY <1>6 DEF ClockStep, LinkType, linkVars, requestVars, heartVars
  <2> QED
    BY <1>6, <2>1, Aside DEF ClockStep, requestVars, heartVars
<1> QED
  BY <1>1, <1>2, <1>3, <1>4, <1>5, <1>6 DEF Timer

LEMMA NetworkStepKeeps == ASSUME ClientInv, NetworkStep PROVE ClientInv'
<1> USE DEF ClientInv
<1>1. PICK k \in Conns : Ignore(k) \/ Hangup(k)
  BY DEF NetworkStep, Network
<1>2. UNCHANGED <<up, linkVars, pending, heartVars, requestVars, closed, callVars, sock, connected, mu, owed, rest>>
  BY <1>1 DEF NetworkStep, Ignore, Hangup
<1>3. \A j \in Conns : own'[j] => own[j]
  BY <1>1 DEF Ignore, Hangup, CallInv, ConnTypeOK
<1>4. CallInv' /\ OnlyCurrentOpen'
  BY <1>2, NetworkKeeps DEF NetworkStep, OnlyCurrentOpen, linkVars
<1>5. LinkType'
  BY <1>2 DEF LinkType, linkVars, heartVars, requestVars
<1>6. Places'
  BY <1>2 DEF Places, callVars, linkVars, heartVars, requestVars
<1>7. Links'
  BY <1>2, <1>3 DEF Links, Unused, OnlineIsLoggedIn, LinkType, callVars, linkVars, heartVars
<1> QED
  BY <1>4, <1>5, <1>6, <1>7

(* Reconnect drops the connection; Close does at any time.                    *)
LEMMA DropKeeps ==
    ASSUME ClientInv, UNCHANGED callVars,
           IF cur = NoConn THEN UNCHANGED streamVars ELSE Closed(cur), cur' = NoConn
    PROVE  CallInv' /\ OnlyCurrentOpen'
<1> USE ConnectionAssumption DEF ClientInv
<1>1. CASE cur = NoConn
  BY <1>1 DEF CallInv, ConnTypeOK, Calls, Streams, OnlyCurrentOpen, callVars, streamVars
<1>2. CASE cur # NoConn
  <2>1. cur \in Conns /\ Closed(cur)
    BY <1>2 DEF LinkType
  <2>2. \A k \in Conns : sock'[k] # "open"
    BY <2>1 DEF Closed, CallInv, ConnTypeOK, OnlyCurrentOpen
  <2> QED
    BY <2>1, <2>2, ClosedKeeps DEF OnlyCurrentOpen
<1> QED
  BY <1>1, <1>2

LEMMA ReconnectKeeps == ASSUME ClientInv, Reconnect PROVE ClientInv'
<1> USE DEF ClientInv
<1>1. CallInv' /\ OnlyCurrentOpen'
  BY DropKeeps DEF Reconnect
<1>2. LinkType'
  <2>1. /\ pending > 0 /\ pending' = pending - 1 /\ stage' = "select" /\ hb' = FALSE
        /\ cur' = NoConn /\ online' = FALSE
        /\ UNCHANGED <<up, logged, recent, idle, beat, requestVars, closed>>
    BY DEF Reconnect
  <2>2. pending' \in 0 .. MaxPending
    BY <2>1, ClientAssumption DEF LinkType
  <2>3. cur' \in Conns \cup {NoConn} /\ online' \in BOOLEAN /\ hb' \in BOOLEAN
    BY <2>1
  <2> QED
    BY <2>1, <2>2, <2>3 DEF LinkType, requestVars
<1>3. Places'
  BY DEF Reconnect, Places, callVars, requestVars
<1>4. Links'
  BY DEF Reconnect, Links, OnlineIsLoggedIn
<1> QED
  BY <1>1, <1>2, <1>3, <1>4

LEMMA CloseKeeps == ASSUME ClientInv, Close PROVE ClientInv'
<1> USE DEF ClientInv
<1>1. CallInv' /\ OnlyCurrentOpen'
  BY DropKeeps DEF Close
<1>2. LinkType'
  BY DEF Close, LinkType, requestVars
<1>3. Places'
  BY DEF Close, Places, callVars, requestVars
<1>4. Links'
  BY DEF Close, Links, OnlineIsLoggedIn
<1> QED
  BY <1>1, <1>2, <1>3, <1>4

(* The new object is held by nobody, so nothing of an earlier link is in it.  *)
LEMMA SelectBestKeeps == ASSUME ClientInv, ~closed, SelectBest PROVE ClientInv'
<1> USE ConnectionAssumption, ClientAssumption DEF ClientInv
<1>1. stage = "select" /\ cur = NoConn /\ UNCHANGED <<callVars, up, online, pending, heartVars, requestVars, closed>>
  BY DEF SelectBest, Links
<1>2. CASE ReconnectFails /\ UNCHANGED <<streamVars, cur, logged>>
  <2>1. stage' = "idle"
    BY <1>2 DEF ReconnectFails
  <2>2. CallInv' /\ OnlyCurrentOpen'
    BY <1>1, <1>2 DEF CallInv, ConnTypeOK, Calls, Streams, OnlyCurrentOpen, callVars, streamVars
  <2>3. LinkType'
    BY <1>1, <1>2, <2>1 DEF LinkType, heartVars, requestVars
  <2>4. Places'
    BY <1>1, <2>1 DEF Places, callVars, heartVars, requestVars
  <2>5. Links'
    BY <1>1, <1>2, <2>1 DEF Links, OnlineIsLoggedIn, heartVars
  <2> QED
    BY <2>2, <2>3, <2>4, <2>5
<1>3. CASE ~(ReconnectFails /\ UNCHANGED <<streamVars, cur, logged>>)
  <2>1. PICK k \in Conns :
           /\ ~Held(k) /\ cur' = k
           /\ sock' = [sock EXCEPT ![k] = "new"]
           /\ peer' = [peer EXCEPT ![k] = FALSE]
           /\ connected' = [connected EXCEPT ![k] = FALSE]
           /\ owed' = [owed EXCEPT ![k] = 0]
           /\ own' = [own EXCEPT ![k] = FALSE]
           /\ rest' = [rest EXCEPT ![k] = FALSE]
    BY <1>3 DEF SelectBest
  <2>2. logged' = FALSE /\ stage' = "connect" /\ mu' = mu
    BY <1>3 DEF SelectBest
  <2>3. mu[k] = NoFiber
    <3>1. mu[k] \in Fibers \cup {NoFiber}
      BY DEF CallInv, ConnTypeOK
    <3>2. ASSUME mu[k] \in Fibers PROVE FALSE
      <4>1. pc[mu[k]] # "out" /\ at[mu[k]] = k
        BY <3>2 DEF CallInv, Calls
      <4>2. mu[k] \in Callers \cup Beats
        BY <3>2, <4>1, <1>1 DEF Places
      <4> QED
        BY <2>1, <4>1, <4>2 DEF Held
    <3> QED
      BY <3>1, <3>2
  <2>4. ConnTypeOK' /\ Unused(k)'
    BY <2>1, <2>2, <2>3, <1>1 DEF CallInv, ConnTypeOK, Unused, callVars
  <2>5. Calls'
    BY <1>1, <2>2 DEF CallInv, Calls, callVars
  <2>6. Streams'
    BY <1>1, <2>1, <2>2, <2>3 DEF CallInv, ConnTypeOK, Streams, callVars
  <2>7. OnlyCurrentOpen'
    BY <1>1, <2>1 DEF OnlyCurrentOpen, CallInv, ConnTypeOK
  <2>8. LinkType'
    BY <1>1, <2>1, <2>2 DEF LinkType, heartVars, requestVars
  <2>9. Places'
    BY <1>1, <2>2 DEF Places, callVars, heartVars, requestVars
  <2>10. Links'
    BY <1>1, <2>1, <2>2, <2>4 DEF Links, OnlineIsLoggedIn, heartVars, Unused
  <2> QED
    BY <2>4, <2>5, <2>6, <2>7, <2>8, <2>9, <2>10 DEF CallInv
<1> QED
  BY <1>2, <1>3

LEMMA ConnectKeeps == ASSUME ClientInv, ~closed, Connect PROVE ClientInv'
<1> USE ConnectionAssumption, ClientAssumption DEF ClientInv
<1>1. /\ stage = "connect" /\ cur \in Conns /\ Unused(cur) /\ pc[Recon] = "out"
      /\ UNCHANGED <<up, cur, logged, online, pending, heartVars, requestVars, closed>>
  BY DEF Connect, Links, LinkType, Places
<1>2. CASE ReconnectFails /\ UNCHANGED connVars
  <2>1. stage' = "idle"
    BY <1>2 DEF ReconnectFails
  <2>2. CallInv' /\ OnlyCurrentOpen'
    BY <1>1, <1>2 DEF CallInv, ConnTypeOK, Calls, Streams, OnlyCurrentOpen, connVars, callVars, streamVars
  <2>3. LinkType'
    BY <1>1, <2>1 DEF LinkType, heartVars, requestVars
  <2>4. Places'
    BY <1>1, <1>2, <2>1 DEF Places, connVars, callVars, heartVars, requestVars
  <2>5. Links'
    BY <1>1, <2>1 DEF Links, OnlineIsLoggedIn, heartVars
  <2> QED
    BY <2>2, <2>3, <2>4, <2>5
<1>3. CASE ~(ReconnectFails /\ UNCHANGED connVars)
  <2>1. /\ sock' = [sock EXCEPT ![cur] = "open"]
        /\ peer' = [peer EXCEPT ![cur] = TRUE]
        /\ connected' = [connected EXCEPT ![cur] = TRUE]
        /\ mu' = [mu EXCEPT ![cur] = Recon]
        /\ own' = [own EXCEPT ![cur] = TRUE]
        /\ pc' = [pc EXCEPT ![Recon] = "head"]
        /\ at' = [at EXCEPT ![Recon] = cur]
        /\ stage' = "login"
        /\ UNCHANGED <<owed, rest, mine, got>>
    BY <1>3 DEF Connect
  <2>2. ConnTypeOK'
    BY <1>1, <2>1 DEF CallInv, ConnTypeOK
  <2>3. Calls'
    BY <1>1, <2>1 DEF CallInv, ConnTypeOK, Calls, Unused
  <2>4. Streams'
    BY <1>1, <2>1 DEF CallInv, ConnTypeOK, Calls, Streams, Unused
  <2>5. OnlyCurrentOpen'
    BY <1>1, <2>1 DEF OnlyCurrentOpen, CallInv, ConnTypeOK
  <2>6. LinkType'
    BY <1>1, <2>1 DEF LinkType, heartVars, requestVars
  <2>7. Places'
    BY <1>1, <2>1 DEF Places, CallInv, ConnTypeOK, heartVars, requestVars
  <2>8. Links'
    BY <1>1, <2>1 DEF Links, OnlineIsLoggedIn, heartVars, CallInv, ConnTypeOK
  <2> QED
    BY <2>2, <2>3, <2>4, <2>5, <2>6, <2>7, <2>8 DEF CallInv
<1> QED
  BY <1>2, <1>3

LEMMA LoginStepKeeps == ASSUME ClientInv, ~closed, LoginStep PROVE ClientInv'
<1> USE ConnectionAssumption, ClientAssumption DEF ClientInv
<1>1. /\ Recon \in Fibers /\ InCall(Recon) /\ stage = "login" /\ at[Recon] = cur /\ cur \in Conns
      /\ UNCHANGED <<up, cur, pending, beat, requestVars, closed>>
  BY InCallAlone DEF LoginStep, Resumed, Links
<1>2. CallInv' /\ OnlyCurrentOpen'
  BY <1>1, CallStep DEF OnlyCurrentOpen
<1>3. CASE pc'[Recon] # "out"
  <2>1. UNCHANGED <<logged, online, stage, hb, recent, idle>>
    BY <1>3 DEF LoginStep
  <2>2. LinkType'
    BY <1>1, <2>1 DEF LinkType, requestVars
  <2>3. Places'
    BY <1>1, <1>3, <2>1, CallStep DEF Places, requestVars
  <2>4. Links'
    BY <1>1, <1>3, <2>1, CallStep DEF Links, OnlineIsLoggedIn
  <2> QED
    BY <1>2, <2>2, <2>3, <2>4
<1>4. CASE pc'[Recon] = "out"
  <2>1. stage' = "idle"
    BY <1>4 DEF LoginStep, ReconnectFails
  <2>2. \/ logged' = TRUE /\ online' = TRUE /\ hb' = Heartbeats /\ recent' = TRUE /\ idle' = 0
        \/ UNCHANGED <<logged, online, hb, recent, idle>>
    BY <1>4 DEF LoginStep
  <2>3. LinkType'
    <3>1. hb' \in BOOLEAN /\ recent' \in BOOLEAN /\ logged' \in BOOLEAN /\ online' \in BOOLEAN
      BY <2>2, Zenon DEF LinkType
    <3> QED
      BY <1>1, <2>1, <2>2, <3>1 DEF LinkType, requestVars
  <2>4. Places'
    BY <1>1, <1>4, <2>1, CallStep DEF Places, requestVars
  <2>5. Links'
    BY <1>1, <2>1, <2>2 DEF Links, OnlineIsLoggedIn
  <2> QED
    BY <1>2, <2>3, <2>4, <2>5
<1> QED
  BY <1>3, <1>4

-----------------------------------------------------------------------------
LEMMA ClientNext == ClientInv /\ [Next]_vars => ClientInv'
<1> SUFFICES ASSUME ClientInv, [Next]_vars PROVE ClientInv'
  OBVIOUS
<1>1. CASE UNCHANGED vars
  BY <1>1 DEF vars, connVars, streamVars, callVars, linkVars, heartVars, requestVars, ClientInv,
        CallInv, ConnTypeOK, Calls, Streams, LinkType, Places, Links, Unused, OnlineIsLoggedIn,
        OnlyCurrentOpen
<1>2. ASSUME NEW c \in Callers, Request(c) \/ Retry(c) \/ RequestStep(c) PROVE ClientInv'
  BY <1>2, RequestKeeps, RetryKeeps, RequestStepKeeps
<1>3. ASSUME NEW b \in Beats, SendHeartbeat(b) \/ BeatStep(b) PROVE ClientInv'
  BY <1>3, SendHeartbeatKeeps, BeatStepKeeps
<1>4. CASE ~closed /\ (Reconnecting \/ Close \/ NetworkStep)
  BY <1>4, ReconnectKeeps, SelectBestKeeps, ConnectKeeps, LoginStepKeeps, CloseKeeps, NetworkStepKeeps
     DEF Reconnecting
<1>5. CASE Timer \/ ReconnectBusy \/ WorldChanges \/ ClockStep
  BY <1>5, AsideKeeps
<1> QED
  BY <1>1, <1>2, <1>3, <1>4, <1>5 DEF Next

LEMMA ClientInvariant == Spec => []ClientInv
BY ClientInit, ClientNext, PTL DEF Spec

(* The client says it is connected only on a connection that is logged in,    *)
(* and a heartbeat runs only then, whatever fails and whoever replaces conn_. *)
THEOREM ClientOnline == Spec => []OnlineIsLoggedIn
BY ClientInvariant, PTL DEF ClientInv, Links

(* No descriptor but that of conn_ is open: every replaced connection was     *)
(* closed.                                                                    *)
THEOREM ClientLeaksNothing == Spec => []OnlyCurrentOpen
BY ClientInvariant, PTL DEF ClientInv

(* No reconnect takes the connection away from a login under way.             *)
THEOREM ClientLogin == Spec => []LoginKeepsConnection
<1>1. ClientInv => LoginKeepsConnection
  BY DEF ClientInv, Places, Links, LoginKeepsConnection
<1> QED
  BY <1>1, ClientInvariant, PTL

(* A connection to a prompt server, still connected and in nobody's hands,    *)
(* has nothing unread in its stream.                                          *)
THEOREM ClientStreams == Spec => []CleanBetweenCalls
BY ClientInvariant, CallIsClean, PTL DEF ClientInv

(* Only a receive timeout gives a Call the answer of another one.             *)
THEOREM ClientAnswers == Spec => PromptAnswersOwn
<1> DEFINE Step == \A f \in Fibers :
         pc[f] = "body" /\ pc'[f] = "out" /\ got' = "foreign" => at[f] \in Slow
<1>1. ClientInv /\ [Next]_vars => [Step]_connVars
  <2> SUFFICES ASSUME ClientInv, [Next]_vars, NEW f \in Fibers,
                      pc[f] = "body", pc'[f] = "out", got' = "foreign"
               PROVE  at[f] \in Slow
    OBVIOUS
  <2>1. ASSUME NEW g \in Fibers, InCall(g) PROVE at[f] \in Slow
    BY <2>1, InCallPrompt DEF ClientInv
  <2>2. ASSUME NEW g \in Fibers, NEW k, Enter(g, k) PROVE FALSE
    BY <2>2 DEF Enter, ClientInv, CallInv, ConnTypeOK
  <2>3. CASE UNCHANGED callVars
    BY <2>3 DEF callVars
  <2>4. CASE Connect
    BY <2>4, ClientAssumption DEF Connect, connVars, callVars, ClientInv, CallInv, ConnTypeOK
  <2>5. CASE LoginStep
    BY <2>5, <2>1, ClientAssumption DEF LoginStep, Resumed
  <2>6. ASSUME NEW c \in Callers, Request(c) \/ Retry(c) \/ RequestStep(c) PROVE at[f] \in Slow
    BY <2>6, <2>1, <2>2, <2>3, ClientAssumption DEF Request, Retry, RequestStep, Resumed, Attempt
  <2>7. ASSUME NEW b \in Beats, SendHeartbeat(b) \/ BeatStep(b) PROVE at[f] \in Slow
    BY <2>7, <2>1, <2>2, <2>3, ClientAssumption DEF SendHeartbeat, BeatStep, Resumed
  <2>8. CASE Timer \/ ReconnectBusy \/ WorldChanges \/ ClockStep \/ NetworkStep
    BY <2>8, <2>3 DEF Timer, TimerQuiet, TimerIdle, TimerBeat, ReconnectBusy, WorldChanges, ClockStep,
          NetworkStep, Network, Ignore, Hangup, connVars
  <2>9. CASE Reconnect \/ SelectBest \/ Close \/ UNCHANGED vars
    BY <2>9, <2>3 DEF Reconnect, SelectBest, Close, vars, connVars
  <2> QED
    BY <2>4, <2>5, <2>6, <2>7, <2>8, <2>9 DEF Next, Reconnecting
<1>2. Spec => [][Step]_connVars
  BY <1>1, ClientInvariant, PTL DEF Spec
<1> QED
  BY <1>2 DEF PromptAnswersOwn

-----------------------------------------------------------------------------
(* The client uses its breaker as the object it is: seen from the breaker,    *)
(* requests, reconnects and the clock are its own operations, so that its     *)
(* theorems hold of it inside the client.                                     *)
THEOREM ClientUsesBreaker == Spec => BreakerSpec
<1>1. Init => BreakerInit
  BY DEF Init
<1>2. [Next]_vars => [BreakerNext]_breakerVars
  <2> SUFFICES ASSUME [Next]_vars PROVE [BreakerNext]_breakerVars
    OBVIOUS
  <2> USE DEF BreakerNext
  <2>1. ASSUME NEW c, AttemptFails(c) PROVE [BreakerNext]_breakerVars
    BY <2>1 DEF AttemptFails
  <2>2. ASSUME NEW c \in Callers, Request(c) \/ Retry(c) \/ RequestStep(c)
        PROVE  [BreakerNext]_breakerVars
    BY <2>2, <2>1 DEF Request, Retry, RequestStep, RequestSucceeds
  <2>3. ASSUME NEW b \in Beats, SendHeartbeat(b) \/ BeatStep(b) PROVE UNCHANGED breakerVars
    BY <2>3 DEF SendHeartbeat, BeatStep
  <2>4. CASE Reconnecting
    BY <2>4 DEF Reconnecting, Reconnect, SelectBest, Connect, LoginStep, ReconnectFails
  <2>5. CASE Timer \/ ReconnectBusy \/ Close \/ WorldChanges \/ NetworkStep \/ UNCHANGED vars
    BY <2>5 DEF Timer, TimerQuiet, TimerIdle, TimerBeat, ReconnectBusy, Close, WorldChanges, NetworkStep, vars
  <2>6. CASE ClockStep
    BY <2>6 DEF ClockStep
  <2> QED
    BY <2>2, <2>3, <2>4, <2>5, <2>6 DEF Next
<1> QED
  BY <1>1, <1>2, PTL DEF Spec, BreakerSpec

(* The types of the client, its breaker and its connections.                  *)
THEOREM ClientType == Spec => []TypeOK
<1>1. ClientInv /\ BreakerTypeOK => TypeOK
  BY DEF ClientInv, CallInv, LinkType, TypeOK
<1> QED
  BY <1>1, ClientInvariant, ClientUsesBreaker, BreakerType, PTL

(* Inside the client the breaker's counters agree, late failures do not       *)
(* prolong the wait, and the window doubles.                                  *)
THEOREM ClientBreaker == Spec => []CountersAgree /\ WaitNeverExtended /\ WindowDoubles
BY ClientUsesBreaker, BreakerCounters, BreakerWait, BreakerDoubles, PTL
=============================================================================
