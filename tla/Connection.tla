------------------------------ MODULE Connection ------------------------------
(* proto::Connection (src/proto/connection.cpp): one TCP connection per       *)
(* object, a request and its response under call_mu_, shared by the fibers of *)
(* one proactor thread.  A step runs from one suspension to the next: fibers  *)
(* are only switched in a contended lock, a socket operation or a sleep (a    *)
(* free lock is here taken in a step of its own).                             *)
(*                                                                            *)
(* A response says nothing about its request (msg_id is never compared), so   *)
(* what a reader gets is decided by what is still in the stream: the answers  *)
(* owed to round trips given up, the rest of a half-read one, its own.  A     *)
(* request cut short by a send timeout and a header cut short are not told    *)
(* apart from a request never sent and a half-read body.                      *)

EXTENDS Integers, FiniteSets

CONSTANTS
    Conns,     \* the Connection objects a run may create
    Fibers,
    NoFiber,
    NoConn,
    MaxOwed,   \* bound: late answers told apart in one stream
    Slow       \* connections to a server that may be late or not answer at all:
               \* the 8 s socket timeout may expire on them

ASSUME ConnectionAssumption ==
    /\ NoFiber \notin Fibers /\ NoConn \notin Conns
    /\ MaxOwed \in Nat \ {0} /\ Slow \subseteq Conns

VARIABLES
    sock,       \* [Conns -> "new" / "open" / "closed"]: the file descriptor
    peer,       \* [Conns -> BOOLEAN]: the server's end is up
    connected,  \* [Conns -> BOOLEAN]: connected_
    mu,         \* [Conns -> holder of call_mu_, or NoFiber]
    owed,       \* [Conns -> answers to given-up round trips, still unread]
    own,        \* [Conns -> BOOLEAN]: the answer of the round trip under way
    rest,       \* [Conns -> BOOLEAN]: the stream starts inside a response
    pc,         \* [Fibers -> "out" / "lock" / "head" / "body"]: place in Call
    at,         \* [Fibers -> the connection it calls]
    mine,       \* [Fibers -> BOOLEAN]: the header read was its own answer's
    got         \* how the Call that ended last has ended

streamVars == <<sock, peer, connected, mu, owed, own, rest>>
callVars == <<pc, at, mine, got>>
connVars == <<streamVars, callVars>>

-----------------------------------------------------------------------------
(* socket_->Connect succeeded. *)
Opened(k) ==
    /\ sock' = [sock EXCEPT ![k] = "open"]
    /\ peer' = [peer EXCEPT ![k] = TRUE]
    /\ connected' = [connected EXCEPT ![k] = TRUE]
    /\ UNCHANGED <<mu, owed, own, rest>>

(* Connection::Close: the descriptor goes with what is in its stream, the     *)
(* object stays for a Call that still hangs in it.                            *)
Closed(k) ==
    /\ sock' = [sock EXCEPT ![k] = IF @ = "open" THEN "closed" ELSE @]
    /\ connected' = [connected EXCEPT ![k] = FALSE]
    /\ peer' = [peer EXCEPT ![k] = FALSE]
    /\ owed' = [owed EXCEPT ![k] = 0]
    /\ own' = [own EXCEPT ![k] = FALSE]
    /\ rest' = [rest EXCEPT ![k] = FALSE]
    /\ UNCHANGED mu

(* The fiber calls Call and queues for call_mu_. *)
Enter(f, k) ==
    /\ pc[f] = "out"
    /\ pc' = [pc EXCEPT ![f] = "lock"]
    /\ at' = [at EXCEPT ![f] = k]
    /\ UNCHANGED <<mine, got>>

(* Call ends and unlocks; an answer that has not been read stays in the       *)
(* stream for whoever comes next.                                             *)
EndCall(f, result) ==
    /\ pc' = [pc EXCEPT ![f] = "out"]
    /\ got' = result
    /\ at' = [at EXCEPT ![f] = NoConn]
    /\ mine' = [mine EXCEPT ![f] = FALSE]
    /\ mu' = [mu EXCEPT ![at[f]] = NoFiber]
    /\ UNCHANGED <<sock, peer>>

Abandon(k) ==
    /\ owed' = [owed EXCEPT ![k] = IF own[k] /\ @ < MaxOwed THEN @ + 1 ELSE @]
    /\ own' = [own EXCEPT ![k] = FALSE]

MarkBroken(k) == connected' = [connected EXCEPT ![k] = FALSE]

(* The lock is free: Call throws on a broken connection, else sends. *)
NotConnected(f) ==
    /\ pc[f] = "lock" /\ mu[at[f]] = NoFiber /\ ~connected[at[f]]
    /\ EndCall(f, "error")
    /\ UNCHANGED <<connected, owed, own, rest>>

Send(f) ==
    LET k == at[f] IN
    /\ pc[f] = "lock" /\ mu[k] = NoFiber /\ connected[k]
    /\ mu' = [mu EXCEPT ![k] = f]
    /\ own' = [own EXCEPT ![k] = peer[k]]
    /\ pc' = [pc EXCEPT ![f] = "head"]
    /\ UNCHANGED <<sock, peer, connected, owed, rest, at, mine, got>>

SendFails(f) ==
    LET k == at[f] IN
    /\ pc[f] = "lock" /\ mu[k] = NoFiber /\ connected[k]
    /\ \/ ~peer[k] /\ MarkBroken(k)
       \/ k \in Slow /\ UNCHANGED connected
    /\ EndCall(f, "error")
    /\ UNCHANGED <<owed, own, rest>>

(* The 16 header bytes: whatever answer comes first in the stream. *)
ReadHead(f) ==
    LET k == at[f] IN
    /\ pc[f] = "head" /\ sock[k] = "open" /\ ~rest[k]
    /\ \/ owed[k] > 0 /\ owed' = [owed EXCEPT ![k] = @ - 1] /\ UNCHANGED own
       \/ owed[k] = 0 /\ own[k] /\ own' = [own EXCEPT ![k] = FALSE] /\ UNCHANGED owed
    /\ mine' = [mine EXCEPT ![f] = owed[k] = 0]
    /\ pc' = [pc EXCEPT ![f] = "body"]
    /\ UNCHANGED <<sock, peer, connected, mu, rest, at, got>>

ReadBody(f) ==
    /\ pc[f] = "body" /\ sock[at[f]] = "open"
    /\ EndCall(f, IF mine[f] THEN "own" ELSE "foreign")
    /\ UNCHANGED <<connected, owed, own, rest>>

(* Mutant of BadFrame: the connection is not marked broken. *)
BadFrameKeeps(f) ==
    LET k == at[f] IN
    /\ pc[f] \in {"head", "body"} /\ sock[k] = "open"
    /\ pc[f] = "body" \/ owed[k] > 0 \/ own[k] \/ rest[k]
    /\ Abandon(k) /\ EndCall(f, "error")
    /\ UNCHANGED <<connected, rest>>

(* A wrong prefix, for one because the stream starts inside a response, or a  *)
(* body that does not inflate.                                                *)
BadFrame(f) ==
    LET k == at[f] IN
    /\ pc[f] \in {"head", "body"} /\ sock[k] = "open"
    /\ pc[f] = "body" \/ owed[k] > 0 \/ own[k] \/ rest[k]
    /\ MarkBroken(k) /\ Abandon(k) /\ EndCall(f, "error")
    /\ UNCHANGED rest

(* Mutant of RecvClosed: the connection is not marked broken. *)
RecvClosedKeeps(f) ==
    LET k == at[f] IN
    /\ pc[f] \in {"head", "body"} /\ (sock[k] # "open" \/ ~peer[k])
    /\ Abandon(k) /\ EndCall(f, "error")
    /\ UNCHANGED <<connected, rest>>

(* recv reports the end of the connection. *)
RecvClosed(f) ==
    LET k == at[f] IN
    /\ pc[f] \in {"head", "body"} /\ (sock[k] # "open" \/ ~peer[k])
    /\ MarkBroken(k) /\ Abandon(k) /\ EndCall(f, "error")
    /\ UNCHANGED rest

(* recv runs into the socket timeout: Call throws, connected_ stays.          *)
RecvTimeout(f) ==
    LET k == at[f] IN
    /\ pc[f] \in {"head", "body"} /\ k \in Slow
    /\ rest' = [rest EXCEPT ![k] = @ \/ pc[f] = "body"]
    /\ Abandon(k) /\ EndCall(f, "error")
    /\ UNCHANGED connected

InCall(f) ==
    \/ NotConnected(f) \/ Send(f) \/ SendFails(f) \/ ReadHead(f) \/ ReadBody(f)
    \/ BadFrame(f) \/ RecvClosed(f) \/ RecvTimeout(f)

(* The server drops a request, or its end of the connection. *)
Ignore(k) ==
    /\ own[k] /\ k \in Slow
    /\ own' = [own EXCEPT ![k] = FALSE]
    /\ UNCHANGED <<sock, peer, connected, mu, owed, rest, callVars>>

Hangup(k) ==
    /\ peer[k]
    /\ peer' = [peer EXCEPT ![k] = FALSE]
    /\ UNCHANGED <<sock, connected, mu, owed, own, rest, callVars>>

Network == \E k \in Conns : Ignore(k) \/ Hangup(k)

-----------------------------------------------------------------------------
(* Types of connections, their streams and their lock (Connection::Call). *)
ConnTypeOK ==
    /\ sock \in [Conns -> {"new", "open", "closed"}]
    /\ peer \in [Conns -> BOOLEAN] /\ connected \in [Conns -> BOOLEAN]
    /\ mu \in [Conns -> Fibers \cup {NoFiber}]
    /\ owed \in [Conns -> 0 .. MaxOwed]
    /\ own \in [Conns -> BOOLEAN] /\ rest \in [Conns -> BOOLEAN]
    /\ pc \in [Fibers -> {"out", "lock", "head", "body"}]
    /\ at \in [Fibers -> Conns \cup {NoConn}]
    /\ mine \in [Fibers -> BOOLEAN]
    /\ got \in {"nothing", "own", "foreign", "error"}

(* What call_mu_ around the whole round trip is there for (connection.hpp: no *)
(* frame gets between another call's send and receive, no misalignment), as   *)
(* far as the code achieves it: on a connection whose server answers in time, *)
(* every answer is the caller's own, whatever is garbled, cut off or closed,  *)
(* and whatever goes on on the other connections.  After a receive timeout    *)
(* the connection stays connected_, and the late answer goes to the next Call.*)
PromptAnswersOwn ==
    [][\A f \in Fibers :
         pc[f] = "body" /\ pc'[f] = "out" /\ got' = "foreign" => at[f] \in Slow]_connVars

(* A connection that still calls itself connected and is in nobody's hands    *)
(* has nothing unread in its stream, unless a Call has timed out on it.       *)
CleanBetweenCalls ==
    \A k \in Conns \ Slow :
        connected[k] /\ mu[k] = NoFiber => owed[k] = 0 /\ ~own[k] /\ ~rest[k]
=============================================================================
