----------------------------- MODULE SnapshotMap -----------------------------
(* What the shared-memory snapshot table promises the processes that use it:  *)
(* one register per stock code.  A Put replaces the register in one step.  A  *)
(* Get that answers true answers with the register's value at one instant     *)
(* between its call and its return; a Get that meets an empty slot answers    *)
(* false because the register was empty at such an instant; and a Get may     *)
(* always give up (include/tdx/shm/snapshot.hpp, the class comment).          *)

CONSTANTS
    Codes,    \* the stock codes
    PODs,     \* the complete QuotePOD values a writer can publish
    Readers,  \* the processes that map the segment read-only
    Absent,   \* the value of a register nothing was published in
    GaveUp    \* the answer of a Get whose retries ran out

VARIABLES
    table,    \* the register of every code
    calling,  \* whether a reader is inside Get
    asked,    \* the code of the reader's current or latest Get
    answer    \* what its latest Get answered; Absent stands for a miss

absVars == <<table, calling, asked, answer>>

AbsInit ==
    /\ table = [c \in Codes |-> Absent]
    /\ calling = [r \in Readers |-> FALSE]
    /\ asked \in [Readers -> Codes]
    /\ answer = [r \in Readers |-> Absent]

Put(c, pod) ==
    /\ table' = [table EXCEPT ![c] = pod]
    /\ UNCHANGED <<calling, asked, answer>>

Call(r, c) ==
    /\ ~calling[r]
    /\ calling' = [calling EXCEPT ![r] = TRUE]
    /\ asked' = [asked EXCEPT ![r] = c]
    /\ UNCHANGED <<table, answer>>

Return(r) ==
    /\ calling[r]
    /\ calling' = [calling EXCEPT ![r] = FALSE]
    /\ \E a \in {table[asked[r]], GaveUp} : answer' = [answer EXCEPT ![r] = a]
    /\ UNCHANGED <<table, asked>>

AbsNext ==
    \/ \E c \in Codes, pod \in PODs : Put(c, pod)
    \/ \E r \in Readers : Return(r) \/ \E c \in Codes : Call(r, c)

AbsSpec == AbsInit /\ [][AbsNext]_absVars

=============================================================================
