--------------------------- MODULE CircuitBreaker ---------------------------
(* The circuit breaker of src/proto/retry.cpp as an object: every operation   *)
(* holds mu_, so each is one step, and whoever shares the breaker (request    *)
(* fibers, the reconnecting fiber) may call them in any order.  Time is       *)
(* counted in whole recovery_timeouts since the breaker last opened.          *)

EXTENDS Integers

CONSTANTS
    Threshold,    \* failure_threshold_: 5
    CapFactor,    \* failure_count stops at this multiple of it: 10
    MaxExponent,  \* the longest recovery window is 1 << MaxExponent: 5
    ShiftOne,     \* 1 << e for every exponent e in use
    RecoveryCap   \* bound: where recovery_failures stops counting; beyond
                  \* MaxExponent its value makes no difference

ASSUME BreakerAssumption ==
    /\ Threshold \in Nat \ {0} /\ CapFactor \in Nat \ {0} /\ MaxExponent \in Nat
    /\ RecoveryCap \in Nat /\ RecoveryCap >= MaxExponent
ASSUME ShiftAssumption ==
    /\ ShiftOne \in [0 .. MaxExponent -> Nat \ {0}]
    /\ ShiftOne[0] = 1
    /\ \A e \in 0 .. MaxExponent - 1 : ShiftOne[e + 1] = 2 * ShiftOne[e]

VARIABLES
    state,              \* "closed", "open" or "half_open"
    failure_count,
    recovery_failures,  \* failures met in half_open since the last success
    age                 \* timeouts elapsed since open_time_, up to LongestWindow

breakerVars == <<state, failure_count, recovery_failures, age>>

States == {"closed", "open", "half_open"}
CountCap == CapFactor * Threshold
LongestWindow == ShiftOne[MaxExponent]

(* recovery_timeout_ * 2^min(recovery_failures_, 5). *)
Window ==
    ShiftOne[IF recovery_failures < MaxExponent THEN recovery_failures ELSE MaxExponent]

BreakerInit ==
    state = "closed" /\ failure_count = 0 /\ recovery_failures = 0 /\ age = 0

(* AllowRequest answers true, ending an open period that lasted its window. *)
Allowed == state # "open" \/ age >= Window
Admit ==
    /\ Allowed
    /\ state' = IF state = "open" THEN "half_open" ELSE state
    /\ UNCHANGED <<failure_count, recovery_failures, age>>

(* AllowRequest answers false. *)
Refuse == ~Allowed /\ UNCHANGED breakerVars

(* Mutant of RecordSuccess: the back-off is not reset. *)
RecordSuccessOnly ==
    state' = "closed" /\ failure_count' = 0 /\ UNCHANGED <<recovery_failures, age>>

RecordSuccess ==
    /\ state' = "closed" /\ failure_count' = 0 /\ recovery_failures' = 0
    /\ UNCHANGED age

Counted == IF failure_count < CountCap THEN failure_count + 1 ELSE failure_count

(* Mutants of RecordFailure: a failure met in open starts its clock again; a  *)
(* failed recovery is not counted.                                            *)
RecordFailureRestarts ==
    /\ failure_count' = Counted
    /\ \/ /\ state # "closed" \/ Counted >= Threshold
          /\ state' = "open" /\ age' = 0
          /\ UNCHANGED recovery_failures
       \/ /\ state = "closed" /\ Counted < Threshold
          /\ UNCHANGED <<state, recovery_failures, age>>
RecordFailureUncounted ==
    /\ failure_count' = Counted
    /\ \/ /\ state = "half_open" \/ (state = "closed" /\ Counted >= Threshold)
          /\ recovery_failures' = 0
          /\ state' = "open" /\ age' = 0
       \/ /\ state = "open" \/ (state = "closed" /\ Counted < Threshold)
          /\ UNCHANGED <<state, recovery_failures, age>>

(* A failure counts; it opens the breaker from half_open at once, from closed *)
(* at the threshold, and leaves an open one alone, its clock included.        *)
RecordFailure ==
    /\ failure_count' = Counted
    /\ \/ /\ state = "half_open"
          /\ recovery_failures' = IF recovery_failures < RecoveryCap
                                  THEN recovery_failures + 1 ELSE RecoveryCap
          /\ state' = "open" /\ age' = 0
       \/ /\ state = "closed" /\ Counted >= Threshold
          /\ recovery_failures' = 0
          /\ state' = "open" /\ age' = 0
       \/ /\ state = "open" \/ (state = "closed" /\ Counted < Threshold)
          /\ UNCHANGED <<state, recovery_failures, age>>

(* The steady clock: nothing depends on it outside an open period, and an age *)
(* of the longest window is old enough for every comparison.                  *)
Tick ==
    /\ state = "open" /\ age < LongestWindow
    /\ age' = age + 1
    /\ UNCHANGED <<state, failure_count, recovery_failures>>

BreakerNext == Admit \/ Refuse \/ RecordSuccess \/ RecordFailure \/ Tick
BreakerSpec == BreakerInit /\ [][BreakerNext]_breakerVars

-----------------------------------------------------------------------------
(* Types, and that the failure count, the exponent and the clock stay capped. *)
BreakerTypeOK ==
    /\ state \in States
    /\ failure_count \in 0 .. CountCap
    /\ recovery_failures \in 0 .. RecoveryCap
    /\ age \in 0 .. LongestWindow

(* What the three counters mean to each other: a closed breaker is below its  *)
(* threshold and owes no back-off, an open one has met the threshold, and     *)
(* every further half_open failure was also counted as a failure (until the   *)
(* cap): the back-off exponent cannot outgrow the failures that justify it.   *)
CountersAgree ==
    /\ state = "closed" => failure_count < Threshold /\ recovery_failures = 0
    /\ state # "closed" =>
        \/ failure_count >= Threshold + recovery_failures
        \/ failure_count = CountCap

(* No call shortens the wait: while the breaker stays open its clock is never *)
(* set back and its window never changes, so failures reported late (by       *)
(* requests admitted earlier, by reconnects) cannot hold it open for longer.  *)
WaitNeverExtended ==
    [][state = "open" /\ state' = "open" => age' >= age /\ Window' = Window]_breakerVars

(* The window starts again at one timeout when the breaker opens from closed, *)
(* and from half_open it doubles up to the longest one.                       *)
WindowDoubles ==
    [][state # "open" /\ state' = "open" =>
        /\ age' = 0
        /\ Window' = IF state = "closed" THEN 1
                     ELSE IF recovery_failures < MaxExponent THEN 2 * Window
                     ELSE LongestWindow]_breakerVars
=============================================================================
