------------------------ MODULE IngestPipelineProofs ------------------------
(* Proofs for ShardedFetch and IngestPipeline, for any list of codes, number  *)
(* of fibers, batch and queue size, and any number of rounds.                 *)
EXTENDS IngestPipeline, FiniteSetTheorems, SequenceTheorems, TLAPS

-----------------------------------------------------------------------------
(* Remainders: which positions belong to a fiber. *)
LEMMA Division ==
    ASSUME NEW J \in Nat \ {0}, NEW p \in Nat
    PROVE  p = (J * (p \div J)) + (p % J) /\ p % J \in 0 .. J - 1 /\ p \div J \in Nat
OBVIOUS

LEMMA Remainder ==
    ASSUME NEW J \in Nat \ {0}, NEW w \in 0 .. J - 1, NEW n \in Nat
    PROVE  (w + n * J) % J = w
OBVIOUS

LEMMA FewerSteps ==
    ASSUME NEW J \in Nat \ {0}, NEW a \in Int, NEW b \in Int, a * J < b * J
    PROVE  a < b
OBVIOUS

LEMMA MoreSteps ==
    ASSUME NEW J \in Nat \ {0}, NEW b \in Nat, NEW a \in 0 .. b
    PROVE  a * J \in Nat /\ a * J <= b * J
<1>1. b - a \in Nat /\ (b - a) * J \in Nat /\ a * J \in Nat
  OBVIOUS
<1>2. b * J = a * J + (b - a) * J
  OBVIOUS
<1> QED
  BY <1>1, <1>2

LEMMA SameFiber ==
    ASSUME NEW J \in Nat \ {0}, NEW b \in Nat, NEW n \in Nat
    PROVE  (b + n * J) % J = b % J
<1> DEFINE q == b \div J
           w == b % J
<1>1. b = J * q + w /\ w \in 0 .. J - 1 /\ q \in Nat
  BY Division
<1>2. b + n * J = w + (q + n) * J
  BY <1>1
<1> HIDE DEF q, w
<1>3. (w + (q + n) * J) % J = w
  BY <1>1, Remainder
<1> QED
  BY <1>2, <1>3 DEF w

LEMMA StepsBetween ==
    ASSUME NEW J \in Nat \ {0}, NEW b \in Nat, NEW p \in Nat, NEW m \in Nat,
           p % J = b % J, b <= p, p < b + m * J
    PROVE  \E k \in 0 .. m - 1 : p = b + k * J
<1> DEFINE q == b \div J
           r == p \div J
           w == b % J
<1>1. b = J * q + w /\ w \in 0 .. J - 1 /\ q \in Nat
  BY Division
<1>2. p = J * r + w /\ r \in Nat
  BY Division
<1> HIDE DEF q, r, w
<1>3. p = b + (r - q) * J
  BY <1>1, <1>2
<1>4. r - q < m
  BY <1>1, <1>2, <1>3, FewerSteps
<1>5. -1 < r - q
  <2>1. (-1) * J < (r - q) * J
    BY <1>1, <1>2, <1>3
  <2> QED
    BY <2>1, <1>1, <1>2, FewerSteps
<1>6. r - q \in 0 .. m - 1
  BY <1>1, <1>2, <1>4, <1>5
<1> QED
  BY <1>3, <1>6

-----------------------------------------------------------------------------
(* The windows of a fiber. *)
LEMMA FibersAndPositions ==
    /\ Jobs \in Nat \ {0} /\ Total \in Nat /\ Batch \in Nat \ {0} /\ Jobs <= Total
    /\ Fibers \subseteq Nat /\ Positions \subseteq Nat /\ IsFiniteSet(Positions)
BY ShardAssumption, FS_Interval DEF Fibers, Positions

LEMMA WindowSize ==
    ASSUME ShardTypeOK, NEW w \in Fibers
    PROVE  /\ IsFiniteSet(Window(w)) /\ Cardinality(Window(w)) \in 0 .. Batch
           /\ IsFiniteSet(Requested(w)) /\ Cardinality(Requested(w)) \in 0 .. Batch
<1> USE FibersAndPositions
<1> DEFINE f == [k \in 0 .. Batch - 1 |-> bi[w] + k * Jobs]
           All == {bi[w] + k * Jobs : k \in 0 .. Batch - 1}
<1>1. f \in Surjection(0 .. Batch - 1, All)
  BY DEF Surjection
<1>2. IsFiniteSet(0 .. Batch - 1) /\ Cardinality(0 .. Batch - 1) = Batch
  BY FS_Interval
<1>3. IsFiniteSet(All) /\ Cardinality(All) <= Batch /\ Cardinality(All) \in Nat
  BY <1>1, <1>2, FS_Surjection, FS_CardinalityType
<1>4. Window(w) \in SUBSET All /\ Requested(w) \in SUBSET All
  BY DEF Window, Requested
<1> HIDE DEF All
<1> QED
  BY <1>3, <1>4, FS_Subset, FS_CardinalityType

(* A window without gaps is passed as a whole. *)
LEMMA WindowPassed ==
    ASSUME ShardTypeOK, NEW w \in Fibers, NEW p \in Window(w)
    PROVE  p < bi[w] + Cardinality(Window(w)) * Jobs
<1> USE FibersAndPositions
<1>0. bi[w] \in Nat
  BY DEF ShardTypeOK
<1>1. PICK k \in 0 .. Batch - 1 : p = bi[w] + k * Jobs /\ p < Total
  <2>1. p \in {bi[w] + k * Jobs : k \in 0 .. Batch - 1}
    BY DEF Window
  <2>2. p < Total
    BY DEF Window, Positions
  <2> QED
    BY <2>1, <2>2
<1> DEFINE f == [j \in 0 .. k |-> bi[w] + j * Jobs]
<1>2. ASSUME NEW j \in 0 .. k PROVE f[j] \in Window(w)
  <2>1. j * Jobs \in Nat /\ (k - j) * Jobs >= 0 /\ k * Jobs = j * Jobs + (k - j) * Jobs
    OBVIOUS
  <2>2. f[j] <= p /\ f[j] \in Nat
    BY <1>0, <1>1, <2>1
  <2>3. j \in 0 .. Batch - 1
    OBVIOUS
  <2> QED
    BY <1>1, <2>2, <2>3 DEF Window, Positions
<1>3. ASSUME NEW i \in 0 .. k, NEW j \in 0 .. k, f[i] = f[j] PROVE i = j
  <2>1. i * Jobs = j * Jobs /\ i * Jobs \in Int
    BY <1>0, <1>3
  <2>2. ~(i < j) /\ ~(j < i)
    <3>1. i < j => (j - i) * Jobs >= Jobs /\ (j - i) * Jobs = j * Jobs - i * Jobs
      OBVIOUS
    <3>2. j < i => (i - j) * Jobs >= Jobs /\ (i - j) * Jobs = i * Jobs - j * Jobs
      OBVIOUS
    <3> QED
      BY <2>1, <3>1, <3>2
  <2> QED
    BY <2>2
<1>4. f \in Injection(0 .. k, Window(w))
  BY <1>2, <1>3 DEF Injection, IsInjective
<1>5. Cardinality(0 .. k) = k + 1
  BY FS_Interval
<1>6. k + 1 <= Cardinality(Window(w)) /\ Cardinality(Window(w)) \in Nat
  BY <1>4, <1>5, WindowSize, FS_Injection
<1> DEFINE n == Cardinality(Window(w))
<1> HIDE DEF n
<1>7. (k + 1) * Jobs <= n * Jobs
  <2>1. n - (k + 1) \in Nat /\ n \in Nat
    BY <1>6 DEF n
  <2>2. (n - (k + 1)) * Jobs >= 0 /\ n * Jobs = (k + 1) * Jobs + (n - (k + 1)) * Jobs
    BY <2>1
  <2> QED
    BY <2>1, <2>2
<1> QED
  BY <1>0, <1>1, <1>6, <1>7 DEF n

-----------------------------------------------------------------------------
(* What a fiber has passed it has asked for, once each when the list has all  *)
(* its prefixes, and what it has not reached nobody has asked for; a fiber    *)
(* that pushed its chunk has passed the list or was stopped.                  *)
ShardInv ==
    /\ ShardTypeOK
    /\ \A w \in Fibers : fiber[w] = "pushed" => bi[w] >= Total \/ stop
    /\ \A w \in Fibers, p \in prefixed : p % Jobs = w /\ p < bi[w] => asked[p] > 0
    /\ prefixed = Positions =>
        \A w \in Fibers, p \in Positions : p % Jobs = w =>
            asked[p] <= 1 /\ (asked[p] > 0 => p < bi[w])

LEMMA ShardsCorrect == ShardInv => NoGaps /\ OnceEach
<1> USE FibersAndPositions
<1> SUFFICES ASSUME ShardInv PROVE NoGaps /\ OnceEach
  OBVIOUS
<1>1. ASSUME NEW w \in Fibers, NEW p \in prefixed, p % Jobs = w,
             p < bi[w] \/ (fiber[w] = "pushed" /\ ~stop)
      PROVE  asked[p] > 0
  <2>1. p \in Nat /\ p < Total /\ bi[w] \in Nat
    BY DEF ShardInv, ShardTypeOK, Positions
  <2>2. p < bi[w]
    BY <1>1, <2>1 DEF ShardInv
  <2> QED
    BY <1>1, <2>2 DEF ShardInv
<1>2. ASSUME prefixed = Positions, NEW p \in Positions PROVE asked[p] <= 1
  <2>1. p % Jobs \in Fibers
    BY Division DEF Fibers
  <2> QED
    BY <1>2, <2>1 DEF ShardInv
<1> QED
  BY <1>1, <1>2 DEF NoGaps, OnceEach

LEMMA FreshShards ==
    /\ Fresh.fiber \in [Fibers -> {"new", "loop", "pushed", "failed"}] /\ \A w \in Fibers : Fresh.fiber[w] = "new"
    /\ Fresh.bi \in [Fibers -> 0 .. Total + Batch * Jobs] /\ \A w \in Fibers : Fresh.bi[w] % Jobs = w
    /\ Fresh.asked \in [Positions -> 0 .. 2] /\ \A p \in Positions : Fresh.asked[p] = 0
    /\ \A w \in Fibers, p \in Positions : p % Jobs = w => ~(p < Fresh.bi[w])
<1> USE FibersAndPositions
<1>0. /\ Fresh.fiber = [w \in Fibers |-> "new"] /\ Fresh.bi = [w \in Fibers |-> w]
      /\ Fresh.asked = [p \in Positions |-> 0]
  BY DEF Fresh
<1>1. \A w \in Fibers : w \in 0 .. Total + Batch * Jobs
  <2>1. Batch * Jobs \in Nat
    OBVIOUS
  <2> QED
    BY <2>1 DEF Fibers
<1>2. \A w \in Fibers : w % Jobs = w
  <2>1. \A w \in Fibers : w + 0 * Jobs = w /\ w \in 0 .. Jobs - 1
    BY DEF Fibers
  <2> QED
    BY <2>1, Remainder
<1>3. ASSUME NEW w \in Fibers, NEW p \in Positions, p % Jobs = w, p < w PROVE FALSE
  <2>1. p \in Nat /\ w \in 0 .. Jobs - 1 /\ p < w
    BY <1>3 DEF Fibers
  <2>2. p % Jobs = p
    <3>1. p + 0 * Jobs = p /\ p \in 0 .. Jobs - 1
      BY <2>1
    <3> QED
      BY <3>1, Remainder
  <2> QED
    BY <1>3, <2>1, <2>2
<1>4. \A w \in Fibers, p \in Positions : p % Jobs = w => ~(p < Fresh.bi[w])
  BY <1>0, <1>3
<1> QED
  BY <1>0, <1>1, <1>2, <1>4

LEMMA ShardsStart ==
    ASSUME fiber = Fresh.fiber, bi = Fresh.bi, asked = Fresh.asked,
           prefixed \subseteq Positions, stop \in BOOLEAN
    PROVE  ShardInv
<1>1. ShardTypeOK
  BY FreshShards DEF ShardTypeOK
<1> QED
  BY <1>1, FreshShards DEF ShardInv

LEMMA StartOverKeeps == ASSUME ShardInv, StartOver, UNCHANGED <<stop, prefixed>> PROVE ShardInv'
<1>1. prefixed' \subseteq Positions /\ stop' \in BOOLEAN
  BY DEF ShardInv, ShardTypeOK
<1>2. ShardTypeOK'
  BY <1>1, FreshShards DEF StartOver, ShardTypeOK
<1> QED
  BY <1>1, <1>2, FreshShards DEF StartOver, ShardInv

LEMMA AskCounts ==
    ASSUME ShardTypeOK, NEW w \in Fibers, Ask(w)
    PROVE  /\ asked' \in [Positions -> 0 .. 2]
           /\ \A p \in Positions : asked'[p] >= asked[p]
           /\ \A p \in Requested(w) : asked'[p] > 0 /\ (asked[p] = 0 => asked'[p] = 1)
           /\ \A p \in Positions \ Requested(w) : asked'[p] = asked[p]
<1>1. asked' = [p \in Positions |->
                    IF p \in Requested(w) /\ asked[p] < 2 THEN asked[p] + 1 ELSE asked[p]]
  BY DEF Ask
<1>2. \A p \in Positions : asked[p] \in {0, 1, 2}
  BY DEF ShardTypeOK
<1>3. Requested(w) \subseteq Positions
  BY DEF Requested, Window
<1> QED
  BY <1>1, <1>2, <1>3

LEMMA FetchBatchKeeps ==
    ASSUME ShardInv, NEW w \in Fibers, FetchBatch(w)
    PROVE  ShardInv'
<1> USE FibersAndPositions
<1>0. PICK m : m = Cardinality(Requested(w)) /\ m \in 0 .. Batch
  BY WindowSize DEF ShardInv
<1>1. m \in Nat /\ bi[w] \in Nat /\ bi[w] < Total /\ w \in Nat /\ bi[w] % Jobs = w /\ ShardTypeOK
  BY <1>0 DEF ShardInv, ShardTypeOK, FetchBatch
<1>2. bi' = [bi EXCEPT ![w] = @ + m * Jobs] /\ UNCHANGED <<prefixed, stop, fiber>> /\ fiber[w] = "loop"
  BY <1>0 DEF FetchBatch
<1>3. /\ asked' \in [Positions -> 0 .. 2]
      /\ \A p \in Positions : asked'[p] >= asked[p]
      /\ \A p \in Requested(w) : asked'[p] > 0 /\ (asked[p] = 0 => asked'[p] = 1)
      /\ \A p \in Positions \ Requested(w) : asked'[p] = asked[p]
  BY <1>1, AskCounts DEF FetchBatch
<1>4. prefixed = Positions => Requested(w) = Window(w)
  BY DEF Requested, Window
<1>5. prefixed = Positions => \A p \in Window(w) : p < bi[w] + m * Jobs
  BY <1>0, <1>1, <1>4, WindowPassed
<1>6. \A p \in Window(w) : p \in Positions /\ p >= bi[w] /\ p % Jobs = w
  <2> SUFFICES ASSUME NEW p \in Window(w) PROVE p \in Positions /\ p >= bi[w] /\ p % Jobs = w
    OBVIOUS
  <2>1. p \in Positions /\ \E k \in 0 .. Batch - 1 : p = bi[w] + k * Jobs
    BY DEF Window
  <2>2. PICK k \in 0 .. Batch - 1 : p = bi[w] + k * Jobs
    BY <2>1
  <2>3. k \in Nat /\ k * Jobs >= 0
    OBVIOUS
  <2>4. (bi[w] + k * Jobs) % Jobs = bi[w] % Jobs
    BY <1>1, <2>3, SameFiber
  <2>5. p >= bi[w]
    BY <1>1, <2>2, <2>3
  <2> QED
    BY <1>1, <2>1, <2>2, <2>4, <2>5
<1>7. \A p \in prefixed :
         p % Jobs = bi[w] % Jobs /\ bi[w] <= p /\ p < bi[w] + m * Jobs => p \in Requested(w)
  <2> SUFFICES ASSUME NEW p, p \in prefixed, p % Jobs = bi[w] % Jobs, bi[w] <= p, p < bi[w] + m * Jobs
               PROVE  p \in Requested(w)
    OBVIOUS
  <2>1. p \in Positions /\ p \in Nat
    BY <1>1 DEF ShardTypeOK
  <2>2. PICK k \in 0 .. m - 1 : p = bi[w] + k * Jobs
    <3> HIDE FibersAndPositions
    <3>1. Jobs \in Nat \ {0}
      BY FibersAndPositions
    <3>2. bi[w] \in Nat /\ m \in Nat
      BY <1>1
    <3> QED
      BY <2>1, <3>1, <3>2, StepsBetween
  <2>3. k \in 0 .. Batch - 1
    BY <1>0, <1>1
  <2> QED
    BY <2>1, <2>2, <2>3 DEF Requested, Window
<1>8. m * Jobs \in Nat /\ m * Jobs <= Batch * Jobs
  BY <1>0, MoreSteps
<1>9. ShardTypeOK'
  <2>1. bi[w] + m * Jobs \in 0 .. Total + Batch * Jobs
    BY <1>1, <1>8
  <2>2. (bi[w] + m * Jobs) % Jobs = w
    <3>1. m \in Nat
      BY <1>1
    <3> QED
      BY <1>1, <3>1, SameFiber
  <2>3. bi' \in [Fibers -> 0 .. Total + Batch * Jobs]
    BY <1>1, <1>2, <2>1 DEF ShardTypeOK
  <2>4. \A v \in Fibers : bi'[v] % Jobs = v
    BY <1>1, <1>2, <2>2 DEF ShardTypeOK
  <2> QED
    BY <1>1, <1>2, <1>3, <2>3, <2>4 DEF ShardTypeOK
<1>10. \A v \in Fibers : bi'[v] = IF v = w THEN bi[w] + m * Jobs ELSE bi[v]
  BY <1>1, <1>2 DEF ShardTypeOK
<1>11. \A v \in Fibers : fiber'[v] = "pushed" => bi'[v] >= Total \/ stop'
  BY <1>2, <1>10 DEF ShardInv
<1>12. \A v \in Fibers, p \in prefixed : p % Jobs = v /\ p < bi'[v] => asked'[p] > 0
  <2> SUFFICES ASSUME NEW v \in Fibers, NEW p \in prefixed, p % Jobs = v, p < bi'[v]
               PROVE  asked'[p] > 0
    OBVIOUS
  <2>1. p \in Positions /\ asked[p] \in Nat /\ asked'[p] \in Nat /\ p \in Nat
    BY <1>1, <1>3 DEF ShardTypeOK
  <2>2. CASE p < bi[v]
    BY <1>3, <2>1, <2>2 DEF ShardInv
  <2>3. CASE ~(p < bi[v])
    <3>1. v = w /\ bi[w] <= p /\ p < bi[w] + m * Jobs
      BY <1>1, <1>10, <2>1, <2>3
    <3>2. p % Jobs = bi[w] % Jobs
      BY <1>1, <3>1
    <3>3. p \in Requested(w)
      BY <1>7, <3>1, <3>2
    <3> QED
      BY <1>3, <3>3
  <2> QED
    BY <2>2, <2>3
<1>13. prefixed = Positions =>
         \A v \in Fibers, p \in Positions : p % Jobs = v =>
            asked'[p] <= 1 /\ (asked'[p] > 0 => p < bi'[v])
  <2> SUFFICES ASSUME prefixed = Positions, NEW v \in Fibers, NEW p \in Positions, p % Jobs = v
               PROVE  asked'[p] <= 1 /\ (asked'[p] > 0 => p < bi'[v])
    OBVIOUS
  <2>1. bi[v] <= bi'[v] /\ bi[v] \in Nat /\ bi'[v] \in Nat /\ p \in Nat
    BY <1>1, <1>8, <1>10 DEF ShardTypeOK
  <2>2. asked[p] \in Nat /\ asked[p] <= 1 /\ (asked[p] > 0 => p < bi[v])
    BY <1>1 DEF ShardInv, ShardTypeOK
  <2>3. CASE p \in Requested(w)
    <3>1. p \in Window(w) /\ v = w /\ p >= bi[w]
      BY <1>4, <1>6, <2>3
    <3>2. asked[p] = 0
      BY <2>1, <2>2, <3>1
    <3>3. asked'[p] = 1 /\ p < bi'[v]
      BY <1>3, <1>5, <1>10, <2>3, <3>1, <3>2
    <3> QED
      BY <3>3
  <2>4. CASE p \notin Requested(w)
    BY <1>3, <2>1, <2>2, <2>4
  <2> QED
    BY <2>3, <2>4
<1> QED
  BY <1>2, <1>9, <1>11, <1>12, <1>13 DEF ShardInv

(* The other steps of a round, and those that leave it alone. *)
LEMMA LoginKeeps == ASSUME ShardInv, NEW w \in Fibers, Login(w) PROVE ShardInv'
<1>1. UNCHANGED <<prefixed, stop, bi, asked>> /\ fiber' \in [Fibers -> {"new", "loop", "pushed", "failed"}]
  BY DEF Login, ShardInv, ShardTypeOK
<1>2. \A v \in Fibers : fiber'[v] = "pushed" => fiber[v] = "pushed"
  BY DEF Login, ShardInv, ShardTypeOK
<1> QED
  BY <1>1, <1>2 DEF ShardInv, ShardTypeOK

LEMMA PushKeeps == ASSUME ShardInv, NEW w \in Fibers, Push(w) PROVE ShardInv'
<1>1. UNCHANGED <<prefixed, stop, bi, asked>> /\ fiber' \in [Fibers -> {"new", "loop", "pushed", "failed"}]
  BY DEF Push, ShardInv, ShardTypeOK
<1>2. \A v \in Fibers : fiber'[v] = "pushed" => fiber[v] = "pushed" \/ bi[v] >= Total \/ stop
  BY DEF Push, ShardInv, ShardTypeOK
<1> QED
  BY <1>1, <1>2 DEF ShardInv, ShardTypeOK

LEMMA RoundKept ==
    ASSUME ShardInv, UNCHANGED <<roundVars, prefixed>>, stop' \in BOOLEAN, stop => stop'
    PROVE  ShardInv'
BY DEF ShardInv, ShardTypeOK, roundVars

-----------------------------------------------------------------------------
(* Sequences of chunks: their members, and when they increase. *)
Increasing(s) == \A i, j \in 1 .. Len(s) : i < j => s[i] < s[j]

LEMMA ChunksAreNat == Chunks \subseteq Nat /\ 0 \notin Chunks /\ IsFiniteSet(Chunks) /\ MaxMade \in Nat
BY PipelineAssumption, FS_Interval DEF Chunks

LEMMA MembersType == ASSUME NEW s \in Seq(Chunks) PROVE Members(s) \subseteq Chunks
BY DEF Members

LEMMA MembersEmpty == Members(<<>>) = {}
BY DEF Members

LEMMA MembersAppend ==
    ASSUME NEW s \in Seq(Chunks), NEW e \in Chunks
    PROVE  /\ Append(s, e) \in Seq(Chunks) /\ Len(Append(s, e)) = Len(s) + 1
           /\ Members(Append(s, e)) = Members(s) \cup {e}
<1> DEFINE t == Append(s, e)
<1>1. t \in Seq(Chunks) /\ Len(t) = Len(s) + 1 /\ Len(s) \in Nat
  BY AppendProperties
<1>2. \A i \in 1 .. Len(s) : t[i] = s[i]
  BY AppendProperties
<1>3. t[Len(s) + 1] = e
  BY AppendProperties
<1> HIDE DEF t
<1>4. Members(t) \subseteq Members(s) \cup {e}
  <2> SUFFICES ASSUME NEW i \in 1 .. Len(t) PROVE t[i] \in Members(s) \cup {e}
    BY DEF Members
  <2>1. i \in 1 .. Len(s) \/ i = Len(s) + 1
    BY <1>1
  <2> QED
    BY <1>2, <1>3, <2>1 DEF Members
<1>5. Members(s) \subseteq Members(t)
  <2> SUFFICES ASSUME NEW i \in 1 .. Len(s) PROVE s[i] \in Members(t)
    BY DEF Members
  <2>1. i \in 1 .. Len(t) /\ t[i] = s[i]
    BY <1>1, <1>2
  <2> QED
    BY <2>1 DEF Members
<1>6. e \in Members(t)
  BY <1>1, <1>3 DEF Members
<1> QED
  BY <1>1, <1>4, <1>5, <1>6 DEF t

LEMMA MembersSplit ==
    ASSUME NEW s \in Seq(Chunks), s # <<>>
    PROVE  /\ Head(s) \in Chunks /\ Tail(s) \in Seq(Chunks) /\ Len(Tail(s)) = Len(s) - 1
           /\ Members(s) = {Head(s)} \cup Members(Tail(s))
<1> DEFINE t == Tail(s)
<1>1. /\ Head(s) \in Chunks /\ t \in Seq(Chunks) /\ Len(t) = Len(s) - 1 /\ Len(s) \in Nat \ {0}
      /\ \A i \in 1 .. Len(t) : t[i] = s[i + 1]
  BY HeadTailProperties, EmptySeq
<1>2. Head(s) = s[1]
  OBVIOUS
<1> HIDE DEF t
<1>3. Members(s) \subseteq {s[1]} \cup Members(t)
  <2> SUFFICES ASSUME NEW i \in 1 .. Len(s) PROVE s[i] \in {s[1]} \cup Members(t)
    BY DEF Members
  <2>1. i = 1 \/ (i - 1 \in 1 .. Len(t) /\ t[i - 1] = s[i])
    BY <1>1
  <2> QED
    BY <2>1 DEF Members
<1>4. Members(t) \subseteq Members(s) /\ s[1] \in Members(s)
  <2>1. \A i \in 1 .. Len(t) : i + 1 \in 1 .. Len(s) /\ t[i] = s[i + 1]
    BY <1>1
  <2>2. 1 \in 1 .. Len(s)
    BY <1>1
  <2> QED
    BY <2>1, <2>2 DEF Members
<1> QED
  BY <1>1, <1>2, <1>3, <1>4 DEF t

LEMMA IncreasingAppend ==
    ASSUME NEW s \in Seq(Chunks), NEW e \in Chunks, Increasing(s), \A x \in Members(s) : x < e
    PROVE  Increasing(Append(s, e))
<1> DEFINE t == Append(s, e)
<1>1. Len(t) = Len(s) + 1 /\ Len(s) \in Nat /\ (\A i \in 1 .. Len(s) : t[i] = s[i]) /\ t[Len(s) + 1] = e
  BY AppendProperties
<1> HIDE DEF t
<1> SUFFICES ASSUME NEW i \in 1 .. Len(t), NEW j \in 1 .. Len(t), i < j PROVE t[i] < t[j]
  BY DEF Increasing, t
<1>2. i \in 1 .. Len(s) /\ (j \in 1 .. Len(s) \/ j = Len(s) + 1)
  BY <1>1
<1>3. s[i] \in Members(s)
  BY <1>2 DEF Members
<1> QED
  BY <1>1, <1>2, <1>3 DEF Increasing

LEMMA IncreasingSplit ==
    ASSUME NEW s \in Seq(Chunks), s # <<>>, Increasing(s)
    PROVE  Increasing(Tail(s)) /\ \A x \in Members(Tail(s)) : Head(s) < x
<1> DEFINE t == Tail(s)
<1>1. Len(t) = Len(s) - 1 /\ Len(s) \in Nat \ {0} /\ \A i \in 1 .. Len(t) : t[i] = s[i + 1]
  BY HeadTailProperties, EmptySeq
<1>2. Head(s) = s[1]
  OBVIOUS
<1> HIDE DEF t
<1>3. \A i \in 1 .. Len(t) : i + 1 \in 1 .. Len(s) /\ 1 \in 1 .. Len(s) /\ 1 < i + 1
  BY <1>1
<1>4. \A i \in 1 .. Len(t) : s[1] < t[i]
  BY <1>1, <1>3 DEF Increasing
<1>5. ASSUME NEW i \in 1 .. Len(t), NEW j \in 1 .. Len(t), i < j PROVE t[i] < t[j]
  <2>1. i + 1 < j + 1
    BY <1>5
  <2> QED
    BY <1>1, <1>3, <2>1 DEF Increasing
<1>6. Increasing(t)
  BY <1>5 DEF Increasing
<1>7. \A x \in Members(t) : s[1] < x
  BY <1>4 DEF Members
<1> QED
  BY <1>2, <1>6, <1>7 DEF t

LEMMA IncreasingConcat ==
    ASSUME NEW s \in Seq(Chunks), NEW t \in Seq(Chunks), Increasing(s), Increasing(t),
           \A x \in Members(s), y \in Members(t) : x < y
    PROVE  /\ s \o t \in Seq(Chunks) /\ Increasing(s \o t)
           /\ Members(s \o t) \subseteq Members(s) \cup Members(t)
<1> DEFINE u == s \o t
<1>1. u \in Seq(Chunks) /\ Len(u) = Len(s) + Len(t) /\ Len(s) \in Nat /\ Len(t) \in Nat
  BY ConcatProperties, LenProperties
<1>2. \A i \in 1 .. Len(s) : u[i] = s[i]
  BY ConcatProperties
<1>3. \A i \in Len(s) + 1 .. Len(s) + Len(t) : u[i] = t[i - Len(s)] /\ i - Len(s) \in 1 .. Len(t)
  BY ConcatProperties, <1>1
<1> HIDE DEF u
<1>4. \A i \in 1 .. Len(u) : i \in 1 .. Len(s) \/ i \in Len(s) + 1 .. Len(s) + Len(t)
  BY <1>1
<1>5. Members(u) \subseteq Members(s) \cup Members(t)
  BY <1>2, <1>3, <1>4 DEF Members
<1>6. ASSUME NEW i \in 1 .. Len(u), NEW j \in 1 .. Len(u), i < j PROVE u[i] < u[j]
  <2>1. CASE j \in 1 .. Len(s)
    <3>1. i \in 1 .. Len(s)
      BY <1>1, <1>6, <2>1
    <3> QED
      BY <1>2, <1>6, <2>1, <3>1 DEF Increasing
  <2>2. CASE i \in Len(s) + 1 .. Len(s) + Len(t)
    <3>1. j \in Len(s) + 1 .. Len(s) + Len(t) /\ i - Len(s) < j - Len(s)
      BY <1>1, <1>6, <2>2
    <3> QED
      BY <1>3, <2>2, <3>1 DEF Increasing
  <2>3. CASE i \in 1 .. Len(s) /\ j \in Len(s) + 1 .. Len(s) + Len(t)
    <3>1. u[i] \in Members(s) /\ u[j] \in Members(t)
      BY <1>2, <1>3, <2>3 DEF Members
    <3> QED
      BY <3>1
  <2> QED
    BY <1>4, <2>1, <2>2, <2>3
<1> QED
  BY <1>1, <1>5, <1>6 DEF Increasing, u

-----------------------------------------------------------------------------
(* PipeTypeOK without the part that is the shards'. *)
PipeRest ==
    /\ async \in BOOLEAN /\ loop \in BOOLEAN /\ cut \in BOOLEAN /\ final \in BOOLEAN /\ conn \in BOOLEAN
    /\ pc \in {"fetch", "shards", "put", "enqueue", "connect", "insert", "hk", "rest", "join", "done"}
    /\ made \in 0 .. MaxMade /\ shown \in 0 .. made
    /\ queue \in Seq(Chunks) /\ Len(queue) < QueueSlots
    /\ dropped \subseteq Chunks /\ failed \subseteq Chunks /\ done \in Seq(Chunks)
    /\ wpc \in {"test", "drain", "read", "ingest", "exited"}
    /\ hand \in Chunks \cup {0}

(* Where the two threads are: with a worker the main thread never inserts and *)
(* has chunks to put while it puts; without one it goes through the chunks    *)
(* one by one and is done with them when the round is.                        *)
PipePlace ==
    /\ async => pc \notin {"connect", "insert"}
    /\ ~async => /\ pc \notin {"put", "enqueue"}
                 /\ queue = <<>> /\ hand = 0 /\ dropped = {} /\ wpc = "exited"
                 /\ Handled <= made
                 /\ Handled = made <=> pc \notin {"connect", "insert"}
    /\ pc = "put" => shown < made
    /\ pc = "enqueue" => shown > 0
    /\ pc = "shards" => made + 1 + Jobs <= MaxMade
    /\ wpc = "ingest" <=> hand # 0

(* Accounted, place by place. *)
Hand == {hand} \ {0}
Apart ==
    /\ Sent = Members(queue) \cup Hand \cup Members(done) \cup dropped \cup failed
    /\ Members(queue) \cap Hand = {} /\ Members(queue) \cap Members(done) = {}
    /\ Members(queue) \cap dropped = {} /\ Members(queue) \cap failed = {}
    /\ Hand \cap Members(done) = {} /\ Hand \cap dropped = {} /\ Hand \cap failed = {}
    /\ Members(done) \cap dropped = {} /\ Members(done) \cap failed = {}
    /\ dropped \cap failed = {}

(* What is in the database precedes what is being inserted, and both precede  *)
(* what waits.                                                                *)
Flow ==
    /\ Increasing(done) /\ Increasing(queue)
    /\ \A x \in Members(done), y \in Hand \cup Members(queue) : x < y
    /\ \A x \in Hand, y \in Members(queue) : x < y

PipeInv == ShardInv /\ PipeRest /\ PipePlace /\ Apart /\ Flow

LEMMA ApartIsAccounted == Apart => Accounted
<1> SUFFICES ASSUME Apart PROVE Accounted
  OBVIOUS
<1>1. /\ Places[1] = Members(queue) /\ Places[2] = Hand /\ Places[3] = Members(done)
      /\ Places[4] = dropped /\ Places[5] = failed
  BY DEF Places, Hand
<1>2. 1 .. 5 = {1, 2, 3, 4, 5}
  OBVIOUS
<1>3. UNION {Places[i] : i \in 1 .. 5}
        = Members(queue) \cup Hand \cup Members(done) \cup dropped \cup failed
  <2>1. UNION {Places[i] : i \in {1, 2, 3, 4, 5}}
          = Places[1] \cup Places[2] \cup Places[3] \cup Places[4] \cup Places[5]
    BY Zenon
  <2> QED
    BY <1>1, <1>2, <2>1
<1>4. ASSUME NEW i \in 1 .. 5, NEW j \in 1 .. 5, i # j PROVE Places[i] \cap Places[j] = {}
  BY <1>1, <1>2, <1>4 DEF Apart
<1> QED
  BY <1>3, <1>4 DEF Accounted, Apart

LEMMA Counted ==
    ASSUME PipeRest
    PROVE  /\ IsFiniteSet(failed) /\ Cardinality(failed) \in Nat /\ Len(done) \in Nat
           /\ Handled \in Nat /\ made \in Nat /\ shown \in Nat
<1>1. failed \subseteq Chunks /\ done \in Seq(Chunks) /\ made \in 0 .. MaxMade /\ shown \in 0 .. made
  BY DEF PipeRest
<1>2. IsFiniteSet(failed) /\ Cardinality(failed) \in Nat
  BY <1>1, ChunksAreNat, FS_Subset, FS_CardinalityType
<1>3. Len(done) \in Nat
  BY <1>1, LenProperties
<1>4. made \in Nat /\ shown \in Nat
  BY <1>1, ChunksAreNat
<1> QED
  BY <1>2, <1>3, <1>4 DEF Handled

LEMMA FlowIsInOrder == ASSUME PipeRest, Flow PROVE InOrder
<1> DEFINE h == IF hand = 0 THEN <<>> ELSE <<hand>>
<1>1. done \in Seq(Chunks) /\ queue \in Seq(Chunks) /\ hand \in Chunks \cup {0}
  BY DEF PipeRest
<1>2. h \in Seq(Chunks) /\ Increasing(h) /\ Members(h) \subseteq Hand
  <2>1. CASE hand = 0
    BY <2>1, MembersEmpty, EmptySeq DEF Increasing
  <2>2. CASE hand # 0
    <3>1. h = <<hand>> /\ Len(<<hand>>) = 1 /\ hand \in Chunks
      BY <1>1, <2>2
    <3>2. <<hand>> \in Seq(Chunks) /\ <<hand>>[1] = hand
      BY <3>1
    <3>3. 1 .. 1 = {1}
      OBVIOUS
    <3>4. Increasing(<<hand>>)
      BY <3>1, <3>3 DEF Increasing
    <3>5. Members(<<hand>>) \subseteq Hand
      BY <2>2, <3>1, <3>2, <3>3 DEF Members, Hand
    <3> QED
      BY <3>1, <3>2, <3>4, <3>5
  <2> QED
    BY <2>1, <2>2
<1> HIDE DEF h
<1>3. /\ done \o h \in Seq(Chunks) /\ Increasing(done \o h)
      /\ Members(done \o h) \subseteq Members(done) \cup Members(h)
  BY <1>1, <1>2, IncreasingConcat DEF Flow
<1>4. \A x \in Members(done \o h), y \in Members(queue) : x < y
  BY <1>2, <1>3 DEF Flow
<1>5. Increasing((done \o h) \o queue)
  BY <1>1, <1>3, <1>4, IncreasingConcat DEF Flow
<1> QED
  BY <1>5 DEF InOrder, Increasing, h

LEMMA PipeStart == PipeInit => PipeInv
<1> SUFFICES ASSUME PipeInit PROVE PipeInv
  OBVIOUS
<1>1. ShardInv
  BY ShardsStart, ShardAssumption DEF PipeInit, ShardInit, Positions
<1>2. PipeRest
  <2>1. <<>> \in Seq(Chunks) /\ Len(<<>>) = 0
    BY EmptySeq
  <2>2. made = 0 /\ shown = 0 /\ hand = 0 /\ 0 \in 0 .. MaxMade /\ 0 \in 0 .. 0 /\ 0 < QueueSlots
    BY PipelineAssumption DEF PipeInit
  <2> QED
    BY <2>1, <2>2 DEF PipeInit, PipeRest
<1>3. Handled = 0 /\ Hand = {}
  BY FS_EmptySet, EmptySeq DEF PipeInit, Handled, Hand
<1>4. PipePlace
  BY <1>3 DEF PipeInit, PipePlace
<1>5. Sent = {}
  BY <1>3 DEF Sent, PipeInit
<1>6. Apart
  BY <1>3, <1>5, MembersEmpty DEF Apart, PipeInit
<1>7. Increasing(<<>>)
  BY EmptySeq DEF Increasing
<1>8. Flow
  BY <1>3, <1>7, MembersEmpty DEF Flow, PipeInit
<1> QED
  BY <1>1, <1>2, <1>4, <1>6, <1>8 DEF PipeInv

(* Steps that touch no chunk. *)
LEMMA NoChunkMoves ==
    ASSUME PipeInv, UNCHANGED <<async, queue, hand, done, dropped, failed, shown>>,
           pc = "enqueue" <=> pc' = "enqueue"
    PROVE  Apart' /\ Flow' /\ Handled' = Handled
<1>1. Handled' = Handled /\ Hand' = Hand /\ Sent' = Sent
  BY DEF Handled, Hand, Sent
<1>2. Members(queue)' = Members(queue) /\ Members(done)' = Members(done)
  BY DEF Members
<1> QED
  BY <1>1, <1>2 DEF PipeInv, Apart, Flow, Increasing

Kept == PipeRest /\ PipePlace /\ Apart /\ Flow

LEMMA SelectServerKeeps == ASSUME PipeInv, SelectServer PROVE Kept'
<1>1. Apart' /\ Flow' /\ Handled' = Handled
  BY NoChunkMoves DEF SelectServer, options, workVars
<1>2. PipeRest'
  BY DEF PipeInv, PipeRest, SelectServer, options, workVars
<1>3. PipePlace'
  BY <1>1 DEF PipeInv, PipePlace, SelectServer, options, workVars
<1> QED
  BY <1>1, <1>2, <1>3 DEF Kept

LEMMA FetchShardKeeps == ASSUME PipeInv, NEW w \in Fibers, FetchShard(w) PROVE Kept'
<1>1. UNCHANGED <<async, loop, queue, mainVars, workVars, cut>>
  BY DEF FetchShard
<1>2. Apart' /\ Flow' /\ Handled' = Handled
  BY <1>1, NoChunkMoves DEF mainVars, workVars
<1>3. PipeRest'
  BY <1>1 DEF PipeInv, PipeRest, mainVars, workVars
<1>4. PipePlace'
  BY <1>1, <1>2 DEF PipeInv, PipePlace, mainVars, workVars
<1> QED
  BY <1>2, <1>3, <1>4 DEF Kept

LEMMA JoinShardsKeeps == ASSUME PipeInv, JoinShards PROVE Kept'
<1> DEFINE P == {w \in Fibers : fiber[w] = "pushed"}
           n == Cardinality(P)
<1>1. pc = "shards" /\ made' = made + 1 + n /\ pc' = IF async THEN "put" ELSE "connect"
  BY DEF JoinShards
<1>2. UNCHANGED <<async, loop, queue, shown, dropped, wpc, final, conn, hand, done, failed, cut>>
  BY DEF JoinShards, options, workVars
<1>3. n \in Nat /\ n <= Jobs /\ Jobs \in Nat
  <2>1. Jobs \in Nat \ {0}
    BY ShardAssumption
  <2>2. IsFiniteSet(Fibers) /\ Cardinality(Fibers) = Jobs
    BY <2>1, FS_Interval DEF Fibers
  <2>3. P \subseteq Fibers
    OBVIOUS
  <2>4. IsFiniteSet(P) /\ n <= Jobs
    BY <2>2, <2>3, FS_Subset
  <2> QED
    BY <2>1, <2>4, FS_CardinalityType
<1> HIDE DEF n
<1>4. made \in Nat /\ shown \in 0 .. made /\ MaxMade \in Nat /\ made + 1 + Jobs <= MaxMade
  BY <1>1, Counted, ChunksAreNat DEF PipeInv, PipeRest, PipePlace
<1>5. made' \in 0 .. MaxMade /\ shown' \in 0 .. made' /\ made < made'
  BY <1>1, <1>2, <1>3, <1>4
<1>6. Apart' /\ Flow' /\ Handled' = Handled
  BY <1>1, <1>2, NoChunkMoves
<1>7. PipeRest'
  BY <1>1, <1>2, <1>5 DEF PipeInv, PipeRest
<1>8. Handled \in Nat
  BY Counted DEF PipeInv
<1>9. PipePlace'
  <2>1. CASE async
    <3>1. async' /\ pc' = "put" /\ shown' < made'
      BY <1>1, <1>2, <1>4, <1>5, <2>1
    <3> QED
      BY <1>2, <3>1 DEF PipeInv, PipePlace
  <2>2. CASE ~async
    <3>1. ~async' /\ pc' = "connect"
      BY <1>1, <1>2, <2>2
    <3>2. Handled = made
      BY <1>1, <2>2 DEF PipeInv, PipePlace
    <3>3. Handled' < made' /\ Handled' <= made' /\ Handled' # made'
      BY <1>4, <1>5, <1>6, <3>2
    <3> QED
      BY <1>2, <2>2, <3>1, <3>3 DEF PipeInv, PipePlace
  <2> QED
    BY <2>1, <2>2
<1> QED
  BY <1>6, <1>7, <1>9 DEF Kept

LEMMA HkRoundKeeps == ASSUME PipeInv, HkRound PROVE Kept'
<1>1. Apart' /\ Flow' /\ Handled' = Handled
  BY NoChunkMoves DEF HkRound, options, workVars
<1>2. PipeRest'
  BY DEF PipeInv, PipeRest, HkRound, options, workVars
<1>3. PipePlace'
  BY <1>1 DEF PipeInv, PipePlace, HkRound, options, workVars
<1> QED
  BY <1>1, <1>2, <1>3 DEF Kept

LEMMA RestKeeps == ASSUME PipeInv, Rest PROVE Kept'
<1>1. Apart' /\ Flow' /\ Handled' = Handled
  BY NoChunkMoves DEF Rest, options, workVars
<1>2. PipeRest'
  BY DEF PipeInv, PipeRest, Rest, options, workVars
<1>3. PipePlace'
  BY <1>1 DEF PipeInv, PipePlace, Rest, options, workVars
<1> QED
  BY <1>1, <1>2, <1>3 DEF Kept

LEMMA JoinKeeps == ASSUME PipeInv, Join PROVE Kept'
<1>1. Apart' /\ Flow' /\ Handled' = Handled
  BY NoChunkMoves DEF Join, options, workVars
<1>2. PipeRest'
  BY DEF PipeInv, PipeRest, Join, options, workVars
<1>3. PipePlace'
  BY <1>1 DEF PipeInv, PipePlace, Join, options, workVars
<1> QED
  BY <1>1, <1>2, <1>3 DEF Kept

LEMMA SignalKeeps == ASSUME PipeInv, Signal PROVE Kept'
<1>1. Apart' /\ Flow' /\ Handled' = Handled
  BY NoChunkMoves DEF Signal, options, mainVars, workVars
<1>2. cut' \in BOOLEAN
  <2>1. cut' = (pc \in {"fetch", "shards", "put", "enqueue"})
    BY DEF Signal
  <2> QED
    BY <2>1
<1>3. PipeRest'
  BY <1>2 DEF PipeInv, PipeRest, Signal, options, mainVars, workVars
<1>4. PipePlace'
  BY <1>1 DEF PipeInv, PipePlace, Signal, options, mainVars, workVars
<1> QED
  BY <1>1, <1>3, <1>4 DEF Kept

LEMMA TestStopKeeps == ASSUME PipeInv, TestStop PROVE Kept'
<1>1. Apart' /\ Flow' /\ Handled' = Handled
  BY NoChunkMoves DEF TestStop, options, mainVars
<1>2. final' \in BOOLEAN
  BY Zenon DEF TestStop, PipeInv, ShardInv, ShardTypeOK
<1>3. PipeRest'
  BY <1>2 DEF PipeInv, PipeRest, TestStop, options, mainVars
<1>4. PipePlace'
  BY <1>1 DEF PipeInv, PipePlace, TestStop, options, mainVars
<1> QED
  BY <1>1, <1>3, <1>4 DEF Kept

LEMMA DrainKeeps == ASSUME PipeInv, Drain PROVE Kept'
<1>1. Apart' /\ Flow' /\ Handled' = Handled
  BY NoChunkMoves DEF Drain, options, mainVars
<1>2. PipeRest'
  BY DEF PipeInv, PipeRest, Drain, EndOfDrain, options, mainVars
<1>3. PipePlace'
  BY <1>1 DEF PipeInv, PipePlace, Drain, EndOfDrain, options, mainVars
<1> QED
  BY <1>1, <1>2, <1>3 DEF Kept

(* Steps that move a chunk. *)
LEMMA PutQuotesKeeps == ASSUME PipeInv, PutQuotes PROVE Kept'
<1>1. pc = "put" /\ shown' = shown + 1 /\ pc' = "enqueue" /\ UNCHANGED <<async, loop, made, queue, dropped, wpc, final, conn, hand, done, failed, cut>>
  BY DEF PutQuotes, options, workVars
<1>2. async /\ shown < made
  BY <1>1 DEF PipeInv, PipePlace
<1>3. made \in Nat /\ shown \in Nat /\ shown' \in 0 .. made' /\ shown' > 0
  BY <1>1, <1>2, Counted DEF PipeInv
<1>4. PipeRest'
  BY <1>1, <1>3 DEF PipeInv, PipeRest
<1>5. Sent' = Sent
  <2>1. Sent = 1 .. shown
    BY <1>1, <1>2 DEF Sent
  <2>2. Sent' = 1 .. (shown' - 1)
    BY <1>1, <1>2 DEF Sent
  <2>3. shown' - 1 = shown
    BY <1>1, <1>3
  <2> QED
    BY <2>1, <2>2, <2>3
<1>6. Hand' = Hand /\ Members(queue)' = Members(queue) /\ Members(done)' = Members(done)
  BY <1>1 DEF Hand, Members
<1>7. Apart'
  BY <1>1, <1>5, <1>6 DEF PipeInv, Apart
<1>8. Flow'
  BY <1>1, <1>6 DEF PipeInv, Flow, Increasing
<1>9. PipePlace'
  BY <1>1, <1>2, <1>3 DEF PipeInv, PipePlace
<1> QED
  BY <1>4, <1>7, <1>8, <1>9 DEF Kept

(* The chunk that is being handed over is the newest. *)
LEMMA Newest ==
    ASSUME PipeInv, pc = "enqueue"
    PROVE  /\ async /\ shown \in Chunks /\ shown \notin Sent
           /\ 1 .. shown = Sent \cup {shown} /\ \A x \in Sent : x < shown
           /\ NextChunk \in {"hk", "put"} /\ (NextChunk = "put" => shown < made)
<1>1. async /\ shown > 0
  BY DEF PipeInv, PipePlace
<1>2. shown \in 1 .. made /\ made \in 0 .. MaxMade /\ made \in Nat /\ shown \in Nat /\ MaxMade \in Nat
  BY <1>1, Counted, ChunksAreNat DEF PipeInv, PipeRest
<1>3. Sent = 1 .. (shown - 1)
  BY <1>1 DEF Sent
<1>4. shown \in Chunks
  BY <1>2 DEF Chunks
<1>5. shown \notin 1 .. (shown - 1) /\ \A x \in 1 .. (shown - 1) : x < shown
  BY <1>2
<1>6. 1 .. shown = (1 .. (shown - 1)) \cup {shown}
  BY <1>2
<1>7. NextChunk \in {"hk", "put"} /\ (NextChunk = "put" => shown < made)
  BY <1>2 DEF NextChunk
<1> QED
  BY <1>1, <1>3, <1>4, <1>5, <1>6, <1>7

LEMMA EnqueueKeeps == ASSUME PipeInv, Enqueue PROVE Kept'
<1>1. /\ pc = "enqueue" /\ Len(queue) < QueueSlots - 1 /\ queue' = Append(queue, shown) /\ pc' = NextChunk
      /\ UNCHANGED <<async, loop, made, shown, dropped, wpc, final, conn, hand, done, failed, cut>>
  BY DEF Enqueue, options, workVars
<1>2. /\ async /\ shown \in Chunks /\ shown \notin Sent
      /\ 1 .. shown = Sent \cup {shown} /\ \A x \in Sent : x < shown
      /\ pc' \in {"hk", "put"} /\ (pc' = "put" => shown < made)
  BY <1>1, Newest
<1>3. queue \in Seq(Chunks) /\ QueueSlots \in Nat /\ Len(queue) \in Nat
  BY PipelineAssumption, LenProperties DEF PipeInv, PipeRest
<1>4. queue' \in Seq(Chunks) /\ Len(queue') = Len(queue) + 1 /\ Members(queue') = Members(queue) \cup {shown}
  BY <1>1, <1>2, <1>3, MembersAppend
<1>5. Len(queue') < QueueSlots
  BY <1>1, <1>3, <1>4
<1>6. PipeRest'
  BY <1>1, <1>2, <1>4, <1>5 DEF PipeInv, PipeRest
<1>7. Sent' = Sent \cup {shown}
  BY <1>1, <1>2 DEF Sent
<1>8. Hand' = Hand /\ Members(done)' = Members(done) /\ Members(queue)' = Members(queue) \cup {shown}
  BY <1>1, <1>4 DEF Hand, Members
<1>9. Apart'
  BY <1>1, <1>2, <1>7, <1>8 DEF PipeInv, Apart
<1>10. Members(queue) \subseteq Sent /\ Members(done) \subseteq Sent /\ Hand \subseteq Sent
  BY DEF PipeInv, Apart
<1>11. Increasing(queue')
  BY <1>1, <1>2, <1>3, <1>10, IncreasingAppend DEF PipeInv, Flow
<1>12. Flow'
  BY <1>1, <1>2, <1>8, <1>10, <1>11 DEF PipeInv, Flow, Increasing
<1>13. PipePlace'
  BY <1>1, <1>2 DEF PipeInv, PipePlace
<1> QED
  BY <1>6, <1>9, <1>12, <1>13 DEF Kept

LEMMA QueueFullKeeps == ASSUME PipeInv, QueueFull PROVE Kept'
<1>1. /\ pc = "enqueue" /\ dropped' = dropped \cup {shown} /\ pc' = NextChunk
      /\ UNCHANGED <<async, loop, made, shown, queue, wpc, final, conn, hand, done, failed, cut>>
  BY DEF QueueFull, options, workVars
<1>2. /\ async /\ shown \in Chunks /\ shown \notin Sent /\ 1 .. shown = Sent \cup {shown}
      /\ pc' \in {"hk", "put"} /\ (pc' = "put" => shown < made)
  BY <1>1, Newest
<1>3. PipeRest'
  BY <1>1, <1>2 DEF PipeInv, PipeRest
<1>4. Sent' = Sent \cup {shown}
  BY <1>1, <1>2 DEF Sent
<1>5. Hand' = Hand /\ Members(done)' = Members(done) /\ Members(queue)' = Members(queue)
  BY <1>1 DEF Hand, Members
<1>6. Apart'
  BY <1>1, <1>2, <1>4, <1>5 DEF PipeInv, Apart
<1>7. Flow'
  BY <1>1, <1>5 DEF PipeInv, Flow, Increasing
<1>8. PipePlace'
  BY <1>1, <1>2 DEF PipeInv, PipePlace
<1> QED
  BY <1>3, <1>6, <1>7, <1>8 DEF Kept

LEMMA ReadChunkKeeps == ASSUME PipeInv, ReadChunk PROVE Kept'
<1>1. /\ wpc = "read"
      /\ UNCHANGED <<async, loop, pc, made, shown, dropped, final, conn, done, failed, cut>>
  BY DEF ReadChunk, options, mainVars
<1>2. async /\ hand = 0
  BY <1>1 DEF PipeInv, PipePlace
<1>3. CASE queue = <<>> /\ UNCHANGED <<hand, queue>> /\ wpc' \in {"test", "exited"}
  <2>1. Apart' /\ Flow' /\ Handled' = Handled
    BY <1>1, <1>3, NoChunkMoves
  <2>2. PipeRest'
    BY <1>1, <1>3 DEF PipeInv, PipeRest
  <2>3. PipePlace'
    BY <1>1, <1>2, <1>3, <2>1 DEF PipeInv, PipePlace
  <2> QED
    BY <2>1, <2>2, <2>3 DEF Kept
<1>4. CASE queue # <<>> /\ hand' = Head(queue) /\ queue' = Tail(queue) /\ wpc' = "ingest"
  <2> DEFINE c == Head(queue)
             t == Tail(queue)
  <2>1. queue \in Seq(Chunks) /\ Len(queue) < QueueSlots /\ QueueSlots \in Nat /\ Len(queue) \in Nat
    BY PipelineAssumption, LenProperties DEF PipeInv, PipeRest
  <2>2. c \in Chunks /\ t \in Seq(Chunks) /\ Len(t) = Len(queue) - 1 /\ Members(queue) = {c} \cup Members(t)
    BY <1>4, <2>1, MembersSplit
  <2>3. Increasing(t) /\ \A x \in Members(t) : c < x
    BY <1>4, <2>1, IncreasingSplit DEF PipeInv, Flow
  <2> HIDE DEF c, t
  <2>4. hand' = c /\ queue' = t
    BY <1>4 DEF c, t
  <2>5. c # 0 /\ c \notin Members(t)
    BY <2>2, <2>3, ChunksAreNat
  <2>6. Hand = {} /\ Hand' = {c} /\ Members(queue)' = Members(t) /\ Members(done)' = Members(done) /\ Sent' = Sent
    <3>1. Members(queue)' = Members(t)
      BY <2>4 DEF Members
    <3>2. Hand = {} /\ Hand' = {c}
      BY <1>2, <2>4, <2>5 DEF Hand
    <3>3. Members(done)' = Members(done) /\ Sent' = Sent
      BY <1>1, <1>2 DEF Members, Sent
    <3> QED
      BY <3>1, <3>2, <3>3
  <2>7. Apart'
    BY <1>1, <2>2, <2>5, <2>6 DEF PipeInv, Apart
  <2>8. Flow'
    <3>1. Increasing(done)' /\ Increasing(queue)'
      BY <1>1, <2>3, <2>4 DEF PipeInv, Flow, Increasing
    <3> QED
      BY <2>2, <2>3, <2>6, <3>1 DEF PipeInv, Flow
  <2>9. Len(t) < QueueSlots
    BY <2>1, <2>2
  <2>10. PipeRest'
    BY <1>1, <1>4, <2>2, <2>4, <2>9 DEF PipeInv, PipeRest
  <2>11. PipePlace'
    BY <1>1, <1>2, <1>4, <2>4, <2>5 DEF PipeInv, PipePlace
  <2> QED
    BY <2>7, <2>8, <2>10, <2>11 DEF Kept
<1> QED
  BY <1>3, <1>4 DEF ReadChunk, EndOfDrain

LEMMA IngestKeeps == ASSUME PipeInv, Ingest PROVE Kept'
<1>1. /\ wpc = "ingest" /\ hand' = 0 /\ wpc' = "read"
      /\ UNCHANGED <<async, loop, pc, made, shown, queue, dropped, final, conn, cut>>
  BY DEF Ingest, options, mainVars
<1>2. async /\ hand \in Chunks /\ hand # 0 /\ done \in Seq(Chunks)
  BY <1>1 DEF PipeInv, PipePlace, PipeRest
<1>3. Hand = {hand} /\ Hand' = {} /\ Members(queue)' = Members(queue) /\ Sent' = Sent
  <2>1. Hand = {hand} /\ Hand' = {}
    BY <1>1, <1>2 DEF Hand
  <2>2. Members(queue)' = Members(queue) /\ Sent' = Sent
    BY <1>1, <1>2 DEF Members, Sent
  <2> QED
    BY <2>1, <2>2
<1>4. PipePlace'
  BY <1>1, <1>2 DEF PipeInv, PipePlace
<1>5. CASE done' = Append(done, hand) /\ failed' = failed
  <2>1. done' \in Seq(Chunks) /\ Members(done') = Members(done) \cup {hand}
    BY <1>2, <1>5, MembersAppend
  <2>2. Members(done)' = Members(done) \cup {hand}
    BY <2>1 DEF Members
  <2>3. PipeRest'
    BY <1>1, <1>5, <2>1 DEF PipeInv, PipeRest
  <2>4. Apart'
    BY <1>1, <1>3, <1>5, <2>2 DEF PipeInv, Apart
  <2>5. Increasing(done')
    BY <1>2, <1>3, <1>5, IncreasingAppend DEF PipeInv, Flow
  <2>6. Flow'
    <3>1. Increasing(done)' /\ Increasing(queue)'
      BY <1>1, <2>5 DEF PipeInv, Flow, Increasing
    <3> QED
      BY <1>3, <2>2, <3>1 DEF PipeInv, Flow
  <2> QED
    BY <1>4, <2>3, <2>4, <2>6 DEF Kept
<1>6. CASE failed' = failed \cup {hand} /\ done' = done
  <2>1. Members(done)' = Members(done)
    BY <1>6 DEF Members
  <2>2. PipeRest'
    BY <1>1, <1>2, <1>6 DEF PipeInv, PipeRest
  <2>3. Apart'
    BY <1>1, <1>3, <1>6, <2>1 DEF PipeInv, Apart
  <2>4. Flow'
    BY <1>1, <1>3, <1>6, <2>1 DEF PipeInv, Flow, Increasing
  <2> QED
    BY <1>4, <2>2, <2>3, <2>4 DEF Kept
<1> QED
  BY <1>5, <1>6 DEF Ingest

(* The synchronous round: its chunks are the ones after Handled. *)
LEMMA Synchronous ==
    ASSUME PipeInv, pc \in {"connect", "insert"}
    PROVE  /\ ~async /\ Handled \in Nat /\ made \in Nat /\ Handled < made
           /\ queue = <<>> /\ Members(queue) = {} /\ Hand = {} /\ dropped = {}
           /\ Sent = 1 .. Handled /\ Sent = Members(done) \cup failed /\ Members(done) \cap failed = {}
           /\ Handled + 1 .. made \subseteq Chunks /\ Handled + 1 \in Chunks
<1>1. ~async
  BY DEF PipeInv, PipePlace
<1>2. Handled <= made /\ Handled # made /\ queue = <<>> /\ hand = 0 /\ dropped = {}
  BY <1>1 DEF PipeInv, PipePlace
<1>3. Handled \in Nat /\ made \in Nat /\ made \in 0 .. MaxMade /\ MaxMade \in Nat
  BY Counted, ChunksAreNat DEF PipeInv, PipeRest
<1>4. Handled < made /\ Handled + 1 .. made \subseteq Chunks /\ Handled + 1 \in Chunks
  BY <1>2, <1>3 DEF Chunks
<1>5. Members(queue) = {} /\ Hand = {}
  BY <1>2, MembersEmpty DEF Hand
<1>6. Sent = 1 .. Handled
  BY <1>1 DEF Sent
<1>7. Sent = Members(done) \cup failed /\ Members(done) \cap failed = {}
  BY <1>2, <1>5 DEF PipeInv, Apart
<1> QED
  BY <1>1, <1>2, <1>3, <1>4, <1>5, <1>6, <1>7

LEMMA ConnectRoundKeeps == ASSUME PipeInv, ConnectRound PROVE Kept'
<1>1. pc = "connect" /\ UNCHANGED <<async, loop, made, shown, queue, dropped, wpc, final, conn, hand, done, cut>>
  BY DEF ConnectRound, options
<1>2. /\ ~async /\ Handled \in Nat /\ made \in Nat /\ Handled < made
      /\ queue = <<>> /\ Members(queue) = {} /\ Hand = {} /\ dropped = {}
      /\ Sent = 1 .. Handled /\ Sent = Members(done) \cup failed /\ Members(done) \cap failed = {}
      /\ Handled + 1 .. made \subseteq Chunks
  BY <1>1, Synchronous
<1>3. CASE pc' = "insert" /\ UNCHANGED failed
  <2>1. Apart' /\ Flow' /\ Handled' = Handled
    BY <1>1, <1>3, NoChunkMoves
  <2>2. PipeRest'
    BY <1>1, <1>3 DEF PipeInv, PipeRest
  <2>3. PipePlace'
    BY <1>1, <1>2, <1>3, <2>1 DEF PipeInv, PipePlace
  <2> QED
    BY <2>1, <2>2, <2>3 DEF Kept
<1>4. CASE pc' = "hk" /\ failed' = failed \cup Handled + 1 .. made
  <2> DEFINE new == Handled + 1 .. made
  <2>1. IsFiniteSet(new) /\ Cardinality(new) = made - Handled
    BY <1>2, FS_Interval
  <2>2. IsFiniteSet(failed) /\ Cardinality(failed) \in Nat /\ Len(done) \in Nat
    BY Counted DEF PipeInv
  <2>3. new \cap (1 .. Handled) = {}
    BY <1>2
  <2>4. 1 .. made = (1 .. Handled) \cup new
    BY <1>2
  <2> HIDE DEF new
  <2>5. failed \cap new = {} /\ Members(done) \cap new = {}
    BY <1>2, <2>3
  <2>6. failed' = failed \cup new /\ new \subseteq Chunks
    BY <1>2, <1>4 DEF new
  <2>7. Cardinality(failed') = Cardinality(failed) + (made - Handled)
    <3>1. Cardinality(failed \cap new) = 0
      BY <2>5, FS_EmptySet
    <3>2. Cardinality(failed \cup new) = Cardinality(failed) + Cardinality(new) - Cardinality(failed \cap new)
      BY <2>1, <2>2, FS_Union
    <3> QED
      BY <1>2, <2>1, <2>2, <2>6, <3>1, <3>2
  <2>8. Handled' = made
    <3>1. Handled' = Len(done) + Cardinality(failed')
      BY <1>1 DEF Handled
    <3>2. Handled = Len(done) + Cardinality(failed)
      BY DEF Handled
    <3> QED
      BY <1>2, <2>2, <2>7, <3>1, <3>2
  <2>9. PipeRest'
    BY <1>1, <1>4, <2>6 DEF PipeInv, PipeRest
  <2>10. Sent' = 1 .. made /\ Hand' = Hand /\ Members(queue)' = Members(queue) /\ Members(done)' = Members(done)
    <3>1. Sent' = 1 .. made
      BY <1>1, <1>2, <2>8 DEF Sent
    <3>2. Hand' = Hand /\ Members(queue)' = Members(queue) /\ Members(done)' = Members(done)
      BY <1>1 DEF Hand, Members
    <3> QED
      BY <3>1, <3>2
  <2>11. Apart'
    BY <1>1, <1>2, <2>4, <2>5, <2>6, <2>10 DEF Apart
  <2>12. Flow'
    BY <1>1, <2>10 DEF PipeInv, Flow, Increasing
  <2>13. PipePlace'
    BY <1>1, <1>2, <1>4, <2>8 DEF PipeInv, PipePlace
  <2> QED
    BY <2>9, <2>11, <2>12, <2>13 DEF Kept
<1> QED
  BY <1>3, <1>4 DEF ConnectRound

LEMMA InsertChunkKeeps == ASSUME PipeInv, InsertChunk PROVE Kept'
<1> DEFINE c == Handled + 1
<1>1. /\ pc = "insert" /\ pc' = IF c = made THEN "hk" ELSE "insert"
      /\ UNCHANGED <<async, loop, made, shown, queue, dropped, wpc, final, conn, hand, cut>>
  BY DEF InsertChunk, options
<1>2. /\ ~async /\ Handled \in Nat /\ made \in Nat /\ Handled < made
      /\ queue = <<>> /\ Members(queue) = {} /\ Hand = {} /\ dropped = {}
      /\ Sent = 1 .. Handled /\ Sent = Members(done) \cup failed /\ Members(done) \cap failed = {}
      /\ c \in Chunks
  BY <1>1, Synchronous
<1>3. c \notin Sent /\ 1 .. c = Sent \cup {c} /\ c \in Nat /\ c <= made /\ \A x \in Sent : x < c
  <2>1. c \notin 1 .. Handled /\ 1 .. c = (1 .. Handled) \cup {c} /\ c \in Nat /\ c <= made /\ \A x \in 1 .. Handled : x < c
    BY <1>2
  <2> QED
    BY <1>2, <2>1
<1>4. /\ IsFiniteSet(failed) /\ Cardinality(failed) \in Nat /\ Len(done) \in Nat /\ done \in Seq(Chunks)
      /\ Handled = Len(done) + Cardinality(failed)
  BY Counted DEF PipeInv, PipeRest, Handled
<1>5. c \notin failed /\ c \notin Members(done)
  BY <1>2, <1>3
<1>6. Hand' = Hand /\ Members(queue)' = Members(queue) /\ Handled' = Len(done') + Cardinality(failed')
  BY <1>1 DEF Hand, Members, Handled
<1>7. (done' = Append(done, c) /\ failed' = failed) \/ (failed' = failed \cup {c} /\ done' = done)
  BY DEF InsertChunk
<1>8. ASSUME Handled' = c PROVE PipePlace' /\ Sent' = Sent \cup {c}
  <2>1. Handled' <= made' /\ (Handled' = made' <=> pc' \notin {"connect", "insert"})
    BY <1>1, <1>3, <1>8
  <2>2. PipePlace'
    BY <1>1, <1>2, <2>1 DEF PipeInv, PipePlace
  <2>3. Sent' = 1 .. c
    BY <1>1, <1>2, <1>8 DEF Sent
  <2> QED
    BY <1>3, <2>2, <2>3
<1> HIDE DEF c
<1>9. CASE done' = Append(done, c) /\ failed' = failed
  <2>1. done' \in Seq(Chunks) /\ Len(done') = Len(done) + 1 /\ Members(done') = Members(done) \cup {c}
    BY <1>2, <1>4, <1>9, MembersAppend
  <2>2. Handled' = c
    BY <1>4, <1>6, <1>9, <2>1 DEF c
  <2>3. Members(done)' = Members(done) \cup {c}
    BY <2>1 DEF Members
  <2>4. PipePlace' /\ Sent' = Sent \cup {c}
    BY <1>8, <2>2
  <2>5. PipeRest'
    BY <1>1, <1>9, <2>1 DEF PipeInv, PipeRest
  <2>6. Apart'
    BY <1>1, <1>2, <1>5, <1>6, <1>9, <2>3, <2>4 DEF Apart
  <2>7. Increasing(done')
    BY <1>2, <1>3, <1>4, <1>9, IncreasingAppend DEF PipeInv, Flow
  <2>8. Flow'
    <3>1. Increasing(done)' /\ Increasing(queue)'
      BY <1>1, <2>7 DEF PipeInv, Flow, Increasing
    <3> QED
      BY <1>2, <1>6, <3>1 DEF Flow
  <2> QED
    BY <2>4, <2>5, <2>6, <2>8 DEF Kept
<1>10. CASE failed' = failed \cup {c} /\ done' = done
  <2>1. Cardinality(failed') = Cardinality(failed) + 1
    BY <1>4, <1>5, <1>10, FS_AddElement
  <2>2. Handled' = c
    BY <1>4, <1>6, <1>10, <2>1 DEF c
  <2>3. Members(done)' = Members(done)
    BY <1>10 DEF Members
  <2>4. PipePlace' /\ Sent' = Sent \cup {c}
    BY <1>8, <2>2
  <2>5. PipeRest'
    BY <1>1, <1>2, <1>10 DEF PipeInv, PipeRest
  <2>6. Apart'
    BY <1>1, <1>2, <1>5, <1>6, <1>10, <2>3, <2>4 DEF Apart
  <2>7. Flow'
    BY <1>1, <1>6, <1>10, <2>3 DEF PipeInv, Flow, Increasing
  <2> QED
    BY <2>4, <2>5, <2>6, <2>7 DEF Kept
<1> QED
  BY <1>7, <1>9, <1>10

-----------------------------------------------------------------------------
(* The shards, step by step. *)
LEMMA ShardsKept == ASSUME PipeInv, [PipeNext]_pipeVars PROVE ShardInv'
<1>1. ShardInv
  BY DEF PipeInv
<1>2. ASSUME NEW w \in Fibers, FetchShard(w) PROVE ShardInv'
  BY <1>1, <1>2, LoginKeeps, FetchBatchKeeps, PushKeeps DEF FetchShard, WorkerRun
<1>3. CASE JoinShards
  <2>1. StartOver /\ UNCHANGED <<stop, prefixed>>
    BY <1>3 DEF JoinShards, options
  <2> QED
    BY <1>1, <2>1, StartOverKeeps
<1>4. ASSUME UNCHANGED <<roundVars, prefixed>>, stop' \in BOOLEAN, stop => stop' PROVE ShardInv'
  BY <1>1, <1>4, RoundKept
<1>5. stop \in BOOLEAN /\ async \in BOOLEAN
  BY <1>1 DEF ShardInv, ShardTypeOK, PipeInv, PipeRest
<1>6. CASE SelectServer \/ PutQuotes \/ Enqueue \/ QueueFull \/ ConnectRound \/ InsertChunk \/ HkRound \/ Join
  <2>1. UNCHANGED <<roundVars, prefixed, stop>>
    BY <1>6 DEF SelectServer, PutQuotes, Enqueue, QueueFull, ConnectRound, InsertChunk, HkRound, Join, options
  <2> QED
    BY <1>4, <1>5, <2>1
<1>7. CASE Rest
  <2>1. UNCHANGED <<roundVars, prefixed>> /\ (stop' = stop \/ stop' = (stop \/ async))
    BY <1>7 DEF Rest, options
  <2>2. stop' \in BOOLEAN /\ (stop => stop')
    BY <1>5, <2>1, Zenon
  <2> QED
    BY <1>4, <2>1, <2>2
<1>8. CASE WorkerStep
  <2>1. UNCHANGED <<roundVars, prefixed, stop>>
    BY <1>8 DEF WorkerStep, TestStop, Drain, ReadChunk, Ingest, options
  <2> QED
    BY <1>4, <1>5, <2>1
<1>9. CASE Signal
  <2>1. UNCHANGED <<roundVars, prefixed>> /\ stop' = TRUE
    BY <1>9 DEF Signal, options
  <2> QED
    BY <1>4, <2>1
<1>10. CASE UNCHANGED pipeVars
  <2>1. UNCHANGED <<roundVars, prefixed, stop>>
    BY <1>10 DEF pipeVars, options
  <2> QED
    BY <1>4, <1>5, <2>1
<1> QED
  BY <1>2, <1>3, <1>6, <1>7, <1>8, <1>9, <1>10 DEF PipeNext, MainStep

LEMMA PipeStep == ASSUME PipeInv, [PipeNext]_pipeVars PROVE PipeInv'
<1> SUFFICES Kept'
  BY ShardsKept DEF PipeInv, Kept
<1>1. ASSUME NEW w \in Fibers, FetchShard(w) PROVE Kept'
  BY <1>1, FetchShardKeeps
<1>2. CASE MainStep
  BY <1>2, SelectServerKeeps, JoinShardsKeeps, PutQuotesKeeps, EnqueueKeeps, QueueFullKeeps,
     ConnectRoundKeeps, InsertChunkKeeps, HkRoundKeeps, RestKeeps, JoinKeeps DEF MainStep
<1>3. CASE WorkerStep
  BY <1>3, TestStopKeeps, DrainKeeps, ReadChunkKeeps, IngestKeeps DEF WorkerStep
<1>4. CASE Signal
  BY <1>4, SignalKeeps
<1>5. CASE UNCHANGED pipeVars
  <2>1. UNCHANGED <<options, mainVars, workVars, queue, cut>>
    BY <1>5 DEF pipeVars
  <2>2. Apart' /\ Flow' /\ Handled' = Handled
    BY <2>1, NoChunkMoves DEF options, mainVars, workVars
  <2>3. PipeRest'
    BY <2>1 DEF PipeInv, PipeRest, options, mainVars, workVars
  <2>4. PipePlace'
    BY <2>1, <2>2 DEF PipeInv, PipePlace, options, mainVars, workVars
  <2> QED
    BY <2>2, <2>3, <2>4 DEF Kept
<1> QED
  BY <1>1, <1>2, <1>3, <1>4, <1>5 DEF PipeNext

LEMMA Invariance == PipeSpec => []PipeInv
<1>1. PipeInit => PipeInv
  BY PipeStart
<1>2. PipeInv /\ [PipeNext]_pipeVars => PipeInv'
  BY PipeStep
<1> QED
  BY <1>1, <1>2, PTL DEF PipeSpec

-----------------------------------------------------------------------------
(* The variables of the two threads and of the fibers have their types. *)
THEOREM PipelineType == PipeSpec => []PipeTypeOK
<1>1. PipeInv => PipeTypeOK
  BY DEF PipeInv, PipeRest, ShardInv, PipeTypeOK
<1> QED
  BY <1>1, Invariance, PTL

(* Each chunk that was put is in exactly one place, with the ring of any size *)
(* and failures anywhere.                                                     *)
THEOREM PipelineAccounted == PipeSpec => []Accounted
<1>1. PipeInv => Accounted
  BY ApartIsAccounted DEF PipeInv
<1> QED
  BY <1>1, Invariance, PTL

(* Chunks reach the database in the order of production.                      *)
THEOREM PipelineInOrder == PipeSpec => []InOrder
<1>1. PipeInv => InOrder
  BY FlowIsInOrder DEF PipeInv
<1> QED
  BY <1>1, Invariance, PTL

(* No fiber passes over a position of its shard that has its prefix.          *)
THEOREM ShardsLeaveNoGaps == PipeSpec => []NoGaps
<1>1. PipeInv => NoGaps
  BY ShardsCorrect DEF PipeInv
<1> QED
  BY <1>1, Invariance, PTL

(* Fully prefixed lists are requested once per position and round.            *)
THEOREM ShardsAskOnce == PipeSpec => []OnceEach
<1>1. PipeInv => OnceEach
  BY ShardsCorrect DEF PipeInv
<1> QED
  BY <1>1, Invariance, PTL

-----------------------------------------------------------------------------
(* The end: the worker leaves only after a stop, and once it has left an      *)
(* empty queue nobody writes again.                                           *)
ExitInv ==
    /\ final => stop
    /\ async /\ wpc = "exited" => final
    /\ async /\ wpc = "exited" /\ conn /\ ~cut => queue = <<>>
    /\ stop /\ ~cut => pc \notin {"fetch", "shards", "put", "enqueue"}
    /\ pc = "done" => wpc = "exited"

LEMMA ExitStart == PipeInit => ExitInv
BY DEF PipeInit, ShardInit, ExitInv

LEMMA ExitStep == ASSUME PipeInv, ExitInv, [PipeNext]_pipeVars PROVE ExitInv'
<1> USE DEF ExitInv
<1>1. ASSUME NEW w \in Fibers, FetchShard(w) PROVE ExitInv'
  <2>1. UNCHANGED <<async, queue, pc, wpc, final, conn, cut>> /\ UNCHANGED stop
    BY <1>1 DEF FetchShard, WorkerRun, Login, FetchBatch, Push, mainVars, workVars
  <2> QED
    BY <2>1
<1>2. CASE SelectServer \/ JoinShards \/ PutQuotes \/ QueueFull \/ ConnectRound \/ InsertChunk \/ HkRound
  <2>1. UNCHANGED <<async, queue, wpc, final, conn, cut, stop>> /\ pc \notin {"done", "join", "rest"} /\ pc' # "done"
    BY <1>2 DEF SelectServer, JoinShards, PutQuotes, QueueFull, NextChunk, ConnectRound, InsertChunk, HkRound, options, workVars
  <2>2. pc' \in {"fetch", "shards", "put", "enqueue"} => pc \in {"fetch", "shards", "put", "enqueue"}
    BY <1>2 DEF SelectServer, JoinShards, PutQuotes, QueueFull, NextChunk, ConnectRound, InsertChunk, HkRound, PipeInv, PipePlace
  <2> QED
    BY <2>1, <2>2
<1>3. CASE Enqueue
  <2>1. UNCHANGED <<async, wpc, final, conn, cut, stop>> /\ pc = "enqueue" /\ pc' # "done"
    BY <1>3 DEF Enqueue, NextChunk, options, workVars
  <2>2. ~(stop /\ ~cut)
    BY <2>1
  <2> QED
    BY <2>1, <2>2
<1>4. CASE Rest
  <2>1. UNCHANGED <<async, queue, wpc, final, conn, cut>> /\ pc # "done" /\ pc' # "done"
    BY <1>4 DEF Rest, options, workVars
  <2>2. CASE ~stop /\ pc' = "fetch" /\ stop' = stop
    BY <2>1, <2>2
  <2>3. CASE pc' = "join" /\ stop' = (stop \/ async)
    <3>1. stop => stop'
      BY <2>3, Zenon
    <3> QED
      BY <2>1, <2>3, <3>1
  <2> QED
    BY <1>4, <2>2, <2>3 DEF Rest
<1>5. CASE Join
  BY <1>5 DEF Join, options, workVars
<1>6. CASE Signal
  BY <1>6 DEF Signal, options, mainVars, workVars
<1>7. CASE TestStop
  BY <1>7 DEF TestStop, options, mainVars
<1>8. CASE Drain
  BY <1>8 DEF Drain, EndOfDrain, options, mainVars
<1>9. CASE ReadChunk
  BY <1>9 DEF ReadChunk, EndOfDrain, options, mainVars
<1>10. CASE Ingest
  BY <1>10 DEF Ingest, options, mainVars
<1>11. CASE UNCHANGED pipeVars
  BY <1>11 DEF pipeVars, options, mainVars, workVars
<1> QED
  BY <1>1, <1>2, <1>3, <1>4, <1>5, <1>6, <1>7, <1>8, <1>9, <1>10, <1>11 DEF PipeNext, MainStep, WorkerStep

(* A run with a database and without an interrupted round leaves an empty     *)
(* queue.                                                                     *)
THEOREM PipelineExitDrains == PipeSpec => []ExitDrains
<1>1. PipeInit => ExitInv
  BY ExitStart
<1>2. PipeInv /\ ExitInv /\ [PipeNext]_pipeVars => ExitInv'
  BY ExitStep
<1>3. PipeInv /\ ExitInv => ExitDrains
  BY DEF PipeInv, PipePlace, ExitInv, ExitDrains
<1> QED
  BY <1>1, <1>2, <1>3, Invariance, PTL DEF PipeSpec
=============================================================================
