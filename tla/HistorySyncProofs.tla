-------------------------- MODULE HistorySyncProofs --------------------------
(* HistorySync for any stocks, batches and number of fibers: its types, that  *)
(* every mark is saved, and that no mark stands for nothing.                  *)

EXTENDS HistorySync, TLAPS

(* The empty map is a map, and so is what Load answers. *)
LEMMA LoadIsState == ASSUME HistTypeOK PROVE Load \in States /\ Empty \in States
BY HistoryAssumption DEF HistTypeOK, Load, Empty, NoEntry, States, Entries

(* What a save does to its variables, whichever operation calls it. *)
LEMMA SaveType ==
    ASSUME HistTypeOK, NEW f \in Fibers, NEW m \in States, WriteState(f, m)
    PROVE  /\ file' \in States \cup {Missing, Torn} /\ behind' \in BOOLEAN
           /\ mu' \in Fibers \cup {NoFiber} /\ text' \in [Fibers -> States]
           /\ pc' \in [Fibers -> {"idle", "loop", "asked", "write"}]
BY DEF HistTypeOK, WriteState

LEMMA MarkType ==
    ASSUME HistTypeOK, NEW f \in Fibers, NEW s \in Stocks, NEW e \in Entries, Mark(f, s, e)
    PROVE  /\ state' \in States
           /\ file' \in States \cup {Missing, Torn} /\ behind' \in BOOLEAN
           /\ mu' \in Fibers \cup {NoFiber} /\ text' \in [Fibers -> States]
           /\ pc' \in [Fibers -> {"idle", "loop", "asked", "write"}]
<1>1. state' \in States
  BY DEF Mark, HistTypeOK, States
<1>2. WriteState(f, state')
  BY DEF Mark
<1>3. QED
  BY <1>1, <1>2 DEF WriteState, HistTypeOK

(* The three marking operations write an entry. *)
LEMMA MarksAreMarks ==
    ASSUME HistTypeOK, NEW f \in Fibers, NEW s \in Stocks, NEW b \in Batches
    PROVE  /\ [batch |-> b, status |-> "completed"] \in Entries
           /\ [batch |-> b, status |-> "failed"] \in Entries
           /\ state[s] \in Entries
BY DEF HistTypeOK, States, Entries

-----------------------------------------------------------------------------
(* Type correctness of the marks, the file and the calls, for all constants. *)
THEOREM HistType == HistSpec => []HistTypeOK
<1>1. HistInit => HistTypeOK
  <2> SUFFICES ASSUME HistInit PROVE HistTypeOK
    OBVIOUS
  <2>1. Empty \in States
    BY DEF Empty, NoEntry, States, Entries
  <2> QED
    BY <2>1 DEF HistInit, HistTypeOK, Idle
<1>2. HistTypeOK /\ [HistNext]_histVars => HistTypeOK'
  <2> SUFFICES ASSUME HistTypeOK, [HistNext]_histVars PROVE HistTypeOK'
    OBVIOUS
  <2> USE DEF HistTypeOK
  <2>1. ASSUME NEW f \in Fibers, FetchHistory(f) PROVE HistTypeOK'
    BY <2>1 DEF FetchHistory, syncVars, fate
  <2>2. ASSUME NEW f \in Fibers, Bars(f) PROVE HistTypeOK'
    <3>1. cur[f] \in Stocks /\ pc' [f] # "asked"
      BY <2>2 DEF Bars, MarkAsked, UpdateSync, MarkStockComplete, Mark, WriteState
    <3>2. PICK e \in Entries : Mark(f, cur[f], e)
      <4>1. CASE batch[f] = NoBatch
        <5>1. Mark(f, cur[f], state[cur[f]])
          BY <2>2, <4>1 DEF Bars, MarkAsked, UpdateSync
        <5> QED
          BY <3>1, <5>1 DEF States
      <4>2. CASE batch[f] # NoBatch
        <5>1. Mark(f, cur[f], [batch |-> batch[f], status |-> "completed"])
          BY <2>2, <4>2 DEF Bars, MarkAsked, MarkStockComplete
        <5>2. [batch |-> batch[f], status |-> "completed"] \in Entries
          BY DEF Entries
        <5> QED
          BY <5>1, <5>2
      <4> QED
        BY <4>1, <4>2
    <3>3. pc' = [pc EXCEPT ![f] = pc'[f]]
      BY <3>2 DEF Mark, WriteState
    <3>4. /\ state' \in States
          /\ file' \in States \cup {Missing, Torn} /\ behind' \in BOOLEAN
          /\ mu' \in Fibers \cup {NoFiber} /\ text' \in [Fibers -> States]
          /\ pc' \in [Fibers -> {"idle", "loop", "asked", "write"}]
      BY <3>1, <3>2, MarkType
    <3>5. all' \in [Fibers -> SUBSET Stocks] /\ gone' \subseteq Stocks \X Batches
      BY <2>2, <3>1 DEF Bars, InBatch
    <3>6. cur' \in [Fibers -> Stocks \cup {NoStock}]
          /\ \A g \in Fibers : pc'[g] = "asked" => cur'[g] \in Stocks
      BY <2>2, <3>1, <3>3 DEF Bars
    <3> QED
      BY <2>2, <3>4, <3>5, <3>6 DEF Bars
  <2>3. ASSUME NEW f \in Fibers, EndWrite(f) PROVE HistTypeOK'
    BY <2>3, LoadIsState DEF EndWrite, fetchVars, fate
  <2>4. ASSUME NEW f \in Fibers, Return(f) PROVE HistTypeOK'
    BY <2>4 DEF Return, syncVars, InBatch
  <2>5. ASSUME NEW f \in Fibers, DirectCall(f) PROVE HistTypeOK'
    <3> DEFINE Sound ==
          /\ state' \in States
          /\ file' \in States \cup {Missing, Torn} /\ behind' \in BOOLEAN
          /\ mu' \in Fibers \cup {NoFiber} /\ text' \in [Fibers -> States]
          /\ pc' \in [Fibers -> {"idle", "loop", "asked", "write"}]
          /\ pc' = [pc EXCEPT ![f] = pc'[f]] /\ pc'[f] # "asked"
    <3>1. Sound
      <4>1. CASE WriteState(f, state) /\ UNCHANGED state
        BY <4>1, SaveType DEF WriteState
      <4>2. ASSUME NEW s \in Stocks, NEW e \in Entries, Mark(f, s, e)
            PROVE  Sound
        <5>1. pc' = [pc EXCEPT ![f] = pc'[f]] /\ pc'[f] # "asked"
          BY <4>2 DEF Mark, WriteState
        <5> QED
          BY <4>2, <5>1, MarkType
      <4>3. ASSUME NEW s \in Stocks, NEW b \in Batches,
                   MarkStockComplete(f, s, b) \/ MarkStockFailed(f, s, b)
            PROVE  Sound
        BY <4>2, <4>3, MarksAreMarks DEF MarkStockComplete, MarkStockFailed
      <4>4. ASSUME NEW s \in Stocks, UpdateSync(f, s) PROVE Sound
        BY <4>2, <4>4 DEF UpdateSync, States
      <4> QED
        BY <2>5, <4>1, <4>3, <4>4 DEF DirectCall
    <3>2. UNCHANGED <<direct, up, fetchVars, fate>>
      BY <2>5 DEF DirectCall
    <3>3. \A g \in Fibers : pc'[g] = "asked" => cur'[g] \in Stocks
      BY <3>1, <3>2 DEF fetchVars
    <3> QED
      BY <3>1, <3>2, <3>3 DEF fetchVars, fate
  <2>6. ASSUME NEW f \in Fibers, NEW s \in Stocks, Skip(f, s) PROVE HistTypeOK'
    BY <2>6 DEF Skip, syncVars, fate
  <2>7. ASSUME NEW f \in Fibers, NEW s \in Stocks, Ask(f, s) PROVE HistTypeOK'
    BY <2>7 DEF Ask, syncVars, fate
  <2>8. CASE Clear
    BY <2>8, LoadIsState DEF Clear, fetchVars, fate
  <2>9. CASE Crash
    <3>1. \A f \in Fibers : InBatch(f, all[f]) \subseteq Stocks \X Batches
      BY DEF InBatch
    <3>2. gone' \subseteq Stocks \X Batches
      BY <2>9, <3>1 DEF Crash
    <3> QED
      BY <2>9, <3>2, LoadIsState DEF Crash, Idle
  <2>10. CASE Restart
    BY <2>10, LoadIsState DEF Restart, fetchVars, fate
  <2>11. CASE UNCHANGED histVars
    BY <2>11 DEF histVars, syncVars, fetchVars, fate
  <2> QED
    BY <2>1, <2>2, <2>3, <2>4, <2>5, <2>6, <2>7, <2>8, <2>9, <2>10, <2>11 DEF HistNext
<1> QED
  BY <1>1, <1>2, PTL DEF HistSpec

-----------------------------------------------------------------------------
(* Fibers run in a live process, and who writes the file holds mu_ and writes *)
(* all of the marks.                                                          *)
WritesState ==
    \A f \in Fibers :
      /\ pc[f] # "idle" => up
      /\ pc[f] = "write" => mu = f /\ text[f] = state

(* A WriteState of the marks as they are after the step keeps both. *)
LEMMA SaveSaves ==
    ASSUME HistTypeOK, WritesState, mu = NoFiber, state' \in States,
           up', NEW f \in Fibers, WriteState(f, state')
    PROVE  WritesState' /\ (MarksSaved => MarksSaved')
<1>1. \A g \in Fibers : pc[g] # "write"
  BY HistoryAssumption DEF WritesState
<1>2. CASE mu' = f /\ text' = [text EXCEPT ![f] = state'] /\ pc' = [pc EXCEPT ![f] = "write"]
  BY <1>1, <1>2, HistoryAssumption DEF WritesState, MarksSaved, HistTypeOK
<1>3. CASE behind' = TRUE /\ pc' = [pc EXCEPT ![f] = "loop"]
  BY <1>1, <1>3 DEF WritesState, MarksSaved, HistTypeOK
<1> QED
  BY <1>2, <1>3 DEF WriteState

(* Outside a save the file holds every mark unless a save has failed, for any *)
(* number of fibers, stocks and batches, and through any number of crashes.   *)
THEOREM HistSaved == HistSpec => [](WritesState /\ MarksSaved)
<1>1. HistInit => WritesState /\ MarksSaved
  BY HistoryAssumption DEF HistInit, Idle, WritesState, MarksSaved, Load, States
<1>2. HistTypeOK /\ WritesState /\ MarksSaved /\ HistTypeOK' /\ [HistNext]_histVars
      => WritesState' /\ MarksSaved'
  <2> SUFFICES ASSUME HistTypeOK, WritesState, MarksSaved, HistTypeOK', [HistNext]_histVars
               PROVE  WritesState' /\ MarksSaved'
    OBVIOUS
  <2>0. state' \in States
    BY DEF HistTypeOK
  <2>1. ASSUME NEW f \in Fibers, FetchHistory(f) PROVE WritesState' /\ MarksSaved'
    BY <2>1 DEF FetchHistory, syncVars, HistTypeOK, WritesState, MarksSaved, Load
  <2>2. ASSUME NEW f \in Fibers, Bars(f) PROVE WritesState' /\ MarksSaved'
    <3>1. up' /\ mu = NoFiber /\ WriteState(f, state')
      BY <2>2 DEF WritesState, Bars, MarkAsked, UpdateSync, MarkStockComplete, Mark
    <3> QED
      BY <2>0, <3>1, SaveSaves
  <2>3. ASSUME NEW f \in Fibers, EndWrite(f) PROVE WritesState' /\ MarksSaved'
    <3>1. mu = f /\ text[f] = state /\ state \in States
      BY <2>3 DEF EndWrite, WritesState, HistTypeOK
    <3>2. \A g \in Fibers : pc'[g] # "write"
      BY <2>3, <3>1 DEF EndWrite, WritesState, HistTypeOK
    <3> QED
      BY <2>3, <3>1, <3>2 DEF EndWrite, WritesState, MarksSaved, Load
  <2>4. ASSUME NEW f \in Fibers, Return(f) PROVE WritesState' /\ MarksSaved'
    BY <2>4 DEF Return, syncVars, HistTypeOK, WritesState, MarksSaved, Load
  <2>5. ASSUME NEW f \in Fibers, DirectCall(f) PROVE WritesState' /\ MarksSaved'
    <3>1. up' /\ mu = NoFiber /\ WriteState(f, state')
      BY <2>5 DEF DirectCall, UpdateSync, MarkStockComplete, MarkStockFailed, Mark
    <3> QED
      BY <2>0, <3>1, SaveSaves
  <2>6. ASSUME NEW f \in Fibers, NEW s \in Stocks, Skip(f, s) \/ Ask(f, s)
        PROVE  WritesState' /\ MarksSaved'
    BY <2>6 DEF Skip, Ask, syncVars, HistTypeOK, WritesState, MarksSaved, Load
  <2>7. CASE Clear
    BY <2>7, HistoryAssumption DEF Clear, WritesState, MarksSaved, Load
  <2>8. CASE Crash
    BY <2>8 DEF Crash, Idle, WritesState, MarksSaved
  <2>9. CASE Restart
    BY <2>9 DEF Restart, WritesState, MarksSaved, Load
  <2>10. CASE UNCHANGED histVars
    BY <2>10 DEF histVars, syncVars, WritesState, MarksSaved, Load
  <2> QED
    BY <2>1, <2>2, <2>3, <2>4, <2>5, <2>6, <2>7, <2>8, <2>9, <2>10 DEF HistNext
<1> QED
  BY <1>1, <1>2, HistType, PTL DEF HistSpec

-----------------------------------------------------------------------------
(* <<s, b>> is settled or on its way: what a mark must stand for. *)
Accounted(s, b) == <<s, b>> \in returned \cup gone \/ Held(s, b)

(* A step that marks nothing and settles what it lets go keeps the account.   *)
LEMMA KeepsAccount ==
    ASSUME MarksAccounted, direct' = direct,
           \A s \in Stocks, b \in Batches :
               /\ Accounted(s, b) => Accounted(s, b)'
               /\ Completed(state', s, b) \/ Completed(Load', s, b) =>
                    Completed(state, s, b) \/ Completed(Load, s, b)
    PROVE  MarksAccounted'
BY DEF MarksAccounted, Accounted

(* Nothing is completed in the empty map. *)
LEMMA NothingInEmpty ==
    ASSUME NEW s \in Stocks, NEW b \in Batches PROVE ~Completed(Empty, s, b)
BY DEF Empty, NoEntry, Completed

(* Every completed mark, also one that a restart finds in the file, stands    *)
(* for bars that were returned, are held, or fell to a crash or to an error   *)
(* of Bars, for all constants.                                                *)
THEOREM HistAccounted == HistSpec => []MarksAccounted
<1>1. HistInit => MarksAccounted /\ WritesState
  <2> SUFFICES ASSUME HistInit PROVE MarksAccounted /\ WritesState
    OBVIOUS
  <2>1. state = Empty /\ Load = Empty
    BY HistoryAssumption DEF HistInit, Load
  <2> QED
    BY <2>1, NothingInEmpty DEF HistInit, MarksAccounted, WritesState, Idle
<1>2. HistTypeOK /\ WritesState /\ MarksAccounted /\ [HistNext]_histVars => MarksAccounted'
  <2> SUFFICES ASSUME HistTypeOK, WritesState, MarksAccounted, [HistNext]_histVars
               PROVE  MarksAccounted'
    OBVIOUS
  <2>1. ASSUME NEW f \in Fibers, FetchHistory(f) PROVE MarksAccounted'
    <3>1. \A s \in Stocks, b \in Batches : Accounted(s, b) => Accounted(s, b)'
      BY <2>1 DEF FetchHistory, fate, HistTypeOK, Accounted, Held
    <3> QED
      BY <2>1, <3>1, KeepsAccount DEF FetchHistory, syncVars, Load
  <2>2. ASSUME NEW f \in Fibers, Bars(f) PROVE MarksAccounted'
    <3>1. cur[f] \in Stocks /\ direct' = direct /\ returned' = returned /\ batch' = batch
      BY <2>2 DEF Bars, HistTypeOK
    <3>2. /\ pc' = [pc EXCEPT ![f] = pc'[f]] /\ pc'[f] # "idle"
          /\ file' \in {file, Torn}
      BY <2>2 DEF Bars, MarkAsked, UpdateSync, MarkStockComplete, Mark, WriteState, HistTypeOK
    <3>3. gone \subseteq gone' /\ \A g \in Fibers : all[g] \subseteq all'[g]
      BY <2>2 DEF Bars, HistTypeOK
    <3>4. \A s \in Stocks, b \in Batches : Accounted(s, b) => Accounted(s, b)'
      BY <3>1, <3>2, <3>3 DEF Accounted, Held, HistTypeOK
    <3>5. \A s \in Stocks, b \in Batches : Completed(Load', s, b) => Completed(Load, s, b)
      BY <3>2, NothingInEmpty, HistoryAssumption DEF Load
    <3>6. CASE batch[f] = NoBatch
      <4>1. state' = [state EXCEPT ![cur[f]] = state[cur[f]]]
        BY <2>2, <3>6 DEF Bars, MarkAsked, UpdateSync, Mark
      <4>2. state' = state
        BY <4>1 DEF HistTypeOK, States
      <4> QED
        BY <3>1, <3>4, <3>5, <4>2, KeepsAccount
    <3>7. CASE batch[f] # NoBatch
      <4>1. state' = [state EXCEPT ![cur[f]] = [batch |-> batch[f], status |-> "completed"]]
        BY <2>2, <3>7 DEF Bars, MarkAsked, MarkStockComplete, Mark
      <4>2. PICK t \in Stocks, d \in Batches : t = cur[f] /\ d = batch[f]
        BY <3>1, <3>7 DEF HistTypeOK
      <4>3. \A s \in Stocks, b \in Batches :
              Completed(state', s, b) => Completed(state, s, b) \/ (s = t /\ b = d)
        BY <3>1, <4>1, <4>2 DEF Completed, HistTypeOK, States
      <4>4. Accounted(t, d)'
        <5>1. CASE all' = [all EXCEPT ![f] = @ \cup {cur[f]}]
          BY <3>1, <3>2, <4>2, <5>1 DEF Accounted, Held, HistTypeOK
        <5>2. CASE gone' = gone \cup InBatch(f, {cur[f]})
          BY <3>1, <4>2, <5>2, HistoryAssumption DEF Accounted, InBatch
        <5> QED
          BY <2>2, <5>1, <5>2 DEF Bars
      <4> QED
        BY <3>1, <3>4, <3>5, <4>3, <4>4 DEF MarksAccounted, Accounted
    <3> QED
      BY <3>6, <3>7
  <2>3. ASSUME NEW f \in Fibers, EndWrite(f) PROVE MarksAccounted'
    <3>1. state' = state /\ (file' = state \/ file' = file)
      BY <2>3 DEF EndWrite, WritesState
    <3>2. \A s \in Stocks, b \in Batches : Accounted(s, b) => Accounted(s, b)'
      BY <2>3 DEF EndWrite, fate, fetchVars, HistTypeOK, Accounted, Held
    <3> QED
      BY <2>3, <3>1, <3>2, KeepsAccount DEF EndWrite, Load, HistTypeOK
  <2>4. ASSUME NEW f \in Fibers, Return(f) PROVE MarksAccounted'
    <3>1. \A s \in Stocks, b \in Batches : Accounted(s, b) => Accounted(s, b)'
      <4> SUFFICES ASSUME NEW s \in Stocks, NEW b \in Batches, Accounted(s, b)
                   PROVE  Accounted(s, b)'
        OBVIOUS
      <4>1. returned \subseteq returned' /\ gone' = gone
        BY <2>4 DEF Return
      <4>2. CASE <<s, b>> \in returned \cup gone
        BY <4>1, <4>2 DEF Accounted
      <4>3. ASSUME NEW g \in Fibers, pc[g] # "idle", batch[g] = b, s \in all[g]
            PROVE  Accounted(s, b)'
        <5>1. CASE g = f
          BY <2>4, <4>3, <5>1, HistoryAssumption DEF Return, InBatch, Accounted
        <5>2. CASE g # f
          BY <2>4, <4>3, <5>2 DEF Return, HistTypeOK, Accounted, Held
        <5> QED
          BY <5>1, <5>2
      <4> QED
        BY <4>2, <4>3 DEF Accounted, Held
    <3> QED
      BY <2>4, <3>1, KeepsAccount DEF Return, syncVars, Load
  <2>5. ASSUME NEW f \in Fibers, DirectCall(f) PROVE MarksAccounted'
    BY <2>5 DEF DirectCall, MarksAccounted
  <2>6. ASSUME NEW f \in Fibers, NEW t \in Stocks, Skip(f, t) \/ Ask(f, t)
        PROVE  MarksAccounted'
    <3>1. \A s \in Stocks, b \in Batches : Accounted(s, b) => Accounted(s, b)'
      BY <2>6 DEF Skip, Ask, fate, HistTypeOK, Accounted, Held
    <3> QED
      BY <2>6, <3>1, KeepsAccount DEF Skip, Ask, syncVars, Load
  <2>7. CASE Clear
    BY <2>7 DEF Clear, MarksAccounted
  <2>8. CASE Crash
    <3>1. \A s \in Stocks, b \in Batches : Accounted(s, b) => Accounted(s, b)'
      BY <2>8, HistoryAssumption DEF Crash, InBatch, Accounted, Held
    <3> QED
      BY <2>8, <3>1, KeepsAccount, NothingInEmpty DEF Crash, Load
  <2>9. CASE Restart
    <3>1. \A s \in Stocks, b \in Batches : Accounted(s, b) => Accounted(s, b)'
      BY <2>9 DEF Restart, fate, fetchVars, Accounted, Held
    <3> QED
      BY <2>9, <3>1, KeepsAccount DEF Restart, Load
  <2>10. CASE UNCHANGED histVars
    BY <2>10 DEF histVars, syncVars, fetchVars, fate, MarksAccounted, Held, Load
  <2> QED
    BY <2>1, <2>2, <2>3, <2>4, <2>5, <2>6, <2>7, <2>8, <2>9, <2>10 DEF HistNext
<1> QED
  BY <1>1, <1>2, HistType, HistSaved, PTL DEF HistSpec
=============================================================================
