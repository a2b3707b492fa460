-------------------------- MODULE KlineImportProofs --------------------------
(* Proofs for KlineImport, for any number of bars, bars a day and page size.  *)
EXTENDS KlineImport, TLAPS

LEMMA TimesAndBars == Bars \subseteq Nat /\ Times \subseteq Nat /\ 0 \in Times /\ Bars \subseteq Times /\ 1 \in Bars
BY KlineAssumption DEF Bars, Times

(* Whole days fit the bars, and the market is never past its day. *)
Calendar ==
    /\ now <= LastBar /\ (day - 1) * perDay <= now
    /\ (forming => now > 0)

(* What the import keeps besides its variables' types: a page of the network  *)
(* has no damaged row (they are left out when it is written), only an import  *)
(* that has read the file has brought anything, and while it inserts, every   *)
(* bar of the file is in the table, skipped as damaged, or still to come.     *)
ImportPlace ==
    /\ ipc = "net" => \A b \in Bars : pend[b] \in Status
    /\ ipc \in {"clear", "local", "net"} => brought = 0
    /\ ipc = "insert" =>
        \A b \in Bars : pend[b] # "none" => b <= brought
    /\ ~netWrote /\ ipc = "insert" =>
        \A b \in Bars : b <= brought => There(b) \/ pend[b] # "none"

(* Status of a row still to be inserted. *)
Pending == Status \cup {"damaged"}

KInv == KlineTypeOK /\ Calendar /\ ImportPlace /\ VipdocPrefix

-----------------------------------------------------------------------------
LEMMA InitInv == KlineInit => KInv
<1> SUFFICES ASSUME KlineInit PROVE KInv
    OBVIOUS
<1>1. KlineTypeOK
  <2>1. NoRows \in [Bars -> Status]
    BY DEF NoRows, Status
  <2>2. perDay \in 1 .. MaxPerDay /\ day \in 1 .. MaxBars /\ since \in 1 .. MaxBars
    BY KlineAssumption DEF KlineInit
  <2>3. idle \in 0 .. 3 /\ now \in Times /\ disk \in Times /\ brought \in Times /\ lastMax \in Times
    BY TimesAndBars DEF KlineInit
  <2>4. rows \in [Bars -> Status] /\ pend \in [Bars -> Pending] /\ asked \in [Bars -> Status]
    BY <2>1 DEF KlineInit, Pending
  <2> QED
    BY <2>2, <2>3, <2>4 DEF KlineInit, KlineTypeOK, Pending
<1>2. Calendar
    BY KlineAssumption DEF KlineInit, Calendar, LastBar
<1>3. ImportPlace
    BY DEF KlineInit, ImportPlace
<1>4. VipdocPrefix
    BY TimesAndBars DEF KlineInit, VipdocPrefix, Complete, There, NoRows, Bars
<1> QED
    BY <1>1, <1>2, <1>3, <1>4 DEF KInv

(* Steps that leave the table and the import alone leave what they keep. *)
LEMMA TableKept ==
    ASSUME KInv, UNCHANGED <<table, ipc, pend, brought>>
    PROVE  ImportPlace' /\ VipdocPrefix'
BY DEF KInv, ImportPlace, VipdocPrefix, Complete, There, table

LEMMA QuotedType == ASSUME NEW B PROVE Quoted(B) \in [Bars -> Status]
BY DEF Quoted, Status

LEMMA NewerThanType ==
    ASSUME NEW r \in [Bars -> Pending], NEW t
    PROVE  NewerThan(r, t) \in [Bars -> Pending]
BY DEF NewerThan, Pending, Status

LEMMA BarOpensKeeps == KInv /\ BarOpens => KInv'
<1> SUFFICES ASSUME KInv, BarOpens PROVE KInv'
    OBVIOUS
<1> USE DEF table, importVars, fetchVars
<1>1. KlineTypeOK'
    BY KlineAssumption DEF KInv, KlineTypeOK, BarOpens, Times
<1>2. Calendar'
  <2>1. LastBar' = LastBar
    BY DEF BarOpens, LastBar
  <2>2. LastBar \in Nat /\ (day - 1) * perDay \in Nat
    BY DEF KInv, KlineTypeOK, LastBar
  <2> QED
    BY <2>1, <2>2 DEF KInv, KlineTypeOK, Times, BarOpens, Calendar
<1>3. ImportPlace' /\ VipdocPrefix'
    BY TableKept DEF BarOpens
<1> QED
    BY <1>1, <1>2, <1>3 DEF KInv

LEMMA BarClosesKeeps == KInv /\ BarCloses => KInv'
<1> SUFFICES ASSUME KInv, BarCloses PROVE KInv'
    OBVIOUS
<1> USE DEF table, importVars, fetchVars
<1>1. KlineTypeOK'
    BY DEF KInv, KlineTypeOK, BarCloses
<1>2. Calendar'
    BY DEF KInv, Calendar, LastBar, BarCloses
<1>3. ImportPlace' /\ VipdocPrefix'
    BY TableKept DEF BarCloses
<1> QED
    BY <1>1, <1>2, <1>3 DEF KInv

LEMMA NewDayKeeps == KInv /\ NewDay => KInv'
<1> SUFFICES ASSUME KInv, NewDay PROVE KInv'
    OBVIOUS
<1> USE DEF table, importVars, fetchVars
<1>1. day <= day * perDay /\ (day + 1) * perDay = day * perDay + perDay
    BY KlineAssumption DEF KInv, KlineTypeOK
<1>2. day * perDay = now /\ now < MaxBars /\ now \in Nat
    BY DEF NewDay, Closed, LastBar, KInv, KlineTypeOK, Times
<1>3. day + 1 \in 1 .. MaxBars
    BY <1>1, <1>2, KlineAssumption DEF KInv, KlineTypeOK
<1>4. KlineTypeOK'
    BY <1>3 DEF KInv, KlineTypeOK, NewDay
<1>5. Calendar'
  <2>1. LastBar' = day * perDay + perDay /\ day' - 1 = day
    BY <1>1 DEF NewDay, LastBar, KInv, KlineTypeOK
  <2> QED
    BY <1>2, <2>1, KlineAssumption DEF Calendar, NewDay, KInv, KlineTypeOK, Closed
<1>6. ImportPlace' /\ VipdocPrefix'
    BY TableKept DEF NewDay
<1> QED
    BY <1>4, <1>5, <1>6 DEF KInv

LEMMA DownloadKeeps == KInv /\ Download => KInv'
<1> SUFFICES ASSUME KInv, Download PROVE KInv'
    OBVIOUS
<1> USE DEF table, importVars, fetchVars, clock
<1>1. disk' \in Times
  <2>1. CASE Closed
    BY <2>1 DEF Download, Closed, KInv, KlineTypeOK
  <2>2. CASE ~Closed
    <3>1. (day - 1) * perDay \in Nat /\ (day - 1) * perDay <= now
        BY DEF KInv, KlineTypeOK, Calendar
    <3> QED
        BY <2>2, <3>1, KlineAssumption DEF Download, KInv, KlineTypeOK, Times
  <2> QED
    BY <2>1, <2>2
<1>2. KlineTypeOK'
    BY <1>1 DEF KInv, KlineTypeOK, Download
<1>3. Calendar'
    BY DEF KInv, Calendar, LastBar, Download
<1>4. ImportPlace' /\ VipdocPrefix'
    BY TableKept DEF Download
<1> QED
    BY <1>2, <1>3, <1>4 DEF KInv

LEMMA StartKeeps == KInv /\ Start => KInv'
<1> SUFFICES ASSUME KInv, Start PROVE KInv'
    OBVIOUS
<1> USE DEF clock, table, fetchVars
<1>1. KlineTypeOK'
    BY TimesAndBars DEF KInv, KlineTypeOK, Start
<1>2. Calendar'
    BY DEF KInv, Calendar, LastBar, Start
<1>3. ImportPlace' /\ VipdocPrefix'
    BY DEF KInv, ImportPlace, VipdocPrefix, Complete, There, Start
<1> QED
    BY <1>1, <1>2, <1>3 DEF KInv

LEMMA ClearKeeps == KInv /\ Clear => KInv'
<1> SUFFICES ASSUME KInv, Clear PROVE KInv'
    OBVIOUS
<1> USE DEF clock, table, fetchVars
<1>1. KlineTypeOK'
    BY DEF KInv, KlineTypeOK, Clear, NoRows, Status
<1>2. Calendar'
    BY DEF KInv, Calendar, LastBar, Clear
<1>3. ImportPlace'
    BY DEF KInv, ImportPlace, Clear
<1>4. VipdocPrefix'
  <2> SUFFICES ASSUME ~netWrote', NEW b \in Bars, NEW c \in Bars, b <= c, rows'[c] # "none"
               PROVE  There(b)'
    BY DEF VipdocPrefix, Clear
  <2>1. CASE rows' = NoRows
    BY <2>1 DEF NoRows
  <2>2. CASE /\ rows' = [d \in Bars |-> IF d > (day - 1) * perDay THEN "none" ELSE rows[d]]
             /\ skipped' = {d \in skipped : d <= (day - 1) * perDay}
             /\ UNCHANGED netWrote
    <3>1. ~(c > (day - 1) * perDay) /\ rows[c] # "none"
        BY <2>2
    <3>2. (day - 1) * perDay \in Nat
        BY DEF KInv, KlineTypeOK
    <3>3. b <= (day - 1) * perDay /\ ~(b > (day - 1) * perDay)
        BY <3>1, <3>2, TimesAndBars
    <3>4. There(b)
        BY <2>2, <3>1 DEF KInv, VipdocPrefix
    <3> QED
        BY <2>2, <3>3, <3>4 DEF There
  <2>3. CASE UNCHANGED <<rows, netWrote, skipped>>
    BY <2>3 DEF KInv, VipdocPrefix, There
  <2> QED
    BY <2>1, <2>2, <2>3 DEF Clear
<1> QED
    BY <1>1, <1>2, <1>3, <1>4 DEF KInv

(* The watermark: as long as the network has not written, all that is older   *)
(* than the newest row is in the table or was skipped as damaged.             *)
LEMMA ReadFileKeeps == KInv /\ ReadFile => KInv'
<1> SUFFICES ASSUME KInv, ReadFile PROVE KInv'
    OBVIOUS
<1> USE DEF clock, table, fetchVars
<1>1. PICK last \in LastTimestamp, bad \in SUBSET Fragile : pend' = NewerThan(Stored(bad), last)
    BY DEF ReadFile
<1>2. last \in Times /\ (last = 0 \/ last \in In(rows))
    BY <1>1, TimesAndBars DEF LastTimestamp, Newest
<1>3. Stored(bad) \in [Bars -> Pending]
    BY DEF Stored, Pending, Status
<1>4. KlineTypeOK'
  <2>1. pend' \in [Bars -> Pending]
    BY <1>1, <1>3, NewerThanType
  <2> QED
    BY <2>1 DEF KInv, KlineTypeOK, ReadFile, Pending
<1>5. Calendar'
    BY DEF KInv, Calendar, LastBar, ReadFile
<1>6. \A b \in Bars : pend'[b] # "none" <=> b > last /\ ~(b > disk)
    BY <1>1 DEF NewerThan, Stored
<1>7. ImportPlace'
  <2>1. ASSUME ~netWrote, NEW b \in Bars, b <= disk, ~(b > last) PROVE There(b)
    <3>1. last \in Bars /\ rows[last] # "none" /\ b <= last
        BY <1>2, <2>1, TimesAndBars DEF In, Bars
    <3> QED
        BY <2>1, <3>1 DEF KInv, VipdocPrefix
  <2>2. disk \in Nat
    BY TimesAndBars DEF KInv, KlineTypeOK
  <2>3. \A b \in Bars : There(b)' = There(b)
    BY DEF ReadFile, There
  <2>4. /\ ipc' = "insert" /\ brought' = disk /\ netWrote' = netWrote
        /\ \A b \in Bars : b <= disk <=> ~(b > disk)
    BY <2>2, TimesAndBars DEF ReadFile
  <2>5. \A b \in Bars : pend'[b] # "none" => b <= brought'
    BY <1>6, <2>4
  <2>6. ~netWrote => \A b \in Bars : b <= brought' => There(b)' \/ pend'[b] # "none"
    BY <1>6, <2>1, <2>3, <2>4
  <2> QED
    BY <2>4, <2>5, <2>6 DEF ImportPlace
<1>8. VipdocPrefix'
    BY DEF KInv, VipdocPrefix, ReadFile, There
<1> QED
    BY <1>4, <1>5, <1>7, <1>8 DEF KInv

LEMMA InsertKeeps == KInv /\ InsertKlineBatch => KInv'
<1> SUFFICES ASSUME KInv, InsertKlineBatch PROVE KInv'
    OBVIOUS
<1> USE DEF clock, table, fetchVars
<1>1. Calendar'
    BY DEF KInv, Calendar, LastBar, InsertKlineBatch
<1>2. ASSUME NEW o \in Oldest(pend),
             pend' = [pend EXCEPT ![o] = "none"],
             \/ rows' = [rows EXCEPT ![o] = "final"] /\ skipped' = skipped \ {o}
             \/ skipped' = skipped \cup {o} /\ UNCHANGED rows,
             UNCHANGED <<ipc, brought>>
      PROVE  KInv'
  <2>1. o \in Bars /\ pend[o] # "none" /\ \A c \in Bars : pend[c] # "none" => o <= c
    BY <1>2 DEF Oldest, In
  <2>2. KlineTypeOK'
    BY <1>2, <2>1 DEF KInv, KlineTypeOK, InsertKlineBatch, Status
  <2>3. /\ There(o)'
        /\ \A b \in Bars : There(b) => There(b)'
        /\ \A b \in Bars : b # o => rows'[b] = rows[b] /\ pend'[b] = pend[b]
    BY <1>2, <2>1 DEF KInv, KlineTypeOK, There
  <2>4. ImportPlace'
    <3>1. ipc = "insert" /\ ipc' = "insert" /\ brought' = brought /\ netWrote' = netWrote /\ pend'[o] = "none"
        BY <1>2, <2>1 DEF InsertKlineBatch, KInv, KlineTypeOK
    <3> QED
        BY <2>3, <3>1 DEF KInv, ImportPlace
  <2>5. VipdocPrefix'
    <3> SUFFICES ASSUME ~netWrote, NEW b \in Bars, NEW c \in Bars, b <= c, rows'[c] # "none"
                 PROVE  There(b)'
        BY <1>2 DEF VipdocPrefix, InsertKlineBatch
    <3>1. CASE b = o
        BY <2>3, <3>1
    <3>2. CASE b # o /\ c # o
      <4>1. There(b)
        BY <2>3, <3>2 DEF KInv, VipdocPrefix
      <4> QED
        BY <2>3, <4>1
    <3>3. CASE b # o /\ c = o
      <4>1. ~(o <= b) /\ pend[b] = "none"
        BY <2>1, <3>3, TimesAndBars
      <4>2. o <= brought /\ b <= brought
        BY <2>1, <4>1, TimesAndBars DEF KInv, KlineTypeOK, ImportPlace, InsertKlineBatch
      <4>3. There(b)
        BY <4>1, <4>2 DEF KInv, ImportPlace, InsertKlineBatch
      <4> QED
        BY <2>3, <4>3
    <3> QED
        BY <3>1, <3>2, <3>3
  <2> QED
    BY <1>1, <2>2, <2>4, <2>5 DEF KInv
<1>3. ASSUME brought' = 0, pend' = NoRows, ipc' = "off", UNCHANGED <<rows, skipped>>
      PROVE  KInv'
  <2>1. KlineTypeOK'
    BY <1>3, TimesAndBars DEF KInv, KlineTypeOK, InsertKlineBatch, NoRows, Status
  <2>2. ImportPlace' /\ VipdocPrefix'
    BY <1>3, TimesAndBars DEF KInv, ImportPlace, VipdocPrefix, Complete, There, InsertKlineBatch, Bars
  <2> QED
    BY <1>1, <2>1, <2>2 DEF KInv
<1>4. ASSUME In(pend) = {}, ipc' = "off", UNCHANGED <<rows, skipped, pend, brought>>
      PROVE  KInv'
  <2>1. KlineTypeOK'
    BY <1>4 DEF KInv, KlineTypeOK, InsertKlineBatch
  <2>2. ImportPlace' /\ VipdocPrefix'
    BY <1>4 DEF KInv, ImportPlace, VipdocPrefix, Complete, There, InsertKlineBatch, In
  <2> QED
    BY <1>1, <2>1, <2>2 DEF KInv
<1> QED
    BY <1>2, <1>3, <1>4 DEF InsertKlineBatch, InsertOldest

(* The steps after which the import has brought nothing. *)
LEMMA NoWorkerKeeps == KInv /\ NoWorker => KInv'
<1> SUFFICES ASSUME KInv, NoWorker PROVE KInv'
    OBVIOUS
<1> USE DEF clock, table, fetchVars
<1>1. KlineTypeOK'
    BY DEF KInv, KlineTypeOK, NoWorker
<1>2. Calendar'
    BY DEF KInv, Calendar, LastBar, NoWorker
<1>3. ImportPlace' /\ VipdocPrefix'
    BY TimesAndBars DEF KInv, ImportPlace, VipdocPrefix, Complete, There, NoWorker, Bars
<1> QED
    BY <1>1, <1>2, <1>3 DEF KInv

LEMMA AskNetworkKeeps == KInv /\ AskNetwork => KInv'
<1> SUFFICES ASSUME KInv, AskNetwork PROVE KInv'
    OBVIOUS
<1> USE DEF clock, table, fetchVars
<1>1. pend' \in [Bars -> Status]
    BY QuotedType DEF AskNetwork, NoRows, Status
<1>2. KlineTypeOK'
  <2>1. pend' \in [Bars -> Pending]
    BY <1>1 DEF Pending
  <2> QED
    BY <2>1 DEF KInv, KlineTypeOK, AskNetwork, Pending
<1>3. Calendar'
    BY DEF KInv, Calendar, LastBar, AskNetwork
<1>4. ImportPlace' /\ VipdocPrefix'
    BY <1>1 DEF KInv, ImportPlace, VipdocPrefix, Complete, There, AskNetwork
<1> QED
    BY <1>2, <1>3, <1>4 DEF KInv

LEMMA WriteKlineKeeps == KInv /\ WriteKlineToDB => KInv'
<1> SUFFICES ASSUME KInv, WriteKlineToDB PROVE KInv'
    OBVIOUS
<1> USE DEF clock, table, fetchVars
<1>1. PICK last \in LastTimestamp, w \in SUBSET In(pend) :
        /\ rows' = [b \in Bars |-> IF b \in w /\ b > last THEN pend[b] ELSE rows[b]]
        /\ netWrote' = (netWrote \/ \E b \in w : b > last)
    BY DEF WriteKlineToDB
<1>2. rows' \in [Bars -> Status] /\ netWrote' \in BOOLEAN /\ (~netWrote' => ~netWrote /\ rows' = rows)
  <2>1. \A b \in Bars : pend[b] \in Status
    BY DEF KInv, ImportPlace, WriteKlineToDB
  <2> QED
    BY <1>1, <2>1 DEF KInv, KlineTypeOK
<1>3. KlineTypeOK'
    BY <1>2 DEF KInv, KlineTypeOK, WriteKlineToDB, NoRows, Status
<1>4. Calendar'
    BY DEF KInv, Calendar, LastBar, WriteKlineToDB
<1>5. ImportPlace' /\ VipdocPrefix'
  <2>1. ipc' = "off" /\ brought' = 0
    BY DEF KInv, ImportPlace, WriteKlineToDB
  <2>2. Complete'
    BY <2>1, TimesAndBars DEF Complete, Bars
  <2>3. VipdocPrefix'
    BY <1>2, <2>2 DEF KInv, VipdocPrefix, There, WriteKlineToDB
  <2> QED
    BY <2>1, <2>3 DEF ImportPlace
<1> QED
    BY <1>3, <1>4, <1>5 DEF KInv

LEMMA CrashKeeps == KInv /\ CrashImport => KInv'
<1> SUFFICES ASSUME KInv, CrashImport PROVE KInv'
    OBVIOUS
<1> USE DEF clock, table, fetchVars
<1>1. KlineTypeOK'
    BY TimesAndBars DEF KInv, KlineTypeOK, CrashImport, NoRows, Status
<1>2. Calendar'
    BY DEF KInv, Calendar, LastBar, CrashImport
<1>3. ImportPlace' /\ VipdocPrefix'
    BY TimesAndBars DEF KInv, ImportPlace, VipdocPrefix, Complete, There, CrashImport, Bars
<1> QED
    BY <1>1, <1>2, <1>3 DEF KInv

-----------------------------------------------------------------------------
LEMMA FetchSideKeeps == KInv /\ (StartLoop \/ Fetch \/ StopLoop) => KInv'
<1> SUFFICES ASSUME KInv, StartLoop \/ Fetch \/ StopLoop PROVE KInv'
    OBVIOUS
<1> USE DEF clock, table, importVars
<1>1. KlineTypeOK'
  <2>1. CASE StartLoop
    BY <2>1 DEF KInv, KlineTypeOK, StartLoop
  <2>2. CASE Fetch
    <3>1. asked' \in [Bars -> Status]
        BY <2>2, QuotedType DEF Fetch, NoRows, Status
    <3> QED
        BY <2>2, <3>1 DEF KInv, KlineTypeOK, Fetch
  <2>3. CASE StopLoop
    BY <2>3, TimesAndBars, KlineAssumption DEF KInv, KlineTypeOK, StopLoop, LoopOver, NoRows, Status
  <2> QED
    BY <2>1, <2>2, <2>3
<1>2. Calendar'
    BY DEF KInv, Calendar, LastBar, StartLoop, Fetch, StopLoop
<1>3. ImportPlace' /\ VipdocPrefix'
    BY TableKept DEF StartLoop, Fetch, StopLoop
<1> QED
    BY <1>1, <1>2, <1>3 DEF KInv

LEMMA EndRoundKeeps == KInv /\ EndRound => KInv'
<1> SUFFICES ASSUME KInv, EndRound PROVE KInv'
    OBVIOUS
<1> USE DEF clock, table, importVars
<1>1. PICK w \in SUBSET In(asked) :
        /\ rows' = [b \in Bars |-> IF b \in w THEN asked[b] ELSE rows[b]]
        /\ netWrote' = (netWrote \/ w # {})
    BY DEF EndRound, Write
<1>2. /\ rows' \in [Bars -> Status] /\ netWrote' \in BOOLEAN
      /\ (~netWrote' => ~netWrote /\ rows' = rows)
    BY <1>1 DEF KInv, KlineTypeOK
<1>3. /\ fpc' \in {"off", "fetch", "write"} /\ since' \in 1 .. MaxBars
      /\ asked' \in [Bars -> Status] /\ lastMax' \in Times /\ idle' \in 0 .. 3
  <2>1. CASE LoopOver
    BY <2>1, TimesAndBars, KlineAssumption DEF LoopOver, NoRows, Status
  <2>2. ASSUME NEW newest \in Newest(asked),
               fpc' = "fetch",
               idle' = IF newest > lastMax THEN 0 ELSE IF idle < 3 THEN idle + 1 ELSE 3,
               lastMax' = newest, asked' = NoRows, UNCHANGED since
        PROVE  <1>3
    <3>1. idle' \in 0 .. 3
        BY <2>2 DEF KInv, KlineTypeOK
    <3>2. lastMax' \in Times
        BY <2>2 DEF Newest
    <3> QED
        BY <2>2, <3>1, <3>2 DEF KInv, KlineTypeOK, NoRows, Status
  <2> QED
    BY <2>1, <2>2 DEF EndRound, Judge
<1>4. KlineTypeOK'
    BY <1>2, <1>3 DEF KInv, KlineTypeOK, EndRound
<1>5. Calendar'
    BY DEF KInv, Calendar, LastBar, EndRound
<1>6. ImportPlace' /\ VipdocPrefix'
    BY <1>2 DEF KInv, ImportPlace, VipdocPrefix, Complete, There, EndRound
<1> QED
    BY <1>4, <1>5, <1>6 DEF KInv

LEMMA NextKeeps == KInv /\ [KlineNext]_klineVars => KInv'
<1> SUFFICES ASSUME KInv, [KlineNext]_klineVars PROVE KInv'
    OBVIOUS
<1>1. CASE UNCHANGED klineVars
    BY <1>1 DEF klineVars, clock, table, importVars, fetchVars, KInv, KlineTypeOK, Calendar, LastBar,
                ImportPlace, VipdocPrefix, Complete, There
<1>2. CASE BarOpens \/ BarCloses \/ NewDay \/ Download
    BY <1>2, BarOpensKeeps, BarClosesKeeps, NewDayKeeps, DownloadKeeps
<1>3. CASE Import
    BY <1>3, StartKeeps, ClearKeeps, ReadFileKeeps, InsertKeeps, NoWorkerKeeps, AskNetworkKeeps,
       WriteKlineKeeps DEF Import
<1>4. CASE CrashImport \/ StartLoop \/ Loop \/ StopLoop
    BY <1>4, CrashKeeps, FetchSideKeeps, EndRoundKeeps DEF Loop
<1> QED
    BY <1>1, <1>2, <1>3, <1>4 DEF KlineNext

LEMMA KlineInvariant == KlineSpec => []KInv
<1>1. KlineInit => KInv
    BY InitInv
<1>2. KInv /\ [KlineNext]_klineVars => KInv'
    BY NextKeeps
<1> QED
    BY <1>1, <1>2, PTL DEF KlineSpec

(* The variables of the market, the table and its two writers keep their      *)
(* types: in particular no vipdoc file is longer than the market's days.      *)
THEOREM KlineType == KlineSpec => []KlineTypeOK
<1>1. KInv => KlineTypeOK
    BY DEF KInv
<1> QED
    BY <1>1, KlineInvariant, PTL

(* DoImportTaos without the network: its watermark never passes over a bar    *)
(* that was not damaged in the file it was read from.                         *)
THEOREM KlineHistory == KlineSpec => []VipdocPrefix
<1>1. KInv => VipdocPrefix
    BY DEF KInv
<1> QED
    BY <1>1, KlineInvariant, PTL
=============================================================================
