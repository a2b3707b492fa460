----------------------------- MODULE KlineImport -----------------------------
(* The kline table of one code, market and cycle, and the two programs that   *)
(* write it: `tdx import' (DoImportTaos in src/src/taos/taos_import.cpp)      *)
(* clears what it was asked to clear and brings the bars of the vipdoc disk,  *)
(* or of the network when there is no file; `tdx fetch-kline' (DoFetchKline   *)
(* in src/src/cli/main.cpp) rewrites the bars of the day round after round    *)
(* until the market has closed.  There is at most one of each.  Bars are      *)
(* numbered from the first bar of the first day, perDay of them a day (the    *)
(* daily cycle has one); a timestamp is the number of its bar, 0 none.        *)
EXTENDS Naturals

CONSTANTS
    MaxBars,   \* bars the model runs for
    MaxPerDay, \* largest number of bars of a day
    Page,      \* bars of a network answer (800)
    Fragile    \* bars whose rows in a vipdoc file may be damaged

ASSUME KlineAssumption == MaxBars \in Nat \ {0} /\ MaxPerDay \in Nat \ {0} /\ Page \in Nat \ {0}

Bars == 1 .. MaxBars
Times == 0 .. MaxBars
Status == {"none", "forming", "final"}

VARIABLES
    perDay,    \* bars of a day (never changes)
    day,       \* today
    now,       \* bars begun
    forming,   \* bar `now' is not over
    disk,      \* bars of the vipdoc file, whole days; 0: no file
    rows,      \* the table: [bars -> Status]
    netWrote,  \* the network has written rows since the table was last dropped
    skipped,   \* history: bars left out of the table because they were damaged
    ipc,       \* where the import is
    option,    \* what it clears: "none", "today" (the default), "reset"
    pend,      \* rows it has still to insert
    brought,   \* history: bars of the file it read, 0 once a step of it failed
    fpc,       \* where fetch-kline is
    since,     \* the day it was started: it keeps no older bar
    asked,     \* the rows of its round
    lastMax,   \* newest bar of the round before
    idle       \* rounds without a new bar, up to 3

clock == <<perDay, day, now, forming>>
importVars == <<ipc, option, pend, brought>>
fetchVars == <<fpc, since, asked, lastMax, idle>>
table == <<rows, netWrote, skipped>>
klineVars == <<clock, disk, table, importVars, fetchVars>>

NoRows == [b \in Bars |-> "none"]
In(r) == {b \in Bars : r[b] # "none"}
(* The newest bar of r, as a set of one; 0 when r has none. *)
Newest(r) == {t \in Times : (t = 0 \/ t \in In(r)) /\ \A c \in In(r) : c <= t}
Oldest(r) == {b \in In(r) : \A c \in In(r) : b <= c}
LastBar == day * perDay
Closed == now = LastBar /\ ~forming

KlineInit ==
    /\ perDay \in 1 .. MaxPerDay /\ day = 1 /\ now = 0 /\ forming = FALSE
    /\ disk = 0
    /\ rows = NoRows /\ netWrote = FALSE /\ skipped = {}
    /\ ipc = "off" /\ option = "none" /\ pend = NoRows /\ brought = 0
    /\ fpc = "off" /\ since = 1 /\ asked = NoRows /\ lastMax = 0 /\ idle = 0

-----------------------------------------------------------------------------
(* The market, and the user who downloads vipdoc files.                       *)
BarOpens ==
    /\ ~forming /\ now < LastBar /\ now < MaxBars
    /\ now' = now + 1 /\ forming' = TRUE
    /\ UNCHANGED <<perDay, day, disk, table, importVars, fetchVars>>

BarCloses ==
    /\ forming
    /\ forming' = FALSE
    /\ UNCHANGED <<perDay, day, now, disk, table, importVars, fetchVars>>

NewDay ==
    /\ Closed /\ now < MaxBars
    /\ day' = day + 1
    /\ UNCHANGED <<perDay, now, forming, disk, table, importVars, fetchVars>>

Download ==
    /\ disk' = IF Closed THEN LastBar ELSE (day - 1) * perDay
    /\ disk' # disk
    /\ UNCHANGED <<clock, table, importVars, fetchVars>>

(* What a quote server answers now about the bars of B. *)
Quoted(B) ==
    [b \in Bars |-> IF b \notin B THEN "none"
                    ELSE IF b = now /\ forming THEN "forming" ELSE "final"]

-----------------------------------------------------------------------------
(* tdx import, for a code that is in the code list.                           *)
Start ==
    /\ ipc = "off"
    /\ option' \in {"none", "today", "reset"}
    /\ brought' = 0 /\ ipc' = "clear"
    /\ UNCHANGED <<clock, disk, table, pend, fetchVars>>

(* Step 0: ClearTodayIntraday or DropKlineTables; a failure is passed over. *)
Clear ==
    /\ ipc = "clear"
    /\ \/ /\ option = "today"
          /\ rows' = [b \in Bars |-> IF b > (day - 1) * perDay THEN "none" ELSE rows[b]]
          /\ skipped' = {b \in skipped : b <= (day - 1) * perDay}
          /\ UNCHANGED netWrote
       \/ option = "reset" /\ rows' = NoRows /\ netWrote' = FALSE /\ skipped' = {}
       \/ UNCHANGED table
    /\ option' = "none" /\ ipc' = "local"
    /\ UNCHANGED <<clock, disk, pend, brought, fetchVars>>

(* LastTimestamp: 0 for no row, no table, and a query that fails. *)
LastTimestamp == Newest(rows) \cup {0}
NewerThan(r, last) == [b \in Bars |-> IF b > last THEN r[b] ELSE "none"]

(* The file of today, whose rows of the bars in bad are damaged. *)
Stored(bad) ==
    [b \in Bars |-> IF b > disk THEN "none" ELSE IF b \in bad THEN "damaged" ELSE "final"]

(* ImportKlineRaw: the bars of the file above the newest row.  Any rows of it *)
(* may be damaged, and another download may have repaired them by now.        *)
ReadFile ==
    /\ ipc = "local" /\ disk > 0
    /\ \E last \in LastTimestamp, bad \in SUBSET Fragile :
        pend' = NewerThan(Stored(bad), last)
    /\ brought' = disk
    /\ ipc' = "insert"
    /\ UNCHANGED <<clock, disk, table, option, fetchVars>>

(* The oldest bar to insert becomes a row; a damaged one is skipped. *)
InsertOldest ==
    \E b \in Oldest(pend) :
        /\ pend' = [pend EXCEPT ![b] = "none"]
        /\ \/ /\ pend[b] # "damaged"
              /\ rows' = [rows EXCEPT ![b] = "final"] /\ skipped' = skipped \ {b}
           \/ /\ pend[b] = "damaged"
              /\ skipped' = skipped \cup {b} /\ UNCHANGED rows

StatementFails == \E b \in Oldest(pend) : pend[b] # "damaged"

(* Mutant of InsertKlineBatch: a batch that fails does not stop the others. *)
InsertPassesOver ==
    /\ ipc = "insert"
    /\ \/ InsertOldest /\ UNCHANGED <<ipc, brought>>
       \/ /\ StatementFails
          /\ \E b \in Oldest(pend) : pend' = [pend EXCEPT ![b] = "none"]
          /\ brought' = 0
          /\ UNCHANGED <<rows, skipped, ipc>>
       \/ In(pend) = {} /\ ipc' = "off" /\ UNCHANGED <<rows, skipped, pend, brought>>
    /\ UNCHANGED <<clock, disk, netWrote, option, fetchVars>>

(* InsertKlineBatch, oldest bars first: a row with NaN, Inf or a date out of  *)
(* range is passed over, a statement that fails ends it.  (The batches of     *)
(* 1000 bars are of one bar here.)                                            *)
InsertKlineBatch ==
    /\ ipc = "insert"
    /\ \/ InsertOldest /\ UNCHANGED <<ipc, brought>>
       \/ /\ StatementFails
          /\ brought' = 0 /\ pend' = NoRows /\ ipc' = "off"
          /\ UNCHANGED <<rows, skipped>>
       \/ In(pend) = {} /\ ipc' = "off" /\ UNCHANGED <<rows, skipped, pend, brought>>
    /\ UNCHANGED <<clock, disk, netWrote, option, fetchVars>>

(* A worker that cannot connect leaves its codes alone, and one that finds    *)
(* the daily file but not this cycle's asks nobody for it; a code without a   *)
(* daily file is asked from the network, in one page of its newest bars.      *)
NoWorker ==
    /\ ipc = "local"
    /\ ipc' = "off"
    /\ UNCHANGED <<clock, disk, table, option, pend, brought, fetchVars>>

AskNetwork ==
    /\ ipc = "local" /\ disk = 0
    /\ pend' \in {NoRows, Quoted({b \in Bars : b <= now /\ b + Page > now})}
    /\ ipc' = "net"
    /\ UNCHANGED <<clock, disk, table, option, brought, fetchVars>>

(* WriteKlineToDB: the page fits one statement, which succeeds or fails, and  *)
(* InsertKlineBatch leaves damaged rows out of it, too.                       *)
WriteKlineToDB ==
    /\ ipc = "net"
    /\ \E last \in LastTimestamp, w \in SUBSET In(pend) :
        /\ rows' = [b \in Bars |-> IF b \in w /\ b > last THEN pend[b] ELSE rows[b]]
        /\ netWrote' = (netWrote \/ \E b \in w : b > last)
    /\ pend' = NoRows /\ ipc' = "off"
    /\ UNCHANGED <<clock, disk, skipped, option, brought, fetchVars>>

(* The import is killed. *)
CrashImport ==
    /\ ipc # "off"
    /\ ipc' = "off" /\ option' = "none" /\ pend' = NoRows /\ brought' = 0
    /\ UNCHANGED <<clock, disk, table, fetchVars>>

-----------------------------------------------------------------------------
(* tdx fetch-kline *)
StartLoop ==
    /\ fpc = "off"
    /\ fpc' = "fetch" /\ since' = day
    /\ UNCHANGED <<clock, disk, table, importVars, asked, lastMax, idle>>

(* Bars answers nothing when the server does not, and only the bars from      *)
(* today_midnight_epoch on, which was taken at the start, are kept.           *)
Fetch ==
    /\ fpc = "fetch"
    /\ asked' \in {NoRows, Quoted({b \in 1 .. now : b > (since - 1) * perDay})}
    /\ fpc' = "write"
    /\ UNCHANGED <<clock, disk, table, importVars, since, lastMax, idle>>

(* A statement that fails is printed, a damaged row left out; their bars      *)
(* count all the same.                                                        *)
Write ==
    \E w \in SUBSET In(asked) :
        /\ rows' = [b \in Bars |-> IF b \in w THEN asked[b] ELSE rows[b]]
        /\ netWrote' = (netWrote \/ w # {})

LoopOver ==
    fpc' = "off" /\ since' = 1 /\ asked' = NoRows /\ lastMax' = 0 /\ idle' = 0

(* The end of a round; three rounds without a new bar end the loop if the     *)
(* market is closed by now, whenever they were.                               *)
Judge(last) ==
    \E newest \in Newest(asked) :
        LET n == IF newest > last THEN 0 ELSE IF idle < 3 THEN idle + 1 ELSE 3
        IN  IF newest <= last /\ Closed /\ n = 3 THEN LoopOver
            ELSE /\ fpc' = "fetch" /\ idle' = n
                 /\ lastMax' = newest /\ asked' = NoRows
                 /\ UNCHANGED since

(* Mutant of EndRound: a round is compared with the start, not with the last. *)
EndRoundFirst ==
    fpc = "write" /\ Write /\ Judge(0) /\ UNCHANGED <<clock, disk, skipped, importVars>>

EndRound ==
    fpc = "write" /\ Write /\ Judge(lastMax)
    /\ UNCHANGED <<clock, disk, skipped, importVars>>

(* A signal lets the round go on to its end; a kill does not. *)
StopLoop ==
    /\ fpc # "off"
    /\ LoopOver
    /\ UNCHANGED <<clock, disk, table, importVars>>

Import ==
    \/ Start \/ Clear \/ ReadFile \/ InsertKlineBatch
    \/ NoWorker \/ AskNetwork \/ WriteKlineToDB
Loop == Fetch \/ EndRound

KlineNext ==
    \/ BarOpens \/ BarCloses \/ NewDay \/ Download
    \/ Import \/ CrashImport \/ StartLoop \/ Loop \/ StopLoop
KlineSpec == KlineInit /\ [][KlineNext]_klineVars /\ WF_klineVars(Loop)

-----------------------------------------------------------------------------
(* Types of table and programs; idle stops at the third round without a bar. *)
KlineTypeOK ==
    /\ perDay \in 1 .. MaxPerDay /\ day \in 1 .. MaxBars /\ now \in Times
    /\ forming \in BOOLEAN /\ disk \in Times
    /\ rows \in [Bars -> Status] /\ netWrote \in BOOLEAN /\ skipped \subseteq Bars
    /\ ipc \in {"off", "clear", "local", "insert", "net"}
    /\ option \in {"none", "today", "reset"}
    /\ pend \in [Bars -> Status \cup {"damaged"}] /\ brought \in Times
    /\ fpc \in {"off", "fetch", "write"} /\ since \in 1 .. MaxBars
    /\ asked \in [Bars -> Status] /\ lastMax \in Times /\ idle \in 0 .. 3

(* The watermark as long as only vipdoc files feed the table, or since        *)
(* --full-reset emptied it: of what is older than the newest row, only bars   *)
(* whose row in the file was damaged when it was read are missing, and those  *)
(* a repaired file does not bring any more.  Batches that fail, imports that  *)
(* are killed, days that are cleared and the imports that take over from      *)
(* there leave no other hole, and after an import of which no statement       *)
(* failed every bar of the file it read is there, but for those.              *)
There(b) == rows[b] = "final" \/ b \in skipped
Complete == \A b \in Bars : b <= brought => There(b)
VipdocPrefix ==
    ~netWrote =>
        /\ \A b, c \in Bars : b <= c /\ rows[c] # "none" => There(b)
        /\ ipc = "off" => Complete

(* fetch-kline ends once the market stays closed, if from some time on its    *)
(* server answers every round, or none.                                       *)
Answered == fpc = "write" => asked # NoRows
Unanswered == fpc = "write" => asked = NoRows
LoopEnds == <>[]Closed /\ (<>[]Answered \/ <>[]Unanswered) => []<>(fpc = "off")
=============================================================================
