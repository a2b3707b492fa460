------------------------------- MODULE CodeList -------------------------------
(* The code list of `tdx import' and the kline tables that depend on it       *)
(* (src/src/taos/taos_import.cpp): SyncStockNames writes what the server      *)
(* lists to stock_name_tmp and replaces stock_name by it; DoImportTaos then   *)
(* imports codes of stock_name, with --full-reset after it has dropped their  *)
(* tables, and its workers drop the tables of those that the filter refuses;  *)
(* CleanupStaleCodes drops those of stale codes.  A code is a pair of code    *)
(* and market; its tables, of three periods, are one here, and gone when a    *)
(* part of them is.  The rows of a table are KlineImport's.                   *)

CONSTANTS
    Codes,     \* what the server lists
    AStocks,   \* those IsAStock accepts
    Targets    \* those IsKronosTarget accepts: no ETF, no sector index

ASSUME CodesAssumption == Targets \subseteq AStocks /\ AStocks \subseteq Codes

VARIABLES
    names,     \* the codes of stock_name, none when there is no such table
    tmp,       \* stock_name_tmp, likewise
    tables,    \* the codes that have kline tables
    pc,        \* where the import is
    kronos,    \* its option --kronos
    todo,      \* codes its workers have still to go through
    cut,       \* history: this import lost a part of the list to the network
    listed,    \* history: the codes the last import wrote to stock_name_tmp
    old        \* history: the list it works on has rows of an earlier import

listVars == <<names, tmp, tables, pc, kronos, todo, cut, listed, old>>

Accepted == IF kronos THEN Targets ELSE AStocks

ListInit ==
    /\ names \in {{}, AStocks, Targets} /\ tmp = {} /\ tables \in SUBSET Codes
    /\ pc = "off" /\ kronos = FALSE /\ todo = {}
    /\ cut = FALSE /\ listed = {} /\ old = TRUE

-----------------------------------------------------------------------------
(* SyncStockNames.  A statement that fails is printed and passed over. *)
Begin ==
    /\ pc = "off"
    /\ kronos' \in BOOLEAN
    /\ tmp' \in {{}, tmp}
    /\ cut' = FALSE /\ listed' = {} /\ old' = TRUE /\ pc' = "connect"
    /\ UNCHANGED <<names, tables, todo>>

(* No server: the list of an earlier import serves, when there is one. *)
Offline ==
    /\ pc = "connect"
    /\ tmp' \in {{}, tmp}
    /\ cut' = TRUE /\ pc' = "read"
    /\ UNCHANGED <<names, tables, kronos, todo, listed, old>>

(* A page that does not arrive is like an empty one, and one that is not      *)
(* inserted goes unnoticed.                                                   *)
Pages ==
    /\ pc = "connect"
    /\ \E came \in SUBSET Accepted :
        /\ cut' = (came # Accepted)
        /\ listed' \in SUBSET came
    /\ tmp' = tmp \cup listed'
    /\ pc' = "drop"
    /\ UNCHANGED <<names, tables, kronos, todo, old>>

DropNames ==
    /\ pc = "drop"
    /\ \/ names' = {} /\ old' = (tmp # listed)
       \/ UNCHANGED <<names, old>>
    /\ pc' = "copy"
    /\ UNCHANGED <<tmp, tables, kronos, todo, cut, listed>>

(* Mutant of CopyNames: the new list is dropped when its copy failed, too. *)
CopyNamesDrops ==
    /\ pc = "copy"
    /\ names' \in {names \cup tmp, names}
    /\ tmp' = {}
    /\ pc' = "read"
    /\ UNCHANGED <<tables, kronos, todo, cut, listed, old>>

(* stock_name is created, and filled from the new list, which is dropped      *)
(* unless that fails.                                                         *)
CopyNames ==
    /\ pc = "copy"
    /\ \/ names' = names \cup tmp /\ tmp' \in {{}, tmp}
       \/ UNCHANGED <<names, tmp>>
    /\ pc' = "read"
    /\ UNCHANGED <<tables, kronos, todo, cut, listed, old>>

-----------------------------------------------------------------------------
(* The import takes all codes of stock_name or those the user named; it ends  *)
(* when there are none, and when the list cannot be read.  --full-reset has   *)
(* it drop the tables of these codes first.                                   *)
ReadNames ==
    /\ pc = "read"
    /\ todo' \in SUBSET names
    /\ pc' \in IF todo' = {} THEN {"off"} ELSE {"clear", "work"}
    /\ UNCHANGED <<names, tmp, tables, kronos, cut, listed, old>>

(* Step 0: a DROP that fails is printed and passed over, and whoever is       *)
(* killed in between has dropped some.                                        *)
DropKlineTables ==
    /\ pc = "clear"
    /\ \E gone \in SUBSET todo : tables' = tables \ gone
    /\ pc' = "work"
    /\ UNCHANGED <<names, tmp, kronos, todo, cut, listed, old>>

(* KlineWorker::Run: the tables of a code the filter refuses are dropped; the *)
(* others' come into being with their first bar, of the file or the network.  *)
Work(c) ==
    /\ pc = "work" /\ c \in todo
    /\ \/ c \notin Accepted /\ tables' = tables \ {c}
       \/ c \in Accepted /\ tables' = tables \cup {c}
       \/ UNCHANGED tables
    /\ todo' = todo \ {c}
    /\ pc' = IF todo' = {} THEN "clean" ELSE "work"
    /\ UNCHANGED <<names, tmp, kronos, cut, listed, old>>

(* Mutant of Stale: every code that is not in the list. *)
StaleUnlisted(valid) == tables \ valid

Stale(valid) == (tables \ valid) \ AStocks

(* CleanupStaleCodes: nothing is stale while the list is empty or cannot be   *)
(* read.                                                                      *)
CleanupStaleCodes ==
    /\ pc = "clean"
    /\ \/ names # {} /\ \E s \in SUBSET Stale(names) : tables' = tables \ s
       \/ UNCHANGED tables
    /\ pc' = "off"
    /\ UNCHANGED <<names, tmp, kronos, todo, cut, listed, old>>

CrashImport ==
    /\ pc # "off"
    /\ pc' = "off" /\ todo' = {}
    /\ UNCHANGED <<names, tmp, tables, kronos, cut, listed, old>>

ListNext ==
    \/ Begin \/ Offline \/ Pages \/ DropNames \/ CopyNames \/ ReadNames \/ DropKlineTables
    \/ \E c \in Codes : Work(c)
    \/ CleanupStaleCodes \/ CrashImport
ListSpec == ListInit /\ [][ListNext]_listVars

-----------------------------------------------------------------------------
(* Types, and that only codes IsAStock accepts are ever listed. *)
ListTypeOK ==
    /\ names \subseteq AStocks /\ tmp \subseteq AStocks
    /\ tables \subseteq Codes /\ todo \subseteq AStocks /\ listed \subseteq AStocks
    /\ pc \in {"off", "connect", "drop", "copy", "read", "clear", "work", "clean"}
    /\ kronos \in BOOLEAN /\ cut \in BOOLEAN /\ old \in BOOLEAN

(* The new list survives its way into stock_name: each code an import wrote   *)
(* to stock_name_tmp is in one of the two tables until the next import        *)
(* begins, whatever statement fails and wherever the import is killed.        *)
ListSurvives == listed \subseteq names \cup tmp

(* An import drops the tables of an A share only when --full-reset was asked  *)
(* to drop just these, or when it works on the list of an earlier import: a   *)
(* list that misses codes, because the server did not name them or --kronos   *)
(* left them out, costs nobody their history.                                 *)
Asked == IF pc = "clear" THEN todo ELSE {}
HistoryKept ==
    [][tables \ tables' \subseteq Asked \cup (IF old THEN Codes ELSE Codes \ AStocks)]_listVars

(* "网络成功则原子替换，失败则清临时表保留旧 stock_name" (taos_import.cpp:620: *)
(* if the network succeeds replace atomically, if it fails keep the old       *)
(* stock_name).                                                               *)
OldListKept == [][cut => names \subseteq names']_listVars
=============================================================================
