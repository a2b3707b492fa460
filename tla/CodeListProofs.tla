---------------------------- MODULE CodeListProofs ----------------------------
(* Proofs for CodeList, for any codes and filters. *)
EXTENDS CodeList, TLAPS

(* What an import passes from step to step: the list on its way into          *)
(* stock_name, and, unless the list holds rows of an earlier import, only     *)
(* codes that its own filter accepts, which its workers therefore keep.       *)
ListPlace ==
    /\ listed \subseteq names \cup tmp
    /\ pc = "connect" => listed = {}
    /\ pc \in {"drop", "copy"} => listed \subseteq tmp /\ listed \subseteq Accepted
    /\ pc \in {"connect", "drop"} => old
    /\ ~old /\ pc = "copy" => tmp \subseteq Accepted
    /\ ~old /\ pc \in {"copy", "read"} => names \subseteq Accepted
    /\ ~old /\ pc \in {"clear", "work"} => todo \subseteq Accepted

LInv == ListTypeOK /\ ListPlace

LEMMA AcceptedStocks == Accepted \subseteq AStocks /\ AStocks \subseteq Codes
BY CodesAssumption DEF Accepted

LEMMA ListInitInv == ListInit => LInv
BY CodesAssumption DEF ListInit, LInv, ListTypeOK, ListPlace

LEMMA ListNextInv == LInv /\ [ListNext]_listVars => LInv'
<1> SUFFICES ASSUME LInv, [ListNext]_listVars PROVE LInv'
    OBVIOUS
<1> USE DEF LInv
<1>1. CASE Begin
    BY <1>1 DEF Begin, ListTypeOK, ListPlace
<1>2. CASE Offline
    BY <1>2 DEF Offline, ListTypeOK, ListPlace
<1>3. CASE Pages
  <2>1. PICK came \in SUBSET Accepted : cut' = (came # Accepted) /\ listed' \in SUBSET came
    BY <1>3 DEF Pages
  <2>2. ListTypeOK'
    BY <1>3, <2>1, AcceptedStocks DEF Pages, ListTypeOK
  <2>3. Accepted' = Accepted
    BY <1>3 DEF Pages, Accepted
  <2>4. ListPlace'
    BY <1>3, <2>1, <2>3 DEF Pages, ListPlace
  <2> QED
    BY <2>2, <2>4
<1>4. CASE DropNames
  <2>1. ListTypeOK'
    BY <1>4 DEF DropNames, ListTypeOK
  <2>2. Accepted' = Accepted
    BY <1>4 DEF DropNames, Accepted
  <2>3. ListPlace'
    BY <1>4, <2>2 DEF DropNames, ListPlace
  <2> QED
    BY <2>1, <2>3
<1>5. CASE CopyNames
  <2>1. ListTypeOK'
    BY <1>5 DEF CopyNames, ListTypeOK
  <2>2. Accepted' = Accepted
    BY <1>5 DEF CopyNames, Accepted
  <2>3. ListPlace'
    BY <1>5, <2>2 DEF CopyNames, ListPlace
  <2> QED
    BY <2>1, <2>3
<1>6. CASE ReadNames
  <2>1. ListTypeOK'
    BY <1>6 DEF ReadNames, ListTypeOK
  <2>2. Accepted' = Accepted
    BY <1>6 DEF ReadNames, Accepted
  <2>3. ListPlace'
    BY <1>6, <2>2 DEF ReadNames, ListPlace
  <2> QED
    BY <2>1, <2>3
<1>7. ASSUME NEW c \in Codes, Work(c) PROVE LInv'
  <2>1. ListTypeOK'
    BY <1>7 DEF Work, ListTypeOK
  <2>2. Accepted' = Accepted
    BY <1>7 DEF Work, Accepted
  <2>3. ListPlace'
    BY <1>7, <2>2 DEF Work, ListPlace
  <2> QED
    BY <2>1, <2>3
<1>8. CASE DropKlineTables
  <2>1. ListTypeOK'
    BY <1>8 DEF DropKlineTables, ListTypeOK
  <2>2. Accepted' = Accepted
    BY <1>8 DEF DropKlineTables, Accepted
  <2>3. ListPlace'
    BY <1>8, <2>2 DEF DropKlineTables, ListPlace
  <2> QED
    BY <2>1, <2>3
<1>9. CASE CleanupStaleCodes
    BY <1>9 DEF CleanupStaleCodes, ListTypeOK, ListPlace
<1>10. CASE CrashImport
    BY <1>10 DEF CrashImport, ListTypeOK, ListPlace
<1>11. CASE UNCHANGED listVars
    BY <1>11 DEF listVars, ListTypeOK, ListPlace, Accepted
<1> QED
    BY <1>1, <1>2, <1>3, <1>4, <1>5, <1>6, <1>7, <1>8, <1>9, <1>10, <1>11 DEF ListNext

LEMMA ListInvariant == ListSpec => []LInv
BY ListInitInv, ListNextInv, PTL DEF ListSpec

(* The two lists never hold a code that IsAStock refuses. *)
THEOREM ListType == ListSpec => []ListTypeOK
<1>1. LInv => ListTypeOK
    BY DEF LInv
<1> QED
    BY <1>1, ListInvariant, PTL

(* SyncStockNames: the list the server sent is never lost between the tables. *)
THEOREM ListKept == ListSpec => []ListSurvives
<1>1. LInv => ListSurvives
    BY DEF LInv, ListPlace, ListSurvives
<1> QED
    BY <1>1, ListInvariant, PTL

(* Workers and CleanupStaleCodes: an import that works on its own list drops  *)
(* no table of an A share, but for those --full-reset was asked to drop.      *)
THEOREM HistorySurvives == ListSpec => HistoryKept
<1> DEFINE Dropped == tables \ tables' \subseteq Asked \cup (IF old THEN Codes ELSE Codes \ AStocks)
<1>1. LInv /\ [ListNext]_listVars => [Dropped]_listVars
  <2> SUFFICES ASSUME LInv, ListNext PROVE Dropped
    OBVIOUS
  <2>1. tables \subseteq Codes
    BY DEF LInv, ListTypeOK
  <2>2. CASE UNCHANGED tables
    BY <2>2
  <2>3. ASSUME NEW c \in Codes, Work(c) PROVE Dropped
    <3>1. c \in Accepted => Dropped
        BY <2>3 DEF Work
    <3>2. ~old => c \in Accepted
        BY <2>3 DEF LInv, ListPlace, Work
    <3>3. old => Dropped
        BY <2>1
    <3> QED
        BY <3>1, <3>2, <3>3
  <2>4. CASE DropKlineTables
    BY <2>4 DEF DropKlineTables, Asked
  <2>5. CASE CleanupStaleCodes
    BY <2>1, <2>5 DEF CleanupStaleCodes, Stale
  <2> QED
    BY <2>2, <2>3, <2>4, <2>5
       DEF ListNext, Begin, Offline, Pages, DropNames, CopyNames, ReadNames, CrashImport
<1> QED
    BY <1>1, ListInvariant, PTL DEF ListSpec, HistoryKept
=============================================================================
