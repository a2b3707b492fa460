------------------------------ MODULE MCCodeList ------------------------------
(* Two stocks, an ETF and a bond.  The stocks are alike.                      *)
EXTENDS CodeList, TLC
Alike == Permutations(Targets)
=============================================================================
