---------------------------- MODULE MCKlineImport ----------------------------
EXTENDS KlineImport
=============================================================================
