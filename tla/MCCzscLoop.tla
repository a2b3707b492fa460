----------------------------- MODULE MCCzscLoop -----------------------------
EXTENDS CzscLoop
=============================================================================
