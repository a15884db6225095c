--------------------------- MODULE MCFineTuneTask ---------------------------
EXTENDS FineTuneTask
CONSTANTS t1
=============================================================================
