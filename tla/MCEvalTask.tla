----------------------------- MODULE MCEvalTask -----------------------------
EXTENDS EvalTask
CONSTANTS t1
=============================================================================
