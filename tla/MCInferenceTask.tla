--------------------------- MODULE MCInferenceTask ---------------------------
EXTENDS InferenceTask
CONSTANTS t1, t2
=============================================================================
