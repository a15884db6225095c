------------------------------ MODULE MCDevTask ------------------------------
EXTENDS DevTask
CONSTANTS t1, t2
OneFramework == [t \in Tasks |-> "jupyter"]
TwoFrameworks == [t \in Tasks |-> IF t = t1 THEN "jupyter" ELSE "codeserver"]

\* The bound of the run with two tasks: nothing is deleted, no pod succeeds.
Busy == \A t \in Tasks : ~task[t].del /\ pods[t] # "succeeded"
=============================================================================
