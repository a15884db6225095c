---------------------------- MODULE MCTaskClient ----------------------------
EXTENDS TaskClient

\* One timeout is a multiple of its interval, one is not, and one is shorter.
FewWaits ==
    {[interval |-> 2, timeout |-> 4], [interval |-> 2, timeout |-> 5],
     [interval |-> 2, timeout |-> 1]}
=============================================================================
