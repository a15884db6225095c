---------------------------- MODULE TaskLifecycle ----------------------------
(***************************************************************************)
(* What a controller of the operator promises about the task objects it    *)
(* manages, whatever its handlers, caches and children do: which phase     *)
(* follows which, that the end time is stamped once, and when an object may*)
(* disappear.  The detailed specifications implement this one.             *)
(***************************************************************************)
EXTENDS Naturals

CONSTANTS
    Tasks,     \* names of tasks
    Start,     \* the phase the controller gives a task it picks up
    Edges,     \* the <<from, to>> pairs of phases a handler may take
    Withdrawing  \* does the controller let go of finished tasks?

VARIABLES
    life,      \* [Tasks -> [uid, phase, fin, del, end]]; uid 0: no object
    created    \* objects created under each name so far

lifecycleVars == <<life, created>>

NoLife == [uid |-> 0, phase |-> "", fin |-> FALSE, del |-> FALSE, end |-> FALSE]

Init ==
    /\ life = [t \in Tasks |-> NoLife]
    /\ created = [t \in Tasks |-> 0]

Becomes(t, l) == life' = [life EXCEPT ![t] = l]

\* A new object under a free name knows nothing of its predecessors.
Submit(t) ==
    /\ life[t].uid = 0
    /\ created' = [created EXCEPT ![t] = @ + 1]
    /\ Becomes(t, [NoLife EXCEPT !.uid = created[t] + 1])

\* From here on the object stays until the controller releases it.
Guard(t) ==
    /\ life[t].uid # 0 /\ ~life[t].fin /\ ~life[t].del
    /\ Becomes(t, [life[t] EXCEPT !.fin = TRUE])

\* The controller picks the task up.
Begin(t) ==
    /\ life[t].uid # 0 /\ life[t].phase = ""
    /\ Becomes(t, [life[t] EXCEPT !.phase = Start])

\* A task that is being deleted makes no further progress, nor does an
\* unguarded one.
Advance(t) ==
    /\ life[t].fin /\ ~life[t].del
    /\ \E to \in {e[2] : e \in {f \in Edges : f[1] = life[t].phase}} :
          Becomes(t, [life[t] EXCEPT !.phase = to])

Stamp(t) ==
    /\ life[t].phase \in {"completed", "failed"}
    /\ life[t].fin /\ ~life[t].del /\ ~life[t].end
    /\ Becomes(t, [life[t] EXCEPT !.end = TRUE])

\* A finished task no longer needs to be held; it may be guarded again.
Withdraw(t) ==
    /\ Withdrawing
    /\ life[t].phase \in {"completed", "failed"}
    /\ life[t].fin /\ ~life[t].del /\ life[t].end
    /\ Becomes(t, [life[t] EXCEPT !.fin = FALSE])

RequestDeletion(t) ==
    /\ life[t].uid # 0 /\ ~life[t].del
    /\ Becomes(t, IF life[t].fin THEN [life[t] EXCEPT !.del = TRUE] ELSE NoLife)

Release(t) ==
    /\ life[t].fin /\ life[t].del
    /\ Becomes(t, NoLife)

Next ==
    \E t \in Tasks :
        \/ Submit(t)
        \/ /\ \/ Guard(t) \/ Begin(t) \/ Advance(t) \/ Stamp(t)
              \/ Withdraw(t) \/ RequestDeletion(t) \/ Release(t)
           /\ UNCHANGED created

Spec == Init /\ [][Next]_lifecycleVars
=============================================================================
