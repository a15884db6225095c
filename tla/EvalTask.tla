------------------------------ MODULE EvalTask ------------------------------
(***************************************************************************)
(* The EvalTask controller (internal/controller/evaltask): a Job runs the  *)
(* evaluation, the task follows it to the end and then deletes it.         *)
(***************************************************************************)
EXTENDS JobTask

vars == <<controllerVars, jobVars>>

EnsureJob ==
    /\ pc = "ensureJob"
    /\ EnsureJobThen(Continue("checkJob", obj))

Conclude(phase) == Continue("status", [obj EXCEPT !.phase = phase])

\* Fault: failed pods are not looked at.
CheckJobIgnoringFailure ==
    /\ pc = "checkJob"
    /\ IF jobCache[cur] = "succeeded" THEN Conclude("completed") ELSE Retry
    /\ UNCHANGED <<storeVars, budget, jobVars>>

\* Fault: that no pod is active is taken for a failure.
CheckJobOnlyActive ==
    /\ pc = "checkJob"
    /\ CASE jobCache[cur] = "active"    -> WriteMessage(Retry)
         [] jobCache[cur] = "succeeded" -> Conclude("completed") /\ UNCHANGED <<fresh, budget>>
         [] jobCache[cur] = "absent"    -> Retry /\ UNCHANGED <<fresh, budget>>
         [] OTHER                       -> Conclude("failed") /\ UNCHANGED <<fresh, budget>>
    /\ UNCHANGED <<task, created, cache, jobVars>>

\* checkJobStatus: pods that are active, have succeeded, have failed, in that
\* order.
CheckJob ==
    /\ pc = "checkJob"
    /\ \/ jobCache[cur] = "active" /\ WriteMessage(Retry)
       \/ jobCache[cur] = "succeeded" /\ Conclude("completed") /\ UNCHANGED <<fresh, budget>>
       \/ jobCache[cur] \in {"backoff", "failed"} /\ Conclude("failed")
             /\ UNCHANGED <<fresh, budget>>
       \/ jobCache[cur] \in {"absent", "waiting"} /\ Retry /\ UNCHANGED <<fresh, budget>>
    /\ UNCHANGED <<task, created, cache, jobVars>>

\* Fault: an error of the status update ends the reconcile.
UpdateStatusUnchecked ==
    /\ pc = "status"
    /\ UpdateTask(objFresh, obj, Retry, Done)
    /\ UNCHANGED jobVars

\* With or without an error handleRunningPhase comes back later.
UpdateStatus ==
    /\ pc = "status"
    /\ UpdateTask(objFresh, obj, Retry, Retry)
    /\ UNCHANGED jobVars

\* Fault: an error of Delete is logged and cleanup goes on.
DeleteJobUnchecked ==
    /\ pc = "deleteJob"
    /\ Continue("removeFinalizer", obj)
    /\ \/ job' = [job EXCEPT ![cur] = NoJob] /\ UNCHANGED budget
       \/ UNCHANGED job /\ Disturb
    /\ UNCHANGED <<storeVars, jobCache>>

\* Fault: a Job that has ended is left for its TTL.
DeleteJobRunning ==
    /\ pc = "deleteJob"
    /\ IF jobCache[cur] \in {"succeeded", "failed"}
       THEN Continue("removeFinalizer", obj) /\ UNCHANGED <<storeVars, budget, jobVars>>
       ELSE DeleteJobThen(Continue("removeFinalizer", obj))

DeleteJob ==
    /\ pc = "deleteJob"
    /\ DeleteJobThen(Continue("removeFinalizer", obj))

HandlerStep ==
    \/ AddFinalizer \/ LabelTask \/ StartTask \/ EnsureJob \/ CheckJob \/ UpdateStatus
    \/ StampEndTime \/ DeleteJob \/ RemoveFinalizer

Next ==
    \/ HandlerStep
    \/ Restart
    \/ \E t \in Tasks :
          \/ Reconcile(t) \/ Resync(t) \/ SyncTaskObject(t) \/ SyncJob(t)
          \/ Users(t) \/ Cluster(t)

Spec == Init /\ [][Next]_vars

\* As for the other controllers; the Job controller starts the Jobs' pods.
Fairness ==
    /\ WF_vars(HandlerStep)
    /\ \A t \in Tasks :
          /\ SF_vars(Reconcile(t))
          /\ WF_vars(SyncTaskObject(t)) /\ WF_vars(SyncJob(t))
          /\ WF_vars(GarbageCollect(t)) /\ WF_vars(JobStarts(t))

FairSpec == Spec /\ Fairness

-----------------------------------------------------------------------------
(* Correctness.                                                            *)

WorkSteps ==
    {"addFinalizer", "label", "start", "ensureJob", "checkJob", "status", "endTime",
     "deleteJob", "removeFinalizer"}

\* Every variable has its type, and the worker has a task iff it is not idle.
TypeOK == StoreTypeOK /\ WorkerTypeOK(WorkSteps) /\ JobTypeOK

\* If Jobs end, evaluations are decided, however the Job is lost on the way.
EvaluationsEnd ==
    (\A t \in Tasks : WF_vars(JobEnds(t)))
        => \A t \in Tasks :
              Exists(task[t]) ~> \/ ~Exists(task[t]) \/ task[t].del
                                 \/ task[t].phase \in Terminal

\* A finished task's Job goes and stays away, also one created late from a
\* stale copy of the task (evaltask_controller.go:131, 197).
FinishedJobsGo ==
    \A t \in Tasks : <>[](task[t].phase \in Terminal => job[t] = NoJob)

\* Inductive, and with it that the finalizer guards the Job: no copy of a task
\* knows more than the server, and only a finished task loses the finalizer
\* while it lives on (evaltask_controller.go:72-78, 197-207).
Guarded == TypeOK /\ CachesAgree /\ HandlerGuarded /\ JobOwned /\ FinalizerGuardsJob

\* The first task of its name, undisturbed, is completed only when its Job has
\* succeeded and fails only when a pod of the Job could fail and one was
\* started.  A pod may fail and the Job still succeed: the task has failed for
\* good by then (evaltask_controller.go:171).  A later task may get the outcome
\* of its predecessor's Job, while the cache still shows that.
OutcomeFollowsJob ==
    [][\A t \in Tasks :
          task[t].phase = "running" /\ created[t] = 1 /\ budget = MaxDisturbances =>
              /\ task'[t].phase = "completed" => job[t].status = "succeeded"
              /\ task'[t].phase = "failed" => t \in Fragile /\ job[t].status # "waiting"]_vars
=============================================================================
