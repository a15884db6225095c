------------------------------ MODULE JobTask ------------------------------
(***************************************************************************)
(* What EvalTask and FineTuneTask have in common: Reconcile, the pending   *)
(* phase, the end of the finished phase and of a deletion, a Job that does *)
(* the work, and the cluster around the Job.  As in DeployedTask, cached   *)
(* reads are merged with the write that follows them.                      *)
(***************************************************************************)
EXTENDS TaskController

CONSTANT
    Fragile      \* tasks whose Job's pods may fail

ASSUME JobTaskAssumption == Fragile \subseteq Tasks

VARIABLES
    job,         \* the Job of each task on the server: owner and status
    jobCache     \* the status of the Job in the informer's view, or "absent"

jobVars == <<job, jobCache>>

NoJob == [owner |-> 0, status |-> "waiting"]

\* What the counters of job.status say: nothing has happened yet; a pod is
\* active; none is and none has succeeded, but one has failed and the next is
\* still to be started; the Job has ended.
JobStatuses == {"waiting", "active", "backoff", "succeeded", "failed"}

JobView(j) == IF j.owner = 0 THEN "absent" ELSE j.status

Init ==
    /\ ControllerInit
    /\ job = [t \in Tasks |-> NoJob]
    /\ jobCache = [t \in Tasks |-> "absent"]

-----------------------------------------------------------------------------
(* Reconcile and the pending phase.                                        *)

\* No handler writes another phase; for one, Reconcile would only come back.
PhaseStep(o) ==
    CASE o.phase = Unset               -> "label"
      [] o.phase = "running"           -> "ensureJob"
      [] o.phase \in Terminal /\ ~o.end -> "endTime"
      [] o.phase \in Terminal /\ o.end  -> "deleteJob"
      [] OTHER                         -> "idle"

\* Fault: the deletionTimestamp is not looked at.
EntryStepIgnoringDeletion(o) ==
    IF ~Exists(o) THEN "idle" ELSE IF o.fin THEN PhaseStep(o) ELSE "addFinalizer"

\* Fault: the phases are handled without the finalizer.
EntryStepUnguarded(o) ==
    CASE Exists(o) /\ o.del /\ o.fin -> "deleteJob"
      [] Exists(o) /\ ~o.del         -> PhaseStep(o)
      [] OTHER                       -> "idle"

EntryStep(o) ==
    CASE Exists(o) /\ o.del /\ o.fin   -> "deleteJob"
      [] Exists(o) /\ ~o.del /\ ~o.fin -> "addFinalizer"
      [] Exists(o) /\ ~o.del /\ o.fin  -> PhaseStep(o)
      [] OTHER                         -> "idle"

Reconcile(t) == Dispatch(t, EntryStep(cache[t])) /\ UNCHANGED <<created, jobVars>>

AddFinalizer ==
    /\ pc = "addFinalizer"
    /\ UpdateTask(objFresh, [obj EXCEPT !.fin = TRUE], Done, Retry)
    /\ UNCHANGED jobVars

LabelTask ==
    /\ pc = "label"
    /\ LET o == [obj EXCEPT !.label = TRUE]
       IN  UpdateTask(objFresh, o, Continue("start", o), Retry)
    /\ UNCHANGED jobVars

StartTask ==
    /\ pc = "start"
    /\ UpdateTask(objFresh, [obj EXCEPT !.phase = "running"], Done, Retry)
    /\ UNCHANGED jobVars

-----------------------------------------------------------------------------
(* The Job, and the end.                                                   *)

EnsureJobThen(next) ==
    /\ IF jobCache[cur] # "absent"
       THEN next /\ UNCHANGED <<job, budget>>
       ELSE Create(job[cur].owner = 0,
                   job' = [job EXCEPT ![cur] = [owner |-> obj.uid, status |-> "waiting"]],
                   UNCHANGED job, next, Retry)
    /\ UNCHANGED <<storeVars, jobCache>>

\* handleFinishedPhase stamps the end time and goes on to cleanup.
StampEndTime ==
    /\ pc = "endTime"
    /\ LET o == [obj EXCEPT !.end = TRUE]
       IN  UpdateTask(objFresh, o, Continue("deleteJob", o), Retry)
    /\ UNCHANGED jobVars

\* cleanupResources deletes the Job if the cache shows it.
DeleteJobThen(next) ==
    /\ IF jobCache[cur] = "absent"
       THEN next /\ UNCHANGED <<job, budget>>
       ELSE \/ /\ job' = [job EXCEPT ![cur] = NoJob]
               /\ \/ next /\ UNCHANGED budget
                  \/ job[cur] # NoJob /\ Retry /\ Disturb
            \/ Retry /\ Disturb /\ UNCHANGED job
    /\ UNCHANGED <<storeVars, jobCache>>

\* Both a finished task and one being deleted lose the finalizer; only the
\* second goes with it.
RemoveFinalizer ==
    /\ pc = "removeFinalizer"
    /\ UpdateTask(objFresh, IF obj.del THEN Absent ELSE [obj EXCEPT !.fin = FALSE], Done, Retry)
    /\ UNCHANGED jobVars

-----------------------------------------------------------------------------
(* The cluster around the operator.                                        *)

Restart == RestartWorker /\ UNCHANGED jobVars

SyncTaskObject(t) == SyncTask(t) /\ UNCHANGED jobVars

SyncJob(t) ==
    /\ jobCache[t] # JobView(job[t])
    /\ jobCache' = [jobCache EXCEPT ![t] = JobView(job[t])]
    /\ queue' = queue \cup {t}
    /\ UNCHANGED <<storeVars, workerVars, budget, job>>

Resync(t) == OtherEvent(t) /\ UNCHANGED jobVars

Users(t) == (UserCreate(t) \/ UserDelete(t) \/ UserTouch(t)) /\ UNCHANGED jobVars

\* The Job changes on the server, and not by the worker's hand.
JobBecomes(t, j) ==
    /\ job[t] # NoJob
    /\ job' = [job EXCEPT ![t] = j]
    /\ UNCHANGED <<storeVars, workerVars, queue, jobCache>>

JobMoves(t, from, to) ==
    job[t].status = from /\ JobBecomes(t, [job[t] EXCEPT !.status = to]) /\ UNCHANGED budget

JobStarts(t) == JobMoves(t, "waiting", "active")

\* A pod fails; another one is started after a while, or the Job gives up.
PodFails(t) == t \in Fragile /\ JobMoves(t, "active", "backoff")
PodRetried(t) == JobMoves(t, "backoff", "active")

JobEnds(t) == JobMoves(t, "active", "succeeded") \/ JobMoves(t, "backoff", "failed")

GarbageCollect(t) ==
    job[t].owner \notin {0, task[t].uid} /\ JobBecomes(t, NoJob) /\ UNCHANGED budget

\* A user deletes the Job; or it has ended longer ago than its TTL of 300
\* seconds, while the operator was away.
JobVanishes(t) == JobBecomes(t, NoJob) /\ Disturb

Cluster(t) ==
    \/ JobStarts(t) \/ PodFails(t) \/ PodRetried(t) \/ JobEnds(t)
    \/ GarbageCollect(t) \/ JobVanishes(t)

-----------------------------------------------------------------------------
(* Correctness.                                                            *)

JobTypeOK ==
    /\ job \in [Tasks -> [owner: 0..MaxIncarnations, status: JobStatuses]]
    /\ jobCache \in [Tasks -> JobStatuses \cup {"absent"}]

\* As CacheAgrees in TaskController, except that a finished task may have lost
\* the finalizer since.
Kept(o, t) == o.uid = task[t].uid /\ o.fin => task[t].fin \/ task[t].phase \in Terminal

CachesAgree ==
    \A t \in Tasks :
        /\ task[t].uid \in {0, created[t]}
        /\ cache[t].uid <= created[t]
        /\ t \in fresh => cache[t] = task[t]
        /\ Exists(cache[t]) => Kept(cache[t], t)

\* A handler past its first write holds a guarded copy, and one in cleanup a
\* task that is finished or being deleted.
CleanupSteps == {"endTime", "deleteJob", "deleteService", "deleteDeployment", "removeFinalizer"}

HandlerGuarded ==
    pc # "idle" =>
        /\ obj.uid \in 1..created[cur]
        /\ objFresh => obj.uid = task[cur].uid
        /\ Kept(obj, cur)
        /\ pc # "addFinalizer" => obj.fin
        /\ pc \in CleanupSteps => obj.del \/ obj.phase \in Terminal

\* No Job belongs to a task that was never created.
JobOwned == \A t \in Tasks : job[t].owner <= created[t] /\ (job[t].owner = 0 => job[t] = NoJob)

\* The Job of an unfinished task is only ever there while the task carries the
\* operator's finalizer.
FinalizerGuardsJob ==
    \A t \in Tasks :
        job[t].owner = task[t].uid /\ job[t] # NoJob /\ task[t].phase \notin Terminal
            => task[t].fin

\* A Job that cleanup leaves behind when it lets go of the task, the cache
\* showed too late: its event is still to come or has queued the task already.
CleanupMissesOnlyLateJobs ==
    pc = "removeFinalizer" /\ job[cur].owner = obj.uid =>
        cur \in queue \/ jobCache[cur] # JobView(job[cur])

\* The controller implements the lifecycle its users see, except that it lets
\* go of a finished task, guards it again, and so on.
PhaseEdges == {<<"running", "completed">>, <<"running", "failed">>}

Lifecycle ==
    INSTANCE TaskLifecycle WITH
        life <- Life, Start <- "running", Edges <- PhaseEdges, Withdrawing <- TRUE

LifecycleSpec == Lifecycle!Spec
=============================================================================
