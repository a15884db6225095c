--------------------------- MODULE EvalTaskProofs ---------------------------
(***************************************************************************)
(* Theorems about the EvalTask controller: the Job of an unfinished task   *)
(* is only ever there behind the task's finalizer, cleanup misses no Job   *)
(* but a late one, the controller implements TaskLifecycle, a task's       *)
(* outcome is its Job's, and no wake-up is lost.                           *)
(***************************************************************************)
EXTENDS EvalTask, JobTaskProofs

LEMMA GuardedParts == Guarded <=> Store /\ Worker(WorkSteps)
  BY DEF Guarded, TypeOK, Store, Worker

LEMMA EnsureJobKeeps ==
  ASSUME Store, Worker(WorkSteps), EnsureJob
  PROVE  Store' /\ Worker(WorkSteps)'
  BY EnsureJobOK DEF EnsureJob, WorkSteps, CleanupSteps

LEMMA DeleteJobKeeps ==
  ASSUME Store, Worker(WorkSteps), DeleteJob
  PROVE  Store' /\ Worker(WorkSteps)'
  BY DeleteJobOK DEF DeleteJob, WorkSteps

\* checkJobStatus changes the status in memory only, or writes a message.
LEMMA CheckJobKeeps ==
  ASSUME Store, Worker(WorkSteps), CheckJob
  PROVE  Store' /\ Worker(WorkSteps)'
<1>1. /\ pc # "idle" /\ pc # "addFinalizer"
      /\ UNCHANGED <<task, created, cache, job, jobCache>>
      /\ fresh' = fresh \/ fresh' = fresh \ {cur}
      /\ budget' = budget \/ Disturb
      /\ Retry \/ \E phase \in Terminal : Conclude(phase)
  BY DEF CheckJob, WriteMessage, Terminal, jobVars
<1>2. Store'
  <2>1. StoreTypeOK' /\ JobTypeOK'
    BY <1>1, DisturbType DEF Store, StoreTypeOK, JobTypeOK
  <2>2. CachesAgree' /\ JobOwned' /\ FinalizerGuardsJob'
    BY <1>1 DEF Store, CachesAgree, Kept, Exists, JobOwned, FinalizerGuardsJob
  <2> QED
    BY <2>1, <2>2 DEF Store
<1>3. CASE Retry
  BY <1>1, <1>2, <1>3, InHand, ReturnType, ReturnGuarded DEF Worker
<1>4. ASSUME NEW phase \in Terminal, Conclude(phase)
      PROVE  Worker(WorkSteps)'
  <2> DEFINE o == [obj EXCEPT !.phase = phase]
  <2>1. o \in TaskObjects /\ o.uid = obj.uid /\ o.fin
    BY <1>1, InHand DEF TaskObjects, Phases
  <2>2. Continue("status", o)
    BY <1>4 DEF Conclude
  <2> HIDE DEF o
  <2>3. HandlerGuarded'
    BY <1>1, <2>1, <2>2, ContinueGuarded DEF CleanupSteps
  <2>4. WorkerTypeOK(WorkSteps)'
    BY <1>1, <2>1, <2>2, InHand, ContinueType DEF Worker, WorkSteps
  <2> QED
    BY <2>3, <2>4 DEF Worker
<1> QED
  BY <1>1, <1>2, <1>3, <1>4

LEMMA UpdateStatusKeeps ==
  ASSUME Store, Worker(WorkSteps), UpdateStatus
  PROVE  Store' /\ Worker(WorkSteps)'
<1>1. pc # "idle" /\ pc # "addFinalizer"
  BY DEF UpdateStatus
<1>2. obj \in TaskObjects /\ (objFresh => Safe(task[cur], obj))
  BY <1>1, InHand DEF Safe, Holds
<1>3. /\ Accepted(objFresh, obj) \/ Failed(objFresh, obj)
      /\ Retry
      /\ UNCHANGED <<created, cache, jobVars>>
  BY DEF UpdateStatus, UpdateTask
<1> QED
  BY <1>1, <1>2, <1>3, WriteAndReturn

\* Guarded holds of the initial states, and every step keeps it.
LEMMA GuardedInit ==
  ASSUME Init
  PROVE  Guarded
  BY InitOK, GuardedParts

LEMMA GuardedStep ==
  ASSUME Guarded, [Next]_vars
  PROVE  Guarded'
<1> SUFFICES Store' /\ Worker(WorkSteps)'
  BY DEF Guarded, TypeOK, Store, Worker
<1>1. Store /\ Worker(WorkSteps)
  BY GuardedParts
<1>2. {"label", "start", "endTime", "deleteJob"} \cup EntrySteps \subseteq WorkSteps
  BY DEF WorkSteps, EntrySteps
<1>3. CASE HandlerStep
  <2>1. CASE AddFinalizer \/ StartTask \/ RemoveFinalizer
    BY <1>1, <2>1, AddFinalizerOK, StartTaskOK, RemoveFinalizerOK
  <2>2. CASE LabelTask \/ StampEndTime
    BY <1>1, <1>2, <2>2, LabelTaskOK, StampEndTimeOK
  <2>3. CASE EnsureJob \/ CheckJob
    BY <1>1, <2>3, EnsureJobKeeps, CheckJobKeeps
  <2>4. CASE UpdateStatus \/ DeleteJob
    BY <1>1, <2>4, UpdateStatusKeeps, DeleteJobKeeps
  <2> QED
    BY <1>3, <2>1, <2>2, <2>3, <2>4 DEF HandlerStep
<1>4. CASE Restart
  BY <1>1, <1>4, RestartOK
<1>5. ASSUME NEW t \in Tasks, Reconcile(t)
      PROVE  Store' /\ Worker(WorkSteps)'
  BY <1>1, <1>2, <1>5, ReconcileOK
<1>6. ASSUME NEW t \in Tasks, Resync(t) \/ SyncTaskObject(t) \/ SyncJob(t)
      PROVE  Store' /\ Worker(WorkSteps)'
  BY <1>1, <1>6, EventOK, SyncTaskObjectOK
<1>7. ASSUME NEW t \in Tasks, Users(t) \/ Cluster(t)
      PROVE  Store' /\ Worker(WorkSteps)'
  BY <1>1, <1>7, UsersOK, ClusterOK
<1>8. CASE UNCHANGED vars
  <2>1. UNCHANGED <<task, created, cache, fresh, budget, queue, workerVars, job, jobCache>>
    BY <1>8 DEF vars, controllerVars, storeVars, jobVars
  <2>2. Worker(WorkSteps)'
    BY <1>1, <2>1, WorkerUntouched DEF Worker, WorkerTypeOK
  <2>3. StoreTypeOK' /\ JobTypeOK' /\ CachesAgree'
    BY <1>1, <2>1 DEF Store, StoreTypeOK, JobTypeOK, CachesAgree, Kept, Exists
  <2>4. JobOwned' /\ FinalizerGuardsJob'
    BY <1>1, <2>1 DEF Store, JobOwned, FinalizerGuardsJob
  <2> QED
    BY <2>2, <2>3, <2>4 DEF Store
<1> QED
  BY <1>3, <1>4, <1>5, <1>6, <1>7, <1>8 DEF Next

\* An EvalTask's copies in the informer and in the handler never know more
\* than the server's object, and no step takes the finalizer from an
\* unfinished task that lives on (evaltask_controller.go:72-78, 197-207).
THEOREM EvalTaskGuarded == Spec => []Guarded
<1>1. Init => Guarded
  BY GuardedInit
<1>2. Guarded /\ [Next]_vars => Guarded'
  BY GuardedStep
<1> QED
  BY <1>1, <1>2, PTL DEF Spec

\* The Job of an unfinished EvalTask is only ever there behind the finalizer:
\* whatever deletes the task has to wait for cleanupResources.
THEOREM EvalJobsGuarded == Spec => []FinalizerGuardsJob
<1>1. Guarded => FinalizerGuardsJob
  BY DEF Guarded
<1> QED
  BY <1>1, EvalTaskGuarded, PTL

-----------------------------------------------------------------------------
(* Cleanup.                                                                *)

PastDeleteJob == {"removeFinalizer"}

LEMMA StepSwept ==
  ASSUME Guarded, JobSwept(PastDeleteJob), [Next]_vars
  PROVE  JobSwept(PastDeleteJob)'
<1>1. Store /\ Worker(WorkSteps)
  BY GuardedParts
<1>2. "idle" \notin PastDeleteJob /\ PastDeleteJob \cap EntrySteps = {}
  BY DEF PastDeleteJob, EntrySteps
<1>3. CASE HandlerStep
  <2>1. CASE DeleteJob
    BY <1>1, <1>2, <2>1, DeleteJobSwept DEF DeleteJob
  <2>2. CASE \/ AddFinalizer \/ LabelTask \/ StartTask \/ EnsureJob \/ CheckJob
             \/ UpdateStatus \/ StampEndTime \/ RemoveFinalizer
    <3>1. pc' \notin PastDeleteJob
      BY <2>2
      DEF AddFinalizer, LabelTask, StartTask, EnsureJob, EnsureJobThen, Create, CheckJob,
          WriteMessage, Conclude, UpdateStatus, StampEndTime, RemoveFinalizer, UpdateTask,
          Done, Retry, Return, Continue, PastDeleteJob
    <3> QED
      BY <3>1, ElsewhereSwept
  <2> QED
    BY <1>3, <2>1, <2>2 DEF HandlerStep
<1>4. CASE Restart
  <2>1. pc' \notin PastDeleteJob
    BY <1>4 DEF Restart, RestartWorker, PastDeleteJob
  <2> QED
    BY <2>1, ElsewhereSwept
<1>5. ASSUME NEW t \in Tasks, Reconcile(t)
      PROVE  JobSwept(PastDeleteJob)'
  BY <1>1, <1>2, <1>5, ReconcileSwept
<1>6. ASSUME NEW t \in Tasks,
             Resync(t) \/ SyncTaskObject(t) \/ SyncJob(t) \/ Users(t) \/ Cluster(t)
      PROVE  JobSwept(PastDeleteJob)'
  BY <1>1, <1>2, <1>6, EnvironmentSwept
<1>7. CASE UNCHANGED vars
  BY <1>7 DEF vars, controllerVars, workerVars, jobVars, JobSwept
<1> QED
  BY <1>3, <1>4, <1>5, <1>6, <1>7 DEF Next

\* When an EvalTask's finalizer is about to go, a Job made for the task is left
\* behind only if the cache shows it too late, and then its event has queued
\* the task or is still to come (evaltask_controller.go:185-228).
THEOREM EvalTaskSweeps == Spec => []CleanupMissesOnlyLateJobs
<1>1. Init => JobSwept(PastDeleteJob)
  BY DEF Init, ControllerInit, JobSwept, PastDeleteJob
<1>2. Guarded /\ JobSwept(PastDeleteJob) /\ [Next]_vars => JobSwept(PastDeleteJob)'
  BY StepSwept
<1>3. Guarded /\ JobSwept(PastDeleteJob) => CleanupMissesOnlyLateJobs
  BY GuardedParts, SweptMissesOnlyLate DEF PastDeleteJob
<1> QED
  BY <1>1, <1>2, <1>3, EvalTaskGuarded, PTL DEF Spec

-----------------------------------------------------------------------------
(* The controller implements the lifecycle.                                *)

LEMMA HandlerStepKnows ==
  ASSUME Guarded, HandlerKnows, HandlerStep
  PROVE  HandlerKnows'
<1>1. obj \in TaskObjects /\ Store /\ Worker(WorkSteps)
  BY GuardedParts DEF Guarded, TypeOK, WorkerTypeOK
<1>2. CASE AddFinalizer \/ StartTask \/ RemoveFinalizer \/ LabelTask \/ StampEndTime
  BY <1>1, <1>2, JobStepKnows
<1>3. CASE UpdateStatus
  BY <1>3, ReturnKnows DEF UpdateStatus, UpdateTask
<1>5. CASE EnsureJob
  <2>1. /\ pc = "ensureJob" /\ UNCHANGED task
        /\ Continue("checkJob", obj) \/ Retry
    BY <1>5 DEF EnsureJob, EnsureJobThen, Create, storeVars
  <2>2. Known("checkJob", obj)
    BY <2>1 DEF HandlerKnows, Known, CleanupSteps
  <2> QED
    BY <2>1, <2>2, GoOnKnows
<1>6. CASE DeleteJob
  <2>1. /\ pc = "deleteJob" /\ UNCHANGED task
        /\ Continue("removeFinalizer", obj) \/ Retry
    BY <1>6 DEF DeleteJob, DeleteJobThen, storeVars
  <2>2. Known("removeFinalizer", obj)
    BY <2>1 DEF HandlerKnows, Known, CleanupSteps
  <2> QED
    BY <2>1, <2>2, GoOnKnows
<1>7. CASE CheckJob
  <2>1. pc = "checkJob" /\ UNCHANGED task
    BY <1>7 DEF CheckJob
  <2>2. CASE Retry
    BY <2>2, ReturnKnows
  <2>3. ASSUME NEW phase \in Terminal, Conclude(phase)
        PROVE  HandlerKnows'
    <3> DEFINE o == [obj EXCEPT !.phase = phase]
    <3>1. obj.phase = "running" /\ ~obj.del /\ (objFresh => task[cur] = obj)
      BY <2>1 DEF HandlerKnows, Known
    <3>2. Known("status", o)
      BY <1>1, <3>1 DEF Known, CleanupSteps, TaskObjects
    <3>3. [o EXCEPT !.phase = "running"] = obj
      BY <1>1, <3>1 DEF TaskObjects
    <3>4. Continue("status", o)
      BY <2>3 DEF Conclude
    <3> HIDE DEF o
    <3> QED
      BY <2>1, <3>1, <3>2, <3>3, <3>4 DEF HandlerKnows, Continue
  <2>4. Retry \/ \E phase \in Terminal : Conclude(phase)
    BY <1>7 DEF CheckJob, WriteMessage, Terminal
  <2> QED
    BY <2>2, <2>3, <2>4
<1> QED
  BY <1>2, <1>3, <1>5, <1>6, <1>7 DEF HandlerStep

LEMMA StepKnows ==
  ASSUME Guarded, HandlerKnows, [Next]_vars
  PROVE  HandlerKnows'
<1>1. Store /\ Worker(WorkSteps)
  BY GuardedParts
<1>2. CASE HandlerStep
  BY <1>2, HandlerStepKnows
<1>3. CASE Restart
  BY <1>3 DEF Restart, RestartWorker, HandlerKnows
<1>4. ASSUME NEW t \in Tasks, Reconcile(t) \/ Bystander(t) \/ Users(t)
      PROVE  HandlerKnows'
  <2>1. CASE Reconcile(t) \/ Bystander(t)
    BY <1>1, <2>1, ReconcileKnows, BystanderLeaves, UnchangedKnows
  <2>2. CASE Users(t)
    BY <1>1, <2>2, OverwriteKnows DEF Users, UserCreate, UserDelete, UserTouch
  <2> QED
    BY <1>4, <2>1, <2>2
<1>5. CASE UNCHANGED vars
  BY <1>5, UnchangedKnows DEF vars, controllerVars, storeVars
<1> QED
  BY <1>2, <1>3, <1>4, <1>5 DEF Next, Bystander

LEMMA HandlerRefines ==
  ASSUME Guarded, HandlerKnows, HandlerStep
  PROVE  LifecycleStep
<1>1. Store /\ Worker(WorkSteps)
  BY GuardedParts
<1>2. CASE AddFinalizer \/ StartTask \/ RemoveFinalizer \/ LabelTask \/ StampEndTime
  BY <1>1, <1>2, JobStepRefines
<1>3. CASE EnsureJob \/ CheckJob \/ DeleteJob
  <2>1. UNCHANGED <<task, created>>
    BY <1>3 DEF EnsureJob, EnsureJobThen, CheckJob, DeleteJob, DeleteJobThen, storeVars
  <2> QED
    BY <2>1, UnchangedRefines
<1>4. CASE UpdateStatus
  <2>0. cur \in Tasks /\ obj \in TaskObjects /\ Life[cur] = LifeOf(task[cur])
    BY <1>1, <1>4, InHand, LifeEntries DEF UpdateStatus
  <2>1. pc = "status" /\ obj.fin /\ ~obj.del /\ obj.phase \in Terminal
        /\ (objFresh => task[cur] = [obj EXCEPT !.phase = "running"])
    BY <1>1, <1>4, InHand DEF UpdateStatus, HandlerKnows, Known
  <2>2. ASSUME objFresh, Lifecycle!Becomes(cur, LifeOf(obj))
        PROVE  Lifecycle!Advance(cur)
    <3>1. /\ Life[cur].phase = "running" /\ Life[cur].fin /\ ~Life[cur].del
          /\ LifeOf(obj) = [Life[cur] EXCEPT !.phase = obj.phase]
      <4>1. /\ obj = [task[cur] EXCEPT !.phase = obj.phase]
            /\ task[cur].phase = "running" /\ task[cur].fin /\ ~task[cur].del
            /\ task[cur] \in TaskObjects /\ obj.phase \in Phases
        BY <2>0, <2>1, <2>2 DEF TaskObjects, Phases
      <4>2. LifeOf(obj) = [LifeOf(task[cur]) EXCEPT !.phase = obj.phase]
        BY <4>1, LifePhase, Zenon
      <4> QED
        BY <2>0, <4>1, <4>2, LifeValues
    <3>2. obj.phase \in {e[2] : e \in {f \in PhaseEdges : f[1] = Life[cur].phase}}
      <4>1. <<"running", obj.phase>> \in {f \in PhaseEdges : f[1] = Life[cur].phase}
        BY <2>1, <3>1 DEF PhaseEdges, Terminal
      <4> QED
        BY <4>1
    <3> QED
      BY <2>2, <3>1, <3>2 DEF Lifecycle!Advance
  <2>3. UNCHANGED created /\ (Accepted(objFresh, obj) \/ Failed(objFresh, obj))
    BY <1>4 DEF UpdateStatus, UpdateTask
  <2> QED
    BY <1>1, <2>0, <2>2, <2>3, StoredRefines
<1> QED
  BY <1>2, <1>3, <1>4 DEF HandlerStep

LEMMA StepRefines ==
  ASSUME Guarded, HandlerKnows, [Next]_vars
  PROVE  LifecycleStep
<1>1. CASE HandlerStep
  BY <1>1, HandlerRefines
<1>2. CASE Restart \/ UNCHANGED vars
  BY <1>2, UnchangedRefines DEF Restart, RestartWorker, vars, controllerVars, storeVars
<1>3. ASSUME NEW t \in Tasks, Reconcile(t) \/ Bystander(t) \/ Users(t)
      PROVE  LifecycleStep
  <2>1. CASE Reconcile(t)
    BY <2>1, UnchangedRefines DEF Reconcile, Dispatch, storeVars
  <2>2. CASE Bystander(t)
    BY <2>2, BystanderLeaves, UnchangedRefines
  <2> QED
    BY <1>3, <2>1, <2>2, GuardedParts, UsersRefine
<1> QED
  BY <1>1, <1>2, <1>3 DEF Next, Bystander

\* The EvalTask controller implements the lifecycle its users see: a guarded
\* task goes from running to one end and stays there, the end time is stamped
\* once, only a finished task is let go of, and one that is being deleted makes
\* no further progress (evaltask_controller.go:68-89, 185-207).
THEOREM EvalTaskImplementsLifecycle == Spec => LifecycleSpec
<1>1. Init => HandlerKnows /\ Lifecycle!Init
  BY AbsentLife
  DEF Init, ControllerInit, HandlerKnows, Lifecycle!Init, Life, LifeOf
<1>2. Guarded /\ HandlerKnows /\ [Next]_vars => HandlerKnows'
  BY StepKnows
<1>3. Guarded /\ HandlerKnows /\ [Next]_vars => [Lifecycle!Next]_Lifecycle!lifecycleVars
  BY StepRefines DEF LifecycleStep, Lifecycle!lifecycleVars
<1>4. Spec => []Guarded
  BY EvalTaskGuarded
<1>5. Spec => Lifecycle!Spec
  BY <1>1, <1>2, <1>3, <1>4, PTL DEF Spec, Lifecycle!Spec
<1> QED
  BY <1>5 DEF LifecycleSpec
-----------------------------------------------------------------------------
(* The outcome.  The argument is about a task that is the first of its     *)
(* name, undisturbed, unfinished and not being deleted: until it is one of *)
(* these no longer, its Job is not taken away, so what the cache has shown *)
(* of the Job, and what the handler has concluded from it, is still so.    *)

\* A copy shows no deletion and no end that the object does not have.
Behind(o, t) ==
    o.uid = task[t].uid =>
        (o.del => task[t].del) /\ (o.phase \in Terminal => task[t].phase \in Terminal)

CopiesBehind ==
    /\ \A t \in Tasks : Exists(cache[t]) => Behind(cache[t], t)
    /\ pc \notin {"idle", "status"} => Behind(obj, cur)

\* Neither is ever taken back.
Onward ==
    \A t \in Tasks :
        /\ created'[t] \in {created[t], created[t] + 1}
        /\ \A uid \in 1..created[t] :
              uid = task'[t].uid =>
                  /\ uid = task[t].uid
                  /\ task[t].del => task'[t].del
                  /\ task[t].phase \in Terminal => task'[t].phase \in Terminal

LEMMA LifeGoesOn ==
  ASSUME Guarded, LifecycleStep,
         task' \in [Tasks -> TaskObjects], created' \in [Tasks -> 0..MaxIncarnations]
  PROVE  Onward
<1>1. /\ created \in [Tasks -> 0..MaxIncarnations] /\ task \in [Tasks -> TaskObjects]
      /\ \A t \in Tasks : task[t].uid \in {0, created[t]} /\ created[t] \in Nat
      /\ \A t \in Tasks : Life[t] = LifeOf(task[t])
      /\ \A t \in Tasks : Life'[t] = LifeOf(task'[t])
  BY BoundsAssumption DEF Guarded, TypeOK, StoreTypeOK, CachesAgree, Life, LifeOf
<1>2. ASSUME NEW t \in Tasks, Life'[t] = Life[t], created'[t] = created[t]
      PROVE  /\ created'[t] \in {created[t], created[t] + 1}
             /\ \A uid \in 1..created[t] :
                   uid = task'[t].uid =>
                       /\ uid = task[t].uid
                       /\ task[t].del => task'[t].del
                       /\ task[t].phase \in Terminal => task'[t].phase \in Terminal
  <2>1. /\ task'[t].uid = task[t].uid /\ task'[t].del = task[t].del
        /\ task'[t].phase = task[t].phase
    BY <1>1, <1>2, LifeValues
  <2> QED
    BY <1>2, <2>1
<1>3. CASE UNCHANGED <<Life, created>>
  BY <1>2, <1>3 DEF Onward
<1>4. ASSUME NEW t \in Tasks, NEW l, Lifecycle!Becomes(t, l),
             \/ UNCHANGED created /\ l = Lifecycle!NoLife
             \/ /\ UNCHANGED created /\ l.uid = Life[t].uid /\ (Life[t].del => l.del)
                /\ Life[t].phase \in Terminal => l.phase \in Terminal
             \/ created' = [created EXCEPT ![t] = @ + 1] /\ l.uid = created[t] + 1
      PROVE  Onward
  <2>1. Life'[t] = l /\ \A u \in Tasks : u # t => Life'[u] = Life[u]
    BY <1>4 DEF Lifecycle!Becomes, Life
  <2>2. \A u \in Tasks : u # t => created'[u] = created[u]
    BY <1>1, <1>4
  <2>3. /\ task'[t].uid = l.uid /\ task'[t].del = l.del /\ task'[t].phase = l.phase
        /\ task[t].uid = Life[t].uid /\ task[t].del = Life[t].del
        /\ task[t].phase = Life[t].phase
    BY <1>1, <2>1, LifeValues
  <2>4. created[t] \in Nat /\ created'[t] \in {created[t], created[t] + 1}
    BY <1>1, <1>4
  <2>5. ASSUME NEW uid \in 1..created[t], uid = task'[t].uid
        PROVE  /\ uid = task[t].uid
               /\ task[t].del => task'[t].del
               /\ task[t].phase \in Terminal => task'[t].phase \in Terminal
    <3>1. uid # 0 /\ uid # created[t] + 1
      BY <2>4
    <3>2. l.uid = uid
      BY <2>3, <2>5
    <3>3. Lifecycle!NoLife.uid = 0
      BY DEF Lifecycle!NoLife
    <3>4. l # Lifecycle!NoLife /\ l.uid # created[t] + 1
      BY <3>1, <3>2, <3>3
    <3>5. /\ l.uid = Life[t].uid /\ (Life[t].del => l.del)
          /\ Life[t].phase \in Terminal => l.phase \in Terminal
      BY <1>4, <3>4
    <3> QED
      BY <2>3, <2>5, <3>5, Zenon
  <2>6. ASSUME NEW u \in Tasks, u # t
        PROVE  Life'[u] = Life[u] /\ created'[u] = created[u]
    BY <2>1, <2>2, <2>6
  <2> QED
    BY <1>2, <2>4, <2>5, <2>6 DEF Onward
<1>5. CASE Lifecycle!Next
  <2>1. PICK t \in Tasks :
            \/ Lifecycle!Submit(t)
            \/ /\ \/ Lifecycle!Guard(t) \/ Lifecycle!Begin(t) \/ Lifecycle!Advance(t)
                  \/ Lifecycle!Stamp(t) \/ Lifecycle!Withdraw(t)
                  \/ Lifecycle!RequestDeletion(t) \/ Lifecycle!Release(t)
               /\ UNCHANGED created
    BY <1>5 DEF Lifecycle!Next
  <2>2. Life[t] = [uid |-> task[t].uid, phase |-> task[t].phase, fin |-> task[t].fin,
                   del |-> task[t].del, end |-> task[t].end]
    BY DEF Life
  <2>3. CASE Lifecycle!Submit(t)
    BY <1>4, <2>3 DEF Lifecycle!Submit, Lifecycle!NoLife
  <2>4. CASE Lifecycle!Guard(t) /\ UNCHANGED created
    BY <1>4, <2>2, <2>4 DEF Lifecycle!Guard
  <2>5. CASE Lifecycle!Begin(t) /\ UNCHANGED created
    BY <1>4, <2>2, <2>5 DEF Lifecycle!Begin, Terminal
  <2>6. CASE Lifecycle!Advance(t) /\ UNCHANGED created
    <3>1. PICK to \in {e[2] : e \in {f \in PhaseEdges : f[1] = Life[t].phase}} :
              Lifecycle!Becomes(t, [Life[t] EXCEPT !.phase = to])
      BY <2>6 DEF Lifecycle!Advance
    <3>2. Life[t].phase \notin Terminal
      BY <3>1 DEF PhaseEdges, Terminal
    <3> QED
      BY <1>4, <2>2, <2>6, <3>1, <3>2
  <2>7. CASE Lifecycle!Stamp(t) /\ UNCHANGED created
    BY <1>4, <2>2, <2>7 DEF Lifecycle!Stamp
  <2>8. CASE Lifecycle!Withdraw(t) /\ UNCHANGED created
    BY <1>4, <2>2, <2>8 DEF Lifecycle!Withdraw
  <2>9. CASE Lifecycle!RequestDeletion(t) /\ UNCHANGED created
    BY <1>4, <2>2, <2>9 DEF Lifecycle!RequestDeletion
  <2>10. CASE Lifecycle!Release(t) /\ UNCHANGED created
    BY <1>4, <2>10 DEF Lifecycle!Release
  <2> QED
    BY <2>1, <2>3, <2>4, <2>5, <2>6, <2>7, <2>8, <2>9, <2>10
<1> QED
  BY <1>3, <1>5 DEF LifecycleStep
\* A copy that is behind stays behind.
LEMMA StaysBehind ==
  ASSUME Onward, NEW t \in Tasks, NEW o, o.uid \in 1..created[t], Behind(o, t)
  PROVE  o.uid = task'[t].uid =>
            (o.del => task'[t].del) /\ (o.phase \in Terminal => task'[t].phase \in Terminal)
  BY DEF Onward, Behind

\* Where the copies come from.
LEMMA CopySources ==
  ASSUME Guarded, [Next]_vars
  PROVE  /\ \A t \in Tasks : cache'[t] \in {cache[t], task'[t]}
         /\ \/ pc' \in {"idle", "status"}
            \/ pc \notin {"idle", "status"} /\ UNCHANGED <<cur, obj>>
            \/ cur' \in Tasks /\ obj' = cache'[cur'] /\ Exists(obj')
            \/ cur' \in Tasks /\ obj' = task'[cur']
<1>1. /\ Store /\ Worker(WorkSteps) /\ cache \in [Tasks -> TaskObjects]
      /\ task \in [Tasks -> TaskObjects]
  BY GuardedParts DEF Store, StoreTypeOK
<1>2. CASE AddFinalizer \/ StartTask \/ RemoveFinalizer \/ UpdateStatus
  BY <1>2
  DEF AddFinalizer, StartTask, RemoveFinalizer, UpdateStatus, UpdateTask, Done, Retry, Return
<1>3. CASE LabelTask \/ StampEndTime
  <2>1. pc # "idle" /\ cur \in Tasks
    BY <1>1, <1>3, InHand DEF LabelTask, StampEndTime
  <2>2. PICK p, o : /\ UNCHANGED cache
                    /\ \/ Accepted(objFresh, o) /\ Continue(p, o)
                       \/ Retry
    BY <1>3 DEF LabelTask, StampEndTime, UpdateTask
  <2> QED
    BY <1>1, <2>1, <2>2 DEF Accepted, StoredFrom, Continue, Retry, Return
<1>4. CASE EnsureJob \/ DeleteJob
  BY <1>4
  DEF EnsureJob, EnsureJobThen, Create, DeleteJob, DeleteJobThen, Continue, Retry, Return,
      storeVars
<1>5. CASE CheckJob
  BY <1>5 DEF CheckJob, WriteMessage, Conclude, Continue, Retry, Return
<1>6. CASE Restart
  BY <1>6 DEF Restart, RestartWorker, storeVars
<1>7. ASSUME NEW t \in Tasks, Reconcile(t)
      PROVE  /\ UNCHANGED cache
             /\ \/ pc' = "idle"
                \/ cur' = t /\ obj' = cache[t] /\ Exists(obj')
  BY <1>7 DEF Reconcile, Dispatch, EntryStep, workerVars, storeVars
<1>8. ASSUME NEW t \in Tasks, Resync(t) \/ SyncJob(t) \/ Cluster(t) \/ Users(t)
      PROVE  UNCHANGED <<cache, pc, cur, obj>>
  BY <1>8
  DEF Resync, OtherEvent, SyncJob, Cluster, JobStarts, PodFails, PodRetried, JobEnds, JobMoves,
      GarbageCollect, JobVanishes, JobBecomes, Users, UserCreate, UserDelete, UserTouch,
      Overwrite, storeVars, workerVars
<1>9. ASSUME NEW t \in Tasks, SyncTaskObject(t)
      PROVE  /\ UNCHANGED <<pc, cur, obj>>
             /\ \A u \in Tasks : cache'[u] \in {cache[u], task'[u]}
  BY <1>1, <1>9 DEF SyncTaskObject, SyncTask, workerVars
<1>10. CASE UNCHANGED vars
  BY <1>10 DEF vars, controllerVars, workerVars, storeVars
<1>11. CASE HandlerStep
  BY <1>2, <1>3, <1>4, <1>5, <1>11 DEF HandlerStep
<1>12. ASSUME NEW t \in Tasks,
              \/ Reconcile(t) \/ Resync(t) \/ SyncTaskObject(t) \/ SyncJob(t)
              \/ Users(t) \/ Cluster(t)
       PROVE  /\ \A u \in Tasks : cache'[u] \in {cache[u], task'[u]}
              /\ \/ pc' \in {"idle", "status"}
                 \/ pc \notin {"idle", "status"} /\ UNCHANGED <<cur, obj>>
                 \/ cur' \in Tasks /\ obj' = cache'[cur'] /\ Exists(obj')
                 \/ cur' \in Tasks /\ obj' = task'[cur']
  BY <1>7, <1>8, <1>9, <1>12
<1> QED
  BY <1>6, <1>10, <1>11, <1>12 DEF Next

LEMMA CopiesStayBehind ==
  ASSUME Guarded, Guarded', CopiesBehind, Onward, [Next]_vars
  PROVE  CopiesBehind'
<1>1. Store /\ Worker(WorkSteps)
  BY GuardedParts
<1>2. ASSUME NEW t \in Tasks, Exists(cache'[t])
      PROVE  Behind(cache[t], t)'
  <2>1. CASE cache'[t] = task'[t]
    BY <2>1 DEF Behind
  <2>2. CASE cache'[t] = cache[t]
    <3>1. cache[t].uid \in 1..created[t] /\ Behind(cache[t], t)
      BY <1>1, <1>2, <2>2, Numbers DEF CopiesBehind, Store, CachesAgree, Exists
    <3> QED
      BY <2>2, <3>1, StaysBehind DEF Behind
  <2> QED
    BY <2>1, <2>2, CopySources
<1>3. ASSUME pc' \notin {"idle", "status"}
      PROVE  Behind(obj, cur)'
  <2>1. CASE pc \notin {"idle", "status"} /\ UNCHANGED <<cur, obj>>
    <3>1. cur \in Tasks /\ obj.uid \in 1..created[cur] /\ Behind(obj, cur)
      BY <1>1, <2>1, InHand DEF CopiesBehind
    <3> QED
      BY <2>1, <3>1, StaysBehind DEF Behind
  <2>2. CASE cur' \in Tasks /\ obj' = cache'[cur'] /\ Exists(obj')
    BY <1>2, <2>2 DEF Behind
  <2>3. CASE obj' = task'[cur']
    BY <2>3 DEF Behind
  <2> QED
    BY <1>3, <2>1, <2>2, <2>3, CopySources
<1> QED
  BY <1>2, <1>3 DEF CopiesBehind
-----------------------------------------------------------------------------
(* What may become of a task's Job and of the cache's view of it.          *)

Moves ==
    {<<"waiting", "active">>, <<"active", "backoff">>, <<"backoff", "active">>,
     <<"active", "succeeded">>, <<"backoff", "failed">>}

JobRuns(t) ==
    /\ <<job[t].status, job'[t].status>> \in Moves
    /\ job'[t].status = "backoff" => t \in Fragile

JobMade(t) ==
    pc = "ensureJob" /\ cur = t /\ jobCache[t] = "absent" /\ job'[t].status = "waiting"

JobLost(t) ==
    /\ job'[t] = NoJob
    /\ (pc = "deleteJob" /\ cur = t) \/ Disturb \/ job[t].owner \notin {0, task[t].uid}

JobChange(t) ==
    \/ job'[t] = job[t] /\ jobCache'[t] \in {jobCache[t], JobView(job[t])}
    \/ jobCache'[t] = jobCache[t] /\ (JobRuns(t) \/ JobMade(t) \/ JobLost(t))

LEMMA WorkerChangesJob ==
  ASSUME Guarded, HandlerStep, NEW t \in Tasks
  PROVE  JobChange(t)
<1>1. Store /\ Worker(WorkSteps) /\ job \in [Tasks -> [owner: 0..MaxIncarnations,
                                                         status: JobStatuses]]
  BY GuardedParts DEF Store, JobTypeOK
<1>2. CASE UNCHANGED jobVars
  BY <1>2 DEF jobVars, JobChange
<1>3. CASE EnsureJob
  <2>1. /\ pc = "ensureJob" /\ UNCHANGED jobCache /\ cur \in Tasks
        /\ \/ job' = job
           \/ /\ jobCache[cur] = "absent"
              /\ job' = [job EXCEPT ![cur] = [owner |-> obj.uid, status |-> "waiting"]]
    BY <1>1, <1>3, InHand DEF EnsureJob, EnsureJobThen, Create
  <2> QED
    BY <1>1, <2>1 DEF JobChange, JobMade
<1>4. CASE DeleteJob
  <2>1. /\ pc = "deleteJob" /\ UNCHANGED jobCache /\ cur \in Tasks
        /\ job' = job \/ job' = [job EXCEPT ![cur] = NoJob]
    BY <1>1, <1>4, InHand DEF DeleteJob, DeleteJobThen
  <2> QED
    BY <1>1, <2>1 DEF JobChange, JobLost
<1>5. CASE AddFinalizer \/ LabelTask \/ StartTask \/ CheckJob \/ UpdateStatus
               \/ StampEndTime \/ RemoveFinalizer
  BY <1>2, <1>5
  DEF AddFinalizer, LabelTask, StartTask, CheckJob, UpdateStatus, StampEndTime, RemoveFinalizer
<1> QED
  BY <1>3, <1>4, <1>5 DEF HandlerStep

LEMMA ClusterChangesJob ==
  ASSUME Guarded, NEW u \in Tasks, Cluster(u), NEW t \in Tasks
  PROVE  JobChange(t)
<1>1. job \in [Tasks -> [owner: 0..MaxIncarnations, status: JobStatuses]]
  BY DEF Guarded, TypeOK, JobTypeOK
<1>2. ASSUME NEW j, JobBecomes(u, j)
      PROVE  jobCache'[t] = jobCache[t] /\ job'[t] = IF t = u THEN j ELSE job[t]
  BY <1>1, <1>2 DEF JobBecomes
<1>3. ASSUME NEW from, NEW to, JobMoves(u, from, to), <<from, to>> \in Moves,
             to = "backoff" => u \in Fragile
      PROVE  JobChange(t)
  BY <1>1, <1>2, <1>3 DEF JobMoves, JobChange, JobRuns
<1>4. CASE JobStarts(u)
  BY <1>3, <1>4 DEF JobStarts, Moves
<1>5. CASE PodFails(u)
  BY <1>3, <1>5 DEF PodFails, Moves
<1>6. CASE PodRetried(u)
  BY <1>3, <1>6 DEF PodRetried, Moves
<1>7. CASE JobEnds(u)
  BY <1>3, <1>7 DEF JobEnds, Moves
<1>8. CASE GarbageCollect(u)
  BY <1>2, <1>8 DEF GarbageCollect, JobChange, JobLost
<1>9. CASE JobVanishes(u)
  BY <1>2, <1>9 DEF JobVanishes, JobChange, JobLost
<1> QED
  BY <1>4, <1>5, <1>6, <1>7, <1>8, <1>9 DEF Cluster

LEMMA JobChanges ==
  ASSUME Guarded, [Next]_vars, NEW t \in Tasks
  PROVE  JobChange(t)
<1>1. CASE UNCHANGED jobVars
  BY <1>1 DEF jobVars, JobChange
<1>2. CASE Restart \/ UNCHANGED vars
  BY <1>1, <1>2 DEF Restart, vars
<1>3. ASSUME NEW u \in Tasks, Reconcile(u) \/ Resync(u) \/ SyncTaskObject(u) \/ Users(u)
      PROVE  JobChange(t)
  BY <1>1, <1>3 DEF Reconcile, Resync, SyncTaskObject, Users
<1>4. ASSUME NEW u \in Tasks, SyncJob(u)
      PROVE  JobChange(t)
  BY <1>4 DEF SyncJob, JobChange, Guarded, TypeOK, JobTypeOK
<1> QED
  BY <1>2, <1>3, <1>4, WorkerChangesJob, ClusterChangesJob DEF Next

LEMMA BudgetFalls ==
  ASSUME Guarded, [Next]_vars
  PROVE  budget' = budget \/ Disturb
<1>1. CASE HandlerStep
  BY <1>1
  DEF HandlerStep, AddFinalizer, LabelTask, StartTask, UpdateStatus, StampEndTime,
      RemoveFinalizer, UpdateTask, Accepted, Failed, EnsureJob, EnsureJobThen, Create,
      CheckJob, WriteMessage, DeleteJob, DeleteJobThen
<1>2. CASE Restart \/ UNCHANGED vars
  BY <1>2 DEF Restart, RestartWorker, vars, controllerVars
<1>3. ASSUME NEW t \in Tasks, Reconcile(t) \/ Resync(t) \/ SyncTaskObject(t) \/ SyncJob(t)
      PROVE  budget' = budget
  BY <1>3
  DEF Reconcile, Dispatch, Resync, OtherEvent, SyncTaskObject, SyncTask, SyncJob
<1>4. ASSUME NEW t \in Tasks, Users(t) \/ Cluster(t)
      PROVE  budget' = budget \/ Disturb
  BY <1>4
  DEF Users, UserCreate, UserDelete, UserTouch, Cluster, JobStarts, PodFails, PodRetried,
      JobEnds, JobMoves, GarbageCollect, JobVanishes
<1> QED
  BY <1>1, <1>2, <1>3, <1>4 DEF Next

\* Only Jobs with fragile pods are ever seen to have failed pods, and the cache
\* shows no Job of a task that was never created.
CacheSane ==
    \A t \in Tasks :
        /\ job[t].status \in {"backoff", "failed"} => t \in Fragile
        /\ jobCache[t] \in {"backoff", "failed"} => t \in Fragile
        /\ created[t] = 0 => jobCache[t] = "absent"

LEMMA CacheStaysSane ==
  ASSUME Guarded, CacheSane, Onward, [Next]_vars
  PROVE  CacheSane'
<1> SUFFICES ASSUME NEW t \in Tasks
             PROVE  /\ job'[t].status \in {"backoff", "failed"} => t \in Fragile
                    /\ jobCache'[t] \in {"backoff", "failed"} => t \in Fragile
                    /\ created'[t] = 0 => jobCache'[t] = "absent"
  BY DEF CacheSane
<1>1. /\ job[t].status \in {"backoff", "failed"} => t \in Fragile
      /\ jobCache[t] \in {"backoff", "failed"} => t \in Fragile
      /\ created[t] = 0 => jobCache[t] = "absent"
      /\ JobChange(t) /\ created[t] \in Nat /\ job[t].owner \in Nat
      /\ created'[t] \in {created[t], created[t] + 1} /\ job[t].owner <= created[t]
  BY JobChanges, GuardedParts, Numbers DEF CacheSane, Onward, Store, JobOwned
<1>2. JobView(job[t]) \in {"absent", job[t].status}
  BY DEF JobView
<1>3. job'[t].status \in {"backoff", "failed"} => t \in Fragile
  BY <1>1 DEF JobChange, JobRuns, JobMade, JobLost, Moves, NoJob
<1>4. jobCache'[t] \in {"backoff", "failed"} => t \in Fragile
  BY <1>1, <1>2 DEF JobChange
<1>5. created'[t] = 0 => created[t] = 0 /\ JobView(job[t]) = "absent"
  BY <1>1 DEF JobView
<1> QED
  BY <1>1, <1>3, <1>4, <1>5 DEF JobChange
-----------------------------------------------------------------------------
(* The task the outcome is about, and what is known of its Job.            *)

First(t) ==
    /\ created[t] = 1 /\ budget = MaxDisturbances
    /\ task[t].uid = 1 /\ ~task[t].del /\ task[t].phase \notin Terminal

\* What the cache shows of the Job is still so.
Shown(t) ==
    /\ jobCache[t] = "succeeded" => job[t].status = "succeeded"
    /\ jobCache[t] \in {"backoff", "failed"} => job[t].status # "waiting"

\* The Job bears the outcome out.
Decided(t, phase) ==
    /\ phase = "completed" => job[t].status = "succeeded"
    /\ phase = "failed" => t \in Fragile /\ job[t].status # "waiting"

Deciding == pc = "status" /\ objFresh /\ created[cur] = 1 /\ budget = MaxDisturbances

Evidence ==
    /\ CopiesBehind /\ CacheSane
    /\ \A t \in Tasks : First(t) => Shown(t)
    /\ Deciding => Decided(cur, obj.phase)

\* A task was the first of its name before the step, if it was there.
LEMMA FirstBefore ==
  ASSUME Guarded, Guarded', Onward, [Next]_vars, NEW t \in Tasks, First(t)'
  PROVE  (First(t) \/ created[t] = 0) /\ budget' = budget
<1>1. /\ created[t] \in Nat /\ created'[t] \in {created[t], created[t] + 1} /\ created'[t] = 1
      /\ budget \in Nat /\ budget <= MaxDisturbances /\ budget' = MaxDisturbances
  BY GuardedParts, Numbers, BoundsAssumption DEF First, Onward, Store, StoreTypeOK
<1>2. budget' = budget
  BY <1>1, BudgetFalls DEF Disturb
<1>3. ASSUME created[t] = 1
      PROVE  First(t)
  <2>1. 1 \in 1..created[t] /\ task'[t].uid = 1
    BY <1>3 DEF First
  <2>2. /\ 1 = task[t].uid
        /\ task[t].del => task'[t].del
        /\ task[t].phase \in Terminal => task'[t].phase \in Terminal
    BY <2>1 DEF Onward
  <2> QED
    BY <1>1, <1>2, <1>3, <2>2 DEF First
<1> QED
  BY <1>1, <1>2, <1>3

\* The Job of such a task is not taken away.
LEMMA JobStays ==
  ASSUME Guarded, CopiesBehind, [Next]_vars, budget' = budget, NEW t \in Tasks, First(t)
  PROVE  \/ job'[t] = job[t] /\ jobCache'[t] \in {jobCache[t], JobView(job[t])}
         \/ jobCache'[t] = jobCache[t] /\ (JobRuns(t) \/ JobMade(t))
<1>1. ~Disturb
  BY GuardedParts, BoundsAssumption DEF Disturb, Store, StoreTypeOK
<1>2. job[t].owner \in {0, task[t].uid}
  BY GuardedParts, Numbers DEF First, Store, JobOwned
<1>3. ~(pc = "deleteJob" /\ cur = t)
  <2> SUFFICES ASSUME pc = "deleteJob", cur = t
               PROVE  FALSE
    OBVIOUS
  <2>1. /\ obj.uid \in 1..created[cur] /\ (obj.del \/ obj.phase \in Terminal)
        /\ Behind(obj, cur)
    BY GuardedParts, InHand DEF CopiesBehind, CleanupSteps
  <2> QED
    BY <2>1 DEF Behind, First
<1>4. ~JobLost(t)
  BY <1>1, <1>2, <1>3 DEF JobLost
<1> QED
  BY <1>4, JobChanges DEF JobChange

LEMMA ShownStays ==
  ASSUME Guarded, Guarded', Onward, Evidence, [Next]_vars, NEW t \in Tasks, First(t)'
  PROVE  Shown(t)'
<1>1. First(t) \/ created[t] = 0
  BY FirstBefore
<1>2. CASE created[t] = 0
  <2>1. jobCache[t] = "absent" /\ JobView(job[t]) = "absent"
    BY <1>2, GuardedParts, Numbers DEF Evidence, CacheSane, Store, JobOwned, JobView
  <2>2. jobCache'[t] = "absent"
    BY <2>1, JobChanges DEF JobChange
  <2> QED
    BY <2>2 DEF Shown
<1>3. CASE First(t)
  <2>1. Shown(t) /\ budget' = budget /\ CopiesBehind
    BY <1>3, FirstBefore DEF Evidence
  <2>2. CASE job'[t] = job[t] /\ jobCache'[t] \in {jobCache[t], JobView(job[t])}
    BY <2>1, <2>2 DEF Shown, JobView
  <2>3. CASE jobCache'[t] = jobCache[t] /\ JobRuns(t)
    BY <2>1, <2>3 DEF Shown, JobRuns, Moves
  <2>4. CASE jobCache'[t] = jobCache[t] /\ JobMade(t)
    BY <2>4 DEF Shown, JobMade
  <2> QED
    BY <1>3, <2>1, <2>2, <2>3, <2>4, JobStays
<1> QED
  BY <1>1, <1>2, <1>3

\* How the worker comes to write an outcome.
LEMMA StatusSources ==
  ASSUME Guarded, [Next]_vars, pc' = "status", objFresh'
  PROVE  \/ pc = "status" /\ objFresh /\ UNCHANGED <<cur, obj>>
         \/ /\ CheckJob /\ objFresh
            /\ \/ jobCache[cur] = "succeeded" /\ Conclude("completed")
               \/ jobCache[cur] \in {"backoff", "failed"} /\ Conclude("failed")
            /\ UNCHANGED budget
<1>1. CASE CheckJob
  BY <1>1 DEF CheckJob, WriteMessage, Conclude, Continue, Retry, Return
<1>2. CASE \/ AddFinalizer \/ LabelTask \/ StartTask \/ EnsureJob
           \/ UpdateStatus \/ StampEndTime \/ DeleteJob \/ RemoveFinalizer
  BY <1>2
  DEF AddFinalizer, LabelTask, StartTask, EnsureJob, EnsureJobThen, Create, UpdateStatus,
      StampEndTime, DeleteJob, DeleteJobThen, RemoveFinalizer, UpdateTask, Continue, Done,
      Retry, Return
<1>3. CASE Restart
  BY <1>3 DEF Restart, RestartWorker
<1>4. ASSUME NEW t \in Tasks, Reconcile(t)
      PROVE  pc = "status" /\ objFresh /\ UNCHANGED <<cur, obj>>
  <2>1. EntryStep(cache[t]) # "idle" => EntryStep(cache[t]) # "status"
    BY EntryKnown DEF Guarded, TypeOK, StoreTypeOK
  <2> QED
    BY <1>4, <2>1 DEF Reconcile, Dispatch, workerVars
<1>5. ASSUME NEW t \in Tasks, Bystander(t)
      PROVE  pc = "status" /\ objFresh /\ UNCHANGED <<cur, obj>>
  BY <1>5, BystanderLeaves DEF workerVars
<1>6. ASSUME NEW t \in Tasks, Users(t)
      PROVE  pc = "status" /\ objFresh /\ UNCHANGED <<cur, obj>>
  BY <1>6 DEF Users, UserCreate, UserDelete, UserTouch, Overwrite
<1>7. CASE UNCHANGED vars
  BY <1>7 DEF vars, controllerVars, workerVars
<1> QED
  BY <1>1, <1>2, <1>3, <1>4, <1>5, <1>6, <1>7 DEF Next, HandlerStep, Bystander

LEMMA DecidedStays ==
  ASSUME Guarded, Guarded', HandlerKnows, Onward, Evidence, [Next]_vars, Deciding'
  PROVE  Decided(cur, obj.phase)'
<1>1. /\ pc' = "status" /\ objFresh' /\ created'[cur'] = 1 /\ budget' = MaxDisturbances
      /\ budget \in Nat /\ budget <= MaxDisturbances
  BY GuardedParts, BoundsAssumption DEF Deciding, Store, StoreTypeOK
<1>2. budget' = budget
  BY <1>1, BudgetFalls DEF Disturb
<1>3. ASSUME pc \in {"checkJob", "status"}, objFresh, cur' = cur
      PROVE  First(cur) /\ created[cur] = 1 /\ cur \in Tasks
  <2>1. /\ cur \in Tasks /\ obj \in TaskObjects /\ obj.uid \in 1..created[cur]
        /\ created[cur] \in Nat /\ created'[cur] \in {created[cur], created[cur] + 1}
    BY <1>3, GuardedParts, InHand, Numbers DEF Onward
  <2>2. created[cur] = 1 /\ obj.uid = 1
    BY <1>1, <1>3, <2>1
  <2>3. task[cur].uid = obj.uid /\ task[cur].phase = "running" /\ task[cur].del = obj.del
        /\ ~obj.del
    BY <1>3, <2>1 DEF HandlerKnows, Known, TaskObjects
  <2> QED
    BY <1>1, <1>2, <2>1, <2>2, <2>3 DEF First, Terminal
<1>4. CASE pc = "status" /\ objFresh /\ UNCHANGED <<cur, obj>>
  <2>1. First(cur) /\ Decided(cur, obj.phase) /\ cur \in Tasks /\ CopiesBehind
    BY <1>1, <1>2, <1>3, <1>4 DEF Evidence, Deciding
  <2>2. ~JobMade(cur)
    BY <1>4 DEF JobMade
  <2>3. job'[cur] = job[cur] \/ JobRuns(cur)
    BY <1>2, <2>1, <2>2, JobStays
  <2> QED
    BY <1>4, <2>1, <2>3 DEF Decided, JobRuns, Moves
<1>5. ASSUME CheckJob, objFresh,
             \/ jobCache[cur] = "succeeded" /\ Conclude("completed")
             \/ jobCache[cur] \in {"backoff", "failed"} /\ Conclude("failed")
      PROVE  Decided(cur, obj.phase)'
  <2>1. /\ pc = "checkJob" /\ UNCHANGED job /\ cur' = cur /\ obj \in TaskObjects
        /\ \/ jobCache[cur] = "succeeded" /\ obj'.phase = "completed"
           \/ jobCache[cur] \in {"backoff", "failed"} /\ obj'.phase = "failed"
    BY <1>5 DEF CheckJob, Conclude, Continue, jobVars, Guarded, TypeOK, WorkerTypeOK, TaskObjects
  <2>2. First(cur) /\ cur \in Tasks
    BY <1>3, <1>5, <2>1
  <2>3. Shown(cur) /\ (jobCache[cur] \in {"backoff", "failed"} => cur \in Fragile)
    BY <2>2 DEF Evidence, CacheSane
  <2> QED
    BY <2>1, <2>3 DEF Decided, Shown
<1> QED
  BY <1>1, <1>4, <1>5, StatusSources

LEMMA EvidenceStays ==
  ASSUME Guarded, Guarded', HandlerKnows, Evidence, [Next]_vars
  PROVE  Evidence'
<1>1. Onward
  BY StepRefines, LifeGoesOn DEF Guarded, TypeOK, StoreTypeOK
<1>2. CopiesBehind' /\ CacheSane'
  BY <1>1, CopiesStayBehind, CacheStaysSane DEF Evidence
<1>3. \A t \in Tasks : First(t)' => Shown(t)'
  BY <1>1, ShownStays
<1>4. Deciding' => Decided(cur, obj.phase)'
  BY <1>1, DecidedStays
<1> QED
  BY <1>2, <1>3, <1>4 DEF Evidence

\* Only UpdateStatus ends a running task.
LEMMA EndsByUpdate ==
  ASSUME Guarded, HandlerKnows, [Next]_vars, NEW t \in Tasks,
         task[t].phase = "running", task'[t].phase \in Terminal
  PROVE  pc = "status" /\ objFresh /\ cur = t /\ task'[t] = obj
<1>1. task \in [Tasks -> TaskObjects] /\ "running" \notin Terminal
  BY DEF Guarded, TypeOK, StoreTypeOK, Terminal
<1>2. task' # task
  BY <1>1
<1>3. ASSUME NEW new, Accepted(objFresh, new) \/ Failed(objFresh, new)
      PROVE  objFresh /\ cur = t /\ task'[t] = new
  BY <1>1, <1>2, <1>3 DEF Accepted, Failed, StoredFrom
<1>4. CASE HandlerStep
  <2>1. CASE UpdateStatus
    BY <1>3, <2>1 DEF UpdateStatus, UpdateTask
  <2>2. CASE EnsureJob \/ CheckJob \/ DeleteJob
    BY <1>2, <2>2 DEF EnsureJob, EnsureJobThen, CheckJob, DeleteJob, DeleteJobThen, storeVars
  <2>3. CASE AddFinalizer \/ LabelTask \/ StartTask \/ StampEndTime \/ RemoveFinalizer
    <3>1. pc \notin {"idle", "status"} /\ obj \in TaskObjects
      BY <2>3
      DEF AddFinalizer, LabelTask, StartTask, StampEndTime, RemoveFinalizer, Guarded, TypeOK,
          WorkerTypeOK
    <3>2. PICK new : /\ Accepted(objFresh, new) \/ Failed(objFresh, new)
                     /\ new.phase \in {obj.phase, "running", Unset}
      BY <2>3, <3>1
      DEF AddFinalizer, LabelTask, StartTask, StampEndTime, RemoveFinalizer, UpdateTask,
          TaskObjects, Absent, NewTask
    <3>3. objFresh /\ cur = t /\ task'[t] = new
      BY <1>3, <3>2
    <3>4. task[t] = obj
      BY <3>1, <3>3 DEF HandlerKnows
    <3> QED
      BY <3>2, <3>3, <3>4 DEF Terminal, Unset
  <2> QED
    BY <1>4, <2>1, <2>2, <2>3 DEF HandlerStep
<1>5. CASE Restart \/ UNCHANGED vars
  BY <1>2, <1>5 DEF Restart, RestartWorker, vars, controllerVars, storeVars
<1>6. ASSUME NEW u \in Tasks, Reconcile(u) \/ Bystander(u)
      PROVE  FALSE
  BY <1>2, <1>6, BystanderLeaves DEF Reconcile, Dispatch, storeVars
<1>7. ASSUME NEW u \in Tasks, Users(u)
      PROVE  FALSE
  <2>1. ASSUME NEW new, Overwrite(u, new)
        PROVE  u = t /\ task'[t] = new
    BY <1>1, <1>2, <2>1 DEF Overwrite
  <2>2. CASE UserCreate(u)
    <3>1. task'[t] = NewTask(created[u] + 1)
      BY <2>1, <2>2 DEF UserCreate
    <3>2. NewTask(created[u] + 1).phase = Unset
      BY DEF NewTask
    <3> QED
      BY <3>1, <3>2 DEF Unset, Terminal
  <2>3. CASE UserDelete(u)
    <3>1. u = t /\ task'[t] = Deleted(task[t])
      BY <2>1, <2>3 DEF UserDelete
    <3>2. Deleted(task[t]).phase \in {task[t].phase, Unset}
      BY <1>1 DEF Deleted, Absent, NewTask, TaskObjects
    <3> QED
      BY <1>1, <3>1, <3>2 DEF Unset, Terminal
  <2>4. CASE UserTouch(u)
    BY <1>1, <2>1, <2>4 DEF UserTouch
  <2> QED
    BY <1>7, <2>2, <2>3, <2>4 DEF Users
<1> QED
  BY <1>4, <1>5, <1>6, <1>7 DEF Next, Bystander

\* The first task of its name, undisturbed, is completed only if its Job has
\* succeeded, and fails only if a pod of the Job could fail and one was started,
\* however old the copies of the Job and of the task are that checkJobStatus
\* goes by (evaltask_controller.go:149-183).
THEOREM EvalOutcomeFollowsJob == Spec => OutcomeFollowsJob
<1>1. Init => HandlerKnows /\ Evidence
  BY DEF Init, ControllerInit, HandlerKnows, Evidence, CopiesBehind, CacheSane, Shown, First,
         Deciding, NoJob, Exists, Absent, NewTask
<1>2. Guarded /\ HandlerKnows /\ [Next]_vars => HandlerKnows'
  BY StepKnows
<1>3. Guarded /\ Guarded' /\ HandlerKnows /\ Evidence /\ [Next]_vars => Evidence'
  BY EvidenceStays
<1>4. ASSUME Guarded, HandlerKnows, Evidence, [Next]_vars, NEW t \in Tasks,
             task[t].phase = "running", created[t] = 1, budget = MaxDisturbances
      PROVE  /\ task'[t].phase = "completed" => job[t].status = "succeeded"
             /\ task'[t].phase = "failed" => t \in Fragile /\ job[t].status # "waiting"
  <2>1. task'[t].phase \in Terminal => Deciding /\ cur = t /\ task'[t] = obj
    BY <1>4, EndsByUpdate DEF Deciding
  <2>2. task'[t].phase \in Terminal => Decided(t, task'[t].phase)
    BY <1>4, <2>1 DEF Evidence
  <2> QED
    BY <2>2 DEF Decided, Terminal
<1>5. Spec => []Guarded
  BY EvalTaskGuarded
<1>6. Guarded /\ HandlerKnows /\ Evidence /\ [Next]_vars =>
        [\A t \in Tasks :
            task[t].phase = "running" /\ created[t] = 1 /\ budget = MaxDisturbances =>
                /\ task'[t].phase = "completed" => job[t].status = "succeeded"
                /\ task'[t].phase = "failed" => t \in Fragile /\ job[t].status # "waiting"]_vars
  BY <1>4
<1> QED
  BY <1>1, <1>2, <1>3, <1>5, <1>6, PTL DEF Spec, OutcomeFollowsJob
-----------------------------------------------------------------------------
(* No wake-up is lost.                                                     *)

LEMMA StepTended ==
  ASSUME Guarded, HandlerKnows, Tended, [Next]_vars
  PROVE  Tended'
<1>1. Store /\ Worker(WorkSteps) /\ "idle" \notin WorkSteps
  BY GuardedParts DEF WorkSteps
<1>2. CASE AddFinalizer \/ StartTask \/ RemoveFinalizer \/ LabelTask \/ StampEndTime
  BY <1>1, <1>2, JobStepTended
<1>3. CASE EnsureJob \/ CheckJob \/ DeleteJob
  <2>1. UNCHANGED task /\ (fresh' = fresh \/ fresh' = fresh \ {cur})
    BY <1>3
    DEF EnsureJob, EnsureJobThen, CheckJob, WriteMessage, DeleteJob, DeleteJobThen, storeVars
  <2>2. Retry \/ \E p, o : Continue(p, o)
    BY <1>3
    DEF EnsureJob, EnsureJobThen, Create, CheckJob, WriteMessage, Conclude, DeleteJob,
        DeleteJobThen
  <2> QED
    BY <2>1, <2>2, BusyTended
<1>4. CASE UpdateStatus
  <2>1. cur \in Tasks /\ obj \in TaskObjects /\ ~obj.del /\ obj.phase \in Terminal
    BY <1>1, <1>4, InHand DEF UpdateStatus, HandlerKnows, Known
  <2>2. Fit(obj)
    BY <2>1 DEF Fit, Terminal
  <2>3. Retry /\ (Accepted(objFresh, obj) \/ Failed(objFresh, obj))
    BY <1>4 DEF UpdateStatus, UpdateTask
  <2> QED
    BY <1>1, <2>1, <2>2, <2>3, WriteTended
<1>5. CASE Restart
  BY <1>1, <1>5, RestartTended
<1>6. ASSUME NEW t \in Tasks, Reconcile(t) \/ Bystander(t) \/ Users(t)
      PROVE  Tended'
  BY <1>1, <1>6, ReconcileTended, BystanderTended, UsersTended
<1>7. CASE UNCHANGED vars
  BY <1>7, UntouchedTended DEF vars, controllerVars, storeVars, workerVars
<1> QED
  BY <1>2, <1>3, <1>4, <1>5, <1>6, <1>7 DEF Next, HandlerStep, Bystander

\* An EvalTask that needs its controller is in the worker's hands, in the queue
\* or has an event undelivered, although the handlers that add or remove the
\* finalizer and the one that starts the task return without asking to be
\* called again (evaltask_controller.go:77, 119, 207).
THEOREM EvalTaskWakes == Spec => []NoLostWakeup
<1>1. Init => HandlerKnows /\ Tended
  BY InitTended DEF Init, ControllerInit, HandlerKnows
<1>2. Guarded /\ HandlerKnows /\ [Next]_vars => HandlerKnows'
  BY StepKnows
<1>3. Guarded /\ HandlerKnows /\ Tended /\ [Next]_vars => Tended'
  BY StepTended
<1>4. Tended => NoLostWakeup
  BY DEF Tended
<1> QED
  BY <1>1, <1>2, <1>3, <1>4, EvalTaskGuarded, PTL DEF Spec
=============================================================================
