--------------------------- MODULE JobTaskProofs ---------------------------
(***************************************************************************)
(* Facts about the actions of JobTask, for the proofs about EvalTask and   *)
(* FineTuneTask: the guard of the finalizer, what cleanup can miss, the    *)
(* lifecycle, and wake-ups.  A task `Holds` on to what was made for it     *)
(* when it has the finalizer or is finished; the argument is that no write *)
(* takes that from a task that lives on.                                   *)
(***************************************************************************)
EXTENDS JobTask, TaskControllerProofs

Holds(o) == o.fin \/ o.phase \in Terminal

\* What the store's part and the worker's part of the invariant say.
Store == StoreTypeOK /\ JobTypeOK /\ CachesAgree /\ JobOwned /\ FinalizerGuardsJob
Worker(steps) == WorkerTypeOK(steps) /\ HandlerGuarded

\* An object made for a task before the step is made for it still, if the task
\* is there, and still held.
Carried ==
    \A t \in Tasks :
        /\ created'[t] \in {created[t], created[t] + 1}
        /\ \A uid \in 1..created[t] :
              uid = task'[t].uid =>
                  uid = task[t].uid /\ (Holds(task[t]) => Holds(task'[t]))

LEMMA Numbers ==
  ASSUME Store
  PROVE  \A t \in Tasks :
            /\ created[t] \in Nat /\ task[t].uid \in Nat /\ cache[t].uid \in Nat
            /\ job[t].owner \in Nat
  BY BoundsAssumption DEF Store, StoreTypeOK, JobTypeOK, TaskObjects

LEMMA UnchangedCarries ==
  ASSUME Store, UNCHANGED <<task, created>>
  PROVE  Carried
  BY DEF Carried

-----------------------------------------------------------------------------
(* What follows from Carried.                                              *)

LEMMA JobCarried ==
  ASSUME Store, Carried, UNCHANGED job
  PROVE  JobOwned' /\ FinalizerGuardsJob'
<1>1. \A t \in Tasks : created[t] \in Nat /\ job[t].owner \in Nat
  BY Numbers
<1>2. JobOwned'
  BY <1>1 DEF Store, Carried, JobOwned
<1>3. ASSUME NEW t \in Tasks, job[t].owner = task'[t].uid, job[t] # NoJob
      PROVE  Holds(task'[t])
  <2>1. job[t].owner \in 1..created[t]
    BY <1>1, <1>3 DEF Store, JobOwned
  <2>2. job[t].owner = task[t].uid /\ (Holds(task[t]) => Holds(task'[t]))
    BY <1>3, <2>1 DEF Carried
  <2>3. Holds(task[t])
    BY <1>3, <2>2 DEF Store, FinalizerGuardsJob, Holds
  <2> QED
    BY <2>2, <2>3
<1>4. FinalizerGuardsJob'
  BY <1>3 DEF FinalizerGuardsJob, Holds
<1> QED
  BY <1>2, <1>4

LEMMA CopyCarried ==
  ASSUME Store, Carried, NEW t \in Tasks, NEW o, o.uid \in 1..created[t], Kept(o, t)
  PROVE  /\ o.uid \in 1..created'[t]
         /\ o.uid = task'[t].uid /\ o.fin => Holds(task'[t])
<1>1. o.uid \in 1..created'[t]
  BY Numbers DEF Carried
<1>2. ASSUME o.uid = task'[t].uid, o.fin
      PROVE  Holds(task'[t])
  BY <1>2 DEF Carried, Kept, Holds
<1> QED
  BY <1>1, <1>2

\* The handler's copy, when the handler keeps it while others write.
LEMMA HandlerCarried ==
  ASSUME NEW steps, Store, Worker(steps), Carried,
         UNCHANGED <<cur, pc, obj>>,
         objFresh' => objFresh /\ (pc # "idle" => task'[cur].uid = task[cur].uid)
  PROVE  HandlerGuarded'
<1> SUFFICES ASSUME pc # "idle" PROVE HandlerGuarded'
  BY DEF HandlerGuarded
<1>1. cur \in Tasks /\ obj.uid \in 1..created[cur] /\ Kept(obj, cur)
  BY DEF Worker, WorkerTypeOK, HandlerGuarded
<1>2. /\ obj.uid \in 1..created'[cur]
      /\ obj.uid = task'[cur].uid /\ obj.fin => Holds(task'[cur])
  BY <1>1, CopyCarried
<1>3. obj' = obj /\ cur' = cur /\ pc' = pc
  OBVIOUS
<1>4. Kept(obj, cur)'
  BY <1>2, <1>3 DEF Kept, Holds
<1>5. objFresh' => obj'.uid = task'[cur'].uid
  BY <1>3 DEF Worker, HandlerGuarded
<1> QED
  BY <1>2, <1>3, <1>4, <1>5 DEF Worker, HandlerGuarded

\* The handler goes on with a copy o that carries the finalizer.
LEMMA ContinueGuarded ==
  ASSUME NEW steps, Store, Worker(steps), pc # "idle", pc # "addFinalizer",
         NEW p, NEW o, Continue(p, o), o.uid = obj.uid, o.fin,
         p \in CleanupSteps => o.del \/ o.phase \in Terminal,
         UNCHANGED created,
         task'[cur].uid = task[cur].uid,
         Holds(task[cur]) => Holds(task'[cur])
  PROVE  HandlerGuarded'
<1>1. /\ cur \in Tasks /\ obj.uid \in 1..created[cur] /\ Kept(obj, cur) /\ obj.fin
      /\ objFresh => obj.uid = task[cur].uid
  BY DEF Worker, WorkerTypeOK, HandlerGuarded
<1>2. created[cur] \in Nat
  BY <1>1, Numbers
<1>3. obj' = o /\ cur' = cur /\ pc' = p /\ objFresh' = objFresh /\ created' = created
  BY DEF Continue
<1>4. Kept(obj, cur)'
  BY <1>1, <1>2, <1>3 DEF Kept, Holds
<1>5. obj'.uid \in 1..created'[cur'] /\ (objFresh' => obj'.uid = task'[cur'].uid)
  BY <1>1, <1>3
<1> QED
  BY <1>3, <1>4, <1>5 DEF HandlerGuarded

LEMMA ReturnGuarded ==
  ASSUME Done \/ Retry
  PROVE  HandlerGuarded'
  BY DEF Done, Retry, Return, HandlerGuarded

-----------------------------------------------------------------------------
(* Writes to the task.                                                     *)

\* A write that removes the object, or takes nothing from it.
Safe(old, new) ==
    new = Absent \/ (new.uid = old.uid /\ (Holds(old) => Holds(new)))

LEMMA UpdateStore ==
  ASSUME Store, cur \in Tasks, NEW f, NEW new \in TaskObjects,
         f => Safe(task[cur], new),
         Accepted(f, new) \/ Failed(f, new),
         UNCHANGED <<created, cache, jobVars>>
  PROVE  Store' /\ Carried
<1>1. StoreTypeOK' /\ JobTypeOK'
  BY UpdateStoreType DEF Store, JobTypeOK, jobVars
<1>2. CASE UNCHANGED <<task, fresh>>
  <2>1. CachesAgree'
    BY <1>2 DEF Store, CachesAgree, Kept, Exists
  <2>2. Carried /\ JobOwned' /\ FinalizerGuardsJob'
    BY <1>2, UnchangedCarries, JobCarried DEF jobVars
  <2> QED
    BY <1>1, <2>1, <2>2 DEF Store
<1>3. CASE StoredFrom(f, new)
  <2>1. /\ Safe(task[cur], new) /\ task'[cur] = new
        /\ \A t \in Tasks : t # cur => task'[t] = task[t] /\ (t \in fresh <=> t \in fresh')
        /\ cur \in fresh' => cur \in fresh /\ new = task[cur]
    BY <1>3 DEF StoredFrom, Store, StoreTypeOK
  <2>2. Carried
    <3> SUFFICES ASSUME NEW t \in Tasks, NEW uid \in 1..created[t], uid = task'[t].uid
                 PROVE  uid = task[t].uid /\ (Holds(task[t]) => Holds(task'[t]))
      BY DEF Carried
    <3>1. uid # 0
      BY Numbers
    <3> QED
      BY <2>1, <3>1, AbsentType DEF Safe
  <2>3. JobOwned' /\ FinalizerGuardsJob'
    BY <2>2, JobCarried DEF jobVars
  <2>4. ASSUME NEW t \in Tasks
        PROVE  /\ task'[t].uid \in {0, created'[t]}
               /\ cache'[t].uid <= created'[t]
               /\ t \in fresh' => cache'[t] = task'[t]
    <3>1. task[t].uid \in {0, created[t]} /\ cache[t].uid <= created[t]
          /\ (t \in fresh => cache[t] = task[t])
      BY DEF Store, CachesAgree
    <3> QED
      BY <2>1, <3>1, AbsentType DEF Safe
  <2>5. ASSUME NEW t \in Tasks, Exists(cache[t])
        PROVE  Kept(cache[t], t)'
    <3>1. Kept(cache[t], t) /\ cache[t].uid \in 1..created[t] /\ cache'[t] = cache[t]
      BY <2>5, Numbers DEF Store, CachesAgree, Exists
    <3>2. cache[t].uid = task'[t].uid /\ cache[t].fin => Holds(task'[t])
      BY <2>2, <3>1, CopyCarried
    <3> QED
      BY <3>1, <3>2 DEF Kept, Holds
  <2>6. CachesAgree'
    BY <2>4, <2>5 DEF CachesAgree, Exists
  <2> QED
    BY <1>1, <2>2, <2>3, <2>6 DEF Store
<1> QED
  BY <1>2, <1>3 DEF Accepted, Failed

\* Somebody else's write: a safe one, or a new object under a free name.
Intruded(t, new) ==
    \/ Safe(task[t], new) /\ UNCHANGED created
    \/ /\ created' = [created EXCEPT ![t] = @ + 1]
       /\ new.uid = created[t] + 1

LEMMA OverwriteOK ==
  ASSUME NEW steps, Store, Worker(steps), NEW t \in Tasks, NEW new \in TaskObjects,
         Overwrite(t, new), Intruded(t, new),
         created' \in [Tasks -> 0..MaxIncarnations], budget' \in 0..MaxDisturbances,
         UNCHANGED jobVars
  PROVE  Store' /\ Worker(steps)' /\ Carried
<1>1. StoreTypeOK' /\ JobTypeOK' /\ WorkerTypeOK(steps)'
  BY OverwriteType DEF Store, Worker, JobTypeOK, jobVars, StoreTypeOK, Overwrite
<1>2. /\ task'[t] = new
      /\ \A u \in Tasks : u # t =>
            task'[u] = task[u] /\ created'[u] = created[u] /\ (u \in fresh <=> u \in fresh')
      /\ t \notin fresh' /\ UNCHANGED <<cache, cur, pc, obj>>
      /\ objFresh' => objFresh /\ cur # t
  BY DEF Overwrite, Intruded, Store, StoreTypeOK
<1>3. /\ created'[t] \in {created[t], created[t] + 1}
      /\ \/ created'[t] = created[t] /\ Safe(task[t], new)
         \/ created'[t] = created[t] + 1 /\ new.uid = created'[t]
  BY DEF Intruded, Store, StoreTypeOK
<1>4. Carried
  <2> SUFFICES ASSUME NEW u \in Tasks
               PROVE  /\ created'[u] \in {created[u], created[u] + 1}
                      /\ \A uid \in 1..created[u] : uid = task'[u].uid =>
                            uid = task[u].uid /\ (Holds(task[u]) => Holds(task'[u]))
    BY DEF Carried
  <2>1. created[u] \in Nat
    BY Numbers
  <2>2. CASE u # t
    BY <1>2, <2>2
  <2>3. CASE u = t
    BY <1>2, <1>3, <2>1, <2>3, AbsentType DEF Safe
  <2> QED
    BY <2>2, <2>3
<1>5. JobOwned' /\ FinalizerGuardsJob'
  BY <1>4, JobCarried DEF jobVars
<1>6. ASSUME NEW u \in Tasks
      PROVE  /\ task'[u].uid \in {0, created'[u]}
             /\ cache'[u].uid <= created'[u]
             /\ u \in fresh' => cache'[u] = task'[u]
  <2>1. task[u].uid \in {0, created[u]} /\ cache[u].uid <= created[u]
        /\ (u \in fresh => cache[u] = task[u]) /\ created[u] \in Nat /\ cache[u].uid \in Nat
    BY Numbers DEF Store, CachesAgree
  <2>2. CASE u # t
    BY <1>2, <2>1, <2>2
  <2>3. CASE u = t
    BY <1>2, <1>3, <2>1, <2>3, AbsentType DEF Safe
  <2> QED
    BY <2>2, <2>3
<1>7. ASSUME NEW u \in Tasks, Exists(cache[u])
      PROVE  Kept(cache[u], u)'
  <2>1. Kept(cache[u], u) /\ cache[u].uid \in 1..created[u] /\ cache'[u] = cache[u]
    BY <1>2, <1>7, Numbers DEF Store, CachesAgree, Exists
  <2>2. cache[u].uid = task'[u].uid /\ cache[u].fin => Holds(task'[u])
    BY <1>4, <2>1, CopyCarried
  <2> QED
    BY <2>1, <2>2 DEF Kept, Holds
<1>8. CachesAgree'
  BY <1>2, <1>6, <1>7 DEF CachesAgree, Exists
<1>9. HandlerGuarded'
  <2>1. objFresh' => objFresh /\ (pc # "idle" => task'[cur].uid = task[cur].uid)
    BY <1>2 DEF Worker, WorkerTypeOK
  <2> QED
    BY <1>2, <1>4, <2>1, HandlerCarried
<1> QED
  BY <1>1, <1>4, <1>5, <1>8, <1>9 DEF Store, Worker

-----------------------------------------------------------------------------
(* The initial state, and the worker's steps.                              *)

LEMMA InitOK ==
  ASSUME NEW steps, Init
  PROVE  Store /\ Worker(steps)
<1>1. StoreTypeOK /\ WorkerTypeOK(steps)
  BY ControllerInitOK DEF Init
<1>2. JobTypeOK
  BY BoundsAssumption DEF Init, JobTypeOK, NoJob, JobStatuses
<1>3. CachesAgree /\ JobOwned /\ FinalizerGuardsJob
  BY AbsentType
  DEF Init, ControllerInit, CachesAgree, JobOwned, FinalizerGuardsJob, NoJob, Exists
<1>4. HandlerGuarded
  BY DEF Init, ControllerInit, HandlerGuarded
<1> QED
  BY <1>1, <1>2, <1>3, <1>4 DEF Store, Worker

\* What the worker has in hand.
LEMMA InHand ==
  ASSUME NEW steps, Worker(steps), pc # "idle"
  PROVE  /\ cur \in Tasks /\ obj \in TaskObjects /\ Kept(obj, cur)
         /\ obj.uid \in 1..created[cur]
         /\ objFresh => obj.uid = task[cur].uid
         /\ pc # "addFinalizer" => obj.fin
         /\ pc \in CleanupSteps => obj.del \/ obj.phase \in Terminal
  BY DEF Worker, WorkerTypeOK, HandlerGuarded

LEMMA WriteAndReturn ==
  ASSUME NEW steps, Store, Worker(steps), pc # "idle",
         NEW new \in TaskObjects, objFresh => Safe(task[cur], new),
         Accepted(objFresh, new) \/ Failed(objFresh, new), Done \/ Retry,
         UNCHANGED <<created, cache, jobVars>>
  PROVE  Store' /\ Worker(steps)' /\ Carried
<1>1. Store' /\ Carried
  BY InHand, UpdateStore
<1>2. Worker(steps)'
  BY InHand, ReturnType, ReturnGuarded DEF Worker
<1> QED
  BY <1>1, <1>2

LEMMA WriteAndContinue ==
  ASSUME NEW steps, Store, Worker(steps), pc # "idle", pc # "addFinalizer",
         NEW p \in steps, NEW o \in TaskObjects, o.uid = obj.uid, o.fin,
         p \in CleanupSteps => o.del \/ o.phase \in Terminal,
         Accepted(objFresh, o), Continue(p, o),
         UNCHANGED <<created, cache, jobVars>>
  PROVE  Store' /\ Worker(steps)' /\ Carried
<1>1. objFresh => Safe(task[cur], o)
  BY InHand DEF Safe, Holds
<1>2. Store' /\ Carried
  BY <1>1, InHand, UpdateStore
<1>3. task'[cur].uid = task[cur].uid /\ Holds(task'[cur])
  BY InHand DEF Accepted, StoredFrom, Store, StoreTypeOK, Holds
<1>4. Worker(steps)'
  BY <1>3, InHand, ContinueType, ContinueGuarded DEF Worker
<1> QED
  BY <1>2, <1>4

\* A handler step that leaves the tasks alone and goes on or returns.
LEMMA GoOn ==
  ASSUME NEW steps, Store, Worker(steps), pc # "idle", pc # "addFinalizer",
         NEW p \in steps, p \in CleanupSteps => obj.del \/ obj.phase \in Terminal,
         Continue(p, obj) \/ Retry,
         UNCHANGED <<task, created>>
  PROVE  Worker(steps)'
<1>1. CASE Continue(p, obj)
  BY <1>1, InHand, ContinueType, ContinueGuarded DEF Worker
<1>2. CASE Retry
  BY <1>2, InHand, ReturnType, ReturnGuarded DEF Worker
<1> QED
  BY <1>1, <1>2

LEMMA AddFinalizerOK ==
  ASSUME NEW steps, Store, Worker(steps), AddFinalizer
  PROVE  Store' /\ Worker(steps)' /\ Carried
<1> DEFINE new == [obj EXCEPT !.fin = TRUE]
<1>1. pc # "idle"
  BY DEF AddFinalizer
<1>2. new \in TaskObjects /\ (objFresh => Safe(task[cur], new))
  BY <1>1, InHand DEF TaskObjects, Safe, Holds
<1>3. /\ Accepted(objFresh, new) \/ Failed(objFresh, new)
      /\ Done \/ Retry
      /\ UNCHANGED <<created, cache, jobVars>>
  BY DEF AddFinalizer, UpdateTask
<1> HIDE DEF new
<1> QED
  BY <1>1, <1>2, <1>3, WriteAndReturn

LEMMA StartTaskOK ==
  ASSUME NEW steps, Store, Worker(steps), StartTask
  PROVE  Store' /\ Worker(steps)' /\ Carried
<1> DEFINE new == [obj EXCEPT !.phase = "running"]
<1>1. pc # "idle" /\ pc # "addFinalizer"
  BY DEF StartTask
<1>2. new \in TaskObjects /\ (objFresh => Safe(task[cur], new))
  BY <1>1, InHand DEF TaskObjects, Phases, Safe, Holds
<1>3. /\ Accepted(objFresh, new) \/ Failed(objFresh, new)
      /\ Done \/ Retry
      /\ UNCHANGED <<created, cache, jobVars>>
  BY DEF StartTask, UpdateTask
<1> HIDE DEF new
<1> QED
  BY <1>1, <1>2, <1>3, WriteAndReturn

LEMMA RemoveFinalizerOK ==
  ASSUME NEW steps, Store, Worker(steps), RemoveFinalizer
  PROVE  Store' /\ Worker(steps)' /\ Carried
<1> DEFINE new == IF obj.del THEN Absent ELSE [obj EXCEPT !.fin = FALSE]
<1>1. pc # "idle" /\ pc # "addFinalizer" /\ pc \in CleanupSteps
  BY DEF RemoveFinalizer, CleanupSteps
<1>2. new \in TaskObjects /\ (objFresh => Safe(task[cur], new))
  BY <1>1, InHand, AbsentType DEF TaskObjects, Safe, Holds
<1>3. /\ Accepted(objFresh, new) \/ Failed(objFresh, new)
      /\ Done \/ Retry
      /\ UNCHANGED <<created, cache, jobVars>>
  BY DEF RemoveFinalizer, UpdateTask
<1> HIDE DEF new
<1> QED
  BY <1>1, <1>2, <1>3, WriteAndReturn

LEMMA LabelTaskOK ==
  ASSUME NEW steps, {"label", "start"} \subseteq steps, Store, Worker(steps), LabelTask
  PROVE  Store' /\ Worker(steps)' /\ Carried
<1> DEFINE o == [obj EXCEPT !.label = TRUE]
<1>1. pc # "idle" /\ pc # "addFinalizer"
  BY DEF LabelTask
<1>2. /\ o \in TaskObjects /\ o.uid = obj.uid /\ o.fin
      /\ objFresh => Safe(task[cur], o)
  BY <1>1, InHand DEF TaskObjects, Safe, Holds
<1>3. /\ \/ Accepted(objFresh, o) /\ Continue("start", o)
         \/ Failed(objFresh, o) /\ Retry
      /\ UNCHANGED <<created, cache, jobVars>>
  BY DEF LabelTask, UpdateTask
<1> HIDE DEF o
<1>4. CASE Accepted(objFresh, o) /\ Continue("start", o)
  BY <1>1, <1>2, <1>3, <1>4, WriteAndContinue DEF CleanupSteps
<1>5. CASE Failed(objFresh, o) /\ Retry
  BY <1>1, <1>2, <1>3, <1>5, WriteAndReturn
<1> QED
  BY <1>3, <1>4, <1>5

LEMMA StampEndTimeOK ==
  ASSUME NEW steps, {"endTime", "deleteJob"} \subseteq steps, Store, Worker(steps),
         StampEndTime
  PROVE  Store' /\ Worker(steps)' /\ Carried
<1> DEFINE o == [obj EXCEPT !.end = TRUE]
<1>1. pc # "idle" /\ pc # "addFinalizer" /\ pc \in CleanupSteps
  BY DEF StampEndTime, CleanupSteps
<1>2. /\ o \in TaskObjects /\ o.uid = obj.uid /\ o.fin
      /\ o.del \/ o.phase \in Terminal
      /\ objFresh => Safe(task[cur], o)
  BY <1>1, InHand DEF TaskObjects, Safe, Holds
<1>3. /\ \/ Accepted(objFresh, o) /\ Continue("deleteJob", o)
         \/ Failed(objFresh, o) /\ Retry
      /\ UNCHANGED <<created, cache, jobVars>>
  BY DEF StampEndTime, UpdateTask
<1> HIDE DEF o
<1>4. CASE Accepted(objFresh, o) /\ Continue("deleteJob", o)
  BY <1>1, <1>2, <1>3, <1>4, WriteAndContinue
<1>5. CASE Failed(objFresh, o) /\ Retry
  BY <1>1, <1>2, <1>3, <1>5, WriteAndReturn
<1> QED
  BY <1>3, <1>4, <1>5

\* The steps a dispatch can select.
EntrySteps == {"addFinalizer", "label", "ensureJob", "endTime", "deleteJob"}

LEMMA ReconcileOK ==
  ASSUME NEW steps, EntrySteps \subseteq steps, Store, Worker(steps),
         NEW t \in Tasks, Reconcile(t)
  PROVE  Store' /\ Worker(steps)' /\ Carried
<1> DEFINE step == EntryStep(cache[t])
<1>1. /\ UNCHANGED <<task, created, cache, fresh, budget, job, jobCache>>
      /\ queue' = queue \ {t}
      /\ IF step = "idle" THEN UNCHANGED workerVars
         ELSE cur' = t /\ pc' = step /\ obj' = cache[t] /\ objFresh' = (t \in fresh)
  BY DEF Reconcile, Dispatch, storeVars, jobVars
<1>2. Store'
  BY <1>1
  DEF Store, StoreTypeOK, JobTypeOK, CachesAgree, Kept, Exists, JobOwned, FinalizerGuardsJob
<1>3. Carried
  BY <1>1, UnchangedCarries
<1>4. step # "idle" =>
         /\ step \in steps /\ Exists(cache[t])
         /\ step # "addFinalizer" => cache[t].fin
         /\ step \in CleanupSteps => cache[t].del \/ cache[t].phase \in Terminal
  <2>1. cache[t] \in TaskObjects
    BY DEF Store, StoreTypeOK
  <2>2. cache[t].phase \in Phases
    BY <2>1 DEF TaskObjects
  <2>3. CASE Exists(cache[t]) /\ cache[t].del /\ cache[t].fin
    BY <2>3 DEF EntryStep, EntrySteps
  <2>4. CASE Exists(cache[t]) /\ ~cache[t].del /\ ~cache[t].fin
    BY <2>4 DEF EntryStep, EntrySteps, CleanupSteps
  <2>5. CASE Exists(cache[t]) /\ ~cache[t].del /\ cache[t].fin
    <3>1. step = PhaseStep(cache[t])
      BY <2>5 DEF EntryStep
    <3>2. PhaseStep(cache[t]) \in EntrySteps \cup {"idle"}
      BY <2>2 DEF PhaseStep, EntrySteps, Phases
    <3>3. PhaseStep(cache[t]) \in CleanupSteps => cache[t].phase \in Terminal
      BY <2>2 DEF PhaseStep, CleanupSteps, Phases, Terminal, Unset
    <3> QED
      BY <2>5, <3>1, <3>2, <3>3
  <2>6. CASE step = "idle"
    BY <2>6
  <2> QED
    BY <2>3, <2>4, <2>5, <2>6 DEF EntryStep
<1> HIDE DEF step
<1>5. CASE step = "idle"
  BY <1>1, <1>2, <1>3, <1>5
  DEF Worker, WorkerTypeOK, workerVars, HandlerGuarded, Kept
<1>6. CASE step # "idle"
  <2>1. cache[t] \in TaskObjects /\ cache[t].uid \in 1..created[t] /\ Kept(cache[t], t)
    BY <1>4, <1>6, Numbers DEF Store, StoreTypeOK, CachesAgree, Exists
  <2>2. t \in fresh => cache[t] = task[t]
    BY DEF Store, CachesAgree
  <2>3. WorkerTypeOK(steps)'
    BY <1>1, <1>4, <1>6, <2>1 DEF Worker, WorkerTypeOK
  <2>4. HandlerGuarded'
    BY <1>1, <1>4, <1>6, <2>1, <2>2 DEF HandlerGuarded, Kept
  <2> QED
    BY <1>2, <1>3, <2>3, <2>4 DEF Worker
<1> QED
  BY <1>5, <1>6

\* The Job is created for the task in hand, which is guarded.
LEMMA EnsureJobOK ==
  ASSUME NEW steps, Store, Worker(steps), pc \notin {"idle", "addFinalizer"},
         NEW p \in steps, p \notin CleanupSteps, EnsureJobThen(Continue(p, obj))
  PROVE  Store' /\ Worker(steps)' /\ Carried
<1>1. /\ UNCHANGED <<task, created, cache, fresh, jobCache>>
      /\ Continue(p, obj) \/ Retry
      /\ budget' = budget \/ Disturb
      /\ \/ job' = job
         \/ job' = [job EXCEPT ![cur] = [owner |-> obj.uid, status |-> "waiting"]]
  BY DEF EnsureJobThen, Create, storeVars
<1>2. Worker(steps)' /\ Carried
  BY <1>1, GoOn, UnchangedCarries
<1>3. StoreTypeOK' /\ CachesAgree'
  BY <1>1, DisturbType DEF Store, StoreTypeOK, CachesAgree, Kept, Exists
<1>4. CASE job' = job
  BY <1>1, <1>2, <1>3, <1>4, JobCarried DEF Store, JobTypeOK
<1>5. CASE job' = [job EXCEPT ![cur] = [owner |-> obj.uid, status |-> "waiting"]]
  <2>1. /\ cur \in Tasks /\ obj.uid \in 1..created[cur] /\ obj.uid \in 0..MaxIncarnations
        /\ created[cur] \in Nat
        /\ obj.uid = task[cur].uid => Holds(task[cur])
    BY InHand, Numbers DEF TaskObjects, Kept, Holds
  <2>2. JobTypeOK'
    BY <1>1, <1>5, <2>1 DEF Store, JobTypeOK, JobStatuses
  <2>3. JobOwned' /\ FinalizerGuardsJob'
    BY <1>1, <1>5, <2>1 DEF Store, JobTypeOK, JobOwned, FinalizerGuardsJob, Holds
  <2> QED
    BY <1>2, <1>3, <2>2, <2>3 DEF Store
<1> QED
  BY <1>1, <1>4, <1>5

\* A Job goes, or its status changes; the tasks are left alone.
JobReplaced(t, j) ==
    /\ job' = [job EXCEPT ![t] = j]
    /\ j = NoJob \/ (j.owner = job[t].owner /\ job[t].owner # 0)

LEMMA JobReplacedOK ==
  ASSUME Store, NEW t \in Tasks, NEW j \in [owner: 0..MaxIncarnations, status: JobStatuses],
         JobReplaced(t, j), UNCHANGED <<task, created, cache, fresh, jobCache>>,
         budget' = budget \/ Disturb
  PROVE  Store' /\ Carried
<1>1. StoreTypeOK' /\ CachesAgree'
  BY DisturbType DEF Store, StoreTypeOK, CachesAgree, Kept, Exists
<1>2. JobTypeOK'
  BY DEF Store, JobTypeOK, JobReplaced
<1>3. /\ job'[t] = j /\ \A u \in Tasks : u # t => job'[u] = job[u]
      /\ created[t] \in Nat
  BY Numbers DEF JobReplaced, Store, JobTypeOK
<1>4. ASSUME NEW u \in Tasks
      PROVE  /\ job'[u].owner <= created[u] /\ (job'[u].owner = 0 => job'[u] = NoJob)
             /\ job'[u].owner = task[u].uid /\ job'[u] # NoJob /\ task[u].phase \notin Terminal
                    => task[u].fin
  <2>1. /\ job[u].owner <= created[u] /\ (job[u].owner = 0 => job[u] = NoJob)
        /\ job[u].owner = task[u].uid /\ job[u] # NoJob /\ task[u].phase \notin Terminal
               => task[u].fin
    BY DEF Store, JobOwned, FinalizerGuardsJob
  <2>2. CASE u # t
    BY <1>3, <2>1, <2>2
  <2>3. CASE u = t /\ j = NoJob
    BY <1>3, <2>1, <2>3 DEF NoJob
  <2>4. CASE u = t /\ j.owner = job[t].owner /\ job[t].owner # 0
    BY <1>3, <2>1, <2>4 DEF NoJob
  <2> QED
    BY <2>2, <2>3, <2>4 DEF JobReplaced
<1>5. JobOwned' /\ FinalizerGuardsJob'
  BY <1>4 DEF JobOwned, FinalizerGuardsJob
<1> QED
  BY <1>1, <1>2, <1>5, UnchangedCarries DEF Store

LEMMA NoJobType == NoJob \in [owner: 0..MaxIncarnations, status: JobStatuses]
  BY BoundsAssumption DEF NoJob, JobStatuses

LEMMA DeleteJobOK ==
  ASSUME NEW steps, Store, Worker(steps), pc = "deleteJob",
         NEW p \in steps, DeleteJobThen(Continue(p, obj))
  PROVE  Store' /\ Worker(steps)' /\ Carried
<1>1. /\ UNCHANGED <<task, created, cache, fresh, jobCache>>
      /\ Continue(p, obj) \/ Retry
      /\ budget' = budget \/ Disturb
      /\ job' = job \/ job' = [job EXCEPT ![cur] = NoJob]
  BY DEF DeleteJobThen, storeVars
<1>2. pc # "idle" /\ pc # "addFinalizer" /\ (obj.del \/ obj.phase \in Terminal)
  BY InHand DEF CleanupSteps
<1>3. Worker(steps)' /\ Carried
  BY <1>1, <1>2, GoOn, UnchangedCarries
<1>4. CASE job' = job
  <2>1. StoreTypeOK' /\ CachesAgree'
    BY <1>1, DisturbType DEF Store, StoreTypeOK, CachesAgree, Kept, Exists
  <2> QED
    BY <1>1, <1>3, <1>4, <2>1, JobCarried DEF Store, JobTypeOK
<1>5. CASE job' = [job EXCEPT ![cur] = NoJob]
  <2>1. JobReplaced(cur, NoJob) /\ cur \in Tasks
    BY <1>2, <1>5, InHand DEF JobReplaced
  <2> QED
    BY <1>1, <1>3, <2>1, NoJobType, JobReplacedOK
<1> QED
  BY <1>1, <1>4, <1>5

-----------------------------------------------------------------------------
(* The cluster around the worker.                                          *)

LEMMA WorkerUntouched ==
  ASSUME NEW steps, Worker(steps), UNCHANGED <<task, created, workerVars>>,
         queue' \subseteq Tasks
  PROVE  Worker(steps)'
  BY DEF Worker, WorkerTypeOK, workerVars, HandlerGuarded, Kept

LEMMA JobBecomesOK ==
  ASSUME NEW steps, Store, Worker(steps), NEW t \in Tasks, NEW j,
         j = NoJob \/ \E s \in JobStatuses : j = [job[t] EXCEPT !.status = s],
         JobBecomes(t, j), budget' = budget \/ Disturb
  PROVE  Store' /\ Worker(steps)' /\ Carried
<1>1. UNCHANGED <<task, created, cache, fresh, jobCache, workerVars, queue>>
      /\ job' = [job EXCEPT ![t] = j] /\ job[t] # NoJob
  BY DEF JobBecomes, storeVars
<1>2. j \in [owner: 0..MaxIncarnations, status: JobStatuses]
      /\ (j = NoJob \/ j.owner = job[t].owner)
  BY NoJobType DEF Store, JobTypeOK
<1>3. JobReplaced(t, j)
  BY <1>1, <1>2 DEF JobReplaced, Store, JobOwned
<1>4. Store' /\ Carried
  BY <1>1, <1>2, <1>3, JobReplacedOK
<1>5. Worker(steps)'
  BY <1>1, WorkerUntouched DEF Worker, WorkerTypeOK
<1> QED
  BY <1>4, <1>5

LEMMA ClusterOK ==
  ASSUME NEW steps, Store, Worker(steps), NEW t \in Tasks, Cluster(t)
  PROVE  Store' /\ Worker(steps)' /\ Carried
<1>1. ASSUME NEW from, NEW to \in JobStatuses, JobMoves(t, from, to)
      PROVE  Store' /\ Worker(steps)' /\ Carried
  BY <1>1, JobBecomesOK DEF JobMoves
<1>2. CASE JobStarts(t) \/ PodFails(t) \/ PodRetried(t) \/ JobEnds(t)
  BY <1>1, <1>2 DEF JobStarts, PodFails, PodRetried, JobEnds, JobStatuses
<1>3. CASE GarbageCollect(t) \/ JobVanishes(t)
  BY <1>3, JobBecomesOK DEF GarbageCollect, JobVanishes
<1> QED
  BY <1>2, <1>3 DEF Cluster

LEMMA SyncTaskObjectOK ==
  ASSUME NEW steps, Store, Worker(steps), NEW t \in Tasks, SyncTaskObject(t)
  PROVE  Store' /\ Worker(steps)' /\ Carried
<1>1. /\ UNCHANGED <<task, created, job, jobCache, workerVars, budget>>
      /\ cache' = [cache EXCEPT ![t] = task[t]]
      /\ fresh' = fresh \cup {t}
      /\ queue' = queue \cup {t}
  BY DEF SyncTaskObject, SyncTask, jobVars
<1>2. Worker(steps)'
  BY <1>1, WorkerUntouched DEF Worker, WorkerTypeOK
<1>3. Carried /\ JobOwned' /\ FinalizerGuardsJob'
  BY <1>1, UnchangedCarries, JobCarried
<1>4. StoreTypeOK' /\ JobTypeOK'
  BY <1>1 DEF Store, StoreTypeOK, JobTypeOK
<1>5. ASSUME NEW u \in Tasks
      PROVE  /\ task[u].uid \in {0, created[u]} /\ cache'[u].uid <= created[u]
             /\ u \in fresh' => cache'[u] = task[u]
             /\ Exists(cache'[u]) /\ cache'[u].uid = task[u].uid /\ cache'[u].fin
                    => Holds(task[u])
  <2>1. CASE u # t
    BY <1>1, <2>1 DEF Store, StoreTypeOK, CachesAgree, Kept, Holds
  <2>2. CASE u = t
    <3>1. cache'[t] = task[t] /\ task[t].uid \in {0, created[t]}
      BY <1>1 DEF Store, StoreTypeOK, CachesAgree
    <3> QED
      BY <2>2, <3>1, Numbers DEF Holds
  <2> QED
    BY <2>1, <2>2
<1>6. CachesAgree'
  BY <1>1, <1>5 DEF CachesAgree, Kept, Exists, Holds
<1> QED
  BY <1>2, <1>3, <1>4, <1>6 DEF Store

LEMMA RestartOK ==
  ASSUME NEW steps, Store, Worker(steps), Restart
  PROVE  Store' /\ Worker(steps)' /\ Carried
<1>1. UNCHANGED <<task, created, cache, fresh, job, jobCache>> /\ Disturb
  BY DEF Restart, RestartWorker, storeVars, jobVars
<1>2. StoreTypeOK' /\ JobTypeOK' /\ CachesAgree'
  BY <1>1, DisturbType DEF Store, StoreTypeOK, JobTypeOK, CachesAgree, Kept, Exists
<1>3. Carried /\ JobOwned' /\ FinalizerGuardsJob'
  BY <1>1, UnchangedCarries, JobCarried
<1>4. Worker(steps)'
  BY AbsentType DEF Restart, RestartWorker, Worker, WorkerTypeOK, HandlerGuarded
<1> QED
  BY <1>2, <1>3, <1>4 DEF Store

\* A watch event of the Job, or one that changes nothing modelled.
LEMMA EventOK ==
  ASSUME NEW steps, Store, Worker(steps), NEW t \in Tasks, SyncJob(t) \/ Resync(t)
  PROVE  Store' /\ Worker(steps)' /\ Carried
<1>1. /\ UNCHANGED <<task, created, cache, fresh, workerVars, budget, job>>
      /\ queue' = queue \cup {t}
      /\ jobCache' = jobCache \/ jobCache' = [jobCache EXCEPT ![t] = JobView(job[t])]
  BY DEF SyncJob, Resync, OtherEvent, storeVars, jobVars
<1>2. Worker(steps)'
  BY <1>1, WorkerUntouched DEF Worker, WorkerTypeOK
<1>3. Carried /\ JobOwned' /\ FinalizerGuardsJob'
  BY <1>1, UnchangedCarries, JobCarried
<1>4. StoreTypeOK' /\ CachesAgree'
  BY <1>1 DEF Store, StoreTypeOK, CachesAgree, Kept, Exists
<1>5. JobTypeOK'
  BY <1>1 DEF Store, JobTypeOK, JobView
<1> QED
  BY <1>2, <1>3, <1>4, <1>5 DEF Store

LEMMA UsersOK ==
  ASSUME NEW steps, Store, Worker(steps), NEW t \in Tasks, Users(t)
  PROVE  Store' /\ Worker(steps)' /\ Carried
<1>1. /\ UNCHANGED jobVars /\ task[t] \in TaskObjects
      /\ created \in [Tasks -> 0..MaxIncarnations] /\ budget \in 0..MaxDisturbances
  BY DEF Users, Store, StoreTypeOK
<1>2. CASE UserCreate(t)
  <2> DEFINE new == NewTask(created[t] + 1)
  <2>1. created[t] + 1 \in 0..MaxIncarnations /\ created[t] + 1 \in 1..MaxIncarnations
    BY <1>1, <1>2, BoundsAssumption DEF UserCreate
  <2>2. new \in TaskObjects /\ new.uid = created[t] + 1
    BY <2>1, NewTaskType
  <2>3. /\ created' = [created EXCEPT ![t] = @ + 1] /\ budget' = budget
        /\ Overwrite(t, new)
    BY <1>2 DEF UserCreate
  <2> HIDE DEF new
  <2>4. created' \in [Tasks -> 0..MaxIncarnations] /\ Intruded(t, new)
    BY <1>1, <2>1, <2>2, <2>3 DEF Intruded
  <2> QED
    BY <1>1, <2>2, <2>3, <2>4, OverwriteOK
<1>3. CASE UserDelete(t)
  <2> DEFINE new == Deleted(task[t])
  <2>1. new \in TaskObjects
    BY <1>1, DeletedType
  <2>2. Safe(task[t], new)
    BY <1>1 DEF Deleted, Safe, Holds, TaskObjects
  <2>3. UNCHANGED <<created, budget>> /\ Overwrite(t, new)
    BY <1>3 DEF UserDelete
  <2> HIDE DEF new
  <2> QED
    BY <1>1, <2>1, <2>2, <2>3, OverwriteOK DEF Intruded
<1>4. CASE UserTouch(t)
  <2>1. UNCHANGED created /\ Overwrite(t, task[t]) /\ budget' \in 0..MaxDisturbances
    BY <1>1, <1>4, DisturbType DEF UserTouch
  <2> QED
    BY <1>1, <2>1, OverwriteOK DEF Intruded, Safe
<1> QED
  BY <1>2, <1>3, <1>4 DEF Users
-----------------------------------------------------------------------------
(* What cleanup leaves behind.  Once DeleteJob has gone by, a Job of the   *)
(* task in hand is there only if the cache does not show it yet, or if its *)
(* event has queued the task again since: `after` are the steps past       *)
(* DeleteJob.                                                              *)

JobSwept(after) ==
    pc \in after /\ job[cur].owner = obj.uid => cur \in queue \/ jobCache[cur] = "absent"

LEMMA SweptMissesOnlyLate ==
  ASSUME NEW steps, Store, Worker(steps), NEW after, "removeFinalizer" \in after,
         JobSwept(after)
  PROVE  CleanupMissesOnlyLateJobs
<1> SUFFICES ASSUME pc = "removeFinalizer", job[cur].owner = obj.uid, cur \notin queue
             PROVE  jobCache[cur] # JobView(job[cur])
  BY DEF CleanupMissesOnlyLateJobs
<1>1. cur \in Tasks /\ obj.uid \in 1..created[cur] /\ jobCache[cur] = "absent"
  BY InHand DEF JobSwept
<1>2. job[cur].owner # 0 /\ job[cur].status \in JobStatuses
  BY <1>1, Numbers DEF Store, JobTypeOK
<1> QED
  BY <1>1, <1>2 DEF JobView, JobStatuses

LEMMA ElsewhereSwept ==
  ASSUME NEW after, pc' \notin after
  PROVE  JobSwept(after)'
  BY DEF JobSwept

\* No Job gets an owner, and the cache learns of none without the task being
\* queued.
NoJobAppears ==
    \A t \in Tasks :
        /\ job'[t].owner \in {0, job[t].owner}
        /\ jobCache'[t] = jobCache[t] \/ t \in queue'

\* The worker stays past DeleteJob with the copy it has.
LEMMA PastDeleteJobSwept ==
  ASSUME NEW steps, Store, Worker(steps), NEW after, "idle" \notin after, JobSwept(after),
         pc' \in after =>
             pc \in after /\ UNCHANGED <<cur, obj>> /\ queue \subseteq queue' /\ NoJobAppears
  PROVE  JobSwept(after)'
<1> SUFFICES ASSUME pc' \in after, job'[cur'].owner = obj'.uid, cur' \notin queue'
             PROVE  jobCache'[cur'] = "absent"
  BY DEF JobSwept
<1>1. /\ pc \in after /\ cur' = cur /\ obj' = obj /\ queue \subseteq queue'
      /\ NoJobAppears
  OBVIOUS
<1>2. cur \in Tasks /\ obj.uid \in 1..created[cur] /\ created[cur] \in Nat
  BY <1>1, InHand, Numbers
<1>3. job[cur].owner = obj.uid /\ jobCache'[cur] = jobCache[cur] /\ cur \notin queue
  BY <1>1, <1>2 DEF NoJobAppears
<1> QED
  BY <1>1, <1>3 DEF JobSwept

\* cleanupResources goes on only when the cache shows no Job, or it is gone.
LEMMA DeleteJobSwept ==
  ASSUME NEW steps, Store, Worker(steps), NEW after, "idle" \notin after, pc = "deleteJob",
         NEW p, DeleteJobThen(Continue(p, obj))
  PROVE  JobSwept(after)'
<1>1. cur \in Tasks /\ obj.uid \in 1..created[cur] /\ created[cur] \in Nat
  BY InHand, Numbers
<1>2. CASE Retry
  BY <1>2, ElsewhereSwept DEF Retry, Return
<1>3. CASE Continue(p, obj) /\ jobCache[cur] = "absent" /\ UNCHANGED jobCache
  BY <1>3 DEF JobSwept, Continue
<1>4. CASE Continue(p, obj) /\ job' = [job EXCEPT ![cur] = NoJob]
  <2>1. cur' = cur /\ obj' = obj /\ job'[cur].owner = 0
    BY <1>1, <1>4 DEF Continue, Store, JobTypeOK, NoJob
  <2> QED
    BY <1>1, <2>1 DEF JobSwept
<1> QED
  BY <1>2, <1>3, <1>4 DEF DeleteJobThen

LEMMA EnvironmentSwept ==
  ASSUME NEW steps, Store, Worker(steps), NEW after, "idle" \notin after, JobSwept(after),
         NEW t \in Tasks,
         Resync(t) \/ SyncTaskObject(t) \/ SyncJob(t) \/ Users(t) \/ Cluster(t)
  PROVE  JobSwept(after)'
<1>1. queue \subseteq queue' /\ UNCHANGED <<pc, cur, obj>>
  BY DEF Resync, OtherEvent, SyncTaskObject, SyncTask, SyncJob, Users, UserCreate, UserDelete,
         UserTouch, Overwrite, Cluster, JobStarts, PodFails, PodRetried, JobEnds, JobMoves,
         GarbageCollect, JobVanishes, JobBecomes, workerVars
<1>2. CASE Resync(t) \/ SyncTaskObject(t) \/ Users(t)
  BY <1>1, <1>2, PastDeleteJobSwept
  DEF Resync, SyncTaskObject, Users, jobVars, NoJobAppears
<1>3. CASE SyncJob(t)
  <2>1. /\ job' = job /\ t \in queue'
        /\ \A u \in Tasks : u # t => jobCache'[u] = jobCache[u]
    BY <1>3 DEF SyncJob, Store, JobTypeOK
  <2> QED
    BY <1>1, <2>1, PastDeleteJobSwept DEF NoJobAppears
<1>4. ASSUME NEW j, j.owner \in {0, job[t].owner}, JobBecomes(t, j)
      PROVE  JobSwept(after)'
  <2>1. /\ jobCache' = jobCache /\ job'[t] = j
        /\ \A u \in Tasks : u # t => job'[u] = job[u]
    BY <1>4 DEF JobBecomes, Store, JobTypeOK
  <2> QED
    BY <1>1, <1>4, <2>1, PastDeleteJobSwept DEF NoJobAppears
<1>5. CASE Cluster(t)
  <2>1. CASE GarbageCollect(t) \/ JobVanishes(t)
    BY <1>4, <2>1 DEF GarbageCollect, JobVanishes, NoJob
  <2>2. ASSUME NEW from, NEW to, JobMoves(t, from, to)
        PROVE  JobSwept(after)'
    BY <1>4, <2>2 DEF JobMoves, Store, JobTypeOK
  <2>3. CASE JobStarts(t) \/ PodFails(t) \/ PodRetried(t) \/ JobEnds(t)
    BY <2>2, <2>3 DEF JobStarts, PodFails, PodRetried, JobEnds
  <2> QED
    BY <1>5, <2>1, <2>3 DEF Cluster
<1> QED
  BY <1>2, <1>3, <1>5

\* The worker starts elsewhere, or not at all.
LEMMA ReconcileSwept ==
  ASSUME NEW steps, Store, Worker(steps), NEW after, "idle" \notin after,
         after \cap EntrySteps = {}, NEW t \in Tasks, Reconcile(t)
  PROVE  JobSwept(after)'
<1>1. pc' = "idle" \/ (pc' = EntryStep(cache[t]) /\ EntryStep(cache[t]) # "idle")
  BY DEF Reconcile, Dispatch, workerVars
<1>2. cache[t].phase \in Phases
  BY DEF Store, StoreTypeOK, TaskObjects
<1>3. EntryStep(cache[t]) \in EntrySteps \cup {"idle"}
  BY <1>2 DEF EntryStep, PhaseStep, EntrySteps, Phases
<1> QED
  BY <1>1, <1>3, ElsewhereSwept
-----------------------------------------------------------------------------
(* The controllers implement the lifecycle.  For that the handler's copy   *)
(* has to be more than guarded: while it is at the server's version it is  *)
(* the server's object, but for the phase checkJobStatus has put into it,  *)
(* and the step the handler is at tells its phase.                         *)

Known(p, o) ==
    /\ p = "addFinalizer" => ~o.fin /\ ~o.del
    /\ p \in {"label", "start"} => o.phase = Unset /\ ~o.del
    /\ p \in {"ensureJob", "checkJob"} => o.phase = "running" /\ ~o.del
    /\ p = "status" => o.phase \in Terminal /\ ~o.del
    /\ p = "endTime" => o.phase \in Terminal /\ ~o.del /\ ~o.end
    /\ p \in CleanupSteps \ {"endTime"} => o.del \/ (o.phase \in Terminal /\ o.end)

HandlerKnows ==
    pc # "idle" =>
        /\ Known(pc, obj)
        /\ objFresh => task[cur] = IF pc = "status" THEN [obj EXCEPT !.phase = "running"]
                                                    ELSE obj

LEMMA EntryKnown ==
  ASSUME NEW o \in TaskObjects, EntryStep(o) # "idle"
  PROVE  Known(EntryStep(o), o) /\ EntryStep(o) # "status"
<1>1. o.phase \in Phases
  BY DEF TaskObjects
<1>2. CASE Exists(o) /\ o.del /\ o.fin
  BY <1>2 DEF EntryStep, Known, CleanupSteps
<1>3. CASE Exists(o) /\ ~o.del /\ ~o.fin
  BY <1>3 DEF EntryStep, Known, CleanupSteps
<1>4. CASE Exists(o) /\ ~o.del /\ o.fin
  <2>1. EntryStep(o) = PhaseStep(o)
    BY <1>4 DEF EntryStep
  <2> QED
    BY <1>1, <1>4, <2>1 DEF PhaseStep, Known, CleanupSteps, Phases, Terminal, Unset
<1> QED
  BY <1>2, <1>3, <1>4 DEF EntryStep

LEMMA ReturnKnows ==
  ASSUME Done \/ Retry
  PROVE  HandlerKnows'
  BY DEF Done, Retry, Return, HandlerKnows

\* The handler goes on with the copy it has.
LEMMA GoOnKnows ==
  ASSUME HandlerKnows, pc # "idle", pc # "status", UNCHANGED task,
         NEW p, p # "status", Known(p, obj), Continue(p, obj) \/ Retry
  PROVE  HandlerKnows'
  BY ReturnKnows DEF HandlerKnows, Continue

\* The handler goes on with the copy it has just written.
LEMMA WrittenKnows ==
  ASSUME NEW steps, Store, Worker(steps), pc # "idle", NEW o, NEW p, p # "status", Known(p, o),
         Accepted(objFresh, o), Continue(p, o)
  PROVE  HandlerKnows'
<1>1. cur \in Tasks /\ task \in [Tasks -> TaskObjects]
  BY DEF Worker, WorkerTypeOK, Store, StoreTypeOK
<1> QED
  BY <1>1 DEF HandlerKnows, Continue, Accepted, StoredFrom

LEMMA JobStepKnows ==
  ASSUME NEW steps, Store, Worker(steps), HandlerKnows,
         AddFinalizer \/ StartTask \/ RemoveFinalizer \/ LabelTask \/ StampEndTime
  PROVE  HandlerKnows'
<1>1. obj \in TaskObjects
  BY DEF Worker, WorkerTypeOK
<1>2. CASE AddFinalizer \/ StartTask \/ RemoveFinalizer
  BY <1>2, ReturnKnows DEF AddFinalizer, StartTask, RemoveFinalizer, UpdateTask
<1>3. CASE LabelTask
  <2> DEFINE o == [obj EXCEPT !.label = TRUE]
  <2>1. Known("start", o)
    BY <1>1, <1>3 DEF LabelTask, HandlerKnows, Known, CleanupSteps, TaskObjects
  <2>2. pc = "label" /\ ((Accepted(objFresh, o) /\ Continue("start", o)) \/ Retry)
    BY <1>3 DEF LabelTask, UpdateTask
  <2> HIDE DEF o
  <2> QED
    BY <2>1, <2>2, WrittenKnows, ReturnKnows
<1>4. CASE StampEndTime
  <2> DEFINE o == [obj EXCEPT !.end = TRUE]
  <2>1. Known("deleteJob", o)
    BY <1>1, <1>4 DEF StampEndTime, HandlerKnows, Known, CleanupSteps, TaskObjects
  <2>2. pc = "endTime" /\ ((Accepted(objFresh, o) /\ Continue("deleteJob", o)) \/ Retry)
    BY <1>4 DEF StampEndTime, UpdateTask
  <2> HIDE DEF o
  <2> QED
    BY <2>1, <2>2, WrittenKnows, ReturnKnows
<1> QED
  BY <1>2, <1>3, <1>4

LEMMA OverwriteKnows ==
  ASSUME NEW steps, Store, Worker(steps), HandlerKnows, NEW t \in Tasks, NEW new, Overwrite(t, new)
  PROVE  HandlerKnows'
<1>1. task \in [Tasks -> TaskObjects] /\ (pc # "idle" => cur \in Tasks)
  BY DEF Store, StoreTypeOK, Worker, WorkerTypeOK
<1> QED
  BY <1>1 DEF Overwrite, HandlerKnows

LEMMA ReconcileKnows ==
  ASSUME Store, HandlerKnows, NEW t \in Tasks, Reconcile(t)
  PROVE  HandlerKnows'
<1> DEFINE step == EntryStep(cache[t])
<1>1. /\ UNCHANGED task
      /\ IF step = "idle" THEN UNCHANGED workerVars
         ELSE cur' = t /\ pc' = step /\ obj' = cache[t] /\ objFresh' = (t \in fresh)
  BY DEF Reconcile, Dispatch, storeVars
<1>2. step # "idle" => Known(step, cache[t]) /\ step # "status"
  BY EntryKnown DEF Store, StoreTypeOK
<1>3. t \in fresh => cache[t] = task[t]
  BY DEF Store, CachesAgree
<1> HIDE DEF step
<1>4. CASE step = "idle"
  BY <1>1, <1>4 DEF HandlerKnows, workerVars
<1>5. CASE step # "idle"
  BY <1>1, <1>2, <1>3, <1>5 DEF HandlerKnows
<1> QED
  BY <1>4, <1>5

\* A step of others that leaves the tasks alone.
Bystander(t) == Resync(t) \/ SyncTaskObject(t) \/ SyncJob(t) \/ Cluster(t)

LEMMA BystanderLeaves ==
  ASSUME NEW t \in Tasks, Bystander(t)
  PROVE  UNCHANGED <<task, created, workerVars>>
  BY DEF Bystander, Resync, OtherEvent, SyncTaskObject, SyncTask, SyncJob, Cluster, JobStarts,
         PodFails, PodRetried, JobEnds, JobMoves, GarbageCollect, JobVanishes, JobBecomes,
         storeVars

LEMMA UnchangedKnows ==
  ASSUME HandlerKnows, UNCHANGED <<task, workerVars>>
  PROVE  HandlerKnows'
  BY DEF HandlerKnows, workerVars

LEMMA LifeChanges ==
  ASSUME Store, NEW t \in Tasks, NEW new, task' = [task EXCEPT ![t] = new]
  PROVE  Lifecycle!Becomes(t, LifeOf(new))
  BY LifeBecomes DEF Store, Lifecycle!Becomes

LEMMA AbsentLife == LifeOf(Absent) = Lifecycle!NoLife
  BY DEF LifeOf, Absent, NewTask, Lifecycle!NoLife, Unset

\* A step of the lifecycle, or one that changes nothing it shows.
LifecycleStep == Lifecycle!Next \/ UNCHANGED <<Life, created>>

\* What the worker stores.
LEMMA StoredRefines ==
  ASSUME Store, cur \in Tasks, NEW new, UNCHANGED created,
         Accepted(objFresh, new) \/ Failed(objFresh, new),
         objFresh /\ Lifecycle!Becomes(cur, LifeOf(new)) =>
             \/ LifeOf(new) = Life[cur]
             \/ Lifecycle!Guard(cur) \/ Lifecycle!Begin(cur) \/ Lifecycle!Advance(cur)
             \/ Lifecycle!Stamp(cur) \/ Lifecycle!Withdraw(cur) \/ Lifecycle!Release(cur)
  PROVE  LifecycleStep
<1>1. CASE UNCHANGED task
  BY <1>1 DEF LifecycleStep, Life
<1>2. CASE StoredFrom(objFresh, new)
  <2>1. Lifecycle!Becomes(cur, LifeOf(new)) /\ objFresh
    BY <1>2, LifeChanges DEF StoredFrom
  <2>2. CASE LifeOf(new) = Life[cur]
    <3>1. Life' = [Life EXCEPT ![cur] = Life[cur]]
      BY <2>1, <2>2 DEF Lifecycle!Becomes
    <3>2. Life' = Life
      BY <3>1 DEF Life
    <3> QED
      BY <3>2 DEF LifecycleStep
  <2>3. CASE \/ Lifecycle!Guard(cur) \/ Lifecycle!Begin(cur) \/ Lifecycle!Advance(cur)
             \/ Lifecycle!Stamp(cur) \/ Lifecycle!Withdraw(cur) \/ Lifecycle!Release(cur)
    BY <2>3 DEF LifecycleStep, Lifecycle!Next
  <2> QED
    BY <2>1, <2>2, <2>3
<1> QED
  BY <1>1, <1>2 DEF Accepted, Failed

LEMMA UnchangedRefines ==
  ASSUME UNCHANGED <<task, created>>
  PROVE  LifecycleStep
  BY DEF LifecycleStep, Life

LEMMA JobStepRefines ==
  ASSUME NEW steps, Store, Worker(steps), HandlerKnows,
         AddFinalizer \/ StartTask \/ RemoveFinalizer \/ LabelTask \/ StampEndTime
  PROVE  LifecycleStep
<1>0. pc # "idle" /\ pc # "status"
  BY DEF AddFinalizer, LabelTask, StartTask, StampEndTime, RemoveFinalizer
<1>1. /\ cur \in Tasks /\ obj \in TaskObjects /\ obj.uid # 0
      /\ pc # "addFinalizer" => obj.fin
      /\ Life[cur] = LifeOf(task[cur])
  BY <1>0, InHand, LifeEntries, Numbers
<1>a. /\ LifeOf(obj).uid = obj.uid /\ LifeOf(obj).phase = obj.phase /\ LifeOf(obj).fin = obj.fin
      /\ LifeOf(obj).del = obj.del /\ LifeOf(obj).end = obj.end
  BY LifeValues
<1>2. CASE AddFinalizer
  <2> DEFINE new == [obj EXCEPT !.fin = TRUE]
  <2>1. objFresh => task[cur] = obj /\ ~obj.fin /\ ~obj.del
    BY <1>2 DEF AddFinalizer, HandlerKnows, Known, CleanupSteps
  <2>2. ASSUME objFresh, Lifecycle!Becomes(cur, LifeOf(new))
        PROVE  Lifecycle!Guard(cur)
    <3>1. Life[cur] = LifeOf(obj)
      BY <1>1, <2>1, <2>2
    <3>2. LifeOf(new) = [Life[cur] EXCEPT !.fin = TRUE]
      BY <1>1, <2>2, <3>1, LifeFields, Zenon
    <3>3. Life[cur].uid # 0 /\ ~Life[cur].fin /\ ~Life[cur].del
      BY <1>1, <1>a, <2>1, <2>2, <3>1
    <3>4. Lifecycle!Becomes(cur, [Life[cur] EXCEPT !.fin = TRUE])
      BY <2>2, <3>2
    <3> QED
      BY <3>3, <3>4 DEF Lifecycle!Guard
  <2>3. UNCHANGED created /\ (Accepted(objFresh, new) \/ Failed(objFresh, new))
    BY <1>2 DEF AddFinalizer, UpdateTask
  <2> HIDE DEF new
  <2> QED
    BY <1>1, <2>2, <2>3, StoredRefines
<1>3. CASE LabelTask
  <2> DEFINE new == [obj EXCEPT !.label = TRUE]
  <2>1. objFresh => task[cur] = obj
    BY <1>3 DEF LabelTask, HandlerKnows
  <2>2. objFresh => LifeOf(new) = Life[cur]
    BY <1>1, <2>1 DEF LifeOf, TaskObjects
  <2>3. UNCHANGED created /\ (Accepted(objFresh, new) \/ Failed(objFresh, new))
    BY <1>3 DEF LabelTask, UpdateTask
  <2> HIDE DEF new
  <2> QED
    BY <1>1, <2>2, <2>3, StoredRefines
<1>4. CASE StartTask
  <2> DEFINE new == [obj EXCEPT !.phase = "running"]
  <2>1. objFresh => task[cur] = obj /\ obj.phase = Unset
    BY <1>4 DEF StartTask, HandlerKnows, Known, CleanupSteps
  <2>2. ASSUME objFresh, Lifecycle!Becomes(cur, LifeOf(new))
        PROVE  Lifecycle!Begin(cur)
    <3>1. Life[cur] = LifeOf(obj)
      BY <1>1, <2>1, <2>2
    <3>2. LifeOf(new) = [Life[cur] EXCEPT !.phase = "running"]
      BY <1>1, <2>2, <3>1, LifePhase, Zenon DEF Phases
    <3>3. Life[cur].uid # 0 /\ Life[cur].phase = ""
      BY <1>1, <1>a, <2>1, <2>2, <3>1 DEF Unset
    <3>4. Lifecycle!Becomes(cur, [Life[cur] EXCEPT !.phase = "running"])
      BY <2>2, <3>2
    <3> QED
      BY <3>3, <3>4 DEF Lifecycle!Begin
  <2>3. UNCHANGED created /\ (Accepted(objFresh, new) \/ Failed(objFresh, new))
    BY <1>4 DEF StartTask, UpdateTask
  <2> HIDE DEF new
  <2> QED
    BY <1>1, <2>2, <2>3, StoredRefines
<1>6. CASE StampEndTime
  <2> DEFINE new == [obj EXCEPT !.end = TRUE]
  <2>1. /\ obj.fin /\ ~obj.del /\ ~obj.end /\ obj.phase \in Terminal
        /\ objFresh => task[cur] = obj
    BY <1>1, <1>6 DEF StampEndTime, HandlerKnows, Known, CleanupSteps
  <2>2. ASSUME objFresh, Lifecycle!Becomes(cur, LifeOf(new))
        PROVE  Lifecycle!Stamp(cur)
    <3>1. Life[cur] = LifeOf(obj)
      BY <1>1, <2>1, <2>2
    <3>2. LifeOf(new) = [Life[cur] EXCEPT !.end = TRUE]
      BY <1>1, <2>2, <3>1, LifeFields, Zenon
    <3>3. Life[cur].phase \in Terminal /\ Life[cur].fin /\ ~Life[cur].del /\ ~Life[cur].end
      BY <1>1, <1>a, <2>1, <2>2, <3>1
    <3>4. Lifecycle!Becomes(cur, [Life[cur] EXCEPT !.end = TRUE])
      BY <2>2, <3>2
    <3> QED
      BY <3>3, <3>4 DEF Lifecycle!Stamp, Terminal
  <2>3. UNCHANGED created /\ (Accepted(objFresh, new) \/ Failed(objFresh, new))
    BY <1>6 DEF StampEndTime, UpdateTask
  <2> HIDE DEF new
  <2> QED
    BY <1>1, <2>2, <2>3, StoredRefines
<1>7. CASE RemoveFinalizer
  <2> DEFINE new == IF obj.del THEN Absent ELSE [obj EXCEPT !.fin = FALSE]
  <2>1. /\ obj.fin /\ (obj.del \/ (obj.phase \in Terminal /\ obj.end))
        /\ objFresh => task[cur] = obj
    BY <1>1, <1>7 DEF RemoveFinalizer, HandlerKnows, Known, CleanupSteps
  <2>2. obj.del /\ objFresh /\ Lifecycle!Becomes(cur, LifeOf(new)) => Lifecycle!Release(cur)
    BY <1>1, <2>1, AbsentLife DEF Lifecycle!Release, LifeOf
  <2>3. ASSUME objFresh, Lifecycle!Becomes(cur, LifeOf(new)), ~obj.del
        PROVE  Lifecycle!Withdraw(cur)
    <3>1. Life[cur] = LifeOf(obj)
      BY <1>1, <2>1, <2>3
    <3>2. LifeOf(new) = [Life[cur] EXCEPT !.fin = FALSE]
      BY <1>1, <2>3, <3>1, LifeFields, Zenon
    <3>3. Life[cur].phase \in Terminal /\ Life[cur].fin /\ ~Life[cur].del /\ Life[cur].end
      BY <1>1, <1>a, <2>1, <2>3, <3>1
    <3>4. Lifecycle!Becomes(cur, [Life[cur] EXCEPT !.fin = FALSE])
      BY <2>3, <3>2
    <3> QED
      BY <3>3, <3>4 DEF Lifecycle!Withdraw, Terminal
  <2>4. UNCHANGED created /\ (Accepted(objFresh, new) \/ Failed(objFresh, new))
    BY <1>7 DEF RemoveFinalizer, UpdateTask
  <2> HIDE DEF new
  <2> QED
    BY <1>1, <2>2, <2>3, <2>4, StoredRefines
<1> QED
  BY <1>2, <1>3, <1>4, <1>6, <1>7

LEMMA UsersRefine ==
  ASSUME Store, NEW t \in Tasks, Users(t)
  PROVE  LifecycleStep
<1>1. task \in [Tasks -> TaskObjects] /\ created \in [Tasks -> 0..MaxIncarnations]
  BY DEF Store, StoreTypeOK
<1>2. Life[t] = LifeOf(task[t])
  BY LifeEntries
<1>3. CASE UserCreate(t)
  <2>1. /\ created' = [created EXCEPT ![t] = @ + 1] /\ task[t].uid = 0
        /\ Lifecycle!Becomes(t, LifeOf(NewTask(created[t] + 1)))
    BY <1>3, LifeChanges DEF UserCreate, Overwrite, Exists
  <2>2. LifeOf(NewTask(created[t] + 1)) = [Lifecycle!NoLife EXCEPT !.uid = created[t] + 1]
    BY NewTaskLife, AbsentLife
  <2>3. Life[t].uid = 0
    BY <1>2, <2>1 DEF LifeOf
  <2> QED
    BY <2>1, <2>2, <2>3 DEF Lifecycle!Submit, Lifecycle!Next, LifecycleStep
<1>4. CASE UserDelete(t)
  <2>1. /\ UNCHANGED created /\ task[t].uid # 0 /\ ~task[t].del
        /\ Lifecycle!Becomes(t, LifeOf(Deleted(task[t])))
    BY <1>4, LifeChanges DEF UserDelete, Overwrite, Exists
  <2>2. LifeOf(Deleted(task[t])) = IF Life[t].fin THEN [Life[t] EXCEPT !.del = TRUE]
                                                  ELSE Lifecycle!NoLife
    BY <1>1, <1>2, DeletedLife, AbsentLife
  <2>3. Life[t].uid # 0 /\ ~Life[t].del
    BY <1>2, <2>1 DEF LifeOf
  <2> QED
    BY <2>1, <2>2, <2>3 DEF Lifecycle!RequestDeletion, Lifecycle!Next, LifecycleStep
<1>5. CASE UserTouch(t)
  <2>1. task' = task /\ created' = created
    BY <1>1, <1>5 DEF UserTouch, Overwrite
  <2> QED
    BY <2>1 DEF LifecycleStep, Life
<1> QED
  BY <1>3, <1>4, <1>5 DEF Users
-----------------------------------------------------------------------------
(* No wake-up is lost.  A handler that lets go of its task with no call to  *)
(* come has changed it, so that an event is due, or the task needs nothing. *)
(* Dispatching a task that needs its controller always selects a step,      *)
(* because a task is Fit: one that is being deleted has the finalizer, or   *)
(* it would be gone, and no task of these controllers is ever creating.     *)

Fit(o) == (o.del => o.fin) /\ o.phase # "creating"

Tended == NoLostWakeup /\ \A t \in Tasks : Fit(task[t])

LEMMA UntouchedTended ==
  ASSUME Tended, UNCHANGED task, fresh' \subseteq fresh, queue \subseteq queue',
         cur \in Tasks => cur' = cur \/ cur \in queue'
  PROVE  Tended'
  BY DEF Tended, NoLostWakeup

\* The handler goes on, or comes back to the task.
LEMMA BusyTended ==
  ASSUME Tended, UNCHANGED task, fresh' \subseteq fresh,
         Retry \/ \E p, o : Continue(p, o)
  PROVE  Tended'
<1>1. queue \subseteq queue' /\ (cur' = cur \/ cur \in queue')
  BY DEF Retry, Return, Continue
<1> QED
  BY <1>1, UntouchedTended

LEMMA WriteTended ==
  ASSUME Store, cur \in Tasks, Tended, NEW f, NEW new, f => Fit(new),
         \/ /\ Accepted(f, new)
            /\ \/ Retry \/ \E p, o : Continue(p, o)
               \/ Done /\ (f => new # task[cur] \/ ~NeedsWork(new))
         \/ Failed(f, new) /\ Retry
  PROVE  Tended'
<1>1. CASE UNCHANGED <<task, fresh>> /\ Retry
  BY <1>1, BusyTended
<1>2. CASE /\ StoredFrom(f, new)
           /\ \/ Retry \/ \E p, o : Continue(p, o)
              \/ Done /\ (f => new # task[cur] \/ ~NeedsWork(new))
  <2>1. /\ task'[cur] = new /\ f
        /\ \A t \in Tasks \ {cur} : task'[t] = task[t]
        /\ fresh' \subseteq fresh
        /\ cur \in fresh' => new = task[cur]
    BY <1>2 DEF StoredFrom, Store, StoreTypeOK
  <2>2. /\ queue \subseteq queue'
        /\ cur' = cur \/ cur \in queue' \/ new # task[cur] \/ ~NeedsWork(new)
    BY <1>2, <2>1 DEF Retry, Done, Return, Continue
  <2>3. NoLostWakeup'
    BY <2>1, <2>2 DEF Tended, NoLostWakeup, NeedsWork, Exists
  <2>4. \A t \in Tasks : Fit(task'[t])
    BY <2>1 DEF Tended
  <2> QED
    BY <2>3, <2>4 DEF Tended, Fit
<1> QED
  BY <1>1, <1>2 DEF Accepted, Failed

LEMMA JobStepTended ==
  ASSUME NEW steps, Store, Worker(steps), HandlerKnows, Tended,
         AddFinalizer \/ StartTask \/ RemoveFinalizer \/ LabelTask \/ StampEndTime
  PROVE  Tended'
<1>0. pc # "idle" /\ pc # "status"
  BY DEF AddFinalizer, LabelTask, StartTask, StampEndTime, RemoveFinalizer
<1>1. /\ cur \in Tasks /\ obj \in TaskObjects
      /\ objFresh => task[cur] = obj /\ Fit(obj)
      /\ Known(pc, obj)
  BY <1>0, InHand DEF HandlerKnows, Tended
<1>2. CASE AddFinalizer
  <2> DEFINE new == [obj EXCEPT !.fin = TRUE]
  <2>1. new # obj /\ (objFresh => Fit(new))
    BY <1>1, <1>2 DEF AddFinalizer, Known, Fit, TaskObjects
  <2>2. (Accepted(objFresh, new) /\ Done) \/ (Failed(objFresh, new) /\ Retry)
    BY <1>2 DEF AddFinalizer, UpdateTask
  <2> HIDE DEF new
  <2> QED
    BY <1>1, <2>1, <2>2, WriteTended
<1>3. CASE LabelTask
  <2> DEFINE new == [obj EXCEPT !.label = TRUE]
  <2>1. objFresh => Fit(new)
    BY <1>1 DEF Fit, TaskObjects
  <2>2. \/ Accepted(objFresh, new) /\ Continue("start", new)
        \/ Failed(objFresh, new) /\ Retry
    BY <1>3 DEF LabelTask, UpdateTask
  <2> HIDE DEF new
  <2> QED
    BY <1>1, <2>1, <2>2, WriteTended
<1>4. CASE StartTask
  <2> DEFINE new == [obj EXCEPT !.phase = "running"]
  <2>1. new.phase = "running" /\ obj.phase = Unset /\ (objFresh => Fit(new))
    BY <1>1, <1>4 DEF StartTask, Known, Fit, TaskObjects
  <2>2. (Accepted(objFresh, new) /\ Done) \/ (Failed(objFresh, new) /\ Retry)
    BY <1>4 DEF StartTask, UpdateTask
  <2> HIDE DEF new
  <2>3. new # obj
    BY <2>1, Zenon DEF Unset
  <2> QED
    BY <1>1, <2>1, <2>2, <2>3, WriteTended
<1>5. CASE StampEndTime
  <2> DEFINE new == [obj EXCEPT !.end = TRUE]
  <2>1. objFresh => Fit(new)
    BY <1>1 DEF Fit, TaskObjects
  <2>2. \/ Accepted(objFresh, new) /\ Continue("deleteJob", new)
        \/ Failed(objFresh, new) /\ Retry
    BY <1>5 DEF StampEndTime, UpdateTask
  <2> HIDE DEF new
  <2> QED
    BY <1>1, <2>1, <2>2, WriteTended
<1>6. CASE RemoveFinalizer
  <2> DEFINE new == IF obj.del THEN Absent ELSE [obj EXCEPT !.fin = FALSE]
  <2>1. obj.del \/ obj.phase \in Terminal
    BY <1>1, <1>6 DEF RemoveFinalizer, Known, CleanupSteps
  <2>2. ~NeedsWork(new) /\ Fit(new)
    BY <1>1, <2>1
    DEF NeedsWork, Exists, Fit, Absent, NewTask, TaskObjects, Terminal, Unset
  <2>3. (Accepted(objFresh, new) /\ Done) \/ (Failed(objFresh, new) /\ Retry)
    BY <1>6 DEF RemoveFinalizer, UpdateTask
  <2> HIDE DEF new
  <2> QED
    BY <1>1, <2>2, <2>3, WriteTended
<1> QED
  BY <1>2, <1>3, <1>4, <1>5, <1>6

LEMMA ReconcileTended ==
  ASSUME NEW steps, "idle" \notin steps, Store, Worker(steps), Tended,
         NEW t \in Tasks, Reconcile(t)
  PROVE  Tended'
<1> DEFINE step == EntryStep(cache[t])
<1>1. /\ cur \notin Tasks /\ UNCHANGED <<task, fresh>> /\ queue' = queue \ {t}
      /\ step # "idle" => cur' = t
      /\ step = "idle" => cur' = cur
      /\ t \in fresh => cache[t] = task[t]
  BY TasksAssumption
  DEF Reconcile, Dispatch, storeVars, workerVars, Worker, WorkerTypeOK, Store, CachesAgree
<1>2. ASSUME step = "idle", t \in fresh
      PROVE  ~NeedsWork(task[t])
  <2>1. task[t] \in TaskObjects /\ Fit(task[t]) /\ EntryStep(task[t]) = "idle"
    BY <1>1, <1>2 DEF Store, StoreTypeOK, Tended
  <2>2. /\ task[t].del \in BOOLEAN /\ task[t].fin \in BOOLEAN /\ task[t].end \in BOOLEAN
        /\ task[t].phase \in Phases
    BY <2>1 DEF TaskObjects
  <2>3. ~Exists(task[t]) \/ (~task[t].del /\ task[t].fin /\ PhaseStep(task[t]) = "idle")
    BY <2>1, <2>2 DEF EntryStep, Fit
  <2>4. task[t].phase \in {Unset, "running"} \cup Terminal
    BY <2>1, <2>2 DEF Phases, Fit
  <2>5. PhaseStep(task[t]) # "idle"
    <3>1. CASE task[t].phase = Unset
      BY <3>1, Zenon DEF PhaseStep, Terminal, Unset
    <3>2. CASE task[t].phase # Unset
      BY <2>2, <2>4, <3>2 DEF PhaseStep
    <3> QED
      BY <3>1, <3>2
  <2> QED
    BY <2>3, <2>5 DEF NeedsWork
<1> HIDE DEF step
<1> QED
  BY <1>1, <1>2 DEF Tended, NoLostWakeup

LEMMA OverwriteTended ==
  ASSUME Store, Tended, NEW t \in Tasks, NEW new, Fit(new), Overwrite(t, new)
  PROVE  Tended'
<1>1. /\ task'[t] = new /\ \A u \in Tasks \ {t} : task'[u] = task[u]
      /\ UNCHANGED <<cur, queue>> /\ fresh' = fresh \ {t}
  BY DEF Overwrite, Store, StoreTypeOK
<1>2. NoLostWakeup'
  BY <1>1 DEF Tended, NoLostWakeup
<1>3. \A u \in Tasks : Fit(task'[u])
  BY <1>1 DEF Tended
<1> QED
  BY <1>2, <1>3 DEF Tended, Fit

LEMMA UsersTended ==
  ASSUME Store, Tended, NEW t \in Tasks, Users(t)
  PROVE  Tended'
<1>1. task[t] \in TaskObjects /\ Fit(task[t])
  BY DEF Store, StoreTypeOK, Tended
<1>2. Fit(NewTask(created[t] + 1)) /\ Fit(Absent)
  BY DEF Fit, Absent, NewTask, Unset
<1>3. Fit(Deleted(task[t]))
  BY <1>1, <1>2 DEF Deleted, Fit, TaskObjects
<1> QED
  BY <1>1, <1>2, <1>3, OverwriteTended DEF Users, UserCreate, UserDelete, UserTouch

LEMMA BystanderTended ==
  ASSUME Tended, NEW t \in Tasks, Bystander(t)
  PROVE  Tended'
<1>1. CASE SyncTaskObject(t)
  BY <1>1 DEF SyncTaskObject, SyncTask, workerVars, Tended, NoLostWakeup
<1>2. CASE Resync(t) \/ SyncJob(t) \/ Cluster(t)
  <2>1. UNCHANGED <<task, fresh, cur>> /\ queue \subseteq queue'
    BY <1>2
    DEF Resync, OtherEvent, SyncJob, Cluster, JobStarts, PodFails, PodRetried, JobEnds, JobMoves,
        GarbageCollect, JobVanishes, JobBecomes, storeVars, workerVars
  <2> QED
    BY <2>1, UntouchedTended
<1> QED
  BY <1>1, <1>2 DEF Bystander

\* A restart finds every task of the cache again.
LEMMA RestartTended ==
  ASSUME Store, Tended, Restart
  PROVE  Tended'
  BY DEF Restart, RestartWorker, storeVars, Store, CachesAgree, Tended, NoLostWakeup, NeedsWork

LEMMA InitTended ==
  ASSUME Init
  PROVE  Tended
<1>1. Fit(Absent) /\ ~NeedsWork(Absent)
  BY DEF Fit, NeedsWork, Exists, Absent, NewTask, Unset
<1> QED
  BY <1>1 DEF Init, ControllerInit, Tended, NoLostWakeup
=============================================================================
