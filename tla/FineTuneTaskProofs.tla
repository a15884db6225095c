------------------------- MODULE FineTuneTaskProofs -------------------------
(***************************************************************************)
(* Theorems about the FineTuneTask controller: the Job and the web UI of   *)
(* an unfinished task are only ever there behind the task's finalizer,     *)
(* cleanup misses nothing but what is late, the controller implements      *)
(* TaskLifecycle, and no wake-up is lost.                                  *)
(***************************************************************************)
EXTENDS FineTuneTask, JobTaskProofs

\* The web UI's part of the invariant.
Web ==
    /\ web \in [Tasks -> [Parts -> 0..MaxIncarnations]]
    /\ webCache \in [Tasks -> SUBSET Parts]
    /\ \A t \in Tasks, p \in Parts :
          /\ web[t][p] <= created[t]
          /\ web[t][p] # 0 /\ web[t][p] = task[t].uid => Holds(task[t])

LEMMA GuardedParts == Guarded <=> Store /\ Worker(WorkSteps) /\ Web
<1>1. (\A t \in Tasks :
          task[t].uid \in {web[t][p] : p \in Parts} \ {0} /\ task[t].phase \notin Terminal
              => task[t].fin)
      <=> \A t \in Tasks, p \in Parts :
             web[t][p] # 0 /\ web[t][p] = task[t].uid => Holds(task[t])
  BY DEF Holds
<1> QED
  BY <1>1 DEF Guarded, TypeOK, FinalizerGuardsWork, Store, Worker, Web

LEMMA WebCarried ==
  ASSUME Store, Web, Carried, UNCHANGED webVars
  PROVE  Web'
<1> SUFFICES ASSUME NEW t \in Tasks, NEW p \in Parts
             PROVE  /\ web[t][p] <= created'[t]
                    /\ web[t][p] # 0 /\ web[t][p] = task'[t].uid => Holds(task'[t])
  BY DEF Web, webVars
<1>1. /\ web[t][p] \in Nat /\ created[t] \in Nat /\ web[t][p] <= created[t]
      /\ web[t][p] # 0 /\ web[t][p] = task[t].uid => Holds(task[t])
  BY Numbers, BoundsAssumption DEF Web
<1>2. web[t][p] # 0 => web[t][p] \in 1..created[t]
  BY <1>1
<1> QED
  BY <1>1, <1>2 DEF Carried

\* A part goes, or is made for a task that is held; the tasks are left alone.
LEMMA PartReplaced ==
  ASSUME Store, Web, NEW t \in Tasks, NEW p \in Parts, NEW n \in 0..MaxIncarnations,
         n # 0 => n <= created[t] /\ (n = task[t].uid => Holds(task[t])),
         web' = [web EXCEPT ![t][p] = n],
         UNCHANGED <<task, created, webCache>>
  PROVE  Web'
<1>1. web' \in [Tasks -> [Parts -> 0..MaxIncarnations]]
  BY DEF Web
<1>2. ASSUME NEW u \in Tasks, NEW q \in Parts
      PROVE  /\ web'[u][q] <= created[u]
             /\ web'[u][q] # 0 /\ web'[u][q] = task[u].uid => Holds(task[u])
  <2>1. /\ web[u][q] <= created[u] /\ created[u] \in Nat
        /\ web[u][q] # 0 /\ web[u][q] = task[u].uid => Holds(task[u])
    BY Numbers DEF Web
  <2>2. CASE u = t /\ q = p
    BY <2>1, <2>2 DEF Web
  <2>3. CASE ~(u = t /\ q = p)
    BY <2>1, <2>3 DEF Web
  <2> QED
    BY <2>2, <2>3
<1> QED
  BY <1>1, <1>2 DEF Web

-----------------------------------------------------------------------------
(* The worker's steps that JobTask does not have.                          *)

\* The tasks and the Jobs are left alone.
LEMMA StoreUntouched ==
  ASSUME Store, UNCHANGED <<storeVars, jobVars>>, budget' = budget \/ Disturb
  PROVE  Store' /\ Carried
<1>1. UNCHANGED <<task, created, cache, fresh, job, jobCache>>
  BY DEF storeVars, jobVars
<1>2. StoreTypeOK' /\ JobTypeOK' /\ CachesAgree'
  BY <1>1, DisturbType DEF Store, StoreTypeOK, JobTypeOK, CachesAgree, Kept, Exists
<1>3. Carried /\ JobOwned' /\ FinalizerGuardsJob'
  BY <1>1, UnchangedCarries, JobCarried
<1> QED
  BY <1>2, <1>3 DEF Store

\* A part of the web UI is created for the task in hand, which is guarded.
LEMMA EnsurePartOK ==
  ASSUME Store, Worker(WorkSteps), Web, pc \notin {"idle", "addFinalizer"},
         NEW part \in Parts,
         EnsurePartThen(part, Retry) \/ EnsurePartThen(part, Continue("ensureDeployment", obj))
  PROVE  Store' /\ Worker(WorkSteps)' /\ Web'
<1>1. /\ UNCHANGED <<storeVars, jobVars, webCache>>
      /\ Retry \/ Continue("ensureDeployment", obj)
      /\ budget' = budget \/ Disturb
      /\ web' = web \/ web' = [web EXCEPT ![cur][part] = obj.uid]
  BY DEF EnsurePartThen, Create
<1>2. UNCHANGED <<task, created>>
  BY <1>1 DEF storeVars
<1>3. Store' /\ Carried
  BY <1>1, StoreUntouched
<1>4. Worker(WorkSteps)'
  BY <1>1, <1>2, GoOn DEF WorkSteps, CleanupSteps
<1>5. CASE web' = web
  BY <1>1, <1>3, <1>4, <1>5, WebCarried DEF webVars
<1>6. CASE web' = [web EXCEPT ![cur][part] = obj.uid]
  <2>1. /\ cur \in Tasks /\ obj.uid \in 0..MaxIncarnations /\ obj.uid <= created[cur]
        /\ obj.uid = task[cur].uid => Holds(task[cur])
    BY InHand, Numbers DEF TaskObjects, Kept, Holds
  <2> QED
    BY <1>1, <1>2, <1>3, <1>4, <1>6, <2>1, PartReplaced
<1> QED
  BY <1>1, <1>5, <1>6

LEMMA DeletePartOK ==
  ASSUME Store, Worker(WorkSteps), Web, pc \in {"deleteService", "deleteDeployment"},
         NEW part \in Parts, NEW p \in WorkSteps, DeletePartThen(part, Continue(p, obj))
  PROVE  Store' /\ Worker(WorkSteps)' /\ Web'
<1>1. /\ UNCHANGED <<storeVars, jobVars, webCache>>
      /\ Retry \/ Continue(p, obj)
      /\ budget' = budget \/ Disturb
      /\ web' = web \/ web' = [web EXCEPT ![cur][part] = 0]
  BY DEF DeletePartThen
<1>2. UNCHANGED <<task, created>>
  BY <1>1 DEF storeVars
<1>3. Store' /\ Carried
  BY <1>1, StoreUntouched
<1>4. pc # "idle" /\ pc # "addFinalizer" /\ (obj.del \/ obj.phase \in Terminal)
  BY InHand DEF CleanupSteps
<1>5. Worker(WorkSteps)'
  BY <1>1, <1>2, <1>4, GoOn
<1>6. CASE web' = web
  BY <1>1, <1>3, <1>5, <1>6, WebCarried DEF webVars
<1>7. CASE web' = [web EXCEPT ![cur][part] = 0]
  <2>1. cur \in Tasks /\ 0 \in 0..MaxIncarnations
    BY <1>4, InHand, BoundsAssumption
  <2> QED
    BY <1>1, <1>2, <1>3, <1>5, <1>7, <2>1, PartReplaced
<1> QED
  BY <1>1, <1>6, <1>7

LEMMA HandlerStepKeeps ==
  ASSUME Store, Worker(WorkSteps), Web, HandlerStep
  PROVE  Store' /\ Worker(WorkSteps)' /\ Web'
<1>1. {"label", "start", "endTime", "deleteJob"} \subseteq WorkSteps
  BY DEF WorkSteps
<1>2. CASE JobSteps /\ UNCHANGED webVars
  <2>1. Store' /\ Worker(WorkSteps)' /\ Carried
    <3>1. CASE AddFinalizer \/ StartTask \/ RemoveFinalizer
      BY <3>1, AddFinalizerOK, StartTaskOK, RemoveFinalizerOK
    <3>2. CASE LabelTask \/ StampEndTime
      BY <1>1, <3>2, LabelTaskOK, StampEndTimeOK
    <3> QED
      BY <1>2, <3>1, <3>2 DEF JobSteps
  <2> QED
    BY <1>2, <2>1, WebCarried
<1>3. CASE EnsureJob
  <2>1. /\ pc \notin {"idle", "addFinalizer"} /\ UNCHANGED webVars
        /\ "ensureService" \in WorkSteps /\ "ensureService" \notin CleanupSteps
        /\ EnsureJobThen(Continue("ensureService", obj))
    BY <1>3 DEF EnsureJob, WorkSteps, CleanupSteps
  <2> QED
    BY <2>1, EnsureJobOK, WebCarried
<1>4. CASE EnsureService \/ EnsureDeployment
  BY <1>4, EnsurePartOK DEF EnsureService, EnsureDeployment, Parts
<1>5. CASE DeleteJob
  <2>1. /\ pc = "deleteJob" /\ UNCHANGED webVars /\ "deleteService" \in WorkSteps
        /\ DeleteJobThen(Continue("deleteService", obj))
    BY <1>5 DEF DeleteJob, WorkSteps
  <2> QED
    BY <2>1, DeleteJobOK, WebCarried
<1>6. CASE DeleteService \/ DeleteDeployment
  BY <1>6, DeletePartOK DEF DeleteService, DeleteDeployment, Parts, WorkSteps
<1> QED
  BY <1>2, <1>3, <1>4, <1>5, <1>6 DEF HandlerStep

-----------------------------------------------------------------------------
(* The cluster and the users.                                              *)

LEMMA WebUIKeeps ==
  ASSUME Store, Worker(WorkSteps), Web, NEW t \in Tasks, NEW p \in Parts,
         SyncPart(t, p) \/ GarbageCollectPart(t, p) \/ UserDeletesPart(t, p)
  PROVE  Store' /\ Worker(WorkSteps)' /\ Web'
<1>1. /\ UNCHANGED <<storeVars, workerVars, jobVars>>
      /\ budget' = budget \/ Disturb
      /\ queue' \in {queue, queue \cup {t}}
  BY DEF SyncPart, GarbageCollectPart, UserDeletesPart, LosePart
<1>2. UNCHANGED <<task, created>>
  BY <1>1 DEF storeVars
<1>3. Store' /\ Carried
  BY <1>1, StoreUntouched
<1>4. Worker(WorkSteps)'
  BY <1>1, <1>2, WorkerUntouched DEF Worker, WorkerTypeOK
<1> SUFFICES Web'
  BY <1>3, <1>4
<1>5. CASE SyncPart(t, p)
  BY <1>2, <1>5 DEF SyncPart, Web
<1>6. CASE GarbageCollectPart(t, p) \/ UserDeletesPart(t, p)
  <2>1. web' = [web EXCEPT ![t][p] = 0] /\ UNCHANGED webCache /\ 0 \in 0..MaxIncarnations
    BY <1>6, BoundsAssumption DEF GarbageCollectPart, UserDeletesPart, LosePart
  <2> QED
    BY <1>2, <2>1, PartReplaced
<1> QED
  BY <1>5, <1>6

LEMMA UserEndsTaskOK ==
  ASSUME Store, Worker(WorkSteps), NEW t \in Tasks, UserEndsTask(t)
  PROVE  Store' /\ Worker(WorkSteps)' /\ Carried
<1>1. PICK phase \in Terminal : Overwrite(t, [task[t] EXCEPT !.phase = phase])
  BY DEF UserEndsTask
<1> DEFINE new == [task[t] EXCEPT !.phase = phase]
<1>2. task[t] \in TaskObjects
  BY DEF Store, StoreTypeOK
<1>3. new \in TaskObjects /\ Safe(task[t], new)
  BY <1>1, <1>2 DEF TaskObjects, Phases, Safe, Holds
<1>4. /\ UNCHANGED jobVars /\ created' = created
      /\ created' \in [Tasks -> 0..MaxIncarnations] /\ budget' \in 0..MaxDisturbances
  BY DEF UserEndsTask, Store, StoreTypeOK
<1>5. Overwrite(t, new)
  BY <1>1
<1> HIDE DEF new
<1> QED
  BY <1>3, <1>4, <1>5, OverwriteOK DEF Intruded

LEMMA EnvironmentKeeps ==
  ASSUME Store, Worker(WorkSteps), Web, NEW t \in Tasks, Environment(t)
  PROVE  Store' /\ Worker(WorkSteps)' /\ Web'
<1>1. CASE JobExpires(t) /\ UNCHANGED webVars
  BY <1>1, JobBecomesOK, WebCarried DEF JobExpires
<1>2. CASE (Resync(t) \/ Users(t) \/ UserEndsTask(t) \/ Cluster(t)) /\ UNCHANGED webVars
  BY <1>2, EventOK, UsersOK, UserEndsTaskOK, ClusterOK, WebCarried
<1>3. ASSUME NEW p \in Parts,
             SyncPart(t, p) \/ GarbageCollectPart(t, p) \/ UserDeletesPart(t, p)
      PROVE  Store' /\ Worker(WorkSteps)' /\ Web'
  BY <1>3, WebUIKeeps
<1> QED
  BY <1>1, <1>2, <1>3 DEF Environment

-----------------------------------------------------------------------------
(* The theorems.                                                           *)

LEMMA GuardedInit ==
  ASSUME FineTuneInit
  PROVE  Guarded
<1>1. Store /\ Worker(WorkSteps)
  BY InitOK DEF FineTuneInit
<1>2. Web
  BY BoundsAssumption DEF FineTuneInit, Init, ControllerInit, Web, NoWeb
<1> QED
  BY <1>1, <1>2, GuardedParts

LEMMA GuardedStep ==
  ASSUME Guarded, [Next]_vars
  PROVE  Guarded'
<1>1. Store /\ Worker(WorkSteps) /\ Web
  BY GuardedParts
<1>2. Store' /\ Worker(WorkSteps)' /\ Web'
  <2>1. CASE HandlerStep
    BY <1>1, <2>1, HandlerStepKeeps
  <2>2. CASE Restart /\ UNCHANGED webVars
    BY <1>1, <2>2, RestartOK, WebCarried
  <2>3. ASSUME NEW t \in Tasks, Dispatched(t)
        PROVE  Store' /\ Worker(WorkSteps)' /\ Web'
    <3>1. EntrySteps \subseteq WorkSteps
      BY DEF EntrySteps, WorkSteps
    <3> QED
      BY <1>1, <2>3, <3>1, ReconcileOK, WebCarried DEF Dispatched
  <2>4. ASSUME NEW t \in Tasks, TaskSynced(t) \/ JobSynced(t)
        PROVE  Store' /\ Worker(WorkSteps)' /\ Web'
    BY <1>1, <2>4, SyncTaskObjectOK, EventOK, WebCarried DEF TaskSynced, JobSynced
  <2>5. ASSUME NEW t \in Tasks, Environment(t)
        PROVE  Store' /\ Worker(WorkSteps)' /\ Web'
    BY <1>1, <2>5, EnvironmentKeeps
  <2>6. CASE UNCHANGED vars
    <3>1. UNCHANGED <<storeVars, workerVars, jobVars, webVars, budget, queue>>
      BY <2>6 DEF vars, controllerVars
    <3>2. UNCHANGED <<task, created>>
      BY <3>1 DEF storeVars
    <3>3. Store' /\ Carried
      BY <1>1, <3>1, StoreUntouched
    <3>4. Worker(WorkSteps)'
      BY <1>1, <3>1, <3>2, WorkerUntouched DEF Worker, WorkerTypeOK
    <3> QED
      BY <1>1, <3>1, <3>3, <3>4, WebCarried
  <2> QED
    BY <2>1, <2>2, <2>3, <2>4, <2>5, <2>6 DEF Next
<1>3. (\A t \in Tasks :
          task[t].uid \in {web[t][p] : p \in Parts} \ {0} /\ task[t].phase \notin Terminal
              => task[t].fin)'
  BY <1>2 DEF Web, Holds
<1> QED
  BY <1>2, <1>3 DEF Guarded, TypeOK, FinalizerGuardsWork, Store, Worker, Web

\* A FineTuneTask's copies never know more than the server's object, every part
\* of its web UI was made for a task that was created, and no step takes the
\* finalizer from an unfinished task (finetunetask_controller.go:74-80, 189-236).
THEOREM FineTuneTaskGuarded == Spec => []Guarded
<1>1. FineTuneInit => Guarded
  BY GuardedInit
<1>2. Guarded /\ [Next]_vars => Guarded'
  BY GuardedStep
<1> QED
  BY <1>1, <1>2, PTL DEF Spec

\* The Job, the Service and the Deployment of an unfinished FineTuneTask are
\* only ever there behind the finalizer, whatever was lost or came late.
THEOREM FineTuneWorkGuarded == Spec => []FinalizerGuardsWork
<1>1. Guarded => FinalizerGuardsWork
  BY DEF Guarded
<1> QED
  BY <1>1, FineTuneTaskGuarded, PTL
-----------------------------------------------------------------------------
(* Cleanup.  As for the Job, so for the parts of the web UI: past the step *)
(* that deletes a part, the cache has yet to show what is left of it.      *)

PartSwept(part, after) ==
    pc \in after /\ web[cur][part] = obj.uid => cur \in queue \/ part \notin webCache[cur]

PastDeleteJob == {"deleteService", "deleteDeployment", "removeFinalizer"}
PastDeleteService == {"deleteDeployment", "removeFinalizer"}
PastDeleteDeployment == {"removeFinalizer"}

Swept ==
    /\ JobSwept(PastDeleteJob)
    /\ PartSwept("service", PastDeleteService)
    /\ PartSwept("deployment", PastDeleteDeployment)

LEMMA PartElsewhere ==
  ASSUME NEW part, NEW after, pc' \notin after
  PROVE  PartSwept(part, after)'
  BY DEF PartSwept

\* The worker stays past the deletion of the part; the part may go, and the
\* cache may learn of it.
LEMMA PastDeletePart ==
  ASSUME Guarded, NEW part \in Parts, NEW after, "idle" \notin after, PartSwept(part, after),
         pc' \in after =>
             /\ pc \in after /\ UNCHANGED <<cur, obj>> /\ queue \subseteq queue'
             /\ \A t \in Tasks :
                   /\ web'[t][part] \in {0, web[t][part]}
                   /\ (part \in webCache'[t] <=> part \in webCache[t]) \/ t \in queue'
  PROVE  PartSwept(part, after)'
<1> SUFFICES ASSUME pc' \in after, web'[cur'][part] = obj'.uid, cur' \notin queue'
             PROVE  part \notin webCache'[cur']
  BY DEF PartSwept
<1>1. pc \in after /\ cur' = cur /\ obj' = obj /\ queue \subseteq queue'
  OBVIOUS
<1>2. cur \in Tasks /\ obj.uid \in 1..created[cur] /\ created[cur] \in Nat
  BY <1>1, GuardedParts, InHand, Numbers
<1>3. web[cur][part] = obj.uid /\ cur \notin queue
      /\ (part \in webCache'[cur] <=> part \in webCache[cur])
  BY <1>1, <1>2
<1> QED
  BY <1>1, <1>3 DEF PartSwept

LEMMA DeletePartSwept ==
  ASSUME Guarded, NEW part \in Parts, NEW after, "idle" \notin after,
         pc # "idle", NEW p, DeletePartThen(part, Continue(p, obj))
  PROVE  PartSwept(part, after)'
<1>1. cur \in Tasks /\ obj.uid \in 1..created[cur] /\ created[cur] \in Nat
  BY GuardedParts, InHand, Numbers
<1>2. CASE Retry
  BY <1>2, PartElsewhere DEF Retry, Return
<1>3. CASE Continue(p, obj) /\ part \notin webCache[cur] /\ UNCHANGED webCache
  BY <1>3 DEF PartSwept, Continue
<1>4. CASE Continue(p, obj) /\ web' = [web EXCEPT ![cur][part] = 0]
  <2>1. cur' = cur /\ obj' = obj /\ web'[cur][part] = 0
    BY <1>1, <1>4 DEF Continue, Guarded, TypeOK
  <2> QED
    BY <1>1, <2>1 DEF PartSwept
<1> QED
  BY <1>2, <1>3, <1>4 DEF DeletePartThen
LEMMA ElsewhereAllSwept ==
  ASSUME pc' \notin PastDeleteJob
  PROVE  Swept'
<1>1. pc' \notin PastDeleteService /\ pc' \notin PastDeleteDeployment
  BY DEF PastDeleteJob, PastDeleteService, PastDeleteDeployment
<1> QED
  BY <1>1, ElsewhereSwept, PartElsewhere DEF Swept

LEMMA NotIdle ==
  /\ "idle" \notin PastDeleteJob /\ "idle" \notin PastDeleteService
  /\ "idle" \notin PastDeleteDeployment
  /\ "service" \in Parts /\ "deployment" \in Parts
  BY DEF PastDeleteJob, PastDeleteService, PastDeleteDeployment, Parts

LEMMA HandlerStepSwept ==
  ASSUME Guarded, Swept, HandlerStep
  PROVE  Swept'
<1>1. Store /\ Worker(WorkSteps)
  BY GuardedParts
<1>2. CASE JobSteps \/ EnsureJob \/ EnsureService \/ EnsureDeployment
  <2>1. pc' \notin PastDeleteJob
    BY <1>2
    DEF JobSteps, AddFinalizer, LabelTask, StartTask, StampEndTime, RemoveFinalizer,
        UpdateTask, EnsureJob, EnsureJobThen, EnsureService, EnsureDeployment, EnsurePartThen,
        Create, Done, Retry, Return, Continue, PastDeleteJob
  <2> QED
    BY <2>1, ElsewhereAllSwept
<1>3. CASE DeleteJob
  <2>1. pc = "deleteJob" /\ DeleteJobThen(Continue("deleteService", obj))
    BY <1>3 DEF DeleteJob
  <2>2. JobSwept(PastDeleteJob)'
    BY <1>1, <2>1, DeleteJobSwept, NotIdle
  <2>3. pc' \in {"idle", "deleteService"}
    BY <2>1 DEF DeleteJobThen, Continue, Retry, Return
  <2>4. pc' \notin PastDeleteService /\ pc' \notin PastDeleteDeployment
    BY <2>3 DEF PastDeleteService, PastDeleteDeployment
  <2> QED
    BY <2>2, <2>4, PartElsewhere DEF Swept
<1>4. ASSUME NEW part, NEW p, DeletePartThen(part, Continue(p, obj)), pc \in PastDeleteJob
      PROVE  JobSwept(PastDeleteJob)'
  <2>1. UNCHANGED jobVars /\ (pc' = "idle" \/ UNCHANGED <<cur, obj, queue>>)
    BY <1>4 DEF DeletePartThen, Continue, Retry, Return
  <2>2. NoJobAppears
    BY <2>1 DEF NoJobAppears, jobVars
  <2> QED
    BY <1>1, <1>4, <2>1, <2>2, NotIdle, PastDeleteJobSwept DEF Swept
<1>5. CASE DeleteService
  <2>1. pc = "deleteService" /\ DeletePartThen("service", Continue("deleteDeployment", obj))
    BY <1>5 DEF DeleteService
  <2>2. JobSwept(PastDeleteJob)'
    BY <1>4, <2>1 DEF PastDeleteJob
  <2>3. PartSwept("service", PastDeleteService)'
    BY <2>1, DeletePartSwept, NotIdle
  <2>4. pc' \in {"idle", "deleteDeployment"}
    BY <2>1 DEF DeletePartThen, Continue, Retry, Return
  <2>5. pc' \notin PastDeleteDeployment
    BY <2>4 DEF PastDeleteDeployment
  <2> QED
    BY <2>2, <2>3, <2>5, PartElsewhere DEF Swept
<1>6. CASE DeleteDeployment
  <2>1. /\ pc = "deleteDeployment"
        /\ DeletePartThen("deployment", Continue("removeFinalizer", obj))
    BY <1>6 DEF DeleteDeployment
  <2>2. JobSwept(PastDeleteJob)'
    BY <1>4, <2>1 DEF PastDeleteJob
  <2>3. PartSwept("deployment", PastDeleteDeployment)'
    BY <2>1, DeletePartSwept, NotIdle
  <2>4. PartSwept("service", PastDeleteService)'
    <3>1. /\ pc' = "idle" \/ UNCHANGED <<cur, obj, queue>>
          /\ UNCHANGED webCache
          /\ UNCHANGED web \/ web' = [web EXCEPT ![cur]["deployment"] = 0]
      BY <2>1 DEF DeletePartThen, Continue, Retry, Return
    <3>2. \A t \in Tasks : web'[t]["service"] = web[t]["service"]
      BY <3>1 DEF Guarded, TypeOK, Parts
    <3>3. pc \in PastDeleteService
      BY <2>1 DEF PastDeleteService
    <3> QED
      BY <3>1, <3>2, <3>3, PastDeletePart, NotIdle DEF Swept
  <2> QED
    BY <2>2, <2>3, <2>4 DEF Swept
<1> QED
  BY <1>2, <1>3, <1>5, <1>6 DEF HandlerStep

\* A step of others: the worker stays where it is, parts go, none appears.
LEMMA AsideSwept ==
  ASSUME Guarded, Swept, JobSwept(PastDeleteJob)',
         UNCHANGED <<pc, cur, obj>>, queue \subseteq queue',
         \A t \in Tasks, part \in Parts :
            /\ web'[t][part] \in {0, web[t][part]}
            /\ (part \in webCache'[t] <=> part \in webCache[t]) \/ t \in queue'
  PROVE  Swept'
<1>1. PartSwept("service", PastDeleteService)'
  BY PastDeletePart, NotIdle DEF Swept
<1>2. PartSwept("deployment", PastDeleteDeployment)'
  BY PastDeletePart, NotIdle DEF Swept
<1> QED
  BY <1>1, <1>2 DEF Swept

\* A step of others that leaves the Jobs alone.
LEMMA JobsAsideSwept ==
  ASSUME Guarded, Swept, UNCHANGED <<pc, cur, obj, job, jobCache>>, queue \subseteq queue'
  PROVE  JobSwept(PastDeleteJob)'
<1>1. NoJobAppears
  BY DEF NoJobAppears
<1> QED
  BY <1>1, GuardedParts, PastDeleteJobSwept, NotIdle DEF Swept

LEMMA WebUISwept ==
  ASSUME Guarded, Swept, NEW t \in Tasks, NEW p \in Parts,
         SyncPart(t, p) \/ GarbageCollectPart(t, p) \/ UserDeletesPart(t, p)
  PROVE  Swept'
<1>1. /\ UNCHANGED <<pc, cur, obj, job, jobCache>> /\ queue \subseteq queue'
  BY DEF SyncPart, GarbageCollectPart, UserDeletesPart, LosePart, workerVars, jobVars
<1>2. JobSwept(PastDeleteJob)'
  BY <1>1, JobsAsideSwept
<1>3. web \in [Tasks -> [Parts -> 0..MaxIncarnations]] /\ webCache \in [Tasks -> SUBSET Parts]
  BY DEF Guarded, TypeOK
<1>4. CASE SyncPart(t, p)
  <2>1. /\ web' = web /\ t \in queue'
        /\ \A u \in Tasks : u # t => webCache'[u] = webCache[u]
    BY <1>3, <1>4 DEF SyncPart
  <2> QED
    BY <1>1, <1>2, <2>1, AsideSwept
<1>5. CASE GarbageCollectPart(t, p) \/ UserDeletesPart(t, p)
  <2>1. web' = [web EXCEPT ![t][p] = 0] /\ UNCHANGED webCache
    BY <1>5 DEF GarbageCollectPart, UserDeletesPart, LosePart
  <2>2. \A u \in Tasks, q \in Parts : web'[u][q] \in {0, web[u][q]}
    BY <1>3, <2>1
  <2> QED
    BY <1>1, <1>2, <2>1, <2>2, AsideSwept
<1> QED
  BY <1>4, <1>5

LEMMA StepSwept ==
  ASSUME Guarded, Swept, [Next]_vars
  PROVE  Swept'
<1>1. Store /\ Worker(WorkSteps)
  BY GuardedParts
<1>2. ASSUME JobSwept(PastDeleteJob)', UNCHANGED <<pc, cur, obj>>, queue \subseteq queue',
             UNCHANGED webVars
      PROVE  Swept'
  BY <1>2, AsideSwept DEF webVars
<1>3. CASE Restart
  <2>1. pc' \notin PastDeleteJob
    BY <1>3 DEF Restart, RestartWorker, PastDeleteJob
  <2> QED
    BY <2>1, ElsewhereAllSwept
<1>4. ASSUME NEW t \in Tasks, Dispatched(t)
      PROVE  Swept'
  <2>1. pc' = "idle" \/ (pc' = EntryStep(cache[t]) /\ EntryStep(cache[t]) # "idle")
    BY <1>4 DEF Dispatched, Reconcile, Dispatch, workerVars
  <2>2. cache[t].phase \in Phases
    BY <1>1 DEF Store, StoreTypeOK, TaskObjects
  <2>3. pc' \notin PastDeleteJob
    BY <2>1, <2>2 DEF EntryStep, PhaseStep, Phases, PastDeleteJob
  <2> QED
    BY <2>3, ElsewhereAllSwept
<1>5. ASSUME NEW t \in Tasks,
             Resync(t) \/ SyncTaskObject(t) \/ SyncJob(t) \/ Users(t) \/ Cluster(t),
             UNCHANGED webVars
      PROVE  Swept'
  <2>1. JobSwept(PastDeleteJob)'
    BY <1>1, <1>5, NotIdle, EnvironmentSwept DEF Swept
  <2>2. UNCHANGED <<pc, cur, obj>> /\ queue \subseteq queue'
    BY <1>5
    DEF Resync, OtherEvent, SyncTaskObject, SyncTask, SyncJob, Users, UserCreate, UserDelete,
        UserTouch, Overwrite, Cluster, JobStarts, PodFails, PodRetried, JobEnds, JobMoves,
        GarbageCollect, JobVanishes, JobBecomes, workerVars
  <2> QED
    BY <1>2, <1>5, <2>1, <2>2
<1>6. ASSUME NEW t \in Tasks, UserEndsTask(t), UNCHANGED webVars
      PROVE  Swept'
  <2>1. UNCHANGED <<pc, cur, obj, queue, job, jobCache>>
    BY <1>6 DEF UserEndsTask, Overwrite, jobVars
  <2> QED
    BY <1>2, <1>6, <2>1, JobsAsideSwept
<1>7. ASSUME NEW t \in Tasks, JobExpires(t), UNCHANGED webVars
      PROVE  Swept'
  <2>1. /\ UNCHANGED <<pc, cur, obj, queue, jobCache>> /\ job' = [job EXCEPT ![t] = NoJob]
    BY <1>7 DEF JobExpires, JobBecomes, workerVars
  <2>2. NoJobAppears
    BY <1>1, <2>1 DEF NoJobAppears, NoJob, Store, JobTypeOK
  <2>3. JobSwept(PastDeleteJob)'
    BY <1>1, <2>1, <2>2, NotIdle, PastDeleteJobSwept DEF Swept
  <2> QED
    BY <1>2, <1>7, <2>1, <2>3
<1>8. CASE UNCHANGED vars
  <2>1. UNCHANGED <<pc, cur, obj, queue, job, jobCache, webVars>>
    BY <1>8 DEF vars, controllerVars, workerVars, jobVars
  <2> QED
    BY <1>2, <2>1, JobsAsideSwept
<1> QED
  BY <1>3, <1>4, <1>5, <1>6, <1>7, <1>8, HandlerStepSwept, WebUISwept
  DEF Next, Environment, TaskSynced, JobSynced

\* When a FineTuneTask's finalizer is about to go, what is left behind of its
\* Job, Service and Deployment the caches show too late: an event is still to
\* come or has queued the task again (finetunetask_controller.go:160-236).
THEOREM FineTuneTaskSweeps == Spec => []CleanupMissesOnlyLateWork
<1>1. FineTuneInit => Swept
  BY DEF FineTuneInit, Init, ControllerInit, Swept, JobSwept, PartSwept, PastDeleteJob,
         PastDeleteService, PastDeleteDeployment
<1>2. Guarded /\ Swept /\ [Next]_vars => Swept'
  BY StepSwept
<1>3. Guarded /\ Swept => CleanupMissesOnlyLateWork
  <2> SUFFICES ASSUME Guarded, Swept
               PROVE  CleanupMissesOnlyLateWork
    OBVIOUS
  <2>1. CleanupMissesOnlyLateJobs
    BY GuardedParts, SweptMissesOnlyLate DEF Swept, PastDeleteJob
  <2> QED
    BY <2>1
    DEF CleanupMissesOnlyLateWork, Swept, PartSwept, PastDeleteService, PastDeleteDeployment,
        Parts
<1> QED
  BY <1>1, <1>2, <1>3, FineTuneTaskGuarded, PTL DEF Spec
-----------------------------------------------------------------------------
(* The controller and the SDK's UpdateStatus implement the lifecycle.  A   *)
(* user may end a task that is running at any time; that is a step of the  *)
(* lifecycle because such a task still has its finalizer.                  *)

RunningHeld == \A t \in Tasks : task[t].phase = "running" => task[t].fin

LEMMA StoredHeld ==
  ASSUME Store, cur \in Tasks, RunningHeld, NEW f, NEW new,
         f /\ new.phase = "running" => new.fin,
         Accepted(f, new) \/ Failed(f, new)
  PROVE  RunningHeld'
  BY DEF Accepted, Failed, StoredFrom, RunningHeld, Store, StoreTypeOK

LEMMA OverwriteHeld ==
  ASSUME Store, RunningHeld, NEW t \in Tasks, NEW new, new.phase = "running" => new.fin,
         Overwrite(t, new)
  PROVE  RunningHeld'
  BY DEF Overwrite, RunningHeld, Store, StoreTypeOK

LEMMA JobStepsHeld ==
  ASSUME Guarded, RunningHeld, JobSteps
  PROVE  RunningHeld'
<1>1. Store /\ pc # "idle" /\ cur \in Tasks /\ obj \in TaskObjects
      /\ (pc # "addFinalizer" => obj.fin)
      /\ (pc \in CleanupSteps => obj.del \/ obj.phase \in Terminal)
  BY GuardedParts, InHand
  DEF JobSteps, AddFinalizer, LabelTask, StartTask, StampEndTime, RemoveFinalizer
<1>2. CASE AddFinalizer
  <2> DEFINE new == [obj EXCEPT !.fin = TRUE]
  <2>1. new.fin /\ (Accepted(objFresh, new) \/ Failed(objFresh, new))
    BY <1>1, <1>2 DEF AddFinalizer, UpdateTask, TaskObjects
  <2> HIDE DEF new
  <2> QED
    BY <1>1, <2>1, StoredHeld
<1>3. CASE LabelTask
  <2> DEFINE new == [obj EXCEPT !.label = TRUE]
  <2>1. new.fin /\ (Accepted(objFresh, new) \/ Failed(objFresh, new))
    BY <1>1, <1>3 DEF LabelTask, UpdateTask, TaskObjects
  <2> HIDE DEF new
  <2> QED
    BY <1>1, <2>1, StoredHeld
<1>4. CASE StartTask
  <2> DEFINE new == [obj EXCEPT !.phase = "running"]
  <2>1. new.fin /\ (Accepted(objFresh, new) \/ Failed(objFresh, new))
    BY <1>1, <1>4 DEF StartTask, UpdateTask, TaskObjects
  <2> HIDE DEF new
  <2> QED
    BY <1>1, <2>1, StoredHeld
<1>5. CASE StampEndTime
  <2> DEFINE new == [obj EXCEPT !.end = TRUE]
  <2>1. new.fin /\ (Accepted(objFresh, new) \/ Failed(objFresh, new))
    BY <1>1, <1>5 DEF StampEndTime, UpdateTask, TaskObjects
  <2> HIDE DEF new
  <2> QED
    BY <1>1, <2>1, StoredHeld
<1>6. CASE RemoveFinalizer
  <2> DEFINE new == IF obj.del THEN Absent ELSE [obj EXCEPT !.fin = FALSE]
  <2>1. new.phase # "running"
    BY <1>1, <1>6 DEF RemoveFinalizer, CleanupSteps, TaskObjects, Terminal, Absent, NewTask, Unset
  <2>2. Accepted(objFresh, new) \/ Failed(objFresh, new)
    BY <1>6 DEF RemoveFinalizer, UpdateTask
  <2> HIDE DEF new
  <2> QED
    BY <1>1, <2>1, <2>2, StoredHeld
<1> QED
  BY <1>2, <1>3, <1>4, <1>5, <1>6 DEF JobSteps

LEMMA UsersHeld ==
  ASSUME Guarded, RunningHeld, NEW t \in Tasks, Users(t) \/ UserEndsTask(t)
  PROVE  RunningHeld'
<1>1. Store /\ task[t] \in TaskObjects
  BY GuardedParts DEF Store, StoreTypeOK
<1>2. CASE UserCreate(t)
  <2>1. NewTask(created[t] + 1).phase # "running"
    BY DEF NewTask, Unset
  <2> QED
    BY <1>1, <1>2, <2>1, OverwriteHeld DEF UserCreate
<1>3. CASE UserDelete(t)
  <2>1. Deleted(task[t]).phase = "running" => Deleted(task[t]).fin
    BY <1>1 DEF Deleted, Absent, NewTask, Unset, TaskObjects
  <2> QED
    BY <1>1, <1>3, <2>1, OverwriteHeld DEF UserDelete
<1>4. CASE UserTouch(t)
  <2>1. task[t].phase = "running" => task[t].fin
    BY DEF RunningHeld
  <2> QED
    BY <1>1, <1>4, <2>1, OverwriteHeld DEF UserTouch
<1>5. CASE UserEndsTask(t)
  <2>1. PICK phase \in Terminal : Overwrite(t, [task[t] EXCEPT !.phase = phase])
    BY <1>5 DEF UserEndsTask
  <2>2. [task[t] EXCEPT !.phase = phase].phase # "running"
    BY <1>1, <2>1 DEF TaskObjects, Terminal
  <2> QED
    BY <1>1, <2>1, <2>2, OverwriteHeld
<1> QED
  BY <1>2, <1>3, <1>4, <1>5 DEF Users

\* The steps that leave the tasks alone.
LEMMA OwnStepsLeave ==
  ASSUME EnsureJob \/ EnsureService \/ EnsureDeployment
             \/ DeleteJob \/ DeleteService \/ DeleteDeployment
  PROVE  UNCHANGED <<task, created>>
  BY DEF EnsureJob, EnsureJobThen, EnsureService, EnsureDeployment, EnsurePartThen, Create,
         DeleteJob, DeleteJobThen, DeleteService, DeleteDeployment, DeletePartThen, storeVars

Onlooker(t) ==
    \/ Bystander(t) \/ JobExpires(t)
    \/ \E p \in Parts :
          SyncPart(t, p) \/ GarbageCollectPart(t, p) \/ UserDeletesPart(t, p)

LEMMA OnlookerLeaves ==
  ASSUME NEW t \in Tasks, Onlooker(t)
  PROVE  UNCHANGED <<task, created, workerVars>>
<1>1. CASE JobExpires(t)
  BY <1>1 DEF JobExpires, JobBecomes, storeVars
<1>2. ASSUME NEW p \in Parts,
             SyncPart(t, p) \/ GarbageCollectPart(t, p) \/ UserDeletesPart(t, p)
      PROVE  UNCHANGED <<task, created, workerVars>>
  BY <1>2 DEF SyncPart, GarbageCollectPart, UserDeletesPart, LosePart, storeVars
<1> QED
  BY <1>1, <1>2, BystanderLeaves DEF Onlooker

\* Every step is one of these.
LEMMA Steps ==
  ASSUME [Next]_vars
  PROVE  \/ JobSteps
         \/ EnsureJob \/ EnsureService \/ EnsureDeployment
         \/ DeleteJob \/ DeleteService \/ DeleteDeployment
         \/ Restart \/ UNCHANGED vars
         \/ \E t \in Tasks : Reconcile(t) \/ Onlooker(t) \/ Users(t) \/ UserEndsTask(t)
  BY DEF Next, HandlerStep, Dispatched, TaskSynced, JobSynced, Environment, Onlooker, Bystander

LEMMA StepHeld ==
  ASSUME Guarded, RunningHeld, [Next]_vars
  PROVE  RunningHeld'
<1>1. ASSUME UNCHANGED task
      PROVE  RunningHeld'
  BY <1>1 DEF RunningHeld
<1>2. ASSUME NEW t \in Tasks, Reconcile(t) \/ Onlooker(t)
      PROVE  RunningHeld'
  BY <1>1, <1>2, OnlookerLeaves DEF Reconcile, Dispatch, storeVars
<1>3. CASE Restart \/ UNCHANGED vars
  BY <1>1, <1>3 DEF Restart, RestartWorker, vars, controllerVars, storeVars
<1> QED
  BY <1>1, <1>2, <1>3, Steps, JobStepsHeld, UsersHeld, OwnStepsLeave

LEMMA StepKnows ==
  ASSUME Guarded, HandlerKnows, [Next]_vars
  PROVE  HandlerKnows'
<1>1. Store /\ Worker(WorkSteps)
  BY GuardedParts
<1>2. CASE JobSteps
  BY <1>1, <1>2, JobStepKnows DEF JobSteps
<1>3. CASE EnsureJob \/ EnsureService \/ EnsureDeployment
  <2>1. /\ pc \notin {"idle", "status"} /\ UNCHANGED task
        /\ Continue("ensureService", obj) \/ Continue("ensureDeployment", obj) \/ Retry
    BY <1>3
    DEF EnsureJob, EnsureJobThen, EnsureService, EnsureDeployment, EnsurePartThen, Create,
        storeVars
  <2>2. Known("ensureService", obj) /\ Known("ensureDeployment", obj)
    BY DEF Known, CleanupSteps
  <2> QED
    BY <2>1, <2>2, GoOnKnows
<1>4. CASE DeleteJob \/ DeleteService \/ DeleteDeployment
  <2>1. /\ pc \in {"deleteJob", "deleteService", "deleteDeployment"} /\ UNCHANGED task
        /\ \/ Continue("deleteService", obj) \/ Continue("deleteDeployment", obj)
           \/ Continue("removeFinalizer", obj) \/ Retry
    BY <1>4
    DEF DeleteJob, DeleteJobThen, DeleteService, DeleteDeployment, DeletePartThen, storeVars
  <2>2. /\ Known("deleteService", obj) /\ Known("deleteDeployment", obj)
        /\ Known("removeFinalizer", obj)
    BY <2>1 DEF HandlerKnows, Known, CleanupSteps
  <2> QED
    BY <2>1, <2>2, GoOnKnows
<1>5. CASE Restart
  BY <1>5 DEF Restart, RestartWorker, HandlerKnows
<1>6. ASSUME NEW t \in Tasks, Reconcile(t) \/ Onlooker(t)
      PROVE  HandlerKnows'
  BY <1>1, <1>6, ReconcileKnows, OnlookerLeaves, UnchangedKnows
<1>7. ASSUME NEW t \in Tasks, Users(t) \/ UserEndsTask(t)
      PROVE  HandlerKnows'
  BY <1>1, <1>7, OverwriteKnows DEF Users, UserCreate, UserDelete, UserTouch, UserEndsTask
<1>8. CASE UNCHANGED vars
  BY <1>8, UnchangedKnows DEF vars, controllerVars, storeVars
<1> QED
  BY <1>2, <1>3, <1>4, <1>5, <1>6, <1>7, <1>8, Steps

LEMMA UserEndsTaskRefines ==
  ASSUME Guarded, RunningHeld, NEW t \in Tasks, UserEndsTask(t)
  PROVE  LifecycleStep
<1>1. PICK phase \in Terminal : Overwrite(t, [task[t] EXCEPT !.phase = phase])
  BY DEF UserEndsTask
<1>2. /\ task[t] \in TaskObjects /\ phase \in Phases /\ Store
      /\ task[t].phase = "running" /\ task[t].fin /\ ~task[t].del /\ UNCHANGED created
  BY <1>1, GuardedParts DEF UserEndsTask, RunningHeld, Store, StoreTypeOK, Phases
<1>3. Life[t] = LifeOf(task[t])
  BY LifeEntries
<1>4. Lifecycle!Becomes(t, LifeOf([task[t] EXCEPT !.phase = phase]))
  BY <1>1, <1>2, LifeChanges DEF Overwrite
<1>5. LifeOf([task[t] EXCEPT !.phase = phase]) = [Life[t] EXCEPT !.phase = phase]
  BY <1>2, <1>3, LifePhase, Zenon
<1>6. Lifecycle!Becomes(t, [Life[t] EXCEPT !.phase = phase])
  BY <1>4, <1>5
<1>7. Life[t].phase = "running" /\ Life[t].fin /\ ~Life[t].del
  BY <1>2, <1>3, LifeValues
<1>8. phase \in {e[2] : e \in {f \in PhaseEdges : f[1] = Life[t].phase}}
  <2>1. <<"running", phase>> \in {f \in PhaseEdges : f[1] = Life[t].phase}
    BY <1>1, <1>7 DEF PhaseEdges, Terminal
  <2> QED
    BY <2>1
<1>9. Lifecycle!Advance(t)
  BY <1>6, <1>7, <1>8 DEF Lifecycle!Advance
<1> QED
  BY <1>2, <1>9 DEF LifecycleStep, Lifecycle!Next

LEMMA StepRefines ==
  ASSUME Guarded, HandlerKnows, RunningHeld, [Next]_vars
  PROVE  LifecycleStep
<1>1. Store /\ Worker(WorkSteps)
  BY GuardedParts
<1>2. CASE JobSteps
  BY <1>1, <1>2, JobStepRefines DEF JobSteps
<1>3. CASE Restart \/ UNCHANGED vars
  BY <1>3, UnchangedRefines DEF Restart, RestartWorker, vars, controllerVars, storeVars
<1>4. ASSUME NEW t \in Tasks, Reconcile(t) \/ Onlooker(t)
      PROVE  LifecycleStep
  BY <1>4, OnlookerLeaves, UnchangedRefines DEF Reconcile, Dispatch, storeVars
<1>5. ASSUME NEW t \in Tasks, Users(t) \/ UserEndsTask(t)
      PROVE  LifecycleStep
  BY <1>1, <1>5, UsersRefine, UserEndsTaskRefines
<1> QED
  BY <1>2, <1>3, <1>4, <1>5, Steps, OwnStepsLeave, UnchangedRefines

\* The FineTuneTask controller and a user who ends its tasks through the SDK
\* implement the lifecycle: a task that has ended stays as it ended, the end
\* time is stamped once, the finalizer goes only from a finished or deleted
\* task (finetunetask_controller.go:150-187, sdk/finetunetask.go:44).
THEOREM FineTuneTaskImplementsLifecycle == Spec => LifecycleSpec
<1>1. FineTuneInit => HandlerKnows /\ RunningHeld /\ Lifecycle!Init
  <2>1. FineTuneInit => HandlerKnows /\ Lifecycle!Init
    BY AbsentLife
    DEF FineTuneInit, Init, ControllerInit, HandlerKnows, Lifecycle!Init, Life, LifeOf
  <2>2. Absent.phase # "running"
    BY DEF Absent, NewTask, Unset
  <2>3. FineTuneInit => RunningHeld
    BY <2>2 DEF FineTuneInit, Init, ControllerInit, RunningHeld
  <2> QED
    BY <2>1, <2>3
<1>2. Guarded /\ HandlerKnows /\ [Next]_vars => HandlerKnows'
  BY StepKnows
<1>3. Guarded /\ RunningHeld /\ [Next]_vars => RunningHeld'
  BY StepHeld
<1>4. Guarded /\ HandlerKnows /\ RunningHeld /\ [Next]_vars
        => [Lifecycle!Next]_Lifecycle!lifecycleVars
  BY StepRefines DEF LifecycleStep, Lifecycle!lifecycleVars
<1>5. Spec => []Guarded
  BY FineTuneTaskGuarded
<1>6. Spec => Lifecycle!Spec
  BY <1>1, <1>2, <1>3, <1>4, <1>5, PTL DEF Spec, Lifecycle!Spec
<1> QED
  BY <1>6 DEF LifecycleSpec
-----------------------------------------------------------------------------
(* No wake-up is lost.                                                     *)

LEMMA OnlookerTended ==
  ASSUME Tended, NEW t \in Tasks, Onlooker(t)
  PROVE  Tended'
<1>1. CASE JobExpires(t)
  BY <1>1, UntouchedTended DEF JobExpires, JobBecomes, storeVars, workerVars
<1>2. ASSUME NEW p \in Parts,
             SyncPart(t, p) \/ GarbageCollectPart(t, p) \/ UserDeletesPart(t, p)
      PROVE  Tended'
  <2>1. UNCHANGED <<task, fresh, cur>> /\ queue \subseteq queue'
    BY <1>2 DEF SyncPart, GarbageCollectPart, UserDeletesPart, LosePart, storeVars, workerVars
  <2> QED
    BY <2>1, UntouchedTended
<1> QED
  BY <1>1, <1>2, BystanderTended DEF Onlooker

LEMMA UserEndsTaskTended ==
  ASSUME Store, Tended, NEW t \in Tasks, UserEndsTask(t)
  PROVE  Tended'
<1>1. PICK phase \in Terminal : Overwrite(t, [task[t] EXCEPT !.phase = phase])
  BY DEF UserEndsTask
<1>2. task[t] \in TaskObjects /\ Fit(task[t])
  BY DEF Store, StoreTypeOK, Tended
<1>3. Fit([task[t] EXCEPT !.phase = phase])
  BY <1>2 DEF Fit, TaskObjects, Terminal
<1> QED
  BY <1>1, <1>3, OverwriteTended

LEMMA StepTended ==
  ASSUME Guarded, HandlerKnows, Tended, [Next]_vars
  PROVE  Tended'
<1>1. Store /\ Worker(WorkSteps) /\ "idle" \notin WorkSteps
  BY GuardedParts DEF WorkSteps
<1>2. CASE JobSteps
  BY <1>1, <1>2, JobStepTended DEF JobSteps
<1>3. CASE EnsureJob \/ EnsureService \/ EnsureDeployment
             \/ DeleteJob \/ DeleteService \/ DeleteDeployment
  <2>1. UNCHANGED <<task, fresh>>
    BY <1>3
    DEF EnsureJob, EnsureJobThen, EnsureService, EnsureDeployment, EnsurePartThen, DeleteJob,
        DeleteJobThen, DeleteService, DeleteDeployment, DeletePartThen, storeVars
  <2>2. Retry \/ \E p, o : Continue(p, o)
    BY <1>3
    DEF EnsureJob, EnsureJobThen, EnsureService, EnsureDeployment, EnsurePartThen, Create,
        DeleteJob, DeleteJobThen, DeleteService, DeleteDeployment, DeletePartThen
  <2> QED
    BY <2>1, <2>2, BusyTended
<1>4. CASE Restart
  BY <1>1, <1>4, RestartTended
<1>5. ASSUME NEW t \in Tasks, Reconcile(t) \/ Onlooker(t)
      PROVE  Tended'
  BY <1>1, <1>5, ReconcileTended, OnlookerTended
<1>6. ASSUME NEW t \in Tasks, Users(t) \/ UserEndsTask(t)
      PROVE  Tended'
  BY <1>1, <1>6, UsersTended, UserEndsTaskTended
<1>7. CASE UNCHANGED vars
  BY <1>7, UntouchedTended DEF vars, controllerVars, storeVars, workerVars
<1> QED
  BY <1>2, <1>3, <1>4, <1>5, <1>6, <1>7, Steps

\* A FineTuneTask that needs its controller is in the worker's hands, in the
\* queue or has an event undelivered, although the handlers that add or remove
\* the finalizer and the one that starts the task return without asking to be
\* called again (finetunetask_controller.go:81, 123, 170).
THEOREM FineTuneTaskWakes == Spec => []NoLostWakeup
<1>1. FineTuneInit => HandlerKnows /\ Tended
  BY InitTended DEF FineTuneInit, Init, ControllerInit, HandlerKnows
<1>2. Guarded /\ HandlerKnows /\ [Next]_vars => HandlerKnows'
  BY StepKnows
<1>3. Guarded /\ HandlerKnows /\ Tended /\ [Next]_vars => Tended'
  BY StepTended
<1>4. Tended => NoLostWakeup
  BY DEF Tended
<1> QED
  BY <1>1, <1>2, <1>3, <1>4, FineTuneTaskGuarded, PTL DEF Spec
=============================================================================
