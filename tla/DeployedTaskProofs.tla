------------------------- MODULE DeployedTaskProofs --------------------------
(***************************************************************************)
(* What the proofs about DevTask and InferenceTask share.  TypedIn and     *)
(* GuardedExcept are kept by everything the two specifications have in     *)
(* common: writes of the task, writes of its children, the steps that are  *)
(* the same in both controllers, and the cluster around them; so is what a *)
(* handler knows of the task it holds, whatever others do to it meanwhile, *)
(* from which it follows that no wake-up is lost, that both controllers    *)
(* implement TaskLifecycle, that cleanup misses nothing but what is late,  *)
(* and that a task ends for a cause.  A lemma is about any set of steps,   *)
(* any set of steps before the finalizer is there (`unguarded`), and any   *)
(* set of steps at which a controller has seen its task in no phase yet    *)
(* (`early`).                                                              *)
(***************************************************************************)
EXTENDS DeployedTask, TaskControllerProofs

-----------------------------------------------------------------------------
(* Types.                                                                  *)

\* Writing one field of a task gives a task.
LEMMA FieldTypes ==
  ASSUME NEW o \in TaskObjects
  PROVE  /\ [o EXCEPT !.fin = TRUE] \in TaskObjects
         /\ [o EXCEPT !.label = TRUE] \in TaskObjects
         /\ [o EXCEPT !.end = TRUE] \in TaskObjects
         /\ \A phase \in Phases : [o EXCEPT !.phase = phase] \in TaskObjects
         /\ \A url \in URLs : [o EXCEPT !.url = url] \in TaskObjects
  BY DEF TaskObjects

LEMMA ChildrenUnchangedType ==
  ASSUME ClusterTypeOK, UNCHANGED <<childVars, pods, timers, gateway>>
  PROVE  ClusterTypeOK'
  BY DEF ClusterTypeOK, childVars

LEMMA StoreUnchangedType ==
  ASSUME StoreTypeOK, UNCHANGED storeVars, UNCHANGED budget \/ Disturb
  PROVE  StoreTypeOK'
  BY DisturbType DEF StoreTypeOK, storeVars

\* The worker goes on with a well-typed copy, or returns.
WorkerMoves(steps) ==
  \/ \E p \in steps, o \in TaskObjects : Continue(p, o)
  \/ Done \/ Retry

LEMMA WorkerMovesType ==
  ASSUME NEW steps, WorkerTypeOK(steps), cur \in Tasks, WorkerMoves(steps)
  PROVE  WorkerTypeOK(steps)'
  BY ContinueType, ReturnType DEF WorkerMoves

\* The shape of every step that writes the task.
LEMMA UpdateType ==
  ASSUME NEW steps, TypedIn(steps), cur \in Tasks,
         NEW f, NEW new \in TaskObjects,
         Accepted(f, new) \/ Failed(f, new), UNCHANGED <<created, cache>>,
         WorkerMoves(steps),
         UNCHANGED <<childVars, pods, timers, gateway>>
  PROVE  TypedIn(steps)'
<1>1. StoreTypeOK'
  BY UpdateStoreType DEF TypedIn
<1> QED
  BY <1>1, WorkerMovesType, ChildrenUnchangedType DEF TypedIn

\* What a handler step may assume.
LEMMA Working ==
  ASSUME NEW steps, TypedIn(steps), pc # "idle"
  PROVE  /\ cur \in Tasks /\ pc \in steps
         /\ obj \in TaskObjects /\ cache[cur] \in TaskObjects
         /\ deploy[cur].owner \in 0..MaxIncarnations
  BY DEF TypedIn, WorkerTypeOK, StoreTypeOK, ClusterTypeOK

LEMMA UpdateStatusType ==
  ASSUME NEW steps, TypedIn(steps), UpdateStatus
  PROVE  TypedIn(steps)'
<1>1. cur \in Tasks /\ obj \in TaskObjects
  BY Working DEF UpdateStatus
<1> QED
  BY <1>1, UpdateType DEF UpdateStatus, UpdateTask, WorkerMoves

LEMMA RemoveFinalizerType ==
  ASSUME NEW steps, TypedIn(steps), RemoveFinalizer
  PROVE  TypedIn(steps)'
<1>1. cur \in Tasks
  BY Working DEF RemoveFinalizer
<1> QED
  BY <1>1, AbsentType, UpdateType DEF RemoveFinalizer, UpdateTask, WorkerMoves

\* The shape of every step that writes a child.
DeploymentType(d) == d \in [owner: 0..MaxIncarnations, zero: BOOLEAN]

RouteType(r) == r \in [owner: 0..MaxIncarnations, fin: BOOLEAN, del: BOOLEAN]

ChildrenTypeOK ==
  /\ deploy \in [Tasks -> [owner: 0..MaxIncarnations, zero: BOOLEAN]]
  /\ svc \in [Tasks -> 0..MaxIncarnations]
  /\ route \in [Tasks -> [owner: 0..MaxIncarnations, fin: BOOLEAN, del: BOOLEAN]]
  /\ routeFresh \subseteq Tasks
  /\ timers \in [Tasks -> SUBSET (0..MaxIncarnations)]

LEMMA ChildType ==
  ASSUME NEW steps, TypedIn(steps), cur \in Tasks, WorkerMoves(steps),
         UNCHANGED <<task, created, cache, deployCache, svcCache, routeCache, pods, gateway>>,
         fresh' \subseteq Tasks,
         UNCHANGED budget \/ Disturb,
         ChildrenTypeOK'
  PROVE  TypedIn(steps)'
<1>1. StoreTypeOK'
  BY DisturbType DEF TypedIn, StoreTypeOK
<1>2. ClusterTypeOK'
  BY DEF TypedIn, ClusterTypeOK, ChildrenTypeOK
<1> QED
  BY <1>1, <1>2, WorkerMovesType DEF TypedIn

LEMMA EmptyChildTypes ==
  DeploymentType(NoDeploy) /\ RouteType(NoRoute)
  BY BoundsAssumption DEF DeploymentType, RouteType, NoDeploy, NoRoute

\* Returning, going on with the copy, and going on to write a phase.
LEMMA Moves ==
  ASSUME NEW steps, TypedIn(steps), pc # "idle", "status" \in steps,
         NEW p \in steps, NEW phase \in Phases,
         Continue(p, obj) \/ Done \/ Retry \/ Conclude(phase)
  PROVE  WorkerMoves(steps)
<1>1. obj \in TaskObjects /\ WithPhase(phase) \in TaskObjects
  BY Working, FieldTypes DEF WithPhase
<1> QED
  BY <1>1 DEF Conclude, WorkerMoves

\* Going on to announce the running task, with or without a URL.
LEMMA RunningType ==
  ASSUME NEW steps, TypedIn(steps), pc # "idle", NEW url \in URLs \cup {NoURL}
  PROVE  [WithPhase("running") EXCEPT !.url = url] \in TaskObjects
<1>1. WithPhase("running") \in TaskObjects
  BY Working, FieldTypes DEF WithPhase, Phases
<1> QED
  BY <1>1 DEF TaskObjects

LEMMA CreateDeploymentType ==
  ASSUME NEW steps, TypedIn(steps), pc # "idle", NEW zero \in BOOLEAN,
         \/ UNCHANGED deploy
         \/ deploy' = [deploy EXCEPT ![cur] = [owner |-> obj.uid, zero |-> zero]]
         \/ deploy' = [deploy EXCEPT ![cur] = NoDeploy],
         UNCHANGED <<svc, route, routeFresh, timers>>
  PROVE  ChildrenTypeOK'
<1>1. DeploymentType([owner |-> obj.uid, zero |-> zero])
  BY Working DEF TaskObjects, DeploymentType
<1> DEFINE Deployments == [owner: 0..MaxIncarnations, zero: BOOLEAN]
<1>2. /\ [owner |-> obj.uid, zero |-> zero] \in Deployments
      /\ NoDeploy \in Deployments
      /\ deploy \in [Tasks -> Deployments]
  BY <1>1, EmptyChildTypes DEF TypedIn, ClusterTypeOK, DeploymentType
<1> HIDE DEF Deployments
<1>3. deploy' \in [Tasks -> Deployments]
  BY <1>2
<1> QED
  BY <1>3 DEF TypedIn, ClusterTypeOK, ChildrenTypeOK, Deployments

LEMMA ServiceWriteType ==
  ASSUME NEW steps, TypedIn(steps), pc # "idle",
         \/ UNCHANGED svc
         \/ svc' = [svc EXCEPT ![cur] = obj.uid]
         \/ svc' = [svc EXCEPT ![cur] = 0],
         UNCHANGED <<deploy, route, routeFresh>>,
         timers' \in [Tasks -> SUBSET (0..MaxIncarnations)]
  PROVE  ChildrenTypeOK'
<1>1. obj.uid \in 0..MaxIncarnations /\ 0 \in 0..MaxIncarnations
  BY Working, BoundsAssumption DEF TaskObjects
<1> QED
  BY <1>1 DEF TypedIn, ClusterTypeOK, ChildrenTypeOK

LEMMA RouteWriteType ==
  ASSUME NEW steps, TypedIn(steps), pc # "idle", NEW r, RouteType(r),
         \/ UNCHANGED <<route, routeFresh>>
         \/ /\ route' = [route EXCEPT ![cur] = r]
            /\ routeFresh' = routeFresh \ {cur},
         UNCHANGED <<deploy, svc>>,
         timers' \in [Tasks -> SUBSET (0..MaxIncarnations)]
  PROVE  ChildrenTypeOK'
  BY DEF TypedIn, ClusterTypeOK, ChildrenTypeOK, RouteType

\* The TTL goroutine is started for the object the worker holds.
LEMMA StartTimerType ==
  ASSUME NEW steps, TypedIn(steps), pc # "idle", StartTimer \/ UNCHANGED timers
  PROVE  timers' \in [Tasks -> SUBSET (0..MaxIncarnations)]
<1>1. obj.uid \in 0..MaxIncarnations
  BY Working DEF TaskObjects
<1>2. timers \in [Tasks -> SUBSET (0..MaxIncarnations)]
  BY DEF TypedIn, ClusterTypeOK
<1> QED
  BY <1>1, <1>2 DEF StartTimer

\* The route a handler creates.
NewRoute(fin) == [owner |-> obj.uid, fin |-> fin, del |-> FALSE]

LEMMA NewRouteType ==
  ASSUME NEW steps, TypedIn(steps), pc # "idle", NEW fin \in BOOLEAN
  PROVE  RouteType(NewRoute(fin))
  BY Working DEF TaskObjects, RouteType, NewRoute

\* What the server stores when a route's finalizer is removed, and when the
\* route is deleted.
Released(r) == IF r.del THEN NoRoute ELSE [r EXCEPT !.fin = FALSE]

LEMMA StoredRouteTypes ==
  ASSUME NEW steps, TypedIn(steps), NEW t \in Tasks
  PROVE  RouteType(route[t]) /\ RouteType(Released(route[t])) /\ RouteType(RouteDeleted(route[t]))
<1>1. RouteType(route[t])
  BY DEF TypedIn, ClusterTypeOK, RouteType
<1> QED
  BY <1>1, EmptyChildTypes DEF RouteType, Released, RouteDeleted

LEMMA CheckDeploymentType ==
  ASSUME NEW steps, TypedIn(steps), pc # "idle", {"status", "ensureService"} \subseteq steps,
         NEW zero \in BOOLEAN, NEW listed, CheckDeployment(zero, listed)
  PROVE  TypedIn(steps)'
<1>1. cur \in Tasks
  BY Working
<1>2. \/ Continue("ensureService", obj) \/ Conclude("completed") \/ Conclude("failed")
      \/ Conclude("creating") \/ Retry
  BY DEF CheckDeployment, CreateDeployment, Create, CheckPods, WriteMessage,
         Verdict, AfterPods
<1>3. WorkerMoves(steps)
  BY <1>1, <1>2, Moves DEF Phases, Terminal
<1>4. ChildrenTypeOK'
  BY <1>1, CreateDeploymentType DEF CheckDeployment, CreateDeployment, Create
<1>5. /\ UNCHANGED <<task, created, cache, deployCache, svcCache, routeCache, pods, gateway>>
      /\ fresh' \subseteq Tasks
      /\ UNCHANGED budget \/ Disturb
  BY DEF CheckDeployment, CreateDeployment, Create, CheckPods, WriteMessage,
         TypedIn, StoreTypeOK
<1> QED
  BY <1>1, <1>3, <1>4, <1>5, ChildType

LEMMA DropDeploymentType ==
  ASSUME NEW steps, TypedIn(steps), pc # "idle", "status" \in steps, NEW p \in steps,
         DropDeployment(Continue(p, obj))
  PROVE  TypedIn(steps)'
<1>1. cur \in Tasks
  BY Working
<1>2. Continue(p, obj) \/ Retry
  BY DEF DropDeployment
<1>3. WorkerMoves(steps)
  BY <1>1, <1>2, Moves DEF Phases
<1>4. ChildrenTypeOK'
  BY <1>1, CreateDeploymentType DEF DropDeployment
<1>5. /\ UNCHANGED <<task, created, cache, deployCache, svcCache, routeCache, pods, gateway>>
      /\ fresh' \subseteq Tasks
      /\ UNCHANGED budget \/ Disturb
  BY DEF DropDeployment, storeVars, TypedIn, StoreTypeOK
<1> QED
  BY <1>1, <1>3, <1>4, <1>5, ChildType

LEMMA StoredTaskType ==
  ASSUME NEW steps, TypedIn(steps), NEW t \in Tasks
  PROVE  task[t] \in TaskObjects /\ Deleted(task[t]) \in TaskObjects
<1>1. task[t] \in TaskObjects
  BY DEF TypedIn, StoreTypeOK
<1> QED
  BY <1>1, DeletedType

LEMMA TTLExpiresType ==
  ASSUME NEW steps, TypedIn(steps), NEW t \in Tasks, TTLExpires(t)
  PROVE  TypedIn(steps)'
<1>1. ClusterTypeOK'
  <2>1. timers' \in [Tasks -> SUBSET (0..MaxIncarnations)]
    BY DEF TTLExpires, TypedIn, ClusterTypeOK
  <2> QED
    BY <2>1 DEF TTLExpires, TypedIn, ClusterTypeOK, childVars
<1>2. budget' \in 0..MaxDisturbances
  BY DisturbType DEF TTLExpires, TypedIn, StoreTypeOK
<1>3. CASE Overwrite(t, Deleted(task[t]))
  <2>1. /\ task' \in [Tasks -> TaskObjects] /\ fresh' \subseteq Tasks
        /\ WorkerTypeOK(steps)'
    BY <1>3, StoredTaskType, OverwriteType DEF TypedIn
  <2>2. UNCHANGED <<created, cache>>
    BY <1>3 DEF TTLExpires, Overwrite
  <2> QED
    BY <1>1, <1>2, <2>1, <2>2 DEF TypedIn, StoreTypeOK
<1>4. CASE UNCHANGED <<task, cache, fresh, workerVars, queue>>
  <2>1. UNCHANGED created
    BY DEF TTLExpires
  <2> QED
    BY <1>1, <1>2, <1>4, <2>1 DEF TypedIn, StoreTypeOK, WorkerTypeOK, workerVars
<1> QED
  BY <1>3, <1>4 DEF TTLExpires

LEMMA RestartType ==
  ASSUME NEW steps, TypedIn(steps), Restart
  PROVE  TypedIn(steps)'
<1>1. StoreTypeOK' 
  BY DisturbType DEF Restart, RestartWorker, TypedIn, StoreTypeOK, storeVars
<1>2. WorkerTypeOK(steps)'
  BY AbsentType DEF Restart, RestartWorker, WorkerTypeOK
<1>3. ClusterTypeOK'
  BY DEF Restart, TypedIn, ClusterTypeOK, childVars
<1> QED
  BY <1>1, <1>2, <1>3 DEF TypedIn

\* An event that only enqueues a task.
LEMMA EnqueueType ==
  ASSUME NEW steps, TypedIn(steps), NEW t \in Tasks, queue' = queue \cup {t}, UNCHANGED workerVars
  PROVE  WorkerTypeOK(steps)'
  BY DEF TypedIn, WorkerTypeOK, workerVars

LEMMA InformersType ==
  ASSUME NEW steps, TypedIn(steps), NEW t \in Tasks, Informers(t)
  PROVE  TypedIn(steps)'
<1>1. CASE SyncTaskObject(t)
  <2>1. StoreTypeOK'
    BY <1>1 DEF SyncTaskObject, SyncTask, TypedIn, StoreTypeOK
  <2> QED
    BY <1>1, <2>1, EnqueueType, ChildrenUnchangedType
    DEF SyncTaskObject, SyncTask, TypedIn
<1>2. CASE Notify(t)
  <2>1. deployCache' \in [Tasks -> {"absent", "up", "zero"}]
    BY <1>2 DEF Informers, SyncTaskObject, SyncDeployment, SyncService, SyncRoute,
                DeployView, TypedIn, ClusterTypeOK, childVars
  <2>2. routeCache' \in [Tasks -> {"absent", "held", "bare"}] /\ routeFresh' \subseteq Tasks
    BY <1>2 DEF Informers, SyncTaskObject, SyncDeployment, SyncService, SyncRoute,
                RouteView, TypedIn, ClusterTypeOK, childVars
  <2>3. svcCache' \subseteq Tasks
    BY <1>2 DEF Informers, SyncTaskObject, SyncDeployment, SyncService, SyncRoute,
                TypedIn, ClusterTypeOK, childVars
  <2>4. ClusterTypeOK'
    BY <1>2, <2>1, <2>2, <2>3 DEF Notify, TypedIn, ClusterTypeOK
  <2> QED
    BY <1>2, <2>4, EnqueueType, StoreUnchangedType DEF Notify, TypedIn
<1> QED
  BY <1>1, <1>2 DEF Informers, SyncDeployment, SyncService, SyncRoute

LEMMA ResyncType ==
  ASSUME NEW steps, TypedIn(steps), NEW t \in Tasks, Resync(t)
  PROVE  TypedIn(steps)'
  BY EnqueueType, ChildrenUnchangedType, StoreUnchangedType
  DEF Resync, OtherEvent, TypedIn

LEMMA GatewayMovesType ==
  ASSUME NEW steps, TypedIn(steps), NEW address \in URLs, GatewayMoves(address)
  PROVE  TypedIn(steps)'
<1>1. StoreTypeOK'
  BY StoreUnchangedType DEF GatewayMoves, TypedIn
<1>2. WorkerTypeOK(steps)' /\ ClusterTypeOK'
  BY DEF GatewayMoves, TypedIn, WorkerTypeOK, ClusterTypeOK, workerVars, childVars
<1> QED
  BY <1>1, <1>2 DEF TypedIn

LEMMA UsersType ==
  ASSUME NEW steps, TypedIn(steps), NEW t \in Tasks, Users(t)
  PROVE  TypedIn(steps)'
<1>1. ClusterTypeOK'
  BY ChildrenUnchangedType DEF Users, TypedIn
<1>2. CASE UserCreate(t)
  <2>1. created[t] + 1 \in 0..MaxIncarnations
    BY <1>2, BoundsAssumption DEF UserCreate, TypedIn, StoreTypeOK
  <2>2. NewTask(created[t] + 1) \in TaskObjects
    BY <2>1, NewTaskType
  <2>3. /\ task' \in [Tasks -> TaskObjects] /\ fresh' \subseteq Tasks
        /\ WorkerTypeOK(steps)'
    BY <1>2, <2>2, OverwriteType DEF UserCreate, TypedIn
  <2>4. created' \in [Tasks -> 0..MaxIncarnations]
    BY <1>2, <2>1 DEF UserCreate, TypedIn, StoreTypeOK
  <2> QED
    BY <1>1, <1>2, <2>3, <2>4 DEF UserCreate, Overwrite, TypedIn, StoreTypeOK
<1>3. CASE UserDelete(t)
  <2>1. /\ task' \in [Tasks -> TaskObjects] /\ fresh' \subseteq Tasks
        /\ WorkerTypeOK(steps)'
    BY <1>3, StoredTaskType, OverwriteType DEF UserDelete, TypedIn
  <2> QED
    BY <1>1, <1>3, <2>1 DEF UserDelete, Overwrite, TypedIn, StoreTypeOK
<1>4. CASE UserTouch(t)
  <2>1. /\ task' \in [Tasks -> TaskObjects] /\ fresh' \subseteq Tasks
        /\ WorkerTypeOK(steps)'
    BY <1>4, StoredTaskType, OverwriteType DEF UserTouch, TypedIn
  <2>2. budget' \in 0..MaxDisturbances
    BY <1>4, DisturbType DEF UserTouch, TypedIn, StoreTypeOK
  <2> QED
    BY <1>1, <1>4, <2>1, <2>2 DEF UserTouch, Overwrite, TypedIn, StoreTypeOK
<1> QED
  BY <1>2, <1>3, <1>4 DEF Users

\* Changes of the children by others.
LEMMA ClusterType ==
  ASSUME NEW steps, TypedIn(steps), NEW t \in Tasks, Cluster(t)
  PROVE  TypedIn(steps)'
<1>1. UNCHANGED budget \/ Disturb
  BY DEF Cluster, GarbageCollect, Interfere, ScaleToZero, PodChanges
<1>2. ClusterChange
  BY DEF Cluster, GarbageCollect, Interfere, ScaleToZero, PodChanges
<1>3. StoreTypeOK' /\ WorkerTypeOK(steps)'
  BY <1>1, <1>2, StoreUnchangedType DEF ClusterChange, TypedIn, WorkerTypeOK, workerVars
<1>4. deploy' \in [Tasks -> [owner: 0..MaxIncarnations, zero: BOOLEAN]]
  <2> DEFINE Deployments == [owner: 0..MaxIncarnations, zero: BOOLEAN]
  <2>1. /\ [deploy[t] EXCEPT !.zero = TRUE] \in Deployments
        /\ NoDeploy \in Deployments
        /\ deploy \in [Tasks -> Deployments]
    BY EmptyChildTypes DEF TypedIn, ClusterTypeOK, DeploymentType
  <2>2. \/ UNCHANGED deploy
        \/ deploy' = [deploy EXCEPT ![t] = NoDeploy]
        \/ deploy' = [deploy EXCEPT ![t] = [deploy[t] EXCEPT !.zero = TRUE]]
    BY DEF Cluster, GarbageCollect, Interfere, ScaleToZero, PodChanges
  <2> HIDE DEF Deployments
  <2>3. deploy' \in [Tasks -> Deployments]
    BY <2>1, <2>2
  <2> QED
    BY <2>3 DEF Deployments
<1>5. svc' \in [Tasks -> 0..MaxIncarnations]
  BY BoundsAssumption
  DEF Cluster, GarbageCollect, Interfere, ScaleToZero, PodChanges, TypedIn, ClusterTypeOK
<1>6. /\ route' \in [Tasks -> [owner: 0..MaxIncarnations, fin: BOOLEAN, del: BOOLEAN]]
      /\ routeFresh' \subseteq Tasks
  <2>1. RouteType(route[t]) /\ RouteType(RouteDeleted(route[t]))
    BY StoredRouteTypes
  <2>2. \/ UNCHANGED <<route, routeFresh>>
        \/ StoreRoute(t, route[t]) \/ StoreRoute(t, RouteDeleted(route[t]))
    BY DEF Cluster, GarbageCollect, Interfere, ScaleToZero, PodChanges
  <2> QED
    BY <2>1, <2>2 DEF StoreRoute, RouteType, TypedIn, ClusterTypeOK
<1>7. pods' \in [Tasks -> PodStates]
  BY DEF Cluster, GarbageCollect, Interfere, ScaleToZero, PodChanges, TypedIn, ClusterTypeOK
<1>8. ClusterTypeOK'
  BY <1>2, <1>4, <1>5, <1>6, <1>7 DEF ClusterChange, TypedIn, ClusterTypeOK
<1> QED
  BY <1>3, <1>8 DEF TypedIn

LEMMA InitType ==
  ASSUME NEW steps, Init
  PROVE  TypedIn(steps)
<1>1. StoreTypeOK /\ WorkerTypeOK(steps)
  BY ControllerInitOK DEF Init
<1>2. ClusterTypeOK
  BY EmptyChildTypes, BoundsAssumption
  DEF Init, ClusterTypeOK, DeploymentType, RouteType, PodStates
<1> QED
  BY <1>1, <1>2 DEF TypedIn

LEMMA EnvironmentType ==
  ASSUME NEW steps, TypedIn(steps), Environment
  PROVE  TypedIn(steps)'
  BY RestartType, GatewayMovesType, InformersType, ResyncType, TTLExpiresType, UsersType,
     ClusterType
  DEF Environment

\* Reconcile hands a task to the step its dispatch selects.
LEMMA DispatchType ==
  ASSUME NEW steps, TypedIn(steps), NEW t \in Tasks, NEW step \in steps \cup {"idle"},
         Dispatch(t, step), UNCHANGED <<childVars, pods, timers, gateway>>
  PROVE  TypedIn(steps)'
<1>1. StoreTypeOK' /\ ClusterTypeOK'
  BY ChildrenUnchangedType, StoreUnchangedType DEF Dispatch, TypedIn
<1>2. WorkerTypeOK(steps)'
  <2>1. cache[t] \in TaskObjects
    BY DEF TypedIn, StoreTypeOK
  <2>2. queue' \subseteq Tasks
    BY DEF Dispatch, TypedIn, WorkerTypeOK
  <2>3. CASE step = "idle"
    BY <2>2, <2>3 DEF Dispatch, TypedIn, WorkerTypeOK, workerVars
  <2>4. CASE step # "idle"
    BY <2>1, <2>2, <2>4 DEF Dispatch, WorkerTypeOK
  <2> QED
    BY <2>3, <2>4
<1> QED
  BY <1>1, <1>2 DEF TypedIn

LEMMA UnchangedType ==
  ASSUME NEW steps, TypedIn(steps), UNCHANGED vars
  PROVE  TypedIn(steps)'
  BY DEF vars, controllerVars, storeVars, workerVars, childVars,
         TypedIn, StoreTypeOK, WorkerTypeOK, ClusterTypeOK

-----------------------------------------------------------------------------
(* The finalizer guards the children.                                      *)

\* A handler step after the finalizer is known to be there, and what the
\* copy it works from is good for.
LEMMA CopyAgrees ==
  ASSUME NEW steps, NEW unguarded, TypedIn(steps), GuardedExcept(unguarded), pc # "idle"
  PROVE  /\ obj.uid \in 1..created[cur]
         /\ obj.uid # 0
         /\ objFresh => SameIdentity(obj, task[cur])
         /\ obj.uid = task[cur].uid /\ obj.fin => task[cur].fin
         /\ pc \notin unguarded => obj.fin
<1>1. created[cur] \in Nat
  BY Working, BoundsAssumption DEF TypedIn, StoreTypeOK
<1> QED
  BY <1>1 DEF GuardedExcept, HandlerAgrees, SameIdentity

\* Steps that write the task: the children stay as they are.
LEMMA UpdateGuarded ==
  ASSUME NEW steps, NEW unguarded, TypedIn(steps), GuardedExcept(unguarded),
         cur \in Tasks,
         NEW f, NEW new \in TaskObjects, f => Harmless(task[cur], new),
         Accepted(f, new) \/ Failed(f, new), UNCHANGED <<created, cache>>,
         UNCHANGED childVars,
         HandlerAgrees(unguarded)'
  PROVE  GuardedExcept(unguarded)'
<1>1. \A t \in Tasks : CacheAgrees(t)'
  BY UpdateCacheAgrees DEF TypedIn, GuardedExcept
<1>2. \A t \in Tasks : OwnersCreated(t)'
  BY DEF GuardedExcept, OwnersCreated, Owners, childVars
<1>3. FinalizerGuardsChildren'
  <2> SUFFICES ASSUME NEW t \in Tasks, task'[t].uid \in Owners(t)' PROVE task'[t].fin
    BY DEF FinalizerGuardsChildren
  <2>1. Owners(t)' = Owners(t) /\ task'[t].uid # 0
    BY DEF Owners, childVars
  <2>2. task[t].uid \in Owners(t) => task[t].fin
    BY DEF GuardedExcept, FinalizerGuardsChildren
  <2>3. CASE UNCHANGED task
    BY <2>1, <2>2, <2>3
  <2>4. CASE StoredFrom(f, new)
    <3>1. task' = [task EXCEPT ![cur] = new] /\ Harmless(task[cur], new)
      BY <2>4 DEF StoredFrom
    <3>2. task \in [Tasks -> TaskObjects]
      BY DEF TypedIn, StoreTypeOK
    <3> QED
      BY <2>1, <2>2, <3>1, <3>2, AbsentType DEF Harmless
  <2> QED
    BY <2>3, <2>4 DEF Accepted, Failed
<1> QED
  BY <1>1, <1>2, <1>3 DEF GuardedExcept

\* Steps that leave the tasks alone: a child comes to be owned only by the
\* object whose guarded copy the worker holds.
LEMMA ChildGuarded ==
  ASSUME NEW steps, NEW unguarded, TypedIn(steps), GuardedExcept(unguarded),
         UNCHANGED <<task, created, cache>>, fresh' \subseteq fresh,
         \A t \in Tasks : \A uid \in Owners(t)' :
             uid \in Owners(t) \/ (t = cur /\ uid = obj.uid /\ pc \notin {"idle"} \cup unguarded),
         HandlerAgrees(unguarded)'
  PROVE  GuardedExcept(unguarded)'
<1>1. \A t \in Tasks : CacheAgrees(t)'
  BY DEF GuardedExcept, CacheAgrees, Exists
<1>2. ASSUME NEW t \in Tasks PROVE OwnersCreated(t)'
  BY CopyAgrees DEF GuardedExcept, OwnersCreated
<1>3. ASSUME NEW t \in Tasks, task'[t].uid \in Owners(t)' PROVE task'[t].fin
  BY <1>3, CopyAgrees DEF GuardedExcept, FinalizerGuardsChildren
<1> QED
  BY <1>1, <1>2, <1>3 DEF GuardedExcept, FinalizerGuardsChildren

\* Others' writes of the task.
LEMMA OverwriteGuarded ==
  ASSUME NEW steps, NEW unguarded, TypedIn(steps), GuardedExcept(unguarded),
         NEW t \in Tasks, NEW new \in TaskObjects,
         Overwrite(t, new), Intrusion(t, new), UNCHANGED childVars
  PROVE  GuardedExcept(unguarded)'
<1>1. (\A u \in Tasks : CacheAgrees(u)') /\ HandlerAgrees(unguarded)'
  BY OverwriteAgrees DEF TypedIn, GuardedExcept
<1>2. /\ task' = [task EXCEPT ![t] = new]
      /\ task \in [Tasks -> TaskObjects]
      /\ \A u \in Tasks : Owners(u)' = Owners(u) /\ created[u] \in Nat
  BY BoundsAssumption DEF Overwrite, TypedIn, StoreTypeOK, Owners, childVars
<1>3. ASSUME NEW u \in Tasks
      PROVE  /\ OwnersCreated(u)'
             /\ task'[u].uid \in Owners(u)' => task'[u].fin
  <2>1. Owners(u) \subseteq 1..created[u] /\ (task[u].uid \in Owners(u) => task[u].fin)
    BY DEF GuardedExcept, OwnersCreated, FinalizerGuardsChildren
  <2>2. CASE Harmless(task[t], new) /\ UNCHANGED created
    <3>1. OwnersCreated(u)'
      BY <1>2, <2>1, <2>2 DEF OwnersCreated
    <3>2. 0 \notin Owners(u)
      BY DEF Owners
    <3> QED
      BY <1>2, <2>1, <2>2, <3>1, <3>2, AbsentType DEF Harmless
  <2>3. CASE created' = [created EXCEPT ![t] = @ + 1] /\ new.uid = created[t] + 1
    <3>1. created'[u] = IF u = t THEN created[u] + 1 ELSE created[u]
      BY <2>3 DEF TypedIn, StoreTypeOK
    <3>2. OwnersCreated(u)'
      BY <1>2, <2>1, <3>1 DEF OwnersCreated
    <3>3. u = t => task'[u].uid = created[u] + 1
      BY <1>2, <2>3
    <3>4. u # t => task'[u] = task[u]
      BY <1>2
    <3> QED
      BY <1>2, <2>1, <3>2, <3>3, <3>4
  <2> QED
    BY <2>2, <2>3 DEF Intrusion
<1> QED
  BY <1>1, <1>3 DEF GuardedExcept, FinalizerGuardsChildren

\* Writing the handler's copy itself.
LEMMA CopyHarmless ==
  ASSUME NEW steps, NEW unguarded, TypedIn(steps), GuardedExcept(unguarded),
         pc # "idle", objFresh
  PROVE  Harmless(task[cur], obj)
  BY CopyAgrees DEF Harmless, SameIdentity

LEMMA CopyWriteGuarded ==
  ASSUME NEW steps, NEW unguarded, TypedIn(steps), GuardedExcept(unguarded), pc # "idle",
         UpdateTask(objFresh, obj, Done \/ Retry, Retry), UNCHANGED childVars
  PROVE  GuardedExcept(unguarded)'
<1>1. cur \in Tasks /\ obj \in TaskObjects
  BY Working
<1>2. /\ Accepted(objFresh, obj) \/ Failed(objFresh, obj)
      /\ UNCHANGED <<created, cache, childVars>>
  BY DEF UpdateTask
<1>3. HandlerAgrees(unguarded)'
  BY ReturnAgrees DEF UpdateTask
<1>4. objFresh => Harmless(task[cur], obj)
  BY CopyHarmless
<1> QED
  BY <1>1, <1>2, <1>3, <1>4, UpdateGuarded

LEMMA UpdateStatusGuarded ==
  ASSUME NEW steps, NEW unguarded, TypedIn(steps), GuardedExcept(unguarded), UpdateStatus
  PROVE  GuardedExcept(unguarded)'
<1>1. UpdateTask(objFresh, obj, Done \/ Retry, Retry) /\ UNCHANGED childVars /\ pc # "idle"
  BY DEF UpdateStatus, UpdateTask
<1> QED
  BY <1>1, CopyWriteGuarded

LEMMA RemoveFinalizerGuarded ==
  ASSUME NEW steps, NEW unguarded, TypedIn(steps), GuardedExcept(unguarded),
         RemoveFinalizer
  PROVE  GuardedExcept(unguarded)'
<1>1. cur \in Tasks
  BY Working DEF RemoveFinalizer
<1>2. /\ Accepted(objFresh, Absent) \/ Failed(objFresh, Absent)
      /\ UNCHANGED <<created, cache, childVars>>
  BY DEF RemoveFinalizer, UpdateTask
<1>3. HandlerAgrees(unguarded)'
  BY ReturnAgrees DEF RemoveFinalizer, UpdateTask
<1> QED
  BY <1>1, <1>2, <1>3, AbsentType, UpdateGuarded DEF Harmless

\* The handler goes on with a copy of the same task, or returns.
Proceeds(unguarded) ==
  \/ UNCHANGED <<cur, objFresh>> /\ SameIdentity(obj', obj) /\ pc' \notin unguarded
  \/ Done \/ Retry

LEMMA ProceedsAgrees ==
  ASSUME NEW steps, NEW unguarded, TypedIn(steps), GuardedExcept(unguarded),
         pc \notin {"idle"} \cup unguarded,
         UNCHANGED <<task, created>>, Proceeds(unguarded)
  PROVE  HandlerAgrees(unguarded)'
<1>1. CASE UNCHANGED <<cur, objFresh>> /\ SameIdentity(obj', obj)
  BY <1>1, HandlerKeeps DEF GuardedExcept, SameIdentity
<1> QED
  BY <1>1, ReturnAgrees DEF Proceeds

\* Every way the steps below go on is one of these.
LEMMA GoingOn ==
  ASSUME NEW steps, NEW unguarded, TypedIn(steps), pc # "idle", "status" \notin unguarded,
         NEW p, p \notin unguarded, NEW phase, NEW url,
         \/ Continue(p, obj) \/ Continue(p, [obj EXCEPT !.url = url])
         \/ Continue("status", [WithPhase("running") EXCEPT !.url = url])
         \/ Conclude(phase) \/ Done \/ Retry
  PROVE  Proceeds(unguarded)
<1>1. obj \in TaskObjects
  BY Working
<1>2. SameIdentity([obj EXCEPT !.url = url], obj) /\ SameIdentity(obj, obj)
  BY <1>1 DEF SameIdentity, TaskObjects
<1>3. SameIdentity(WithPhase(phase), obj)
  BY <1>1 DEF SameIdentity, TaskObjects, WithPhase
<1>4. SameIdentity([WithPhase("running") EXCEPT !.url = url], obj)
  BY <1>1 DEF SameIdentity, TaskObjects, WithPhase
<1>5. Conclude(phase) => Proceeds(unguarded)
  BY <1>3 DEF Conclude, Continue, Proceeds
<1> QED
  BY <1>2, <1>4, <1>5 DEF Continue, Proceeds

\* The worker creates or deletes children of its own task only.
WritesOwn(zero, fin) ==
  /\ \/ UNCHANGED deploy
     \/ deploy' = [deploy EXCEPT ![cur] = [owner |-> obj.uid, zero |-> zero]]
     \/ deploy' = [deploy EXCEPT ![cur] = NoDeploy]
  /\ \/ UNCHANGED svc
     \/ svc' = [svc EXCEPT ![cur] = obj.uid]
     \/ svc' = [svc EXCEPT ![cur] = 0]
  /\ \/ UNCHANGED route
     \/ route' = [route EXCEPT ![cur] = NewRoute(fin)]
     \/ route' = [route EXCEPT ![cur] = Released(route[cur])]
     \/ route' = [route EXCEPT ![cur] = RouteDeleted(route[cur])]

\* Neither the finalizer's removal nor a deletion gives a route an owner.
LEMMA RouteOwners ==
  ASSUME NEW steps, TypedIn(steps), NEW t \in Tasks
  PROVE  /\ Released(route[t]).owner \in {0, route[t].owner}
         /\ RouteDeleted(route[t]).owner \in {0, route[t].owner}
  BY DEF TypedIn, ClusterTypeOK, Released, RouteDeleted, NoRoute

LEMMA ChildStepGuarded ==
  ASSUME NEW steps, NEW unguarded, TypedIn(steps), GuardedExcept(unguarded),
         pc \notin {"idle"} \cup unguarded,
         UNCHANGED <<task, created, cache>>, fresh' \subseteq fresh,
         NEW zero, NEW fin, WritesOwn(zero, fin), Proceeds(unguarded)
  PROVE  GuardedExcept(unguarded)'
<1>1. /\ deploy \in [Tasks -> [owner: 0..MaxIncarnations, zero: BOOLEAN]]
      /\ svc \in [Tasks -> 0..MaxIncarnations]
      /\ route \in [Tasks -> [owner: 0..MaxIncarnations, fin: BOOLEAN, del: BOOLEAN]]
  BY DEF TypedIn, ClusterTypeOK
<1>2. ASSUME NEW t \in Tasks, NEW uid \in Owners(t)'
      PROVE  uid \in Owners(t) \/ (t = cur /\ uid = obj.uid)
  <2>1. uid # 0 /\ uid \in {deploy'[t].owner, svc'[t], route'[t].owner}
    BY <1>2 DEF Owners
  <2>2. deploy'[t].owner \in {0, deploy[t].owner} \/ (t = cur /\ deploy'[t].owner = obj.uid)
    BY <1>1 DEF WritesOwn, NoDeploy
  <2>3. svc'[t] \in {0, svc[t]} \/ (t = cur /\ svc'[t] = obj.uid)
    BY <1>1 DEF WritesOwn
  <2>4. route'[t].owner \in {0, route[t].owner} \/ (t = cur /\ route'[t].owner = obj.uid)
    BY <1>1, RouteOwners DEF WritesOwn, NewRoute
  <2> QED
    BY <2>1, <2>2, <2>3, <2>4 DEF Owners
<1>3. HandlerAgrees(unguarded)'
  BY ProceedsAgrees
<1> QED
  BY <1>2, <1>3, ChildGuarded

LEMMA CheckDeploymentGuarded ==
  ASSUME NEW steps, NEW unguarded, TypedIn(steps), GuardedExcept(unguarded),
         pc \notin {"idle"} \cup unguarded, {"status", "ensureService"} \cap unguarded = {},
         NEW zero, NEW listed, CheckDeployment(zero, listed)
  PROVE  GuardedExcept(unguarded)'
<1>1. \/ Continue("ensureService", obj) \/ Conclude("completed") \/ Conclude("failed")
      \/ Conclude("creating") \/ Retry
  BY DEF CheckDeployment, CreateDeployment, Create, CheckPods, WriteMessage,
         Verdict, AfterPods
<1>2. WritesOwn(zero, FALSE)
  BY DEF CheckDeployment, CreateDeployment, Create, WritesOwn
<1>3. /\ pc # "idle" /\ "status" \notin unguarded /\ "ensureService" \notin unguarded
      /\ UNCHANGED <<task, created, cache>> /\ fresh' \subseteq fresh
  BY DEF CheckDeployment, CheckPods, WriteMessage
<1> QED
  BY <1>1, <1>2, <1>3, GoingOn, ChildStepGuarded

-----------------------------------------------------------------------------
(* Everybody else.                                                         *)

LEMMA DeletedHarmless ==
  ASSUME NEW o \in TaskObjects
  PROVE  Harmless(o, Deleted(o)) /\ Harmless(o, o)
  BY DeletedType DEF Harmless

LEMMA UsersGuarded ==
  ASSUME NEW steps, NEW unguarded, TypedIn(steps), GuardedExcept(unguarded),
         NEW t \in Tasks, Users(t)
  PROVE  GuardedExcept(unguarded)'
<1>1. UNCHANGED childVars
  BY DEF Users
<1>2. task[t] \in TaskObjects /\ Deleted(task[t]) \in TaskObjects
  BY StoredTaskType
<1>3. CASE UserCreate(t)
  <2>1. created[t] + 1 \in 0..MaxIncarnations
    BY <1>3, BoundsAssumption DEF UserCreate, TypedIn, StoreTypeOK
  <2>2. NewTask(created[t] + 1) \in TaskObjects /\ NewTask(created[t] + 1).uid = created[t] + 1
    BY <2>1, NewTaskType
  <2>3. Intrusion(t, NewTask(created[t] + 1))
    BY <1>3, <2>2 DEF UserCreate, Intrusion
  <2> QED
    BY <1>1, <1>3, <2>2, <2>3, OverwriteGuarded DEF UserCreate
<1>4. CASE UserDelete(t)
  BY <1>1, <1>2, <1>4, DeletedHarmless, OverwriteGuarded DEF UserDelete, Intrusion
<1>5. CASE UserTouch(t)
  BY <1>1, <1>2, <1>5, DeletedHarmless, OverwriteGuarded DEF UserTouch, Intrusion
<1> QED
  BY <1>3, <1>4, <1>5 DEF Users

\* Steps that change neither the server's tasks nor the worker.
LEMMA BackgroundGuarded ==
  ASSUME NEW steps, NEW unguarded, TypedIn(steps), GuardedExcept(unguarded),
         UNCHANGED <<storeVars, workerVars>>,
         \A t \in Tasks : Owners(t)' \subseteq Owners(t)
  PROVE  GuardedExcept(unguarded)'
<1>1. HandlerAgrees(unguarded)'
  BY DEF GuardedExcept, HandlerAgrees, storeVars, workerVars
<1> QED
  BY <1>1, ChildGuarded DEF storeVars

LEMMA TTLExpiresGuarded ==
  ASSUME NEW steps, NEW unguarded, TypedIn(steps), GuardedExcept(unguarded),
         NEW t \in Tasks, TTLExpires(t)
  PROVE  GuardedExcept(unguarded)'
<1>1. UNCHANGED <<created, childVars>>
  BY DEF TTLExpires
<1>2. task[t] \in TaskObjects /\ Deleted(task[t]) \in TaskObjects
  BY StoredTaskType
<1>3. CASE Overwrite(t, Deleted(task[t]))
  BY <1>1, <1>2, <1>3, DeletedHarmless, OverwriteGuarded DEF Intrusion
<1>4. CASE UNCHANGED <<task, cache, fresh, workerVars, queue>>
  <2>1. \A u \in Tasks : Owners(u)' = Owners(u)
    BY <1>1 DEF Owners, childVars
  <2> QED
    BY <1>1, <1>4, <2>1, BackgroundGuarded DEF storeVars
<1> QED
  BY <1>3, <1>4 DEF TTLExpires

LEMMA RestartGuarded ==
  ASSUME NEW steps, NEW unguarded, TypedIn(steps), GuardedExcept(unguarded), Restart
  PROVE  GuardedExcept(unguarded)'
<1>1. UNCHANGED <<storeVars, childVars>> /\ HandlerAgrees(unguarded)'
  BY DEF Restart, RestartWorker, HandlerAgrees
<1>2. \A u \in Tasks : Owners(u)' = Owners(u)
  BY <1>1 DEF Owners, childVars
<1> QED
  BY <1>1, <1>2, ChildGuarded DEF storeVars

LEMMA InformersGuarded ==
  ASSUME NEW steps, NEW unguarded, TypedIn(steps), GuardedExcept(unguarded),
         NEW t \in Tasks, Informers(t)
  PROVE  GuardedExcept(unguarded)'
<1>1. UNCHANGED <<deploy, svc, route>>
  BY DEF Informers, SyncTaskObject, SyncDeployment, SyncService, SyncRoute, Notify, childVars
<1>2. \A u \in Tasks : Owners(u)' = Owners(u)
  BY <1>1 DEF Owners
<1>3. CASE SyncTask(t)
  <2>1. (\A u \in Tasks : CacheAgrees(u)') /\ HandlerAgrees(unguarded)'
    BY <1>3, SyncTaskOK DEF TypedIn, GuardedExcept
  <2>2. UNCHANGED <<task, created>>
    BY <1>3 DEF SyncTask
  <2> QED
    BY <1>2, <2>1, <2>2 DEF GuardedExcept, OwnersCreated, FinalizerGuardsChildren
<1>4. CASE Notify(t)
  BY <1>2, <1>4, BackgroundGuarded DEF Notify
<1> QED
  BY <1>3, <1>4 DEF Informers, SyncTaskObject, SyncDeployment, SyncService, SyncRoute

LEMMA ClusterGuarded ==
  ASSUME NEW steps, NEW unguarded, TypedIn(steps), GuardedExcept(unguarded),
         NEW t \in Tasks, Cluster(t)
  PROVE  GuardedExcept(unguarded)'
<1>1. UNCHANGED <<storeVars, workerVars>>
  BY DEF Cluster, GarbageCollect, Interfere, ScaleToZero, PodChanges, ClusterChange
<1>2. ASSUME NEW u \in Tasks PROVE Owners(u)' \subseteq Owners(u)
  <2>1. /\ deploy \in [Tasks -> [owner: 0..MaxIncarnations, zero: BOOLEAN]]
        /\ svc \in [Tasks -> 0..MaxIncarnations]
        /\ route \in [Tasks -> [owner: 0..MaxIncarnations, fin: BOOLEAN, del: BOOLEAN]]
    BY DEF TypedIn, ClusterTypeOK
  <2>2. deploy'[u].owner \in {0, deploy[u].owner}
    <3>1. \/ UNCHANGED deploy \/ deploy' = [deploy EXCEPT ![t] = NoDeploy]
          \/ deploy' = [deploy EXCEPT ![t] = [deploy[t] EXCEPT !.zero = TRUE]]
      BY DEF Cluster, GarbageCollect, Interfere, ScaleToZero, PodChanges
    <3>2. NoDeploy.owner = 0 /\ [deploy[t] EXCEPT !.zero = TRUE].owner = deploy[t].owner
      BY <2>1 DEF NoDeploy
    <3> QED
      BY <2>1, <3>1, <3>2
  <2>3. svc'[u] \in {0, svc[u]}
    BY <2>1 DEF Cluster, GarbageCollect, Interfere, ScaleToZero, PodChanges
  <2>4. route'[u].owner \in {0, route[u].owner}
    <3>1. \/ UNCHANGED route \/ route' = [route EXCEPT ![t] = route[t]]
          \/ route' = [route EXCEPT ![t] = RouteDeleted(route[t])]
      BY DEF Cluster, GarbageCollect, Interfere, ScaleToZero, PodChanges, StoreRoute
    <3>2. RouteDeleted(route[t]).owner \in {0, route[t].owner}
      BY RouteOwners
    <3> QED
      BY <2>1, <3>1, <3>2
  <2> QED
    BY <2>2, <2>3, <2>4 DEF Owners
<1> QED
  BY <1>1, <1>2, BackgroundGuarded

LEMMA OthersGuarded ==
  ASSUME NEW steps, NEW unguarded, TypedIn(steps), GuardedExcept(unguarded),
         \/ \E t \in Tasks : Resync(t)
         \/ \E address \in URLs : GatewayMoves(address)
  PROVE  GuardedExcept(unguarded)'
<1>1. UNCHANGED <<storeVars, workerVars, childVars>>
  BY DEF Resync, OtherEvent, GatewayMoves
<1>2. \A u \in Tasks : Owners(u)' = Owners(u)
  BY <1>1 DEF Owners, childVars
<1> QED
  BY <1>1, <1>2, BackgroundGuarded

LEMMA InitGuarded ==
  ASSUME NEW unguarded, Init
  PROVE  GuardedExcept(unguarded)
<1>1. (\A t \in Tasks : CacheAgrees(t)) /\ HandlerAgrees(unguarded)
  BY ControllerInitOK DEF Init
<1>2. \A t \in Tasks : Owners(t) = {}
  BY DEF Init, Owners, NoDeploy, NoRoute
<1> QED
  BY <1>1, <1>2 DEF GuardedExcept, OwnersCreated, FinalizerGuardsChildren

LEMMA EnvironmentGuarded ==
  ASSUME NEW steps, NEW unguarded, TypedIn(steps), GuardedExcept(unguarded), Environment
  PROVE  GuardedExcept(unguarded)'
  BY RestartGuarded, InformersGuarded, UsersGuarded, TTLExpiresGuarded, ClusterGuarded,
     OthersGuarded
  DEF Environment

\* The step the dispatch selects finds a guarded copy, unless it is one of the
\* steps before the finalizer is there.
LEMMA DispatchGuarded ==
  ASSUME NEW steps, NEW unguarded, TypedIn(steps), GuardedExcept(unguarded),
         NEW t \in Tasks, NEW step, Dispatch(t, step), UNCHANGED childVars,
         step # "idle" => /\ Exists(cache[t])
                          /\ step \in unguarded \/ cache[t].fin
  PROVE  GuardedExcept(unguarded)'
<1>1. UNCHANGED <<task, created, cache, fresh, childVars>>
  BY DEF Dispatch, storeVars
<1>2. HandlerAgrees(unguarded)'
  <2>1. CASE step = "idle"
    BY <1>1, <2>1 DEF Dispatch, workerVars, GuardedExcept, HandlerAgrees
  <2>2. CASE step # "idle"
    <3>1. /\ cur' = t /\ pc' = step /\ obj' = cache[t]
          /\ objFresh' = (t \in fresh)
      BY <2>2 DEF Dispatch
    <3>2. cache[t].uid \in Nat /\ created[t] \in Nat
      BY BoundsAssumption DEF TypedIn, StoreTypeOK, TaskObjects
    <3>3. CacheAgrees(t)
      BY DEF GuardedExcept
    <3>4. cache[t].uid \in 1..created[t]
      BY <2>2, <3>2, <3>3 DEF CacheAgrees, Exists
    <3>5. /\ t \in fresh => cache[t] = task[t]
          /\ cache[t].uid = task[t].uid /\ cache[t].fin => task[t].fin
      BY <2>2, <3>3 DEF CacheAgrees
    <3> QED
      BY <1>1, <2>2, <3>1, <3>4, <3>5 DEF HandlerAgrees
  <2> QED
    BY <2>1, <2>2
<1>3. \A u \in Tasks : Owners(u)' = Owners(u)
  BY <1>1 DEF Owners, childVars
<1> QED
  BY <1>1, <1>2, <1>3, ChildGuarded

LEMMA UnchangedGuarded ==
  ASSUME NEW steps, NEW unguarded, TypedIn(steps), GuardedExcept(unguarded),
         UNCHANGED vars
  PROVE  GuardedExcept(unguarded)'
<1>1. UNCHANGED <<storeVars, workerVars, childVars>>
  BY DEF vars, controllerVars
<1>2. \A u \in Tasks : Owners(u)' = Owners(u)
  BY <1>1 DEF Owners, childVars
<1> QED
  BY <1>1, <1>2, BackgroundGuarded

-----------------------------------------------------------------------------
(* What a handler knows of the task it holds.                              *)

CleanupSteps ==
  {"deleteDeployment", "deleteService", "releaseRoute", "deleteRoute", "releaseListed",
   "deleteListed", "removeFinalizer"}

\* What a handler at step p knows of its copy o.
Known(early, p, o) ==
  /\ p \in early => o.phase = Unset
  /\ p = "addFinalizer" => ~o.fin /\ ~o.del
  /\ p \in {"creating", "createService", "createRoute"} => o.phase = "creating" /\ ~o.del
  /\ p = "running" => o.phase = "running" /\ ~o.del
  /\ p \in {"ensureService", "ensureRoute"} =>
        o.phase \in {"running", "completed", "failed"} /\ ~o.del
  /\ p = "status" => ~o.del
  /\ p = "endTime" => o.phase \in Terminal /\ ~o.del /\ ~o.end
  /\ p = "finish" => o.phase \in Terminal /\ ~o.del
  /\ p \in CleanupSteps => o.del

\* The copy o is the server's task l as the lifecycle sees it, but for the
\* phase that UpdateStatus is about to write.
Matches(p, o, l) ==
  /\ o.uid = l.uid /\ o.fin = l.fin /\ o.del = l.del /\ o.end = l.end
  /\ IF p = "status" THEN <<l.phase, o.phase>> \in PhaseEdges ELSE o.phase = l.phase

HandlerKnows(early) ==
  pc # "idle" =>
    /\ Known(early, pc, obj)
    /\ objFresh => Matches(pc, obj, task[cur])

\* The handler's copy is outdated only if its task's event has yet to come or
\* has queued it again.
Awake == pc # "idle" /\ cur \in fresh => cur \in queue \/ objFresh

\* A task that is being deleted has the finalizer: else it would be gone.
Held == \A t \in Tasks : task[t].del => task[t].fin

Knows(early) == HandlerKnows(early) /\ Awake /\ Held /\ NoLostWakeup

-----------------------------------------------------------------------------
(* The worker's steps.                                                     *)

\* The handler goes on with a copy it knows, returns to the queue, or lets go
\* of a task that needs nothing or will be queued.
Advances(early) ==
  \/ \E p, o : /\ Continue(p, o) /\ Known(early, p, o)
               /\ objFresh => Matches(p, o, task'[cur])
  \/ Retry
  \/ Done /\ (cur \in fresh' /\ cur \notin queue => ~NeedsWork(task'[cur]))

LEMMA WorkerKnows ==
  ASSUME NEW steps, NEW early, TypedIn(steps), Knows(early), pc # "idle",
         \A u \in Tasks \ {cur} : task'[u] = task[u],
         fresh' \subseteq fresh,
         cur \in fresh' => task'[cur] = task[cur],
         task'[cur].del => task'[cur].fin,
         Advances(early)
  PROVE  Knows(early)'
<1>1. cur \in Tasks /\ obj \in TaskObjects
  BY Working
<1>2. Held'
  BY DEF Knows, Held
<1>3. ASSUME NEW p, NEW o, Continue(p, o), Known(early, p, o),
             objFresh => Matches(p, o, task'[cur])
      PROVE  Knows(early)'
  <2>1. /\ pc' = p /\ obj' = o /\ cur' = cur /\ objFresh' = objFresh /\ queue' = queue
    BY <1>3 DEF Continue
  <2>2. HandlerKnows(early)'
    BY <1>3, <2>1 DEF HandlerKnows
  <2>3. Awake'
    BY <2>1 DEF Knows, Awake
  <2>4. NoLostWakeup'
    BY <1>1, <2>1 DEF Knows, NoLostWakeup
  <2> QED
    BY <1>2, <2>2, <2>3, <2>4 DEF Knows
<1>4. ASSUME Retry \/ Done
      PROVE  HandlerKnows(early)' /\ Awake'
  BY <1>4 DEF Retry, Done, Return, HandlerKnows, Awake
<1>5. CASE Retry
  <2>1. NoLostWakeup'
    BY <1>1, <1>5 DEF Knows, NoLostWakeup, Retry, Return
  <2> QED
    BY <1>2, <1>4, <1>5, <2>1 DEF Knows
<1>6. CASE Done /\ (cur \in fresh' /\ cur \notin queue => ~NeedsWork(task'[cur]))
  <2>1. NoLostWakeup'
    BY <1>1, <1>6 DEF Knows, NoLostWakeup, Done, Return
  <2> QED
    BY <1>2, <1>4, <1>6, <2>1 DEF Knows
<1> QED
  BY <1>3, <1>5, <1>6 DEF Advances

\* A step that leaves the task alone, or changes nothing of it but its version.
LEMMA WatchingKnows ==
  ASSUME NEW steps, NEW early, TypedIn(steps), Knows(early), pc # "idle",
         UNCHANGED task, fresh' \subseteq fresh, Advances(early)
  PROVE  Knows(early)'
<1>1. cur \in Tasks
  BY Working
<1> QED
  BY <1>1, WorkerKnows DEF Knows, Held

\* A step that writes the task.
LEMMA WritingKnows ==
  ASSUME NEW steps, NEW early, TypedIn(steps), Knows(early), pc # "idle",
         NEW f, NEW new, f => (new.del => new.fin),
         \/ Accepted(f, new) /\ (f /\ task'[cur] = new => Advances(early))
         \/ Failed(f, new) /\ Retry
  PROVE  Knows(early)'
<1>1. cur \in Tasks /\ task \in [Tasks -> TaskObjects] /\ fresh \subseteq Tasks
  BY Working DEF TypedIn, StoreTypeOK
<1>2. CASE StoredFrom(f, new)
  <2>1. /\ \A u \in Tasks \ {cur} : task'[u] = task[u]
        /\ task'[cur] = new /\ f
        /\ fresh' \subseteq fresh
        /\ cur \in fresh' => task'[cur] = task[cur]
    BY <1>1, <1>2 DEF StoredFrom
  <2>2. Advances(early)
    BY <2>1 DEF Advances
  <2> QED
    BY <2>1, <2>2, WorkerKnows
<1>3. CASE UNCHANGED <<task, fresh>> /\ Retry
  BY <1>3, WatchingKnows DEF Advances
<1> QED
  BY <1>2, <1>3 DEF Accepted, Failed

-----------------------------------------------------------------------------
(* Everybody else's steps.                                                 *)

LEMMA NotifiedKnows ==
  ASSUME NEW early, Knows(early), UNCHANGED <<task, fresh, workerVars>>, queue \subseteq queue'
  PROVE  Knows(early)'
<1>1. HandlerKnows(early)' /\ Awake' /\ Held'
  BY DEF Knows, HandlerKnows, Awake, Held, workerVars
<1>2. NoLostWakeup'
  BY DEF Knows, NoLostWakeup, workerVars
<1> QED
  BY <1>1, <1>2 DEF Knows

LEMMA OverwriteKnows ==
  ASSUME NEW steps, NEW early, TypedIn(steps), Knows(early), NEW t \in Tasks, NEW new,
         Overwrite(t, new), new.del => new.fin
  PROVE  Knows(early)'
<1>1. /\ task' = [task EXCEPT ![t] = new] /\ task'[t] = new
      /\ \A u \in Tasks : u # t => task'[u] = task[u]
      /\ UNCHANGED <<queue, cur, pc, obj>>
      /\ fresh' = fresh \ {t} /\ fresh \subseteq Tasks
      /\ objFresh' = (objFresh /\ cur # t)
      /\ pc # "idle" => cur \in Tasks
  BY DEF Overwrite, TypedIn, StoreTypeOK, WorkerTypeOK
<1>2. HandlerKnows(early)'
  BY <1>1 DEF Knows, HandlerKnows
<1>3. Awake' /\ Held'
  BY <1>1 DEF Knows, Awake, Held
<1>4. NoLostWakeup'
  BY <1>1 DEF Knows, NoLostWakeup
<1> QED
  BY <1>2, <1>3, <1>4 DEF Knows

LEMMA SyncTaskKnows ==
  ASSUME NEW early, Knows(early), NEW t \in Tasks, SyncTask(t)
  PROVE  Knows(early)'
<1>1. HandlerKnows(early)' /\ Awake' /\ Held'
  BY DEF SyncTask, Knows, HandlerKnows, Awake, Held, workerVars
<1>2. NoLostWakeup'
  BY DEF SyncTask, Knows, NoLostWakeup, workerVars
<1> QED
  BY <1>1, <1>2 DEF Knows

\* A restart finds every task of the cache again.
LEMMA RestartKnows ==
  ASSUME NEW early, Knows(early), \A t \in Tasks : CacheAgrees(t), RestartWorker
  PROVE  Knows(early)'
<1>1. HandlerKnows(early)' /\ Awake' /\ Held'
  BY DEF RestartWorker, Knows, HandlerKnows, Awake, Held, storeVars
<1>2. NoLostWakeup'
  BY DEF RestartWorker, storeVars, NoLostWakeup, NeedsWork, CacheAgrees
<1> QED
  BY <1>1, <1>2 DEF Knows

\* Dispatching a task that needs work selects a step that knows of its copy
\* what it has to know.
LEMMA DispatchKnows ==
  ASSUME NEW steps, NEW early, TypedIn(steps), "idle" \notin steps, Knows(early),
         NEW t \in Tasks, CacheAgrees(t),
         NEW step, Dispatch(t, step),
         IF step = "idle" THEN NeedsWork(cache[t]) => cache[t].del /\ ~cache[t].fin
                          ELSE step # "status" /\ Known(early, step, cache[t])
  PROVE  Knows(early)'
<1>1. /\ pc = "idle" /\ queue' = queue \ {t}
      /\ UNCHANGED <<task, fresh>>
      /\ IF step = "idle" THEN UNCHANGED workerVars
         ELSE cur' = t /\ pc' = step /\ obj' = cache[t] /\ objFresh' = (t \in fresh)
      /\ t \in fresh => cache[t] = task[t]
      /\ cur \notin Tasks
  BY TasksAssumption DEF Dispatch, storeVars, CacheAgrees, TypedIn, WorkerTypeOK
<1>2. Held'
  BY <1>1 DEF Knows, Held
<1>3. CASE step = "idle"
  <2>1. HandlerKnows(early)' /\ Awake'
    BY <1>1, <1>3 DEF HandlerKnows, Awake, workerVars
  <2>2. NoLostWakeup'
    BY <1>1, <1>3 DEF Knows, Held, NoLostWakeup, workerVars
  <2> QED
    BY <1>2, <2>1, <2>2 DEF Knows
<1>4. CASE step # "idle"
  <2>1. HandlerKnows(early)'
    BY <1>1, <1>4 DEF HandlerKnows, Matches
  <2>2. Awake'
    BY <1>1, <1>4 DEF Awake
  <2>3. NoLostWakeup'
    BY <1>1, <1>4 DEF Knows, NoLostWakeup
  <2> QED
    BY <1>2, <2>1, <2>2, <2>3 DEF Knows
<1> QED
  BY <1>3, <1>4

LEMMA EnvironmentKnows ==
  ASSUME NEW steps, NEW unguarded, NEW early, TypedIn(steps), GuardedExcept(unguarded),
         Knows(early), Environment
  PROVE  Knows(early)'
<1>1. ASSUME NEW t \in Tasks
      PROVE  Deleted(task[t]).del => Deleted(task[t]).fin
  <2>1. task[t] \in TaskObjects
    BY <1>1, StoredTaskType
  <2>2. Absent.del = FALSE
    BY DEF Absent, NewTask
  <2> QED
    BY <2>1, <2>2, DeletedType
<1>2. CASE Restart
  BY <1>2, RestartKnows DEF Restart, GuardedExcept
<1>3. ASSUME NEW address \in URLs, GatewayMoves(address)
      PROVE  Knows(early)'
  BY <1>3, NotifiedKnows DEF GatewayMoves, storeVars
<1>4. ASSUME NEW t \in Tasks, Informers(t) \/ Resync(t) \/ Cluster(t)
      PROVE  Knows(early)'
  <2>1. CASE SyncTaskObject(t)
    BY <2>1, SyncTaskKnows DEF SyncTaskObject
  <2>2. CASE SyncDeployment(t) \/ SyncService(t) \/ SyncRoute(t) \/ Resync(t)
    BY <2>2, NotifiedKnows
    DEF SyncDeployment, SyncService, SyncRoute, Notify, Resync, OtherEvent, storeVars
  <2>3. CASE Cluster(t)
    BY <2>3, NotifiedKnows
    DEF Cluster, GarbageCollect, Interfere, ScaleToZero, PodChanges, ClusterChange, storeVars
  <2> QED
    BY <1>4, <2>1, <2>2, <2>3 DEF Informers
<1>5. ASSUME NEW t \in Tasks, TTLExpires(t)
      PROVE  Knows(early)'
  <2>1. \/ Overwrite(t, Deleted(task[t]))
        \/ UNCHANGED <<task, fresh, workerVars, queue>>
    BY <1>5 DEF TTLExpires
  <2> QED
    BY <1>1, <2>1, OverwriteKnows, NotifiedKnows
<1>6. ASSUME NEW t \in Tasks, Users(t)
      PROVE  Knows(early)'
  <2>1. NewTask(created[t] + 1).del = FALSE
    BY DEF NewTask
  <2>2. task[t].del => task[t].fin
    BY <1>6 DEF Knows, Held
  <2> QED
    BY <1>1, <1>6, <2>1, <2>2, OverwriteKnows DEF Users, UserCreate, UserDelete, UserTouch
<1> QED
  BY <1>2, <1>3, <1>4, <1>5, <1>6 DEF Environment

\* Whatever others do, a handler that still holds the server's version holds
\* what it held.
LEMMA EnvironmentKeepsCopy ==
  ASSUME NEW steps, TypedIn(steps), Environment, pc' # "idle"
  PROVE  /\ pc' = pc /\ obj' = obj /\ cur' = cur
         /\ objFresh' => objFresh /\ task'[cur] = task[cur]
<1>1. ASSUME NEW t \in Tasks, NEW new, Overwrite(t, new)
      PROVE  /\ pc' = pc /\ obj' = obj /\ cur' = cur
             /\ objFresh' => objFresh /\ task'[cur] = task[cur]
  BY <1>1 DEF Overwrite, TypedIn, StoreTypeOK, WorkerTypeOK
<1>2. ASSUME NEW t \in Tasks, TTLExpires(t) \/ Users(t)
      PROVE  \/ UNCHANGED <<task, workerVars>>
             \/ \E new : Overwrite(t, new)
  BY <1>2 DEF TTLExpires, Users, UserCreate, UserDelete, UserTouch
<1>3. ASSUME NEW t \in Tasks, Informers(t) \/ Resync(t) \/ Cluster(t)
      PROVE  UNCHANGED <<task, workerVars>>
  BY <1>3
  DEF Informers, SyncTaskObject, SyncTask, SyncDeployment, SyncService, SyncRoute, Notify,
      Resync, OtherEvent, Cluster, GarbageCollect, Interfere, ScaleToZero, PodChanges,
      ClusterChange, storeVars
<1>4. ~Restart
  BY DEF Restart, RestartWorker
<1>5. ASSUME NEW address \in URLs, GatewayMoves(address)
      PROVE  UNCHANGED <<task, workerVars>>
  BY <1>5 DEF GatewayMoves, storeVars
<1> QED
  BY <1>1, <1>2, <1>3, <1>4, <1>5 DEF Environment, workerVars

LEMMA InitKnows ==
  ASSUME NEW early, Init
  PROVE  Knows(early)
<1>1. HandlerKnows(early) /\ Awake
  BY DEF Init, ControllerInit, HandlerKnows, Awake
<1>2. Held /\ NoLostWakeup
  BY DEF Init, ControllerInit, Held, NoLostWakeup, NeedsWork, Exists, Absent, NewTask
<1> QED
  BY <1>1, <1>2 DEF Knows

-----------------------------------------------------------------------------
(* Ways a handler goes on.                                                 *)

LEMMA RetryAdvances ==
  ASSUME NEW early, Retry
  PROVE  Advances(early)
  BY Zenon DEF Advances

SameLife(a, b) == SameIdentity(a, b) /\ a.end = b.end

\* It goes on with its copy, whose life it leaves alone.
LEMMA GoOnAdvances ==
  ASSUME NEW early, Knows(early), pc \notin {"idle", "status"}, UNCHANGED task,
         NEW p, p # "status", NEW o, SameLife(o, obj), o.phase = obj.phase,
         Continue(p, o), Known(early, p, o)
  PROVE  Advances(early)
<1>1. objFresh => Matches(p, o, task'[cur])
  BY DEF Knows, HandlerKnows, Matches, SameLife, SameIdentity
<1> QED
  BY <1>1 DEF Advances

\* It goes on to write another phase.
LEMMA ConcludeAdvances ==
  ASSUME NEW early, Knows(early), "status" \notin early,
         pc \notin {"idle", "status"}, UNCHANGED task, ~obj.del,
         NEW o, SameLife(o, obj), <<obj.phase, o.phase>> \in PhaseEdges,
         Continue("status", o)
  PROVE  Advances(early)
<1>1. objFresh => Matches("status", o, task'[cur])
  BY DEF Knows, HandlerKnows, Matches, SameLife, SameIdentity
<1>2. Known(early, "status", o)
  BY DEF Known, CleanupSteps, SameLife, SameIdentity
<1> QED
  BY <1>1, <1>2 DEF Advances

\* It goes on to announce that the task fails, or runs.
LEMMA FailedAdvances ==
  ASSUME NEW steps, NEW early, TypedIn(steps), Knows(early), "status" \notin early,
         pc \in {"creating", "createService", "createRoute"}, UNCHANGED task,
         Conclude("failed")
  PROVE  Advances(early)
<1> DEFINE o == WithPhase("failed")
<1>1. obj \in TaskObjects /\ obj.phase = "creating" /\ ~obj.del
  BY Working DEF Knows, HandlerKnows, Known
<1>2. SameLife(o, obj) /\ o.phase = "failed"
  BY <1>1 DEF WithPhase, SameLife, SameIdentity, TaskObjects
<1>3. <<obj.phase, o.phase>> \in PhaseEdges /\ Continue("status", o)
  BY <1>1, <1>2 DEF PhaseEdges, Conclude
<1> HIDE DEF o
<1> QED
  BY <1>1, <1>2, <1>3, ConcludeAdvances

LEMMA RunningAdvances ==
  ASSUME NEW steps, NEW early, TypedIn(steps), Knows(early), "status" \notin early,
         pc \in {"creating", "createService", "createRoute"}, UNCHANGED task,
         NEW url, Continue("status", [WithPhase("running") EXCEPT !.url = url])
  PROVE  Advances(early)
<1> DEFINE o == [WithPhase("running") EXCEPT !.url = url]
<1>1. obj \in TaskObjects /\ obj.phase = "creating" /\ ~obj.del
  BY Working DEF Knows, HandlerKnows, Known
<1>2. SameLife(o, obj) /\ o.phase = "running"
  BY <1>1 DEF WithPhase, SameLife, SameIdentity, TaskObjects
<1>3. <<obj.phase, o.phase>> \in PhaseEdges
  BY <1>1, <1>2 DEF PhaseEdges
<1> HIDE DEF o
<1>4. Continue("status", o) => Advances(early)
  BY <1>1, <1>2, <1>3, ConcludeAdvances
<1> QED
  BY <1>4 DEF o

\* It goes on with what it has just written.
LEMMA WrittenAdvances ==
  ASSUME NEW early, NEW p, p # "status", NEW new, task'[cur] = new,
         Continue(p, new), Known(early, p, new)
  PROVE  Advances(early)
<1>1. Matches(p, new, task'[cur])
  BY DEF Matches
<1> QED
  BY <1>1 DEF Advances

\* Its last write changes the task, or the task needs nothing more.
LEMMA DoneAdvances ==
  ASSUME NEW steps, NEW early, TypedIn(steps), pc # "idle", NEW f, NEW new,
         Accepted(f, new), Done, new # task[cur] \/ ~NeedsWork(new)
  PROVE  Advances(early)
<1>1. cur \in Tasks /\ task \in [Tasks -> TaskObjects]
  BY Working DEF TypedIn, StoreTypeOK
<1> QED
  BY <1>1 DEF Accepted, StoredFrom, Advances

\* It lets go of a task that has ended.
LEMMA SettledAdvances ==
  ASSUME NEW early, Knows(early), pc \notin {"idle", "status"}, UNCHANGED task,
         fresh' \subseteq fresh, obj.phase \in Terminal, ~obj.del, Done
  PROVE  Advances(early)
<1>1. ASSUME cur \in fresh', cur \notin queue
      PROVE  ~NeedsWork(task'[cur])
  BY <1>1 DEF Knows, Awake, HandlerKnows, Matches, NeedsWork
<1> QED
  BY <1>1 DEF Advances

-----------------------------------------------------------------------------
(* The steps both controllers have.                                        *)

LEMMA UpdateStatusKnows ==
  ASSUME NEW steps, NEW early, TypedIn(steps), Knows(early), UpdateStatus
  PROVE  Knows(early)'
<1>1. pc = "status" /\ (objFresh => Matches(pc, obj, task[cur])) /\ ~obj.del
  BY DEF UpdateStatus, Knows, HandlerKnows, Known
<1>2. objFresh => obj # task[cur]
  BY <1>1 DEF Matches, PhaseEdges
<1>3. \/ Accepted(objFresh, obj) /\ Done
      \/ Failed(objFresh, obj) /\ Retry
  BY DEF UpdateStatus, UpdateTask
<1>4. Accepted(objFresh, obj) /\ Done => Advances(early)
  BY <1>1, <1>2, DoneAdvances DEF Accepted, StoredFrom
<1> QED
  BY <1>1, <1>3, <1>4, WritingKnows

LEMMA RemoveFinalizerKnows ==
  ASSUME NEW steps, NEW early, TypedIn(steps), Knows(early), RemoveFinalizer
  PROVE  Knows(early)'
<1>1. ~NeedsWork(Absent) /\ Absent.del = FALSE
  BY DEF NeedsWork, Exists, Absent, NewTask
<1>2. \/ Accepted(objFresh, Absent) /\ Done
      \/ Failed(objFresh, Absent) /\ Retry
  BY DEF RemoveFinalizer, UpdateTask
<1>3. Accepted(objFresh, Absent) /\ Done => Advances(early)
  BY <1>1, DoneAdvances DEF RemoveFinalizer
<1> QED
  BY <1>1, <1>2, <1>3, WritingKnows DEF RemoveFinalizer

\* Steps at which a controller may have seen its task in no phase yet.
Early(early) == early \subseteq {"pending", "label", "start"}

LEMMA CheckDeploymentKnows ==
  ASSUME NEW steps, NEW early, TypedIn(steps), Knows(early), Early(early),
         pc = "running", NEW zero, NEW listed, CheckDeployment(zero, listed)
  PROVE  Knows(early)'
<1>1. obj \in TaskObjects /\ obj.phase = "running" /\ ~obj.del
  BY Working DEF Knows, HandlerKnows, Known
<1>2. UNCHANGED task /\ fresh' \subseteq fresh
  BY DEF CheckDeployment, CheckPods, WriteMessage
<1>3. \/ \E phase \in {"creating", "completed", "failed"} : Conclude(phase)
      \/ Continue("ensureService", obj) \/ Retry
  BY DEF CheckDeployment, CreateDeployment, Create, CheckPods, WriteMessage, Verdict, AfterPods
<1>4. ASSUME NEW phase \in {"creating", "completed", "failed"}, Conclude(phase)
      PROVE  Advances(early)
  <2> DEFINE o == WithPhase(phase)
  <2>1. SameLife(o, obj) /\ o.phase = phase
    BY <1>1 DEF WithPhase, SameLife, SameIdentity, TaskObjects
  <2>2. <<obj.phase, o.phase>> \in PhaseEdges
    BY <1>1, <1>4, <2>1 DEF PhaseEdges
  <2>3. Continue("status", o)
    BY <1>4 DEF Conclude
  <2> HIDE DEF o
  <2> QED
    BY <1>1, <1>2, <2>1, <2>2, <2>3, ConcludeAdvances DEF Early
<1>5. Continue("ensureService", obj) => Advances(early)
  <2>1. Known(early, "ensureService", obj) /\ SameLife(obj, obj)
    BY <1>1 DEF Known, Early, CleanupSteps, SameLife, SameIdentity
  <2> QED
    BY <1>2, <2>1, GoOnAdvances
<1>6. Advances(early)
  BY <1>3, <1>4, <1>5, RetryAdvances
<1> QED
  BY <1>2, <1>6, WatchingKnows

LEMMA DropDeploymentKnows ==
  ASSUME NEW steps, NEW early, TypedIn(steps), Knows(early), Early(early),
         pc = "deleteDeployment", DropDeployment(Continue("deleteService", obj))
  PROVE  Knows(early)'
<1>1. obj.del
  BY DEF Knows, HandlerKnows, Known, CleanupSteps
<1>2. UNCHANGED <<task, fresh>> /\ (Continue("deleteService", obj) \/ Retry)
  BY DEF DropDeployment, storeVars
<1>3. Known(early, "deleteService", obj) /\ SameLife(obj, obj)
  BY <1>1 DEF Known, Early, SameLife, SameIdentity
<1>4. Continue("deleteService", obj) => Advances(early)
  BY <1>2, <1>3, GoOnAdvances
<1>5. Advances(early)
  BY <1>2, <1>4, RetryAdvances
<1> QED
  BY <1>2, <1>5, WatchingKnows

-----------------------------------------------------------------------------
(* Every write of a task is a step of its lifecycle.                       *)

LifecycleStep == Lifecycle!Next \/ UNCHANGED <<Life, created>>

LEMMA AbsentLife == LifeOf(Absent) = Lifecycle!NoLife
  BY DEF LifeOf, Absent, NewTask, Lifecycle!NoLife, Unset

LEMMA LifeChanges ==
  ASSUME NEW steps, TypedIn(steps), NEW t \in Tasks, NEW new, task' = [task EXCEPT ![t] = new]
  PROVE  Lifecycle!Becomes(t, LifeOf(new))
  BY LifeBecomes DEF TypedIn, Lifecycle!Becomes

LEMMA LifeStays ==
  ASSUME UNCHANGED <<task, created>>
  PROVE  LifecycleStep
  BY DEF LifecycleStep, Life

LEMMA StoredRefines ==
  ASSUME NEW steps, TypedIn(steps), pc # "idle", NEW f, NEW new, UNCHANGED created,
         Accepted(f, new) \/ Failed(f, new),
         f /\ Lifecycle!Becomes(cur, LifeOf(new)) =>
             \/ LifeOf(new) = Life[cur]
             \/ Lifecycle!Guard(cur) \/ Lifecycle!Begin(cur) \/ Lifecycle!Advance(cur)
             \/ Lifecycle!Stamp(cur) \/ Lifecycle!Release(cur)
  PROVE  LifecycleStep
<1>0. cur \in Tasks
  BY Working
<1>1. CASE UNCHANGED task
  BY <1>1, LifeStays
<1>2. CASE StoredFrom(f, new)
  <2>1. Lifecycle!Becomes(cur, LifeOf(new)) /\ f
    BY <1>0, <1>2, LifeChanges DEF StoredFrom
  <2>2. CASE LifeOf(new) = Life[cur]
    <3>1. Life' = [Life EXCEPT ![cur] = Life[cur]]
      BY <2>1, <2>2 DEF Lifecycle!Becomes
    <3>2. Life' = Life
      BY <3>1 DEF Life
    <3> QED
      BY <3>2 DEF LifecycleStep
  <2>3. CASE \/ Lifecycle!Guard(cur) \/ Lifecycle!Begin(cur) \/ Lifecycle!Advance(cur)
             \/ Lifecycle!Stamp(cur) \/ Lifecycle!Release(cur)
    BY <1>0, <2>3 DEF LifecycleStep, Lifecycle!Next
  <2> QED
    BY <2>1, <2>2, <2>3
<1> QED
  BY <1>1, <1>2 DEF Accepted, Failed

\* What a handler that holds the server's version knows of the task's life.
LEMMA LifeOfCopy ==
  ASSUME NEW steps, NEW unguarded, NEW early, TypedIn(steps), GuardedExcept(unguarded),
         Knows(early), pc # "idle"
  PROVE  /\ cur \in Tasks /\ obj \in TaskObjects /\ task[cur] \in TaskObjects
         /\ Life[cur] = LifeOf(task[cur])
         /\ Life[cur].uid = task[cur].uid /\ Life[cur].phase = task[cur].phase
         /\ Life[cur].fin = task[cur].fin /\ Life[cur].del = task[cur].del
         /\ Life[cur].end = task[cur].end
         /\ objFresh => /\ task[cur].uid # 0 /\ Matches(pc, obj, task[cur])
                        /\ pc # "status" => Life[cur] = LifeOf(obj)
<1>1. cur \in Tasks /\ obj \in TaskObjects /\ task[cur] \in TaskObjects
  BY Working, StoredTaskType
<1>2. Life[cur] = LifeOf(task[cur])
  BY <1>1, LifeEntries
<1>3. objFresh => task[cur].uid # 0 /\ Matches(pc, obj, task[cur])
  BY CopyAgrees DEF Knows, HandlerKnows, SameIdentity
<1>4. objFresh /\ pc # "status" => LifeOf(task[cur]) = LifeOf(obj)
  BY <1>3 DEF Matches, LifeOf
<1> QED
  BY <1>1, <1>2, <1>3, <1>4, LifeValues

LEMMA FinalizerRefines ==
  ASSUME NEW steps, NEW unguarded, NEW early, TypedIn(steps), GuardedExcept(unguarded),
         Knows(early), pc = "addFinalizer", UNCHANGED created,
         NEW new, new = [obj EXCEPT !.fin = TRUE],
         Accepted(objFresh, new) \/ Failed(objFresh, new)
  PROVE  LifecycleStep
<1>1. /\ pc # "idle" /\ ~obj.fin /\ ~obj.del
      /\ obj \in TaskObjects
      /\ objFresh => Life[cur] = LifeOf(obj) /\ Life[cur].uid # 0
  BY LifeOfCopy DEF Knows, HandlerKnows, Known
<1>2. ASSUME objFresh, Lifecycle!Becomes(cur, LifeOf(new))
      PROVE  Lifecycle!Guard(cur)
  <2>1. LifeOf(new) = [Life[cur] EXCEPT !.fin = TRUE]
    BY <1>1, <1>2, LifeFields, Zenon
  <2>2. Life[cur].uid # 0 /\ ~Life[cur].fin /\ ~Life[cur].del
    BY <1>1, <1>2, LifeValues
  <2> QED
    BY <1>2, <2>1, <2>2 DEF Lifecycle!Guard
<1> QED
  BY <1>1, <1>2, StoredRefines

LEMMA StampRefines ==
  ASSUME NEW steps, NEW unguarded, NEW early, TypedIn(steps), GuardedExcept(unguarded),
         Knows(early), pc = "endTime", pc \notin unguarded, UNCHANGED created,
         NEW new, new = [obj EXCEPT !.end = TRUE],
         Accepted(objFresh, new) \/ Failed(objFresh, new)
  PROVE  LifecycleStep
<1>1. /\ pc # "idle" /\ obj.phase \in Terminal /\ ~obj.del /\ ~obj.end /\ obj.fin
      /\ obj \in TaskObjects
      /\ objFresh => Life[cur] = LifeOf(obj)
  BY LifeOfCopy, CopyAgrees DEF Knows, HandlerKnows, Known
<1>2. ASSUME objFresh, Lifecycle!Becomes(cur, LifeOf(new))
      PROVE  Lifecycle!Stamp(cur)
  <2>1. LifeOf(new) = [Life[cur] EXCEPT !.end = TRUE]
    BY <1>1, <1>2, LifeFields, Zenon
  <2>2. Life[cur].phase \in Terminal /\ Life[cur].fin /\ ~Life[cur].del /\ ~Life[cur].end
    BY <1>1, <1>2, LifeValues
  <2> QED
    BY <1>2, <2>1, <2>2 DEF Lifecycle!Stamp, Terminal
<1> QED
  BY <1>1, <1>2, StoredRefines

LEMMA StatusRefines ==
  ASSUME NEW steps, NEW unguarded, NEW early, TypedIn(steps), GuardedExcept(unguarded),
         Knows(early), "status" \notin unguarded, UpdateStatus
  PROVE  LifecycleStep
<1>1. /\ pc = "status" /\ obj.fin /\ ~obj.del /\ UNCHANGED created
      /\ Accepted(objFresh, obj) \/ Failed(objFresh, obj)
  BY CopyAgrees DEF UpdateStatus, UpdateTask, Knows, HandlerKnows, Known
<1>2. ASSUME objFresh, Lifecycle!Becomes(cur, LifeOf(obj))
      PROVE  Lifecycle!Advance(cur)
  <2>1. /\ obj \in TaskObjects /\ task[cur] \in TaskObjects
        /\ Life[cur] = LifeOf(task[cur])
        /\ Matches("status", obj, task[cur])
        /\ Life[cur].phase = task[cur].phase
        /\ Life[cur].fin = task[cur].fin /\ Life[cur].del = task[cur].del
    BY <1>1, <1>2, LifeOfCopy
  <2>2. LifeOf(obj) = LifeOf([task[cur] EXCEPT !.phase = obj.phase])
    BY <2>1 DEF Matches, LifeOf, TaskObjects
  <2>3. LifeOf([task[cur] EXCEPT !.phase = obj.phase]) = [Life[cur] EXCEPT !.phase = obj.phase]
    BY <2>1, LifePhase DEF TaskObjects
  <2>4. <<Life[cur].phase, obj.phase>> \in {f \in PhaseEdges : f[1] = Life[cur].phase}
    BY <2>1 DEF Matches
  <2>5. obj.phase \in {e[2] : e \in {f \in PhaseEdges : f[1] = Life[cur].phase}}
    BY <2>4
  <2>6. Life[cur].fin /\ ~Life[cur].del
    BY <1>1, <2>1 DEF Matches
  <2> QED
    BY <1>2, <2>2, <2>3, <2>5, <2>6 DEF Lifecycle!Advance
<1> QED
  BY <1>1, <1>2, StoredRefines

LEMMA ReleaseRefines ==
  ASSUME NEW steps, NEW unguarded, NEW early, TypedIn(steps), GuardedExcept(unguarded),
         Knows(early), "removeFinalizer" \notin unguarded, RemoveFinalizer
  PROVE  LifecycleStep
<1>1. /\ pc = "removeFinalizer" /\ obj.fin /\ obj.del /\ UNCHANGED created
      /\ Accepted(objFresh, Absent) \/ Failed(objFresh, Absent)
  BY CopyAgrees
  DEF RemoveFinalizer, UpdateTask, Knows, HandlerKnows, Known, CleanupSteps
<1>2. ASSUME objFresh, Lifecycle!Becomes(cur, LifeOf(Absent))
      PROVE  Lifecycle!Release(cur)
  <2>1. Life[cur].fin /\ Life[cur].del
    BY <1>1, <1>2, LifeOfCopy, LifeValues
  <2> QED
    BY <1>2, <2>1, AbsentLife DEF Lifecycle!Release
<1> QED
  BY <1>1, <1>2, StoredRefines

\* Picking the task up, from a copy read from the cache again.
LEMMA BeginRefines ==
  ASSUME NEW steps, NEW unguarded, TypedIn(steps), GuardedExcept(unguarded), pc # "idle",
         UNCHANGED created, Exists(cache[cur]),
         cur \in fresh => cache[cur].phase \in {Unset, "creating"},
         NEW new, new = [cache[cur] EXCEPT !.phase = "creating"],
         Accepted(cur \in fresh, new) \/ Failed(cur \in fresh, new)
  PROVE  LifecycleStep
<1>1. /\ cur \in Tasks /\ cache[cur] \in TaskObjects
      /\ cur \in fresh => cache[cur] = task[cur]
      /\ Life[cur] = LifeOf(task[cur])
  BY Working, LifeEntries DEF GuardedExcept, CacheAgrees
<1>2. ASSUME cur \in fresh, Lifecycle!Becomes(cur, LifeOf(new))
      PROVE  Lifecycle!Begin(cur) \/ LifeOf(new) = Life[cur]
  <2>1. LifeOf(new) = [Life[cur] EXCEPT !.phase = "creating"]
    BY <1>1, <1>2, LifePhase DEF Phases
  <2>2. Life[cur].uid # 0 /\ Life[cur].phase = cache[cur].phase
    BY <1>1, <1>2, LifeValues DEF Exists
  <2>3. CASE cache[cur].phase = Unset
    BY <1>2, <2>1, <2>2, <2>3 DEF Lifecycle!Begin, Unset
  <2>4. CASE cache[cur].phase = "creating"
    <3>1. new = cache[cur]
      BY <1>1, <2>4 DEF TaskObjects
    <3> QED
      BY <1>1, <1>2, <3>1
  <2> QED
    BY <1>2, <2>3, <2>4
<1> QED
  BY <1>2, StoredRefines

\* A write that leaves the life alone.
LEMMA StutterRefines ==
  ASSUME NEW steps, TypedIn(steps), pc # "idle", UNCHANGED created,
         NEW f, NEW new, Accepted(f, new) \/ Failed(f, new),
         f => SameLife(new, task[cur]) /\ new.phase = task[cur].phase
  PROVE  LifecycleStep
<1>1. Life[cur] = LifeOf(task[cur])
  BY Working, LifeEntries
<1>2. f => LifeOf(new) = LifeOf(task[cur])
  BY DEF SameLife, SameIdentity, LifeOf
<1> QED
  BY <1>1, <1>2, StoredRefines

\* A user or a TTL goroutine deletes the task.
LEMMA DeletionRefines ==
  ASSUME NEW steps, TypedIn(steps), NEW t \in Tasks, Exists(task[t]), ~task[t].del,
         Overwrite(t, Deleted(task[t])), UNCHANGED created
  PROVE  LifecycleStep
<1>1. Life[t] = LifeOf(task[t]) /\ task[t] \in TaskObjects
  BY LifeEntries, StoredTaskType
<1>2. Lifecycle!Becomes(t, LifeOf(Deleted(task[t])))
  BY LifeChanges DEF Overwrite
<1>3. LifeOf(Deleted(task[t])) = IF Life[t].fin THEN [Life[t] EXCEPT !.del = TRUE]
                                                ELSE Lifecycle!NoLife
  BY <1>1, DeletedLife, AbsentLife
<1>4. Life[t].uid # 0 /\ ~Life[t].del
  BY <1>1, LifeValues DEF Exists
<1> QED
  BY <1>2, <1>3, <1>4 DEF Lifecycle!RequestDeletion, Lifecycle!Next, LifecycleStep

LEMMA CreationRefines ==
  ASSUME NEW steps, TypedIn(steps), NEW t \in Tasks, UserCreate(t)
  PROVE  LifecycleStep
<1>1. /\ created' = [created EXCEPT ![t] = @ + 1] /\ task[t].uid = 0
      /\ Lifecycle!Becomes(t, LifeOf(NewTask(created[t] + 1)))
  BY LifeChanges DEF UserCreate, Overwrite, Exists
<1>2. LifeOf(NewTask(created[t] + 1)) = [Lifecycle!NoLife EXCEPT !.uid = created[t] + 1]
  BY NewTaskLife, AbsentLife
<1>3. Life[t].uid = 0
  BY <1>1, LifeEntries, LifeValues
<1> QED
  BY <1>1, <1>2, <1>3 DEF Lifecycle!Submit, Lifecycle!Next, LifecycleStep

LEMMA EnvironmentRefines ==
  ASSUME NEW steps, TypedIn(steps), Environment
  PROVE  LifecycleStep
<1>1. CASE Restart
  BY <1>1, LifeStays DEF Restart, RestartWorker, storeVars
<1>2. ASSUME NEW address \in URLs, GatewayMoves(address)
      PROVE  LifecycleStep
  BY <1>2, LifeStays DEF GatewayMoves, storeVars
<1>3. ASSUME NEW t \in Tasks, Informers(t) \/ Resync(t) \/ Cluster(t)
      PROVE  LifecycleStep
  BY <1>3, LifeStays
  DEF Informers, SyncTaskObject, SyncTask, SyncDeployment, SyncService, SyncRoute, Notify,
      Resync, OtherEvent, Cluster, GarbageCollect, Interfere, ScaleToZero, PodChanges,
      ClusterChange, storeVars
<1>4. ASSUME NEW t \in Tasks, TTLExpires(t)
      PROVE  LifecycleStep
  <2>1. UNCHANGED created
        /\ \/ Exists(task[t]) /\ ~task[t].del /\ Overwrite(t, Deleted(task[t]))
           \/ UNCHANGED task
    BY <1>4 DEF TTLExpires
  <2> QED
    BY <2>1, DeletionRefines, LifeStays
<1>5. ASSUME NEW t \in Tasks, UserTouch(t)
      PROVE  LifecycleStep
  <2>1. task' = task /\ created' = created
    BY <1>5 DEF UserTouch, Overwrite, TypedIn, StoreTypeOK
  <2> QED
    BY <2>1, LifeStays
<1>6. ASSUME NEW t \in Tasks, UserDelete(t)
      PROVE  LifecycleStep
  BY <1>6, DeletionRefines DEF UserDelete
<1>7. ASSUME NEW t \in Tasks, Users(t)
      PROVE  LifecycleStep
  BY <1>5, <1>6, <1>7, CreationRefines DEF Users
<1> QED
  BY <1>1, <1>2, <1>3, <1>4, <1>7 DEF Environment

LEMMA InitRefines == Init => Lifecycle!Init
  BY AbsentLife DEF Init, ControllerInit, Lifecycle!Init, Life, LifeOf

-----------------------------------------------------------------------------
(* Cleanup misses no child but a late one.                                 *)

\* The step after which a child of the task at hand that is still there has
\* not been in the cache, unless an event has queued the task meanwhile.
AfterRoute == {"releaseListed", "deleteListed", "removeFinalizer"}
AfterService == {"releaseRoute", "deleteRoute"} \cup AfterRoute
AfterDeployment == {"deleteService"} \cup AfterService

\* A cached route at the server's version shows the server's route.
RoutesSeen == \A t \in routeFresh : routeCache[t] = RouteView(route[t])

DeploymentLate ==
  deploy[cur].owner = obj.uid => cur \in queue \/ deployCache[cur] = "absent"
ServiceLate == svc[cur] = obj.uid => cur \in queue \/ cur \notin svcCache
RouteLate == route[cur].owner = obj.uid => cur \in queue \/ cur \notin routeFresh

Swept ==
  /\ RoutesSeen
  /\ pc \in AfterDeployment => DeploymentLate
  /\ pc \in AfterService => ServiceLate
  /\ pc \in AfterRoute => RouteLate

LEMMA SweptMissesOnlyLate ==
  ASSUME NEW steps, NEW unguarded, TypedIn(steps), GuardedExcept(unguarded), Swept
  PROVE  CleanupMissesOnlyLateChildren
<1>1. pc = "removeFinalizer" => obj.uid # 0
  BY CopyAgrees, BoundsAssumption DEF TypedIn, StoreTypeOK
<1> QED
  BY <1>1
  DEF Swept, CleanupMissesOnlyLateChildren, AfterDeployment, AfterService, AfterRoute,
      DeploymentLate, ServiceLate, RouteLate, DeployView

LEMMA InitSwept == Init => Swept
<1>1. Init => RoutesSeen
  BY DEF Init, RoutesSeen, RouteView, NoRoute
<1> QED
  BY <1>1
  DEF Init, ControllerInit, Swept, AfterDeployment, AfterService, AfterRoute

\* A step that leaves the routes alone, and the worker outside of cleanup.
LEMMA ElsewhereSwept ==
  ASSUME Swept, pc' \notin AfterDeployment,
         UNCHANGED <<route, routeCache, routeFresh>>
  PROVE  Swept'
  BY DEF Swept, RoutesSeen, AfterDeployment, AfterService, AfterRoute

\* The worker writes the route of its task, or none, outside of cleanup.
LEMMA RouteWrittenSwept ==
  ASSUME NEW steps, TypedIn(steps), pc # "idle", Swept, pc' \notin AfterDeployment, NEW r,
         UNCHANGED routeCache,
         \/ UNCHANGED <<route, routeFresh>>
         \/ route' = [route EXCEPT ![cur] = r] /\ routeFresh' = routeFresh \ {cur}
  PROVE  Swept'
<1>1. cur \in Tasks /\ route = [t \in Tasks |-> route[t]] /\ routeFresh \subseteq Tasks
  BY Working DEF TypedIn, ClusterTypeOK
<1>2. RoutesSeen'
  BY <1>1 DEF Swept, RoutesSeen
<1> QED
  BY <1>2 DEF Swept, AfterDeployment, AfterService, AfterRoute

\* The steps of cleanup: what the worker does to each child of its task.
LEMMA DropDeploymentSwept ==
  ASSUME NEW steps, NEW unguarded, TypedIn(steps), GuardedExcept(unguarded), Swept,
         pc = "deleteDeployment", DropDeployment(Continue("deleteService", obj))
  PROVE  Swept'
<1>1. cur \in Tasks /\ obj.uid # 0 /\ deploy = [t \in Tasks |-> deploy[t]]
  BY Working, CopyAgrees, BoundsAssumption DEF TypedIn, StoreTypeOK, ClusterTypeOK
<1>2. /\ RoutesSeen'
      /\ \/ pc' = "idle"
         \/ /\ pc' = "deleteService" /\ UNCHANGED <<cur, obj, queue, deployCache>>
            /\ deployCache[cur] = "absent" \/ deploy' = [deploy EXCEPT ![cur] = NoDeploy]
  BY DEF DropDeployment, Continue, Retry, Return, Swept, RoutesSeen
<1> QED
  BY <1>1, <1>2
  DEF Swept, AfterDeployment, AfterService, AfterRoute, DeploymentLate, NoDeploy

\* The worker goes on through cleanup with the task it holds.
Sweeps == pc' \in AfterDeployment /\ UNCHANGED <<cur, obj, queue, deploy, deployCache, svcCache>>

LEMMA ServiceSwept ==
  ASSUME NEW steps, NEW unguarded, TypedIn(steps), GuardedExcept(unguarded), Swept,
         pc = "deleteService", Sweeps, pc' \notin AfterRoute,
         UNCHANGED <<route, routeCache, routeFresh>>,
         \/ cur \notin svcCache
         \/ svc' = [svc EXCEPT ![cur] = 0]
  PROVE  Swept'
<1>1. cur \in Tasks /\ obj.uid # 0 /\ svc = [t \in Tasks |-> svc[t]]
  BY Working, CopyAgrees DEF TypedIn, ClusterTypeOK
<1> QED
  BY <1>1
  DEF Swept, RoutesSeen, Sweeps, AfterDeployment, AfterService, AfterRoute, DeploymentLate,
      ServiceLate

LEMMA RouteSwept ==
  ASSUME NEW steps, NEW unguarded, TypedIn(steps), GuardedExcept(unguarded), Swept,
         pc \in {"releaseRoute", "deleteRoute", "releaseListed", "deleteListed"}, Sweeps,
         pc' \in AfterService,
         UNCHANGED <<svc, routeCache>>, NEW r,
         \/ StoreRoute(cur, r)
         \/ /\ UNCHANGED <<route, routeFresh>>
            /\ \/ pc \in AfterRoute
               \/ pc' \notin AfterRoute
               \/ routeCache[cur] = "absent"
               \/ route[cur] = NoRoute
  PROVE  Swept'
<1>1. /\ cur \in Tasks /\ obj.uid # 0
      /\ route = [t \in Tasks |-> route[t]] /\ routeFresh \subseteq Tasks
  BY Working, CopyAgrees DEF TypedIn, ClusterTypeOK
<1>2. RoutesSeen'
  BY <1>1 DEF Swept, RoutesSeen, StoreRoute
<1>3. DeploymentLate' /\ ServiceLate'
  BY DEF Swept, Sweeps, AfterDeployment, AfterService, AfterRoute, DeploymentLate, ServiceLate
<1>4. pc' \in AfterRoute => RouteLate'
  <2>1. CASE StoreRoute(cur, r)
    BY <1>1, <2>1 DEF StoreRoute, Sweeps, RouteLate
  <2>2. CASE /\ UNCHANGED <<route, routeFresh>>
             /\ routeCache[cur] = "absent"
    <3>1. cur \in routeFresh => RouteView(route[cur]) = "absent"
      BY <2>2 DEF Swept, RoutesSeen
    <3>2. cur \in routeFresh => route[cur].owner = 0
      BY <3>1 DEF RouteView
    <3> QED
      BY <1>1, <2>2, <3>2 DEF Sweeps, RouteLate
  <2>3. CASE UNCHANGED <<route, routeFresh>> /\ route[cur] = NoRoute
    BY <1>1, <2>3 DEF Sweeps, RouteLate, NoRoute
  <2>4. CASE UNCHANGED <<route, routeFresh>> /\ pc \in AfterRoute
    BY <2>4 DEF Swept, Sweeps, RouteLate
  <2> QED
    BY <2>1, <2>2, <2>3, <2>4
<1> QED
  BY <1>2, <1>3, <1>4 DEF Swept

\* Everybody else.  The caches change by events, which queue the task; a child
\* only ever goes away.
LEMMA SyncedSwept ==
  ASSUME NEW steps, TypedIn(steps), Swept, NEW t \in Tasks, Informers(t)
  PROVE  Swept'
<1>1. UNCHANGED <<workerVars, deploy, svc, route>> /\ queue \subseteq queue'
  BY DEF Informers, SyncTaskObject, SyncTask, SyncDeployment, SyncService, SyncRoute, Notify,
         childVars
<1>2. /\ routeCache = [u \in Tasks |-> routeCache[u]]
      /\ deployCache = [u \in Tasks |-> deployCache[u]]
      /\ routeFresh \subseteq Tasks
  BY DEF TypedIn, ClusterTypeOK
<1>3. RoutesSeen'
  BY <1>1, <1>2
  DEF Informers, SyncTaskObject, SyncDeployment, SyncService, SyncRoute, Swept, RoutesSeen,
      childVars
<1>4. pc # "idle" => deployCache'[cur] = deployCache[cur] \/ cur \in queue'
  BY <1>2, Working
  DEF Informers, SyncTaskObject, SyncDeployment, SyncService, SyncRoute, Notify, childVars
<1>5. cur \in svcCache' => cur \in svcCache \/ cur \in queue'
  BY DEF Informers, SyncTaskObject, SyncDeployment, SyncService, SyncRoute, Notify, childVars
<1>6. cur \in routeFresh' => cur \in routeFresh \/ cur \in queue'
  BY DEF Informers, SyncTaskObject, SyncDeployment, SyncService, SyncRoute, Notify, childVars
<1> QED
  BY <1>1, <1>3, <1>4, <1>5, <1>6
  DEF Swept, DeploymentLate, ServiceLate, RouteLate, workerVars, AfterDeployment, AfterService,
      AfterRoute

LEMMA ClusterSwept ==
  ASSUME NEW steps, NEW unguarded, TypedIn(steps), GuardedExcept(unguarded), Swept,
         NEW t \in Tasks, Cluster(t)
  PROVE  Swept'
<1>1. UNCHANGED <<workerVars, queue, deployCache, svcCache, routeCache>>
  BY DEF Cluster, GarbageCollect, Interfere, ScaleToZero, PodChanges, ClusterChange
<1>2. /\ deploy = [u \in Tasks |-> deploy[u]] /\ svc = [u \in Tasks |-> svc[u]]
      /\ route = [u \in Tasks |-> route[u]] /\ routeFresh \subseteq Tasks
      /\ deploy[t] \in [owner: 0..MaxIncarnations, zero: BOOLEAN]
      /\ pc # "idle" => cur \in Tasks /\ obj.uid # 0
  BY Working, CopyAgrees DEF TypedIn, ClusterTypeOK
<1>3. RoutesSeen'
  <2>1. \/ UNCHANGED <<route, routeFresh>>
        \/ \E r : StoreRoute(t, r)
    BY DEF Cluster, GarbageCollect, Interfere, ScaleToZero, PodChanges
  <2> QED
    BY <1>1, <1>2, <2>1 DEF Swept, RoutesSeen, StoreRoute
<1>4. \A u \in Tasks : deploy'[u].owner \in {0, deploy[u].owner}
  <2>1. \/ UNCHANGED deploy \/ deploy' = [deploy EXCEPT ![t] = NoDeploy]
        \/ deploy' = [deploy EXCEPT ![t] = [deploy[t] EXCEPT !.zero = TRUE]]
    BY DEF Cluster, GarbageCollect, Interfere, ScaleToZero, PodChanges
  <2>2. NoDeploy.owner = 0 /\ [deploy[t] EXCEPT !.zero = TRUE].owner = deploy[t].owner
    BY <1>2 DEF NoDeploy
  <2> QED
    BY <1>2, <2>1, <2>2
<1>5. \A u \in Tasks : svc'[u] \in {0, svc[u]}
  BY <1>2 DEF Cluster, GarbageCollect, Interfere, ScaleToZero, PodChanges
<1>6. \A u \in routeFresh' : u \in routeFresh /\ route'[u] = route[u]
  <2>1. \/ UNCHANGED <<route, routeFresh>>
        \/ \E r : StoreRoute(t, r)
    BY DEF Cluster, GarbageCollect, Interfere, ScaleToZero, PodChanges
  <2> QED
    BY <1>2, <2>1 DEF StoreRoute
<1>7. pc' \in AfterDeployment => DeploymentLate'
  BY <1>1, <1>2, <1>4
  DEF Swept, DeploymentLate, workerVars, AfterDeployment, AfterService, AfterRoute
<1>8. pc' \in AfterService => ServiceLate'
  BY <1>1, <1>2, <1>5 DEF Swept, ServiceLate, workerVars, AfterService, AfterRoute
<1>9. pc' \in AfterRoute => RouteLate'
  BY <1>1, <1>6 DEF Swept, RouteLate, workerVars
<1> QED
  BY <1>3, <1>7, <1>8, <1>9 DEF Swept

LEMMA EnvironmentSwept ==
  ASSUME NEW steps, NEW unguarded, TypedIn(steps), GuardedExcept(unguarded), Swept, Environment
  PROVE  Swept'
<1>1. CASE UNCHANGED <<childVars, cur, pc, obj>> /\ queue \subseteq queue'
  BY <1>1 DEF Swept, RoutesSeen, DeploymentLate, ServiceLate, RouteLate, childVars
<1>2. CASE Restart
  BY <1>2, ElsewhereSwept
  DEF Restart, RestartWorker, childVars, AfterDeployment, AfterService, AfterRoute
<1>3. ASSUME NEW address \in URLs, GatewayMoves(address)
      PROVE  Swept'
  BY <1>1, <1>3 DEF GatewayMoves, workerVars
<1>4. ASSUME NEW t \in Tasks, Resync(t) \/ TTLExpires(t) \/ Users(t)
      PROVE  Swept'
  BY <1>1, <1>4
  DEF Resync, OtherEvent, TTLExpires, Users, UserCreate, UserDelete, UserTouch, Overwrite,
      workerVars
<1> QED
  BY <1>2, <1>3, <1>4, SyncedSwept, ClusterSwept DEF Environment

LEMMA UnchangedSwept ==
  ASSUME Swept, UNCHANGED vars
  PROVE  Swept'
  BY DEF Swept, RoutesSeen, DeploymentLate, ServiceLate, RouteLate, vars, controllerVars,
         workerVars, childVars

-----------------------------------------------------------------------------
(* A task ends for a cause.                                                *)

\* What every step leaves alone but UpdateStatus: which tasks have ended.
EndsNothing == \A t \in Tasks : task'[t].phase \in {task[t].phase, Unset, "creating"}

\* Why a task fails; the pods of `prone` tasks, or those listed with them, may.
FailureCause(t, prone) ==
  \/ task[t].phase = "running" /\ t \in prone
  \/ /\ task[t].phase = "creating"
     /\ budget < MaxDisturbances \/ deploy[t] # NoDeploy \/ created[t] > 1

FailureCaused(prone) ==
  pc = "status" /\ objFresh /\ obj.phase = "failed" => FailureCause(cur, prone)

PodsFragile == \A t \in Tasks : pods[t] \in FailedPods => t \in Fragile

LEMMA WriteEndsNothing ==
  ASSUME NEW steps, TypedIn(steps), pc # "idle", NEW f, NEW new,
         Accepted(f, new) \/ Failed(f, new),
         f => new.phase \in {task[cur].phase, Unset, "creating"}
  PROVE  EndsNothing
<1>1. task \in [Tasks -> TaskObjects]
  BY DEF TypedIn, StoreTypeOK
<1>2. UNCHANGED task \/ (f /\ task' = [task EXCEPT ![cur] = new])
  BY DEF Accepted, Failed, StoredFrom
<1> QED
  BY <1>1, <1>2 DEF EndsNothing

LEMMA UpdateStatusEnds ==
  ASSUME NEW steps, TypedIn(steps), UpdateStatus, NEW t \in Tasks,
         task'[t].phase # task[t].phase
  PROVE  pc = "status" /\ objFresh /\ cur = t /\ obj.phase = task'[t].phase
<1>1. task \in [Tasks -> TaskObjects]
  BY DEF TypedIn, StoreTypeOK
<1> QED
  BY <1>1 DEF UpdateStatus, UpdateTask, Accepted, Failed, StoredFrom

LEMMA EnvironmentEndsNothing ==
  ASSUME NEW steps, TypedIn(steps), Environment
  PROVE  EndsNothing
<1>1. ASSUME NEW t \in Tasks, NEW new, Overwrite(t, new),
             new.phase \in {task[t].phase, Unset}
      PROVE  EndsNothing
  BY <1>1 DEF Overwrite, EndsNothing, TypedIn, StoreTypeOK
<1>2. ASSUME NEW t \in Tasks
      PROVE  /\ Deleted(task[t]).phase \in {task[t].phase, Unset}
             /\ NewTask(created[t] + 1).phase = Unset
  <2>1. task[t] \in TaskObjects
    BY StoredTaskType
  <2> QED
    BY <2>1 DEF Deleted, Absent, NewTask, TaskObjects
<1>3. ASSUME NEW t \in Tasks, TTLExpires(t) \/ Users(t)
      PROVE  EndsNothing
  <2>1. \/ UNCHANGED task
        \/ Overwrite(t, Deleted(task[t])) \/ Overwrite(t, NewTask(created[t] + 1))
        \/ Overwrite(t, task[t])
    BY <1>3 DEF TTLExpires, Users, UserCreate, UserDelete, UserTouch
  <2>2. CASE UNCHANGED task
    BY <2>2 DEF EndsNothing
  <2> QED
    BY <1>1, <1>2, <2>1, <2>2
<1>4. ASSUME NEW t \in Tasks, Informers(t) \/ Resync(t) \/ Cluster(t)
      PROVE  UNCHANGED task
  BY <1>4
  DEF Informers, SyncTaskObject, SyncTask, SyncDeployment, SyncService, SyncRoute, Notify,
      Resync, OtherEvent, Cluster, GarbageCollect, Interfere, ScaleToZero, PodChanges,
      ClusterChange, storeVars
<1>5. ASSUME Restart \/ \E address \in URLs : GatewayMoves(address)
      PROVE  UNCHANGED task
  BY <1>5 DEF Restart, RestartWorker, GatewayMoves, storeVars
<1>6. UNCHANGED task => EndsNothing
  BY DEF EndsNothing
<1> QED
  BY <1>3, <1>4, <1>5, <1>6 DEF Environment

\* A handler concludes that its task fails.
LEMMA RefusedCaused ==
  ASSUME NEW steps, NEW early, NEW prone, NEW zero, TypedIn(steps), Knows(early),
         pc = "creating", UNCHANGED <<task, created>>,
         CreateDeployment(zero, Continue("createService", obj), Conclude("failed"))
  PROVE  FailureCaused(prone)'
<1>1. pc' = "status" => Conclude("failed") /\ UNCHANGED <<cur, objFresh>>
  BY DEF CreateDeployment, Create, Continue, Conclude
<1>2. objFresh => task[cur].phase = "creating"
  BY DEF Knows, HandlerKnows, Known, Matches
<1>3. Conclude("failed") => budget' < MaxDisturbances \/ deploy'[cur] # NoDeploy
  <2>1. budget > 0 /\ budget' = budget - 1 => budget' < MaxDisturbances
    BY BoundsAssumption DEF TypedIn, StoreTypeOK
  <2>2. Conclude("failed") => ~Continue("createService", obj)
    BY DEF Conclude, Continue
  <2> QED
    BY <2>1, <2>2 DEF CreateDeployment, Create, Disturb, NoDeploy
<1> QED
  BY <1>1, <1>2, <1>3 DEF FailureCaused, FailureCause

LEMMA CheckDeploymentCaused ==
  ASSUME NEW steps, NEW early, NEW prone, NEW zero, NEW listed, TypedIn(steps), Knows(early),
         pc = "running", CheckDeployment(zero, listed),
         listed \cap FailedPods # {} => cur \in prone
  PROVE  FailureCaused(prone)'
<1>1. obj \in TaskObjects /\ UNCHANGED task
  BY Working DEF CheckDeployment
<1>2. objFresh => task[cur].phase = "running"
  BY DEF Knows, HandlerKnows, Known, Matches
<1>3. WithPhase("creating").phase = "creating" /\ WithPhase("completed").phase = "completed"
  BY <1>1 DEF WithPhase, TaskObjects
<1>4. pc' = "status" => /\ UNCHANGED <<cur, objFresh>>
                        /\ \/ obj' \in {WithPhase("creating"), WithPhase("completed")}
                           \/ listed \cap FailedPods # {}
  BY DEF CheckDeployment, CheckPods, WriteMessage, Verdict, AfterPods, CreateDeployment, Create,
         Conclude, Continue, Retry, Return
<1> QED
  BY <1>1, <1>2, <1>3, <1>4 DEF FailureCaused, FailureCause

\* The cause is there as long as the handler holds the server's version: what
\* else takes a Deployment away than a disturbance is the garbage collector,
\* which leaves a task's first Deployment alone.
LEMMA EnvironmentCaused ==
  ASSUME NEW steps, NEW unguarded, NEW prone, TypedIn(steps), GuardedExcept(unguarded),
         FailureCaused(prone), Environment
  PROVE  FailureCaused(prone)'
<1> SUFFICES ASSUME pc' = "status", objFresh', obj'.phase = "failed"
             PROVE  FailureCause(cur, prone)'
  BY DEF FailureCaused
<1>1. /\ pc = "status" /\ obj' = obj /\ cur' = cur /\ objFresh
      /\ task'[cur] = task[cur] /\ FailureCause(cur, prone)
  BY EnvironmentKeepsCopy DEF FailureCaused
<1>2. /\ cur \in Tasks /\ obj.uid \in 1..created[cur] /\ obj.uid = task[cur].uid
      /\ deploy[cur].owner \in {0} \cup 1..created[cur]
      /\ created[cur] \in Nat /\ budget \in Nat
      /\ deploy = [u \in Tasks |-> deploy[u]] /\ created = [u \in Tasks |-> created[u]]
  BY <1>1, Working, BoundsAssumption
  DEF GuardedExcept, HandlerAgrees, OwnersCreated, Owners, TypedIn, StoreTypeOK, ClusterTypeOK
<1>3. budget' = budget \/ (budget > 0 /\ budget' = budget - 1)
  BY DEF Environment, Restart, RestartWorker, GatewayMoves, Informers, SyncTaskObject, SyncTask,
         SyncDeployment, SyncService, SyncRoute, Notify, Resync, OtherEvent, TTLExpires, Users,
         UserCreate, UserDelete, UserTouch, Cluster, GarbageCollect, Interfere, ScaleToZero,
         PodChanges, Disturb, storeVars
<1>4. created'[cur] \in {created[cur], created[cur] + 1}
  <2>1. \/ UNCHANGED created
        \/ \E t \in Tasks : created' = [created EXCEPT ![t] = @ + 1]
    BY DEF Environment, Restart, RestartWorker, GatewayMoves, Informers, SyncTaskObject, SyncTask,
           SyncDeployment, SyncService, SyncRoute, Notify, Resync, OtherEvent, TTLExpires, Users,
           UserCreate, UserDelete, UserTouch, Cluster, GarbageCollect, Interfere, ScaleToZero,
           PodChanges, ClusterChange, storeVars
  <2> QED
    BY <1>2, <2>1
<1>5. \/ deploy[cur] = NoDeploy \/ deploy'[cur] # NoDeploy
      \/ Disturb \/ created[cur] > 1
  <2>1. \/ UNCHANGED deploy \/ Disturb
        \/ \E t \in Tasks : GarbageCollect(t) \/ ScaleToZero(t)
    BY DEF Environment, Restart, RestartWorker, GatewayMoves, Informers, SyncTaskObject,
           SyncDeployment, SyncService, SyncRoute, Notify, Resync, TTLExpires, Users,
           Cluster, Interfere, PodChanges, childVars
  <2>2. ASSUME NEW t \in Tasks, GarbageCollect(t)
        PROVE  deploy'[cur] = deploy[cur] \/ created[cur] > 1
    BY <1>1, <1>2, <2>2 DEF GarbageCollect
  <2>3. ASSUME NEW t \in Tasks, ScaleToZero(t)
        PROVE  deploy[cur] = NoDeploy \/ deploy'[cur] # NoDeploy
    <3>1. deploy'[cur] = deploy[cur] \/ deploy'[cur] = [deploy[cur] EXCEPT !.zero = TRUE]
      BY <1>2, <2>3 DEF ScaleToZero
    <3>2. deploy[cur] \in [owner: 0..MaxIncarnations, zero: BOOLEAN]
      BY <1>2 DEF TypedIn, ClusterTypeOK
    <3> QED
      BY <3>1, <3>2 DEF NoDeploy
  <2> QED
    BY <2>1, <2>2, <2>3
<1>6. Disturb => budget' < MaxDisturbances
  BY BoundsAssumption DEF Disturb, TypedIn, StoreTypeOK
<1>7. budget < MaxDisturbances => budget' < MaxDisturbances
  BY <1>2, <1>3, BoundsAssumption
<1>8. created[cur] > 1 => created'[cur] > 1
  BY <1>2, <1>4
<1> QED
  BY <1>1, <1>5, <1>6, <1>7, <1>8 DEF FailureCause

LEMMA EnvironmentFragile ==
  ASSUME NEW steps, TypedIn(steps), PodsFragile, Environment
  PROVE  PodsFragile'
<1>1. UNCHANGED pods \/ \E t \in Tasks, status \in PodStates : PodChanges(t, status)
  BY DEF Environment, Restart, GatewayMoves, Informers, SyncTaskObject, SyncDeployment,
         SyncService, SyncRoute, Notify, Resync, TTLExpires, Users, Cluster, GarbageCollect,
         Interfere, ScaleToZero
<1>2. ASSUME NEW t \in Tasks, NEW status \in PodStates, PodChanges(t, status)
      PROVE  PodsFragile'
  BY <1>2 DEF PodChanges, PodsFragile, TypedIn, ClusterTypeOK
<1> QED
  BY <1>1, <1>2 DEF PodsFragile

=============================================================================
