--------------------------- MODULE DevTaskProofs -----------------------------
(***************************************************************************)
(* Theorems about the DevTask controller: its variables keep their types,  *)
(* the finalizer guards the children, no wake-up is lost, it implements    *)
(* TaskLifecycle, cleanup misses no child but a late one, and no task      *)
(* fails without a cause.  What it shares with InferenceTask is proved in  *)
(* DeployedTaskProofs.                                                     *)
(***************************************************************************)
EXTENDS DevTask, DeployedTaskProofs

\* The step before the task has its finalizer.
Before == {"addFinalizer"}

-----------------------------------------------------------------------------
(* Types.                                                                  *)

\* Reconcile's dispatch selects a step of the handlers, or nothing.
LEMMA StepTypes ==
  ASSUME NEW o \in TaskObjects
  PROVE  /\ PhaseStep(o) \in WorkSteps \ Before
         /\ EntryStep(o) \in WorkSteps \cup {"idle"}
<1>1. PhaseStep(o) \in WorkSteps \ Before
  BY DEF PhaseStep, WorkSteps, Before
<1> QED
  BY <1>1 DEF EntryStep, WorkSteps, TaskObjects

\* The copy that announces the running task has some URL, or none.
LEMMA Announced ==
  ASSUME TypedIn(WorkSteps), pc # "idle", ConcludeRunning
  PROVE  \E url \in URLs \cup {NoURL} :
            Continue("status", [WithPhase("running") EXCEPT !.url = url])
<1> DEFINE r == WithPhase("running")
<1> DEFINE url == IF cur \in Routed THEN gateway ELSE r.url
<1>1. obj \in TaskObjects /\ gateway \in URLs
  BY Working DEF TypedIn, ClusterTypeOK
<1>2. r \in TaskObjects
  BY <1>1, FieldTypes DEF WithPhase, Phases
<1>3. url \in URLs \cup {NoURL}
  BY <1>1, <1>2 DEF TaskObjects
<1>4. Continue("status", [r EXCEPT !.url = url])
  BY DEF ConcludeRunning
<1> QED
  BY <1>3, <1>4

LEMMA AnnouncedMoves ==
  ASSUME TypedIn(WorkSteps), pc # "idle", ConcludeRunning
  PROVE  WorkerMoves(WorkSteps)
<1>1. PICK url \in URLs \cup {NoURL} :
        Continue("status", [WithPhase("running") EXCEPT !.url = url])
  BY Announced
<1>2. [WithPhase("running") EXCEPT !.url = url] \in TaskObjects
  BY RunningType
<1> QED
  BY <1>1, <1>2 DEF WorkerMoves, WorkSteps

LEMMA ReconcileType ==
  ASSUME TypedIn(WorkSteps), NEW t \in Tasks, Reconcile(t)
  PROVE  TypedIn(WorkSteps)'
<1>1. EntryStep(cache[t]) \in WorkSteps \cup {"idle"}
  BY StepTypes DEF TypedIn, StoreTypeOK
<1> QED
  BY <1>1, DispatchType DEF Reconcile

LEMMA AddFinalizerType ==
  ASSUME TypedIn(WorkSteps), AddFinalizer
  PROVE  TypedIn(WorkSteps)'
<1> DEFINE o == [obj EXCEPT !.fin = TRUE]
<1>1. cur \in Tasks /\ o \in TaskObjects
  BY Working, FieldTypes DEF AddFinalizer
<1> HIDE DEF o
<1>2. PhaseStep(o) \in WorkSteps
  BY <1>1, StepTypes
<1>3. /\ Accepted(objFresh, o) \/ Failed(objFresh, o)
      /\ Continue(PhaseStep(o), o) \/ Retry
      /\ UNCHANGED <<created, cache, childVars, pods, timers, gateway>>
  BY DEF AddFinalizer, UpdateTask, o
<1> QED
  BY <1>1, <1>2, <1>3, UpdateType DEF WorkerMoves

LEMMA RecheckPhaseType ==
  ASSUME TypedIn(WorkSteps), RecheckPhase
  PROVE  TypedIn(WorkSteps)'
<1>1. cur \in Tasks /\ obj \in TaskObjects
  BY Working DEF RecheckPhase
<1>2. Continue("label", obj) \/ Done \/ Retry
  BY DEF RecheckPhase
<1>3. WorkerMoves(WorkSteps)
  BY <1>1, <1>2 DEF WorkerMoves, WorkSteps
<1> QED
  BY <1>1, <1>3, WorkerMovesType, ChildrenUnchangedType, StoreUnchangedType
  DEF RecheckPhase, TypedIn

LEMMA LabelTaskType ==
  ASSUME TypedIn(WorkSteps), LabelTask
  PROVE  TypedIn(WorkSteps)'
<1> DEFINE o == [cache[cur] EXCEPT !.label = TRUE]
<1>1. cur \in Tasks /\ o \in TaskObjects /\ obj \in TaskObjects
  BY Working, FieldTypes DEF LabelTask
<1> HIDE DEF o
<1>2. UNCHANGED <<childVars, pods, timers, gateway>>
  BY DEF LabelTask
<1>3. CASE /\ Accepted(cur \in fresh, o) \/ Failed(cur \in fresh, o)
           /\ Continue("start", obj) \/ Retry
           /\ UNCHANGED <<created, cache>>
  BY <1>1, <1>2, <1>3, UpdateType DEF WorkerMoves, WorkSteps
<1>4. CASE Retry /\ UNCHANGED <<storeVars, budget>>
  BY <1>1, <1>2, <1>4, WorkerMovesType, ChildrenUnchangedType, StoreUnchangedType
  DEF TypedIn, WorkerMoves
<1> QED
  BY <1>3, <1>4 DEF LabelTask, UpdateTask, o

LEMMA StartTaskType ==
  ASSUME TypedIn(WorkSteps), StartTask
  PROVE  TypedIn(WorkSteps)'
<1> DEFINE o == [cache[cur] EXCEPT !.phase = "creating"]
<1>1. cur \in Tasks /\ o \in TaskObjects
  BY Working, FieldTypes DEF StartTask, Phases
<1> HIDE DEF o
<1>2. UNCHANGED <<childVars, pods, timers, gateway>>
  BY DEF StartTask
<1>3. CASE /\ Accepted(cur \in fresh, o) \/ Failed(cur \in fresh, o)
           /\ Done \/ Retry
           /\ UNCHANGED <<created, cache>>
  BY <1>1, <1>2, <1>3, UpdateType DEF WorkerMoves
<1>4. CASE Retry /\ UNCHANGED <<storeVars, budget>>
  BY <1>1, <1>2, <1>4, WorkerMovesType, ChildrenUnchangedType, StoreUnchangedType
  DEF TypedIn, WorkerMoves
<1>5. CASE RestampStart
  <2>1. StoreTypeOK'
    BY <1>5 DEF RestampStart, TypedIn, StoreTypeOK
  <2> QED
    BY <1>1, <1>2, <1>5, <2>1, WorkerMovesType, ChildrenUnchangedType
    DEF TypedIn, WorkerMoves, RestampStart
<1> QED
  BY <1>3, <1>4, <1>5 DEF StartTask, UpdateTask, o

LEMMA UpdateURLType ==
  ASSUME TypedIn(WorkSteps), UpdateURL
  PROVE  TypedIn(WorkSteps)'
<1>1. cur \in Tasks /\ obj \in TaskObjects
  BY Working DEF UpdateURL
<1> QED
  BY <1>1, UpdateType DEF UpdateURL, UpdateTask, WorkerMoves

LEMMA StampEndTimeType ==
  ASSUME TypedIn(WorkSteps), StampEndTime
  PROVE  TypedIn(WorkSteps)'
<1> DEFINE o == [obj EXCEPT !.end = TRUE]
<1>1. cur \in Tasks /\ o \in TaskObjects
  BY Working, FieldTypes DEF StampEndTime
<1> HIDE DEF o
<1>2. /\ Accepted(objFresh, o) \/ Failed(objFresh, o)
      /\ Continue("ensureService", o) \/ Retry
      /\ UNCHANGED <<created, cache, childVars, pods, timers, gateway>>
  BY DEF StampEndTime, UpdateTask, o
<1> QED
  BY <1>1, <1>2, UpdateType DEF WorkerMoves, WorkSteps

LEMMA EnsureDeploymentType ==
  ASSUME TypedIn(WorkSteps), EnsureDeployment
  PROVE  TypedIn(WorkSteps)'
<1>1. pc # "idle" /\ cur \in Tasks
  BY Working DEF EnsureDeployment
<1>2. Continue("createService", obj) \/ Conclude("failed")
  BY DEF EnsureDeployment, CreateDeployment, Create
<1>3. WorkerMoves(WorkSteps)
  BY <1>1, <1>2, Moves DEF WorkSteps, Phases, Terminal
<1>4. ChildrenTypeOK'
  BY <1>1, CreateDeploymentType DEF EnsureDeployment, CreateDeployment, Create
<1>5. /\ UNCHANGED <<task, created, cache, deployCache, svcCache, routeCache, pods, gateway>>
      /\ fresh' \subseteq Tasks
      /\ UNCHANGED budget \/ Disturb
  BY DEF EnsureDeployment, CreateDeployment, Create, storeVars, TypedIn, StoreTypeOK
<1> QED
  BY <1>1, <1>3, <1>4, <1>5, ChildType

LEMMA FinishOrPollType ==
  ASSUME FinishOrPoll
  PROVE  (Done \/ Retry) /\ (StartTimer \/ UNCHANGED timers)
  BY DEF FinishOrPoll

LEMMA CreateServiceType ==
  ASSUME TypedIn(WorkSteps), CreateService
  PROVE  TypedIn(WorkSteps)'
<1>1. pc # "idle" /\ cur \in Tasks
  BY Working DEF CreateService
<1>2. Continue("createRoute", obj) \/ ConcludeRunning \/ Retry
  BY DEF CreateService, EnsureServiceThen, Create
<1>3. WorkerMoves(WorkSteps)
  BY <1>1, <1>2, Moves, AnnouncedMoves DEF WorkSteps, Phases
<1>4. timers' \in [Tasks -> SUBSET (0..MaxIncarnations)]
  BY DEF CreateService, TypedIn, ClusterTypeOK
<1>5. ChildrenTypeOK'
  BY <1>1, <1>4, ServiceWriteType DEF CreateService, EnsureServiceThen, Create
<1>6. /\ UNCHANGED <<task, created, cache, deployCache, svcCache, routeCache, pods, gateway>>
      /\ fresh' \subseteq Tasks
      /\ UNCHANGED budget \/ Disturb
  BY DEF CreateService, EnsureServiceThen, Create, storeVars, TypedIn, StoreTypeOK
<1> QED
  BY <1>1, <1>3, <1>5, <1>6, ChildType

LEMMA EnsureServiceType ==
  ASSUME TypedIn(WorkSteps), EnsureService
  PROVE  TypedIn(WorkSteps)'
<1>1. pc # "idle" /\ cur \in Tasks
  BY Working DEF EnsureService
<1>2. \/ Continue("ensureRoute", obj) /\ UNCHANGED timers
      \/ FinishOrPoll
  BY DEF EnsureService, EnsureServiceThen, Create
<1>3. WorkerMoves(WorkSteps)
  BY <1>1, <1>2, Moves, FinishOrPollType DEF WorkSteps, Phases
<1>4. timers' \in [Tasks -> SUBSET (0..MaxIncarnations)]
  BY <1>1, <1>2, StartTimerType, FinishOrPollType
<1>5. ChildrenTypeOK'
  BY <1>1, <1>4, ServiceWriteType DEF EnsureService, EnsureServiceThen, Create
<1>6. /\ UNCHANGED <<task, created, cache, deployCache, svcCache, routeCache, pods, gateway>>
      /\ fresh' \subseteq Tasks
      /\ UNCHANGED budget \/ Disturb
  BY DEF EnsureService, EnsureServiceThen, Create, storeVars, TypedIn, StoreTypeOK
<1> QED
  BY <1>1, <1>3, <1>5, <1>6, ChildType

LEMMA CreateHTTPRouteType ==
  ASSUME TypedIn(WorkSteps), CreateHTTPRoute
  PROVE  TypedIn(WorkSteps)'
<1>1. pc # "idle" /\ cur \in Tasks /\ RouteType(NewRoute(TRUE))
  BY Working, NewRouteType DEF CreateHTTPRoute
<1>2. ConcludeRunning
  BY DEF CreateHTTPRoute, EnsureRouteThen, Create
<1>3. WorkerMoves(WorkSteps)
  BY <1>1, <1>2, Moves, AnnouncedMoves DEF WorkSteps, Phases
<1>4. timers' \in [Tasks -> SUBSET (0..MaxIncarnations)]
  BY DEF CreateHTTPRoute, TypedIn, ClusterTypeOK
<1>5. ChildrenTypeOK'
  BY <1>1, <1>4, RouteWriteType
  DEF CreateHTTPRoute, EnsureRouteThen, Create, NewRoute
<1>6. /\ UNCHANGED <<task, created, cache, deployCache, svcCache, routeCache, pods, gateway>>
      /\ fresh' \subseteq Tasks
      /\ UNCHANGED budget \/ Disturb
  BY DEF CreateHTTPRoute, EnsureRouteThen, Create, storeVars, TypedIn, StoreTypeOK
<1> QED
  BY <1>1, <1>3, <1>5, <1>6, ChildType

LEMMA EnsureHTTPRouteType ==
  ASSUME TypedIn(WorkSteps), EnsureHTTPRoute
  PROVE  TypedIn(WorkSteps)'
<1> DEFINE o == [obj EXCEPT !.url = gateway]
<1>1. pc # "idle" /\ cur \in Tasks /\ o \in TaskObjects /\ RouteType(NewRoute(TRUE))
  BY Working, FieldTypes, NewRouteType DEF EnsureHTTPRoute, TypedIn, ClusterTypeOK
<1> HIDE DEF o
<1>2. \/ Continue("url", o) /\ UNCHANGED timers
      \/ FinishOrPoll
  BY DEF EnsureHTTPRoute, EnsureRouteThen, Create, o
<1>3. WorkerMoves(WorkSteps)
  BY <1>1, <1>2, FinishOrPollType DEF WorkerMoves, WorkSteps
<1>4. timers' \in [Tasks -> SUBSET (0..MaxIncarnations)]
  BY <1>1, <1>2, StartTimerType, FinishOrPollType
<1>5. ChildrenTypeOK'
  BY <1>1, <1>4, RouteWriteType
  DEF EnsureHTTPRoute, EnsureRouteThen, Create, NewRoute
<1>6. /\ UNCHANGED <<task, created, cache, deployCache, svcCache, routeCache, pods, gateway>>
      /\ fresh' \subseteq Tasks
      /\ UNCHANGED budget \/ Disturb
  BY DEF EnsureHTTPRoute, EnsureRouteThen, Create, storeVars, TypedIn, StoreTypeOK
<1> QED
  BY <1>1, <1>3, <1>5, <1>6, ChildType

LEMMA DeleteServiceType ==
  ASSUME TypedIn(WorkSteps), DeleteService
  PROVE  TypedIn(WorkSteps)'
<1>1. pc # "idle" /\ cur \in Tasks
  BY Working DEF DeleteService
<1>2. Continue("releaseRoute", obj) \/ Retry
  BY DEF DeleteService
<1>3. WorkerMoves(WorkSteps)
  BY <1>1, <1>2, Moves, AnnouncedMoves DEF WorkSteps, Phases
<1>4. ChildrenTypeOK'
  <2>1. timers' \in [Tasks -> SUBSET (0..MaxIncarnations)]
    BY DEF DeleteService, TypedIn, ClusterTypeOK
  <2> QED
    BY <1>1, <2>1, ServiceWriteType DEF DeleteService
<1>5. /\ UNCHANGED <<task, created, cache, deployCache, svcCache, routeCache, pods, gateway>>
      /\ fresh' \subseteq Tasks
      /\ UNCHANGED budget \/ Disturb
  BY DEF DeleteService, storeVars, TypedIn, StoreTypeOK
<1> QED
  BY <1>1, <1>3, <1>4, <1>5, ChildType

\* The two passes of CleanupHTTPRoute: where they are, what they leave alone, where
\* they go, and what becomes of the route.
CleansRoutes == ReleaseRoute \/ DeleteRoute \/ ReleaseListed \/ SkipListed \/ DeleteListed
RouteSteps == {"releaseRoute", "deleteRoute", "releaseListed", "deleteListed"}

LEMMA RoutesCleaned ==
  ASSUME CleansRoutes
  PROVE  /\ pc \in RouteSteps
         /\ UNCHANGED <<storeVars, deploy, deployCache, svc, svcCache, routeCache, pods, timers,
                        gateway>>
         /\ \/ Retry
            \/ \E p \in (RouteSteps \ {"releaseRoute"}) \cup {"removeFinalizer"} : Continue(p, obj)
         /\ UNCHANGED budget \/ Disturb
         /\ \/ UNCHANGED <<route, routeFresh>>
            \/ StoreRoute(cur, Released(route[cur]))
            \/ StoreRoute(cur, RouteDeleted(route[cur]))
<1>1. CASE ReleaseRoute \/ ReleaseListed
  BY <1>1 DEF ReleaseRoute, ReleaseListed, ReleaseThen, Released, RouteSteps
<1>2. CASE DeleteRoute \/ DeleteListed
  BY <1>2 DEF DeleteRoute, DeleteListed, DropRouteThen, RouteSteps
<1>3. CASE SkipListed
  BY <1>3 DEF SkipListed, RouteSteps, childVars
<1> QED
  BY <1>1, <1>2, <1>3 DEF CleansRoutes

LEMMA CleansRoutesType ==
  ASSUME TypedIn(WorkSteps), CleansRoutes
  PROVE  TypedIn(WorkSteps)'
<1>1. pc # "idle" /\ cur \in Tasks
  BY RoutesCleaned, Working DEF RouteSteps
<1>2. RouteType(Released(route[cur])) /\ RouteType(RouteDeleted(route[cur]))
  BY <1>1, StoredRouteTypes
<1>3. WorkerMoves(WorkSteps)
  BY <1>1, RoutesCleaned, Moves DEF RouteSteps, WorkSteps, Phases
<1>4. PICK r : /\ RouteType(r)
               /\ \/ UNCHANGED <<route, routeFresh>>
                  \/ /\ route' = [route EXCEPT ![cur] = r]
                     /\ routeFresh' = routeFresh \ {cur}
  BY <1>2, RoutesCleaned DEF StoreRoute
<1>5. timers' \in [Tasks -> SUBSET (0..MaxIncarnations)] /\ UNCHANGED <<deploy, svc>>
  BY RoutesCleaned DEF TypedIn, ClusterTypeOK
<1>6. ChildrenTypeOK'
  BY <1>1, <1>4, <1>5, RouteWriteType
<1>7. /\ UNCHANGED <<task, created, cache, deployCache, svcCache, routeCache, pods, gateway>>
      /\ fresh' \subseteq Tasks
      /\ UNCHANGED budget \/ Disturb
  BY RoutesCleaned DEF storeVars, TypedIn, StoreTypeOK
<1> QED
  BY <1>1, <1>3, <1>6, <1>7, ChildType

LEMMA CheckRunningType ==
  ASSUME TypedIn(WorkSteps), CheckRunning
  PROVE  TypedIn(WorkSteps)'
  BY CheckDeploymentType DEF CheckRunning, WorkSteps

LEMMA DeleteDeploymentType ==
  ASSUME TypedIn(WorkSteps), DeleteDeployment
  PROVE  TypedIn(WorkSteps)'
  BY DropDeploymentType DEF DeleteDeployment, WorkSteps

LEMMA StepType ==
  ASSUME TypedIn(WorkSteps), [Next]_vars
  PROVE  TypedIn(WorkSteps)'
<1>1. CASE HandlerStep
  BY <1>1, AddFinalizerType, RecheckPhaseType, LabelTaskType, StartTaskType,
     EnsureDeploymentType, CreateServiceType, CreateHTTPRouteType, UpdateStatusType,
     CheckRunningType, EnsureServiceType, EnsureHTTPRouteType, UpdateURLType,
     StampEndTimeType, DeleteDeploymentType, DeleteServiceType, CleansRoutesType,
     RemoveFinalizerType
  DEF HandlerStep, CleansRoutes
<1>2. CASE Next /\ ~HandlerStep
  BY <1>2, EnvironmentType, ReconcileType DEF Next
<1> QED
  BY <1>1, <1>2, UnchangedType

\* Every variable keeps its type, and the worker holds a task exactly while it
\* works on one (devtask_controller.go:45-81), for any number of tasks,
\* incarnations and disturbances.
THEOREM TypeCorrect == Spec => []TypeOK
<1>1. Init => TypeOK
  BY InitType DEF TypeOK
<1>2. TypeOK /\ [Next]_vars => TypeOK'
  BY StepType DEF TypeOK
<1> QED
  BY <1>1, <1>2, PTL DEF Spec

-----------------------------------------------------------------------------
(* The finalizer guards the children.                                      *)

LEMMA ReconcileGuarded ==
  ASSUME TypedIn(WorkSteps), GuardedExcept(Before), NEW t \in Tasks, Reconcile(t)
  PROVE  GuardedExcept(Before)'
<1> DEFINE o == cache[t]
<1>1. o \in TaskObjects
  BY DEF TypedIn, StoreTypeOK
<1> HIDE DEF o
<1>2. EntryStep(o) # "idle" => Exists(o) /\ (EntryStep(o) \in Before \/ o.fin)
  BY <1>1 DEF EntryStep, Before, TaskObjects
<1>3. Dispatch(t, EntryStep(cache[t])) /\ UNCHANGED childVars
  BY DEF Reconcile
<1> QED
  BY <1>2, <1>3, DispatchGuarded DEF o

LEMMA AddFinalizerGuarded ==
  ASSUME TypedIn(WorkSteps), GuardedExcept(Before), AddFinalizer
  PROVE  GuardedExcept(Before)'
<1> DEFINE o == [obj EXCEPT !.fin = TRUE]
<1>1. /\ cur \in Tasks /\ o \in TaskObjects
      /\ o.fin /\ o.uid = obj.uid /\ o.del = obj.del
  BY Working, FieldTypes DEF AddFinalizer, TaskObjects
<1> HIDE DEF o
<1>2. /\ obj.uid \in 1..created[cur]
      /\ objFresh => SameIdentity(obj, task[cur])
  BY CopyAgrees DEF AddFinalizer
<1>3. /\ Accepted(objFresh, o) \/ Failed(objFresh, o)
      /\ UNCHANGED <<created, cache, childVars>>
  BY DEF AddFinalizer, UpdateTask, o
<1>4. objFresh => Harmless(task[cur], o)
  BY <1>1, <1>2 DEF Harmless, SameIdentity
<1>5. HandlerAgrees(Before)'
  <2>1. CASE Accepted(objFresh, o) /\ Continue(PhaseStep(o), o)
    <3>1. objFresh /\ task'[cur] = o
      BY <1>1, <2>1 DEF Accepted, StoredFrom, TypedIn, StoreTypeOK
    <3> QED
      BY <1>1, <1>2, <1>3, <2>1, <3>1 DEF Continue, HandlerAgrees, Before
  <2> QED
    BY <2>1, ReturnAgrees DEF AddFinalizer, UpdateTask, o
<1> QED
  BY <1>1, <1>3, <1>4, <1>5, UpdateGuarded

LEMMA RecheckPhaseGuarded ==
  ASSUME TypedIn(WorkSteps), GuardedExcept(Before), RecheckPhase
  PROVE  GuardedExcept(Before)'
<1>1. UNCHANGED <<task, created, cache, fresh, childVars>>
  BY DEF RecheckPhase, storeVars
<1>2. HandlerAgrees(Before)'
  <2>1. CASE Continue("label", obj)
    BY <1>1, <2>1 DEF RecheckPhase, Continue, GuardedExcept, HandlerAgrees, Before
  <2> QED
    BY <2>1, ReturnAgrees DEF RecheckPhase
<1>3. \A u \in Tasks : Owners(u)' = Owners(u)
  BY <1>1 DEF Owners, childVars
<1> QED
  BY <1>1, <1>2, <1>3, ChildGuarded

LEMMA LabelTaskGuarded ==
  ASSUME TypedIn(WorkSteps), GuardedExcept(Before), LabelTask
  PROVE  GuardedExcept(Before)'
<1> DEFINE o == [cache[cur] EXCEPT !.label = TRUE]
<1>1. /\ cur \in Tasks /\ o \in TaskObjects
      /\ SameIdentity(o, cache[cur])
  BY Working, FieldTypes DEF LabelTask, TaskObjects, SameIdentity
<1> HIDE DEF o
<1>2. cur \in fresh => SameIdentity(o, task[cur])
  BY <1>1 DEF GuardedExcept, CacheAgrees
<1>3. cur \in fresh => Harmless(task[cur], o)
  BY <1>2 DEF Harmless, SameIdentity
<1>4. UNCHANGED <<created, cache, childVars>>
  BY DEF LabelTask, UpdateTask, storeVars
<1>5. CASE Accepted(cur \in fresh, o) \/ Failed(cur \in fresh, o)
  <2>1. HandlerAgrees(Before)'
    <3>1. CASE Accepted(cur \in fresh, o) /\ Continue("start", obj)
      <4>1. task'[cur] = o /\ cur \in fresh
        BY <1>1, <3>1 DEF Accepted, StoredFrom, TypedIn, StoreTypeOK
      <4> QED
        BY <1>2, <1>4, <3>1, <4>1, HandlerKeeps
        DEF Continue, SameIdentity, LabelTask, GuardedExcept, Before
    <3> QED
      BY <3>1, ReturnAgrees DEF LabelTask, UpdateTask, o
  <2> QED
    BY <1>1, <1>3, <1>4, <1>5, <2>1, UpdateGuarded
<1>6. CASE Retry /\ UNCHANGED storeVars
  <2>1. \A u \in Tasks : Owners(u)' = Owners(u)
    BY <1>4 DEF Owners, childVars
  <2> QED
    BY <1>6, <2>1, ReturnAgrees, ChildGuarded DEF storeVars
<1> QED
  BY <1>5, <1>6 DEF LabelTask, UpdateTask, o

LEMMA StartTaskGuarded ==
  ASSUME TypedIn(WorkSteps), GuardedExcept(Before), StartTask
  PROVE  GuardedExcept(Before)'
<1> DEFINE o == [cache[cur] EXCEPT !.phase = "creating"]
<1>1. /\ cur \in Tasks /\ o \in TaskObjects
      /\ SameIdentity(o, cache[cur])
  BY Working, FieldTypes DEF StartTask, TaskObjects, SameIdentity, Phases
<1> HIDE DEF o
<1>2. cur \in fresh => Harmless(task[cur], o)
  BY <1>1 DEF GuardedExcept, CacheAgrees, Harmless, SameIdentity
<1>3. UNCHANGED <<created, cache, childVars>>
  BY DEF StartTask, UpdateTask, RestampStart, storeVars
<1>4. HandlerAgrees(Before)'
  BY ReturnAgrees DEF StartTask, UpdateTask, RestampStart
<1>5. CASE Accepted(cur \in fresh, o) \/ Failed(cur \in fresh, o)
  BY <1>1, <1>2, <1>3, <1>4, <1>5, UpdateGuarded
<1>6. CASE UNCHANGED task /\ fresh' \subseteq fresh
  <2>1. \A u \in Tasks : Owners(u)' = Owners(u)
    BY <1>3 DEF Owners, childVars
  <2> QED
    BY <1>3, <1>4, <1>6, <2>1, ChildGuarded
<1> QED
  BY <1>5, <1>6 DEF StartTask, UpdateTask, RestampStart, storeVars, o

LEMMA StampEndTimeGuarded ==
  ASSUME TypedIn(WorkSteps), GuardedExcept(Before), StampEndTime
  PROVE  GuardedExcept(Before)'
<1> DEFINE o == [obj EXCEPT !.end = TRUE]
<1>1. /\ cur \in Tasks /\ o \in TaskObjects
      /\ SameIdentity(o, obj)
  BY Working, FieldTypes DEF StampEndTime, TaskObjects, SameIdentity
<1> HIDE DEF o
<1>2. objFresh => SameIdentity(o, task[cur])
  BY <1>1, CopyAgrees DEF StampEndTime, SameIdentity
<1>3. /\ Accepted(objFresh, o) \/ Failed(objFresh, o)
      /\ UNCHANGED <<created, cache, childVars>>
  BY DEF StampEndTime, UpdateTask, o
<1>4. HandlerAgrees(Before)'
  <2>1. CASE Accepted(objFresh, o) /\ Continue("ensureService", o)
    <3>1. objFresh /\ task'[cur] = o
      BY <1>1, <2>1 DEF Accepted, StoredFrom, TypedIn, StoreTypeOK
    <3> QED
      BY <1>1, <1>2, <1>3, <2>1, <3>1, HandlerKeeps
      DEF Continue, SameIdentity, StampEndTime, GuardedExcept, Before
  <2> QED
    BY <2>1, ReturnAgrees DEF StampEndTime, UpdateTask, o
<1> QED
  BY <1>1, <1>2, <1>3, <1>4, UpdateGuarded DEF Harmless, SameIdentity

LEMMA UpdateURLGuarded ==
  ASSUME TypedIn(WorkSteps), GuardedExcept(Before), UpdateURL
  PROVE  GuardedExcept(Before)'
<1>1. UpdateTask(objFresh, obj, Done \/ Retry, Retry) /\ UNCHANGED childVars /\ pc # "idle"
  BY DEF UpdateURL, UpdateTask
<1> QED
  BY <1>1, CopyWriteGuarded

-----------------------------------------------------------------------------
(* Steps of the handlers that write a child, or nothing.                   *)

\* They go on in one of these ways.
Onward ==
  \/ \E p \in WorkSteps \ Before : Continue(p, obj)
  \/ Continue("url", [obj EXCEPT !.url = gateway])
  \/ Conclude("failed") \/ ConcludeRunning
  \/ Done \/ Retry

LEMMA OnwardGuarded ==
  ASSUME TypedIn(WorkSteps), GuardedExcept(Before), pc \notin {"idle"} \cup Before,
         UNCHANGED <<task, created, cache, fresh>>,
         WritesOwn(FALSE, TRUE), Onward
  PROVE  GuardedExcept(Before)'
<1>1. pc # "idle" /\ "status" \notin Before /\ "url" \notin Before
  BY DEF Before
<1>2. Proceeds(Before)
  <2>1. CASE ConcludeRunning
    <3>1. PICK url \in URLs \cup {NoURL} :
            Continue("status", [WithPhase("running") EXCEPT !.url = url])
      BY <1>1, <2>1, Announced
    <3> QED
      BY <1>1, <3>1, GoingOn
  <2>2. CASE \E p \in WorkSteps \ Before : Continue(p, obj)
    BY <1>1, <2>2, GoingOn
  <2>3. CASE Continue("url", [obj EXCEPT !.url = gateway])
    BY <1>1, <2>3, GoingOn
  <2>4. CASE Conclude("failed") \/ Done \/ Retry
    BY <1>1, <2>4, GoingOn
  <2> QED
    BY <2>1, <2>2, <2>3, <2>4 DEF Onward
<1> QED
  BY <1>2, ChildStepGuarded

LEMMA CreatingGuarded ==
  ASSUME TypedIn(WorkSteps), GuardedExcept(Before),
         EnsureDeployment \/ CreateService \/ CreateHTTPRoute
  PROVE  GuardedExcept(Before)'
<1>1. /\ pc \notin {"idle"} \cup Before
      /\ UNCHANGED <<task, created, cache, fresh>>
  BY DEF EnsureDeployment, CreateService, CreateHTTPRoute, EnsureServiceThen, EnsureRouteThen,
         storeVars, Before
<1>2. Onward
  BY DEF EnsureDeployment, CreateService, CreateHTTPRoute, CreateDeployment,
         EnsureServiceThen, EnsureRouteThen, Create, Onward, WorkSteps, Before
<1>3. WritesOwn(FALSE, TRUE)
  BY DEF EnsureDeployment, CreateService, CreateHTTPRoute, CreateDeployment,
         EnsureServiceThen, EnsureRouteThen, Create, WritesOwn, NewRoute
<1> QED
  BY <1>1, <1>2, <1>3, OnwardGuarded

LEMMA CheckRunningGuarded ==
  ASSUME TypedIn(WorkSteps), GuardedExcept(Before), CheckRunning
  PROVE  GuardedExcept(Before)'
<1>1. pc \notin {"idle"} \cup Before /\ {"status", "ensureService"} \cap Before = {}
  BY DEF CheckRunning, Before
<1> QED
  BY <1>1, CheckDeploymentGuarded DEF CheckRunning

LEMMA EnsureGuarded ==
  ASSUME TypedIn(WorkSteps), GuardedExcept(Before), EnsureService \/ EnsureHTTPRoute
  PROVE  GuardedExcept(Before)'
<1>1. /\ pc \notin {"idle"} \cup Before
      /\ UNCHANGED <<task, created, cache, fresh>>
  BY DEF EnsureService, EnsureHTTPRoute, EnsureServiceThen, EnsureRouteThen, storeVars, Before
<1>2. Onward
  BY DEF EnsureService, EnsureHTTPRoute, EnsureServiceThen, EnsureRouteThen, Create,
         FinishOrPoll, Onward, WorkSteps, Before
<1>3. WritesOwn(FALSE, TRUE)
  BY DEF EnsureService, EnsureHTTPRoute, EnsureServiceThen, EnsureRouteThen, Create,
         WritesOwn, NewRoute
<1> QED
  BY <1>1, <1>2, <1>3, OnwardGuarded

LEMMA CleanupGuarded ==
  ASSUME TypedIn(WorkSteps), GuardedExcept(Before),
         DeleteDeployment \/ DeleteService \/ CleansRoutes
  PROVE  GuardedExcept(Before)'
<1>1. /\ pc \notin {"idle"} \cup Before
      /\ UNCHANGED <<task, created, cache, fresh>>
  BY RoutesCleaned
  DEF DeleteDeployment, DropDeployment, DeleteService, RouteSteps, storeVars, Before
<1>2. Onward
  BY RoutesCleaned
  DEF DeleteDeployment, DropDeployment, DeleteService, RouteSteps, Onward, WorkSteps, Before
<1>3. WritesOwn(FALSE, TRUE)
  BY RoutesCleaned
  DEF DeleteDeployment, DropDeployment, DeleteService, StoreRoute, WritesOwn
<1> QED
  BY <1>1, <1>2, <1>3, OnwardGuarded

-----------------------------------------------------------------------------
LEMMA StepGuarded ==
  ASSUME TypedIn(WorkSteps), GuardedExcept(Before), [Next]_vars
  PROVE  GuardedExcept(Before)'
<1>1. CASE HandlerStep
  BY <1>1, AddFinalizerGuarded, RecheckPhaseGuarded, LabelTaskGuarded, StartTaskGuarded,
     CreatingGuarded, UpdateStatusGuarded, CheckRunningGuarded, EnsureGuarded,
     UpdateURLGuarded, StampEndTimeGuarded, CleanupGuarded, RemoveFinalizerGuarded
  DEF HandlerStep, CleansRoutes
<1>2. CASE Next /\ ~HandlerStep
  BY <1>2, EnvironmentGuarded, ReconcileGuarded DEF Next
<1> QED
  BY <1>1, <1>2, UnchangedGuarded

\* No copy of a task ever claims more than the server knows, and no child has
\* an owner that was never created.
THEOREM GuardedAlways == Spec => []Guarded
<1>1. Init => Guarded
  BY InitGuarded DEF Guarded
<1>2. TypeOK /\ Guarded /\ [Next]_vars => Guarded'
  BY StepGuarded DEF TypeOK, Guarded, Before
<1> QED
  BY <1>1, <1>2, TypeCorrect, PTL DEF Spec

\* A DevTask never vanishes while children it owns exist unless cleanup ran:
\* whatever is lost, late or restarted between the Update that adds the
\* finalizer and the handlers' writes (devtask_controller.go:62-67), the
\* server's object carries the finalizer as long as a child has its uid.
THEOREM ChildrenGuarded == Spec => []FinalizerGuardsChildren
<1>1. Guarded => FinalizerGuardsChildren
  BY DEF Guarded, GuardedExcept
<1> QED
  BY <1>1, GuardedAlways, PTL

-----------------------------------------------------------------------------
(* No wake-up is lost, and every step is a step of the lifecycle.          *)

\* handlePendingPhase, which looks at the phase in the first of its steps only.
Unseen == {"pending", "label", "start"}

\* A task has not gone beyond creating unless the cache has seen it in a phase:
\* only a handler that was dispatched in creating moves it on.
CacheBehind ==
  \A t \in Tasks : cache[t].phase = Unset => task[t].phase \in {Unset, "creating"}

HandlerAhead == pc # "idle" /\ objFresh /\ obj.phase # Unset => cache[cur].phase # Unset

\* So what handlePendingPhase found in no phase is creating at most.
StartEarly == pc \in {"label", "start"} => task[cur].phase \in {Unset, "creating"}

Aligned == CacheBehind /\ HandlerAhead /\ StartEarly

Informed == Knows(Unseen) /\ Aligned

\* How a handler goes on, as far as Aligned is concerned.
Goes ==
  \/ pc' = "idle"
  \/ /\ cur' = cur /\ objFresh' = objFresh
     /\ obj'.phase # Unset => obj.phase # Unset
     /\ pc' \in {"label", "start"} => task'[cur].phase \in {Unset, "creating"}

LEMMA WorkerAligned ==
  ASSUME TypedIn(WorkSteps), Informed, pc # "idle", UNCHANGED cache, Goes,
         \A u \in Tasks \ {cur} : task'[u] = task[u],
         task'[cur].phase \in {task[cur].phase, Unset, "creating"} \/ cache[cur].phase # Unset
  PROVE  Aligned'
<1>1. cur \in Tasks
  BY Working
<1>2. CacheBehind'
  BY <1>1 DEF Informed, Aligned, CacheBehind
<1>3. HandlerAhead'
  BY <1>1 DEF Informed, Aligned, HandlerAhead, Goes
<1>4. StartEarly'
  BY <1>1 DEF StartEarly, Goes
<1> QED
  BY <1>2, <1>3, <1>4 DEF Aligned

LEMMA WritingAligned ==
  ASSUME TypedIn(WorkSteps), Informed, pc # "idle", UNCHANGED cache, Goes,
         NEW f, NEW new, Accepted(f, new) \/ Failed(f, new),
         f => \/ new.phase \in {task[cur].phase, Unset, "creating"}
              \/ cache[cur].phase # Unset
  PROVE  Aligned'
<1>1. cur \in Tasks /\ task \in [Tasks -> TaskObjects]
  BY Working DEF TypedIn, StoreTypeOK
<1>2. \/ UNCHANGED task
      \/ f /\ task' = [task EXCEPT ![cur] = new]
  BY DEF Accepted, Failed, StoredFrom
<1> QED
  BY <1>1, <1>2, WorkerAligned

LEMMA PhaseKnown ==
  ASSUME NEW o \in TaskObjects, ~o.del
  PROVE  /\ PhaseStep(o) \notin {"idle", "status", "label", "start"}
         /\ Known(Unseen, PhaseStep(o), o)
<1>1. o.phase \in {Unset, "creating", "running"} \cup Terminal
  BY DEF TaskObjects, Phases
<1>2. /\ PhaseStep(o) \in {"pending", "creating", "running", "endTime", "ensureService"}
      /\ PhaseStep(o) = "pending" => o.phase = Unset
      /\ PhaseStep(o) = "creating" => o.phase = "creating"
      /\ PhaseStep(o) = "running" => o.phase = "running"
      /\ PhaseStep(o) \in {"endTime", "ensureService"} => o.phase \in Terminal
      /\ PhaseStep(o) = "endTime" => ~o.end
  BY <1>1 DEF PhaseStep
<1> QED
  BY <1>2 DEF Known, Unseen, CleanupSteps, Terminal

LEMMA EntryKnown ==
  ASSUME NEW o \in TaskObjects
  PROVE  /\ EntryStep(o) = "idle" => (NeedsWork(o) => o.del /\ ~o.fin)
         /\ EntryStep(o) # "idle" =>
               /\ EntryStep(o) \notin {"status", "label", "start"}
               /\ Known(Unseen, EntryStep(o), o)
<1>1. {o.del, o.fin} \subseteq BOOLEAN
  BY DEF TaskObjects
<1>2. CASE ~Exists(o) \/ (o.del /\ ~o.fin)
  BY <1>1, <1>2 DEF EntryStep, NeedsWork
<1>3. CASE Exists(o) /\ o.del /\ o.fin
  BY <1>1, <1>3 DEF EntryStep, Known, Unseen
<1>4. CASE Exists(o) /\ ~o.del /\ ~o.fin
  BY <1>1, <1>4 DEF EntryStep, Known, Unseen, CleanupSteps
<1>5. CASE Exists(o) /\ ~o.del /\ o.fin
  <2>1. EntryStep(o) = PhaseStep(o)
    BY <1>1, <1>5 DEF EntryStep
  <2> QED
    BY <1>5, <2>1, PhaseKnown
<1> QED
  BY <1>1, <1>2, <1>3, <1>4, <1>5

LEMMA ReconcileKnows ==
  ASSUME TypedIn(WorkSteps), GuardedExcept(Before), Informed, NEW t \in Tasks, Reconcile(t)
  PROVE  Informed'
<1> DEFINE step == EntryStep(cache[t])
<1>1. cache[t] \in TaskObjects /\ CacheAgrees(t) /\ Dispatch(t, step) /\ "idle" \notin WorkSteps
  BY DEF TypedIn, StoreTypeOK, GuardedExcept, Reconcile, WorkSteps
<1>2. /\ step = "idle" => (NeedsWork(cache[t]) => cache[t].del /\ ~cache[t].fin)
      /\ step # "idle" => /\ step \notin {"status", "label", "start"}
                          /\ Known(Unseen, step, cache[t])
  BY <1>1, EntryKnown
<1> HIDE DEF step
<1>3. Knows(Unseen)'
  BY <1>1, <1>2, DispatchKnows DEF Informed
<1>4. UNCHANGED <<task, cache>> /\ pc = "idle"
      /\ \/ pc' = "idle"
         \/ cur' = t /\ obj' = cache[t] /\ pc' \notin {"label", "start"}
  BY <1>1, <1>2 DEF Dispatch, storeVars, workerVars
<1>5. Aligned'
  BY <1>4 DEF Informed, Aligned, CacheBehind, HandlerAhead, StartEarly
<1> QED
  BY <1>3, <1>5 DEF Informed

LEMMA AddFinalizerKnows ==
  ASSUME TypedIn(WorkSteps), GuardedExcept(Before), Informed, AddFinalizer
  PROVE  Informed'
<1> DEFINE new == [obj EXCEPT !.fin = TRUE]
           p == PhaseStep(new)
<1>1. /\ pc = "addFinalizer" /\ cur \in Tasks /\ obj \in TaskObjects
      /\ ~obj.del /\ (objFresh => obj.phase = task[cur].phase)
      /\ new \in TaskObjects /\ new.fin = TRUE /\ new.del = obj.del /\ new.phase = obj.phase
  BY Working
  DEF AddFinalizer, TaskObjects, Informed, Knows, HandlerKnows, Known, Matches
<1>2. p \notin {"idle", "status", "label", "start"} /\ Known(Unseen, p, new)
  BY <1>1, PhaseKnown
<1>3. UNCHANGED cache
      /\ \/ Accepted(objFresh, new) /\ Continue(p, new)
         \/ Failed(objFresh, new) /\ Retry
  BY DEF AddFinalizer, UpdateTask
<1> HIDE DEF new, p
<1>4. Accepted(objFresh, new) => task'[cur] = new
  BY <1>1 DEF Accepted, StoredFrom, TypedIn, StoreTypeOK
<1>5. Accepted(objFresh, new) /\ Continue(p, new) => Advances(Unseen)
  BY <1>2, <1>4, WrittenAdvances
<1>6. Knows(Unseen)'
  BY <1>1, <1>3, <1>5, WritingKnows DEF Informed
<1>7. Goes
  BY <1>1, <1>2, <1>3 DEF Goes, Continue, Retry, Return
<1>8. Aligned'
  BY <1>1, <1>3, <1>7, WritingAligned
<1> QED
  BY <1>6, <1>8 DEF Informed

\* The key in the worker's hands is queued, or the copy it was dispatched with
\* is the cache's: then nobody has picked the task up.
LEMMA PendingStill ==
  ASSUME TypedIn(WorkSteps), GuardedExcept(Before), Informed, pc \in Unseen,
         cur \in fresh, cur \notin queue
  PROVE  cache[cur].phase = Unset /\ task[cur].phase = Unset
<1>1. cache[cur] = task[cur] /\ pc # "idle"
  BY Working DEF GuardedExcept, CacheAgrees, Unseen
<1>2. objFresh /\ obj.phase = Unset
  BY <1>1 DEF Informed, Knows, Awake, HandlerKnows, Known
<1> QED
  BY <1>1, <1>2 DEF Informed, Knows, HandlerKnows, Matches, Unseen

LEMMA RecheckPhaseKnows ==
  ASSUME TypedIn(WorkSteps), GuardedExcept(Before), Informed, RecheckPhase
  PROVE  Informed'
<1>1. /\ pc = "pending" /\ cur \in Tasks /\ obj.phase = Unset
      /\ UNCHANGED <<task, cache, fresh>>
      /\ \/ Retry
         \/ Done /\ cache[cur].phase # Unset
         \/ Continue("label", obj) /\ cache[cur].phase = Unset
  BY Working DEF RecheckPhase, Informed, Knows, HandlerKnows, Known, Unseen, storeVars
<1>2. Done /\ cache[cur].phase # Unset => Advances(Unseen)
  BY <1>1, PendingStill DEF Advances, Unseen
<1>3. Continue("label", obj) => Advances(Unseen)
  <2>1. Known(Unseen, "label", obj) /\ SameLife(obj, obj)
    BY <1>1 DEF Known, CleanupSteps, SameLife, SameIdentity
  <2> QED
    BY <1>1, <2>1, GoOnAdvances DEF Informed
<1>4. Knows(Unseen)'
  BY <1>1, <1>2, <1>3, RetryAdvances, WatchingKnows DEF Informed
<1>5. cache[cur].phase = Unset => task[cur].phase \in {Unset, "creating"}
  BY <1>1 DEF Informed, Aligned, CacheBehind
<1>6. Goes
  BY <1>1, <1>5 DEF Goes, Continue, Done, Retry, Return
<1>7. Aligned'
  BY <1>1, <1>6, WorkerAligned
<1> QED
  BY <1>4, <1>7 DEF Informed

LEMMA LabelTaskKnows ==
  ASSUME TypedIn(WorkSteps), GuardedExcept(Before), Informed, LabelTask
  PROVE  Informed'
<1> DEFINE o == cache[cur]
           new == [o EXCEPT !.label = TRUE]
<1>1. /\ pc = "label" /\ cur \in Tasks /\ obj.phase = Unset /\ UNCHANGED cache
      /\ o \in TaskObjects /\ (cur \in fresh => o = task[cur])
      /\ SameLife(new, o) /\ new.phase = o.phase
      /\ task[cur].phase \in {Unset, "creating"}
  BY Working
  DEF LabelTask, UpdateTask, GuardedExcept, CacheAgrees, Informed, Knows, HandlerKnows, Known,
      Unseen, TaskObjects, SameLife, SameIdentity, Aligned, StartEarly, storeVars
<1>2. \/ Retry /\ UNCHANGED <<storeVars, budget>>
      \/ Accepted(cur \in fresh, new) /\ Continue("start", obj)
      \/ Failed(cur \in fresh, new) /\ Retry
  BY DEF LabelTask, UpdateTask
<1> HIDE DEF o, new
<1>3. Known(Unseen, "start", obj)
  BY <1>1 DEF Known, Unseen, CleanupSteps
<1>4. Accepted(cur \in fresh, new) => task'[cur] = new /\ cur \in fresh
  BY <1>1 DEF Accepted, StoredFrom, TypedIn, StoreTypeOK
<1>5. Accepted(cur \in fresh, new) /\ objFresh => Matches("start", obj, task'[cur])
  BY <1>1, <1>4 DEF Informed, Knows, HandlerKnows, Matches, SameLife, SameIdentity
<1>6. Accepted(cur \in fresh, new) /\ Continue("start", obj) => Advances(Unseen)
  BY <1>3, <1>5 DEF Advances
<1>7. cur \in fresh => (new.del => new.fin)
  BY <1>1 DEF Informed, Knows, Held, SameLife, SameIdentity
<1>8. CASE Retry /\ UNCHANGED <<storeVars, budget>>
  <2>1. Knows(Unseen)'
    BY <1>1, <1>8, RetryAdvances, WatchingKnows DEF Informed, storeVars
  <2>2. Aligned'
    BY <1>1, <1>8, WorkerAligned DEF Goes, Retry, Return, storeVars
  <2> QED
    BY <2>1, <2>2 DEF Informed
<1>9. CASE \/ Accepted(cur \in fresh, new) /\ Continue("start", obj)
           \/ Failed(cur \in fresh, new) /\ Retry
  <2>1. Knows(Unseen)'
    BY <1>1, <1>6, <1>7, <1>9, WritingKnows DEF Informed
  <2>2. Goes
    BY <1>1, <1>4, <1>9 DEF Goes, Continue, Retry, Return
  <2>3. Aligned'
    BY <1>1, <1>9, <2>2, WritingAligned
  <2> QED
    BY <2>1, <2>3 DEF Informed
<1> QED
  BY <1>2, <1>8, <1>9

LEMMA StartTaskKnows ==
  ASSUME TypedIn(WorkSteps), GuardedExcept(Before), Informed, StartTask
  PROVE  Informed'
<1> DEFINE o == cache[cur]
           new == [o EXCEPT !.phase = "creating"]
<1>1. /\ pc = "start" /\ cur \in Tasks /\ UNCHANGED cache
      /\ o \in TaskObjects /\ (cur \in fresh => o = task[cur])
      /\ new.del = o.del /\ new.fin = o.fin /\ new.phase = "creating"
  BY Working
  DEF StartTask, UpdateTask, RestampStart, GuardedExcept, CacheAgrees, TaskObjects, storeVars
<1>2. \/ Retry /\ UNCHANGED <<task, fresh>>
      \/ Done /\ UNCHANGED task /\ fresh' = fresh \ {cur}
      \/ Accepted(cur \in fresh, new) /\ Done
      \/ Failed(cur \in fresh, new) /\ Retry
  BY DEF StartTask, UpdateTask, RestampStart, storeVars
<1>3. Goes
  BY <1>2 DEF Goes, Done, Retry, Return
<1> HIDE DEF o, new
<1>4. CASE Retry /\ UNCHANGED <<task, fresh>>
  <2>1. Knows(Unseen)'
    BY <1>1, <1>4, RetryAdvances, WatchingKnows DEF Informed
  <2>2. Aligned'
    BY <1>1, <1>3, <1>4, WorkerAligned
  <2> QED
    BY <2>1, <2>2 DEF Informed
<1>5. CASE Done /\ UNCHANGED task /\ fresh' = fresh \ {cur}
  <2>1. Advances(Unseen)
    BY <1>5 DEF Advances
  <2>2. Knows(Unseen)'
    BY <1>1, <1>5, <2>1, WatchingKnows DEF Informed
  <2>3. Aligned'
    BY <1>1, <1>3, <1>5, WorkerAligned
  <2> QED
    BY <2>2, <2>3 DEF Informed
<1>6. CASE \/ Accepted(cur \in fresh, new) /\ Done
           \/ Failed(cur \in fresh, new) /\ Retry
  <2>1. cur \in fresh => (new.del => new.fin)
    BY <1>1 DEF Informed, Knows, Held
  <2>2. ASSUME Accepted(cur \in fresh, new), Done
        PROVE  Advances(Unseen)
    <3>1. cur \in fresh
      BY <2>2 DEF Accepted, StoredFrom
    <3>2. CASE new # task[cur]
      BY <1>1, <2>2, <3>2, DoneAdvances
    <3>3. CASE cur \in queue
      BY <2>2, <3>3 DEF Advances
    <3>4. CASE new = task[cur] /\ cur \notin queue
      BY <1>1, <3>1, <3>4, PendingStill DEF Unseen, Unset
    <3> QED
      BY <3>2, <3>3, <3>4
  <2>3. Knows(Unseen)'
    BY <1>1, <1>6, <2>1, <2>2, WritingKnows DEF Informed
  <2>4. Aligned'
    BY <1>1, <1>3, <1>6, WritingAligned
  <2> QED
    BY <2>3, <2>4 DEF Informed
<1> QED
  BY <1>2, <1>4, <1>5, <1>6

\* The steps that write children, or nothing: each goes on with a copy it
\* knows, or lets go.
LEMMA StepsAdvance ==
  ASSUME TypedIn(WorkSteps), Informed,
         \/ EnsureDeployment \/ CreateService \/ CreateHTTPRoute \/ EnsureService
         \/ EnsureHTTPRoute \/ DeleteService \/ CleansRoutes
  PROVE  UNCHANGED <<task, created, cache, fresh>> /\ Advances(Unseen)
<1>1. /\ obj \in TaskObjects /\ Known(Unseen, pc, obj)
      /\ pc \notin {"idle", "status"} /\ "status" \notin Unseen /\ Knows(Unseen)
  BY Working, RoutesCleaned
  DEF EnsureDeployment, CreateService, CreateHTTPRoute, EnsureService, EnsureHTTPRoute,
      DeleteService, RouteSteps, Informed, Knows, HandlerKnows, Unseen
<1>2. UNCHANGED <<task, created, cache, fresh>>
  BY RoutesCleaned
  DEF EnsureDeployment, CreateService, CreateHTTPRoute, EnsureService, EnsureHTTPRoute,
      DeleteService, EnsureServiceThen, EnsureRouteThen, storeVars
<1>3. ASSUME NEW p \in WorkSteps \ {"status"}, Known(Unseen, p, obj)
      PROVE  Continue(p, obj) => Advances(Unseen)
  <2>1. SameLife(obj, obj)
    BY DEF SameLife, SameIdentity
  <2> QED
    BY <1>1, <1>2, <1>3, <2>1, GoOnAdvances
<1>4. ASSUME pc \in {"ensureService", "ensureRoute"}, FinishOrPoll
      PROVE  Advances(Unseen)
  <2>1. obj.phase \in {"running"} \cup Terminal /\ ~obj.del
    BY <1>1, <1>4 DEF Known, Terminal
  <2>2. CASE obj.phase = "running"
    BY <1>4, <2>2, RetryAdvances DEF FinishOrPoll
  <2>3. CASE obj.phase \in Terminal
    <3>1. Done
      BY <1>4, <2>3 DEF FinishOrPoll, Terminal
    <3> QED
      BY <1>1, <1>2, <2>1, <2>3, <3>1, SettledAdvances
  <2> QED
    BY <2>1, <2>2, <2>3
<1>5. CASE EnsureDeployment
  <2>1. pc = "creating" /\ (Continue("createService", obj) \/ Conclude("failed"))
    BY <1>5 DEF EnsureDeployment, CreateDeployment, Create
  <2>2. Known(Unseen, "createService", obj)
    BY <1>1, <2>1 DEF Known, Unseen, CleanupSteps
  <2> QED
    BY <1>1, <1>2, <1>3, <2>1, <2>2, FailedAdvances DEF WorkSteps
<1>6. CASE CreateService
  <2>1. /\ pc = "createService"
        /\ Continue("createRoute", obj) \/ ConcludeRunning \/ Retry
    BY <1>6 DEF CreateService, EnsureServiceThen, Create
  <2>2. Known(Unseen, "createRoute", obj)
    BY <1>1, <2>1 DEF Known, Unseen, CleanupSteps
  <2>3. ConcludeRunning => Advances(Unseen)
    BY <1>1, <1>2, <2>1, Announced, RunningAdvances
  <2> QED
    BY <1>2, <1>3, <2>1, <2>2, <2>3, RetryAdvances DEF WorkSteps
<1>7. CASE CreateHTTPRoute
  <2>1. pc = "createRoute" /\ ConcludeRunning
    BY <1>7 DEF CreateHTTPRoute, EnsureRouteThen, Create
  <2> QED
    BY <1>1, <1>2, <2>1, Announced, RunningAdvances
<1>8. CASE EnsureService
  <2>1. pc = "ensureService" /\ (Continue("ensureRoute", obj) \/ FinishOrPoll)
    BY <1>8 DEF EnsureService, EnsureServiceThen, Create
  <2>2. Known(Unseen, "ensureRoute", obj)
    BY <1>1, <2>1 DEF Known, Unseen, CleanupSteps
  <2> QED
    BY <1>2, <1>3, <1>4, <2>1, <2>2 DEF WorkSteps
<1>9. CASE EnsureHTTPRoute
  <2> DEFINE o == [obj EXCEPT !.url = gateway]
  <2>1. pc = "ensureRoute" /\ (Continue("url", o) \/ FinishOrPoll)
    BY <1>9 DEF EnsureHTTPRoute, EnsureRouteThen, Create
  <2>2. Known(Unseen, "url", o) /\ SameLife(o, obj) /\ o.phase = obj.phase
    BY <1>1 DEF Known, Unseen, CleanupSteps, SameLife, SameIdentity, TaskObjects
  <2> HIDE DEF o
  <2>3. Continue("url", o) => Advances(Unseen)
    BY <1>1, <1>2, <2>2, GoOnAdvances
  <2> QED
    BY <1>2, <1>4, <2>1, <2>3
<1>10. CASE DeleteService
  <2>1. pc = "deleteService" /\ (Continue("releaseRoute", obj) \/ Retry)
    BY <1>10 DEF DeleteService
  <2>2. Known(Unseen, "releaseRoute", obj)
    BY <1>1, <2>1 DEF Known, Unseen, CleanupSteps
  <2> QED
    BY <1>2, <1>3, <2>1, <2>2, RetryAdvances DEF WorkSteps
<1>11. CASE CleansRoutes
  <2>1. pc \in RouteSteps
    BY <1>11, RoutesCleaned
  <2>2. ASSUME NEW p \in (RouteSteps \ {"releaseRoute"}) \cup {"removeFinalizer"}
        PROVE  Known(Unseen, p, obj) /\ p \in WorkSteps \ {"status"}
    BY <1>1, <2>1 DEF Known, Unseen, CleanupSteps, RouteSteps, WorkSteps
  <2> QED
    BY <1>2, <1>3, <1>11, <2>2, RoutesCleaned, RetryAdvances
<1> QED
  BY <1>5, <1>6, <1>7, <1>8, <1>9, <1>10, <1>11

LEMMA UpdateURLKnows ==
  ASSUME TypedIn(WorkSteps), GuardedExcept(Before), Informed, UpdateURL
  PROVE  Knows(Unseen)'
<1>1. /\ pc = "url" /\ cur \in Tasks
      /\ objFresh => SameIdentity(obj, task[cur])
  BY Working, CopyAgrees DEF UpdateURL
<1>2. objFresh => (obj.del => obj.fin)
  BY <1>1 DEF Informed, Knows, Held, SameIdentity
<1>3. Retry /\ (Accepted(objFresh, obj) \/ Failed(objFresh, obj))
  BY DEF UpdateURL, UpdateTask
<1> QED
  BY <1>1, <1>2, <1>3, RetryAdvances, WritingKnows DEF Informed

LEMMA StampEndTimeKnows ==
  ASSUME TypedIn(WorkSteps), GuardedExcept(Before), Informed, StampEndTime
  PROVE  Knows(Unseen)'
<1> DEFINE new == [obj EXCEPT !.end = TRUE]
<1>1. /\ pc = "endTime" /\ cur \in Tasks /\ obj \in TaskObjects
      /\ obj.phase \in Terminal /\ ~obj.del
      /\ new.del = obj.del /\ new.phase = obj.phase
  BY Working DEF StampEndTime, TaskObjects, Informed, Knows, HandlerKnows, Known
<1>2. \/ Accepted(objFresh, new) /\ Continue("ensureService", new)
      \/ Failed(objFresh, new) /\ Retry
  BY DEF StampEndTime, UpdateTask
<1> HIDE DEF new
<1>3. Known(Unseen, "ensureService", new)
  BY <1>1 DEF Known, Unseen, CleanupSteps, Terminal
<1>4. Accepted(objFresh, new) => task'[cur] = new
  BY <1>1 DEF Accepted, StoredFrom, TypedIn, StoreTypeOK
<1>5. Accepted(objFresh, new) /\ Continue("ensureService", new) => Advances(Unseen)
  BY <1>3, <1>4, WrittenAdvances
<1> QED
  BY <1>1, <1>2, <1>5, WritingKnows DEF Informed

\* Aligned through the steps that write the task, and those that write a child.
LEMMA WritesAligned ==
  ASSUME TypedIn(WorkSteps), GuardedExcept(Before), Informed,
         UpdateStatus \/ UpdateURL \/ StampEndTime \/ RemoveFinalizer
  PROVE  Aligned'
<1>1. pc # "idle" /\ obj \in TaskObjects /\ UNCHANGED cache
      /\ (objFresh => Matches(pc, obj, task[cur]))
  BY Working
  DEF UpdateStatus, UpdateURL, StampEndTime, RemoveFinalizer, UpdateTask, Informed, Knows,
      HandlerKnows
<1>2. CASE UpdateStatus
  <2>1. /\ pc = "status"
        /\ Done \/ Retry
        /\ Accepted(objFresh, obj) \/ Failed(objFresh, obj)
    BY <1>2 DEF UpdateStatus, UpdateTask
  <2>2. objFresh => cache[cur].phase # Unset
    <3>1. objFresh => <<task[cur].phase, obj.phase>> \in PhaseEdges
      BY <1>1, <2>1 DEF Matches
    <3>2. objFresh => obj.phase # Unset
      BY <3>1 DEF PhaseEdges, Unset
    <3> QED
      BY <1>1, <3>2 DEF Informed, Aligned, HandlerAhead
  <2>3. Goes
    BY <2>1 DEF Goes, Done, Retry, Return
  <2> QED
    BY <1>1, <2>1, <2>2, <2>3, WritingAligned
<1>3. CASE UpdateURL
  <2>1. /\ pc = "url" /\ Retry
        /\ Accepted(objFresh, obj) \/ Failed(objFresh, obj)
    BY <1>3 DEF UpdateURL, UpdateTask
  <2>2. Goes
    BY <2>1 DEF Goes, Retry, Return
  <2>3. objFresh => obj.phase = task[cur].phase
    BY <1>1, <2>1 DEF Matches
  <2> QED
    BY <1>1, <2>1, <2>2, <2>3, WritingAligned
<1>4. CASE StampEndTime
  <2> DEFINE new == [obj EXCEPT !.end = TRUE]
  <2>1. /\ pc = "endTime"
        /\ Continue("ensureService", new) \/ Retry
        /\ Accepted(objFresh, new) \/ Failed(objFresh, new)
    BY <1>4 DEF StampEndTime, UpdateTask
  <2>2. new.phase = obj.phase
    BY <1>1 DEF TaskObjects
  <2> HIDE DEF new
  <2>3. Goes
    BY <2>1, <2>2 DEF Goes, Continue, Retry, Return
  <2>4. objFresh => new.phase = task[cur].phase
    BY <1>1, <2>1, <2>2 DEF Matches
  <2> QED
    BY <1>1, <2>1, <2>3, <2>4, WritingAligned
<1>5. CASE RemoveFinalizer
  <2>1. /\ Done \/ Retry
        /\ Accepted(objFresh, Absent) \/ Failed(objFresh, Absent)
    BY <1>5 DEF RemoveFinalizer, UpdateTask
  <2>2. Goes
    BY <2>1 DEF Goes, Done, Retry, Return
  <2>3. Absent.phase = Unset
    BY DEF Absent, NewTask
  <2> QED
    BY <1>1, <2>1, <2>2, <2>3, WritingAligned
<1> QED
  BY <1>2, <1>3, <1>4, <1>5

ChildStep ==
  \/ EnsureDeployment \/ CreateService \/ CreateHTTPRoute \/ CheckRunning \/ EnsureService
  \/ EnsureHTTPRoute \/ DeleteDeployment \/ DeleteService \/ CleansRoutes

LEMMA ChildStepAligned ==
  ASSUME TypedIn(WorkSteps), Informed, ChildStep
  PROVE  UNCHANGED <<task, created, cache>> /\ Aligned'
<1>1. UNCHANGED <<task, created, cache>> /\ pc # "idle"
  BY RoutesCleaned
  DEF ChildStep, EnsureDeployment, CreateService, CreateHTTPRoute, CheckRunning,
      EnsureService, EnsureHTTPRoute, DeleteDeployment, DeleteService, RouteSteps,
      CheckDeployment, DropDeployment, EnsureServiceThen, EnsureRouteThen, storeVars
<1>2. obj \in TaskObjects /\ Known(Unseen, pc, obj)
  BY <1>1, Working DEF Informed, Knows, HandlerKnows
<1>3. CASE EnsureDeployment \/ CreateService \/ CreateHTTPRoute \/ CheckRunning
  <2>1. obj.phase # Unset
    BY <1>2, <1>3
    DEF EnsureDeployment, CreateService, CreateHTTPRoute, CheckRunning, Known, Unset
  <2>2. pc' = "idle" \/ (cur' = cur /\ objFresh' = objFresh /\ pc' \notin {"label", "start"})
    BY <1>3
    DEF EnsureDeployment, CreateService, CreateHTTPRoute, CheckRunning, CheckDeployment,
        CheckPods, WriteMessage, Verdict, AfterPods, CreateDeployment, EnsureServiceThen,
        EnsureRouteThen, Create, Conclude, ConcludeRunning, Continue, Retry, Return
  <2>3. Goes
    BY <2>1, <2>2 DEF Goes
  <2> QED
    BY <1>1, <2>3, WorkerAligned
<1>4. CASE \/ EnsureService \/ EnsureHTTPRoute
           \/ DeleteDeployment \/ DeleteService \/ CleansRoutes
  <2>1. [obj EXCEPT !.url = gateway].phase = obj.phase
    BY <1>2 DEF TaskObjects
  <2>2. \/ pc' = "idle"
        \/ /\ cur' = cur /\ objFresh' = objFresh /\ pc' \notin {"label", "start"}
           /\ obj' \in {obj, [obj EXCEPT !.url = gateway]}
    BY <1>4, RoutesCleaned
    DEF EnsureService, EnsureHTTPRoute, DeleteDeployment, DropDeployment, DeleteService,
        RouteSteps, EnsureServiceThen, EnsureRouteThen, Create, FinishOrPoll, Continue, Done,
        Retry, Return
  <2>3. Goes
    BY <2>1, <2>2 DEF Goes
  <2> QED
    BY <1>1, <2>3, WorkerAligned
<1> QED
  BY <1>1, <1>3, <1>4 DEF ChildStep

LEMMA EnvironmentAligned ==
  ASSUME TypedIn(WorkSteps), Informed, Environment
  PROVE  Aligned'
<1>1. ASSUME NEW t \in Tasks, NEW new, Overwrite(t, new),
             new.phase \in {task[t].phase, Unset}
      PROVE  CacheBehind' /\ StartEarly'
  <2>1. /\ UNCHANGED <<cache, cur, pc>> /\ task'[t].phase = new.phase
        /\ \A u \in Tasks \ {t} : task'[u] = task[u]
        /\ pc \in {"label", "start"} => cur \in Tasks
    BY <1>1 DEF Overwrite, TypedIn, StoreTypeOK, WorkerTypeOK
  <2> QED
    BY <1>1, <2>1 DEF Informed, Aligned, CacheBehind, StartEarly
<1>2. ASSUME NEW t \in Tasks
      PROVE  /\ Deleted(task[t]).phase \in {task[t].phase, Unset}
             /\ NewTask(created[t] + 1).phase = Unset
  <2>1. task[t] \in TaskObjects
    BY StoredTaskType
  <2> QED
    BY <2>1 DEF Deleted, Absent, NewTask, TaskObjects
<1>3. ASSUME NEW t \in Tasks, TTLExpires(t) \/ Users(t)
      PROVE  UNCHANGED cache /\ CacheBehind' /\ StartEarly'
  <2>1. CASE UNCHANGED <<task, cache, workerVars>>
    BY <2>1 DEF Informed, Aligned, CacheBehind, StartEarly, workerVars
  <2>2. \/ UNCHANGED <<task, cache, workerVars>>
        \/ Overwrite(t, Deleted(task[t])) \/ Overwrite(t, NewTask(created[t] + 1))
        \/ Overwrite(t, task[t])
    BY <1>3 DEF TTLExpires, Users, UserCreate, UserDelete, UserTouch
  <2>3. CASE \/ Overwrite(t, Deleted(task[t])) \/ Overwrite(t, NewTask(created[t] + 1))
             \/ Overwrite(t, task[t])
    BY <1>1, <1>2, <2>3 DEF Overwrite
  <2> QED
    BY <2>1, <2>2, <2>3
<1>4. ASSUME NEW t \in Tasks, SyncTaskObject(t)
      PROVE  Aligned'
  <2>1. /\ UNCHANGED <<task, workerVars>> /\ cache' = [cache EXCEPT ![t] = task[t]]
        /\ cache \in [Tasks -> TaskObjects] /\ (pc # "idle" => cur \in Tasks)
    BY <1>4 DEF SyncTaskObject, SyncTask, TypedIn, StoreTypeOK, WorkerTypeOK
  <2>2. CacheBehind'
    BY <2>1 DEF Informed, Aligned, CacheBehind
  <2>3. StartEarly'
    BY <2>1 DEF Informed, Aligned, StartEarly, workerVars
  <2>4. pc # "idle" /\ objFresh /\ obj.phase # Unset => task[cur].phase # Unset
    <3>1. pc # "idle" /\ objFresh => Matches(pc, obj, task[cur])
      BY DEF Informed, Knows, HandlerKnows
    <3>2. ASSUME pc = "status", <<task[cur].phase, obj.phase>> \in PhaseEdges
          PROVE  task[cur].phase # Unset
      BY <3>2 DEF PhaseEdges, Unset
    <3> QED
      BY <3>1, <3>2 DEF Matches
  <2>5. HandlerAhead'
    BY <2>1, <2>4 DEF Informed, Aligned, HandlerAhead, workerVars
  <2> QED
    BY <2>2, <2>3, <2>5 DEF Aligned
<1>5. CASE UNCHANGED <<task, cache, workerVars>>
  BY <1>5 DEF Informed, Aligned, CacheBehind, HandlerAhead, StartEarly, workerVars
<1>6. CASE Restart
  BY <1>6
  DEF Restart, RestartWorker, Informed, Aligned, CacheBehind, HandlerAhead, StartEarly, storeVars
<1>7. ASSUME UNCHANGED cache
      PROVE  HandlerAhead'
  BY <1>7, EnvironmentKeepsCopy DEF Informed, Aligned, HandlerAhead
<1>8. ASSUME NEW t \in Tasks,
             \/ SyncDeployment(t) \/ SyncService(t) \/ SyncRoute(t) \/ Resync(t) \/ Cluster(t)
      PROVE  UNCHANGED <<task, cache, workerVars>>
  BY <1>8
  DEF SyncDeployment, SyncService, SyncRoute, Notify, Resync, OtherEvent, Cluster,
      GarbageCollect, Interfere, ScaleToZero, PodChanges, ClusterChange, storeVars
<1>9. ASSUME NEW address \in URLs, GatewayMoves(address)
      PROVE  UNCHANGED <<task, cache, workerVars>>
  BY <1>9 DEF GatewayMoves, storeVars
<1> QED
  BY <1>3, <1>4, <1>5, <1>6, <1>7, <1>8, <1>9 DEF Environment, Informers, Aligned

LEMMA StepKnows ==
  ASSUME TypedIn(WorkSteps), GuardedExcept(Before), Informed, [Next]_vars
  PROVE  Informed'
<1>1. Knows(Unseen) /\ Early(Unseen)
  BY DEF Informed, Early, Unseen
<1>2. CASE UNCHANGED vars
  BY <1>2 DEF vars, controllerVars, storeVars, workerVars, Informed, Knows, HandlerKnows, Awake,
              Held, NoLostWakeup, Aligned, CacheBehind, HandlerAhead, StartEarly
<1>3. ASSUME ChildStep
      PROVE  Informed'
  <2>1. CASE CheckRunning \/ DeleteDeployment
    <3>1. Knows(Unseen)'
      BY <1>1, <2>1, CheckDeploymentKnows, DropDeploymentKnows DEF CheckRunning, DeleteDeployment
    <3> QED
      BY <1>3, <3>1, ChildStepAligned DEF Informed
  <2>2. CASE \/ EnsureDeployment \/ CreateService \/ CreateHTTPRoute \/ EnsureService
             \/ EnsureHTTPRoute \/ DeleteService \/ CleansRoutes
    <3>1. pc # "idle"
      BY <2>2, RoutesCleaned
      DEF EnsureDeployment, CreateService, CreateHTTPRoute, EnsureService, EnsureHTTPRoute,
          DeleteService, RouteSteps
    <3>2. Knows(Unseen)'
      BY <1>1, <2>2, <3>1, StepsAdvance, WatchingKnows
    <3> QED
      BY <1>3, <3>2, ChildStepAligned DEF Informed
  <2> QED
    BY <1>3, <2>1, <2>2 DEF ChildStep
<1>4. ASSUME UpdateStatus \/ UpdateURL \/ StampEndTime \/ RemoveFinalizer
      PROVE  Informed'
  <2>1. Knows(Unseen)'
    BY <1>1, <1>4, UpdateStatusKnows, UpdateURLKnows, StampEndTimeKnows, RemoveFinalizerKnows
  <2> QED
    BY <1>4, <2>1, WritesAligned DEF Informed
<1>5. CASE HandlerStep
  BY <1>3, <1>4, <1>5, AddFinalizerKnows, RecheckPhaseKnows, LabelTaskKnows, StartTaskKnows
  DEF HandlerStep, ChildStep, CleansRoutes
<1>6. CASE Environment
  BY <1>1, <1>6, EnvironmentKnows, EnvironmentAligned DEF Informed
<1> QED
  BY <1>2, <1>5, <1>6, ReconcileKnows DEF Next

LEMMA StepRefines ==
  ASSUME TypedIn(WorkSteps), GuardedExcept(Before), Informed, [Next]_vars
  PROVE  LifecycleStep
<1>1. Knows(Unseen) /\ {"endTime", "status", "removeFinalizer"} \cap Before = {}
  BY DEF Informed, Before
<1>2. CASE AddFinalizer
  BY <1>1, <1>2, FinalizerRefines DEF AddFinalizer, UpdateTask
<1>3. CASE LabelTask
  <2> DEFINE new == [cache[cur] EXCEPT !.label = TRUE]
  <2>1. /\ pc # "idle" /\ UNCHANGED created
        /\ UNCHANGED task \/ Accepted(cur \in fresh, new) \/ Failed(cur \in fresh, new)
    BY <1>3 DEF LabelTask, UpdateTask, storeVars
  <2>2. cur \in Tasks /\ cache[cur] \in TaskObjects /\ (cur \in fresh => cache[cur] = task[cur])
    BY <2>1, Working DEF GuardedExcept, CacheAgrees
  <2>3. cur \in fresh => SameLife(new, task[cur]) /\ new.phase = task[cur].phase
    BY <2>2 DEF SameLife, SameIdentity, TaskObjects
  <2> HIDE DEF new
  <2> QED
    BY <2>1, <2>3, StutterRefines, LifeStays
<1>4. CASE StartTask
  <2> DEFINE new == [cache[cur] EXCEPT !.phase = "creating"]
  <2>1. pc = "start" /\ UNCHANGED created
    BY <1>4 DEF StartTask, UpdateTask, RestampStart, storeVars
  <2>2. \/ UNCHANGED task
        \/ /\ Exists(cache[cur])
           /\ Accepted(cur \in fresh, new) \/ Failed(cur \in fresh, new)
    BY <1>4 DEF StartTask, UpdateTask, RestampStart, storeVars
  <2> HIDE DEF new
  <2>3. cur \in fresh => cache[cur].phase \in {Unset, "creating"}
    BY <2>1, Working DEF GuardedExcept, CacheAgrees, Informed, Aligned, StartEarly
  <2>4. CASE UNCHANGED task
    BY <2>1, <2>4, LifeStays
  <2>5. CASE /\ Exists(cache[cur])
             /\ Accepted(cur \in fresh, new) \/ Failed(cur \in fresh, new)
    BY <2>1, <2>3, <2>5, BeginRefines DEF new
  <2> QED
    BY <2>2, <2>4, <2>5
<1>5. CASE UpdateURL
  <2>1. /\ pc = "url" /\ UNCHANGED created
        /\ Accepted(objFresh, obj) \/ Failed(objFresh, obj)
    BY <1>5 DEF UpdateURL, UpdateTask
  <2>2. objFresh => SameLife(obj, task[cur]) /\ obj.phase = task[cur].phase
    BY <1>1, <2>1, LifeOfCopy DEF Matches, SameLife, SameIdentity
  <2> QED
    BY <2>1, <2>2, StutterRefines
<1>6. CASE StampEndTime
  BY <1>1, <1>6, StampRefines DEF StampEndTime, UpdateTask
<1>7. CASE UpdateStatus
  BY <1>1, <1>7, StatusRefines
<1>8. CASE RemoveFinalizer
  BY <1>1, <1>8, ReleaseRefines
<1>9. CASE ChildStep
  BY <1>9, ChildStepAligned, LifeStays
<1>10. CASE RecheckPhase
  BY <1>10, LifeStays DEF RecheckPhase, storeVars
<1>11. CASE Environment
  BY <1>11, EnvironmentRefines
<1>12. ASSUME NEW t \in Tasks, Reconcile(t)
       PROVE  LifecycleStep
  BY <1>12, LifeStays DEF Reconcile, Dispatch, storeVars
<1>13. CASE UNCHANGED vars
  BY <1>13, LifeStays DEF vars, controllerVars, storeVars
<1> QED
  BY <1>2, <1>3, <1>4, <1>5, <1>6, <1>7, <1>8, <1>9, <1>10, <1>11, <1>12, <1>13
  DEF Next, HandlerStep, ChildStep, CleansRoutes

LEMMA AlwaysInformed == Spec => []Informed
<1>1. Init => Informed
  <2>1. Init => Aligned
    BY DEF Init, ControllerInit, Aligned, CacheBehind, HandlerAhead, StartEarly, Absent, NewTask
  <2> QED
    BY <2>1, InitKnows DEF Informed
<1>2. TypeOK /\ Guarded /\ Informed /\ [Next]_vars => Informed'
  BY StepKnows DEF TypeOK, Guarded, Before
<1> QED
  BY <1>1, <1>2, TypeCorrect, GuardedAlways, PTL DEF Spec

\* A DevTask that needs its controller is in the worker's hands, in the queue,
\* or has an event to come, for any number of tasks, objects and failures.
\* handlePendingPhase returns nothing after a status update that may change
\* nothing (devtask_phases.go:36-78): the update that made it so has an event
\* of its own.
THEOREM DevTaskWakes == Spec => []NoLostWakeup
<1>1. Informed => NoLostWakeup
  BY DEF Informed, Knows
<1> QED
  BY <1>1, AlwaysInformed, PTL

\* The DevTask controller implements the lifecycle its users see, for any number
\* of tasks, objects and failures, although handlePendingPhase writes creating
\* over whatever phase the cache shows at its third read
\* (devtask_phases.go:64-72).
THEOREM DevTaskImplementsLifecycle == Spec => LifecycleSpec
<1>1. Init => Lifecycle!Init
  BY InitRefines
<1>2. TypeOK /\ Guarded /\ Informed /\ [Next]_vars => [Lifecycle!Next]_Lifecycle!lifecycleVars
  BY StepRefines DEF TypeOK, Guarded, Before, LifecycleStep, Lifecycle!lifecycleVars
<1>3. Spec => Lifecycle!Spec
  BY <1>1, <1>2, TypeCorrect, GuardedAlways, AlwaysInformed, PTL DEF Spec, Lifecycle!Spec
<1> QED
  BY <1>3 DEF LifecycleSpec

-----------------------------------------------------------------------------
(* Cleanup misses no child but a late one.                                 *)

LEMMA DeleteServiceSwept ==
  ASSUME TypedIn(WorkSteps), GuardedExcept(Before), Swept, DeleteService
  PROVE  Swept'
<1>1. /\ pc = "deleteService" /\ UNCHANGED <<deploy, deployCache, svcCache>>
      /\ UNCHANGED <<route, routeCache, routeFresh>>
      /\ \/ Retry
         \/ /\ Continue("releaseRoute", obj)
            /\ cur \notin svcCache \/ svc' = [svc EXCEPT ![cur] = 0]
  BY DEF DeleteService
<1>2. CASE Retry
  BY <1>1, <1>2, ElsewhereSwept
  DEF Retry, Return, AfterDeployment, AfterService, AfterRoute
<1>3. CASE Continue("releaseRoute", obj)
  <2>1. Sweeps /\ pc' \notin AfterRoute
    BY <1>1, <1>3 DEF Continue, Sweeps, AfterDeployment, AfterService, AfterRoute
  <2>2. cur \notin svcCache \/ svc' = [svc EXCEPT ![cur] = 0]
    BY <1>1, <1>3 DEF Continue, Retry, Return
  <2> QED
    BY <1>1, <2>1, <2>2, ServiceSwept
<1> QED
  BY <1>1, <1>2, <1>3

LEMMA RouteStepsSwept ==
  ASSUME TypedIn(WorkSteps), GuardedExcept(Before), Swept, CleansRoutes
  PROVE  Swept'
<1>1. /\ pc \in RouteSteps
      /\ UNCHANGED <<svc, routeCache, deploy, deployCache, svcCache>>
      /\ Retry \/ \E p \in RouteSteps \cup {"removeFinalizer"} : Continue(p, obj)
  BY RoutesCleaned
<1>2. CASE Retry
  <2>1. PICK r : StoreRoute(cur, r) \/ UNCHANGED <<route, routeFresh>>
    BY RoutesCleaned
  <2> QED
    BY <1>1, <1>2, <2>1, RouteWrittenSwept
    DEF StoreRoute, Retry, Return, RouteSteps, AfterDeployment, AfterService, AfterRoute
<1>3. CASE \E p \in RouteSteps \cup {"removeFinalizer"} : Continue(p, obj)
  <2>1. ~Retry
    BY <1>3 DEF Retry, Return, Continue, RouteSteps
  <2>2. PICK r : \/ StoreRoute(cur, r)
                 \/ /\ UNCHANGED <<route, routeFresh>>
                    /\ \/ pc \in AfterRoute
                       \/ pc' \notin AfterRoute
                       \/ routeCache[cur] = "absent"
                       \/ route[cur] = NoRoute
    <3>1. CASE ReleaseRoute
      BY <2>1, <3>1 DEF ReleaseRoute, ReleaseThen, Continue, AfterRoute
    <3>2. CASE DeleteRoute
      BY <2>1, <3>2 DEF DeleteRoute, DropRouteThen
    <3>3. CASE ReleaseListed \/ SkipListed \/ DeleteListed
      <4>1. pc \in AfterRoute
        BY <3>3 DEF ReleaseListed, SkipListed, DeleteListed, AfterRoute
      <4> QED
        BY <4>1, RoutesCleaned
    <3> QED
      BY <3>1, <3>2, <3>3 DEF CleansRoutes
  <2>3. Sweeps /\ pc' \in AfterService
    <3>1. pc' # "releaseRoute" \/ pc' \in AfterService
      BY DEF AfterService
    <3> QED
      BY <1>1, <1>3, <3>1
      DEF Continue, Sweeps, RouteSteps, AfterDeployment, AfterService, AfterRoute
  <2> QED
    BY <1>1, <2>2, <2>3, RouteSwept DEF RouteSteps
<1> QED
  BY <1>1, <1>2, <1>3

\* Every other handler step leaves cleanup alone, but may create the route.
LEMMA OtherStepsSwept ==
  ASSUME TypedIn(WorkSteps), Swept,
         \/ AddFinalizer \/ RecheckPhase \/ LabelTask \/ StartTask \/ EnsureDeployment
         \/ CreateService \/ CreateHTTPRoute \/ UpdateStatus \/ CheckRunning
         \/ EnsureService \/ EnsureHTTPRoute \/ UpdateURL \/ StampEndTime
         \/ RemoveFinalizer
  PROVE  Swept'
<1>1. pc' \notin AfterDeployment
  <2>1. \A o : PhaseStep(o) \notin AfterDeployment
    BY DEF PhaseStep, AfterDeployment, AfterService, AfterRoute
  <2> QED
    BY <2>1
    DEF AddFinalizer, RecheckPhase, LabelTask, StartTask, RestampStart, EnsureDeployment,
        CreateService, CreateHTTPRoute, UpdateStatus, CheckRunning, EnsureService,
        EnsureHTTPRoute, UpdateURL, StampEndTime, RemoveFinalizer, UpdateTask,
        CheckDeployment, CheckPods, WriteMessage, Verdict, AfterPods, Conclude,
        ConcludeRunning, CreateDeployment, EnsureServiceThen, EnsureRouteThen, Create,
        FinishOrPoll, Continue, Done, Retry, Return, AfterDeployment, AfterService, AfterRoute
<1>2. CASE CreateHTTPRoute \/ EnsureHTTPRoute
  <2>1. /\ pc # "idle" /\ UNCHANGED routeCache
        /\ \/ UNCHANGED <<route, routeFresh>>
           \/ /\ route' = [route EXCEPT ![cur] = NewRoute(TRUE)]
              /\ routeFresh' = routeFresh \ {cur}
    BY <1>2 DEF CreateHTTPRoute, EnsureHTTPRoute, EnsureRouteThen, Create, NewRoute
  <2> QED
    BY <1>1, <2>1, RouteWrittenSwept
<1>3. CASE ~(CreateHTTPRoute \/ EnsureHTTPRoute)
  <2>1. UNCHANGED <<route, routeCache, routeFresh>>
    BY <1>3
    DEF AddFinalizer, RecheckPhase, LabelTask, StartTask, EnsureDeployment, CreateService,
        UpdateStatus, CheckRunning, CheckDeployment, EnsureService, EnsureServiceThen,
        UpdateURL, StampEndTime, RemoveFinalizer, childVars
  <2> QED
    BY <1>1, <2>1, ElsewhereSwept
<1> QED
  BY <1>2, <1>3

LEMMA StepSwept ==
  ASSUME TypedIn(WorkSteps), GuardedExcept(Before), Swept, [Next]_vars
  PROVE  Swept'
<1>1. CASE DeleteDeployment
  BY <1>1, DropDeploymentSwept DEF DeleteDeployment
<1>2. ASSUME NEW t \in Tasks, Reconcile(t)
      PROVE  Swept'
  <2>1. EntryStep(cache[t]) \notin AfterDeployment
    BY DEF EntryStep, PhaseStep, AfterDeployment, AfterService, AfterRoute
  <2>2. pc' \notin AfterDeployment /\ UNCHANGED <<route, routeCache, routeFresh>>
    BY <1>2, <2>1
    DEF Reconcile, Dispatch, workerVars, childVars, AfterDeployment, AfterService, AfterRoute
  <2> QED
    BY <2>2, ElsewhereSwept
<1>3. CASE HandlerStep
  BY <1>1, <1>3, OtherStepsSwept, DeleteServiceSwept, RouteStepsSwept
  DEF HandlerStep, CleansRoutes
<1> QED
  BY <1>2, <1>3, EnvironmentSwept, UnchangedSwept DEF Next

\* When cleanup removes the finalizer, a child of the task that is still there is
\* one the cache showed too late, and the task has been queued or will be
\* (devtask_controller.go:83, devtask_phases.go:290, devtask/route_builder.go:179).
\* It holds because no event reaches a cache without queueing the task, the
\* worker takes no key while it works, and CleanupHTTPRoute's writes leave
\* the cached route outdated.  Its second pass adds nothing for the task's own
\* route, so that the error of List it swallows (:197) loses nothing here.
THEOREM DevTaskSweeps == Spec => []CleanupMissesOnlyLateChildren
<1>1. Init => Swept
  BY InitSwept
<1>2. TypeOK /\ Guarded /\ Swept /\ [Next]_vars => Swept'
  BY StepSwept DEF TypeOK, Guarded, Before
<1>3. TypeOK /\ Guarded /\ Swept => CleanupMissesOnlyLateChildren
  BY SweptMissesOnlyLate DEF TypeOK, Guarded
<1> QED
  BY <1>1, <1>2, <1>3, TypeCorrect, GuardedAlways, PTL DEF Spec

-----------------------------------------------------------------------------
(* A task fails for a cause.                                               *)

\* The tasks whose handler may see a pod fail.
Prone == {t \in Tasks : \E u \in Fragile : Framework[u] = Framework[t]}

LEMMA WritesEndNothing ==
  ASSUME TypedIn(WorkSteps), GuardedExcept(Before), Informed,
         \/ AddFinalizer \/ LabelTask \/ StartTask \/ UpdateURL \/ StampEndTime
         \/ RemoveFinalizer
  PROVE  EndsNothing
<1>1. /\ pc \notin {"idle", "status"} /\ obj \in TaskObjects /\ cache[cur] \in TaskObjects
      /\ objFresh => obj.phase = task[cur].phase
      /\ cur \in fresh => cache[cur] = task[cur]
  BY Working
  DEF AddFinalizer, LabelTask, StartTask, UpdateURL, StampEndTime, RemoveFinalizer, Informed,
      Knows, HandlerKnows, Matches, GuardedExcept, CacheAgrees
<1>2. UNCHANGED task => EndsNothing
  BY DEF EndsNothing
<1>3. ASSUME NEW f, NEW new, Accepted(f, new) \/ Failed(f, new),
             f => new.phase \in {task[cur].phase, Unset, "creating"}
      PROVE  EndsNothing
  BY <1>1, <1>3, WriteEndsNothing
<1>4. /\ [obj EXCEPT !.fin = TRUE].phase = obj.phase
      /\ [obj EXCEPT !.end = TRUE].phase = obj.phase
      /\ [cache[cur] EXCEPT !.label = TRUE].phase = cache[cur].phase
      /\ [cache[cur] EXCEPT !.phase = "creating"].phase = "creating"
      /\ Absent.phase = Unset
  BY <1>1 DEF TaskObjects, Absent, NewTask
<1>5. CASE AddFinalizer
  BY <1>1, <1>3, <1>4, <1>5 DEF AddFinalizer, UpdateTask
<1>6. CASE LabelTask
  BY <1>1, <1>2, <1>3, <1>4, <1>6 DEF LabelTask, UpdateTask, storeVars
<1>7. CASE StartTask
  BY <1>2, <1>3, <1>4, <1>7 DEF StartTask, RestampStart, UpdateTask, storeVars
<1>8. CASE UpdateURL \/ StampEndTime \/ RemoveFinalizer
  BY <1>1, <1>3, <1>4, <1>8 DEF UpdateURL, StampEndTime, RemoveFinalizer, UpdateTask
<1> QED
  BY <1>5, <1>6, <1>7, <1>8

\* Only UpdateStatus ends a task.
LEMMA EndsByUpdate ==
  ASSUME TypedIn(WorkSteps), GuardedExcept(Before), Informed, [Next]_vars,
         NEW t \in Tasks, task[t].phase # "failed", task'[t].phase = "failed"
  PROVE  pc = "status" /\ objFresh /\ cur = t /\ obj.phase = "failed"
<1>1. ~EndsNothing
  BY DEF EndsNothing, Unset
<1>2. UNCHANGED task => EndsNothing
  BY DEF EndsNothing
<1>3. CASE UpdateStatus
  BY <1>3, UpdateStatusEnds
<1>4. CASE HandlerStep /\ ~UpdateStatus
  BY <1>1, <1>2, <1>4, WritesEndNothing, ChildStepAligned
  DEF HandlerStep, ChildStep, CleansRoutes, RecheckPhase, storeVars
<1>5. CASE UNCHANGED vars
  BY <1>1, <1>2, <1>5 DEF vars, controllerVars, storeVars
<1>6. ASSUME NEW u \in Tasks, Reconcile(u)
      PROVE  UNCHANGED task
  BY <1>6 DEF Reconcile, Dispatch, storeVars
<1> QED
  BY <1>1, <1>2, <1>3, <1>4, <1>5, <1>6, EnvironmentEndsNothing DEF Next

\* The steps that conclude nothing, or that the task runs.
LEMMA OtherStepsCaused ==
  ASSUME TypedIn(WorkSteps), HandlerStep, ~EnsureDeployment, ~CheckRunning
  PROVE  FailureCaused(Prone)'
<1>1. pc # "idle" /\ UNCHANGED pods
  BY RoutesCleaned
  DEF HandlerStep, AddFinalizer, RecheckPhase, LabelTask, StartTask, CreateService,
      CreateHTTPRoute, UpdateStatus, EnsureService, EnsureHTTPRoute, UpdateURL, StampEndTime,
      DeleteDeployment, DropDeployment, DeleteService, CleansRoutes, RouteSteps,
      RemoveFinalizer, EnsureServiceThen, EnsureRouteThen
<1>2. \A o : PhaseStep(o) # "status"
  BY DEF PhaseStep
<1>3. pc' # "status" \/ ConcludeRunning
  BY <1>2, RoutesCleaned
  DEF HandlerStep, AddFinalizer, RecheckPhase, LabelTask, StartTask, RestampStart, CreateService,
      CreateHTTPRoute, UpdateStatus, EnsureService, EnsureHTTPRoute, UpdateURL, StampEndTime,
      DeleteDeployment, DropDeployment, DeleteService, CleansRoutes, RouteSteps,
      RemoveFinalizer, UpdateTask, EnsureServiceThen, EnsureRouteThen, Create, FinishOrPoll,
      Continue, Done, Retry, Return
<1>4. ASSUME ConcludeRunning
      PROVE  obj'.phase = "running"
  <2>1. PICK url \in URLs \cup {NoURL} :
          Continue("status", [WithPhase("running") EXCEPT !.url = url])
    BY <1>1, <1>4, Announced
  <2>2. [WithPhase("running") EXCEPT !.url = url].phase = "running"
    BY <1>1, Working DEF WithPhase, TaskObjects
  <2> QED
    BY <2>1, <2>2 DEF Continue
<1> QED
  BY <1>3, <1>4 DEF FailureCaused

LEMMA StepCaused ==
  ASSUME TypedIn(WorkSteps), GuardedExcept(Before), Informed, PodsFragile,
         FailureCaused(Prone), [Next]_vars
  PROVE  PodsFragile' /\ FailureCaused(Prone)'
<1>1. Knows(Unseen)
  BY DEF Informed
<1>2. ASSUME EnsureDeployment
      PROVE  FailureCaused(Prone)'
  <2>1. /\ pc = "creating" /\ UNCHANGED <<task, created>>
        /\ \/ Continue("createService", obj)
           \/ CreateDeployment(FALSE, Continue("createService", obj), Conclude("failed"))
    BY <1>2 DEF EnsureDeployment, storeVars
  <2>2. Continue("createService", obj) => FailureCaused(Prone)'
    BY DEF Continue, FailureCaused
  <2> QED
    BY <1>1, <2>1, <2>2, RefusedCaused
<1>3. ASSUME CheckRunning
      PROVE  FailureCaused(Prone)'
  <2>1. cur \in Tasks
    BY <1>3, Working DEF CheckRunning
  <2>2. ListedPods \cap FailedPods # {} => cur \in Prone
    BY <2>1 DEF ListedPods, PodsFragile, Prone
  <2> QED
    BY <1>1, <1>3, <2>2, CheckDeploymentCaused DEF CheckRunning
<1>4. HandlerStep => UNCHANGED pods
  BY RoutesCleaned
  DEF HandlerStep, AddFinalizer, RecheckPhase, LabelTask, StartTask, EnsureDeployment,
      CreateService, CreateHTTPRoute, UpdateStatus, CheckRunning, CheckDeployment,
      EnsureService, EnsureHTTPRoute, UpdateURL, StampEndTime, DeleteDeployment,
      DropDeployment, DeleteService, CleansRoutes, RemoveFinalizer, EnsureServiceThen,
      EnsureRouteThen
<1>5. CASE HandlerStep
  BY <1>2, <1>3, <1>4, <1>5, OtherStepsCaused DEF PodsFragile
<1>6. CASE Environment
  BY <1>6, EnvironmentCaused, EnvironmentFragile
<1>7. ASSUME NEW t \in Tasks, Reconcile(t)
      PROVE  PodsFragile' /\ FailureCaused(Prone)'
  <2>1. EntryStep(cache[t]) # "status"
    BY DEF EntryStep, PhaseStep
  <2>2. pc' # "status" /\ UNCHANGED pods
    BY <1>7, <2>1 DEF Reconcile, Dispatch, workerVars
  <2> QED
    BY <2>2 DEF FailureCaused, PodsFragile
<1>8. CASE UNCHANGED vars
  BY <1>8
  DEF vars, controllerVars, storeVars, workerVars, childVars, FailureCaused, FailureCause,
      PodsFragile
<1> QED
  BY <1>5, <1>6, <1>7, <1>8 DEF Next

\* A DevTask fails only for a cause, for any number of tasks, frameworks and
\* failures: the cause is there when a handler concludes that its task fails
\* (devtask_phases.go:106-110, 187-205), and still when Status().Update stores
\* it, unless the copy has become outdated and the update is a conflict.
THEOREM DevTaskFailsForACause == Spec => FailureHasACause
<1>1. Init => PodsFragile /\ FailureCaused(Prone)
  BY DEF Init, ControllerInit, PodsFragile, FailureCaused, FailedPods
<1>2. /\ TypeOK /\ Guarded /\ Informed /\ PodsFragile /\ FailureCaused(Prone)
      /\ [Next]_vars
      => PodsFragile' /\ FailureCaused(Prone)'
  BY StepCaused DEF TypeOK, Guarded, Before
<1>3. ASSUME TypedIn(WorkSteps), GuardedExcept(Before), Informed, FailureCaused(Prone),
             [Next]_vars,
             NEW t \in Tasks, task[t].phase # "failed", task'[t].phase = "failed"
      PROVE  \/ /\ task[t].phase = "running"
                /\ \E u \in Fragile : Framework[u] = Framework[t]
             \/ /\ task[t].phase = "creating"
                /\ budget < MaxDisturbances \/ deploy[t] # NoDeploy \/ created[t] > 1
  BY <1>3, EndsByUpdate DEF FailureCaused, FailureCause, Prone
<1>4. TypeOK /\ Guarded /\ Informed /\ FailureCaused(Prone) /\ [Next]_vars
      => [\A t \in Tasks :
            task[t].phase # "failed" /\ task'[t].phase = "failed" =>
              \/ /\ task[t].phase = "running"
                 /\ \E u \in Fragile : Framework[u] = Framework[t]
              \/ /\ task[t].phase = "creating"
                 /\ budget < MaxDisturbances \/ deploy[t] # NoDeploy \/ created[t] > 1]_vars
  BY <1>3 DEF TypeOK, Guarded, Before
<1> QED
  BY <1>1, <1>2, <1>4, TypeCorrect, GuardedAlways, AlwaysInformed, PTL DEF Spec, FailureHasACause
=============================================================================
