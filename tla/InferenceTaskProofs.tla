------------------------ MODULE InferenceTaskProofs --------------------------
(***************************************************************************)
(* Theorems about the InferenceTask controller: its variables keep their   *)
(* types, the finalizer guards the children, no wake-up is lost, it        *)
(* implements TaskLifecycle, cleanup misses no child but a late one, and   *)
(* no task ends without a cause.  What it shares with DevTask is proved in *)
(* DeployedTaskProofs.                                                     *)
(***************************************************************************)
EXTENDS InferenceTask, DeployedTaskProofs

\* The steps before the task has its label and its finalizer.
Before == {"label", "addFinalizer"}

-----------------------------------------------------------------------------
(* Types.                                                                  *)

\* Reconcile's dispatch selects a step of the handlers, or nothing.
LEMMA StepTypes ==
  ASSUME NEW o \in TaskObjects
  PROVE  EntryStep(o) \in WorkSteps \cup {"idle"}
<1>1. PhaseStep(o) \in WorkSteps
  BY DEF PhaseStep, WorkSteps
<1> QED
  BY <1>1 DEF EntryStep, WorkSteps, TaskObjects

\* The copy that announces the running task has some URL, or none.
LEMMA Announced ==
  ASSUME TypedIn(WorkSteps), pc # "idle", ConcludeRunning
  PROVE  \E url \in URLs \cup {NoURL} :
            Continue("status", [WithPhase("running") EXCEPT !.url = url])
<1> DEFINE r == WithPhase("running")
<1> DEFINE url == IF cur \in Routed /\ r.url = NoURL THEN gateway ELSE r.url
<1>1. obj \in TaskObjects /\ gateway \in URLs
  BY Working DEF TypedIn, ClusterTypeOK
<1>2. r \in TaskObjects
  BY <1>1, FieldTypes DEF WithPhase, Phases
<1>3. url \in URLs \cup {NoURL}
  BY <1>1, <1>2 DEF TaskObjects
<1>4. Continue("status", [r EXCEPT !.url = url])
  BY DEF ConcludeRunning
<1> QED
  BY <1>3, <1>4

LEMMA AnnouncedMoves ==
  ASSUME TypedIn(WorkSteps), pc # "idle", ConcludeRunning
  PROVE  WorkerMoves(WorkSteps)
<1>1. PICK url \in URLs \cup {NoURL} :
        Continue("status", [WithPhase("running") EXCEPT !.url = url])
  BY Announced
<1>2. [WithPhase("running") EXCEPT !.url = url] \in TaskObjects
  BY RunningType
<1> QED
  BY <1>1, <1>2 DEF WorkerMoves, WorkSteps

LEMMA ReconcileType ==
  ASSUME TypedIn(WorkSteps), NEW t \in Tasks, Reconcile(t)
  PROVE  TypedIn(WorkSteps)'
<1>1. EntryStep(cache[t]) \in WorkSteps \cup {"idle"}
  BY StepTypes DEF TypedIn, StoreTypeOK
<1> QED
  BY <1>1, DispatchType DEF Reconcile

LEMMA FirstUpdateType ==
  ASSUME TypedIn(WorkSteps), LabelTask \/ AddFinalizer
  PROVE  TypedIn(WorkSteps)'
<1>1. /\ cur \in Tasks
      /\ [obj EXCEPT !.label = TRUE] \in TaskObjects
      /\ [obj EXCEPT !.fin = TRUE] \in TaskObjects
  BY Working, FieldTypes DEF LabelTask, AddFinalizer
<1>2. CASE LabelTask
  BY <1>1, <1>2, UpdateType DEF LabelTask, UpdateTask, WorkerMoves
<1>3. CASE AddFinalizer
  BY <1>1, <1>3, UpdateType DEF AddFinalizer, UpdateTask, WorkerMoves
<1> QED
  BY <1>2, <1>3

LEMMA StartTaskType ==
  ASSUME TypedIn(WorkSteps), StartTask
  PROVE  TypedIn(WorkSteps)'
<1> DEFINE o == [cache[cur] EXCEPT !.phase = "creating"]
<1>1. cur \in Tasks /\ o \in TaskObjects
  BY Working, FieldTypes DEF StartTask, Phases
<1> HIDE DEF o
<1>2. UNCHANGED <<childVars, pods, timers, gateway>>
  BY DEF StartTask
<1>3. CASE /\ Accepted(cur \in fresh, o) \/ Failed(cur \in fresh, o)
           /\ Done \/ Retry
           /\ UNCHANGED <<created, cache>>
  BY <1>1, <1>2, <1>3, UpdateType DEF WorkerMoves
<1>4. CASE (Done \/ Retry) /\ UNCHANGED <<storeVars, budget>>
  BY <1>1, <1>2, <1>4, WorkerMovesType, ChildrenUnchangedType, StoreUnchangedType
  DEF TypedIn, WorkerMoves
<1> QED
  BY <1>3, <1>4 DEF StartTask, UpdateTask, o

LEMMA StampEndTimeType ==
  ASSUME TypedIn(WorkSteps), StampEndTime
  PROVE  TypedIn(WorkSteps)'
<1> DEFINE o == [obj EXCEPT !.end = TRUE]
<1>1. cur \in Tasks /\ o \in TaskObjects
  BY Working, FieldTypes DEF StampEndTime
<1> HIDE DEF o
<1>2. /\ Accepted(objFresh, o) \/ Failed(objFresh, o)
      /\ Continue("finish", o) \/ Retry
      /\ UNCHANGED <<created, cache, childVars, pods, timers, gateway>>
  BY DEF StampEndTime, UpdateTask, o
<1> QED
  BY <1>1, <1>2, UpdateType DEF WorkerMoves, WorkSteps

LEMMA EnsureDeploymentType ==
  ASSUME TypedIn(WorkSteps), EnsureDeployment
  PROVE  TypedIn(WorkSteps)'
<1>1. pc # "idle" /\ cur \in Tasks
  BY Working DEF EnsureDeployment
<1>2. Continue("createService", obj) \/ Conclude("failed")
  BY DEF EnsureDeployment, CreateDeployment, Create
<1>3. WorkerMoves(WorkSteps)
  BY <1>1, <1>2, Moves DEF WorkSteps, Phases, Terminal
<1>4. Zero \in BOOLEAN
  BY DEF Zero
<1>5. /\ \/ UNCHANGED deploy
         \/ deploy' = [deploy EXCEPT ![cur] = [owner |-> obj.uid, zero |-> Zero]]
      /\ UNCHANGED <<svc, route, routeFresh, timers>>
  BY DEF EnsureDeployment, CreateDeployment, Create
<1>6. ChildrenTypeOK'
  BY <1>1, <1>4, <1>5, CreateDeploymentType
<1>7. /\ UNCHANGED <<task, created, cache, deployCache, svcCache, routeCache, pods, gateway>>
      /\ fresh' \subseteq Tasks
      /\ UNCHANGED budget \/ Disturb
  BY DEF EnsureDeployment, CreateDeployment, Create, storeVars, TypedIn, StoreTypeOK
<1> QED
  BY <1>1, <1>3, <1>6, <1>7, ChildType

LEMMA ServiceStepType ==
  ASSUME TypedIn(WorkSteps), CreateService \/ EnsureService
  PROVE  TypedIn(WorkSteps)'
<1>1. pc # "idle" /\ cur \in Tasks
  BY Working DEF CreateService, EnsureService
<1>2. \/ Continue("createRoute", obj) \/ Continue("ensureRoute", obj)
      \/ ConcludeRunning \/ Retry
  BY DEF CreateService, EnsureService, EnsureServiceThen, Create
<1>3. WorkerMoves(WorkSteps)
  BY <1>1, <1>2, Moves, AnnouncedMoves DEF WorkSteps, Phases
<1>4. timers' \in [Tasks -> SUBSET (0..MaxIncarnations)]
  BY DEF CreateService, EnsureService, TypedIn, ClusterTypeOK
<1>5. ChildrenTypeOK'
  BY <1>1, <1>4, ServiceWriteType DEF CreateService, EnsureService, EnsureServiceThen, Create
<1>6. /\ UNCHANGED <<task, created, cache, deployCache, svcCache, routeCache, pods, gateway>>
      /\ fresh' \subseteq Tasks
      /\ UNCHANGED budget \/ Disturb
  BY DEF CreateService, EnsureService, EnsureServiceThen, Create, storeVars,
         TypedIn, StoreTypeOK
<1> QED
  BY <1>1, <1>3, <1>5, <1>6, ChildType

LEMMA RouteStepType ==
  ASSUME TypedIn(WorkSteps), CreateHTTPRoute \/ EnsureHTTPRoute
  PROVE  TypedIn(WorkSteps)'
<1>1. pc # "idle" /\ cur \in Tasks
  BY Working DEF CreateHTTPRoute, EnsureHTTPRoute
<1>2. RouteType(NewRoute(FALSE))
  BY <1>1, NewRouteType
<1>3. ConcludeRunning \/ Retry
  BY DEF CreateHTTPRoute, EnsureHTTPRoute, EnsureRouteThen, Create
<1>4. WorkerMoves(WorkSteps)
  BY <1>1, <1>3, AnnouncedMoves DEF WorkerMoves
<1>5. timers' \in [Tasks -> SUBSET (0..MaxIncarnations)]
  BY DEF CreateHTTPRoute, EnsureHTTPRoute, TypedIn, ClusterTypeOK
<1>6. /\ \/ UNCHANGED <<route, routeFresh>>
         \/ /\ route' = [route EXCEPT ![cur] = NewRoute(FALSE)]
            /\ routeFresh' = routeFresh \ {cur}
      /\ UNCHANGED <<deploy, svc>>
  BY DEF CreateHTTPRoute, EnsureHTTPRoute, EnsureRouteThen, Create, NewRoute
<1>7. ChildrenTypeOK'
  BY <1>1, <1>2, <1>5, <1>6, RouteWriteType
<1>8. /\ UNCHANGED <<task, created, cache, deployCache, svcCache, routeCache, pods, gateway>>
      /\ fresh' \subseteq Tasks
      /\ UNCHANGED budget \/ Disturb
  BY DEF CreateHTTPRoute, EnsureHTTPRoute, EnsureRouteThen, Create, storeVars,
         TypedIn, StoreTypeOK
<1> QED
  BY <1>1, <1>4, <1>7, <1>8, ChildType

LEMMA CheckRunningType ==
  ASSUME TypedIn(WorkSteps), CheckRunning
  PROVE  TypedIn(WorkSteps)'
<1>1. Zero \in BOOLEAN /\ {"status", "ensureService"} \subseteq WorkSteps
  BY DEF Zero, WorkSteps
<1> QED
  BY <1>1, CheckDeploymentType DEF CheckRunning

LEMMA FinishType ==
  ASSUME TypedIn(WorkSteps), Finish
  PROVE  TypedIn(WorkSteps)'
<1>1. pc # "idle" /\ cur \in Tasks /\ StartTimer
  BY Working DEF Finish
<1>2. timers' \in [Tasks -> SUBSET (0..MaxIncarnations)]
  BY <1>1, StartTimerType
<1>3. /\ UNCHANGED <<storeVars, budget, childVars, pods, gateway>>
      /\ WorkerMoves(WorkSteps)
  BY DEF Finish, WorkerMoves
<1>4. ClusterTypeOK'
  BY <1>2, <1>3 DEF TypedIn, ClusterTypeOK, childVars
<1> QED
  BY <1>1, <1>3, <1>4, WorkerMovesType, StoreUnchangedType DEF TypedIn

LEMMA DeleteDeploymentType ==
  ASSUME TypedIn(WorkSteps), DeleteDeployment
  PROVE  TypedIn(WorkSteps)'
  BY DropDeploymentType DEF DeleteDeployment, WorkSteps

LEMMA DeleteServiceType ==
  ASSUME TypedIn(WorkSteps), DeleteService
  PROVE  TypedIn(WorkSteps)'
<1>1. pc # "idle" /\ cur \in Tasks
  BY Working DEF DeleteService
<1>2. Continue("deleteRoute", obj) \/ Retry
  BY DEF DeleteService
<1>3. WorkerMoves(WorkSteps)
  BY <1>1, <1>2, Moves DEF WorkSteps, Phases
<1>4. timers' \in [Tasks -> SUBSET (0..MaxIncarnations)]
  BY DEF DeleteService, TypedIn, ClusterTypeOK
<1>5. ChildrenTypeOK'
  BY <1>1, <1>4, ServiceWriteType DEF DeleteService
<1>6. /\ UNCHANGED <<task, created, cache, deployCache, svcCache, routeCache, pods, gateway>>
      /\ fresh' \subseteq Tasks
      /\ UNCHANGED budget \/ Disturb
  BY DEF DeleteService, storeVars, TypedIn, StoreTypeOK
<1> QED
  BY <1>1, <1>3, <1>5, <1>6, ChildType

LEMMA DeleteRouteType ==
  ASSUME TypedIn(WorkSteps), DeleteRoute
  PROVE  TypedIn(WorkSteps)'
<1>1. pc # "idle" /\ cur \in Tasks
  BY Working DEF DeleteRoute
<1>2. RouteType(RouteDeleted(route[cur]))
  BY <1>1, StoredRouteTypes
<1>3. Continue("removeFinalizer", obj) \/ Retry
  BY DEF DeleteRoute
<1>4. WorkerMoves(WorkSteps)
  BY <1>1, <1>3, Moves DEF WorkSteps, Phases
<1>5. \/ UNCHANGED <<route, routeFresh>>
      \/ /\ route' = [route EXCEPT ![cur] = RouteDeleted(route[cur])]
         /\ routeFresh' = routeFresh \ {cur}
  BY DEF DeleteRoute, StoreRoute
<1>6. timers' \in [Tasks -> SUBSET (0..MaxIncarnations)] /\ UNCHANGED <<deploy, svc>>
  BY DEF DeleteRoute, TypedIn, ClusterTypeOK
<1>7. ChildrenTypeOK'
  BY <1>1, <1>2, <1>5, <1>6, RouteWriteType
<1>8. /\ UNCHANGED <<task, created, cache, deployCache, svcCache, routeCache, pods, gateway>>
      /\ fresh' \subseteq Tasks
      /\ UNCHANGED budget \/ Disturb
  BY DEF DeleteRoute, storeVars, TypedIn, StoreTypeOK
<1> QED
  BY <1>1, <1>4, <1>7, <1>8, ChildType

LEMMA StepType == TypedIn(WorkSteps) /\ [Next]_vars => TypedIn(WorkSteps)'
<1> SUFFICES ASSUME TypedIn(WorkSteps), [Next]_vars PROVE TypedIn(WorkSteps)'
  OBVIOUS
<1>1. CASE HandlerStep
  BY <1>1, FirstUpdateType, StartTaskType, EnsureDeploymentType, ServiceStepType,
     RouteStepType, UpdateStatusType, CheckRunningType, StampEndTimeType, FinishType,
     DeleteDeploymentType, DeleteServiceType, DeleteRouteType, RemoveFinalizerType
  DEF HandlerStep
<1>2. CASE Next /\ ~HandlerStep
  BY <1>2, EnvironmentType, ReconcileType DEF Next
<1> QED
  BY <1>1, <1>2, UnchangedType

\* Every variable keeps its type, and the worker holds a task exactly while it
\* works on one (inferencetask_controller.go:51-115), for any number of tasks,
\* incarnations and disturbances.
THEOREM InferenceTaskTyped == Spec => []TypeOK
<1>1. Init => TypeOK
  BY InitType DEF TypeOK
<1>2. TypeOK /\ [Next]_vars => TypeOK'
  BY StepType DEF TypeOK
<1> QED
  BY <1>1, <1>2, PTL DEF Spec

-----------------------------------------------------------------------------
(* The finalizer guards the children.                                      *)

LEMMA ReconcileGuarded ==
  ASSUME TypedIn(WorkSteps), GuardedExcept(Before), NEW t \in Tasks, Reconcile(t)
  PROVE  GuardedExcept(Before)'
<1> DEFINE o == cache[t]
<1>1. o \in TaskObjects
  BY DEF TypedIn, StoreTypeOK
<1> HIDE DEF o
<1>2. EntryStep(o) # "idle" => Exists(o) /\ (EntryStep(o) \in Before \/ o.fin)
  BY <1>1 DEF EntryStep, Before, TaskObjects
<1>3. Dispatch(t, EntryStep(cache[t])) /\ UNCHANGED childVars
  BY DEF Reconcile
<1> QED
  BY <1>2, <1>3, DispatchGuarded DEF o

LEMMA FirstUpdateGuarded ==
  ASSUME TypedIn(WorkSteps), GuardedExcept(Before), LabelTask \/ AddFinalizer
  PROVE  GuardedExcept(Before)'
<1>1. /\ pc # "idle" /\ cur \in Tasks /\ obj \in TaskObjects
      /\ [obj EXCEPT !.label = TRUE] \in TaskObjects
      /\ [obj EXCEPT !.fin = TRUE] \in TaskObjects
  BY Working, FieldTypes DEF LabelTask, AddFinalizer
<1>2. objFresh => SameIdentity(obj, task[cur])
  BY <1>1, CopyAgrees
<1>3. objFresh => /\ Harmless(task[cur], [obj EXCEPT !.label = TRUE])
                  /\ Harmless(task[cur], [obj EXCEPT !.fin = TRUE])
  BY <1>1, <1>2 DEF SameIdentity, Harmless, TaskObjects
<1>4. HandlerAgrees(Before)'
  BY ReturnAgrees DEF LabelTask, AddFinalizer, UpdateTask
<1>5. CASE LabelTask
  BY <1>1, <1>3, <1>4, <1>5, UpdateGuarded DEF LabelTask, UpdateTask
<1>6. CASE AddFinalizer
  BY <1>1, <1>3, <1>4, <1>6, UpdateGuarded DEF AddFinalizer, UpdateTask
<1> QED
  BY <1>5, <1>6

LEMMA StartTaskGuarded ==
  ASSUME TypedIn(WorkSteps), GuardedExcept(Before), StartTask
  PROVE  GuardedExcept(Before)'
<1> DEFINE o == [cache[cur] EXCEPT !.phase = "creating"]
<1>1. /\ cur \in Tasks /\ o \in TaskObjects
      /\ SameIdentity(o, cache[cur])
  BY Working, FieldTypes DEF StartTask, TaskObjects, SameIdentity, Phases
<1> HIDE DEF o
<1>2. cur \in fresh => Harmless(task[cur], o)
  BY <1>1 DEF GuardedExcept, CacheAgrees, Harmless, SameIdentity
<1>3. UNCHANGED <<created, cache, childVars>>
  BY DEF StartTask, UpdateTask, storeVars
<1>4. HandlerAgrees(Before)'
  BY ReturnAgrees DEF StartTask, UpdateTask
<1>5. CASE Accepted(cur \in fresh, o) \/ Failed(cur \in fresh, o)
  BY <1>1, <1>2, <1>3, <1>4, <1>5, UpdateGuarded
<1>6. CASE UNCHANGED storeVars
  <2>1. \A u \in Tasks : Owners(u)' = Owners(u)
    BY <1>3 DEF Owners, childVars
  <2> QED
    BY <1>4, <1>6, <2>1, ChildGuarded DEF storeVars
<1> QED
  BY <1>5, <1>6 DEF StartTask, UpdateTask, o

LEMMA StampEndTimeGuarded ==
  ASSUME TypedIn(WorkSteps), GuardedExcept(Before), StampEndTime
  PROVE  GuardedExcept(Before)'
<1> DEFINE o == [obj EXCEPT !.end = TRUE]
<1>1. cur \in Tasks /\ o \in TaskObjects /\ SameIdentity(o, obj)
  BY Working, FieldTypes DEF StampEndTime, TaskObjects, SameIdentity
<1> HIDE DEF o
<1>2. objFresh => SameIdentity(o, task[cur])
  BY <1>1, CopyAgrees DEF StampEndTime, SameIdentity
<1>3. /\ Accepted(objFresh, o) \/ Failed(objFresh, o)
      /\ UNCHANGED <<created, cache, childVars>>
  BY DEF StampEndTime, UpdateTask, o
<1>4. HandlerAgrees(Before)'
  <2>1. CASE Accepted(objFresh, o) /\ Continue("finish", o)
    <3>1. objFresh /\ task'[cur] = o
      BY <1>1, <2>1 DEF Accepted, StoredFrom, TypedIn, StoreTypeOK
    <3>2. pc \notin Before
      BY DEF StampEndTime, Before
    <3> QED
      BY <1>1, <1>2, <1>3, <2>1, <3>1, <3>2, HandlerKeeps
      DEF Continue, SameIdentity, StampEndTime, GuardedExcept
  <2> QED
    BY <2>1, ReturnAgrees DEF StampEndTime, UpdateTask, o
<1> QED
  BY <1>1, <1>2, <1>3, <1>4, UpdateGuarded DEF Harmless, SameIdentity

\* The steps below write a child, or nothing, and go on in one of these ways.
Onward ==
  \/ \E p \in WorkSteps \ Before : Continue(p, obj)
  \/ Conclude("failed") \/ ConcludeRunning
  \/ Done \/ Retry

LEMMA OnwardGuarded ==
  ASSUME TypedIn(WorkSteps), GuardedExcept(Before), pc \notin {"idle"} \cup Before,
         UNCHANGED <<task, created, cache, fresh>>,
         NEW zero, WritesOwn(zero, FALSE), Onward
  PROVE  GuardedExcept(Before)'
<1>1. pc # "idle" /\ "status" \notin Before
  BY DEF Before
<1>2. Proceeds(Before)
  <2>1. CASE ConcludeRunning
    <3>1. PICK url \in URLs \cup {NoURL} :
            Continue("status", [WithPhase("running") EXCEPT !.url = url])
      BY <1>1, <2>1, Announced
    <3> QED
      BY <1>1, <3>1, GoingOn
  <2>2. CASE \E p \in WorkSteps \ Before : Continue(p, obj)
    BY <1>1, <2>2, GoingOn
  <2>3. CASE Conclude("failed") \/ Done \/ Retry
    BY <1>1, <2>3, GoingOn
  <2> QED
    BY <2>1, <2>2, <2>3 DEF Onward
<1> QED
  BY <1>2, ChildStepGuarded

LEMMA CreatingGuarded ==
  ASSUME TypedIn(WorkSteps), GuardedExcept(Before),
         EnsureDeployment \/ CreateService \/ CreateHTTPRoute
  PROVE  GuardedExcept(Before)'
<1>1. /\ pc \notin {"idle"} \cup Before
      /\ UNCHANGED <<task, created, cache, fresh>>
  BY DEF EnsureDeployment, CreateService, CreateHTTPRoute, EnsureServiceThen, EnsureRouteThen,
         storeVars, Before
<1>2. Onward
  BY DEF EnsureDeployment, CreateService, CreateHTTPRoute, CreateDeployment,
         EnsureServiceThen, EnsureRouteThen, Create, Onward, WorkSteps, Before
<1>3. WritesOwn(Zero, FALSE)
  BY DEF EnsureDeployment, CreateService, CreateHTTPRoute, CreateDeployment,
         EnsureServiceThen, EnsureRouteThen, Create, WritesOwn, NewRoute
<1> QED
  BY <1>1, <1>2, <1>3, OnwardGuarded

LEMMA CheckRunningGuarded ==
  ASSUME TypedIn(WorkSteps), GuardedExcept(Before), CheckRunning
  PROVE  GuardedExcept(Before)'
<1>1. pc \notin {"idle"} \cup Before /\ {"status", "ensureService"} \cap Before = {}
  BY DEF CheckRunning, Before
<1> QED
  BY <1>1, CheckDeploymentGuarded DEF CheckRunning

LEMMA EnsureGuarded ==
  ASSUME TypedIn(WorkSteps), GuardedExcept(Before), EnsureService \/ EnsureHTTPRoute \/ Finish
  PROVE  GuardedExcept(Before)'
<1>1. /\ pc \notin {"idle"} \cup Before
      /\ UNCHANGED <<task, created, cache, fresh>>
  BY DEF EnsureService, EnsureHTTPRoute, EnsureServiceThen, EnsureRouteThen, Finish,
         storeVars, Before
<1>2. Onward
  BY DEF EnsureService, EnsureHTTPRoute, EnsureServiceThen, EnsureRouteThen, Create, Finish,
         Onward, WorkSteps, Before
<1>3. WritesOwn(FALSE, FALSE)
  BY DEF EnsureService, EnsureHTTPRoute, EnsureServiceThen, EnsureRouteThen, Create, Finish,
         childVars, WritesOwn, NewRoute
<1> QED
  BY <1>1, <1>2, <1>3, OnwardGuarded

LEMMA CleanupGuarded ==
  ASSUME TypedIn(WorkSteps), GuardedExcept(Before),
         DeleteDeployment \/ DeleteService \/ DeleteRoute
  PROVE  GuardedExcept(Before)'
<1>1. /\ pc \notin {"idle"} \cup Before
      /\ UNCHANGED <<task, created, cache, fresh>>
  BY DEF DeleteDeployment, DropDeployment, DeleteService, DeleteRoute, storeVars, Before
<1>2. Onward
  BY DEF DeleteDeployment, DropDeployment, DeleteService, DeleteRoute,
         Onward, WorkSteps, Before
<1>3. WritesOwn(FALSE, FALSE)
  BY DEF DeleteDeployment, DropDeployment, DeleteService, DeleteRoute, StoreRoute, WritesOwn
<1> QED
  BY <1>1, <1>2, <1>3, OnwardGuarded

LEMMA StepGuarded ==
  ASSUME TypedIn(WorkSteps), GuardedExcept(Before), [Next]_vars
  PROVE  GuardedExcept(Before)'
<1>1. CASE HandlerStep
  BY <1>1, FirstUpdateGuarded, StartTaskGuarded, CreatingGuarded, UpdateStatusGuarded,
     CheckRunningGuarded, EnsureGuarded, StampEndTimeGuarded, CleanupGuarded,
     RemoveFinalizerGuarded
  DEF HandlerStep
<1>2. CASE Next /\ ~HandlerStep
  BY <1>2, EnvironmentGuarded, ReconcileGuarded DEF Next
<1> QED
  BY <1>1, <1>2, UnchangedGuarded

\* No copy of an InferenceTask claims more than the server knows, no child has
\* an owner that was never created, and the handlers hold a guarded copy -
\* also handlePendingPhase, which reads the task a second time
\* (inference_phases.go:39-46).
THEOREM InferenceTaskGuarded == Spec => []Guarded
<1>1. Init => Guarded
  BY InitGuarded DEF Guarded
<1>2. TypeOK /\ Guarded /\ [Next]_vars => Guarded'
  BY StepGuarded DEF TypeOK, Guarded, Before
<1> QED
  BY <1>1, <1>2, InferenceTaskTyped, PTL DEF Spec

\* An InferenceTask never vanishes while children it owns exist unless cleanup
\* ran, whatever is lost, late or restarted between its two first updates
\* (inferencetask_controller.go:77-99) and the handlers' writes.
THEOREM InferenceChildrenGuarded == Spec => []FinalizerGuardsChildren
<1>1. Guarded => FinalizerGuardsChildren
  BY DEF Guarded, GuardedExcept
<1> QED
  BY <1>1, InferenceTaskGuarded, PTL

-----------------------------------------------------------------------------
(* No wake-up is lost, and every step is a step of the lifecycle.          *)

\* The step that looks at the phase again.
Unseen == {"pending"}

\* The label step has something to write.
LabelDue == pc = "label" /\ objFresh => ~task[cur].label

Informed == Knows(Unseen) /\ LabelDue

LEMMA EntryKnown ==
  ASSUME NEW o \in TaskObjects
  PROVE  /\ EntryStep(o) = "idle" => (NeedsWork(o) => o.del /\ ~o.fin)
         /\ EntryStep(o) # "idle" => EntryStep(o) # "status" /\ Known(Unseen, EntryStep(o), o)
         /\ EntryStep(o) = "label" => ~o.label
<1>1. o.phase \in {Unset, "creating", "running"} \cup Terminal
      /\ {o.del, o.fin, o.label, o.end} \subseteq BOOLEAN
  BY DEF TaskObjects, Phases
<1>2. /\ PhaseStep(o) \in {"pending", "creating", "running", "endTime", "finish"}
      /\ PhaseStep(o) = "pending" => o.phase = Unset
      /\ PhaseStep(o) = "creating" => o.phase = "creating"
      /\ PhaseStep(o) = "running" => o.phase = "running"
      /\ PhaseStep(o) \in {"endTime", "finish"} => o.phase \in Terminal
      /\ PhaseStep(o) = "endTime" => ~o.end
  BY <1>1 DEF PhaseStep
<1>3. CASE ~Exists(o) \/ (o.label /\ o.del /\ ~o.fin)
  BY <1>1, <1>3 DEF EntryStep, NeedsWork
<1>4. CASE Exists(o) /\ ~o.label
  BY <1>1, <1>4 DEF EntryStep, Known, Unseen, CleanupSteps
<1>5. CASE Exists(o) /\ o.label /\ o.del /\ o.fin
  BY <1>1, <1>5 DEF EntryStep, Known, Unseen
<1>6. CASE Exists(o) /\ o.label /\ ~o.del /\ ~o.fin
  BY <1>1, <1>6 DEF EntryStep, Known, Unseen, CleanupSteps
<1>7. CASE Exists(o) /\ o.label /\ ~o.del /\ o.fin
  <2>1. EntryStep(o) = PhaseStep(o)
    BY <1>1, <1>7 DEF EntryStep
  <2> QED
    BY <1>2, <1>7, <2>1 DEF Known, Unseen, CleanupSteps
<1> QED
  BY <1>1, <1>3, <1>4, <1>5, <1>6, <1>7

LEMMA ReconcileKnows ==
  ASSUME TypedIn(WorkSteps), GuardedExcept(Before), Informed, NEW t \in Tasks, Reconcile(t)
  PROVE  Informed'
<1> DEFINE step == EntryStep(cache[t])
<1>1. cache[t] \in TaskObjects /\ CacheAgrees(t) /\ Dispatch(t, step) /\ "idle" \notin WorkSteps
  BY DEF TypedIn, StoreTypeOK, GuardedExcept, Reconcile, WorkSteps
<1>2. /\ step = "idle" => (NeedsWork(cache[t]) => cache[t].del /\ ~cache[t].fin)
      /\ step # "idle" => step # "status" /\ Known(Unseen, step, cache[t])
      /\ step = "label" => ~cache[t].label
  BY <1>1, EntryKnown
<1> HIDE DEF step
<1>3. Knows(Unseen)'
  BY <1>1, <1>2, DispatchKnows DEF Informed
<1>4. LabelDue'
  BY <1>1, <1>2 DEF Dispatch, LabelDue, CacheAgrees, storeVars, workerVars, Informed
<1> QED
  BY <1>3, <1>4 DEF Informed

LEMMA LabelTaskKnows ==
  ASSUME TypedIn(WorkSteps), GuardedExcept(Before), Informed, LabelTask
  PROVE  Knows(Unseen)'
<1> DEFINE new == [obj EXCEPT !.label = TRUE]
<1>1. /\ pc = "label" /\ cur \in Tasks /\ obj \in TaskObjects
      /\ objFresh => SameIdentity(obj, task[cur])
      /\ new.label = TRUE /\ new.del = obj.del /\ new.fin = obj.fin
  BY Working, CopyAgrees DEF LabelTask, TaskObjects
<1>2. objFresh => ~task[cur].label /\ new # task[cur] /\ (new.del => new.fin)
  BY <1>1 DEF Informed, LabelDue, Knows, Held, SameIdentity
<1>3. \/ Accepted(objFresh, new) /\ Done
      \/ Failed(objFresh, new) /\ Retry
  BY DEF LabelTask, UpdateTask
<1> HIDE DEF new
<1>4. Accepted(objFresh, new) /\ Done => Advances(Unseen)
  BY <1>1, <1>2, DoneAdvances DEF Accepted, StoredFrom
<1> QED
  BY <1>1, <1>2, <1>3, <1>4, WritingKnows DEF Informed

LEMMA AddFinalizerKnows ==
  ASSUME TypedIn(WorkSteps), GuardedExcept(Before), Informed, AddFinalizer
  PROVE  Knows(Unseen)'
<1> DEFINE new == [obj EXCEPT !.fin = TRUE]
<1>1. /\ pc = "addFinalizer" /\ cur \in Tasks /\ obj \in TaskObjects
      /\ objFresh => SameIdentity(obj, task[cur])
      /\ ~obj.fin /\ ~obj.del
      /\ new.fin = TRUE /\ new.del = obj.del
  BY Working, CopyAgrees DEF AddFinalizer, TaskObjects, Informed, Knows, HandlerKnows, Known
<1>2. objFresh => new # task[cur] /\ (new.del => new.fin)
  BY <1>1 DEF SameIdentity
<1>3. \/ Accepted(objFresh, new) /\ Done
      \/ Failed(objFresh, new) /\ Retry
  BY DEF AddFinalizer, UpdateTask
<1> HIDE DEF new
<1>4. Accepted(objFresh, new) /\ Done => Advances(Unseen)
  BY <1>1, <1>2, DoneAdvances DEF Accepted, StoredFrom
<1> QED
  BY <1>1, <1>2, <1>3, <1>4, WritingKnows DEF Informed

LEMMA StartTaskKnows ==
  ASSUME TypedIn(WorkSteps), GuardedExcept(Before), Informed, StartTask
  PROVE  Knows(Unseen)'
<1> DEFINE o == cache[cur]
           new == [o EXCEPT !.phase = "creating"]
<1>1. /\ pc = "pending" /\ obj.phase = Unset /\ cur \in Tasks /\ o \in TaskObjects
      /\ cur \in fresh => o = task[cur]
      /\ new.del = o.del /\ new.fin = o.fin /\ new.phase = "creating"
  BY Working
  DEF StartTask, GuardedExcept, CacheAgrees, Informed, Knows, HandlerKnows, Known, Unseen,
      TaskObjects
<1> HIDE DEF o, new
<1>2. CASE Retry /\ UNCHANGED storeVars
  BY <1>1, <1>2, RetryAdvances, WatchingKnows DEF storeVars, Informed
<1>3. CASE Done /\ UNCHANGED storeVars /\ o.phase # Unset
  <2>1. ~(cur \in fresh /\ cur \notin queue)
    BY <1>1, <1>3 DEF Informed, Knows, Awake, HandlerKnows, Matches
  <2>2. Advances(Unseen)
    BY <1>3, <2>1 DEF Advances, storeVars
  <2> QED
    BY <1>1, <1>3, <2>2, WatchingKnows DEF storeVars, Informed
<1>4. CASE /\ o.phase = Unset
           /\ \/ Accepted(cur \in fresh, new) /\ Done
              \/ Failed(cur \in fresh, new) /\ Retry
  <2>1. cur \in fresh => new # task[cur] /\ (new.del => new.fin)
    BY <1>1, <1>4 DEF Informed, Knows, Held, Unset
  <2>2. Accepted(cur \in fresh, new) /\ Done => Advances(Unseen)
    BY <1>1, <2>1, DoneAdvances DEF Accepted, StoredFrom
  <2> QED
    BY <1>1, <1>4, <2>1, <2>2, WritingKnows DEF Informed
<1> QED
  BY <1>2, <1>3, <1>4 DEF StartTask, UpdateTask, o, new

\* The steps that write children, or nothing: each goes on with a copy it
\* knows, or lets go.
LEMMA StepsAdvance ==
  ASSUME TypedIn(WorkSteps), Informed,
         \/ EnsureDeployment \/ CreateService \/ CreateHTTPRoute \/ EnsureService
         \/ EnsureHTTPRoute \/ Finish \/ DeleteService \/ DeleteRoute
  PROVE  UNCHANGED <<task, created, fresh>> /\ Advances(Unseen)
<1>1. /\ obj \in TaskObjects /\ Known(Unseen, pc, obj)
      /\ pc \notin {"idle", "status"} /\ "status" \notin Unseen /\ Knows(Unseen)
  BY Working
  DEF EnsureDeployment, CreateService, CreateHTTPRoute, EnsureService, EnsureHTTPRoute, Finish,
      DeleteService, DeleteRoute, Informed, Knows, HandlerKnows, Unseen
<1>2. UNCHANGED <<task, created, fresh>>
  BY DEF EnsureDeployment, CreateService, CreateHTTPRoute, EnsureService, EnsureHTTPRoute, Finish,
         DeleteService, DeleteRoute, EnsureServiceThen, EnsureRouteThen, storeVars
<1>3. ASSUME NEW p \in WorkSteps \ {"status"}, Known(Unseen, p, obj)
      PROVE  Continue(p, obj) => Advances(Unseen)
  <2>1. SameLife(obj, obj)
    BY DEF SameLife, SameIdentity
  <2> QED
    BY <1>1, <1>2, <1>3, <2>1, GoOnAdvances
<1>4. CASE EnsureDeployment
  <2>1. pc = "creating" /\ (Continue("createService", obj) \/ Conclude("failed"))
    BY <1>4 DEF EnsureDeployment, CreateDeployment, Create
  <2>2. Known(Unseen, "createService", obj)
    BY <1>1, <2>1 DEF Known, Unseen, CleanupSteps
  <2> QED
    BY <1>1, <1>2, <1>3, <2>1, <2>2, FailedAdvances DEF WorkSteps
<1>5. CASE CreateService
  <2>1. /\ pc = "createService"
        /\ Continue("createRoute", obj) \/ ConcludeRunning \/ Retry
    BY <1>5 DEF CreateService, EnsureServiceThen, Create
  <2>2. Known(Unseen, "createRoute", obj)
    BY <1>1, <2>1 DEF Known, Unseen, CleanupSteps
  <2>3. ConcludeRunning => Advances(Unseen)
    BY <1>1, <1>2, <2>1, Announced, RunningAdvances
  <2> QED
    BY <1>2, <1>3, <2>1, <2>2, <2>3, RetryAdvances DEF WorkSteps
<1>6. CASE CreateHTTPRoute
  <2>1. pc = "createRoute" /\ ConcludeRunning
    BY <1>6 DEF CreateHTTPRoute, EnsureRouteThen, Create
  <2> QED
    BY <1>1, <1>2, <2>1, Announced, RunningAdvances
<1>7. CASE EnsureService
  <2>1. pc = "ensureService" /\ (Continue("ensureRoute", obj) \/ Retry)
    BY <1>7 DEF EnsureService, EnsureServiceThen, Create
  <2>2. Known(Unseen, "ensureRoute", obj)
    BY <1>1, <2>1 DEF Known, Unseen, CleanupSteps
  <2> QED
    BY <1>2, <1>3, <2>1, <2>2, RetryAdvances DEF WorkSteps
<1>8. CASE EnsureHTTPRoute
  BY <1>2, <1>8, RetryAdvances DEF EnsureHTTPRoute, EnsureRouteThen, Create
<1>9. CASE Finish
  <2>1. obj.phase \in Terminal /\ ~obj.del /\ Done
    BY <1>1, <1>9 DEF Finish, Known
  <2> QED
    BY <1>1, <1>2, <2>1, SettledAdvances
<1>10. CASE DeleteService
  <2>1. pc = "deleteService" /\ (Continue("deleteRoute", obj) \/ Retry)
    BY <1>10 DEF DeleteService
  <2>2. Known(Unseen, "deleteRoute", obj)
    BY <1>1, <2>1 DEF Known, Unseen, CleanupSteps
  <2> QED
    BY <1>2, <1>3, <2>1, <2>2, RetryAdvances DEF WorkSteps
<1>11. CASE DeleteRoute
  <2>1. pc = "deleteRoute" /\ (Continue("removeFinalizer", obj) \/ Retry)
    BY <1>11 DEF DeleteRoute
  <2>2. Known(Unseen, "removeFinalizer", obj)
    BY <1>1, <2>1 DEF Known, Unseen, CleanupSteps
  <2> QED
    BY <1>2, <1>3, <2>1, <2>2, RetryAdvances DEF WorkSteps
<1> QED
  BY <1>4, <1>5, <1>6, <1>7, <1>8, <1>9, <1>10, <1>11

LEMMA StampEndTimeKnows ==
  ASSUME TypedIn(WorkSteps), GuardedExcept(Before), Informed, StampEndTime
  PROVE  Knows(Unseen)'
<1> DEFINE new == [obj EXCEPT !.end = TRUE]
<1>1. /\ pc = "endTime" /\ cur \in Tasks /\ obj \in TaskObjects
      /\ obj.phase \in Terminal /\ ~obj.del
      /\ new.del = obj.del /\ new.phase = obj.phase
  BY Working DEF StampEndTime, TaskObjects, Informed, Knows, HandlerKnows, Known
<1>2. \/ Accepted(objFresh, new) /\ Continue("finish", new)
      \/ Failed(objFresh, new) /\ Retry
  BY DEF StampEndTime, UpdateTask
<1> HIDE DEF new
<1>3. Known(Unseen, "finish", new)
  BY <1>1 DEF Known, Unseen, CleanupSteps
<1>4. Accepted(objFresh, new) => task'[cur] = new
  BY <1>1 DEF Accepted, StoredFrom, TypedIn, StoreTypeOK
<1>5. Accepted(objFresh, new) /\ Continue("finish", new) => Advances(Unseen)
  BY <1>3, <1>4, WrittenAdvances
<1> QED
  BY <1>1, <1>2, <1>5, WritingKnows DEF Informed

LEMMA StepKnows ==
  ASSUME TypedIn(WorkSteps), GuardedExcept(Before), Informed, [Next]_vars
  PROVE  Informed'
<1>1. Knows(Unseen) /\ Early(Unseen)
  BY DEF Informed, Early, Unseen
<1>2. CASE UNCHANGED vars
  BY <1>2 DEF vars, controllerVars, storeVars, workerVars, Informed, LabelDue, Knows, HandlerKnows,
              Awake, Held, NoLostWakeup
<1>3. CASE HandlerStep
  <2>1. pc' # "label"
    BY <1>3
    DEF HandlerStep, LabelTask, AddFinalizer, StartTask, EnsureDeployment, CreateService,
        CreateHTTPRoute, UpdateStatus, CheckRunning, EnsureService, EnsureHTTPRoute,
        StampEndTime, Finish, DeleteDeployment, DeleteService, DeleteRoute, RemoveFinalizer,
        UpdateTask, CheckDeployment, CheckPods, WriteMessage, Verdict, AfterPods, Conclude,
        ConcludeRunning, CreateDeployment, EnsureServiceThen, EnsureRouteThen, Create,
        DropDeployment, Continue, Done, Retry, Return
  <2>2. pc # "idle"
    BY <1>3
    DEF HandlerStep, LabelTask, AddFinalizer, StartTask, EnsureDeployment, CreateService,
        CreateHTTPRoute, UpdateStatus, CheckRunning, EnsureService, EnsureHTTPRoute,
        StampEndTime, Finish, DeleteDeployment, DeleteService, DeleteRoute, RemoveFinalizer
  <2>3. ASSUME CheckRunning \/ DeleteDeployment
        PROVE  Knows(Unseen)'
    BY <1>1, <2>3, CheckDeploymentKnows, DropDeploymentKnows DEF CheckRunning, DeleteDeployment
  <2>4. ASSUME \/ EnsureDeployment \/ CreateService \/ CreateHTTPRoute \/ EnsureService
               \/ EnsureHTTPRoute \/ Finish \/ DeleteService \/ DeleteRoute
        PROVE  Knows(Unseen)'
    BY <1>1, <2>2, <2>4, StepsAdvance, WatchingKnows
  <2>5. Knows(Unseen)'
    BY <1>1, <1>3, <2>3, <2>4, LabelTaskKnows, AddFinalizerKnows, StartTaskKnows,
       UpdateStatusKnows, StampEndTimeKnows, RemoveFinalizerKnows
    DEF HandlerStep
  <2> QED
    BY <2>1, <2>5 DEF Informed, LabelDue
<1>4. CASE Environment
  <2>1. Knows(Unseen)'
    BY <1>1, <1>4, EnvironmentKnows
  <2>2. LabelDue'
    BY <1>4, EnvironmentKeepsCopy DEF Informed, LabelDue
  <2> QED
    BY <2>1, <2>2 DEF Informed
<1> QED
  BY <1>2, <1>3, <1>4, ReconcileKnows DEF Next

LEMMA StepRefines ==
  ASSUME TypedIn(WorkSteps), GuardedExcept(Before), Informed, [Next]_vars
  PROVE  LifecycleStep
<1>1. Knows(Unseen) /\ {"endTime", "status", "removeFinalizer"} \cap Before = {}
  BY DEF Informed, Before
<1>2. CASE LabelTask
  <2> DEFINE new == [obj EXCEPT !.label = TRUE]
  <2>1. pc = "label" /\ UNCHANGED created /\ (Accepted(objFresh, new) \/ Failed(objFresh, new))
    BY <1>2 DEF LabelTask, UpdateTask
  <2>2. objFresh => SameLife(new, task[cur]) /\ new.phase = task[cur].phase
    BY <1>1, <2>1, LifeOfCopy DEF Matches, SameLife, SameIdentity, TaskObjects
  <2> HIDE DEF new
  <2> QED
    BY <2>1, <2>2, StutterRefines
<1>3. CASE AddFinalizer
  BY <1>1, <1>3, FinalizerRefines DEF AddFinalizer, UpdateTask
<1>4. CASE StartTask
  <2> DEFINE new == [cache[cur] EXCEPT !.phase = "creating"]
  <2>1. pc # "idle" /\ UNCHANGED created
    BY <1>4 DEF StartTask, UpdateTask, storeVars
  <2>2. \/ UNCHANGED task
        \/ /\ Exists(cache[cur]) /\ cache[cur].phase = Unset
           /\ Accepted(cur \in fresh, new) \/ Failed(cur \in fresh, new)
    BY <1>4 DEF StartTask, UpdateTask, storeVars
  <2> HIDE DEF new
  <2>3. CASE UNCHANGED task
    BY <2>1, <2>3, LifeStays
  <2>4. CASE /\ Exists(cache[cur]) /\ cache[cur].phase = Unset
             /\ Accepted(cur \in fresh, new) \/ Failed(cur \in fresh, new)
    BY <2>1, <2>4, BeginRefines DEF new
  <2> QED
    BY <2>2, <2>3, <2>4
<1>5. CASE StampEndTime
  BY <1>1, <1>5, StampRefines DEF StampEndTime, UpdateTask
<1>6. CASE UpdateStatus
  BY <1>1, <1>6, StatusRefines
<1>7. CASE RemoveFinalizer
  BY <1>1, <1>7, ReleaseRefines
<1>8. CASE CheckRunning \/ DeleteDeployment
  BY <1>8, LifeStays
  DEF CheckRunning, DeleteDeployment, CheckDeployment, DropDeployment, storeVars
<1>9. CASE \/ EnsureDeployment \/ CreateService \/ CreateHTTPRoute \/ EnsureService
           \/ EnsureHTTPRoute \/ Finish \/ DeleteService \/ DeleteRoute
  BY <1>9, StepsAdvance, LifeStays
<1>10. CASE Environment
  BY <1>10, EnvironmentRefines
<1>11. ASSUME NEW t \in Tasks, Reconcile(t)
       PROVE  LifecycleStep
  BY <1>11, LifeStays DEF Reconcile, Dispatch, storeVars
<1>12. CASE UNCHANGED vars
  BY <1>12, LifeStays DEF vars, controllerVars, storeVars
<1> QED
  BY <1>2, <1>3, <1>4, <1>5, <1>6, <1>7, <1>8, <1>9, <1>10, <1>11, <1>12 DEF Next, HandlerStep

LEMMA AlwaysInformed == Spec => []Informed
<1>1. Init => Informed
  BY InitKnows DEF Informed, LabelDue, Init, ControllerInit
<1>2. TypeOK /\ Guarded /\ Informed /\ [Next]_vars => Informed'
  BY StepKnows DEF TypeOK, Guarded, Before
<1> QED
  BY <1>1, <1>2, InferenceTaskTyped, InferenceTaskGuarded, PTL DEF Spec

\* An InferenceTask that needs its controller is in the worker's hands, in the
\* queue, or has an event to come: no handler returns without an error after a
\* write that changed nothing (inferencetask_controller.go:77-99,
\* inference_phases.go:38-56), for any number of tasks, objects and failures.
THEOREM InferenceTaskWakes == Spec => []NoLostWakeup
<1>1. Informed => NoLostWakeup
  BY DEF Informed, Knows
<1> QED
  BY <1>1, AlwaysInformed, PTL

\* The InferenceTask controller implements the lifecycle its users see, for any
\* number of tasks, objects and failures, although handlePendingPhase picks up
\* whatever object the cache shows by then (inference_phases.go:39-46).
THEOREM InferenceTaskImplementsLifecycle == Spec => LifecycleSpec
<1>1. Init => Lifecycle!Init
  BY InitRefines
<1>2. TypeOK /\ Guarded /\ Informed /\ [Next]_vars => [Lifecycle!Next]_Lifecycle!lifecycleVars
  BY StepRefines DEF TypeOK, Guarded, Before, LifecycleStep, Lifecycle!lifecycleVars
<1>3. Spec => Lifecycle!Spec
  BY <1>1, <1>2, InferenceTaskTyped, InferenceTaskGuarded, AlwaysInformed, PTL
  DEF Spec, Lifecycle!Spec
<1> QED
  BY <1>3 DEF LifecycleSpec

-----------------------------------------------------------------------------
(* Cleanup misses no child but a late one.                                 *)

LEMMA DeleteServiceSwept ==
  ASSUME TypedIn(WorkSteps), GuardedExcept(Before), Swept, DeleteService
  PROVE  Swept'
<1>1. /\ pc = "deleteService" /\ UNCHANGED <<deploy, deployCache, svcCache>>
      /\ UNCHANGED <<route, routeCache, routeFresh>>
      /\ \/ Retry
         \/ /\ Continue("deleteRoute", obj)
            /\ cur \notin svcCache \/ svc' = [svc EXCEPT ![cur] = 0]
  BY DEF DeleteService
<1>2. CASE Retry
  BY <1>1, <1>2, ElsewhereSwept DEF Retry, Return, AfterDeployment, AfterService, AfterRoute
<1>3. CASE Continue("deleteRoute", obj)
  <2>1. Sweeps /\ pc' \notin AfterRoute
    BY <1>1, <1>3 DEF Continue, Sweeps, AfterDeployment, AfterService, AfterRoute
  <2>2. cur \notin svcCache \/ svc' = [svc EXCEPT ![cur] = 0]
    BY <1>1, <1>3 DEF Continue, Retry, Return
  <2> QED
    BY <1>1, <2>1, <2>2, ServiceSwept
<1> QED
  BY <1>1, <1>2, <1>3

LEMMA DeleteRouteSwept ==
  ASSUME TypedIn(WorkSteps), GuardedExcept(Before), Swept, DeleteRoute
  PROVE  Swept'
<1>1. /\ pc = "deleteRoute" /\ UNCHANGED <<svc, routeCache, deploy, deployCache, svcCache>>
      /\ Retry \/ Continue("removeFinalizer", obj)
  BY DEF DeleteRoute
<1>2. PICK r : \/ StoreRoute(cur, r)
               \/ /\ UNCHANGED <<route, routeFresh>>
                  /\ \/ pc' \notin AfterRoute
                     \/ routeCache[cur] = "absent"
                     \/ route[cur] = NoRoute
  <2>1. pc' \in AfterRoute => ~Retry
    BY DEF Retry, Return, AfterRoute
  <2> QED
    BY <2>1 DEF DeleteRoute
<1>3. CASE Retry
  BY <1>1, <1>2, <1>3, RouteWrittenSwept
  DEF StoreRoute, Retry, Return, AfterDeployment, AfterService, AfterRoute
<1>4. CASE Continue("removeFinalizer", obj)
  <2>1. Sweeps /\ pc' \in AfterService
    BY <1>1, <1>4 DEF Continue, Sweeps, AfterDeployment, AfterService, AfterRoute
  <2> QED
    BY <1>1, <1>2, <2>1, RouteSwept
<1> QED
  BY <1>1, <1>3, <1>4

\* Every other handler step leaves cleanup alone, but may create the route.
LEMMA OtherStepsSwept ==
  ASSUME TypedIn(WorkSteps), Swept,
         \/ LabelTask \/ AddFinalizer \/ StartTask \/ EnsureDeployment \/ CreateService
         \/ CreateHTTPRoute \/ UpdateStatus \/ CheckRunning \/ EnsureService
         \/ EnsureHTTPRoute \/ StampEndTime \/ Finish \/ RemoveFinalizer
  PROVE  Swept'
<1>1. pc' \notin AfterDeployment
  BY DEF LabelTask, AddFinalizer, StartTask, EnsureDeployment, CreateService, CreateHTTPRoute,
         UpdateStatus, CheckRunning, EnsureService, EnsureHTTPRoute, StampEndTime, Finish,
         RemoveFinalizer, UpdateTask, CheckDeployment, CheckPods, WriteMessage, Verdict,
         AfterPods, Conclude, ConcludeRunning, CreateDeployment, EnsureServiceThen,
         EnsureRouteThen, Create, Continue, Done, Retry, Return, AfterDeployment, AfterService,
         AfterRoute
<1>2. CASE CreateHTTPRoute \/ EnsureHTTPRoute
  <2>1. /\ pc # "idle" /\ UNCHANGED routeCache
        /\ \/ UNCHANGED <<route, routeFresh>>
           \/ /\ route' = [route EXCEPT ![cur] = NewRoute(FALSE)]
              /\ routeFresh' = routeFresh \ {cur}
    BY <1>2 DEF CreateHTTPRoute, EnsureHTTPRoute, EnsureRouteThen, Create, NewRoute
  <2> QED
    BY <1>1, <2>1, RouteWrittenSwept
<1>3. CASE ~(CreateHTTPRoute \/ EnsureHTTPRoute)
  <2>1. UNCHANGED <<route, routeCache, routeFresh>>
    BY <1>3
    DEF LabelTask, AddFinalizer, StartTask, EnsureDeployment, CreateService, UpdateStatus,
        CheckRunning, CheckDeployment, EnsureService, EnsureServiceThen, StampEndTime, Finish,
        RemoveFinalizer, childVars
  <2> QED
    BY <1>1, <2>1, ElsewhereSwept
<1> QED
  BY <1>2, <1>3

LEMMA StepSwept ==
  ASSUME TypedIn(WorkSteps), GuardedExcept(Before), Swept, [Next]_vars
  PROVE  Swept'
<1>1. CASE DeleteDeployment
  BY <1>1, DropDeploymentSwept DEF DeleteDeployment
<1>2. ASSUME NEW t \in Tasks, Reconcile(t)
      PROVE  Swept'
  <2>1. EntryStep(cache[t]) \notin AfterDeployment
    BY DEF EntryStep, PhaseStep, AfterDeployment, AfterService, AfterRoute
  <2>2. pc' \notin AfterDeployment /\ UNCHANGED <<route, routeCache, routeFresh>>
    BY <1>2, <2>1
    DEF Reconcile, Dispatch, workerVars, childVars, AfterDeployment, AfterService, AfterRoute
  <2> QED
    BY <2>2, ElsewhereSwept
<1>3. CASE HandlerStep
  BY <1>1, <1>3, OtherStepsSwept, DeleteServiceSwept, DeleteRouteSwept DEF HandlerStep
<1> QED
  BY <1>2, <1>3, EnvironmentSwept, UnchangedSwept DEF Next

\* When cleanup removes the finalizer, a child of the task that is still there is
\* one the cache showed too late, and the task has been queued or will be
\* (inferencetask_controller.go:116, inference_phases.go:240): an event that
\* reaches a cache queues the task, and the worker takes no key while it works.
THEOREM InferenceTaskSweeps == Spec => []CleanupMissesOnlyLateChildren
<1>1. Init => Swept
  BY InitSwept
<1>2. TypeOK /\ Guarded /\ Swept /\ [Next]_vars => Swept'
  BY StepSwept DEF TypeOK, Guarded, Before
<1>3. TypeOK /\ Guarded /\ Swept => CleanupMissesOnlyLateChildren
  BY SweptMissesOnlyLate DEF TypeOK, Guarded
<1> QED
  BY <1>1, <1>2, <1>3, InferenceTaskTyped, InferenceTaskGuarded, PTL DEF Spec

-----------------------------------------------------------------------------
(* A task ends for a cause.                                                *)

\* The tasks whose Deployment may have no replicas.
Zeroable == Scalable \cup ScaledFromZero

CompletionCause(t) == t \in Zeroable \/ pods[t] = "succeeded" \/ deploy[t] = NoDeploy

CompletionCaused == pc = "status" /\ objFresh /\ obj.phase = "completed" => CompletionCause(cur)

ZeroOnPurpose == \A t \in Tasks : deploy[t].zero \/ deployCache[t] = "zero" => t \in Zeroable

Caused == PodsFragile /\ FailureCaused(Fragile) /\ ZeroOnPurpose /\ CompletionCaused

LEMMA WritesEndNothing ==
  ASSUME TypedIn(WorkSteps), GuardedExcept(Before), Informed,
         LabelTask \/ AddFinalizer \/ StartTask \/ StampEndTime \/ RemoveFinalizer
  PROVE  EndsNothing
<1>1. /\ pc \notin {"idle", "status"} /\ obj \in TaskObjects /\ cache[cur] \in TaskObjects
      /\ objFresh => obj.phase = task[cur].phase
  BY Working
  DEF LabelTask, AddFinalizer, StartTask, StampEndTime, RemoveFinalizer, Informed, Knows,
      HandlerKnows, Matches
<1>2. UNCHANGED task => EndsNothing
  BY DEF EndsNothing
<1>3. ASSUME NEW f, NEW new, Accepted(f, new) \/ Failed(f, new),
             f => new.phase \in {task[cur].phase, Unset, "creating"}
      PROVE  EndsNothing
  BY <1>1, <1>3, WriteEndsNothing
<1>4. /\ [obj EXCEPT !.fin = TRUE].phase = obj.phase
      /\ [obj EXCEPT !.label = TRUE].phase = obj.phase
      /\ [obj EXCEPT !.end = TRUE].phase = obj.phase
      /\ [cache[cur] EXCEPT !.phase = "creating"].phase = "creating"
      /\ Absent.phase = Unset
  BY <1>1 DEF TaskObjects, Absent, NewTask
<1>5. CASE StartTask
  BY <1>2, <1>3, <1>4, <1>5 DEF StartTask, UpdateTask, storeVars
<1>6. CASE LabelTask \/ AddFinalizer \/ StampEndTime \/ RemoveFinalizer
  BY <1>1, <1>3, <1>4, <1>6 DEF LabelTask, AddFinalizer, StampEndTime, RemoveFinalizer, UpdateTask
<1> QED
  BY <1>5, <1>6

\* Only UpdateStatus ends a task.
LEMMA EndsByUpdate ==
  ASSUME TypedIn(WorkSteps), GuardedExcept(Before), Informed, [Next]_vars,
         NEW t \in Tasks, task'[t].phase \in {"failed", "completed"},
         task[t].phase # task'[t].phase
  PROVE  pc = "status" /\ objFresh /\ cur = t /\ obj.phase = task'[t].phase
<1>1. ~EndsNothing
  BY DEF EndsNothing, Unset
<1>2. UNCHANGED task => EndsNothing
  BY DEF EndsNothing
<1>3. CASE UpdateStatus
  BY <1>3, UpdateStatusEnds
<1>4. CASE HandlerStep /\ ~UpdateStatus
  BY <1>1, <1>2, <1>4, WritesEndNothing
  DEF HandlerStep, EnsureDeployment, CreateService, CreateHTTPRoute, CheckRunning,
      CheckDeployment, EnsureService, EnsureHTTPRoute, Finish, DeleteDeployment, DropDeployment,
      DeleteService, DeleteRoute, EnsureServiceThen, EnsureRouteThen, storeVars
<1>5. CASE UNCHANGED vars
  BY <1>1, <1>2, <1>5 DEF vars, controllerVars, storeVars
<1>6. ASSUME NEW u \in Tasks, Reconcile(u)
      PROVE  UNCHANGED task
  BY <1>6 DEF Reconcile, Dispatch, storeVars
<1> QED
  BY <1>1, <1>2, <1>3, <1>4, <1>5, <1>6, EnvironmentEndsNothing DEF Next

\* Steps that do not leave the handler about to end a task, nor a Deployment
\* other than it was.
LEMMA QuietCaused ==
  ASSUME Caused, UNCHANGED <<pods, deploy, deployCache>>,
         pc' # "status" \/ obj'.phase = "running"
  PROVE  Caused'
  BY DEF Caused, PodsFragile, FailureCaused, ZeroOnPurpose, CompletionCaused

\* A Deployment the worker creates has replicas unless its task starts without.
LEMMA CreatedOnPurpose ==
  ASSUME TypedIn(WorkSteps), pc # "idle", ZeroOnPurpose, UNCHANGED deployCache,
         \/ UNCHANGED deploy
         \/ deploy' = [deploy EXCEPT ![cur] = [owner |-> obj.uid, zero |-> Zero]]
         \/ deploy' = [deploy EXCEPT ![cur] = NoDeploy]
  PROVE  ZeroOnPurpose'
<1>1. deploy \in [Tasks -> [owner: 0..MaxIncarnations, zero: BOOLEAN]] /\ ~NoDeploy.zero
  BY DEF TypedIn, ClusterTypeOK, NoDeploy
<1> QED
  BY <1>1 DEF ZeroOnPurpose, Zero, Zeroable

LEMMA EnsureDeploymentCaused ==
  ASSUME TypedIn(WorkSteps), Informed, Caused, EnsureDeployment
  PROVE  Caused'
<1>1. /\ pc = "creating" /\ pc # "idle" /\ UNCHANGED <<task, created, pods, deployCache>>
      /\ \/ Continue("createService", obj) /\ UNCHANGED deploy
         \/ CreateDeployment(Zero, Continue("createService", obj), Conclude("failed"))
  BY DEF EnsureDeployment, storeVars
<1>2. FailureCaused(Fragile)'
  <2>1. Continue("createService", obj) => FailureCaused(Fragile)'
    BY DEF Continue, FailureCaused
  <2> QED
    BY <1>1, <2>1, RefusedCaused DEF Informed
<1>3. ZeroOnPurpose'
  BY <1>1, CreatedOnPurpose DEF CreateDeployment, Create, Caused
<1>4. CompletionCaused'
  <2>1. WithPhase("failed").phase = "failed"
    BY <1>1, Working DEF WithPhase, TaskObjects
  <2>2. Continue("createService", obj) \/ Conclude("failed")
    BY <1>1 DEF CreateDeployment, Create
  <2> QED
    BY <2>1, <2>2 DEF Continue, Conclude, CompletionCaused
<1> QED
  BY <1>1, <1>2, <1>3, <1>4 DEF Caused, PodsFragile

LEMMA CheckRunningCaused ==
  ASSUME TypedIn(WorkSteps), Informed, Caused, CheckRunning
  PROVE  Caused'
<1>1. /\ pc = "running" /\ pc # "idle" /\ cur \in Tasks /\ obj \in TaskObjects
      /\ UNCHANGED <<pods, deployCache>>
  BY Working DEF CheckRunning, CheckDeployment
<1>2. FailureCaused(Fragile)'
  <2>1. ListedPods \cap FailedPods # {} => cur \in Fragile
    BY <1>1 DEF ListedPods, Caused, PodsFragile
  <2> QED
    BY <1>1, <2>1, CheckDeploymentCaused DEF CheckRunning, Informed
<1>3. ZeroOnPurpose'
  BY <1>1, CreatedOnPurpose DEF CheckRunning, CheckDeployment, CreateDeployment, Create, Caused
<1>4. CompletionCaused'
  <2>1. WithPhase("creating").phase = "creating" /\ WithPhase("failed").phase = "failed"
    BY <1>1 DEF WithPhase, TaskObjects
  <2>2. pc' = "status" => /\ cur' = cur
                          /\ \/ obj' \in {WithPhase("creating"), WithPhase("failed")}
                             \/ "succeeded" \in ListedPods
                             \/ deployCache[cur] = "zero"
    BY DEF CheckRunning, CheckDeployment, CheckPods, WriteMessage, Verdict, AfterPods,
           CreateDeployment, Create, Conclude, Continue, Retry, Return
  <2> QED
    BY <1>1, <2>1, <2>2 DEF CompletionCaused, CompletionCause, ListedPods, Caused, ZeroOnPurpose
<1> QED
  BY <1>1, <1>2, <1>3, <1>4 DEF Caused, PodsFragile

LEMMA OtherStepsCaused ==
  ASSUME TypedIn(WorkSteps), Caused, HandlerStep, ~EnsureDeployment, ~CheckRunning
  PROVE  Caused'
<1>1. /\ pc # "idle" /\ UNCHANGED <<pods, deployCache>>
      /\ UNCHANGED deploy \/ deploy' = [deploy EXCEPT ![cur] = NoDeploy]
  BY DEF HandlerStep, LabelTask, AddFinalizer, StartTask, CreateService, CreateHTTPRoute,
         UpdateStatus, EnsureService, EnsureHTTPRoute, StampEndTime, Finish, DeleteDeployment,
         DropDeployment, DeleteService, DeleteRoute, RemoveFinalizer, EnsureServiceThen,
         EnsureRouteThen, childVars
<1>2. pc' # "status" \/ ConcludeRunning
  BY DEF HandlerStep, LabelTask, AddFinalizer, StartTask, CreateService, CreateHTTPRoute,
         UpdateStatus, EnsureService, EnsureHTTPRoute, StampEndTime, Finish, DeleteDeployment,
         DropDeployment, DeleteService, DeleteRoute, RemoveFinalizer, UpdateTask,
         EnsureServiceThen, EnsureRouteThen, Create, Continue, Done, Retry, Return
<1>3. ASSUME ConcludeRunning
      PROVE  obj'.phase = "running"
  <2>1. PICK url \in URLs \cup {NoURL} :
          Continue("status", [WithPhase("running") EXCEPT !.url = url])
    BY <1>1, <1>3, Announced
  <2>2. [WithPhase("running") EXCEPT !.url = url].phase = "running"
    BY <1>1, Working DEF WithPhase, TaskObjects
  <2> QED
    BY <2>1, <2>2 DEF Continue
<1>4. ZeroOnPurpose'
  BY <1>1, CreatedOnPurpose DEF Caused
<1>5. PodsFragile'
  BY <1>1 DEF Caused, PodsFragile
<1> QED
  BY <1>2, <1>3, <1>4, <1>5 DEF Caused, FailureCaused, CompletionCaused

LEMMA EnvironmentOnPurpose ==
  ASSUME TypedIn(WorkSteps), ZeroOnPurpose, Environment
  PROVE  ZeroOnPurpose'
<1>1. /\ deploy \in [Tasks -> [owner: 0..MaxIncarnations, zero: BOOLEAN]]
      /\ deployCache = [u \in Tasks |-> deployCache[u]] /\ ~NoDeploy.zero
  BY DEF TypedIn, ClusterTypeOK, NoDeploy
<1>2. CASE UNCHANGED <<deploy, deployCache>>
  BY <1>2 DEF ZeroOnPurpose
<1>3. ASSUME NEW t \in Tasks, SyncDeployment(t)
      PROVE  ZeroOnPurpose'
  <2>1. UNCHANGED deploy /\ deployCache' = [deployCache EXCEPT ![t] = DeployView(deploy[t])]
    BY <1>3 DEF SyncDeployment, Notify
  <2>2. DeployView(deploy[t]) = "zero" => deploy[t].zero
    BY DEF DeployView
  <2> QED
    BY <1>1, <2>1, <2>2 DEF ZeroOnPurpose
<1>4. ASSUME NEW t \in Tasks, GarbageCollect(t) \/ Interfere(t)
      PROVE  ZeroOnPurpose'
  <2>1. /\ UNCHANGED deployCache
        /\ UNCHANGED deploy \/ deploy' = [deploy EXCEPT ![t] = NoDeploy]
    BY <1>4 DEF GarbageCollect, Interfere, ClusterChange
  <2> QED
    BY <1>1, <2>1 DEF ZeroOnPurpose
<1>5. ASSUME NEW t \in Tasks, ScaleToZero(t)
      PROVE  ZeroOnPurpose'
  BY <1>1, <1>5 DEF ScaleToZero, ClusterChange, ZeroOnPurpose, Zeroable
<1>6. \/ UNCHANGED <<deploy, deployCache>>
      \/ \E t \in Tasks : SyncDeployment(t) \/ GarbageCollect(t) \/ Interfere(t) \/ ScaleToZero(t)
  BY DEF Environment, Restart, GatewayMoves, Informers, SyncTaskObject, SyncService, SyncRoute,
         Notify, Resync, TTLExpires, Users, Cluster, PodChanges, ClusterChange, childVars
<1> QED
  BY <1>2, <1>3, <1>4, <1>5, <1>6

\* The cause is there as long as the handler is about to write: a pod that has
\* succeeded goes away only with its Deployment, or when that has no replicas.
LEMMA EnvironmentCompletionCaused ==
  ASSUME TypedIn(WorkSteps), ZeroOnPurpose, CompletionCaused, Environment
  PROVE  CompletionCaused'
<1> SUFFICES ASSUME pc' = "status", objFresh', obj'.phase = "completed"
             PROVE  CompletionCause(cur)'
  BY DEF CompletionCaused
<1>1. /\ pc = "status" /\ obj' = obj /\ cur' = cur /\ objFresh
      /\ CompletionCause(cur) /\ cur \in Tasks
  BY EnvironmentKeepsCopy, Working DEF CompletionCaused
<1>2. deploy = [u \in Tasks |-> deploy[u]] /\ pods = [u \in Tasks |-> pods[u]]
  BY DEF TypedIn, ClusterTypeOK
<1>3. deploy[cur] = NoDeploy => deploy'[cur] = NoDeploy
  <2>1. \/ UNCHANGED deploy
        \/ \E t \in Tasks : /\ deploy[t] # NoDeploy
                            /\ deploy' = [deploy EXCEPT ![t].zero = TRUE]
        \/ \E t \in Tasks : deploy' = [deploy EXCEPT ![t] = NoDeploy]
    BY DEF Environment, Restart, GatewayMoves, Informers, SyncTaskObject, SyncDeployment,
           SyncService, SyncRoute, Notify, Resync, TTLExpires, Users, Cluster, GarbageCollect,
           Interfere, ScaleToZero, PodChanges, childVars
  <2> QED
    BY <1>1, <1>2, <2>1
<1>4. pods[cur] = "succeeded" => \/ pods'[cur] = "succeeded"
                                \/ cur \in Zeroable
                                \/ deploy'[cur] = NoDeploy
  <2>1. UNCHANGED pods \/ \E t \in Tasks, status \in PodStates : PodChanges(t, status)
    BY DEF Environment, Restart, GatewayMoves, Informers, SyncTaskObject, SyncDeployment,
           SyncService, SyncRoute, Notify, Resync, TTLExpires, Users, Cluster, GarbageCollect,
           Interfere, ScaleToZero
  <2>2. ASSUME NEW t \in Tasks, NEW status \in PodStates, PodChanges(t, status),
               pods[cur] = "succeeded", t = cur
        PROVE  deploy'[cur] = NoDeploy \/ cur \in Zeroable
    <3>1. status = "none"
      BY <2>2 DEF PodChanges
    <3>2. deploy[cur] = NoDeploy \/ deploy[cur].zero
      BY <2>2, <3>1 DEF PodChanges
    <3> QED
      BY <1>1, <2>2, <3>2 DEF PodChanges, ZeroOnPurpose
  <2>3. ASSUME NEW t \in Tasks, NEW status \in PodStates, PodChanges(t, status), t # cur
        PROVE  pods'[cur] = pods[cur]
    BY <1>1, <1>2, <2>3 DEF PodChanges
  <2> QED
    BY <2>1, <2>2, <2>3
<1> QED
  BY <1>1, <1>3, <1>4 DEF CompletionCause

LEMMA StepCaused ==
  ASSUME TypedIn(WorkSteps), GuardedExcept(Before), Informed, Caused, [Next]_vars
  PROVE  Caused'
<1>1. CASE HandlerStep
  BY <1>1, EnsureDeploymentCaused, CheckRunningCaused, OtherStepsCaused
<1>2. CASE Environment
  BY <1>2, EnvironmentCaused, EnvironmentFragile, EnvironmentOnPurpose,
     EnvironmentCompletionCaused
  DEF Caused
<1>3. ASSUME NEW t \in Tasks, Reconcile(t)
      PROVE  Caused'
  <2>1. EntryStep(cache[t]) # "status"
    BY DEF EntryStep, PhaseStep
  <2>2. pc' # "status" /\ UNCHANGED <<pods, deploy, deployCache>>
    BY <1>3, <2>1 DEF Reconcile, Dispatch, workerVars, childVars
  <2> QED
    BY <2>2, QuietCaused
<1>4. CASE UNCHANGED vars
  BY <1>4
  DEF vars, controllerVars, storeVars, workerVars, childVars, Caused, FailureCaused,
      FailureCause, PodsFragile, ZeroOnPurpose, CompletionCaused, CompletionCause
<1> QED
  BY <1>1, <1>2, <1>3, <1>4 DEF Next

\* An InferenceTask ends only for a cause, for any number of tasks, objects and
\* failures: the cause is there when a handler concludes that its task ends
\* (inference_phases.go:82-86, 153-194), and still when Status().Update stores
\* it, unless the copy has become outdated and the update is a conflict.
THEOREM InferenceTaskEndsForACause == Spec => OutcomeHasACause
<1>1. Init => Caused
  BY DEF Init, ControllerInit, Caused, PodsFragile, FailureCaused, FailedPods, ZeroOnPurpose,
         CompletionCaused, NoDeploy
<1>2. TypeOK /\ Guarded /\ Informed /\ Caused /\ [Next]_vars => Caused'
  BY StepCaused DEF TypeOK, Guarded, Before
<1>3. ASSUME TypedIn(WorkSteps), GuardedExcept(Before), Informed, Caused, [Next]_vars,
             NEW t \in Tasks
      PROVE  /\ task[t].phase # "failed" /\ task'[t].phase = "failed" =>
                    FailureCause(t, Fragile)
             /\ task[t].phase # "completed" /\ task'[t].phase = "completed" =>
                    CompletionCause(t)
  BY <1>3, EndsByUpdate DEF Caused, FailureCaused, CompletionCaused
<1>4. TypeOK /\ Guarded /\ Informed /\ Caused /\ [Next]_vars
      => [\A t \in Tasks :
            /\ task[t].phase # "failed" /\ task'[t].phase = "failed" =>
                  \/ task[t].phase = "running" /\ t \in Fragile
                  \/ /\ task[t].phase = "creating"
                     /\ budget < MaxDisturbances \/ deploy[t] # NoDeploy \/ created[t] > 1
            /\ task[t].phase # "completed" /\ task'[t].phase = "completed" =>
                  \/ t \in Scalable \cup ScaledFromZero
                  \/ pods[t] = "succeeded" \/ deploy[t] = NoDeploy]_vars
  BY <1>3 DEF TypeOK, Guarded, Before, FailureCause, CompletionCause, Zeroable
<1> QED
  BY <1>1, <1>2, <1>4, InferenceTaskTyped, InferenceTaskGuarded, AlwaysInformed, PTL
  DEF Spec, OutcomeHasACause
=============================================================================
