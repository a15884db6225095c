---------------------------- MODULE DeployedTask ----------------------------
(***************************************************************************)
(* What DevTask and InferenceTask have in common: a task that is served by *)
(* a Deployment, a Service and, if it is routed, an HTTPRoute, with the    *)
(* cluster around them - users, the garbage collector, pods, informers,    *)
(* TTL goroutines, failures and restarts - and what both promise.          *)
(*                                                                         *)
(* A handler's cached reads are merged with the write that follows them.   *)
(* Nothing is lost: only the worker reads the caches, and an informer may  *)
(* lag arbitrarily, so a read followed by an informer update is also a     *)
(* read before a later update.                                             *)
(***************************************************************************)
EXTENDS TaskController

CONSTANTS
    Routed,      \* tasks that need external routing
    WithTTL,     \* tasks whose spec sets ttlSecondsAfterFinished
    Fragile,     \* tasks whose pods may fail
    Scalable     \* tasks whose Deployment somebody may scale to zero

ASSUME DeployedTaskAssumption ==
    /\ Routed \subseteq Tasks /\ WithTTL \subseteq Tasks
    /\ Fragile \subseteq Tasks /\ Scalable \subseteq Tasks

VARIABLES
    deploy,       \* the Deployment of each task on the server: owner, scaled to zero?
    deployCache,  \* the informer's view of it: absent, up or zero
    svc,          \* owner of each task's Service; 0: there is none
    svcCache,     \* tasks whose Service is in the cache
    route,        \* the HTTPRoute of each task: owner, finalizer, being deleted?
    routeCache,   \* the informer's view of it: absent, held (by the finalizer) or bare
    routeFresh,   \* tasks whose cached HTTPRoute is at the server's version
    pods,         \* status of each task's pod, as the cache shows it
    timers,       \* uids of the tasks whose TTL goroutine sleeps
    gateway       \* where the gateway is reached now

childVars == <<deploy, deployCache, svc, svcCache, route, routeCache, routeFresh>>
vars == <<controllerVars, childVars, pods, timers, gateway>>

NoDeploy == [owner |-> 0, zero |-> FALSE]
NoRoute == [owner |-> 0, fin |-> FALSE, del |-> FALSE]

DeployView(d) == IF d.owner = 0 THEN "absent" ELSE IF d.zero THEN "zero" ELSE "up"
RouteView(r) == IF r.owner = 0 THEN "absent" ELSE IF r.fin THEN "held" ELSE "bare"

FailedPods == {"stuck", "failed"}   \* a waiting reason that fails the task; failed or unknown
LivePods == {"pending", "running"}
PodStates == {"none", "succeeded"} \cup LivePods \cup FailedPods

Init ==
    /\ ControllerInit
    /\ deploy = [t \in Tasks |-> NoDeploy]
    /\ deployCache = [t \in Tasks |-> "absent"]
    /\ svc = [t \in Tasks |-> 0]
    /\ svcCache = {}
    /\ route = [t \in Tasks |-> NoRoute]
    /\ routeCache = [t \in Tasks |-> "absent"]
    /\ routeFresh = Tasks
    /\ pods = [t \in Tasks |-> "none"]
    /\ timers = [t \in Tasks |-> {}]
    /\ gateway \in URLs

-----------------------------------------------------------------------------
(* The handlers' end: Status().Update of the copy, then Reconcile returns.  *)

WithPhase(phase) == [obj EXCEPT !.phase = phase]
Conclude(phase) == Continue("status", WithPhase(phase))

\* Fault: an error of the status update is dropped.
UpdateStatusUnchecked ==
    /\ pc = "status"
    /\ UpdateTask(objFresh, obj, Done, Done)
    /\ UNCHANGED <<childVars, pods, timers, gateway>>

\* Fault: the phase is patched over whatever object has the name now.
PatchStatus ==
    /\ pc = "status"
    /\ Done
    /\ IF Exists(task[cur])
       THEN /\ task' = [task EXCEPT ![cur].phase = obj.phase]
            /\ fresh' = fresh \ {cur}
       ELSE UNCHANGED <<task, fresh>>
    /\ UNCHANGED <<created, cache, budget, childVars, pods, timers, gateway>>

\* The Status().Update that ends a handler.
UpdateStatus ==
    /\ pc = "status"
    /\ UpdateTask(objFresh, obj, Done, Retry)
    /\ UNCHANGED <<childVars, pods, timers, gateway>>

-----------------------------------------------------------------------------
(* Creating children.                                                      *)

CreateDeployment(zero, onOk, onError) ==
    Create(deploy[cur].owner = 0,
           deploy' = [deploy EXCEPT ![cur] = [owner |-> obj.uid, zero |-> zero]],
           UNCHANGED deploy, onOk, onError)

EnsureServiceThen(onOk, onError) ==
    /\ IF cur \in svcCache
       THEN onOk /\ UNCHANGED <<svc, budget>>
       ELSE Create(svc[cur] = 0, svc' = [svc EXCEPT ![cur] = obj.uid],
                   UNCHANGED svc, onOk, onError)
    /\ UNCHANGED <<storeVars, deploy, deployCache, svcCache, route, routeCache, routeFresh,
                   pods, gateway>>

\* The handlers log an error of EnsureHTTPRoute and go on.
EnsureRouteThen(fin, next) ==
    /\ IF routeCache[cur] # "absent"
       THEN next /\ UNCHANGED <<route, routeFresh, budget>>
       ELSE Create(route[cur].owner = 0,
                   /\ route' = [route EXCEPT ![cur] =
                                   [owner |-> obj.uid, fin |-> fin, del |-> FALSE]]
                   /\ routeFresh' = routeFresh \ {cur},
                   UNCHANGED <<route, routeFresh>>, next, next)
    /\ UNCHANGED <<storeVars, deploy, deployCache, svc, svcCache, routeCache, pods, gateway>>

-----------------------------------------------------------------------------
(* handleRunningPhase looks at the Deployment and at the listed pods.       *)

AfterPods ==
    IF deployCache[cur] = "zero" THEN Conclude("completed")
                                 ELSE Continue("ensureService", obj)

\* What the first decisive pod says; without one, the Deployment.
Verdict(listed) ==
    \/ listed \cap FailedPods # {} /\ Conclude("failed")
    \/ "succeeded" \in listed /\ Conclude("completed")
    \/ listed \subseteq LivePods \cup {"none"} /\ AfterPods

\* The list is gone through up to the first decisive pod.
CheckPods(listed) ==
    \/ listed \cap LivePods # {} /\ WriteMessage(Verdict(listed))
    \/ /\ listed \subseteq LivePods \cup {"none"} => listed = {"none"}
       /\ Verdict(listed)
       /\ UNCHANGED <<fresh, budget>>

\* A Deployment that is gone is created again, and so is the task.
CheckDeployment(zero, listed) ==
    /\ IF deployCache[cur] = "absent"
       THEN CreateDeployment(zero, Conclude("creating"), Retry) /\ UNCHANGED fresh
       ELSE CheckPods(listed) /\ UNCHANGED deploy
    /\ UNCHANGED <<task, created, cache, deployCache, svc, svcCache,
                   route, routeCache, routeFresh, pods, timers, gateway>>

-----------------------------------------------------------------------------
(* The TTL goroutine deletes by name, whatever object has the name now.    *)

\* handleFinishedPhase starts one more goroutine each time it is called.
StartTimer ==
    timers' = IF cur \in WithTTL /\ obj.phase = "completed"
              THEN [timers EXCEPT ![cur] = @ \cup {obj.uid}] ELSE timers

TTLExpires(t) ==
    \E uid \in timers[t] :
        /\ timers' = [timers EXCEPT ![t] = @ \ {uid}]
        /\ \/ /\ Exists(task[t]) /\ ~task[t].del
              /\ Overwrite(t, Deleted(task[t]))
              /\ UNCHANGED budget
           \/ /\ ~Exists(task[t]) \/ task[t].del
              /\ UNCHANGED <<task, cache, fresh, workerVars, queue, budget>>
           \/ /\ Disturb   \* the error is logged, the goroutine ends
              /\ UNCHANGED <<task, cache, fresh, workerVars, queue>>
        /\ UNCHANGED <<created, childVars, pods, gateway>>

-----------------------------------------------------------------------------
(* cleanupResources: a Deployment is deleted if the cache shows it.         *)

DropDeployment(next) ==
    /\ IF deployCache[cur] = "absent"
       THEN next /\ UNCHANGED <<deploy, budget>>
       ELSE \/ /\ deploy' = [deploy EXCEPT ![cur] = NoDeploy]
               /\ \/ next /\ UNCHANGED budget
                  \/ deploy[cur] # NoDeploy /\ Retry /\ Disturb
            \/ Retry /\ Disturb /\ UNCHANGED deploy
    /\ UNCHANGED <<storeVars, deployCache, svc, svcCache, route, routeCache, routeFresh,
                   pods, timers, gateway>>

\* Fault: an error of the last Update ends the reconcile.
RemoveFinalizerUnchecked ==
    /\ pc = "removeFinalizer"
    /\ UpdateTask(objFresh, Absent, Done, Done)
    /\ UNCHANGED <<childVars, pods, timers, gateway>>

\* The last finalizer is gone, so the server removes the task.
RemoveFinalizer ==
    /\ pc = "removeFinalizer"
    /\ UpdateTask(objFresh, Absent, Done, Retry)
    /\ UNCHANGED <<childVars, pods, timers, gateway>>

StoreRoute(t, r) ==
    /\ route' = [route EXCEPT ![t] = r]
    /\ routeFresh' = routeFresh \ {t}

RouteDeleted(r) == IF r.fin THEN [r EXCEPT !.del = TRUE] ELSE NoRoute

Restart ==
    /\ RestartWorker
    /\ timers' = [t \in Tasks |-> {}]
    /\ UNCHANGED <<childVars, pods, gateway>>

-----------------------------------------------------------------------------
(* Informers of the children: Owns(...) enqueues the owner by name.        *)

Notify(t) ==
    /\ queue' = queue \cup {t}
    /\ UNCHANGED <<storeVars, workerVars, budget, deploy, svc, route, pods, timers, gateway>>

SyncDeployment(t) ==
    /\ deployCache[t] # DeployView(deploy[t])
    /\ deployCache' = [deployCache EXCEPT ![t] = DeployView(deploy[t])]
    /\ Notify(t)
    /\ UNCHANGED <<svcCache, routeCache, routeFresh>>

SyncService(t) ==
    /\ (t \in svcCache) # (svc[t] # 0)
    /\ svcCache' = IF svc[t] = 0 THEN svcCache \ {t} ELSE svcCache \cup {t}
    /\ Notify(t)
    /\ UNCHANGED <<deployCache, routeCache, routeFresh>>

SyncRoute(t) ==
    /\ t \notin routeFresh
    /\ routeCache' = [routeCache EXCEPT ![t] = RouteView(route[t])]
    /\ routeFresh' = routeFresh \cup {t}
    /\ Notify(t)
    /\ UNCHANGED <<deployCache, svcCache>>

SyncTaskObject(t) ==
    /\ SyncTask(t)
    /\ UNCHANGED <<childVars, pods, timers, gateway>>

Informers(t) ==
    \/ SyncTaskObject(t)
    \/ SyncDeployment(t)
    \/ SyncService(t)
    \/ SyncRoute(t)

-----------------------------------------------------------------------------
(* The cluster around the operator.                                        *)

\* Changes of the children that are not the worker's.
ClusterChange ==
    UNCHANGED <<storeVars, workerVars, queue, deployCache, svcCache, routeCache,
                timers, gateway>>

\* The garbage collector deletes what a deleted task owned.
GarbageCollect(t) ==
    /\ \/ /\ deploy[t].owner \notin {0, task[t].uid}
          /\ deploy' = [deploy EXCEPT ![t] = NoDeploy]
          /\ UNCHANGED <<svc, route, routeFresh>>
       \/ /\ svc[t] \notin {0, task[t].uid}
          /\ svc' = [svc EXCEPT ![t] = 0]
          /\ UNCHANGED <<deploy, route, routeFresh>>
       \/ /\ route[t].owner \notin {0, task[t].uid}
          /\ ~route[t].del
          /\ StoreRoute(t, RouteDeleted(route[t]))
          /\ UNCHANGED <<deploy, svc>>
    /\ UNCHANGED <<pods, budget>>
    /\ ClusterChange

\* A user deletes a child, or the gateway's controller writes its status.
Interfere(t) ==
    /\ Disturb
    /\ \/ /\ deploy[t] # NoDeploy
          /\ deploy' = [deploy EXCEPT ![t] = NoDeploy]
          /\ UNCHANGED <<svc, route, routeFresh>>
       \/ /\ svc[t] # 0
          /\ svc' = [svc EXCEPT ![t] = 0]
          /\ UNCHANGED <<deploy, route, routeFresh>>
       \/ /\ route[t] # NoRoute
          /\ StoreRoute(t, RouteDeleted(route[t]))
          /\ UNCHANGED <<deploy, svc>>
       \/ /\ route[t] # NoRoute
          /\ StoreRoute(t, route[t])
          /\ UNCHANGED <<deploy, svc>>
    /\ UNCHANGED pods
    /\ ClusterChange

ScaleToZero(t) ==
    /\ t \in Scalable
    /\ deploy[t] # NoDeploy
    /\ ~deploy[t].zero
    /\ deploy' = [deploy EXCEPT ![t].zero = TRUE]
    /\ UNCHANGED <<svc, route, routeFresh, pods, budget>>
    /\ ClusterChange

\* A Deployment's pod runs, fails, recovers; it goes away with its Deployment.
PodChanges(t, status) ==
    /\ status # pods[t]
    /\ status \in FailedPods => t \in Fragile
    /\ CASE status = "none" -> deploy[t] = NoDeploy \/ deploy[t].zero
         [] pods[t] = "none" -> status = "pending" /\ deploy[t] # NoDeploy /\ ~deploy[t].zero
         [] OTHER -> status # "pending" /\ pods[t] \notin {"succeeded", "failed"}
    /\ pods' = [pods EXCEPT ![t] = status]
    /\ UNCHANGED <<deploy, svc, route, routeFresh, budget>>
    /\ ClusterChange

GatewayMoves(address) ==
    /\ address # gateway
    /\ Disturb
    /\ gateway' = address
    /\ UNCHANGED <<storeVars, workerVars, queue, childVars, pods, timers>>

Users(t) ==
    /\ UserCreate(t) \/ UserDelete(t) \/ UserTouch(t)
    /\ UNCHANGED <<childVars, pods, timers, gateway>>

Resync(t) == OtherEvent(t) /\ UNCHANGED <<childVars, pods, timers, gateway>>

Cluster(t) ==
    \/ GarbageCollect(t) \/ Interfere(t) \/ ScaleToZero(t)
    \/ \E status \in PodStates : PodChanges(t, status)

Environment ==
    \/ Restart
    \/ \E address \in URLs : GatewayMoves(address)
    \/ \E t \in Tasks :
          Informers(t) \/ Resync(t) \/ TTLExpires(t) \/ Users(t) \/ Cluster(t)

\* Informers, the garbage collector and sleeping goroutines get on.
EnvironmentFairness ==
    \A t \in Tasks :
        /\ WF_vars(SyncTaskObject(t)) /\ WF_vars(SyncDeployment(t))
        /\ WF_vars(SyncService(t)) /\ WF_vars(SyncRoute(t))
        /\ WF_vars(GarbageCollect(t))
        /\ WF_vars(TTLExpires(t))

-----------------------------------------------------------------------------
(* Correctness.                                                            *)

ClusterTypeOK ==
    /\ deploy \in [Tasks -> [owner: 0..MaxIncarnations, zero: BOOLEAN]]
    /\ deployCache \in [Tasks -> {"absent", "up", "zero"}]
    /\ svc \in [Tasks -> 0..MaxIncarnations]
    /\ svcCache \subseteq Tasks
    /\ route \in [Tasks -> [owner: 0..MaxIncarnations, fin: BOOLEAN, del: BOOLEAN]]
    /\ routeCache \in [Tasks -> {"absent", "held", "bare"}]
    /\ routeFresh \subseteq Tasks
    /\ pods \in [Tasks -> PodStates]
    /\ timers \in [Tasks -> SUBSET (0..MaxIncarnations)]
    /\ gateway \in URLs

\* Every variable has its type, and the worker is idle or at one of `steps`.
TypedIn(steps) == StoreTypeOK /\ WorkerTypeOK(steps) /\ ClusterTypeOK

\* A child owned by the task that exists now is only ever there while the
\* task carries the operator's finalizer: no task with children can vanish
\* without cleanupResources having run (devtask_controller.go:62-67, 83-94).
Owners(t) == {deploy[t].owner, svc[t], route[t].owner} \ {0}

FinalizerGuardsChildren ==
    \A t \in Tasks : task[t].uid \in Owners(t) => task[t].fin

\* Nothing is owned by an object that was never created.
OwnersCreated(t) == Owners(t) \subseteq 1..created[t]

\* No copy of a task knows more than the server, and a handler holds a guarded
\* copy once it is past the steps `unguarded`: inductive, and with it that the
\* finalizer guards the children.
GuardedExcept(unguarded) ==
    /\ \A t \in Tasks : CacheAgrees(t) /\ OwnersCreated(t)
    /\ HandlerAgrees(unguarded)
    /\ FinalizerGuardsChildren

\* What cleanupResources leaves behind when it removes the finalizer, the
\* cache showed too late: the child's event is either still to come or has
\* already queued the task again.  Never is a child missed that the cache
\* showed when its step looked.
CleanupMissesOnlyLateChildren ==
    pc = "removeFinalizer" =>
        /\ deploy[cur].owner = obj.uid =>
              cur \in queue \/ deployCache[cur] # DeployView(deploy[cur])
        /\ svc[cur] = obj.uid => cur \in queue \/ cur \notin svcCache
        /\ route[cur].owner = obj.uid => cur \in queue \/ cur \notin routeFresh

\* The TTL deletes tasks that have completed (devtask_phases.go:278-285).
TTLSparesUnfinished ==
    [][\A t \in Tasks :
          TTLExpires(t) /\ task'[t] # task[t] => task[t].phase = "completed"]_vars

\* The controller implements the lifecycle its users see.
PhaseEdges ==
    {<<"creating", "running">>, <<"creating", "failed">>, <<"running", "creating">>,
     <<"running", "completed">>, <<"running", "failed">>}

Lifecycle ==
    INSTANCE TaskLifecycle WITH
        life <- Life, Start <- "creating", Edges <- PhaseEdges, Withdrawing <- FALSE

LifecycleSpec == Lifecycle!Spec

\* A task comes up or fails; it never hangs on the way.
StartsUp ==
    \A t \in Tasks :
        Exists(task[t]) /\ task[t].phase \in {Unset, "creating"}
            ~> ~Exists(task[t]) \/ task[t].del \/ task[t].phase \notin {Unset, "creating"}

\* A running task ends up backed by a Deployment of its own, also after the
\* Deployment was deleted or inherited from a predecessor.
RunningHasDeployment ==
    \A t \in Tasks :
        <>[](task[t].phase = "running" /\ ~task[t].del => deploy[t].owner = task[t].uid)

\* The URL a running task shows is the one the gateway has.
URLFollowsGateway ==
    \A t \in Routed :
        <>[](task[t].phase = "running" /\ ~task[t].del => task[t].url = gateway)

\* A completed task with a TTL goes, even if goroutines die with the process
\* or their Delete fails, given the cache's periodic resync (every ten hours
\* unless SyncPeriod is set, and cmd/main.go does not set it).
CompletedTaskExpires ==
    (\A t \in Tasks : WF_vars(Resync(t)))
        => \A t \in WithTTL : task[t].phase = "completed" ~> ~Exists(task[t])
=============================================================================
