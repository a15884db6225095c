------------------------------- MODULE DevTask -------------------------------
(***************************************************************************)
(* The DevTask controller (internal/controller/devtask): Reconcile and its *)
(* phase handlers, one action per step that ends in a write to the API     *)
(* server.                                                                 *)
(***************************************************************************)
EXTENDS DeployedTask

CONSTANT
    Framework    \* the framework of each task

-----------------------------------------------------------------------------
(* Reconcile.                                                              *)

\* Fault: a finished task is left alone once its end time is stamped.
PhaseStepFinishedOnce(o) ==
    CASE o.phase = Unset      -> "pending"
      [] o.phase = "creating" -> "creating"
      [] o.phase = "running"  -> "running"
      [] OTHER                -> IF o.end THEN "idle" ELSE "endTime"

PhaseStep(o) ==
    CASE o.phase = Unset      -> "pending"
      [] o.phase = "creating" -> "creating"
      [] o.phase = "running"  -> "running"
      [] OTHER                -> IF o.end THEN "ensureService" ELSE "endTime"

\* Fault: the phases are handled without the finalizer.
EntryStepUnguarded(o) ==
    CASE Exists(o) /\ o.del /\ o.fin -> "deleteDeployment"
      [] Exists(o) /\ ~o.del         -> PhaseStep(o)
      [] OTHER                       -> "idle"

EntryStep(o) ==
    CASE Exists(o) /\ o.del /\ o.fin   -> "deleteDeployment"
      [] Exists(o) /\ ~o.del /\ ~o.fin -> "addFinalizer"
      [] Exists(o) /\ ~o.del /\ o.fin  -> PhaseStep(o)
      [] OTHER                         -> "idle"

Reconcile(t) ==
    /\ Dispatch(t, EntryStep(cache[t]))
    /\ UNCHANGED <<created, childVars, pods, timers, gateway>>

AddFinalizer ==
    /\ pc = "addFinalizer"
    /\ LET o == [obj EXCEPT !.fin = TRUE]
       IN  UpdateTask(objFresh, o, Continue(PhaseStep(o), o), Retry)
    /\ UNCHANGED <<childVars, pods, timers, gateway>>

-----------------------------------------------------------------------------
(* handlePendingPhase: it reads the task from the cache three times, first  *)
(* to look at the phase again, then before each of its two writes; the     *)
(* phase is not looked at again after the first.                           *)

RecheckPhase ==
    /\ pc = "pending"
    /\ IF ~Exists(cache[cur]) THEN Retry
       ELSE IF cache[cur].phase # Unset THEN Done ELSE Continue("label", obj)
    /\ UNCHANGED <<storeVars, budget, childVars, pods, timers, gateway>>

LabelTask ==
    /\ pc = "label"
    /\ IF Exists(cache[cur])
       THEN UpdateTask(cur \in fresh, [cache[cur] EXCEPT !.label = TRUE],
                       Continue("start", obj), Retry)
       ELSE Retry /\ UNCHANGED <<storeVars, budget>>
    /\ UNCHANGED <<childVars, pods, timers, gateway>>

\* Fault: an error of the status update ends the reconcile.
StartTaskUnchecked ==
    /\ pc = "start"
    /\ LET o == cache[cur] IN
       IF Exists(o)
       THEN UpdateTask(cur \in fresh, [o EXCEPT !.phase = "creating"], Done, Done)
       ELSE Retry /\ UNCHANGED <<storeVars, budget>>
    /\ UNCHANGED <<childVars, pods, timers, gateway>>

\* The server already has the phase: only the start time is written again.
RestampStart ==
    /\ task[cur].phase = "creating"
    /\ cur \in fresh
    /\ fresh' = fresh \ {cur}
    /\ Done
    /\ UNCHANGED <<task, created, cache, budget>>

StartTask ==
    /\ pc = "start"
    /\ LET o == cache[cur] IN
       IF Exists(o)
       THEN \/ UpdateTask(cur \in fresh, [o EXCEPT !.phase = "creating"], Done, Retry)
            \/ RestampStart
       ELSE Retry /\ UNCHANGED <<storeVars, budget>>
    /\ UNCHANGED <<childVars, pods, timers, gateway>>

-----------------------------------------------------------------------------
(* handleCreatingPhase.                                                    *)

ConcludeRunning ==
    Continue("status", [WithPhase("running") EXCEPT
                           !.url = IF cur \in Routed THEN gateway ELSE @])

\* handleCreatingPhase up to the Deployment: any error of Create, AlreadyExists
\* included, fails the task.
EnsureDeployment ==
    /\ pc = "creating"
    /\ IF deployCache[cur] = "absent"
       THEN CreateDeployment(FALSE, Continue("createService", obj), Conclude("failed"))
       ELSE Continue("createService", obj) /\ UNCHANGED <<deploy, budget>>
    /\ UNCHANGED <<storeVars, deployCache, svc, svcCache, route, routeCache, routeFresh,
                   pods, timers, gateway>>

CreateService ==
    /\ pc = "createService"
    /\ EnsureServiceThen(IF cur \in Routed THEN Continue("createRoute", obj)
                                           ELSE ConcludeRunning,
                         Retry)
    /\ UNCHANGED timers

CreateHTTPRoute ==
    /\ pc = "createRoute"
    /\ EnsureRouteThen(TRUE, ConcludeRunning)
    /\ UNCHANGED timers

-----------------------------------------------------------------------------
(* handleRunningPhase.                                                     *)

\* Fault: the list is not filtered at all.
AllPods == {pods[t] : t \in Tasks}

\* The pods are listed by framework and task type, not by task.
ListedPods == {pods[t] : t \in {u \in Tasks : Framework[u] = Framework[cur]}}

\* Fault: a running task's Deployment is not recreated.
CheckRunningOnlyPods ==
    /\ pc = "running"
    /\ IF deployCache[cur] = "absent"
       THEN Continue("ensureService", obj) /\ UNCHANGED <<fresh, budget>>
       ELSE CheckPods(ListedPods)
    /\ UNCHANGED <<task, created, cache, childVars, pods, timers, gateway>>

CheckRunning ==
    /\ pc = "running"
    /\ CheckDeployment(FALSE, ListedPods)

\* Shared by the running and the finished handlers, which part ways after it:
\* the first goes on to the external URL or returns with RequeueAfter, the
\* second starts the TTL goroutine and returns.
FinishOrPoll ==
    IF obj.phase = "running" THEN Retry /\ UNCHANGED timers
                             ELSE Done /\ StartTimer

EnsureService ==
    /\ pc = "ensureService"
    /\ LET next == IF cur \in Routed THEN Continue("ensureRoute", obj) /\ UNCHANGED timers
                                     ELSE FinishOrPoll
       IN  EnsureServiceThen(next, next)

EnsureHTTPRoute ==
    /\ pc = "ensureRoute"
    /\ EnsureRouteThen(
           TRUE,
           IF obj.phase = "running"
           THEN Continue("url", [obj EXCEPT !.url = gateway]) /\ UNCHANGED timers
           ELSE FinishOrPoll)

\* Fault: the URL is set in memory and never written.
ForgetURL ==
    /\ pc = "url"
    /\ Retry
    /\ UNCHANGED <<storeVars, budget, childVars, pods, timers, gateway>>

UpdateURL ==
    /\ pc = "url"
    /\ UpdateTask(objFresh, obj, Retry, Retry)
    /\ UNCHANGED <<childVars, pods, timers, gateway>>

\* handleFinishedPhase begins by stamping the end time.
StampEndTime ==
    /\ pc = "endTime"
    /\ LET o == [obj EXCEPT !.end = TRUE]
       IN  UpdateTask(objFresh, o, Continue("ensureService", o), Retry)
    /\ UNCHANGED <<childVars, pods, timers, gateway>>

-----------------------------------------------------------------------------
(* handleDeletion and cleanupResources: each child is deleted if the cache *)
(* shows it.                                                               *)

\* Fault: an error of Delete is logged and cleanup goes on.
DeleteDeploymentUnchecked ==
    /\ pc = "deleteDeployment"
    /\ Continue("deleteService", obj)
    /\ \/ deploy' = [deploy EXCEPT ![cur] = NoDeploy] /\ UNCHANGED budget
       \/ UNCHANGED deploy /\ Disturb
    /\ UNCHANGED <<storeVars, deployCache, svc, svcCache, route, routeCache, routeFresh,
                   pods, timers, gateway>>

DeleteDeployment ==
    /\ pc = "deleteDeployment"
    /\ DropDeployment(Continue("deleteService", obj))

\* DeleteService does not ignore NotFound.
DeleteService ==
    /\ pc = "deleteService"
    /\ IF cur \notin svcCache
       THEN Continue("releaseRoute", obj) /\ UNCHANGED <<svc, budget>>
       ELSE \/ /\ svc[cur] # 0
               /\ svc' = [svc EXCEPT ![cur] = 0]
               /\ \/ Continue("releaseRoute", obj) /\ UNCHANGED budget
                  \/ Retry /\ Disturb
            \/ svc[cur] = 0 /\ Retry /\ UNCHANGED <<svc, budget>>
            \/ Retry /\ Disturb /\ UNCHANGED svc
    /\ UNCHANGED <<storeVars, deploy, deployCache, svcCache, route, routeCache, routeFresh,
                   pods, timers, gateway>>

\* CleanupHTTPRoute looks for the task's routes by name, then by label, and takes
\* the finalizer off each before it deletes it: NotFound is ignored, a conflict
\* is not.
ReleaseThen(delete, pass) ==
    /\ LET released == IF route[cur].del THEN NoRoute ELSE [route[cur] EXCEPT !.fin = FALSE]
           present == route[cur].owner # 0
           same == UNCHANGED <<route, routeFresh>>
       IN  CASE routeCache[cur] = "absent" -> Continue(pass, obj) /\ same /\ UNCHANGED budget
             [] routeCache[cur] = "bare" -> Continue(delete, obj) /\ same /\ UNCHANGED budget
             [] OTHER ->
                   \/ /\ present /\ cur \in routeFresh
                      /\ StoreRoute(cur, released)
                      /\ \/ Continue(delete, obj) /\ UNCHANGED budget
                         \/ Retry /\ Disturb
                   \/ ~present /\ Continue(delete, obj) /\ same /\ UNCHANGED budget
                   \/ present /\ cur \notin routeFresh /\ Retry /\ same /\ UNCHANGED budget
                   \/ Retry /\ Disturb /\ same
    /\ UNCHANGED <<storeVars, deploy, deployCache, svc, svcCache, routeCache,
                   pods, timers, gateway>>

DropRouteThen(next) ==
    /\ \/ /\ IF route[cur] = NoRoute THEN UNCHANGED <<route, routeFresh>>
                                     ELSE StoreRoute(cur, RouteDeleted(route[cur]))
          /\ \/ Continue(next, obj) /\ UNCHANGED budget
             \/ Retry /\ Disturb
       \/ Retry /\ Disturb /\ UNCHANGED <<route, routeFresh>>
    /\ UNCHANGED <<storeVars, deploy, deployCache, svc, svcCache, routeCache,
                   pods, timers, gateway>>

ReleaseRoute == pc = "releaseRoute" /\ ReleaseThen("deleteRoute", "releaseListed")
DeleteRoute == pc = "deleteRoute" /\ DropRouteThen("releaseListed")
ReleaseListed == pc = "releaseListed" /\ ReleaseThen("deleteListed", "removeFinalizer")
DeleteListed == pc = "deleteListed" /\ DropRouteThen("removeFinalizer")

\* An error of the List is not looked at.
SkipListed ==
    /\ pc = "releaseListed"
    /\ Continue("removeFinalizer", obj)
    /\ Disturb
    /\ UNCHANGED <<storeVars, childVars, pods, timers, gateway>>

-----------------------------------------------------------------------------
HandlerStep ==
    \/ AddFinalizer \/ RecheckPhase \/ LabelTask \/ StartTask \/ EnsureDeployment \/ CreateService
    \/ CreateHTTPRoute \/ UpdateStatus \/ CheckRunning \/ EnsureService
    \/ EnsureHTTPRoute \/ UpdateURL \/ StampEndTime \/ DeleteDeployment
    \/ DeleteService \/ ReleaseRoute \/ DeleteRoute \/ ReleaseListed \/ SkipListed
    \/ DeleteListed \/ RemoveFinalizer

Next == HandlerStep \/ Environment \/ \E t \in Tasks : Reconcile(t)

Spec == Init /\ [][Next]_vars

\* The worker takes every step it can and the queue hands out every key in turn.
Fairness ==
    /\ WF_vars(HandlerStep)
    /\ \A t \in Tasks : SF_vars(Reconcile(t))
    /\ EnvironmentFairness

FairSpec == Spec /\ Fairness

-----------------------------------------------------------------------------
(* Correctness; what DevTask shares with other tasks is in DeployedTask.    *)

WorkSteps ==
    {"addFinalizer", "pending", "label", "start", "creating", "createService", "createRoute",
     "status", "running", "ensureService", "ensureRoute", "url", "endTime",
     "deleteDeployment", "deleteService", "releaseRoute", "deleteRoute",
     "releaseListed", "deleteListed", "removeFinalizer"}

\* Every variable has its type, and the worker has a task iff it is not idle.
TypeOK == TypedIn(WorkSteps)

\* The finalizer guards the children: a handler past its first write holds a
\* guarded copy.
Guarded == GuardedExcept({"addFinalizer"})

\* A task fails only for a cause.  A running one needs a pod that can fail of
\* its own framework (the handler lists pods by framework, so a neighbour's
\* count).  A creating one needs a refused Create of its Deployment: a
\* disturbance, or the name is taken - by a predecessor's Deployment or, when
\* caches lag, by its own (devtask_phases.go:106-110, 187-205).
FailureHasACause ==
    [][\A t \in Tasks :
          task[t].phase # "failed" /\ task'[t].phase = "failed" =>
              \/ /\ task[t].phase = "running"
                 /\ \E u \in Fragile : Framework[u] = Framework[t]
              \/ /\ task[t].phase = "creating"
                 /\ budget < MaxDisturbances \/ deploy[t] # NoDeploy \/ created[t] > 1]_vars

=============================================================================
