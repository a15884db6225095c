---------------------------- MODULE InferenceTask ----------------------------
(***************************************************************************)
(* The InferenceTask controller (internal/controller/inference).  Unlike   *)
(* DevTask's, its Reconcile makes one update and returns until label and   *)
(* finalizer are there, its routes carry no finalizer, its pods are listed *)
(* per task, and the external URL reaches the status only on the way into  *)
(* the running phase.                                                      *)
(***************************************************************************)
EXTENDS DeployedTask

CONSTANT
    ScaledFromZero    \* tasks with autoScaling whose minReplicas is zero, the default

ASSUME InferenceTaskAssumption == ScaledFromZero \subseteq Tasks

-----------------------------------------------------------------------------
(* Reconcile.                                                              *)

\* Fault: the switch has no case for the creating phase.
PhaseStepNeverCreating(o) ==
    CASE o.phase = Unset      -> "pending"
      [] o.phase = "running"  -> "running"
      [] o.phase = "creating" -> "idle"
      [] OTHER                -> IF o.end THEN "finish" ELSE "endTime"

PhaseStep(o) ==
    CASE o.phase = Unset      -> "pending"
      [] o.phase = "creating" -> "creating"
      [] o.phase = "running"  -> "running"
      [] OTHER                -> IF o.end THEN "finish" ELSE "endTime"

\* Fault: the deletionTimestamp is looked at last.
EntryStepDeletingLast(o) ==
    CASE ~Exists(o)                          -> "idle"
      [] Exists(o) /\ ~o.label               -> "label"
      [] Exists(o) /\ o.label /\ ~o.fin      -> "addFinalizer"
      [] OTHER                               -> PhaseStep(o)

\* Fault: the phases are handled without the finalizer.
EntryStepUnguarded(o) ==
    CASE Exists(o) /\ ~o.label                       -> "label"
      [] Exists(o) /\ o.label /\ o.del /\ o.fin      -> "deleteDeployment"
      [] Exists(o) /\ o.label /\ ~o.del              -> PhaseStep(o)
      [] OTHER                                       -> "idle"

EntryStep(o) ==
    CASE Exists(o) /\ ~o.label                       -> "label"
      [] Exists(o) /\ o.label /\ o.del /\ o.fin      -> "deleteDeployment"
      [] Exists(o) /\ o.label /\ ~o.del /\ ~o.fin    -> "addFinalizer"
      [] Exists(o) /\ o.label /\ ~o.del /\ o.fin     -> PhaseStep(o)
      [] OTHER                                       -> "idle"

Reconcile(t) ==
    /\ Dispatch(t, EntryStep(cache[t]))
    /\ UNCHANGED <<created, childVars, pods, timers, gateway>>

\* Fault: an error of the Update ends the reconcile.
LabelTaskUnchecked ==
    /\ pc = "label"
    /\ UpdateTask(objFresh, [obj EXCEPT !.label = TRUE], Done, Done)
    /\ UNCHANGED <<childVars, pods, timers, gateway>>

LabelTask ==
    /\ pc = "label"
    /\ UpdateTask(objFresh, [obj EXCEPT !.label = TRUE], Done, Retry)
    /\ UNCHANGED <<childVars, pods, timers, gateway>>

AddFinalizer ==
    /\ pc = "addFinalizer"
    /\ UpdateTask(objFresh, [obj EXCEPT !.fin = TRUE], Done, Retry)
    /\ UNCHANGED <<childVars, pods, timers, gateway>>

\* handlePendingPhase writes to the copy it reads again, which may be of a
\* later object than the one dispatched.
StartTask ==
    /\ pc = "pending"
    /\ LET o == cache[cur] IN
       CASE ~Exists(o) -> Retry /\ UNCHANGED <<storeVars, budget>>
         [] Exists(o) /\ o.phase # Unset -> Done /\ UNCHANGED <<storeVars, budget>>
         [] OTHER -> UpdateTask(cur \in fresh, [o EXCEPT !.phase = "creating"], Done, Retry)
    /\ UNCHANGED <<childVars, pods, timers, gateway>>

-----------------------------------------------------------------------------
(* handleCreatingPhase.                                                    *)

\* The URL is set if there is none yet.
ConcludeRunning ==
    Continue("status", [WithPhase("running") EXCEPT
                           !.url = IF cur \in Routed /\ @ = NoURL THEN gateway ELSE @])

\* Fault: no replica unless autoScaling asks for some.
ZeroByDefault == cur \notin ScaledFromZero

\* BuildInferenceDeployment asks for one replica, or for minReplicas.
Zero == cur \in ScaledFromZero

EnsureDeployment ==
    /\ pc = "creating"
    /\ IF deployCache[cur] = "absent"
       THEN CreateDeployment(Zero, Continue("createService", obj), Conclude("failed"))
       ELSE Continue("createService", obj) /\ UNCHANGED <<deploy, budget>>
    /\ UNCHANGED <<storeVars, deployCache, svc, svcCache, route, routeCache, routeFresh,
                   pods, timers, gateway>>

CreateService ==
    /\ pc = "createService"
    /\ EnsureServiceThen(IF cur \in Routed THEN Continue("createRoute", obj)
                                           ELSE ConcludeRunning,
                         Retry)
    /\ UNCHANGED timers

CreateHTTPRoute ==
    /\ pc = "createRoute"
    /\ EnsureRouteThen(FALSE, ConcludeRunning)
    /\ UNCHANGED timers

-----------------------------------------------------------------------------
(* handleRunningPhase and handleFinishedPhase.                             *)

\* The pods are listed by the task's name.
ListedPods == {pods[cur]}

\* Fault: a running task's Deployment is not recreated.
CheckRunningOnlyPods ==
    /\ pc = "running"
    /\ IF deployCache[cur] = "absent"
       THEN Continue("ensureService", obj) /\ UNCHANGED <<fresh, budget>>
       ELSE CheckPods(ListedPods)
    /\ UNCHANGED <<task, created, cache, childVars, pods, timers, gateway>>

CheckRunning ==
    /\ pc = "running"
    /\ CheckDeployment(Zero, ListedPods)

EnsureService ==
    /\ pc = "ensureService"
    /\ LET next == IF cur \in Routed THEN Continue("ensureRoute", obj) ELSE Retry
       IN  EnsureServiceThen(next, next)
    /\ UNCHANGED timers

\* After the route the URL is put into the copy, which is then dropped.
EnsureHTTPRoute ==
    /\ pc = "ensureRoute"
    /\ EnsureRouteThen(FALSE, Retry)
    /\ UNCHANGED timers

StampEndTime ==
    /\ pc = "endTime"
    /\ LET o == [obj EXCEPT !.end = TRUE]
       IN  UpdateTask(objFresh, o, Continue("finish", o), Retry)
    /\ UNCHANGED <<childVars, pods, timers, gateway>>

Finish ==
    /\ pc = "finish"
    /\ StartTimer
    /\ Done
    /\ UNCHANGED <<storeVars, budget, childVars, pods, gateway>>

-----------------------------------------------------------------------------
(* handleDeletion and cleanupResources.  Here NotFound is always ignored.  *)

DeleteDeployment ==
    /\ pc = "deleteDeployment"
    /\ DropDeployment(Continue("deleteService", obj))

\* Fault: an error of Delete is logged and cleanup goes on.
DeleteServiceUnchecked ==
    /\ pc = "deleteService"
    /\ Continue("deleteRoute", obj)
    /\ \/ svc' = [svc EXCEPT ![cur] = 0] /\ UNCHANGED budget
       \/ UNCHANGED svc /\ Disturb
    /\ UNCHANGED <<storeVars, deploy, deployCache, svcCache, route, routeCache, routeFresh,
                   pods, timers, gateway>>

DeleteService ==
    /\ pc = "deleteService"
    /\ IF cur \notin svcCache
       THEN Continue("deleteRoute", obj) /\ UNCHANGED <<svc, budget>>
       ELSE \/ /\ svc' = [svc EXCEPT ![cur] = 0]
               /\ \/ Continue("deleteRoute", obj) /\ UNCHANGED budget
                  \/ svc[cur] # 0 /\ Retry /\ Disturb
            \/ Retry /\ Disturb /\ UNCHANGED svc
    /\ UNCHANGED <<storeVars, deploy, deployCache, svcCache, route, routeCache, routeFresh,
                   pods, timers, gateway>>

\* No route of an inference task ever has the finalizer that cleanup removes.
DeleteRoute ==
    /\ pc = "deleteRoute"
    /\ IF routeCache[cur] = "absent"
       THEN Continue("removeFinalizer", obj) /\ UNCHANGED <<route, routeFresh, budget>>
       ELSE \/ /\ IF route[cur] = NoRoute THEN UNCHANGED <<route, routeFresh>>
                                          ELSE StoreRoute(cur, RouteDeleted(route[cur]))
               /\ \/ Continue("removeFinalizer", obj) /\ UNCHANGED budget
                  \/ route[cur] # NoRoute /\ Retry /\ Disturb
            \/ Retry /\ Disturb /\ UNCHANGED <<route, routeFresh>>
    /\ UNCHANGED <<storeVars, deploy, deployCache, svc, svcCache, routeCache,
                   pods, timers, gateway>>

-----------------------------------------------------------------------------
HandlerStep ==
    \/ LabelTask \/ AddFinalizer \/ StartTask \/ EnsureDeployment \/ CreateService
    \/ CreateHTTPRoute \/ UpdateStatus \/ CheckRunning \/ EnsureService
    \/ EnsureHTTPRoute \/ StampEndTime \/ Finish \/ DeleteDeployment
    \/ DeleteService \/ DeleteRoute \/ RemoveFinalizer

Next == HandlerStep \/ Environment \/ \E t \in Tasks : Reconcile(t)

Spec == Init /\ [][Next]_vars

\* The worker takes every step it can and the queue hands out every key in turn.
Fairness ==
    /\ WF_vars(HandlerStep)
    /\ \A t \in Tasks : SF_vars(Reconcile(t))
    /\ EnvironmentFairness

FairSpec == Spec /\ Fairness

-----------------------------------------------------------------------------
(* Correctness; what InferenceTask shares with DevTask is in DeployedTask.  *)

WorkSteps ==
    {"label", "addFinalizer", "pending", "creating", "createService", "createRoute", "status",
     "running", "ensureService", "ensureRoute", "endTime", "finish",
     "deleteDeployment", "deleteService", "deleteRoute", "removeFinalizer"}

\* Every variable has its type, and the worker has a task iff it is not idle.
TypeOK == TypedIn(WorkSteps)

\* The finalizer guards the children: a handler past label and finalizer
\* holds a guarded copy, although handlePendingPhase reads the task again.
Guarded == GuardedExcept({"label", "addFinalizer"})

\* A task ends for a cause of its own.  It fails because of its own pod, or
\* because its Deployment's Create was refused; it completes because its pod
\* succeeded or its Deployment has no replicas - somebody scaled it to zero, or
\* it was built that way.  A Deployment that is gone has taken the evidence
\* with it (inference_phases.go:82-86, 153-194).
OutcomeHasACause ==
    [][\A t \in Tasks :
          /\ task[t].phase # "failed" /\ task'[t].phase = "failed" =>
                \/ task[t].phase = "running" /\ t \in Fragile
                \/ /\ task[t].phase = "creating"
                   /\ budget < MaxDisturbances \/ deploy[t] # NoDeploy \/ created[t] > 1
          /\ task[t].phase # "completed" /\ task'[t].phase = "completed" =>
                \/ t \in Scalable \cup ScaledFromZero
                \/ pods[t] = "succeeded" \/ deploy[t] = NoDeploy]_vars
=============================================================================
