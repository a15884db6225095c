---------------------------- MODULE FineTuneTask ----------------------------
(***************************************************************************)
(* The FineTuneTask controller (internal/controller/finetunetask): a Job   *)
(* trains, a Service and a Deployment show a web UI.  No handler ever      *)
(* looks at the Job, so a task stays in running until a user writes its    *)
(* status or deletes it, and a Job that has ended is created again once    *)
(* its TTL has removed it.  cleanupResources also looks for an HTTPRoute,  *)
(* which nothing creates; that step is left out.                           *)
(***************************************************************************)
EXTENDS JobTask

VARIABLES
    web,         \* the web UI of each task on the server: the parts' owners
    webCache     \* the parts the informers show

webVars == <<web, webCache>>
vars == <<controllerVars, jobVars, webVars>>

Parts == {"service", "deployment"}
NoWeb == [p \in Parts |-> 0]
PartsOf(w) == {p \in Parts : w[p] # 0}

FineTuneInit ==
    /\ Init
    /\ web = [t \in Tasks |-> NoWeb]
    /\ webCache = [t \in Tasks |-> {}]

-----------------------------------------------------------------------------
(* The running phase.                                                      *)

EnsureJob ==
    /\ pc = "ensureJob"
    /\ EnsureJobThen(Continue("ensureService", obj))
    /\ UNCHANGED webVars

\* A part that is there already ends ensureWebUI, whatever becomes of the rest.
EnsurePartThen(part, next) ==
    /\ IF part \in webCache[cur]
       THEN Retry /\ UNCHANGED <<web, budget>>
       ELSE Create(web[cur][part] = 0, web' = [web EXCEPT ![cur][part] = obj.uid],
                   UNCHANGED web, next, Retry)
    /\ UNCHANGED <<storeVars, jobVars, webCache>>

\* Fault: after the Service ensureWebUI returns.
EnsureServiceOnly == pc = "ensureService" /\ EnsurePartThen("service", Retry)

EnsureService ==
    /\ pc = "ensureService"
    /\ EnsurePartThen("service", Continue("ensureDeployment", obj))

EnsureDeployment == pc = "ensureDeployment" /\ EnsurePartThen("deployment", Retry)

-----------------------------------------------------------------------------
(* cleanupResources, for a task that is being deleted or is finished.      *)

DeleteJob ==
    /\ pc = "deleteJob"
    /\ DeleteJobThen(Continue("deleteService", obj))
    /\ UNCHANGED webVars

\* Deletes the part if the cache shows it; that it is gone already is no error.
DeletePartThen(part, next) ==
    /\ IF part \notin webCache[cur]
       THEN next /\ UNCHANGED <<web, budget>>
       ELSE \/ /\ web' = [web EXCEPT ![cur][part] = 0]
               /\ \/ next /\ UNCHANGED budget
                  \/ web[cur][part] # 0 /\ Retry /\ Disturb
            \/ Retry /\ Disturb /\ UNCHANGED web
    /\ UNCHANGED <<storeVars, jobVars, webCache>>

\* Fault: an error of Delete is logged and cleanup goes on.
DeleteServiceUnchecked ==
    /\ pc = "deleteService"
    /\ Continue("deleteDeployment", obj)
    /\ \/ web' = [web EXCEPT ![cur]["service"] = 0] /\ UNCHANGED budget
       \/ UNCHANGED web /\ Disturb
    /\ UNCHANGED <<storeVars, jobVars, webCache>>

DeleteService ==
    /\ pc = "deleteService"
    /\ DeletePartThen("service", Continue("deleteDeployment", obj))

\* Fault: cleanup ends with the Service.
KeepDeployment ==
    /\ pc = "deleteDeployment"
    /\ Continue("removeFinalizer", obj)
    /\ UNCHANGED <<storeVars, budget, jobVars, webVars>>

DeleteDeployment ==
    /\ pc = "deleteDeployment"
    /\ DeletePartThen("deployment", Continue("removeFinalizer", obj))

-----------------------------------------------------------------------------
(* The cluster and the users.                                              *)

\* A watch event of the Service or the Deployment brings the cache up to date.
SyncPart(t, p) ==
    /\ p \in webCache[t] <=> web[t][p] = 0
    /\ webCache' = [webCache EXCEPT ![t] =
                        IF web[t][p] = 0 THEN @ \ {p} ELSE @ \cup {p}]
    /\ queue' = queue \cup {t}
    /\ UNCHANGED <<storeVars, workerVars, budget, jobVars, web>>

LosePart(t, p) ==
    /\ web' = [web EXCEPT ![t][p] = 0]
    /\ UNCHANGED <<storeVars, workerVars, queue, jobVars, webCache>>

GarbageCollectPart(t, p) ==
    web[t][p] \notin {0, task[t].uid} /\ LosePart(t, p) /\ UNCHANGED budget

\* A user deletes a part of the web UI.
UserDeletesPart(t, p) == web[t][p] # 0 /\ LosePart(t, p) /\ Disturb

\* Five minutes after its end the Job is gone.
JobExpires(t) ==
    job[t].status \in {"succeeded", "failed"} /\ JobBecomes(t, NoJob) /\ UNCHANGED budget

\* UpdateStatus of the SDK: the only way a FineTuneTask ends.
UserEndsTask(t) ==
    /\ task[t].phase = "running" /\ ~task[t].del
    /\ \E phase \in Terminal : Overwrite(t, [task[t] EXCEPT !.phase = phase])
    /\ UNCHANGED <<created, budget, jobVars>>

-----------------------------------------------------------------------------

JobSteps == AddFinalizer \/ LabelTask \/ StartTask \/ StampEndTime \/ RemoveFinalizer

HandlerStep ==
    \/ JobSteps /\ UNCHANGED webVars
    \/ EnsureJob \/ EnsureService \/ EnsureDeployment
    \/ DeleteJob \/ DeleteService \/ DeleteDeployment

Dispatched(t) == Reconcile(t) /\ UNCHANGED webVars
TaskSynced(t) == SyncTaskObject(t) /\ UNCHANGED webVars
JobSynced(t) == SyncJob(t) /\ UNCHANGED webVars
JobCollected(t) == GarbageCollect(t) /\ UNCHANGED webVars

Environment(t) ==
    \/ (Resync(t) \/ Users(t) \/ UserEndsTask(t) \/ Cluster(t) \/ JobExpires(t))
          /\ UNCHANGED webVars
    \/ \E p \in Parts :
          SyncPart(t, p) \/ GarbageCollectPart(t, p) \/ UserDeletesPart(t, p)

Next ==
    \/ HandlerStep
    \/ Restart /\ UNCHANGED webVars
    \/ \E t \in Tasks :
          Dispatched(t) \/ TaskSynced(t) \/ JobSynced(t) \/ Environment(t)

Spec == FineTuneInit /\ [][Next]_vars

\* As for the other controllers.
Fairness ==
    /\ WF_vars(HandlerStep)
    /\ \A t \in Tasks :
          /\ SF_vars(Dispatched(t))
          /\ WF_vars(TaskSynced(t)) /\ WF_vars(JobSynced(t)) /\ WF_vars(JobCollected(t))
          /\ \A p \in Parts : WF_vars(SyncPart(t, p)) /\ WF_vars(GarbageCollectPart(t, p))

FairSpec == Spec /\ Fairness

-----------------------------------------------------------------------------
(* Correctness.                                                            *)

WorkSteps ==
    {"addFinalizer", "label", "start", "ensureJob", "ensureService", "ensureDeployment",
     "endTime", "deleteJob", "deleteService", "deleteDeployment", "removeFinalizer"}

\* Every variable has its type, and the worker has a task iff it is not idle.
TypeOK ==
    /\ StoreTypeOK /\ WorkerTypeOK(WorkSteps) /\ JobTypeOK
    /\ web \in [Tasks -> [Parts -> 0..MaxIncarnations]]
    /\ webCache \in [Tasks -> SUBSET Parts]

\* The Job and the web UI of an unfinished task are only ever there while the
\* task carries the operator's finalizer (finetunetask_controller.go:74-80).
FinalizerGuardsWork ==
    /\ FinalizerGuardsJob
    /\ \A t \in Tasks :
          task[t].uid \in {web[t][p] : p \in Parts} \ {0} /\ task[t].phase \notin Terminal
              => task[t].fin

\* Inductive, and with it that the finalizer guards the work: no copy of a task
\* knows more than the server, no part of the web UI belongs to a task that was
\* never created, and only a finished task loses the finalizer while it lives on.
Guarded ==
    /\ TypeOK /\ CachesAgree /\ HandlerGuarded /\ JobOwned
    /\ \A t \in Tasks : \A p \in Parts : web[t][p] <= created[t]
    /\ FinalizerGuardsWork

\* What cleanup leaves behind when it lets go of a task, the caches showed too
\* late: an event is still to come or has queued the task already
\* (finetunetask_controller.go:189-236).
CleanupMissesOnlyLateWork ==
    /\ CleanupMissesOnlyLateJobs
    /\ pc = "removeFinalizer" =>
          \A p \in Parts :
              web[cur][p] = obj.uid =>
                  cur \in queue \/ p \notin webCache[cur]

\* The Job and the web UI of a task that has been finished go and stay away,
\* although its finalizer comes and goes and handlers work from stale copies.
FinishedWorkGoes ==
    \A t \in Tasks :
        <>[](task[t].phase \in Terminal => job[t] = NoJob /\ web[t] = NoWeb)

\* A first task under its name that runs on undisturbed gets both parts of its
\* web UI.  After a refused Create of the Deployment, or a predecessor whose
\* Deployment is still there, it need not (finetunetask_controller.go:391-394).
Undisturbed(t) == created[t] = 1 /\ budget = MaxDisturbances

WebUIComesUp ==
    \A t \in Tasks :
        task[t].phase = "running" /\ Undisturbed(t) ~>
            \/ PartsOf(web[t]) = Parts \/ ~Undisturbed(t)
            \/ task[t].phase # "running" \/ task[t].del
=============================================================================
