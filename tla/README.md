# kai-operator: models, checks and proofs

This directory holds TLA+ specifications of the operator in this repository,
the TLC configurations that model-check them on small instances, and theorems
about them that the TLA+ proof system (TLAPS) checks. Every definition is
translated from the source; `PROJECT.json` (`map`) names the lines.

1. [The system](#1-the-system): components, state, operations, interactions
2. [What is hard about it](#2-what-is-hard-about-it)
3. [Plan](#3-plan): modules, abstract specifications, runs, theorems
4. [The modules and the code](#4-the-modules-and-the-code)
5. [What the runs check](#5-what-the-runs-check), with bounds and fairness
6. [What is proved](#6-what-is-proved)
7. [What the models showed](#7-what-the-models-showed)
8. [What is not modelled](#8-what-is-not-modelled)

## 1. The system

The operator is one Go process (`src/cmd/main.go`) built on controller-runtime.
It manages five custom resources, one controller each. A controller has a work
queue of object names and one worker: `Reconcile` is called for one name at a
time. Reads go to a cache that informers fill from watch events; writes go to
the API server, which refuses an update whose `resourceVersion` is not the
current one. A handler that returns an error, or `RequeueAfter`, is called
again later; one that returns `Result{}, nil` is called again only when some
event enqueues the name.

| component | state it keeps | operations | talks to |
|---|---|---|---|
| DevTask controller (`internal/controller/devtask`) | the task's phase, message, start and end time, URL, framework label and finalizer on the API server; sleeping TTL goroutines in memory | `Reconcile`, `handlePendingPhase`, `handleCreatingPhase`, `handleRunningPhase`, `handleFinishedPhase`, `handleDeletion`/`cleanupResources` | Deployment, Service, HTTPRoute it owns; pods it lists; Gateway and Traefik Service it reads |
| InferenceTask controller (`internal/controller/inference`) | the same fields of an InferenceTask | the same handlers, with other first steps | the same kinds of children |
| EvalTask controller (`internal/controller/evaltask`) | phase, start and end time, finalizer | pending, creating, running, finished, deletion | one Job |
| FineTuneTask controller (`internal/controller/finetunetask`) | phase, start time, finalizer | pending, creating, running, finished, deletion | a Job, a Service, a web UI (Deployment, Service, route) |
| TrainTask controller (`internal/controller/traintask`) | none | `Reconcile` returns at once | nothing |
| builders (`devtask/*_builder.go`, `builder/builder.go`, `inference/utils.go`) | none | build and ensure children from a spec | API server |
| routing helpers (`gateway_builder.go`, `inference_helpers.go`) | none | put the external URL together | Gateway, Traefik Service |
| configuration (`internal/config`) | tables of images and ports, environment overrides | lookups | builders |
| SDK (`src/sdk`) | none in memory | create, update, delete, patch, polling waits | API server, as a user |
| manager (`cmd/main.go`) | the process | start, stop, leader election if asked for | everything |

How they interact: the SDK (or kubectl) writes task objects; the informer
delivers each write to the controller's cache and queue; the handler writes
children and the task's status; children's informers enqueue their owner by
name; the Deployment controller and the kubelet produce pods, which the handler
reads from a cache of their own; Kubernetes' garbage collector removes children
whose owner is gone.

What makes each component correct:

- **task controllers**: a task with children never disappears before they were
  cleaned up; phases follow the documented edges; a terminal phase is final and
  its end time is stamped once; a task never hangs for want of an event; a task
  fails only for a cause of its own; a running task is backed by its own
  Deployment; the URL shown is the current one; the TTL deletes what has
  completed and nothing else; deletions finish.
- **EvalTask**: the task follows its Job to the end, once, and the Job of a
  finished task goes for good.
- **FineTuneTask**: Job and web UI are there only under the finalizer's guard,
  come up together, and go together.
- **builders, routing helpers, configuration**: what a user set reaches the
  container; Service, route and container agree on port and path; the URL in
  the status leads to the workload; an edit takes effect in the end.
- **SDK**: a wait ends, times out only on what it could not see, and returns
  nothing older than what it saw; an edit of another client is never lost.

## 2. What is hard about it

- *Stale reads.* The worker acts on cached copies: of the task (conflicts), of
  children (double creation, missed cleanup) and of pods.
- *Interleaving.* Users, the garbage collector, goroutines and the gateway's
  controller write between any two steps of a handler.
- *Names used again.* A task deleted and created again under its name meets the
  Deployment, the cache, the pods and the TTL goroutines of its predecessor.
- *Partial failure.* Any request may be refused, or be carried out with its
  reply lost; the process may stop between any two steps.
- *Edits.* Children are made once, from the spec of that moment, under names
  that hold the framework; users edit the spec, and the gateway moves.
- *Polling.* An SDK wait sees the task at its ticks only; between two of them
  the object may change, go, or be replaced.
- *Wake-ups.* Most handlers return `Result{}, nil` and count on the event of
  their own write.

`PROJECT.json` lists the hazards one by one, each at the line where it bites
and with the properties that would catch it.

## 3. Plan

Ordered by how much depends on them; all but the last exist.

1. `TaskController`: API server, informer, queue and worker, shared by all
   controllers.
2. `TaskLifecycle`: the abstract specification of what users are promised.
3. `DeployedTask`, which EXTENDS `TaskController`: the children, the cluster
   around them and the handler steps that DevTask and InferenceTask share.
4. `DevTask`, which EXTENDS `DeployedTask` and implements `TaskLifecycle`; runs
   for recreation, neighbours, liveness, URL and TTL.
5. `InferenceTask`, which EXTENDS `DeployedTask` and implements the same
   `TaskLifecycle`; runs for safety, liveness and the URL.
6. `JobTask`, over `TaskController`, for what the two Job-backed controllers
   share; over it `EvalTask`, which implements `TaskLifecycle` with withdrawal,
   and `FineTuneTask` with its web UI.
7. `TaskClient`: an SDK client's waits and updates, composed with
   `TaskLifecycle` as the contract of whatever controller serves the task.
8. `TaskSpecs`, `GatewayAddress`: pure operators, for what builders write and
   controllers use, and for the external URL; `TaskAccess` composes them into
   the way from the builder's calls to the URL, through edits and moves.
9. Proofs, one module per controller over shared ones, and one for what users
   see, the SDK's calls and the URL. For all four controllers: types and the
   guard of the finalizer, the refinement of `TaskLifecycle`, that no wake-up is
   lost, and what cleanup may miss; for DevTask, InferenceTask and EvalTask the
   causes of an outcome; for `TaskClient` its four safety properties, for
   `TaskAccess` its two.
10. Left: two managers at once (leader election off), as a second worker.

## 4. The modules and the code

### TaskController

The API server's task objects, the informer's copies, the work queue, the
worker. `task[t]` is the server's object under name `t` (`uid` 0: none);
`created[t]` counts the objects that ever had the name, so that a `uid` is
unique per name; `cache[t]` is the informer's copy. `cur`, `pc`, `obj` are the
worker: the name it reconciles, the handler step it is about to take, the
handler's in-memory copy.

A `resourceVersion` is used by the code only to be compared with the server's,
so that comparison is what the model keeps: `fresh` (tasks whose cached copy is
current) and `objFresh` (whether the handler's copy is). Every stored change
removes freshness from the other copies; an update that changes nothing keeps
the version, as on the API server. That makes the state space finite without a
bound on the number of writes.

`UpdateTask(isFresh, new, onOk, onError)` is `Update`/`Status().Update`: stored;
stored with the reply lost; refused; conflict. `Dispatch` is the worker taking
a key. `SyncTask` is a watch event; `OtherEvent` a resync or an event of an
owned object that changes nothing modelled. `UserCreate`, `UserDelete`,
`UserTouch` are users (and the SDK). `RestartWorker` is a crash: the copy in
hand and the queue are lost, and the new process enqueues everything it lists.

### DeployedTask

What the two controllers that serve a task with a Deployment have in common:
the children and the informers' views of them, what users, the garbage
collector, pods and the gateway do to them, the TTL goroutines, crashes, and
the parts of handlers that are the same code twice (`ensureService`,
`ensureHTTPRoute`, the look at Deployment and pods, the status update at the
end). Operators take the continuation as a parameter: `EnsureServiceThen(onOk,
onError)` is the call and what the handler does with its result. The
properties both controllers promise are stated here, once.

| code | operators |
|---|---|
| `SetupWithManager` (devtask_controller.go:96, inferencetask_controller.go:129) | `SyncTaskObject`, `SyncDeployment`, `SyncService`, `SyncRoute`, `Resync` |
| the TTL goroutine (devtask_phases.go:279, inference_phases.go:229) | `StartTimer`, `TTLExpires` |
| `updateStatusAndReturn` (devtask_phases.go:316, inference_phases.go:271) | `Conclude`, `UpdateStatus` |
| the head of `handleRunningPhase` (devtask_phases.go:149, inference_phases.go:118) | `CheckDeployment`, `CheckPods`, `Verdict` |
| process | `Restart` |
| cluster (not in `src/`) | `GarbageCollect`, `Interfere`, `ScaleToZero`, `PodChanges`, `GatewayMoves` |

### DevTask

One action per handler step that ends in a write; `pc` names the step. The
cached reads a handler makes before a write are part of that write's action.
This loses no behaviour: only the worker reads the caches, and an informer may
lag arbitrarily, so a read followed by informer updates equals the same read
made before them. Where a handler reads the same object more than once
(`handlePendingPhase`) the reads are steps of their own.

| code | actions |
|---|---|
| `Reconcile` (devtask_controller.go:45) | `Reconcile`, `AddFinalizer`; `EntryStep`, `PhaseStep` are its dispatch |
| `handlePendingPhase` (devtask_phases.go:36) | `RecheckPhase`, `LabelTask`, `StartTask` |
| `handleCreatingPhase` (:80) | `EnsureDeployment`, `CreateService`, `CreateHTTPRoute`, `UpdateStatus` |
| `handleRunningPhase` (:149) | `CheckRunning`, `EnsureService`, `EnsureHTTPRoute`, `UpdateURL`, `UpdateStatus` |
| `handleFinishedPhase` (:255) | `StampEndTime`, `EnsureService`, `EnsureHTTPRoute`, with `StartTimer` |
| `handleDeletion`, `cleanupResources` (devtask_controller.go:83, devtask_phases.go:290) | `DeleteDeployment`, `DeleteService`, `ReleaseRoute`, `DeleteRoute`, `ReleaseListed`, `DeleteListed`, `SkipListed`, `RemoveFinalizer` |

`CleanupHTTPRoute` looks for routes twice, by name and by label, and both times
takes the finalizer off what it finds and deletes it; the same operators
(`ReleaseThen`, `DropRouteThen`) are both passes. The second sees the cache
anew: it may still show a route that is gone, which NotFound lets pass, or one
that the first pass did not see. If the List fails, its error is not looked at
and the finalizer goes (`SkipListed`).

### InferenceTask

| code | actions |
|---|---|
| `Reconcile` (inferencetask_controller.go:51) | `Reconcile`, `LabelTask`, `AddFinalizer`; each ends the reconcile |
| `handlePendingPhase` (inference_phases.go:36) | `StartTask` |
| `handleCreatingPhase` (:59) | `EnsureDeployment`, `CreateService`, `CreateHTTPRoute`, `UpdateStatus` |
| `handleRunningPhase` (:118) | `CheckRunning`, `EnsureService`, `EnsureHTTPRoute`, `UpdateStatus` |
| `handleFinishedPhase` (:216) | `StampEndTime`, `Finish` |
| `handleDeletion`, `cleanupResources` (inferencetask_controller.go:116, inference_phases.go:240) | `DeleteDeployment`, `DeleteService`, `DeleteRoute`, `RemoveFinalizer` |

Where it differs from DevTask: the label comes before everything else, also for
a task being deleted; `handlePendingPhase` reads the task once more and writes
to what it finds; routes get no finalizer, so the branch of `cleanupHTTPRoute`
that removes one is never taken; pods are listed by the task's own name;
the finished phase ensures nothing; `deleteService` ignores NotFound; the
Deployment starts with `minReplicas` replicas if the spec has `autoScaling`
(`ScaledFromZero` are the tasks for which that is none); the URL computed in the
running phase is dropped.

### JobTask, EvalTask

`JobTask` has the Job, the informer's view of it, the handler steps that
EvalTask and FineTuneTask share, and Kubernetes' side of the Job: pods start,
fail and are retried, the Job ends, is collected, or vanishes (its TTL, a
user). A Job is its owner's uid and what the counters of its status tell apart
(`JobStatuses`). `EvalTask` adds the running phase.

| code (evaltask_controller.go) | actions |
|---|---|
| `Reconcile` (:53) | `Reconcile`, `AddFinalizer` |
| `handlePendingPhase` (:92) | `LabelTask`, `StartTask` |
| `handleRunningPhase` (:122), `ensureJob` (:249), `checkJobStatus` (:144) | `EnsureJob`, `CheckJob`, `UpdateStatus` |
| `handleFinishedPhase` (:185), `handleDeletion` (:210), `cleanupResources` (:228) | `StampEndTime`, `DeleteJob`, `RemoveFinalizer` |
| `SetupWithManager` (:389) | `SyncTaskObject`, `SyncJob`, `Resync` |
| cluster (not in `src/`) | `JobStarts`, `PodFails`, `PodRetried`, `JobEnds`, `GarbageCollect`, `JobVanishes` |

A finished EvalTask loses its finalizer; the event of that update makes
Reconcile add it again. `TaskLifecycle` has the constant `Withdrawing` for it.

### FineTuneTask

Over `JobTask`, the web UI: a Service and a Deployment, each its owner's uid
(`web`), and whether the informer shows it (`webCache`).

| code (finetunetask_controller.go) | actions |
|---|---|
| `Reconcile` (:54) | `Reconcile`, `AddFinalizer` |
| `handlePendingPhase` (:96) | `LabelTask`, `StartTask` |
| `handleRunningPhase` (:126), `ensureJob` (:238), `ensureWebUI` (:386) | `EnsureJob`, `EnsureService`, `EnsureDeployment` |
| `handleFinishedPhase` (:148), `handleDeletion` (:173), `cleanupResources` (:191) | `StampEndTime`, `DeleteJob`, `DeleteService`, `DeleteDeployment`, `RemoveFinalizer` |
| `SetupWithManager` (:492) | `SyncTaskObject`, `SyncJob`, `SyncPart`, `Resync` |
| users and cluster (not in `src/`) | `UserEndsTask`, `UserDeletesPart`, `JobExpires`, `GarbageCollectPart` and those of `JobTask` |

No handler looks at the Job, so only a user, through the SDK's `UpdateStatus`,
ends such a task (`UserEndsTask`).

### TaskClient

A program that makes one SDK call on one name, while the controller
of the task's kind does what its contract allows: `ControllerMoves` are the
controller's actions of an instance of `TaskLifecycle`, with the edges of
DevTask and InferenceTask, with those of EvalTask and FineTuneTask, or, for
TrainTask, none. `OthersAct` and `OthersEdit` are that controller and other
clients, who create, edit and delete.

| code | actions |
|---|---|
| `WaitForRunning`, `WaitForCompleted`, `WaitForDeletion` (sdk/devtask.go:138, :164, :180) | `CallWaitForRunning`, `CallWaitForCompleted`, `CallWaitForDeletion`, `LastGet` |
| `waitForPhase`, `waitForTerminal`, `waitForDeletion` (sdk/wait.go:56-123) | `Poll`, `Look`, `Answer`, `Deadline`, `ReadFails` |
| `CreateOrPatch` (sdk/devtask.go:99) | `CallCreateOrPatch`, `PatchGet`, `PatchCreate`, `PatchUpdate` |
| `UpdateWithRetry` (:193) | `CallUpdateWithRetry`, `RetryGet`, `Modify` |

Time passes in units (`Tick`), while a request is under way, `Latency` units at
most, or while `select` has nothing to take. The ticker's channel holds one
tick; with the tick and the timeout both ready either case is taken, as Go's
`select` does. `held` and `target` are histories for the properties: for how
long what is awaited has been true, and which object the call was about.

### TaskSpecs, GatewayAddress, TaskAccess

`TaskSpecs` and `GatewayAddress` are operators only. `BuilderCalls` has, for each
builder and each of its methods, the settings the method writes and on which of
the tools chosen so far; `Choose` and `Ask` are a call; `Used` is what the
controller of that kind reads of a spec. Where a call keeps a list of which the
controller takes the first (`buildEvalArgs`: models and datasets of OpenCompass),
the first and the others are settings of their own (`Writes`, `FurtherModel`). `GatewayAddress` goes through the
Gateway's addresses and listeners and the Traefik Service in the order of
gateway_builder.go:104-278 (`DevURL`) and inference_helpers.go:215-387
(`InferenceURL`).

`TaskAccess` composes the two: a client builds a task call by call and submits
it, the controller makes Deployment, Service, HTTPRoute and URL from the spec
of that moment under names that hold the framework, users edit tools, ports and
routing, and the gateway moves. A reconcile is one action here, on purpose: its
interleavings are the matter of `DevTask` and `InferenceTask`, and so is what a
deletion leaves behind, which depends on them (section 7); a task of `TaskAccess`
is not deleted. What can go wrong inside a reconcile is that a Create is refused
(`Refusals`): of the Service, which the way to running needs (`CreateHalf`) and
a running task does not, or of the route, which is logged only, so that the
task becomes running and shows a URL all the same. `refused` has the frameworks
of which that was not made good yet. Children are functions from frameworks,
since after an edit a task has children under two names. `Rewrites` says whose routes take the prefix off the path. What users
write and what the gateway may be like is typed by ASSUMEs, as the API types
are: any strings and numbers for settings, positive ports in a Service.

### Abstractions

Of all controllers, each where the properties cannot tell the difference:

- a child is its owner's uid, plus "scaled to zero" for a Deployment and its
  finalizer and deletion for a route; what it holds is in `TaskAccess`;
- a task has one pod, as the pod cache shows it (the kubelet's own state and
  the informer's lag are one arbitrary delay); several pods appear in a handler's
  list when several tasks share a framework;
- the pod's message is not kept: writing it changes the version or not
  (`WriteMessage`);
- the set of uids for which TTL goroutines sleep stands for the goroutines;
- except in `TaskAccess`, a task's framework does not change; one manager is
  active;
- deletion propagates in the background.

An operator with a comment beginning "Fault:" is a plausible mistake in the
definition after it. No specification uses it; put in that definition's place
it must break the property it is kept for (`PROJECT.json`, `mutants`), which
shows that the property can fail.

### TaskLifecycle

Abstract: one record per name with phase, finalizer, deletion and end time, and
eight atomic actions. It has no caches, versions, queue or children. All four
controllers implement it under the refinement `Life` (the task's record without
label and URL): `LifecycleSpec` is checked as a temporal property, and proved
for all four (section 6). It says, among others,
that no handler, however stale its copy, moves a task out of a terminal phase,
advances one that is being deleted or unguarded, stamps an end time twice, or
touches a new object on behalf of an old one.

### The MC modules

`MCDevTask`, `MCInferenceTask`, `MCEvalTask`, `MCFineTuneTask`, `MCTaskClient`
and `MCTaskAccess` give TLC the constants it cannot take from a cfg. `MCDevTask`
also has the one state constraint of the project, `Busy` (nothing is deleted,
no pod succeeds), for the two neighbours.

### The proof modules

`TaskControllerProofs` is about the steps all controllers share.
`DeployedTaskProofs` is about those DevTask and InferenceTask share,
`JobTaskProofs` about those of the two Job-backed controllers; each goes through
types and guard, refinement, wake-ups, cleanup and causes in sections of their
own. `DevTaskProofs`, `InferenceTaskProofs`, `EvalTaskProofs` and
`FineTuneTaskProofs` have the controllers' theorems, `TaskUserProofs`, which
extends both `TaskClient` and `TaskAccess`, those about what users see.

## 5. What the runs check

The runs are of the MC modules. Bounds are constants: `MaxIncarnations` (objects
ever created under one name) and `MaxDisturbances` (lost replies, refusals,
crashes, interferences by others, moves of the gateway). Conflicts, lagging
caches, user deletions, pod failures and scaling are not bounded. Deadlock is
not checked: when every bound is used up and all tasks are gone, or the one
call of a client has returned, the system stops, and rightly.

| run | instance | checks | states |
|---|---|---|---|
| `devtask_recreate` | one name, two objects, TTL, fragile; 1 disturbance | `Guarded`, `LifecycleSpec` | 950,444 |
| `devtask_liveness` | one task, TTL, fragile; 1 disturbance | `DeletionCompletes`, `StartsUp`, `RunningHasDeployment`, `CompletedTaskExpires` | 108,530 |
| `devtask_url` | one routed task, two gateway addresses; 1 disturbance | `NoLostWakeup`, `CleanupMissesOnlyLateChildren`, `URLFollowsGateway` | 523,288 |
| `devtask_neighbours` | two tasks of different frameworks, none deleted, done or scaled down | `FailureHasACause` | 349,263 |
| `devtask_ttl` | one name, two objects, no disturbance | `TTLSparesUnfinished` is violated | |
| `inference_safety` | one task: routed, TTL, fragile; 1 disturbance | `NoLostWakeup`, `CleanupMissesOnlyLateChildren`, `OutcomeHasACause` | 165,728 |
| `inference_liveness` | one name, two objects, fragile; 1 disturbance | `Guarded`, `LifecycleSpec`, `DeletionCompletes`, `StartsUp`, `RunningHasDeployment` | 212,054 |
| `inference_url` | one routed task, two gateway addresses | `URLFollowsGateway` is violated | |
| `evaltask_end` | one name, two objects, fragile; 1 disturbance | `Guarded` (with `FinalizerGuardsJob`), `NoLostWakeup`, `CleanupMissesOnlyLateJobs`, `LifecycleSpec`, `EvaluationsEnd`, `FinishedJobsGo`, `OutcomeFollowsJob` | 40,996 |
| `finetune_work` | one task; 1 disturbance | `Guarded` (with `FinalizerGuardsWork`), `CleanupMissesOnlyLateWork`, `LifecycleSpec`, `FinishedWorkGoes`, `WebUIComesUp` | 151,588 |
| `sdk_calls` | one name, two objects, one kind of each contract; interval 2, timeouts 1, 4, 5; latency 1 | `TimesOutOnlyUnseen`, `AnswersAreNoOlder`, `DeletedIsGone`, `NoLostEdit`, `WaitsEnd` | 1,188,706 |
| `task_access` | a task of any kind, 3 builder calls, 2 changes or refusals; 4 routings, 5 clusters | `URLIsServed`, `SettingsReachWorkload`, `EditTakesEffect` | 165,620 |

Why the bounds are enough. Tasks share nothing but the worker, which is
stateless between reconciles, and the pod list; the second is what
`devtask_neighbours` has two tasks for, and the theorems hold for any number.
Two objects under one name show every confusion of an object with its
predecessor. `devtask_liveness` has one object per name; that a Deployment
inherited from a predecessor is replaced is checked in `inference_liveness`, by
the same operators. `finetune_work` has one object too: a Service inherited
from a predecessor is one of the cases in which the web UI stays incomplete.
One disturbance at every possible place shows each fault meeting every state;
because conflicts and lag are free, most retries are covered without one. The
runs are kept apart because the features multiply: routes double the children,
recreation multiplies every stale view.

In `sdk_calls` a timeout that is a multiple of the interval makes tick and
timeout ready at once, one that is not keeps them apart, and one shorter than
the interval never polls; a latency of 1 lets a tick become ready while a
request is under way. In `task_access` three calls choose two tools, or one
tool twice with a setting between; two changes are an edit and its undoing, an
edit of the tools and one of the routing, an edit and a move, or a refused
Create and what the retry meets. The clusters
are one with nothing installed, one with Gateways that have an address, one with
node ports, one with a load balancer whose only Gateway with an address listens
for HTTPS alone, and one with node ports of which the first is not of TCP; the
routings have each field set somewhere.

Fairness (`FairSpec`). `WF(HandlerStep)`: the worker's goroutine runs and API
requests return. `SF(Reconcile(t))`: the work queue hands out keys in order, so
a key that is repeatedly in the queue while the worker is repeatedly idle gets
its turn. `WF` of each informer, of the garbage collector and of sleeping
goroutines: they are loops that never stop while the process runs. Nothing is
assumed of users, pods, the gateway or failures. `CompletedTaskExpires`
additionally assumes the periodic resync: a TTL goroutine whose delete fails
ends after logging, and nothing but the next event starts another.

EvalTask and FineTuneTask have the same; for EvalTask also `WF` of the Job
controller starting pods, and `EvaluationsEnd` assumes in its premise that Jobs
end, which nothing in the operator enforces. TaskClient has `WF(ClientStep)`
and `WF(Tick)`: its goroutine runs and time passes; nothing is assumed of the
controller or of other clients. TaskAccess has `WF(Reconcile)`: a
running task is reconciled at least every 30 seconds, and a handler that fails
is called again. Refusals are bounded like edits, so that one of the retries
comes through.

`NoLostWakeup` is the safety side of liveness: a task that needs its controller
is in the worker's hands, in the queue, or has an undelivered event.
`CleanupMissesOnlyLateChildren` (`...Jobs`, `...Work`) says exactly what
`cleanupResources` may leave behind: a child whose creation the cache had not
shown. `TimesOutOnlyUnseen` says what a timeout does tell a caller: what it
waited for had held for an interval at most, or for no longer than a request
takes.

## 6. What is proved

For every set of tasks, every set of URLs, all routing settings, ports and states
of the gateway, and every value of the bounds, from the modules' ASSUMEs alone:

| module | theorems |
|---|---|
| `DevTaskProofs` | `TypeCorrect`: `[]TypeOK`; `GuardedAlways`: `[]Guarded`; `ChildrenGuarded`: `[]FinalizerGuardsChildren`; `DevTaskWakes`: `[]NoLostWakeup`; `DevTaskImplementsLifecycle`: `LifecycleSpec`; `DevTaskSweeps`: `[]CleanupMissesOnlyLateChildren`; `DevTaskFailsForACause`: `FailureHasACause` |
| `InferenceTaskProofs` | `InferenceTaskTyped`, `InferenceTaskGuarded`, `InferenceChildrenGuarded`, `InferenceTaskWakes`, `InferenceTaskImplementsLifecycle`, `InferenceTaskSweeps`: the same six; `InferenceTaskEndsForACause`: `OutcomeHasACause` |
| `EvalTaskProofs` | `EvalTaskGuarded`: `[]Guarded`; `EvalJobsGuarded`: `[]FinalizerGuardsJob`; `EvalTaskImplementsLifecycle`: `LifecycleSpec`; `EvalTaskWakes`: `[]NoLostWakeup`; `EvalTaskSweeps`: `[]CleanupMissesOnlyLateJobs`; `EvalOutcomeFollowsJob`: `OutcomeFollowsJob` |
| `FineTuneTaskProofs` | `FineTuneTaskGuarded`: `[]Guarded`; `FineTuneWorkGuarded`: `[]FinalizerGuardsWork`; `FineTuneTaskImplementsLifecycle`: `LifecycleSpec`; `FineTuneTaskWakes`: `[]NoLostWakeup`; `FineTuneTaskSweeps`: `[]CleanupMissesOnlyLateWork` |
| `TaskUserProofs` | `WaitForDeletionIsTrue`: `[]DeletedIsGone`; `WaitsReturnNothingOlder`: `[]AnswersAreNoOlder`; `ClientsLoseNoEdit`: `NoLostEdit`; `TimeoutsAreHonest`: `[]TimesOutOnlyUnseen`; of `TaskAccess`: `URLLeadsToWorkload`: `[]URLIsServed`; `WhatIsAskedReachesWorkload`: `[]SettingsReachWorkload` |

So every invariant and action property that a passing run checks is a theorem;
the temporal properties under fairness are not. `FinalizerGuardsChildren`, a
conjunct of `Guarded`, has no run of its own.

**The guard of the finalizer** (DevTask, InferenceTask): a child owned by the
task that exists now is there only while the task has the operator's finalizer.
It is not inductive. A handler creates a child in the name of the copy it
holds, so one needs that this copy's finalizer is real: `HandlerAgrees` (past
its first steps the handler's copy has the finalizer; if the copy's uid is the
server's, the server's object has it too). The copy came from the cache, so the
same is needed there: `CacheAgrees`. And a new object must not inherit
children: `OwnersCreated` (nobody owns anything before being created). The
conjunction is `Guarded`; TLC checks it in `devtask_recreate` and
`inference_liveness`. The core of the argument is that finalizers are removed
only by `RemoveFinalizer`, which removes the object, and that writes from stale
copies are refused. The lemmas are generic in the controller's steps
(`TypedIn(steps)`) and in those that come before the finalizer
(`GuardedExcept(unguarded)`): adding it, and for InferenceTask the label too.

**Job-backed controllers.** There the finalizer is removed from a finished task
that lives on, so what is kept is `Holds`: it has the finalizer or is finished.
`Carried` says that a step takes that from no object; every write of the worker
stores an object that has the finalizer, but `RemoveFinalizer`, which stores a
finished one or removes it.

**The lifecycle.** `LifecycleSpec` is shown step by step: a step of the
detailed specification is a step of `TaskLifecycle` on the records `Life`, or
leaves them alone. Each write is a step only because of what the handler knows
of what it writes over, which the invariant `HandlerKnows` says for each step:
what the copy in hand was dispatched with, and that a copy which is still fresh
has those fields on the server (`Matches`). A conflict refuses all others. For
DevTask this is not enough, as `handlePendingPhase` reads its task twice more
and writes `creating` over whatever the last read shows; `Aligned` says that
between its reads the task can have come no further than `creating`, because
only a handler dispatched in `creating` moves it on, and the cache that showed
no phase dispatches none.

For FineTuneTask the lifecycle's `Advance` is a user's: `RunningHeld` says that a
running task has its finalizer, so that ending it by hand is such a step.

**Wake-ups.** `NoLostWakeup` is about the moment a handler returns `Result{},
nil`. It is inductive together with `HandlerKnows`; with `Awake`: while the
cached copy is the server's and the key is not queued, the handler's copy is
the server's too, so that a handler which finds the phase changed, or whose
update changed nothing and hence triggers no event, has its key queued or
cannot be; and with `Held`: an object that is being deleted has the finalizer,
or it would be gone. InferenceTask's label step, which ends the reconcile, also
needs `LabelDue`: its update changes something. The conjunction is `Informed`,
in the proof modules. The Job-backed controllers need less (`Tended`): a handler
of theirs lets go of a task only after a write that changed it or left nothing
to do, and every task is `Fit`, which makes Reconcile select a step for each
that needs work: one that is being deleted has the finalizer, and none is ever
in the phase `creating`, which their Reconcile has no case for.

**Cleanup.** `CleanupMissesOnlyLate...` is about one step, but what it says was
settled by earlier ones. `Swept` carries it along: after the step that deletes
a child, and until the handler lets go of the task, that child is gone, or was
not in the cache, or an event has put the key back. Others can only delete the
child, or show it to the cache, which queues the key. Nobody but the worker
creates children, and in these steps it creates none. For routes, which the
garbage collector and their finalizer change while they exist, `Swept` also
says that a cached route at the server's version is the server's (`RoutesSeen`).
Of routes it speaks from the end of the first pass on, so that nothing depends
on the second one, whose List may fail; the second pass only keeps it.

**Causes.** A phase is decided when pods, Deployment or Job are read and written
a step later, so what is proved is that the evidence lasts. For DevTask and
InferenceTask, the handler about to write `failed` or `completed` from a copy
that is still fresh has a cause that others cannot take away (`FailureCaused`,
`CompletionCaused`), given where failing pods and empty Deployments come from
(`PodsFragile`, `ZeroOnPurpose`). For EvalTask the evidence is the Job, which the
handler sees through the cache: `Evidence` says that for the first,
undisturbed task of a name what the cache shows of the Job is still so
(`Shown`). That rests on the Job's statuses only going forward, on nobody
deleting it before the task has ended, and hence on no stale copy of the task
being finished when the task is not (`CopiesBehind`).

**The SDK's calls.** The object under the name changes only as the contract and
other clients let it (`ObjectMoves`): it goes on in its life, goes for good, or
is a later object. Therefore an object that was not found stays gone, whoever
takes its name (`GoneForGood`); what a wait saw is behind what is there
(`SeenBehind`), with `Later` transitive; and a copy the server would accept
carries every edit made so far (`CopyComplete`), because each edit makes other
copies outdated. `TimeoutsAreHonest` needs arithmetic: `HeldUnseen` bounds for
how long what is waited for can have held without being seen by the time since
the last tick, `elapsed % interval`, and by the time a request has been under
way, and `NextUnit` says how that remainder moves when a unit of time passes.

**From the builder to the URL.** `URLIsServed` relates three objects that are
made at different times, from specs that may differ. It follows from `AccessOK`,
which adds to the types (`AccessTyped`) three things about the framework of the
present spec: unless its settings were edited after its objects were made, they
are those the present spec would make (`UpToDate`); a URL that is current is
`ExternalURL` of the present spec and gateway (`Shown`); and a running task that
shows such a URL has a Deployment and, unless a Create was refused and not made
good, a route (`Made`). An edit that
changes the framework can bring back objects made long ago, so `UpToDate` has to
be kept through steps in which nothing is made. What is left is about operators:
every way through the gateway's ports and listeners ends at an entrance, unless
the property excepts it (`DevAddressEnters`, `InferenceAddressEnters`, from
`MinIsLeast` for what a loop finds first), and with one tool the framework, the
routing settings and the ports all come from it (`OneToolIsFramework`).

`SettingsReachWorkload` is about the order of a builder's calls. By
`HistoryOK`, what a spec holds is exactly what `Lasting` says of the history of
calls (`HeldOK`; `LastsLonger` says how one more call changes that); then, kind
by kind, what a controller reads of a spec is in it (`UsedAreHeld`), and what is
in it, being something that kind's builder writes (`WritesAreWritable`), and not among `KnownLosses`, is read (`DevSettingsUsed` and the others).

The proofs have a lemma per shared step (a step of the worker, of the informer,
a write of another client), a step per action, and below it a step per
conjunct the action can disturb.

Only model-checked: liveness, as fairness and ENABLED are beyond the prover:
`DeletionCompletes`, `StartsUp`, `RunningHasDeployment`, `CompletedTaskExpires`,
`URLFollowsGateway`, `EvaluationsEnd`, `FinishedJobsGo`, `FinishedWorkGoes`,
`WebUIComesUp`, `WaitsEnd`, `EditTakesEffect`. No project module uses RECURSIVE,
and what a Go loop finds first is stated by its index, not with the library's
recursive `SelectSeq`, so that the proofs need no induction over sequences.

## 7. What the models showed

- `devtask_ttl` (finding): a TTL goroutine deletes by name. If the completed
  task was deleted and its name used again while the goroutine slept, it
  deletes the successor, whatever its phase.
- `inference_url` (finding): the running phase of an InferenceTask computes the
  external URL and drops it; when the gateway moves, the status keeps the old
  one. The same property holds for DevTask (`devtask_url`).
- A finished EvalTask is never left alone: its finalizer is removed, which
  triggers a reconcile that adds it, which triggers one that cleans up and
  removes it. `LifecycleSpec` holds only with `Withdrawing`. That loop is also
  what removes a Job created late from a stale copy (`FinishedJobsGo`).
- Caches that lag can alone fail a healthy task, with no request refused: a
  second reconcile of a task that is already creating re-reads it in
  `handlePendingPhase` and stamps the start time again; that makes the status
  update which ends `handleCreatingPhase` conflict; the retry, whose Deployment
  cache still lags, creates the Deployment again, gets AlreadyExists and marks
  the task failed. `FailureHasACause` is stated accordingly (the name is taken).
- A route created just before the deletion and not yet in the cache is missed
  by cleanup; it keeps its finalizer `kai.io/route` and nothing removes it
  afterwards. `CleanupMissesOnlyLateChildren` says this is the only way for a
  task whose framework does not change. After an edit of the framework only the
  list by label finds the routes of the former one; if that request fails, the
  error is passed over (route_builder.go:197) and a DevTask's stay for good. The
  former framework's Deployment and Service stay as long as the task lives.
- A route that could not be created is logged only (devtask_phases.go:128,
  inference_phases.go:101): the task becomes running and shows a URL that
  nothing serves until the running phase has made the route. `URLIsServed`
  exempts that time (`refused`), `EditTakesEffect` says that it ends.
- Pods are selected by framework and task type, not by task: a failing pod of
  one task fails every running task of the same framework
  (`FailureHasACause` cannot be strengthened to the task's own pods).
- `autoScaling` without `minReplicas` (inference/utils.go:261) makes a
  Deployment of zero replicas, which the running phase takes for a task scaled
  down: it reports it completed, and `OutcomeHasACause` names that as a cause.
  The inference runs have no such task (`ScaledFromZero` is empty); the theorem
  holds with them.
- An EvalTask is marked failed when a pod of its Job has failed and the next is
  not started yet (evaltask_controller.go:171); the finished phase then deletes
  the Job, and the retries it still had never happen. `OutcomeFollowsJob` is
  stated accordingly.
- A FineTuneTask never ends by itself (finetunetask_controller.go:140): no
  handler looks at its Job, and when the finished Job has expired it is created
  anew.
- `ensureWebUI` returns when the Service exists (:393), so a web UI whose
  Deployment could not be created, or whose predecessor's Deployment was still
  there, stays without one. `WebUIComesUp` is about the undisturbed case.
- `WaitForRunning` looks for a failure once, before it polls: a task that fails
  later is waited for until the timeout. A timeout not longer than the interval
  may run out with nothing looked at.
- A wait may time out on a task that has been what it waits for for longer than
  an interval: an answer that takes longer than the interval is late, and when
  the timeout is due together with the next tick `select` may take either. The
  attempt to prove `TimesOutOnlyUnseen` with the interval alone as the bound
  failed there; TLC shows it with latency 3 and interval 2. Hence its second
  clause, the time of a request.
- `CreateOrPatch` gives what it read the version of the caller's copy: the
  update is refused unless that copy is current. `UpdateWithRetry` writes
  nothing by itself: an edit is stored only if the caller's function calls
  `Update`. `NoLostEdit` says what both do guarantee.
- Two exceptions of `URLIsServed` were found by trying to prove it, as no cluster
  of the run had met them. `getTraefikNodePort` (gateway_builder.go:138) takes
  the first node port of the Service, of whatever protocol, so that where a UDP
  port comes first, as with HTTP/3, the URL names a port at which plain HTTP does
  not get in (`NodePortIsTCP`); and an InferenceTask whose Gateway has an
  address but no HTTP listener, without node ports, gets a port of the Service
  at the Gateway's address. The run's clusters now have both.
- `KnownLosses` in `TaskAccess` lists the settings that builders write and no
  controller reads. An EvalTask's Job is given the first of its models and the
  first of its datasets only (evaltask_controller.go:354-367), while `WithModel`
  adds a model at each call and `WithDatasets` keeps all; also lost are the
  gateway's port of routing settings, an InferenceTask's host names and its
  `maxReplicas`. `WithVolume` writes a type, `PersistentVolumeClaim`, that
  `BuildVolumes` does not know, so the volume is dropped.
- Children are never brought up to date: after an edit of a port or a path the
  Deployment, the Service and the route stay as they were, until the framework
  changes and with it their names (`outdated` in `URLIsServed`).

## 8. What is not modelled

- Two managers that reconcile the same tasks (leader election is off by
  default). It would be a second worker with caches of its own over the same
  store, and needs every shared module's worker and informer state twice.
- How often a handler runs: the alternating status messages of several pods
  (devtask_phases.go:209) and the number of TTL goroutines that sleep for one
  task (:279). The models keep whether a write happens and whether a goroutine
  sleeps, not how many.
- SDK calls that pass one request on: `List`, `ListAllTasks`, `Patch`,
  `DeleteAllOf`, and how a client is made (`client.go`).
- Wording of messages and arguments, labels other than the framework's, default
  images.
- Code that nothing calls: `internal/controller/utils.go`, `GetExternalURL`
  (gateway_builder.go:282), `BuildContainer` (builder.go:88),
  `getHostAndPortFallbackInference` (inference_helpers.go:291), and the
  HTTPRoute that FineTuneTask's cleanup looks for and nothing creates.
- Deletion of a task whose framework was edited: cleanup by the new framework's
  names and by a label of the task, from caches that lag. It would be `DevTask`
  with children per framework, beyond what the runs can explore.
- Errors of cached reads, except that of the List in `CleanupHTTPRoute`: a cache
  that has synced answers from memory.
- TrainTask's reconciler does nothing; it is a kind of task in `TaskClient` and
  `TaskSpecs` only.
- Deep copies, CRD manifests, samples, Helm chart, Makefiles.
- Flags, metrics, webhooks, probes and TLS of the manager.
