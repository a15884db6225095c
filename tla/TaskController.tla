--------------------------- MODULE TaskController ---------------------------
(***************************************************************************)
(* What every task controller of the operator shares: the task objects on  *)
(* the API server, the informer's copies of them, the work queue, and the  *)
(* single worker that controller-runtime runs for a controller.            *)
(*                                                                         *)
(* A resourceVersion is only ever compared for equality with the server's, *)
(* so it is modelled by that comparison: `fresh` holds the tasks whose     *)
(* cached copy is at the server's version, `objFresh` says so of the copy  *)
(* the worker holds.  Every server-side write makes the other copies       *)
(* stale; a write from a stale copy is a conflict.                         *)
(*                                                                         *)
(* An operator whose comment begins with "Fault:" is a plausible mistake   *)
(* in the definition after it.  No specification uses it; putting it in    *)
(* that definition's place must break the property it is kept for.         *)
(***************************************************************************)
EXTENDS Naturals, FiniteSets

CONSTANTS
    Tasks,            \* names of tasks, in one namespace
    NoTask,           \* the worker is idle
    URLs,             \* external URLs a routed task may get
    NoURL,
    MaxIncarnations,  \* bound: objects ever created under one name
    MaxDisturbances   \* bound: transient failures, crashes and interferences

ASSUME TasksAssumption == NoTask \notin Tasks
ASSUME URLsAssumption == NoURL \notin URLs
ASSUME BoundsAssumption ==
    MaxIncarnations \in Nat \ {0} /\ MaxDisturbances \in Nat

VARIABLES
    task,      \* the API server's object under each name; uid 0: there is none
    created,   \* how many objects were created under each name (the last uid)
    cache,     \* the informer's copy of each task
    fresh,     \* tasks whose cached copy is at the server's version
    queue,     \* keys in the work queue, or due to return to it
    cur,       \* the task being reconciled
    pc,        \* the handler step the worker is about to take
    obj,       \* the handler's in-memory copy of the task
    objFresh,  \* is that copy at the server's version?
    budget     \* disturbances left

storeVars  == <<task, created, cache, fresh>>
workerVars == <<cur, pc, obj, objFresh>>
controllerVars == <<storeVars, workerVars, queue, budget>>

Unset == ""     \* the phase of a task no handler has touched: "" or pending
Terminal == {"completed", "failed"}
Phases == {Unset, "creating", "running"} \cup Terminal

\* A task as far as the controllers read or write it: `fin` is the operator's
\* finalizer, `del` the deletionTimestamp, `label` the framework label, `end`
\* whether status.endTime is set, `url` status.externalURL.
TaskObjects ==
    [uid: 0..MaxIncarnations, phase: Phases, fin: BOOLEAN, del: BOOLEAN,
     label: BOOLEAN, end: BOOLEAN, url: URLs \cup {NoURL}]

NewTask(uid) ==
    [uid |-> uid, phase |-> Unset, fin |-> FALSE, del |-> FALSE,
     label |-> FALSE, end |-> FALSE, url |-> NoURL]

Absent == NewTask(0)
Exists(o) == o.uid # 0

ControllerInit ==
    /\ task = [t \in Tasks |-> Absent]
    /\ created = [t \in Tasks |-> 0]
    /\ cache = [t \in Tasks |-> Absent]
    /\ fresh = Tasks
    /\ queue = {}
    /\ cur = NoTask
    /\ pc = "idle"
    /\ obj = Absent
    /\ objFresh = FALSE
    /\ budget = MaxDisturbances

-----------------------------------------------------------------------------
(* The worker's control flow.                                              *)

Disturb == budget > 0 /\ budget' = budget - 1

\* The handler goes on to step p with o as its copy.
Continue(p, o) ==
    /\ pc' = p
    /\ obj' = o
    /\ UNCHANGED <<cur, objFresh, queue>>

\* Reconcile returns; `again` is {} for Result{}, nil and {cur} when the key
\* comes back through RequeueAfter or the rate limiter.
Return(again) ==
    /\ cur' = NoTask
    /\ pc' = "idle"
    /\ obj' = Absent
    /\ objFresh' = FALSE
    /\ queue' = queue \cup again

Done == Return({})
Retry == Return({cur})

\* The worker takes a key and reads the task from the cache; `step` is the
\* handler step Reconcile's dispatch selects for what it read.
Dispatch(t, step) ==
    /\ pc = "idle"
    /\ t \in queue
    /\ queue' = queue \ {t}
    /\ IF step = "idle"
       THEN UNCHANGED workerVars
       ELSE /\ cur' = t
            /\ pc' = step
            /\ obj' = cache[t]
            /\ objFresh' = (t \in fresh)
    /\ UNCHANGED <<storeVars, budget>>

-----------------------------------------------------------------------------
(* Writes of the worker to its task: Update and Status().Update.           *)

\* The server accepts `new`, written from a copy at the server's version.  An
\* update that changes nothing leaves the version alone.
StoredFrom(isFresh, new) ==
    /\ isFresh
    /\ task' = [task EXCEPT ![cur] = new]
    /\ fresh' = IF new = task[cur] THEN fresh ELSE fresh \ {cur}

Accepted(isFresh, new) ==
    StoredFrom(isFresh, new) /\ UNCHANGED budget

\* What the handler sees as an error: a write that was stored but whose reply
\* is lost, a transient refusal, a conflict or NotFound.
Failed(isFresh, new) ==
    \/ StoredFrom(isFresh, new) /\ Disturb
    \/ isFresh /\ Disturb /\ UNCHANGED <<task, fresh>>
    \/ ~isFresh /\ UNCHANGED <<task, fresh, budget>>

UpdateTask(isFresh, new, onOk, onError) ==
    /\ \/ Accepted(isFresh, new) /\ onOk
       \/ Failed(isFresh, new) /\ onError
    /\ UNCHANGED <<created, cache>>

\* Writing a status message, which is not modelled, changes the version unless
\* the message is the one already there.
WriteMessage(next) ==
    \/ objFresh /\ fresh' \in {fresh, fresh \ {cur}} /\ next /\ UNCHANGED budget
    \/ objFresh /\ fresh' \in {fresh, fresh \ {cur}} /\ Retry /\ Disturb
    \/ ~objFresh /\ Retry /\ UNCHANGED <<fresh, budget>>

\* Creating an object of another kind: it is stored unless its name is taken;
\* the reply may be lost; the request may be refused.
Create(nameFree, stored, notStored, onOk, onError) ==
    \/ nameFree /\ stored /\ onOk /\ UNCHANGED budget
    \/ nameFree /\ stored /\ onError /\ Disturb
    \/ nameFree /\ notStored /\ onError /\ Disturb
    \/ ~nameFree /\ notStored /\ onError /\ UNCHANGED budget

-----------------------------------------------------------------------------
(* The task informer, and writes of others to the task.                    *)

\* A watch event brings the cached copy up to date and enqueues the task.
SyncTask(t) ==
    /\ t \notin fresh
    /\ cache' = [cache EXCEPT ![t] = task[t]]
    /\ fresh' = fresh \cup {t}
    /\ queue' = queue \cup {t}
    /\ UNCHANGED <<task, created, workerVars, budget>>

\* An event that changes nothing modelled (a status update of the Deployment,
\* a periodic resync) enqueues the task.
OtherEvent(t) ==
    /\ Exists(cache[t])
    /\ t \notin queue
    /\ queue' = queue \cup {t}
    /\ UNCHANGED <<storeVars, workerVars, budget>>

\* Somebody other than the worker writes `new` over t.
Overwrite(t, new) ==
    /\ task' = [task EXCEPT ![t] = new]
    /\ fresh' = fresh \ {t}
    /\ objFresh' = (objFresh /\ cur # t)
    /\ UNCHANGED <<cache, queue, cur, pc, obj>>

\* A deletion waits for the finalizer.
Deleted(o) == IF o.fin THEN [o EXCEPT !.del = TRUE] ELSE Absent

UserCreate(t) ==
    /\ ~Exists(task[t])
    /\ created[t] < MaxIncarnations
    /\ created' = [created EXCEPT ![t] = @ + 1]
    /\ Overwrite(t, NewTask(created[t] + 1))
    /\ UNCHANGED budget

UserDelete(t) ==
    /\ Exists(task[t])
    /\ ~task[t].del
    /\ Overwrite(t, Deleted(task[t]))
    /\ UNCHANGED <<created, budget>>

\* An edit of something the model leaves out (an annotation, a spec field):
\* only the version changes.
UserTouch(t) ==
    /\ Exists(task[t])
    /\ Disturb
    /\ Overwrite(t, task[t])
    /\ UNCHANGED created

\* The operator's process stops and starts again.  Its caches are listed anew
\* from the API server, possibly late, and every object found is enqueued.
RestartWorker ==
    /\ Disturb
    /\ cur' = NoTask
    /\ pc' = "idle"
    /\ obj' = Absent
    /\ objFresh' = FALSE
    /\ queue' = {t \in Tasks : Exists(cache[t])}
    /\ UNCHANGED storeVars

-----------------------------------------------------------------------------
(* Types, and how the copies of a task relate to the server's object.      *)

StoreTypeOK ==
    /\ task \in [Tasks -> TaskObjects]
    /\ created \in [Tasks -> 0..MaxIncarnations]
    /\ cache \in [Tasks -> TaskObjects]
    /\ fresh \subseteq Tasks
    /\ budget \in 0..MaxDisturbances

\* The worker holds a task iff it is not idle.
WorkerTypeOK(steps) ==
    /\ queue \subseteq Tasks
    /\ obj \in TaskObjects
    /\ objFresh \in BOOLEAN
    /\ \/ pc = "idle" /\ cur = NoTask
       \/ pc \in steps /\ cur \in Tasks

\* A copy never knows of more than the server: its uid was handed out, and a
\* finalizer it shows is still there if the object is.
CacheAgrees(t) ==
    /\ task[t].uid \in {0, created[t]}
    /\ cache[t].uid <= created[t]
    /\ t \in fresh => cache[t] = task[t]
    /\ Exists(cache[t]) /\ cache[t].uid = task[t].uid /\ cache[t].fin => task[t].fin

\* The same of the handler's copy, which carries the finalizer except in the
\* steps `unguarded`.
HandlerAgrees(unguarded) ==
    pc # "idle" =>
        /\ obj.uid \in 1..created[cur]
        /\ objFresh => /\ obj.uid = task[cur].uid
                       /\ obj.fin = task[cur].fin
                       /\ obj.del = task[cur].del
        /\ obj.uid = task[cur].uid /\ obj.fin => task[cur].fin
        /\ pc \notin unguarded => obj.fin

-----------------------------------------------------------------------------
(* What every controller promises.                                         *)

\* A task that still needs its controller - it is being deleted, or its phase
\* is not terminal - is being reconciled, is queued, or has a version the
\* informer has yet to deliver.  Handlers return Result{}, nil after their
\* status update and count on this.
NeedsWork(o) == Exists(o) /\ (o.del \/ o.phase \notin Terminal)

NoLostWakeup ==
    \A t \in Tasks :
        NeedsWork(task[t]) => cur = t \/ t \in queue \/ t \notin fresh

\* A task as its lifecycle sees it.
Life ==
    [t \in Tasks |-> [uid |-> task[t].uid, phase |-> task[t].phase, fin |-> task[t].fin,
                      del |-> task[t].del, end |-> task[t].end]]

\* A deletion runs to its end, whatever was refused, lost or late on the way.
DeletionCompletes == \A t \in Tasks : task[t].del ~> ~Exists(task[t])
=============================================================================
