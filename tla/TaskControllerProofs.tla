------------------------ MODULE TaskControllerProofs ------------------------
(***************************************************************************)
(* Facts about the operators of TaskController, for the proofs about the   *)
(* controllers built from them.                                            *)
(***************************************************************************)
EXTENDS TaskController, TLAPS

-----------------------------------------------------------------------------
(* Types.                                                                  *)

LEMMA AbsentType == Absent \in TaskObjects /\ Absent.uid = 0 /\ ~Absent.fin
  BY BoundsAssumption
  DEF Absent, NewTask, TaskObjects, Phases, Unset, Terminal

LEMMA NewTaskType ==
  ASSUME NEW uid \in 0..MaxIncarnations
  PROVE  /\ NewTask(uid) \in TaskObjects
         /\ NewTask(uid).uid = uid
         /\ ~NewTask(uid).fin
  BY DEF NewTask, TaskObjects, Phases, Unset, Terminal

LEMMA DisturbType ==
  ASSUME budget \in 0..MaxDisturbances, Disturb
  PROVE  budget' \in 0..MaxDisturbances
  BY BoundsAssumption DEF Disturb

\* The initial state is well typed, and its copies agree with the server.
LEMMA ControllerInitOK ==
  ASSUME NEW steps, NEW unguarded, ControllerInit
  PROVE  /\ StoreTypeOK /\ WorkerTypeOK(steps)
         /\ \A t \in Tasks : CacheAgrees(t)
         /\ HandlerAgrees(unguarded)
<1>1. StoreTypeOK
  BY AbsentType, BoundsAssumption DEF ControllerInit, StoreTypeOK
<1>2. WorkerTypeOK(steps)
  BY AbsentType DEF ControllerInit, WorkerTypeOK
<1>3. \A t \in Tasks : CacheAgrees(t)
  BY AbsentType DEF ControllerInit, CacheAgrees
<1>4. HandlerAgrees(unguarded)
  BY DEF ControllerInit, HandlerAgrees
<1> QED
  BY <1>1, <1>2, <1>3, <1>4

\* A write of the worker, stored or refused, keeps the store well typed.
LEMMA UpdateStoreType ==
  ASSUME StoreTypeOK, cur \in Tasks,
         NEW f, NEW new \in TaskObjects,
         Accepted(f, new) \/ Failed(f, new),
         UNCHANGED <<created, cache>>
  PROVE  StoreTypeOK'
<1>1. budget' \in 0..MaxDisturbances
  BY DisturbType DEF Accepted, Failed, StoreTypeOK
<1>2. task' \in [Tasks -> TaskObjects] /\ fresh' \subseteq Tasks
  BY DEF Accepted, Failed, StoredFrom, StoreTypeOK
<1> QED
  BY <1>1, <1>2 DEF StoreTypeOK

LEMMA ContinueType ==
  ASSUME NEW steps, WorkerTypeOK(steps), cur \in Tasks,
         NEW p \in steps, NEW o \in TaskObjects, Continue(p, o)
  PROVE  WorkerTypeOK(steps)'
  BY DEF WorkerTypeOK, Continue

LEMMA ReturnType ==
  ASSUME NEW steps, WorkerTypeOK(steps), cur \in Tasks, Done \/ Retry
  PROVE  WorkerTypeOK(steps)'
  BY AbsentType DEF WorkerTypeOK, Done, Retry, Return

LEMMA OverwriteType ==
  ASSUME NEW steps, StoreTypeOK, WorkerTypeOK(steps),
         NEW t \in Tasks, NEW new \in TaskObjects, Overwrite(t, new)
  PROVE  /\ task' \in [Tasks -> TaskObjects]
         /\ fresh' \subseteq Tasks
         /\ WorkerTypeOK(steps)'
<1>1. task' \in [Tasks -> TaskObjects] /\ fresh' \subseteq Tasks
  BY DEF Overwrite, StoreTypeOK
<1>2. objFresh' \in BOOLEAN
  BY DEF Overwrite
<1> QED
  BY <1>1, <1>2 DEF Overwrite, WorkerTypeOK

LEMMA DeletedType ==
  ASSUME NEW o \in TaskObjects
  PROVE  /\ Deleted(o) \in TaskObjects
         /\ o.fin => Deleted(o).uid = o.uid /\ Deleted(o).fin
         /\ ~o.fin => Deleted(o) = Absent
  BY AbsentType DEF Deleted, TaskObjects

-----------------------------------------------------------------------------
(* The copies keep agreeing with the server.                               *)

\* A write is harmless to the cached copies when it removes the object or
\* keeps its uid and its finalizer.
Harmless(old, new) ==
    new = Absent \/ (new.uid = old.uid /\ (old.fin => new.fin))

LEMMA UpdateCacheAgrees ==
  ASSUME StoreTypeOK, cur \in Tasks, \A t \in Tasks : CacheAgrees(t),
         NEW f, NEW new \in TaskObjects, f => Harmless(task[cur], new),
         Accepted(f, new) \/ Failed(f, new),
         UNCHANGED <<created, cache>>
  PROVE  \A t \in Tasks : CacheAgrees(t)'
<1> SUFFICES ASSUME NEW t \in Tasks PROVE CacheAgrees(t)'
  OBVIOUS
<1>1. CASE UNCHANGED <<task, fresh>>
  BY <1>1 DEF CacheAgrees, Exists
<1>2. CASE StoredFrom(f, new)
  <2>1. Harmless(task[cur], new)
    BY <1>2 DEF StoredFrom
  <2>2. CASE t # cur
    BY <1>2, <2>2 DEF StoredFrom, CacheAgrees, Exists, StoreTypeOK
  <2>3. CASE t = cur
    BY <1>2, <2>1, <2>3, AbsentType
    DEF StoredFrom, CacheAgrees, Exists, StoreTypeOK, Harmless, TaskObjects
  <2> QED
    BY <2>2, <2>3
<1> QED
  BY <1>1, <1>2 DEF Accepted, Failed

\* Somebody else's write: a harmless one, or a new object under a free name.
Intrusion(t, new) ==
    \/ Harmless(task[t], new) /\ UNCHANGED created
    \/ /\ created' = [created EXCEPT ![t] = @ + 1]
       /\ ~Exists(task[t]) /\ new.uid = created[t] + 1

LEMMA OverwriteAgrees ==
  ASSUME NEW steps, NEW unguarded, StoreTypeOK, WorkerTypeOK(steps),
         \A u \in Tasks : CacheAgrees(u), HandlerAgrees(unguarded),
         NEW t \in Tasks, NEW new \in TaskObjects,
         Overwrite(t, new), Intrusion(t, new)
  PROVE  /\ \A u \in Tasks : CacheAgrees(u)'
         /\ HandlerAgrees(unguarded)'
<1>1. /\ task' = [task EXCEPT ![t] = new] /\ task'[t] = new
      /\ \A u \in Tasks : u # t => task'[u] = task[u] /\ created'[u] = created[u]
      /\ created'[t] \in {created[t], created[t] + 1}
      /\ UNCHANGED <<cache, cur, pc, obj>>
      /\ fresh' = fresh \ {t}
      /\ objFresh' = (objFresh /\ cur # t)
  BY DEF Overwrite, Intrusion, StoreTypeOK
<1>2. \A u \in Tasks : created[u] \in Nat /\ task[u].uid \in Nat /\ cache[u].uid \in Nat
  BY BoundsAssumption DEF StoreTypeOK, TaskObjects
<1>3. /\ task'[t].uid \in {0, created'[t]}
      /\ \A uid \in 1..created[t] : uid = task'[t].uid
             => uid = task[t].uid /\ (task[t].fin => task'[t].fin)
  <2>1. CASE Harmless(task[t], new) /\ UNCHANGED created
    <3>1. task[t].uid \in {0, created[t]} /\ created'[t] = created[t]
      BY <2>1 DEF CacheAgrees
    <3>2. CASE new = Absent
      BY <1>1, <1>2, <3>1, <3>2, AbsentType
    <3>3. CASE new.uid = task[t].uid /\ (task[t].fin => new.fin)
      BY <1>1, <1>2, <3>1, <3>3
    <3> QED
      BY <2>1, <3>2, <3>3 DEF Harmless
  <2>2. CASE created' = [created EXCEPT ![t] = @ + 1] /\ new.uid = created[t] + 1
    <3>1. task'[t].uid = created[t] + 1 /\ created'[t] = created[t] + 1
      BY <1>1, <2>2 DEF StoreTypeOK
    <3> QED
      BY <1>2, <3>1
  <2> QED
    BY <2>1, <2>2 DEF Intrusion
<1>4. ASSUME NEW u \in Tasks PROVE CacheAgrees(u)'
  <2>1. CASE u # t
    BY <1>1, <2>1 DEF CacheAgrees, Exists
  <2>2. CASE u = t
    BY <1>1, <1>2, <1>3, <2>2 DEF CacheAgrees, Exists
  <2> QED
    BY <2>1, <2>2
<1>5. HandlerAgrees(unguarded)'
  <2> SUFFICES ASSUME pc # "idle" PROVE HandlerAgrees(unguarded)'
    BY <1>1 DEF HandlerAgrees
  <2>1. /\ cur \in Tasks /\ obj.uid \in 1..created[cur]
        /\ pc \notin unguarded => obj.fin
    BY DEF HandlerAgrees, WorkerTypeOK
  <2>2. CASE cur # t
    BY <1>1, <2>1, <2>2 DEF HandlerAgrees
  <2>3. CASE cur = t
    <3>1. ~objFresh' /\ obj.uid \in 1..created'[t]
      <4>1. obj.uid \in 1..created[t] /\ created[t] \in Nat
        BY <1>2, <2>1, <2>3
      <4>2. created'[t] \in {created[t], created[t] + 1} /\ ~objFresh'
        BY <1>1, <2>3
      <4> QED
        BY <4>1, <4>2
    <3>2. obj.uid = task'[t].uid /\ obj.fin => task'[t].fin
      BY <1>3, <2>1, <2>3 DEF HandlerAgrees
    <3> QED
      BY <1>1, <2>1, <2>3, <3>1, <3>2 DEF HandlerAgrees
  <2> QED
    BY <2>2, <2>3
<1> QED
  BY <1>4, <1>5

\* Steps of the handler that keep the task's identity.
SameIdentity(a, b) == a.uid = b.uid /\ a.fin = b.fin /\ a.del = b.del

LEMMA HandlerKeeps ==
  ASSUME NEW unguarded, HandlerAgrees(unguarded), pc # "idle", pc \notin unguarded,
         UNCHANGED <<created, cur, objFresh>>,
         SameIdentity(obj', obj),
         SameIdentity(task'[cur], task[cur])
  PROVE  HandlerAgrees(unguarded)'
  BY DEF HandlerAgrees, SameIdentity

LEMMA ReturnAgrees ==
  ASSUME NEW unguarded, Done \/ Retry
  PROVE  HandlerAgrees(unguarded)'
  BY DEF Done, Retry, Return, HandlerAgrees

\* The task informer and the restart.
LEMMA SyncTaskOK ==
  ASSUME NEW steps, NEW unguarded, StoreTypeOK, WorkerTypeOK(steps),
         \A u \in Tasks : CacheAgrees(u), HandlerAgrees(unguarded),
         NEW t \in Tasks, SyncTask(t)
  PROVE  /\ StoreTypeOK' /\ WorkerTypeOK(steps)'
         /\ \A u \in Tasks : CacheAgrees(u)'
         /\ HandlerAgrees(unguarded)'
<1>1. StoreTypeOK' /\ WorkerTypeOK(steps)'
  BY DEF SyncTask, StoreTypeOK, WorkerTypeOK, workerVars
<1>2. ASSUME NEW u \in Tasks PROVE CacheAgrees(u)'
  BY BoundsAssumption DEF SyncTask, StoreTypeOK, TaskObjects, CacheAgrees, Exists
<1>3. HandlerAgrees(unguarded)'
  BY DEF SyncTask, HandlerAgrees, workerVars
<1> QED
  BY <1>1, <1>2, <1>3

LEMMA RestartWorkerOK ==
  ASSUME NEW steps, NEW unguarded, StoreTypeOK, WorkerTypeOK(steps),
         \A u \in Tasks : CacheAgrees(u), RestartWorker
  PROVE  /\ StoreTypeOK' /\ WorkerTypeOK(steps)'
         /\ \A u \in Tasks : CacheAgrees(u)'
         /\ HandlerAgrees(unguarded)'
<1>1. StoreTypeOK'
  BY DisturbType DEF RestartWorker, StoreTypeOK, storeVars
<1>2. WorkerTypeOK(steps)'
  BY AbsentType DEF RestartWorker, WorkerTypeOK
<1>3. ASSUME NEW u \in Tasks PROVE CacheAgrees(u)'
  BY DEF RestartWorker, storeVars, CacheAgrees, Exists
<1>4. HandlerAgrees(unguarded)'
  BY DEF RestartWorker, HandlerAgrees
<1> QED
  BY <1>1, <1>2, <1>3, <1>4

-----------------------------------------------------------------------------
(* A task as its lifecycle sees it.                                        *)

LifeOf(o) == [uid |-> o.uid, phase |-> o.phase, fin |-> o.fin, del |-> o.del, end |-> o.end]

LEMMA LifeValues ==
  ASSUME NEW o
  PROVE  /\ LifeOf(o).uid = o.uid /\ LifeOf(o).phase = o.phase /\ LifeOf(o).fin = o.fin
         /\ LifeOf(o).del = o.del /\ LifeOf(o).end = o.end
  BY DEF LifeOf

\* A life changes as its task does.
LEMMA LifeFields ==
  ASSUME NEW o \in TaskObjects, NEW v \in BOOLEAN
  PROVE  /\ LifeOf([o EXCEPT !.fin = v]) = [LifeOf(o) EXCEPT !.fin = v]
         /\ LifeOf([o EXCEPT !.del = v]) = [LifeOf(o) EXCEPT !.del = v]
         /\ LifeOf([o EXCEPT !.end = v]) = [LifeOf(o) EXCEPT !.end = v]
<1> DEFINE Lives == [uid: 0..MaxIncarnations, phase: Phases, fin: BOOLEAN, del: BOOLEAN,
                     end: BOOLEAN]
           L(fin, del, end) ==
               [uid |-> o.uid, phase |-> o.phase, fin |-> fin, del |-> del, end |-> end]
<1>1. /\ LifeOf([o EXCEPT !.fin = v]) = L(v, o.del, o.end)
      /\ LifeOf([o EXCEPT !.del = v]) = L(o.fin, v, o.end)
      /\ LifeOf([o EXCEPT !.end = v]) = L(o.fin, o.del, v)
  BY DEF LifeOf, TaskObjects
<1>2. LifeOf(o) \in Lives
  BY DEF LifeOf, TaskObjects
<1>3. /\ [LifeOf(o) EXCEPT !.fin = v] = L(v, o.del, o.end)
      /\ [LifeOf(o) EXCEPT !.del = v] = L(o.fin, v, o.end)
      /\ [LifeOf(o) EXCEPT !.end = v] = L(o.fin, o.del, v)
  BY <1>2, LifeValues
<1> HIDE DEF L
<1> QED
  BY <1>1, <1>3, Zenon

LEMMA LifePhase ==
  ASSUME NEW o \in TaskObjects, NEW s \in Phases
  PROVE  LifeOf([o EXCEPT !.phase = s]) = [LifeOf(o) EXCEPT !.phase = s]
<1> DEFINE Lives == [uid: 0..MaxIncarnations, phase: Phases, fin: BOOLEAN, del: BOOLEAN,
                     end: BOOLEAN]
           L == [uid |-> o.uid, phase |-> s, fin |-> o.fin, del |-> o.del, end |-> o.end]
<1>1. LifeOf([o EXCEPT !.phase = s]) = L
  BY DEF LifeOf, TaskObjects
<1>2. LifeOf(o) \in Lives
  BY DEF LifeOf, TaskObjects
<1>3. [LifeOf(o) EXCEPT !.phase = s] = L
  BY <1>2, LifeValues
<1> QED
  BY <1>1, <1>3

LEMMA LifeEntries ==
  ASSUME NEW t \in Tasks
  PROVE  Life[t] = LifeOf(task[t])
  BY DEF Life, LifeOf

LEMMA LifeBecomes ==
  ASSUME StoreTypeOK, NEW t \in Tasks, NEW new, task' = [task EXCEPT ![t] = new]
  PROVE  Life' = [Life EXCEPT ![t] = LifeOf(new)]
<1>1. task \in [Tasks -> TaskObjects]
  BY DEF StoreTypeOK
<1>2. ASSUME NEW u \in Tasks
      PROVE  Life'[u] = IF u = t THEN LifeOf(new) ELSE Life[u]
  BY <1>1, <1>2 DEF Life, LifeOf
<1>3. Life' = [u \in Tasks |-> Life'[u]] /\ Life = [u \in Tasks |-> Life[u]]
  BY DEF Life
<1> QED
  BY <1>2, <1>3

LEMMA NewTaskLife ==
  ASSUME NEW n
  PROVE  LifeOf(NewTask(n)) = [LifeOf(Absent) EXCEPT !.uid = n]
<1>1. LifeOf(NewTask(n)) = [uid |-> n, phase |-> Unset, fin |-> FALSE, del |-> FALSE,
                            end |-> FALSE]
  BY DEF LifeOf, NewTask
<1>2. ASSUME NEW l \in [uid: Nat, phase: Phases, fin: BOOLEAN, del: BOOLEAN, end: BOOLEAN]
      PROVE  [l EXCEPT !.uid = n] = [uid |-> n, phase |-> l.phase, fin |-> l.fin,
                                     del |-> l.del, end |-> l.end]
  OBVIOUS
<1> DEFINE l == LifeOf(Absent)
<1>3. /\ l \in [uid: Nat, phase: Phases, fin: BOOLEAN, del: BOOLEAN, end: BOOLEAN]
      /\ l.phase = Unset /\ l.fin = FALSE /\ l.del = FALSE /\ l.end = FALSE
  BY DEF LifeOf, Absent, NewTask, Phases
<1> QED
  BY <1>1, <1>2, <1>3, Zenon

LEMMA DeletedLife ==
  ASSUME NEW o \in TaskObjects
  PROVE  LifeOf(Deleted(o)) = IF LifeOf(o).fin THEN [LifeOf(o) EXCEPT !.del = TRUE]
                                               ELSE LifeOf(Absent)
<1>1. LifeOf(o).fin = o.fin
  BY LifeValues
<1>2. CASE o.fin
  BY <1>1, <1>2, LifeFields, Zenon DEF Deleted
<1>3. CASE ~o.fin
  BY <1>1, <1>3 DEF Deleted
<1> QED
  BY <1>2, <1>3

=============================================================================
