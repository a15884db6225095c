-------------------------- MODULE TaskUserProofs ----------------------------
(***************************************************************************)
(* Theorems about a task as its users see it, through the SDK and through  *)
(* the URL in its status.                                                  *)
(*                                                                         *)
(* TaskClient, the SDK's calls on one task, for any options, any latency   *)
(* of requests and any number of objects under the name: a wait for a      *)
(* deletion is not fooled by a successor of the name, no wait returns an   *)
(* older task than it saw, no edit is lost, and a wait that times out had  *)
(* not been able to see what it waited for.                                *)
(*                                                                         *)
(* TaskAccess, for any routing settings, ports and states of the gateway   *)
(* and any number of calls, edits, changes and refused Creates: the URL of *)
(* a running task leads to its workload, and what is asked of a builder    *)
(* reaches the workload, but for what is listed.                           *)
(***************************************************************************)
EXTENDS TaskClient, TaskAccess, Integers, TLAPS, WellFoundedInduction, FiniteSetTheorems

-----------------------------------------------------------------------------
(* Types.                                                                  *)

Phases == {"", "creating", "running"} \cup Terminal

Lives == [uid: Nat, phase: Phases, fin: BOOLEAN, del: BOOLEAN, end: BOOLEAN]

Copies == [uid: Nat, current: BOOLEAN, edits: SUBSET {Mine, Theirs}]

Results ==
  [err: {"pending", "none", "notFound", "failed", "timeout", "error", "refused"}, object: Lives]

ObjectTypeOK ==
  /\ kind \in Kinds
  /\ life \in [{Task} -> Lives]
  /\ created \in [{Task} -> Nat]
  /\ edits \subseteq {Mine, Theirs}

\* Which calls get where.
CallOK ==
  \/ call = "none" /\ pc = "idle"
  \/ call = "running" /\ pc \in {"select", "look", "reply", "last", "done"}
  \/ call = "completed" /\ pc \in {"select", "look", "reply", "last", "done"}
  \/ call = "deletion" /\ pc \in {"select", "look", "reply", "done"}
  \/ call = "createOrPatch" /\ pc \in {"patchGet", "patchCreate", "patchUpdate", "done"}
  \/ call = "updateWithRetry" /\ pc \in {"retryGet", "modify", "done"}

ClientTypeOK ==
  /\ opt \in Waits /\ elapsed \in Nat /\ ticked \in BOOLEAN /\ flight \in 0..Latency
  /\ mine \in Copies
  /\ seen \in Lives
  /\ result \in Results
  /\ held \in Nat /\ target \in Nat

TypeOK == ObjectTypeOK /\ CallOK /\ ClientTypeOK

LEMMA NoLifeType ==
  NoLife \in Lives /\ NoLife.uid = 0 /\ ~NoLife.fin /\ ~NoLife.del
  BY DEF NoLife, Deployment!NoLife, Lives, Phases

LEMMA SameNoLife == NoLife = Job!NoLife
  BY DEF NoLife, Deployment!NoLife, Job!NoLife

-----------------------------------------------------------------------------
(* What others do to the object.                                           *)

\* No object is different from NoLife, and an object has the latest uid.
ObjectOK ==
  /\ Object.uid = 0 => Object = NoLife
  /\ Object.uid \in {0, created[Task]}

\* n is the same object as o at a later point of its life.
Continues(o, n) == n.uid = o.uid /\ Later(o.phase, n.phase) /\ (o.del => n.del)

\* The object goes on with its life, is gone, or is a new one.
ObjectMoves ==
  \/ Continues(Object, Object') /\ UNCHANGED created
  \/ Object'.uid = 0 /\ UNCHANGED created
  \/ /\ Object.uid = 0 /\ Object'.uid = created[Task] + 1
     /\ created'[Task] = created[Task] + 1

LEMMA ObjectWritten ==
  ASSUME ObjectTypeOK, NEW l \in Lives, life' = [life EXCEPT ![Task] = l]
  PROVE  life' \in [{Task} -> Lives] /\ Object' = l
  BY DEF ObjectTypeOK, Object

LEMMA ObjectChanges ==
  ASSUME ObjectTypeOK, ObjectOK, ControllerMoves \/ Submitted \/ Withdrawn
  PROVE  /\ life' \in [{Task} -> Lives] /\ created' \in [{Task} -> Nat]
         /\ ObjectOK' /\ ObjectMoves
<1> DEFINE o == life[Task]
<1>1. o \in Lives /\ created[Task] \in Nat /\ created = [t \in {Task} |-> created[t]]
  BY DEF ObjectTypeOK
<1>2. ASSUME NEW l \in Lives, life' = [life EXCEPT ![Task] = l], UNCHANGED created,
             l.uid = o.uid, Later(o.phase, l.phase), o.del => l.del, o.uid # 0
      PROVE  /\ life' \in [{Task} -> Lives] /\ created' \in [{Task} -> Nat]
             /\ ObjectOK' /\ ObjectMoves
  <2>1. life' \in [{Task} -> Lives] /\ Object' = l
    BY <1>2, ObjectWritten
  <2> QED
    BY <1>2, <2>1 DEF ObjectTypeOK, ObjectOK, ObjectMoves, Continues, Object
<1>3. ASSUME life' = [life EXCEPT ![Task] = NoLife], UNCHANGED created
      PROVE  /\ life' \in [{Task} -> Lives] /\ created' \in [{Task} -> Nat]
             /\ ObjectOK' /\ ObjectMoves
  <2>1. life' \in [{Task} -> Lives] /\ Object' = NoLife
    BY <1>3, ObjectWritten, NoLifeType
  <2> QED
    BY <1>3, <2>1, NoLifeType DEF ObjectTypeOK, ObjectOK, ObjectMoves
<1>4. CASE Submitted
  <2> DEFINE l == [NoLife EXCEPT !.uid = created[Task] + 1]
  <2>1. l \in Lives /\ l.uid = created[Task] + 1
    BY <1>1, NoLifeType DEF Lives
  <2>2. /\ life' = [life EXCEPT ![Task] = l] /\ Object.uid = 0
        /\ created' = [created EXCEPT ![Task] = @ + 1]
    BY <1>4, SameNoLife DEF Submitted, Job!Submit, Job!Becomes, Object
  <2> HIDE DEF l
  <2>3. life' \in [{Task} -> Lives] /\ Object' = l
    BY <2>1, <2>2, ObjectWritten
  <2> QED
    BY <1>1, <2>1, <2>2, <2>3 DEF ObjectOK, ObjectMoves
<1>5. CASE Withdrawn
  <2>1. [o EXCEPT !.del = TRUE] \in Lives
    BY <1>1 DEF Lives
  <2>2. /\ UNCHANGED created /\ o.uid # 0
        /\ \/ life' = [life EXCEPT ![Task] = [o EXCEPT !.del = TRUE]]
           \/ life' = [life EXCEPT ![Task] = NoLife]
    BY <1>5, SameNoLife DEF Withdrawn, Job!RequestDeletion, Job!Becomes
  <2>3. /\ [o EXCEPT !.del = TRUE].uid = o.uid /\ [o EXCEPT !.del = TRUE].phase = o.phase
        /\ [o EXCEPT !.del = TRUE].del
    BY <1>1 DEF Lives
  <2> QED
    BY <1>2, <1>3, <2>1, <2>2, <2>3 DEF Later
<1>6. CASE ControllerMoves
  <2>1. UNCHANGED created
    BY <1>6 DEF ControllerMoves
  <2>2. o.fin => o.uid # 0
    BY <1>1, NoLifeType DEF ObjectOK, Object
  <2>3. ASSUME NEW b \in BOOLEAN
        PROVE  /\ [o EXCEPT !.fin = b] \in Lives /\ [o EXCEPT !.end = b] \in Lives
               /\ [o EXCEPT !.fin = b].uid = o.uid /\ [o EXCEPT !.end = b].uid = o.uid
               /\ [o EXCEPT !.fin = b].phase = o.phase /\ [o EXCEPT !.end = b].phase = o.phase
               /\ [o EXCEPT !.fin = b].del = o.del /\ [o EXCEPT !.end = b].del = o.del
    BY <1>1 DEF Lives
  <2>4. ASSUME NEW to \in {"creating", "running"} \cup Terminal
        PROVE  /\ [o EXCEPT !.phase = to] \in Lives /\ [o EXCEPT !.phase = to].uid = o.uid
               /\ [o EXCEPT !.phase = to].phase = to /\ [o EXCEPT !.phase = to].del = o.del
    BY <1>1 DEF Lives, Phases
  <2>5. ASSUME NEW to, life' = [life EXCEPT ![Task] = [o EXCEPT !.phase = to]], o.uid # 0,
               o.phase \notin Terminal, to \in {"creating", "running"} \cup Terminal
        PROVE  /\ life' \in [{Task} -> Lives] /\ created' \in [{Task} -> Nat]
               /\ ObjectOK' /\ ObjectMoves
    <3>1. Later(o.phase, to)
      BY <2>5 DEF Later, Terminal
    <3> QED
      BY <1>2, <2>1, <2>4, <2>5, <3>1
  <2>6. ASSUME NEW b \in BOOLEAN, o.uid # 0,
               \/ life' = [life EXCEPT ![Task] = [o EXCEPT !.fin = b]]
               \/ life' = [life EXCEPT ![Task] = [o EXCEPT !.end = b]]
        PROVE  /\ life' \in [{Task} -> Lives] /\ created' \in [{Task} -> Nat]
               /\ ObjectOK' /\ ObjectMoves
    BY <1>2, <2>1, <2>3, <2>6 DEF Later
  <2>7. CASE Deployment!Guard(Task) \/ Job!Guard(Task) \/ Deployment!Stamp(Task)
             \/ Job!Stamp(Task) \/ Job!Withdraw(Task)
    <3>1. /\ o.uid # 0
          /\ \E b \in BOOLEAN :
                \/ life' = [life EXCEPT ![Task] = [o EXCEPT !.fin = b]]
                \/ life' = [life EXCEPT ![Task] = [o EXCEPT !.end = b]]
      BY <2>2, <2>7
      DEF Deployment!Guard, Job!Guard, Deployment!Stamp, Job!Stamp, Job!Withdraw,
          Deployment!Becomes, Job!Becomes
    <3> QED
      BY <2>6, <3>1
  <2>8. CASE Deployment!Begin(Task) \/ Job!Begin(Task)
    <3>1. /\ o.uid # 0 /\ o.phase \notin Terminal
          /\ \/ life' = [life EXCEPT ![Task] = [o EXCEPT !.phase = "creating"]]
             \/ life' = [life EXCEPT ![Task] = [o EXCEPT !.phase = "running"]]
      BY <2>8
      DEF Deployment!Begin, Job!Begin, Deployment!Becomes, Job!Becomes, Terminal
    <3> QED
      BY <2>5, <3>1
  <2>9. CASE Deployment!Advance(Task) \/ Job!Advance(Task)
    <3>1. PICK e \in DeployedEdges \cup JobEdges :
            /\ e[1] = o.phase /\ o.fin
            /\ life' = [life EXCEPT ![Task] = [o EXCEPT !.phase = e[2]]]
      BY <2>9 DEF Deployment!Advance, Job!Advance, Deployment!Becomes, Job!Becomes
    <3>2. e[1] \notin Terminal /\ e[2] \in {"creating", "running"} \cup Terminal
      BY <3>1 DEF DeployedEdges, JobEdges, Terminal
    <3> QED
      BY <2>2, <2>5, <3>1, <3>2
  <2>10. CASE Deployment!Release(Task) \/ Job!Release(Task)
    <3>1. life' = [life EXCEPT ![Task] = NoLife]
      BY <2>10, SameNoLife
      DEF Deployment!Release, Job!Release, Deployment!Becomes, Job!Becomes, NoLife
    <3> QED
      BY <1>3, <2>1, <3>1
  <2> QED
    BY <1>6, <2>7, <2>8, <2>9, <2>10 DEF ControllerMoves
<1> QED
  BY <1>4, <1>5, <1>6

-----------------------------------------------------------------------------
(* Every step.                                                             *)

\* The object is as it was, or somebody has acted on it.
ObjectSteps == UNCHANGED <<life, created>> \/ ObjectMoves

LEMMA ObjectStays ==
  ASSUME ObjectTypeOK, ObjectOK, UNCHANGED <<kind, life, created>>,
         edits' \subseteq {Mine, Theirs}
  PROVE  ObjectTypeOK' /\ ObjectOK' /\ ObjectSteps
  BY DEF ObjectTypeOK, ObjectOK, Object, ObjectSteps

LEMMA OthersType ==
  ASSUME TypeOK, ObjectOK, OthersAct \/ OthersEdit
  PROVE  TypeOK' /\ ObjectOK' /\ ObjectSteps
<1>1. [mine EXCEPT !.current = FALSE] \in Copies
  BY DEF TypeOK, ClientTypeOK, Copies
<1>2. CallOK'
  BY DEF OthersAct, OthersEdit, TypeOK, CallOK
<1>3. CASE OthersAct
  <2>1. ObjectTypeOK' /\ ObjectOK' /\ ObjectSteps
    <3>1. edits' \subseteq {Mine, Theirs} /\ kind' = kind
      BY <1>3 DEF OthersAct, TypeOK, ObjectTypeOK
    <3> QED
      BY <1>3, <3>1, ObjectChanges DEF OthersAct, TypeOK, ObjectTypeOK, ObjectSteps
  <2>2. ClientTypeOK'
    BY <1>1, <1>3 DEF OthersAct, ObjectChanged, waitVars, TypeOK, ClientTypeOK
  <2> QED
    BY <1>2, <2>1, <2>2 DEF TypeOK
<1>4. CASE OthersEdit
  <2>1. ObjectTypeOK' /\ ObjectOK' /\ ObjectSteps
    BY <1>4, ObjectStays DEF OthersEdit, TypeOK, ObjectTypeOK
  <2>2. ClientTypeOK'
    BY <1>1, <1>4 DEF OthersEdit, waitVars, historyVars, TypeOK, ClientTypeOK
  <2> QED
    BY <1>2, <2>1, <2>2 DEF TypeOK
<1> QED
  BY <1>3, <1>4

LEMMA ReturnsType ==
  ASSUME NEW err \in {"none", "notFound", "failed", "timeout", "error", "refused"},
         NEW o \in Lives, Returns(err, o)
  PROVE  result' \in Results /\ pc' = "done"
  BY DEF Returns, Results

LEMMA CallsType ==
  ASSUME TypeOK, ObjectOK, Calls
  PROVE  TypeOK' /\ ObjectOK' /\ ObjectSteps
<1>1. /\ Object \in Lives /\ Object.uid \in Nat /\ opt \in Waits /\ 0 \in 0..Latency
      /\ edits \subseteq {Mine, Theirs}
  BY LatencyAssumption DEF TypeOK, ObjectTypeOK, ClientTypeOK, Object, Lives
<1>2. UNCHANGED objectVars /\ UNCHANGED <<opt, held>> /\ target' = Object.uid
  BY DEF Calls, CallWaitForRunning, CallWaitForCompleted, CallWaitForDeletion,
         CallCreateOrPatch, CallUpdateWithRetry, Called, StartPolling, waitVars
<1>3. ObjectTypeOK' /\ ObjectOK' /\ ObjectSteps
  BY <1>2, ObjectStays DEF objectVars, TypeOK, ObjectTypeOK
<1>4. CASE CallWaitForCompleted \/ CallWaitForDeletion
  <2>1. CallOK'
    BY <1>4 DEF CallWaitForCompleted, CallWaitForDeletion, Called, StartPolling, CallOK
  <2>2. /\ elapsed' = 0 /\ ticked' = FALSE /\ flight' = 0
        /\ UNCHANGED <<mine, seen, result>>
    BY <1>4 DEF CallWaitForCompleted, CallWaitForDeletion, Called, StartPolling
  <2> QED
    BY <1>1, <1>2, <1>3, <2>1, <2>2 DEF TypeOK, ClientTypeOK
<1>5. CASE CallWaitForRunning
  <2>1. \/ result' \in Results /\ pc' = "done" /\ UNCHANGED waitVars
        \/ StartPolling /\ UNCHANGED result
    <3>1. CASE ~Exists(Object) \/ Object.phase = "running" \/ Object.phase = "failed"
      <4>1. /\ \/ Returns("notFound", Object) \/ Returns("none", Object)
               \/ Returns("failed", Object)
            /\ UNCHANGED waitVars
        BY <1>5, <3>1 DEF CallWaitForRunning
      <4> QED
        BY <1>1, <4>1, ReturnsType
    <3>2. CASE Exists(Object) /\ Object.phase # "running" /\ Object.phase # "failed"
      BY <1>5, <3>2 DEF CallWaitForRunning
    <3> QED
      BY <3>1, <3>2
  <2>2. call' = "running" /\ seen' = Object /\ UNCHANGED mine
    BY <1>5 DEF CallWaitForRunning, Called
  <2>3. CallOK'
    BY <2>1, <2>2 DEF StartPolling, CallOK
  <2>4. ClientTypeOK'
    <3>1. /\ opt' \in Waits /\ mine' \in Copies /\ seen' \in Lives
          /\ held' \in Nat /\ target' \in Nat /\ result' \in Results
      BY <1>1, <1>2, <2>1, <2>2 DEF TypeOK, ClientTypeOK
    <3>2. elapsed' \in Nat /\ ticked' \in BOOLEAN /\ flight' \in 0..Latency
      <4>1. CASE UNCHANGED waitVars
        BY <4>1 DEF waitVars, TypeOK, ClientTypeOK
      <4>2. CASE StartPolling
        BY <1>1, <4>2 DEF StartPolling
      <4> QED
        BY <2>1, <4>1, <4>2
    <3> QED
      BY <3>1, <3>2 DEF ClientTypeOK
  <2> QED
    BY <1>3, <2>3, <2>4 DEF TypeOK
<1>6. CASE CallCreateOrPatch
  <2>1. mine' \in Copies
    <3>1. NoCopy \in Copies /\ [uid |-> Object.uid, current |-> TRUE, edits |-> edits] \in Copies
      BY <1>1 DEF Copies, NoCopy
    <3> QED
      BY <1>6, <3>1 DEF CallCreateOrPatch
  <2>2. CallOK' /\ UNCHANGED <<waitVars, seen, result>>
    BY <1>6 DEF CallCreateOrPatch, CallOK
  <2> QED
    BY <1>1, <1>2, <1>3, <2>1, <2>2 DEF waitVars, TypeOK, ClientTypeOK
<1>7. CASE CallUpdateWithRetry
  <2>1. CallOK' /\ UNCHANGED <<waitVars, mine, seen, result>>
    BY <1>7 DEF CallUpdateWithRetry, CallOK
  <2> QED
    BY <1>1, <1>2, <1>3, <2>1 DEF waitVars, TypeOK, ClientTypeOK
<1> QED
  BY <1>4, <1>5, <1>6, <1>7 DEF Calls

LEMMA WaitType ==
  ASSUME TypeOK, ObjectOK,
         Tick \/ Poll \/ Look \/ Answer \/ Deadline \/ LastGet \/ ReadFails
  PROVE  TypeOK' /\ ObjectOK' /\ ObjectSteps
<1>1. Object \in Lives /\ seen \in Lives
  BY DEF TypeOK, ObjectTypeOK, ClientTypeOK, Object
<1>2. UNCHANGED objectVars
  BY DEF Tick, Poll, Look, Answer, Deadline, LastGet, ReadFails
<1>3. ObjectTypeOK' /\ ObjectOK' /\ ObjectSteps
  BY <1>2, ObjectStays DEF objectVars, TypeOK, ObjectTypeOK
<1>4. CASE Tick
  BY <1>3, <1>4, LatencyAssumption DEF Tick, TypeOK, CallOK, ClientTypeOK
<1>5. CASE Poll \/ Look
  <2>1. CallOK'
    BY <1>5 DEF Poll, Look, TypeOK, CallOK
  <2>2. CASE Poll
    <3>1. ticked' = FALSE /\ flight' = 0 /\ 0 \in 0..Latency
      BY <2>2, LatencyAssumption DEF Poll
    <3>2. UNCHANGED <<opt, elapsed, mine, seen, result, historyVars>>
      BY <2>2 DEF Poll
    <3> QED
      BY <1>3, <2>1, <3>1, <3>2 DEF historyVars, TypeOK, ClientTypeOK
  <2>3. CASE Look
    BY <1>1, <1>3, <2>1, <2>3 DEF Look, waitVars, historyVars, TypeOK, ClientTypeOK
  <2> QED
    BY <1>5, <2>2, <2>3
<1>6. CASE Answer \/ Deadline \/ LastGet \/ ReadFails
  <2>1. result' \in Results
    BY <1>1, <1>6, ReturnsType, NoLifeType
    DEF Answer, Deadline, LastGet, ReadFails, TypeOK, ClientTypeOK
  <2>2. UNCHANGED <<waitVars, mine, seen, historyVars>>
    BY <1>6 DEF Answer, Deadline, LastGet, ReadFails
  <2>3. CallOK'
    BY <1>6 DEF Answer, Deadline, LastGet, ReadFails, Returns, TypeOK, CallOK
  <2> QED
    BY <1>3, <2>1, <2>2, <2>3 DEF waitVars, historyVars, TypeOK, ClientTypeOK
<1> QED
  BY <1>4, <1>5, <1>6

LEMMA ChangeType ==
  ASSUME TypeOK, ObjectOK, PatchGet \/ PatchCreate \/ PatchUpdate \/ RetryGet \/ Modify
  PROVE  TypeOK' /\ ObjectOK' /\ ObjectSteps
<1>1. Object \in Lives /\ mine \in Copies
  BY DEF TypeOK, ObjectTypeOK, ClientTypeOK, Object
<1>2. CallOK' /\ UNCHANGED <<waitVars, seen, historyVars>>
  BY DEF PatchGet, PatchCreate, PatchUpdate, RetryGet, Modify, Returns, TypeOK, CallOK
<1>3. mine' \in Copies
  <2>1. Object.uid \in Nat /\ edits \cup {Mine} \subseteq {Mine, Theirs}
    BY <1>1 DEF Lives, TypeOK, ObjectTypeOK
  <2>2. /\ [mine EXCEPT !.edits = edits \cup {Mine}] \in Copies
        /\ [uid |-> Object.uid, current |-> TRUE, edits |-> edits \cup {Mine}] \in Copies
    BY <1>1, <2>1 DEF Copies
  <2> QED
    BY <1>1, <2>2 DEF PatchGet, PatchCreate, PatchUpdate, RetryGet, Modify
<1>4. ObjectTypeOK' /\ ObjectOK' /\ ObjectSteps
  <2>1. CASE Submitted /\ kind' = kind /\ edits' = {Mine}
    BY <2>1, ObjectChanges DEF TypeOK, ObjectTypeOK, ObjectSteps
  <2>2. CASE UNCHANGED objectVars
    BY <2>2, ObjectStays DEF objectVars, TypeOK, ObjectTypeOK
  <2>3. CASE Written(mine.edits)
    BY <1>1, <2>3, ObjectStays DEF Written, TypeOK, Copies
  <2> QED
    BY <2>1, <2>2, <2>3
    DEF PatchGet, PatchCreate, PatchUpdate, RetryGet, Modify, objectVars
<1>5. result' \in Results
  <2>1. CASE PatchCreate
    <3>1. life'[Task] \in Lives
      BY <1>4 DEF ObjectTypeOK
    <3> QED
      BY <1>1, <2>1, <3>1, ReturnsType DEF PatchCreate
  <2>2. CASE PatchGet \/ PatchUpdate \/ RetryGet
    BY <1>1, <2>2, ReturnsType DEF PatchGet, PatchUpdate, RetryGet, TypeOK, ClientTypeOK
  <2>3. CASE Modify
    <3>1. result \in Results
      BY DEF TypeOK, ClientTypeOK
    <3>2. \/ Returns("none", Object)
          \/ result' = [result EXCEPT !.err = IF pc' = "done" THEN "refused" ELSE @]
      BY <2>3 DEF Modify
    <3>3. [result EXCEPT !.err = IF pc' = "done" THEN "refused" ELSE @] \in Results
      BY <3>1 DEF Results
    <3> QED
      BY <1>1, <3>2, <3>3, ReturnsType
  <2> QED
    BY <2>1, <2>2, <2>3
<1> QED
  BY <1>2, <1>3, <1>4, <1>5 DEF waitVars, historyVars, TypeOK, ClientTypeOK

LEMMA StepType ==
  ASSUME TypeOK, ObjectOK, [Next]_vars
  PROVE  TypeOK' /\ ObjectOK' /\ ObjectSteps
<1>1. CASE UNCHANGED vars
  BY <1>1
  DEF vars, objectVars, waitVars, historyVars, TypeOK, ObjectTypeOK, CallOK, ClientTypeOK,
      ObjectOK, Object, ObjectSteps
<1> QED
  BY <1>1, OthersType, CallsType, WaitType, ChangeType DEF Next, ClientStep

LEMMA InitTyped == Init => TypeOK /\ ObjectOK
<1> SUFFICES ASSUME Init
             PROVE  TypeOK /\ ObjectOK
  OBVIOUS
<1>1. life = [t \in {Task} |-> NoLife] /\ created = [t \in {Task} |-> 0]
  BY SameNoLife DEF Init, Job!Init
<1>2. ObjectTypeOK /\ ObjectOK
  BY <1>1, NoLifeType DEF Init, ObjectTypeOK, ObjectOK, Object
<1>3. CallOK
  BY DEF Init, CallOK
<1>4. ClientTypeOK
  <2>1. NoCopy \in Copies /\ NoResult \in Results /\ 0 \in 0..Latency
    BY NoLifeType, LatencyAssumption DEF NoCopy, NoResult, Copies, Results
  <2> QED
    BY <2>1, NoLifeType DEF Init, ClientTypeOK
<1> QED
  BY <1>2, <1>3, <1>4 DEF TypeOK

\* Every variable of the client and the server has its type, whoever acts, and
\* an object has the latest uid handed out.
LEMMA ClientTyped == Spec => [](TypeOK /\ ObjectOK)
<1>1. TypeOK /\ ObjectOK /\ [Next]_vars => TypeOK' /\ ObjectOK'
  BY StepType
<1> QED
  BY <1>1, InitTyped, PTL DEF Spec
-----------------------------------------------------------------------------
(* A wait for a deletion.                                                  *)

\* The client knows that the object it was called for is gone.
KnowsGone ==
  /\ call = "deletion"
  /\ \/ pc = "reply" /\ ~Exists(seen)
     \/ pc = "done" /\ result.err = "none"

\* What is gone has had its uid, and the name's next object gets a new one.
GoneForGood ==
  /\ target <= created[Task]
  /\ KnowsGone => target = 0 \/ Object.uid # target

LEMMA GoneStays ==
  ASSUME TypeOK, ObjectSteps, target <= created[Task], target' = target
  PROVE  /\ target' <= created'[Task]
         /\ target = 0 \/ Object.uid # target => target' = 0 \/ Object'.uid # target'
<1>1. target \in Nat /\ created[Task] \in Nat
  BY DEF TypeOK, ClientTypeOK, ObjectTypeOK
<1>2. CASE UNCHANGED <<life, created>>
  BY <1>2 DEF Object
<1>3. CASE ObjectMoves
  BY <1>1, <1>3 DEF ObjectMoves, Continues
<1> QED
  BY <1>2, <1>3 DEF ObjectSteps

LEMMA GoneForGoodStep ==
  ASSUME TypeOK, ObjectOK, ObjectSteps, GoneForGood, [Next]_vars
  PROVE  GoneForGood'
<1>1. CASE Calls
  <2>1. target' = Object.uid /\ created' = created /\ created[Task] \in Nat
    BY <1>1
    DEF Calls, CallWaitForRunning, CallWaitForCompleted, CallWaitForDeletion,
        CallCreateOrPatch, CallUpdateWithRetry, Called, objectVars, TypeOK, ObjectTypeOK
  <2>2. target' <= created'[Task]
    BY <2>1 DEF ObjectOK
  <2>3. ~KnowsGone'
    BY <1>1
    DEF Calls, CallWaitForRunning, CallWaitForCompleted, CallWaitForDeletion,
        CallCreateOrPatch, CallUpdateWithRetry, Called, StartPolling, KnowsGone
  <2> QED
    BY <2>2, <2>3 DEF GoneForGood
<1>2. CASE Look
  <2>1. /\ seen' = Object /\ Object' = Object /\ UNCHANGED <<created, target>>
        /\ pc' = "reply"
    BY <1>2 DEF Look, objectVars, historyVars, Object
  <2>2. ~Exists(seen') => target' = 0 \/ Object'.uid # target'
    BY <2>1 DEF Exists
  <2> QED
    BY <2>1, <2>2 DEF GoneForGood, KnowsGone
<1>3. ASSUME UNCHANGED target, KnowsGone' => KnowsGone
      PROVE  GoneForGood'
  BY <1>3, GoneStays DEF GoneForGood
<1>4. CASE Tick \/ Poll \/ OthersAct \/ OthersEdit \/ UNCHANGED vars
  BY <1>3, <1>4
  DEF Tick, Poll, OthersAct, OthersEdit, vars, historyVars, KnowsGone
<1>5. CASE Answer \/ Deadline \/ LastGet \/ ReadFails
  <2>1. KnowsGone' => KnowsGone
    <3>1. CASE Answer
      <4>1. UNCHANGED <<call, seen>> /\ pc = "reply" /\ pc' # "reply"
        BY <1>5, <3>1 DEF Answer, Returns
      <4>2. call = "deletion" /\ Exists(seen) => ~Satisfied
        BY DEF Satisfied
      <4>3. ~Satisfied => pc' = "select"
        BY <3>1 DEF Answer
      <4> QED
        BY <4>1, <4>2, <4>3 DEF KnowsGone, Exists
    <3>2. CASE Deadline \/ ReadFails
      BY <3>2 DEF Deadline, ReadFails, Returns, KnowsGone
    <3>3. CASE LastGet
      BY <3>3 DEF LastGet, KnowsGone, TypeOK, CallOK
    <3> QED
      BY <1>5, <3>1, <3>2, <3>3
  <2>2. UNCHANGED target
    BY <1>5 DEF Answer, Deadline, LastGet, ReadFails, historyVars
  <2> QED
    BY <1>3, <2>1, <2>2
<1>6. CASE PatchGet \/ PatchCreate \/ PatchUpdate \/ RetryGet \/ Modify
  <2>1. ~KnowsGone' /\ UNCHANGED target
    BY <1>6
    DEF PatchGet, PatchCreate, PatchUpdate, RetryGet, Modify, historyVars, KnowsGone, TypeOK,
        CallOK
  <2> QED
    BY <1>3, <2>1
<1> QED
  BY <1>1, <1>2, <1>4, <1>5, <1>6 DEF Next, ClientStep

\* WaitForDeletion's nil is a promise about the object, not about the name
\* (wait.go:104-123, devtask.go:180): the object that was there when it was
\* called is gone for good, also if others have created the task anew while
\* the client was polling, and however long its answer took.
THEOREM WaitForDeletionIsTrue == Spec => []DeletedIsGone
<1>1. Init => GoneForGood
  BY SameNoLife DEF Init, Job!Init, GoneForGood, KnowsGone
<1>2. TypeOK /\ ObjectOK /\ GoneForGood /\ [Next]_vars => GoneForGood'
  BY StepType, GoneForGoodStep
<1>3. GoneForGood => DeletedIsGone
  BY DEF GoneForGood, KnowsGone, DeletedIsGone
<1> QED
  BY <1>1, <1>2, <1>3, ClientTyped, PTL DEF Spec

-----------------------------------------------------------------------------
(* What a wait returns.                                                    *)

\* Unless it is gone, the object is the one the client saw, at that point of
\* its life or a later one, or a later object.
SeenBehind ==
  /\ seen.uid <= created[Task]
  /\ Exists(Object) =>
        /\ seen.uid <= Object.uid
        /\ seen.uid = Object.uid => Continues(seen, Object)

LEMMA LaterThanLater ==
  ASSUME NEW p, NEW q, NEW r, Later(p, q), Later(q, r)
  PROVE  Later(p, r)
  BY DEF Later

LEMMA SeenStaysBehind ==
  ASSUME TypeOK, ObjectOK, ObjectSteps, SeenBehind, UNCHANGED seen
  PROVE  SeenBehind'
<1>1. seen.uid \in Nat /\ created[Task] \in Nat
  BY DEF TypeOK, ClientTypeOK, ObjectTypeOK, Lives
<1>2. CASE UNCHANGED <<life, created>>
  BY <1>2 DEF SeenBehind, Object
<1>3. CASE ObjectMoves
  <2>1. CASE Continues(Object, Object') /\ UNCHANGED created
    <3>1. Continues(seen, Object) => Continues(seen, Object')
      BY <2>1, LaterThanLater DEF Continues
    <3>2. Object'.uid = Object.uid
      BY <2>1 DEF Continues
    <3> QED
      BY <2>1, <3>1, <3>2 DEF SeenBehind, Exists
  <2>2. CASE Object'.uid = 0 /\ UNCHANGED created
    BY <2>2 DEF SeenBehind, Exists
  <2>3. CASE Object'.uid = created[Task] + 1 /\ created'[Task] = created[Task] + 1
    <3>1. seen'.uid < Object'.uid /\ seen'.uid <= created'[Task]
      BY <1>1, <2>3 DEF SeenBehind
    <3> QED
      BY <1>1, <3>1, <2>3 DEF SeenBehind
  <2> QED
    BY <1>3, <2>1, <2>2, <2>3 DEF ObjectMoves
<1> QED
  BY <1>2, <1>3 DEF ObjectSteps

\* A read of the object as it is leaves nothing behind.
LEMMA SeenNow ==
  ASSUME TypeOK, ObjectOK, UNCHANGED objectVars, seen' = Object
  PROVE  SeenBehind'
<1>1. Object' = Object /\ created' = created
  BY DEF objectVars, Object
<1>2. Object.uid \in Nat /\ Object.uid <= created[Task]
  BY DEF Object, ObjectOK, TypeOK, ObjectTypeOK, Lives
<1>3. Continues(Object, Object)
  BY DEF Continues, Later
<1> QED
  BY <1>1, <1>2, <1>3 DEF SeenBehind

LEMMA SeenBehindStep ==
  ASSUME TypeOK, ObjectOK, ObjectSteps, SeenBehind, [Next]_vars
  PROVE  SeenBehind'
<1>1. CASE seen' = seen
  BY <1>1, SeenStaysBehind
<1>2. CASE Look \/ CallWaitForRunning
  BY <1>2, SeenNow DEF Look, CallWaitForRunning, Called
<1>3. seen' = seen \/ Look \/ CallWaitForRunning
  BY DEF Next, Calls, CallWaitForCompleted, CallWaitForDeletion, CallCreateOrPatch,
         CallUpdateWithRetry, ClientStep, Poll, Answer, Deadline, LastGet, ReadFails, PatchGet,
         PatchCreate, PatchUpdate, RetryGet, Modify, Tick, OthersAct, OthersEdit, vars
<1> QED
  BY <1>1, <1>2, <1>3

LEMMA AnswersStep ==
  ASSUME TypeOK, SeenBehind, AnswersAreNoOlder, [Next]_vars
  PROVE  AnswersAreNoOlder'
<1> DEFINE Older == call \in {"running", "completed"} /\ pc = "done" /\ result.err = "none"
<1>1. CASE LastGet
  <2>1. UNCHANGED seen /\ result' = [err |-> IF Exists(Object) THEN "none" ELSE "notFound",
                                     object |-> Object]
    BY <1>1 DEF LastGet, Returns
  <2>2. Exists(Object) \/ result'.err # "none"
    BY <2>1
  <2>3. result'.object = Object
    BY <2>1
  <2>4. seen.uid \in Nat /\ Object.uid \in Nat
    BY DEF TypeOK, ClientTypeOK, ObjectTypeOK, Lives, Object
  <2> QED
    BY <2>1, <2>2, <2>3, <2>4 DEF SeenBehind, Continues, AnswersAreNoOlder
<1>2. CASE CallWaitForRunning
  <2>1. seen' = Object /\ (result'.object = Object \/ pc' # "done")
    BY <1>2 DEF CallWaitForRunning, Called, Returns, StartPolling
  <2>2. Object.uid \in Nat
    BY DEF TypeOK, ObjectTypeOK, Lives, Object
  <2>3. CASE result'.object = Object
    <3>1. /\ result'.object.uid >= seen'.uid
          /\ Later(seen'.phase, result'.object.phase)
          /\ seen'.del => result'.object.del
      BY <2>1, <2>2, <2>3 DEF Later
    <3> QED
      BY <3>1 DEF AnswersAreNoOlder
  <2> QED
    BY <2>1, <2>3 DEF AnswersAreNoOlder
<1>3. CASE Older' => Older /\ UNCHANGED <<seen, result>>
  BY <1>3 DEF AnswersAreNoOlder
<1>4. \/ Older' => Older /\ UNCHANGED <<seen, result>>
      \/ LastGet \/ CallWaitForRunning
  <2>1. CASE Calls
    BY <2>1 DEF Calls, CallWaitForCompleted, CallWaitForDeletion, CallCreateOrPatch,
                CallUpdateWithRetry, StartPolling, Called
  <2>2. CASE Poll \/ Look \/ Answer \/ Deadline \/ ReadFails
    BY <2>2 DEF Poll, Look, Answer, Deadline, ReadFails, Returns, TypeOK, CallOK
  <2>3. CASE PatchGet \/ PatchCreate \/ PatchUpdate \/ RetryGet \/ Modify
    BY <2>3 DEF PatchGet, PatchCreate, PatchUpdate, RetryGet, Modify, TypeOK, CallOK
  <2>4. CASE Tick \/ OthersAct \/ OthersEdit \/ UNCHANGED vars
    BY <2>4 DEF Tick, OthersAct, OthersEdit, vars
  <2> QED
    BY <2>1, <2>2, <2>3, <2>4 DEF Next, ClientStep
<1>5. CASE ~Older'
  BY <1>5 DEF AnswersAreNoOlder
<1> QED
  BY <1>1, <1>2, <1>3, <1>4, <1>5

\* A wait that returns a task without an error returns the one it saw in the
\* state waited for, no earlier in its life, or a later object of the name
\* (wait.go:56-102, devtask.go:161, :177): the second Get may not find the task
\* any more, but never an older one, whoever deletes and creates meanwhile.
THEOREM WaitsReturnNothingOlder == Spec => []AnswersAreNoOlder
<1>1. Init => SeenBehind /\ AnswersAreNoOlder
  <2> SUFFICES ASSUME Init
               PROVE  SeenBehind /\ AnswersAreNoOlder
    OBVIOUS
  <2>1. life = [t \in {Task} |-> NoLife] /\ created = [t \in {Task} |-> 0]
    BY SameNoLife DEF Init, Job!Init
  <2>2. SeenBehind
    BY <2>1, NoLifeType DEF Init, SeenBehind, Object, Exists
  <2> QED
    BY <2>2 DEF Init, AnswersAreNoOlder
<1>2. TypeOK /\ ObjectOK /\ SeenBehind /\ AnswersAreNoOlder /\ [Next]_vars
      => SeenBehind' /\ AnswersAreNoOlder'
  BY StepType, SeenBehindStep, AnswersStep
<1> QED
  BY <1>1, <1>2, ClientTyped, PTL DEF Spec
-----------------------------------------------------------------------------
(* Edits.                                                                  *)

\* A copy that the server would accept carries every edit made so far.
CopyComplete ==
  pc \in {"patchUpdate", "modify"} /\ mine.current => edits \subseteq mine.edits

LEMMA CopyCompleteStep ==
  ASSUME TypeOK, CopyComplete, [Next]_vars
  PROVE  CopyComplete'
<1>1. mine \in Copies
  BY DEF TypeOK, ClientTypeOK
<1>2. CASE OthersAct \/ OthersEdit
  <2>1. mine' = [mine EXCEPT !.current = FALSE]
    BY <1>2 DEF OthersAct, ObjectChanged, OthersEdit
  <2>2. ~mine'.current
    BY <1>1, <2>1 DEF Copies
  <2> QED
    BY <2>2 DEF CopyComplete
<1>3. CASE PatchGet
  <2>1. /\ edits' = edits
        /\ mine' = [mine EXCEPT !.edits = edits \cup {Mine}] \/ pc' = "patchCreate"
    BY <1>3 DEF PatchGet, objectVars
  <2>2. [mine EXCEPT !.edits = edits \cup {Mine}].edits = edits \cup {Mine}
    BY <1>1 DEF Copies
  <2> QED
    BY <2>1, <2>2 DEF CopyComplete
<1>4. CASE RetryGet
  <2>1. /\ edits' = edits
        /\ \/ mine' = [uid |-> Object.uid, current |-> TRUE, edits |-> edits \cup {Mine}]
           \/ pc' = "done"
    BY <1>4 DEF RetryGet, Returns, objectVars
  <2> QED
    BY <2>1 DEF CopyComplete
<1>5. CASE pc' \notin {"patchUpdate", "modify"}
  BY <1>5 DEF CopyComplete
<1>6. CASE UNCHANGED <<pc, mine, edits>>
  BY <1>6 DEF CopyComplete
<1>7. \/ OthersAct \/ OthersEdit \/ PatchGet \/ RetryGet
      \/ pc' \notin {"patchUpdate", "modify"} \/ UNCHANGED <<pc, mine, edits>>
  <2>1. CASE Calls
    BY <2>1 DEF Calls, CallWaitForRunning, CallWaitForCompleted, CallWaitForDeletion,
                CallCreateOrPatch, CallUpdateWithRetry, StartPolling, Returns
  <2>2. CASE Poll \/ Look \/ Answer \/ Deadline \/ LastGet \/ ReadFails \/ Tick
    BY <2>2 DEF Poll, Look, Answer, Deadline, LastGet, ReadFails, Tick, Returns, objectVars
  <2>3. CASE PatchCreate \/ PatchUpdate \/ Modify
    BY <2>3 DEF PatchCreate, PatchUpdate, Modify, Returns
  <2>4. CASE UNCHANGED vars
    BY <2>4 DEF vars, objectVars
  <2> QED
    BY <2>1, <2>2, <2>3, <2>4 DEF Next, ClientStep
<1> QED
  BY <1>2, <1>3, <1>4, <1>5, <1>6, <1>7

LEMMA EditsKept ==
  ASSUME TypeOK, ObjectOK, CopyComplete, Next, life'[Task].uid = Object.uid
  PROVE  edits \subseteq edits'
<1>1. CASE OthersAct \/ OthersEdit
  BY <1>1 DEF OthersAct, OthersEdit
<1>2. CASE PatchCreate
  <2>1. CASE Submitted
    <3>1. Object.uid = 0 /\ Object'.uid = created[Task] + 1 /\ created[Task] \in Nat
      <4> DEFINE l == [NoLife EXCEPT !.uid = created[Task] + 1]
      <4>1. created[Task] \in Nat
        BY DEF TypeOK, ObjectTypeOK
      <4>2. l \in Lives /\ l.uid = created[Task] + 1
        BY <4>1, NoLifeType DEF Lives
      <4>3. life' = [life EXCEPT ![Task] = l] /\ Object.uid = 0
        BY <2>1, SameNoLife DEF Submitted, Job!Submit, Job!Becomes, Object
      <4> HIDE DEF l
      <4> QED
        BY <4>1, <4>2, <4>3, ObjectWritten DEF TypeOK
    <3> QED
      BY <3>1 DEF Object
  <2>2. CASE UNCHANGED edits
    BY <2>2
  <2> QED
    BY <1>2, <2>1, <2>2 DEF PatchCreate
<1>3. CASE PatchUpdate \/ Modify
  BY <1>3 DEF PatchUpdate, Modify, Written, objectVars, CopyComplete
<1>4. CASE UNCHANGED edits
  BY <1>4
<1>5. \/ OthersAct \/ OthersEdit \/ PatchCreate \/ PatchUpdate \/ Modify
      \/ UNCHANGED edits
  BY DEF Next, Calls, CallWaitForRunning, CallWaitForCompleted, CallWaitForDeletion,
         CallCreateOrPatch, CallUpdateWithRetry, Called, ClientStep, Poll, Look, Answer,
         Deadline, LastGet, ReadFails, PatchGet, RetryGet, Tick, objectVars
<1> QED
  BY <1>1, <1>2, <1>3, <1>4, <1>5

\* CreateOrPatch and UpdateWithRetry never write back a copy that misses what
\* another client has written since it was read (devtask.go:99-112, 193-201),
\* whichever version the caller's task carries: the server takes a copy only
\* with its own version, and such a copy has every edit.
THEOREM ClientsLoseNoEdit == Spec => NoLostEdit
<1>1. Init => CopyComplete
  BY DEF Init, CopyComplete
<1>2. TypeOK /\ CopyComplete /\ [Next]_vars => CopyComplete'
  BY CopyCompleteStep
<1>3. TypeOK /\ ObjectOK /\ CopyComplete /\ [Next]_vars
      => [life'[Task].uid = Object.uid => edits \subseteq edits']_vars
  BY EditsKept
<1> QED
  BY <1>1, <1>2, <1>3, ClientTyped, PTL DEF Spec, NoLostEdit
-----------------------------------------------------------------------------
(* The ticker: whole intervals.                                            *)

LEMMA DivMod ==
  ASSUME NEW e \in Nat, NEW d \in Nat \ {0}
  PROVE  (e % d) \in 0..(d-1) /\ (e \div d) \in Nat /\ e = d * (e \div d) + (e % d)
  BY SMTT(30)

LEMMA SameQuotient ==
  ASSUME NEW d \in Nat \ {0}, NEW p \in Int, NEW q \in Int, d * p < d * q + d, d * q < d * p + d
  PROVE  p = q
<1>1. CASE p >= q + 1
  <2>1. d * (p - (q + 1)) >= 0
    BY <1>1, SMT
  <2>2. d * (p - (q + 1)) = d * p - d * q - d
    BY SMT
  <2> QED
    BY <2>1, <2>2, SMT
<1>2. CASE q >= p + 1
  <2>1. d * (q - (p + 1)) >= 0
    BY <1>2, SMT
  <2>2. d * (q - (p + 1)) = d * q - d * p - d
    BY SMT
  <2> QED
    BY <2>1, <2>2, SMT
<1> QED
  BY <1>1, <1>2

\* A unit more: the next interval has begun, or there is a unit more of this one.
LEMMA NextUnit ==
  ASSUME NEW e \in Nat, NEW d \in Nat \ {0}
  PROVE  ((e + 1) % d) = 0 \/ ((e + 1) % d) = (e % d) + 1
<1> DEFINE q == e \div d
           p == (e + 1) \div d
           r == e % d
           s == (e + 1) % d
<1>1. q \in Nat /\ r \in 0..(d-1) /\ e = d * q + r
  BY DivMod
<1>2. p \in Nat /\ s \in 0..(d-1) /\ e + 1 = d * p + s
  <2>1. e + 1 \in Nat
    OBVIOUS
  <2> QED
    BY <2>1, DivMod
<1> HIDE DEF p, q, r, s
<1>3. d * p \in Nat /\ d * q \in Nat /\ d * (q + 1) = d * q + d
  BY <1>1, <1>2
<1>4. CASE r + 1 < d
  <2>1. p = q
    BY <1>1, <1>2, <1>3, <1>4, SameQuotient
  <2> QED
    BY <1>1, <1>2, <1>3, <2>1 DEF r, s
<1>5. CASE r + 1 = d
  <2>1. e + 1 = d * (q + 1)
    BY <1>1, <1>3, <1>5
  <2>2. p = q + 1
    BY <1>1, <1>2, <1>3, <2>1, SameQuotient
  <2>3. s = 0
    BY <1>1, <1>2, <1>3, <2>1, <2>2
  <2> QED
    BY <2>3 DEF s
<1> QED
  BY <1>1, <1>4, <1>5

-----------------------------------------------------------------------------
(* A wait that times out.                                                  *)

\* Units since the last tick.
SinceTick == elapsed % opt.interval

\* How long what is waited for can have held without being seen: since the
\* last tick while there is none to take, the time of a request once its
\* answer is on its way, and up to the longer of the two when a tick is due.
HeldUnseen ==
  /\ ~Awaited(Object) => held = 0
  /\ pc = "select" /\ ~ticked => held <= SinceTick
  /\ pc = "select" /\ ticked => held <= opt.interval \/ held <= Latency
  /\ pc \in {"look", "reply"} /\ ~ticked => flight <= SinceTick
  /\ pc = "reply" /\ ~Satisfied => held <= flight
  /\ TimesOutOnlyUnseen

LEMMA SinceTickType ==
  ASSUME TypeOK
  PROVE  /\ opt.interval \in Nat \ {0} /\ SinceTick \in Nat /\ SinceTick < opt.interval
         /\ elapsed \in Nat /\ flight \in Nat /\ flight <= Latency /\ held \in Nat
         /\ Latency \in Nat
<1>1. opt.interval \in Nat \ {0} /\ elapsed \in Nat
  BY WaitsAssumption DEF TypeOK, ClientTypeOK
<1>2. SinceTick \in 0..(opt.interval - 1)
  BY <1>1, DivMod DEF SinceTick
<1> QED
  BY <1>1, <1>2, LatencyAssumption DEF TypeOK, ClientTypeOK

\* Nothing is awaited outside a wait.
LEMMA NothingHeld ==
  ASSUME HeldUnseen, call \notin {"running", "completed", "deletion"}
  PROVE  held = 0
  BY DEF HeldUnseen, Awaited

LEMMA TickUnseen ==
  ASSUME TypeOK, HeldUnseen, Tick
  PROVE  HeldUnseen'
<1>1. /\ opt.interval \in Nat \ {0} /\ SinceTick \in Nat /\ SinceTick < opt.interval
      /\ elapsed \in Nat /\ flight \in Nat /\ flight <= Latency /\ held \in Nat
      /\ Latency \in Nat
  BY SinceTickType
<1>2. /\ UNCHANGED <<life, call, pc, opt, seen, result>> /\ elapsed' = elapsed + 1
      /\ pc \in {"select", "look", "reply"}
  BY DEF Tick, objectVars
<1>3. /\ Object' = Object /\ (Awaited(Object)' <=> Awaited(Object))
      /\ (Satisfied' <=> Satisfied)
  BY <1>2 DEF Object, Awaited, Satisfied, Exists
<1>4. ~ticked' => ~ticked /\ SinceTick' = SinceTick + 1
  <2>1. ((elapsed + 1) % opt.interval) = 0 \/ ((elapsed + 1) % opt.interval) = SinceTick + 1
    BY <1>1, NextUnit DEF SinceTick
  <2>2. SinceTick' = ((elapsed + 1) % opt.interval)
    BY <1>2 DEF SinceTick
  <2>3. ~ticked' => ~ticked /\ ((elapsed + 1) % opt.interval) # 0
    BY DEF Tick
  <2> QED
    BY <2>1, <2>2, <2>3
<1>5. held' \in {held, held + 1} /\ (~Awaited(Object) => held' = held)
  BY DEF Tick
<1>6. ~Awaited(Object)' => held' = 0
  BY <1>3, <1>5 DEF HeldUnseen
<1>7. CASE pc = "select"
  <2>1. ~ticked /\ held' <= SinceTick + 1
    BY <1>1, <1>5, <1>7 DEF Tick, HeldUnseen
  <2>2. ~ticked' => held' <= SinceTick'
    BY <1>4, <2>1
  <2>3. held' <= opt'.interval
    BY <1>1, <1>2, <1>5, <2>1
  <2> QED
    BY <1>2, <1>6, <1>7, <2>2, <2>3 DEF HeldUnseen, TimesOutOnlyUnseen
<1>8. CASE pc \in {"look", "reply"}
  <2>1. flight' = flight + 1
    BY <1>8 DEF Tick
  <2>2. ~ticked' => flight' <= SinceTick'
    BY <1>1, <1>4, <1>8, <2>1 DEF HeldUnseen
  <2>3. pc = "reply" /\ ~Satisfied => held' <= flight'
    BY <1>1, <1>5, <2>1 DEF HeldUnseen
  <2> QED
    BY <1>2, <1>3, <1>6, <1>8, <2>2, <2>3 DEF HeldUnseen, TimesOutOnlyUnseen
<1> QED
  BY <1>2, <1>7, <1>8

LEMMA CallsUnseen ==
  ASSUME TypeOK, HeldUnseen, Calls
  PROVE  HeldUnseen'
<1>1. pc = "idle" /\ held' = held
  BY DEF Calls, CallWaitForRunning, CallWaitForCompleted, CallWaitForDeletion,
         CallCreateOrPatch, CallUpdateWithRetry, Called
<1>2. held' = 0
  BY <1>1, NothingHeld DEF TypeOK, CallOK
<1>3. /\ pc' \in {"select", "done", "patchGet", "retryGet"}
      /\ pc' = "select" => StartPolling /\ UNCHANGED opt
  BY DEF Calls, CallWaitForRunning, CallWaitForCompleted, CallWaitForDeletion,
         CallCreateOrPatch, CallUpdateWithRetry, Called, StartPolling, Returns
<1>4. pc' = "select" => SinceTick' \in Nat
  <2>1. opt.interval \in Nat \ {0} /\ 0 \in Nat
    BY SinceTickType
  <2>2. (0 % opt.interval) \in 0..(opt.interval - 1)
    BY <2>1, DivMod
  <2>3. pc' = "select" => SinceTick' = (0 % opt.interval)
    BY <1>3 DEF SinceTick, StartPolling
  <2> QED
    BY <2>1, <2>2, <2>3
<1> QED
  BY <1>2, <1>3, <1>4, LatencyAssumption DEF HeldUnseen, TimesOutOnlyUnseen
\* What others do can only end what was held.
LEMMA OthersUnseen ==
  ASSUME TypeOK, HeldUnseen, OthersAct \/ OthersEdit
  PROVE  HeldUnseen'
<1>1. held \in Nat /\ opt.interval \in Nat \ {0} /\ SinceTick \in Nat /\ flight \in Nat
      /\ Latency \in Nat
  BY SinceTickType
<1>2. UNCHANGED <<call, pc, waitVars, seen, result>>
  BY DEF OthersAct, OthersEdit
<1>3. UNCHANGED <<call, pc, opt, elapsed, ticked, flight, result>>
      /\ SinceTick' = SinceTick /\ (Satisfied' <=> Satisfied)
  BY <1>2 DEF waitVars, SinceTick, Satisfied, Exists
<1>4. held' \in {0, held} /\ (~Awaited(Object)' => held' = 0)
  <2>1. CASE OthersAct
    <3>1. Awaited(Object)' <=> Awaited(life'[Task])
      BY <1>2 DEF Awaited, Object
    <3>2. held' = IF Awaited(life'[Task]) THEN held ELSE 0
      BY <2>1 DEF OthersAct, ObjectChanged
    <3> QED
      BY <3>1, <3>2
  <2>2. CASE OthersEdit
    <3>1. held' = held /\ Object' = Object
      BY <2>2 DEF OthersEdit, historyVars, Object
    <3>2. Awaited(Object)' <=> Awaited(Object)
      BY <1>2, <3>1 DEF Awaited
    <3> QED
      BY <3>1, <3>2 DEF HeldUnseen
  <2> QED
    BY <2>1, <2>2
<1>5. held' <= held
  BY <1>1, <1>4
<1>6. /\ pc' = "select" /\ ~ticked' => held' <= SinceTick'
      /\ pc' = "select" /\ ticked' => held' <= opt'.interval \/ held' <= Latency
      /\ pc' \in {"look", "reply"} /\ ~ticked' => flight' <= SinceTick'
      /\ pc' = "reply" /\ ~Satisfied' => held' <= flight'
  BY <1>1, <1>3, <1>4 DEF HeldUnseen
<1>7. TimesOutOnlyUnseen'
  BY <1>1, <1>3, <1>4 DEF HeldUnseen, TimesOutOnlyUnseen
<1> QED
  BY <1>4, <1>6, <1>7 DEF HeldUnseen

\* Steps of a wait that take no time.
LEMMA WaitUnseen ==
  ASSUME TypeOK, HeldUnseen, Poll \/ Look \/ Answer \/ Deadline \/ LastGet \/ ReadFails
  PROVE  HeldUnseen'
<1>1. /\ opt.interval \in Nat \ {0} /\ SinceTick \in Nat /\ SinceTick < opt.interval
      /\ flight \in Nat /\ flight <= Latency /\ held \in Nat /\ Latency \in Nat
  BY SinceTickType
<1>2. UNCHANGED <<life, call, opt, elapsed, held>>
  BY DEF Poll, Look, Answer, Deadline, LastGet, ReadFails, objectVars, waitVars, historyVars
<1>3. Object' = Object /\ SinceTick' = SinceTick
  BY <1>2 DEF Object, SinceTick
<1>4. ~Awaited(Object)' => held' = 0
  <2>1. Awaited(Object)' <=> Awaited(Object)
    BY <1>2, <1>3 DEF Awaited
  <2> QED
    BY <1>2, <2>1 DEF HeldUnseen
<1>5. CASE Poll
  <2>1. pc' = "look" /\ flight' = 0
    BY <1>5 DEF Poll
  <2> QED
    BY <1>1, <1>3, <1>4, <2>1 DEF HeldUnseen, TimesOutOnlyUnseen
<1>6. CASE Look
  <2>1. pc = "look" /\ pc' = "reply" /\ seen' = Object /\ UNCHANGED <<ticked, flight>>
    BY <1>6 DEF Look, waitVars
  <2>2. ~Satisfied' => ~Awaited(Object)
    <3>1. call \in {"running", "completed", "deletion"}
      BY <2>1 DEF TypeOK, CallOK
    <3> QED
      BY <1>2, <2>1, <3>1 DEF Satisfied, Awaited, Exists
  <2>3. ~Satisfied' => held' = 0
    BY <1>2, <2>2 DEF HeldUnseen
  <2>4. ~ticked' => flight' <= SinceTick'
    BY <1>3, <2>1 DEF HeldUnseen
  <2> QED
    BY <1>1, <1>4, <2>1, <2>3, <2>4 DEF HeldUnseen, TimesOutOnlyUnseen
<1>7. CASE Answer
  <2>1. pc = "reply" /\ UNCHANGED <<ticked, flight>>
        /\ \/ ~Satisfied /\ pc' = "select"
           \/ pc' = "last"
           \/ pc' = "done" /\ result'.err = "none"
    BY <1>7 DEF Answer, Returns, waitVars
  <2>2. pc' = "select" => held <= flight
    BY <2>1 DEF HeldUnseen
  <2>3. pc' = "select" /\ ~ticked => held <= SinceTick
    BY <1>1, <2>1, <2>2 DEF HeldUnseen
  <2>4. pc' = "select" => held <= Latency
    BY <1>1, <2>2
  <2> QED
    BY <1>2, <1>3, <1>4, <2>1, <2>3, <2>4 DEF HeldUnseen, TimesOutOnlyUnseen
<1>8. CASE Deadline
  <2>1. pc = "select" /\ pc' = "done"
    BY <1>8 DEF Deadline, Returns
  <2>2. held <= opt.interval \/ held <= Latency
    <3>1. ticked \in BOOLEAN
      BY DEF TypeOK, ClientTypeOK
    <3>2. CASE ticked
      BY <2>1, <3>2 DEF HeldUnseen
    <3>3. CASE ~ticked
      BY <1>1, <2>1, <3>3 DEF HeldUnseen
    <3> QED
      BY <3>2, <3>3
  <2> QED
    BY <1>2, <1>4, <2>1, <2>2 DEF HeldUnseen, TimesOutOnlyUnseen
<1>9. CASE LastGet \/ ReadFails
  <2>1. pc' = "done" /\ result'.err \in {"none", "notFound", "error"}
    BY <1>9 DEF LastGet, ReadFails, Returns
  <2> QED
    BY <1>4, <2>1 DEF HeldUnseen, TimesOutOnlyUnseen
<1> QED
  BY <1>5, <1>6, <1>7, <1>8, <1>9

LEMMA ChangeUnseen ==
  ASSUME TypeOK, HeldUnseen, PatchGet \/ PatchCreate \/ PatchUpdate \/ RetryGet \/ Modify
  PROVE  HeldUnseen'
<1>1. pc \in {"patchGet", "patchCreate", "patchUpdate", "retryGet", "modify"}
      /\ UNCHANGED held
  BY DEF PatchGet, PatchCreate, PatchUpdate, RetryGet, Modify, historyVars
<1>2. held' = 0
  BY <1>1, NothingHeld DEF TypeOK, CallOK
<1>3. pc' \notin {"select", "look", "reply"}
  BY DEF PatchGet, PatchCreate, PatchUpdate, RetryGet, Modify, Returns
<1> QED
  BY <1>2, <1>3, LatencyAssumption DEF HeldUnseen, TimesOutOnlyUnseen

LEMMA HeldUnseenStep ==
  ASSUME TypeOK, HeldUnseen, [Next]_vars
  PROVE  HeldUnseen'
<1>1. CASE UNCHANGED vars
  BY <1>1 DEF vars, objectVars, waitVars, historyVars, HeldUnseen, TimesOutOnlyUnseen, Awaited,
              Object, Exists, SinceTick, Satisfied
<1> QED
  BY <1>1, CallsUnseen, TickUnseen, OthersUnseen, WaitUnseen, ChangeUnseen
  DEF Next, ClientStep

\* A wait gives up only on what it could not have seen (wait.go:56-78, 80-123):
\* when it times out, what it waits for has held for no more than an interval,
\* or for no more than a request may take; for any interval and timeout.
THEOREM TimeoutsAreHonest == Spec => []TimesOutOnlyUnseen
<1>1. Init => HeldUnseen
  <2> SUFFICES ASSUME Init
               PROVE  HeldUnseen
    OBVIOUS
  <2>1. pc = "idle" /\ held = 0
    BY DEF Init
  <2> QED
    BY <2>1 DEF HeldUnseen, TimesOutOnlyUnseen
<1>2. TypeOK /\ HeldUnseen /\ [Next]_vars => HeldUnseen'
  BY HeldUnseenStep
<1>3. HeldUnseen => TimesOutOnlyUnseen
  BY DEF HeldUnseen
<1> QED
  BY <1>1, <1>2, <1>3, ClientTyped, PTL DEF Spec

-----------------------------------------------------------------------------
(* What is found first.                                                    *)

\* A nonempty set of naturals has a least element, and Min finds it.
LEMMA MinIsLeast ==
  ASSUME NEW S \in SUBSET Nat, S # {}
  PROVE  Min(S) \in S /\ \A j \in S : Min(S) <= j
<1> DEFINE R == {ss \in Nat \X Nat : ss[1] < ss[2]}
<1>1. IsWellFoundedOn(R, Nat)
  BY NatLessThanWellFounded DEF OpToRel
<1>2. PICK x \in S : \A y \in S : ~(<<y, x>> \in R)
  <2> HIDE DEF R
  <2> QED
    BY <1>1, WFMin
<1>3. \A y \in S : x <= y
  <2> SUFFICES ASSUME NEW y \in S
               PROVE  x <= y
    OBVIOUS
  <2>1. ~(y < x)
    BY <1>2
  <2> QED
    BY <2>1
<1> QED
  BY <1>2, <1>3 DEF Min

\* What FirstOf finds is in the set, and nothing before it in the order is.
LEMMA FirstOfFound ==
  ASSUME NEW order, DOMAIN order \in SUBSET Nat, NEW S,
         \E k \in DOMAIN order : order[k] \in S
  PROVE  \E i \in DOMAIN order : /\ FirstOf(order, S) = order[i]
                                 /\ order[i] \in S
                                 /\ \A j \in DOMAIN order : order[j] \in S => i <= j
<1> DEFINE found == {i \in DOMAIN order : order[i] \in S}
<1>1. FirstOf(order, S) = order[Min(found)]
  BY Zenon DEF FirstOf
<1>2. Min(found) \in found /\ \A j \in found : Min(found) <= j
  BY MinIsLeast, Zenon
<1> QED
  BY <1>1, <1>2

LEMMA FirstOfNone ==
  ASSUME NEW order, NEW S, \A k \in DOMAIN order : order[k] \notin S
  PROVE  FirstOf(order, S) = NoTool
  BY Zenon DEF FirstOf

\* What FirstPort finds is the port of an element that passes the test.
LEMMA FirstPortFound ==
  ASSUME NEW ports, DOMAIN ports \in SUBSET Nat, NEW Test(_), NEW Port(_),
         \E k \in DOMAIN ports : Test(ports[k])
  PROVE  \E i \in DOMAIN ports : FirstPort(ports, Test, Port) = Port(ports[i]) /\ Test(ports[i])
<1> DEFINE found == {i \in DOMAIN ports : Test(ports[i])}
<1>1. FirstPort(ports, Test, Port) = Port(ports[Min(found)])
  BY Zenon DEF FirstPort
<1>2. Min(found) \in found
  BY MinIsLeast, Zenon
<1> QED
  BY <1>1, <1>2

LEMMA Tools ==
  /\ ToolsOf("dev") = {"codeserver", "jupyter", "novnc"}
  /\ ToolsOf("inference") = {"vllm", "llama.cpp", "tgi"}
  /\ ToolsOf("eval") = {"opencompass", "lm-eval"}
  /\ ToolsOf("finetune") = {"lora", "llamafactory"}
  /\ ToolsOf("train") = {"pytorch", "tensorflow"}
  /\ DOMAIN ToolOrder = {"dev", "inference", "eval", "finetune", "train"}
  BY DEF ToolsOf, ToolOrder, DevTools, InferenceTools, EvalTools, FineTuneTools, TrainTools

LEMMA OrderIsSequence ==
  ASSUME NEW k \in DOMAIN ToolOrder
  PROVE  /\ DOMAIN ToolOrder[k] \in SUBSET Nat
         /\ NoTool \notin ToolsOf(k)
<1>1. DOMAIN ToolOrder[k] \in SUBSET Nat
  <2>1. /\ DOMAIN ToolOrder["dev"] = 1..3 /\ DOMAIN ToolOrder["inference"] = 1..3
        /\ DOMAIN ToolOrder["eval"] = 1..2 /\ DOMAIN ToolOrder["finetune"] = 1..2
        /\ DOMAIN ToolOrder["train"] = 1..2
    BY DEF ToolOrder, DevTools, InferenceTools, EvalTools, FineTuneTools, TrainTools
  <2> QED
    BY <2>1, Tools
<1>2. NoTool \notin ToolsOf(k)
  <2>1. /\ NoTool \notin {"codeserver", "jupyter", "novnc"}
        /\ NoTool \notin {"vllm", "llama.cpp", "tgi"}
        /\ NoTool \notin {"opencompass", "lm-eval"}
        /\ NoTool \notin {"lora", "llamafactory"}
        /\ NoTool \notin {"pytorch", "tensorflow"}
    BY Zenon DEF NoTool
  <2> QED
    BY <2>1, Tools
<1> QED
  BY <1>1, <1>2

\* The framework of a nonempty set of tools is one of them.
LEMMA FirstTool ==
  ASSUME NEW k \in DOMAIN ToolOrder, NEW S \in SUBSET ToolsOf(k), S # {}
  PROVE  FirstOf(ToolOrder[k], S) \in S
<1>1. PICK i \in DOMAIN ToolOrder[k] : ToolOrder[k][i] \in S
  BY DEF ToolsOf
<1> QED
  BY <1>1, FirstOfFound, OrderIsSequence

LEMMA FirstToolOrNone ==
  ASSUME NEW k \in DOMAIN ToolOrder, NEW S \in SUBSET ToolsOf(k)
  PROVE  \/ FirstOf(ToolOrder[k], S) \in S
         \/ S = {} /\ FirstOf(ToolOrder[k], S) = NoTool
  BY FirstTool, FirstOfNone

LEMMA OnlyTool ==
  ASSUME NEW k \in DOMAIN ToolOrder, NEW t \in ToolsOf(k)
  PROVE  FirstOf(ToolOrder[k], {t}) = t
  BY FirstTool

LEMMA BuilderPortType ==
  ASSUME NEW t \in Frameworks
  PROVE  BuilderPort[t] \in Int
  BY Tools DEF BuilderPort, Frameworks

LEMMA FrameworkPortType ==
  ASSUME NEW t \in Frameworks
  PROVE  FrameworkPort(t) \in Int
<1>1. DefaultPort[t] \in Int
  BY Tools DEF DefaultPort, Frameworks
<1> QED
  BY <1>1, EnvPortAssumption DEF FrameworkPort

-----------------------------------------------------------------------------
(* A task that is built, submitted and exposed.                            *)

WasSubmitted(p) == p \in {"creating", "running", "completed"}

BuiltOK ==
  /\ taskKind \in DOMAIN ToolOrder
  /\ DOMAIN task.held \subseteq ToolsOf(taskKind) \cup {"task"}

Settings == [port : Int, routing : Routings \cup {Unset}]

\* The spec of a submitted task has a tool, and settings for each of its tools.
SpecOK ==
  /\ taskKind \in {"dev", "inference"}
  /\ Chosen \in SUBSET ToolsOf(taskKind) /\ Chosen # {}
  /\ spec \in [Chosen -> Settings]

ObjectsOK ==
  /\ deployments = [f \in Frameworks |-> deployments[f]]
  /\ services = [f \in Frameworks |-> services[f]]
  /\ routes = [f \in Frameworks |-> routes[f]]

NothingMade ==
  /\ \A f \in Frameworks : ~HasObjects(f)
  /\ url = NoURL

AccessTyped ==
  /\ BuiltOK /\ ObjectsOK
  /\ cluster \in Clusters /\ current \in BOOLEAN
  /\ \/ phase = "none" /\ NothingMade
     \/ WasSubmitted(phase) /\ SpecOK

LEMMA FrameworkIsChosen ==
  ASSUME SpecOK
  PROVE  FrameworkNow \in Chosen /\ FrameworkNow \in Frameworks
<1>1. taskKind \in DOMAIN ToolOrder
  BY Tools DEF SpecOK
<1> QED
  BY <1>1, FirstTool DEF SpecOK, FrameworkNow, Frameworks

\* The routing settings that count are settings some user wrote, or none.
LEMMA RoutingConfigType ==
  ASSUME SpecOK
  PROVE  RoutingConfig \in Routings \cup {Unset}
<1> DEFINE configured == {u \in Chosen : spec[u].routing # Unset}
<1>1. taskKind \in DOMAIN ToolOrder /\ configured \subseteq ToolsOf(taskKind)
  BY Tools DEF SpecOK
<1>2. \/ FirstOf(ToolOrder[taskKind], configured) \in configured
      \/ FirstOf(ToolOrder[taskKind], configured) = NoTool
  BY <1>1, FirstToolOrNone
<1> QED
  BY <1>2 DEF RoutingConfig, SpecOK, Settings

\* What the controllers make of a spec is never Unset.
LEMMA PathTypes ==
  ASSUME SpecOK
  PROVE  RoutePath \in Paths /\ Base \in Paths
<1>1. DefaultPath(FrameworkNow) \in Paths /\ Root \in Paths
  BY FrameworkIsChosen, Zenon DEF DefaultPath, Root, Paths
<1>2. ASSUME RoutingConfig \in Routings
      PROVE  [of |-> NoTool, prefix |-> RoutingConfig.pathPrefix] \in Paths
  BY <1>2, Zenon DEF Paths
<1>3. CASE RoutingConfig = Unset
  BY <1>1, <1>3, Zenon DEF RoutePath, Base
<1>4. CASE RoutingConfig \in Routings
  BY <1>1, <1>2, <1>4, Zenon DEF RoutePath, Base
<1> QED
  BY <1>3, <1>4, RoutingConfigType

LEMMA GatewayType ==
  ASSUME SpecOK
  PROVE  GatewayName \in Gateways
<1>1. CASE RoutingConfig = Unset
  BY <1>1, Zenon DEF GatewayName, Gateways
<1>2. CASE RoutingConfig \in Routings
  BY <1>2, Zenon DEF GatewayName, Gateways
<1> QED
  BY <1>1, <1>2, RoutingConfigType

\* The port of a Service is a number, in whichever order it is looked for.
LEMMA PortType ==
  ASSUME SpecOK
  PROVE  ServicePort \in Int
<1>1. CASE taskKind = "dev"
  BY <1>1, FrameworkIsChosen, FrameworkPortType DEF ServicePort, DevPort, SpecOK, Settings
<1>2. CASE taskKind = "inference"
  <2> DEFINE order == <<"vllm", "tgi", "llama.cpp">>
             ported == {t \in Chosen : spec[t].port > 0}
  <2>1. DOMAIN order \in SUBSET Nat
    OBVIOUS
  <2>2. \A t \in Chosen : \E k \in DOMAIN order : order[k] = t
    BY <1>2, Tools DEF SpecOK
  <2>3. ASSUME NEW S \in SUBSET Chosen, S # {}
        PROVE  FirstOf(order, S) \in S
    <3>1. \E k \in DOMAIN order : order[k] \in S
      BY <2>2, <2>3
    <3> HIDE DEF order
    <3> QED
      BY <2>1, <3>1, FirstOfFound
  <2>4. ASSUME NEW S \in SUBSET Chosen, S = {}
        PROVE  FirstOf(order, S) = NoTool
    <3> HIDE DEF order
    <3> QED
      BY <2>4, FirstOfNone
  <2>5. FrameworkPort(FirstOf(order, Chosen)) \in Int
    <3>1. FirstOf(order, Chosen) \in Chosen
      BY <2>3 DEF SpecOK
    <3> QED
      BY <3>1, FrameworkPortType, <1>2 DEF SpecOK, Frameworks
  <2>6. FirstOf(order, ported) # NoTool => spec[FirstOf(order, ported)].port \in Int
    <3> HIDE DEF order
    <3> QED
      BY <2>3, <2>4 DEF SpecOK, Settings
  <2> QED
    BY <1>2, <2>5, <2>6 DEF ServicePort, InferencePort
<1> QED
  BY <1>1, <1>2 DEF SpecOK

LEMMA HostsType ==
  ASSUME SpecOK
  PROVE  Hostnames \subseteq Hosts
  BY RoutingConfigType, UnsetAssumption DEF Hostnames, Hosts

\* An object that has been made is told apart from one that has not.
LEMMA BuiltIsSet ==
  ASSUME SpecOK
  PROVE  BuildDeployment # Unset /\ BuildRoute # Unset
<1>1. BuildDeployment \in Workloads
  BY PathTypes, PortType DEF BuildDeployment, Workloads
<1>2. BuildRoute \in HTTPRoutes
  BY PathTypes, PortType, GatewayType, HostsType DEF BuildRoute, Rewrites, HTTPRoutes
<1> QED
  BY <1>1, <1>2, UnsetAssumption

-----------------------------------------------------------------------------
(* Types are kept.                                                         *)

LEMMA BuilderStepsTyped ==
  ASSUME BuiltOK,
         \/ \E t \in ToolsOf(taskKind), p \in Presets[taskKind] : ChooseTool(t, p)
         \/ \E c \in DOMAIN BuilderCalls[taskKind] : Call(c)
  PROVE  BuiltOK' /\ phase = "none" /\ phase' = "none" /\ taskKind' = taskKind
<1>1. ASSUME NEW t \in ToolsOf(taskKind), NEW p, ChooseTool(t, p)
      PROVE  BuiltOK' /\ taskKind' = taskKind
  BY <1>1 DEF ChooseTool, Choose, BuiltOK, taskKind
<1>2. ASSUME NEW c, Call(c)
      PROVE  BuiltOK' /\ taskKind' = taskKind
  BY <1>2 DEF Call, Ask, BuiltOK, taskKind
<1> QED
  BY <1>1, <1>2 DEF ChooseTool, Call, Building

LEMMA SubmitTyped ==
  ASSUME BuiltOK, NEW r \in Routings \cup {Unset}, Submit(r)
  PROVE  BuiltOK' /\ SpecOK' /\ phase' = "creating"
<1>1. task'.kind = task.kind /\ DOMAIN task'.held = {"task"}
  BY DEF Submit, NewTask
<1>2. ChosenIn(task) \subseteq ToolsOf(taskKind) /\ ToolsOf(taskKind) \subseteq Frameworks
  BY DEF BuiltOK, ChosenIn, Submit, taskKind, Frameworks
<1>3. SpecOK'
  BY <1>1, <1>2, BuilderPortType
  DEF Submit, AccessTyped, Exposed, Settings, SpecOK, Chosen, taskKind
<1> QED
  BY <1>1, <1>3 DEF Submit, BuiltOK, taskKind

LEMMA EditTyped ==
  ASSUME SpecOK, Users
  PROVE  SpecOK' /\ task' = task
<1>1. ASSUME NEW t \in ToolsOf(taskKind), EditTool(t)
      PROVE  SpecOK'
  <2>1. BuilderPort[t] \in Int
    BY BuilderPortType DEF SpecOK, Frameworks
  <2> QED
    BY <1>1, <2>1 DEF EditTool, EditedSpec, built, SpecOK, Settings, Chosen, taskKind
<1>2. ASSUME NEW settings \in Settings, EditSettings(settings)
      PROVE  SpecOK'
  BY <1>2, FrameworkIsChosen DEF EditSettings, EditedSpec, built, SpecOK, Chosen, taskKind
<1>3. ASSUME NEW r \in Routings \cup {Unset}, EditRouting(r)
      PROVE  SpecOK'
  <2>1. [spec[FrameworkNow] EXCEPT !.routing = r] \in Settings
    BY FrameworkIsChosen DEF SpecOK, Settings
  <2> QED
    BY <1>2, <1>3, <2>1 DEF EditRouting
<1>4. ASSUME NEW p \in EditedPorts, EditPort(p)
      PROVE  SpecOK'
  <2>1. [spec[FrameworkNow] EXCEPT !.port = p] \in Settings
    BY FrameworkIsChosen, EditedPortsAssumption DEF SpecOK, Settings
  <2> QED
    BY <1>2, <1>4, <2>1 DEF EditPort
<1> QED
  BY <1>1, <1>3, <1>4
  DEF Users, EditTool, EditRouting, EditPort, EditSettings, EditedSpec, built

-----------------------------------------------------------------------------
(* The objects of the present framework are made of the present spec.      *)

\* What the controllers derive from a spec depends on the task and the spec alone.
LEMMA SameSpec ==
  ASSUME task' = task, spec' = spec
  PROVE  /\ taskKind' = taskKind /\ FrameworkNow' = FrameworkNow
         /\ NeedsRouting' = NeedsRouting
         /\ BuildDeployment' = BuildDeployment /\ BuildRoute' = BuildRoute
         /\ ServicePort' = ServicePort
         /\ cluster' = cluster => (ExternalURL' = ExternalURL)
         /\ SpecOK => SpecOK'
<1>1. taskKind' = taskKind /\ Chosen' = Chosen
  BY Zenon DEF taskKind, Chosen
<1>2. FrameworkNow' = FrameworkNow
  BY <1>1, Zenon DEF FrameworkNow
<1>3. NeedsRouting' = NeedsRouting
  BY <1>2, Zenon DEF NeedsRouting
<1>4. RoutingConfig' = RoutingConfig
  BY <1>1, Zenon DEF RoutingConfig
<1>5. ServicePort' = ServicePort
  BY <1>1, <1>2, Zenon DEF ServicePort, DevPort, InferencePort
<1>6. /\ RoutePath' = RoutePath /\ GatewayName' = GatewayName /\ Hostnames' = Hostnames
      /\ Base' = Base
  BY <1>1, <1>2, <1>4, Zenon DEF RoutePath, GatewayName, Hostnames, Base
<1>7. BuildDeployment' = BuildDeployment /\ BuildRoute' = BuildRoute
  BY <1>1, <1>2, <1>5, <1>6, Zenon DEF BuildDeployment, BuildRoute, Rewrites
<1>8. cluster' = cluster => ExternalURL' = ExternalURL
  BY <1>1, <1>4, <1>6, Zenon DEF ExternalURL
<1> QED
  BY <1>1, <1>2, <1>3, <1>5, <1>7, <1>8 DEF SpecOK

\* What has been made for the framework is what would be made for it now,
Matches ==
  /\ deployments[FrameworkNow] \in {Unset, BuildDeployment}
  /\ services[FrameworkNow] \in {0, ServicePort}
  /\ routes[FrameworkNow] \in {Unset, BuildRoute}

\* unless its settings were edited since.
UpToDate == FrameworkNow \notin outdated => Matches

\* A URL that is current is that of the present spec and gateway.
Shown == current /\ url # NoURL => NeedsRouting /\ url = ExternalURL

\* What access to a framework takes, but for what was refused.
Access(f) ==
  f \notin refused => routes[f] # Unset /\ (services[f] = 0 => ServicePort = 0)

\* And a running task that has one has its objects.
Made ==
  phase = "running" /\ current /\ url # NoURL =>
    deployments[FrameworkNow] # Unset /\ Access(FrameworkNow)

ExposedOK == WasSubmitted(phase) => UpToDate /\ Shown /\ Made

LEMMA NothingMadeMatches ==
  ASSUME ObjectsOK, NEW f \in Frameworks, ~HasObjects(f)
  PROVE  deployments[f] = Unset /\ services[f] = 0 /\ routes[f] = Unset
  BY DEF HasObjects

\* Ensuring an object leaves it as it was or makes it of the present spec.
LEMMA Ensured ==
  ASSUME SpecOK, ObjectsOK, task' = task, spec' = spec, UpToDate, outdated' = outdated,
         deployments' = deployments \/ EnsureDeployment,
         services' = services \/ \E failing : EnsureService(failing),
         routes' = routes \/ \E failing : EnsureHTTPRoute(failing)
  PROVE  ObjectsOK' /\ UpToDate'
<1> DEFINE F == FrameworkNow
<1>1. F \in Frameworks
  BY FrameworkIsChosen
<1>2. /\ deployments' = [f \in Frameworks |-> deployments'[f]]
      /\ deployments'[F] \in {deployments[F], BuildDeployment}
      /\ deployments[F] # Unset => deployments'[F] = deployments[F]
  BY <1>1 DEF ObjectsOK, EnsureDeployment
<1>3. /\ services' = [f \in Frameworks |-> services'[f]]
      /\ services'[F] \in {services[F], ServicePort}
  BY <1>1 DEF ObjectsOK, EnsureService
<1>4. /\ routes' = [f \in Frameworks |-> routes'[f]]
      /\ routes'[F] \in {routes[F], BuildRoute}
  BY <1>1 DEF ObjectsOK, EnsureHTTPRoute
<1>5. UpToDate'
  BY <1>2, <1>3, <1>4, SameSpec DEF UpToDate, Matches
<1> QED
  BY <1>2, <1>3, <1>4, <1>5 DEF ObjectsOK

\* And after it there is one,
LEMMA EnsuredIsThere ==
  ASSUME SpecOK, ObjectsOK, EnsureDeployment
  PROVE  deployments'[FrameworkNow] # Unset
  BY FrameworkIsChosen, BuiltIsSet DEF ObjectsOK, EnsureDeployment

\* unless its Create was refused.
LEMMA AccessEnsured ==
  ASSUME SpecOK, ObjectsOK, NeedsRouting, task' = task, spec' = spec, NEW failing,
         EnsureService(failing), EnsureHTTPRoute(failing), Refusals(failing)
  PROVE  Access(FrameworkNow)'
<1>1. FrameworkNow \in Frameworks /\ FrameworkNow' = FrameworkNow /\ ServicePort' = ServicePort
  BY FrameworkIsChosen, SameSpec
<1>2. CASE failing = {}
  <2>1. services'[FrameworkNow] = 0 => ServicePort = 0
    BY <1>1, <1>2 DEF ObjectsOK, EnsureService
  <2>2. routes'[FrameworkNow] # Unset
    BY <1>1, <1>2, BuiltIsSet DEF ObjectsOK, EnsureHTTPRoute
  <2> QED
    BY <1>1, <2>1, <2>2 DEF Access
<1>3. CASE failing # {}
  BY <1>1, <1>3 DEF Refusals, Access
<1> QED
  BY <1>2, <1>3

AccessOK == AccessTyped /\ ExposedOK

LEMMA ShownOrWritten ==
  ASSUME SpecOK, current \in BOOLEAN, task' = task, spec' = spec, cluster' = cluster, Shown,
         WriteURL \/ UNCHANGED <<url, current>>
  PROVE  Shown' /\ current' \in BOOLEAN
<1>1. NeedsRouting' = NeedsRouting /\ ExternalURL' = ExternalURL
  BY SameSpec
<1>2. CASE UNCHANGED <<url, current>>
  BY <1>1, <1>2 DEF Shown
<1>3. CASE NeedsRouting /\ url' = ExternalURL /\ current' = TRUE
  BY <1>1, <1>3 DEF Shown
<1> QED
  BY <1>2, <1>3 DEF WriteURL

\* The controllers keep the invariant: what they make and write is of the present spec.
LEMMA ReconcileKeepsAccess ==
  ASSUME AccessOK, Reconcile
  PROVE  AccessOK'
<1> USE DEF built, objects, Changes
<1>1. SpecOK /\ WasSubmitted(phase) /\ UpToDate /\ Shown /\ Made
  BY DEF AccessOK, AccessTyped, ExposedOK, Reconcile, ReconcileCreating, CreateHalf, Recreate,
         ReconcileRunning, ReconcileFinished
<1>2. task' = task /\ spec' = spec /\ cluster' = cluster /\ outdated' = outdated
  BY DEF Reconcile, ReconcileCreating, CreateHalf, Recreate, ReconcileRunning,
         ReconcileFinished, EnsureAccess, Refusals
<1>3. ObjectsOK' /\ UpToDate'
  <2>1. /\ deployments' = deployments \/ EnsureDeployment
        /\ services' = services \/ \E failing : EnsureService(failing)
        /\ routes' = routes \/ \E failing : EnsureHTTPRoute(failing)
    BY DEF Reconcile, ReconcileCreating, CreateHalf, Recreate, ReconcileRunning,
           ReconcileFinished, EnsureAccess
  <2> QED
    BY <1>1, <1>2, <2>1, Ensured DEF AccessOK, AccessTyped
<1>4. Shown' /\ current' \in BOOLEAN
  BY <1>1, <1>2, ShownOrWritten
  DEF AccessOK, AccessTyped, Reconcile, ReconcileCreating, CreateHalf, Recreate,
      ReconcileRunning, ReconcileFinished
<1>5. WasSubmitted(phase')
  BY <1>1 DEF WasSubmitted, Reconcile, ReconcileCreating, CreateHalf, Recreate,
              ReconcileRunning, ReconcileFinished
<1>6. Made'
  <2> SUFFICES ASSUME phase' = "running", current', url' # NoURL
               PROVE  deployments'[FrameworkNow] # Unset /\ Access(FrameworkNow)'
    BY <1>2, SameSpec DEF Made
  <2>1. NeedsRouting
    BY <1>4, <1>2, SameSpec DEF Shown
  <2>2. CASE ReconcileCreating
    <3>1. deployments'[FrameworkNow] # Unset
      BY <1>1, <2>2, EnsuredIsThere DEF ReconcileCreating, AccessOK, AccessTyped
    <3>2. PICK failing \in SUBSET (ToCreate \ {"service"}) :
            EnsureService(failing) /\ EnsureHTTPRoute(failing) /\ Refusals(failing)
      BY <2>2 DEF ReconcileCreating
    <3> QED
      BY <1>1, <1>2, <2>1, <3>1, <3>2, AccessEnsured DEF AccessOK, AccessTyped
  <2>3. CASE ReconcileRunning
    <3>1. deployments'[FrameworkNow] # Unset
      BY <2>3 DEF ReconcileRunning
    <3>2. PICK failing \in SUBSET ToCreate :
            EnsureService(failing) /\ EnsureHTTPRoute(failing) /\ Refusals(failing)
      BY <2>3 DEF ReconcileRunning, EnsureAccess
    <3> QED
      BY <1>1, <1>2, <2>1, <3>1, <3>2, AccessEnsured DEF AccessOK, AccessTyped
  <2> QED
    BY <2>2, <2>3 DEF Reconcile, CreateHalf, Recreate, ReconcileFinished
<1>7. BuiltOK' /\ SpecOK' /\ cluster' \in Clusters
  BY <1>1, <1>2, SameSpec DEF AccessOK, AccessTyped, BuiltOK
<1> QED
  BY <1>3, <1>4, <1>5, <1>6, <1>7 DEF AccessOK, AccessTyped, ExposedOK

\* An edit marks the framework it makes the present one, if it has objects.
LEMMA EditKeepsAccess ==
  ASSUME AccessOK, NEW new, EditedSpec(new), SpecOK',
         outdated' = IF HasObjects(FrameworkNow') THEN outdated \cup {FrameworkNow'} ELSE outdated
  PROVE  AccessOK'
<1> USE DEF built, objects
<1>1. /\ task' = task /\ phase' = phase /\ cluster' = cluster
      /\ current' = FALSE /\ WasSubmitted(phase)
  BY DEF EditedSpec, Changed, AccessOK, AccessTyped
<1>2. ObjectsOK' /\ BuiltOK'
  BY <1>1 DEF EditedSpec, AccessOK, AccessTyped, ObjectsOK, BuiltOK, taskKind
<1>3. FrameworkNow' \in Frameworks
  <2>1. taskKind' \in {"dev", "inference"} /\ Chosen' \in SUBSET ToolsOf(taskKind') /\ Chosen' # {}
    BY DEF SpecOK
  <2>2. taskKind' \in DOMAIN ToolOrder
    BY <2>1, Tools
  <2> QED
    BY <2>1, <2>2, FirstTool DEF FrameworkNow, Frameworks
<1>4. UpToDate'
  <2> SUFFICES ASSUME FrameworkNow' \notin outdated'
               PROVE  Matches'
    BY DEF UpToDate
  <2>1. ~HasObjects(FrameworkNow')
    OBVIOUS
  <2>2. /\ deployments[FrameworkNow'] = Unset /\ services[FrameworkNow'] = 0
        /\ routes[FrameworkNow'] = Unset
    BY <2>1 DEF HasObjects
  <2> QED
    BY <2>2 DEF Matches, EditedSpec
<1> QED
  BY <1>1, <1>2, <1>4 DEF AccessOK, AccessTyped, ExposedOK, Shown, Made

\* An edit either leaves the framework without objects or is remembered in outdated.
LEMMA UsersKeepAccess ==
  ASSUME AccessOK, Users, WasSubmitted(phase)
  PROVE  AccessOK'
<1>1. SpecOK
  BY DEF AccessOK, AccessTyped, WasSubmitted
<1>2. SpecOK' /\ task' = task
  BY <1>1, EditTyped
<1>3. ASSUME NEW t \in ToolsOf(taskKind), EditTool(t)
      PROVE  AccessOK'
  <2>1. Chosen' = {t}
    BY <1>3 DEF EditTool, EditedSpec, Chosen
  <2>2. FrameworkNow' = t
    BY <1>2, <2>1, OnlyTool DEF FrameworkNow, taskKind, AccessOK, AccessTyped, BuiltOK
  <2> QED
    BY <1>2, <1>3, <2>2, EditKeepsAccess DEF EditTool
<1>4. ASSUME NEW settings, EditSettings(settings)
      PROVE  AccessOK'
  <2>1. Chosen' = Chosen
    BY <1>1, <1>4 DEF EditSettings, EditedSpec, Chosen
  <2>2. FrameworkNow' = FrameworkNow
    BY <1>2, <2>1 DEF FrameworkNow, taskKind
  <2> QED
    BY <1>2, <1>4, <2>2, EditKeepsAccess DEF EditSettings
<1> QED
  BY <1>3, <1>4 DEF Users, EditRouting, EditPort

\* A change of the gateway makes the URL one of the past, and touches nothing else.
LEMMA ClusterKeepsAccess ==
  ASSUME AccessOK, ClusterChanges(cluster') \/ WorkloadEnds, cluster' \in Clusters
  PROVE  AccessOK'
<1> USE DEF built, objects, Changes
<1>1. /\ task' = task /\ spec' = spec /\ outdated' = outdated /\ url' = url
      /\ deployments' = deployments /\ services' = services /\ routes' = routes
      /\ WasSubmitted(phase) /\ WasSubmitted(phase')
      /\ current' = FALSE \/ (current' = current /\ cluster' = cluster /\ phase' = "completed")
  BY DEF ClusterChanges, WorkloadEnds, Changed, AccessOK, AccessTyped, WasSubmitted
<1>2. SpecOK /\ UpToDate /\ Shown
  BY <1>1 DEF AccessOK, AccessTyped, ExposedOK, WasSubmitted
<1>3. UpToDate' /\ Shown' /\ Made'
  BY <1>1, <1>2, SameSpec DEF UpToDate, Matches, Shown, Made, Access
<1>4. BuiltOK' /\ ObjectsOK' /\ SpecOK' /\ current' \in BOOLEAN
  BY <1>1, <1>2, SameSpec DEF AccessOK, AccessTyped, BuiltOK, ObjectsOK
<1> QED
  BY <1>1, <1>3, <1>4 DEF AccessOK, AccessTyped, ExposedOK

LEMMA SubmitKeepsAccess ==
  ASSUME AccessOK, NEW r \in Routings \cup {Unset}, Submit(r)
  PROVE  AccessOK'
<1>1. /\ phase = "none" /\ phase' = "creating" /\ NothingMade
      /\ deployments' = deployments /\ services' = services /\ routes' = routes
      /\ url' = url /\ cluster' = cluster /\ current' = current
  BY DEF Submit, objects, Changes, AccessOK, AccessTyped, WasSubmitted
<1>2. BuiltOK' /\ SpecOK'
  BY SubmitTyped DEF AccessOK, AccessTyped
<1>3. FrameworkNow' \in Frameworks
  <2>1. taskKind' \in {"dev", "inference"} /\ Chosen' \in SUBSET ToolsOf(taskKind') /\ Chosen' # {}
    BY <1>2 DEF SpecOK
  <2>2. taskKind' \in DOMAIN ToolOrder
    BY <2>1, Tools
  <2> QED
    BY <2>1, <2>2, FirstTool DEF FrameworkNow, Frameworks
<1>4. Matches'
  BY <1>1, <1>3 DEF NothingMade, HasObjects, Matches
<1>5. ObjectsOK'
  BY <1>1 DEF AccessOK, AccessTyped, ObjectsOK
<1> QED
  BY <1>1, <1>2, <1>4, <1>5
  DEF AccessOK, AccessTyped, ExposedOK, UpToDate, Shown, Made, NothingMade, WasSubmitted

LEMMA BuilderKeepsAccess ==
  ASSUME AccessOK,
         \/ \E t \in ToolsOf(taskKind), p \in Presets[taskKind] : ChooseTool(t, p)
         \/ \E c \in DOMAIN BuilderCalls[taskKind] : Call(c)
  PROVE  AccessOK'
<1>1. BuiltOK' /\ phase = "none" /\ phase' = "none"
  BY BuilderStepsTyped DEF AccessOK, AccessTyped
<1>2. /\ deployments' = deployments /\ services' = services /\ routes' = routes
      /\ url' = url /\ cluster' = cluster /\ current' = current
  BY DEF ChooseTool, Call, objects, Changes
<1>3. NothingMade
  BY <1>1 DEF AccessOK, AccessTyped, WasSubmitted
<1>4. ObjectsOK' /\ NothingMade'
  BY <1>2, <1>3 DEF AccessOK, AccessTyped, ObjectsOK, NothingMade, HasObjects
<1> QED
  BY <1>1, <1>2, <1>3, <1>4 DEF AccessOK, AccessTyped, ExposedOK, WasSubmitted

LEMMA AccessStep == AccessOK /\ [AccessNext]_accessVars => AccessOK'
<1> SUFFICES ASSUME AccessOK, [AccessNext]_accessVars
             PROVE  AccessOK'
  OBVIOUS
<1>1. CASE UNCHANGED accessVars
  <2>1. /\ task' = task /\ spec' = spec /\ phase' = phase /\ cluster' = cluster
        /\ outdated' = outdated /\ url' = url /\ current' = current /\ refused' = refused
        /\ deployments' = deployments /\ services' = services /\ routes' = routes
    BY <1>1 DEF accessVars
  <2>2. (UpToDate => UpToDate') /\ (Shown => Shown') /\ (Made => Made') /\ (SpecOK => SpecOK')
    BY <2>1, SameSpec DEF UpToDate, Matches, Shown, Made, Access
  <2> QED
    BY <2>1, <2>2
    DEF AccessOK, AccessTyped, ExposedOK, BuiltOK, ObjectsOK, NothingMade, HasObjects, taskKind
<1>2. CASE Client
  BY <1>2, BuilderKeepsAccess, SubmitKeepsAccess DEF Client
<1>3. CASE Users
  <2>1. WasSubmitted(phase)
    BY <1>3 DEF Users, EditTool, EditRouting, EditPort, EditSettings, EditedSpec,
                AccessOK, AccessTyped
  <2> QED
    BY <1>3, <2>1, UsersKeepAccess
<1>4. ASSUME NEW c \in Clusters, ClusterChanges(c)
      PROVE  AccessOK'
  BY <1>4, ClusterKeepsAccess DEF ClusterChanges
<1>5. CASE WorkloadEnds
  BY <1>5, ClusterKeepsAccess DEF WorkloadEnds, Changes, AccessOK, AccessTyped
<1> QED
  BY <1>1, <1>2, <1>3, <1>4, <1>5, ReconcileKeepsAccess DEF AccessNext, Environment

LEMMA AccessInitOK == AccessInit => AccessOK
<1> SUFFICES ASSUME AccessInit
             PROVE  AccessOK
  OBVIOUS
<1>1. BuiltOK
  BY DEF AccessInit, BuiltOK, NewTask, taskKind
<1>2. ObjectsOK /\ NothingMade
  BY DEF AccessInit, ObjectsOK, NothingMade, HasObjects
<1> QED
  BY <1>1, <1>2 DEF AccessInit, AccessOK, AccessTyped, ExposedOK, WasSubmitted

\* The inductive invariant of a task that is exposed.
LEMMA AccessIsOK == AccessSpec => []AccessOK
<1> QED
  BY AccessInitOK, AccessStep, PTL DEF AccessSpec

-----------------------------------------------------------------------------
(* Where the URL leads.                                                    *)

LEMMA PortsOfClusters ==
  ASSUME NEW c \in Clusters
  PROVE  /\ DOMAIN c.ports \in SUBSET Nat
         /\ \A i \in DOMAIN c.ports : /\ c.ports[i].port \in Nat \ {0}
                                      /\ c.ports[i].nodePort \in Nat
                                      /\ c.ports[i].tcp \in BOOLEAN
<1> DEFINE Port == [port : Nat \ {0}, nodePort : Nat, tcp : BOOLEAN]
<1>1. c.ports \in Seq(Port)
  BY ClustersAssumption
<1>2. DOMAIN c.ports \in SUBSET Nat /\ \A i \in DOMAIN c.ports : c.ports[i] \in Port
  <2> HIDE DEF Port
  <2> QED
    BY <1>1
<1> QED
  BY <1>2

\* Without a node port, no port has one.
LEMMA NoNodePort ==
  ASSUME NEW c \in Clusters
  PROVE  /\ NodePort(c) \in Nat
         /\ NodePort(c) = 0 => \A i \in DOMAIN c.ports : c.ports[i].nodePort = 0
<1> DEFINE found == {i \in DOMAIN c.ports : c.ports[i].nodePort # 0}
<1>1. NodePort(c) = IF found = {} THEN 0 ELSE c.ports[Min(found)].nodePort
  BY Zenon DEF NodePort, FirstPort
<1>2. found \in SUBSET Nat
  BY PortsOfClusters
<1>3. found # {} => Min(found) \in found
  BY <1>2, MinIsLeast, Zenon
<1>4. CASE found = {}
  BY <1>1, <1>4
<1>5. CASE found # {}
  <2>1. Min(found) \in DOMAIN c.ports /\ c.ports[Min(found)].nodePort # 0
    BY <1>3, <1>5
  <2>2. NodePort(c) = c.ports[Min(found)].nodePort
    BY <1>1, <1>5
  <2> HIDE DEF found
  <2> QED
    BY <2>1, <2>2, PortsOfClusters
<1> QED
  BY <1>4, <1>5

\* Without node ports, the fallback is a TCP port of Traefik, if it has one.
LEMMA FallbackPort ==
  ASSUME NEW c \in Clusters, \A i \in DOMAIN c.ports : c.ports[i].nodePort = 0
  PROVE  \/ /\ TraefikPort(c) # 0
            /\ \E i \in DOMAIN c.ports : c.ports[i].tcp /\ TraefikPort(c) = c.ports[i].port
         \/ TraefikPort(c) = 0 /\ \A i \in DOMAIN c.ports : ~c.ports[i].tcp
<1> DEFINE nodes == {i \in DOMAIN c.ports : c.ports[i].tcp /\ c.ports[i].nodePort # 0}
           found == {i \in DOMAIN c.ports : c.ports[i].tcp}
           node == IF nodes = {} THEN 0 ELSE c.ports[Min(nodes)].nodePort
<1>1. TraefikPort(c) = IF node # 0 THEN node
                       ELSE IF found = {} THEN 0 ELSE c.ports[Min(found)].port
  BY Zenon DEF TraefikPort, FirstPort
<1>2. nodes = {}
  OBVIOUS
<1>3. TraefikPort(c) = IF found = {} THEN 0 ELSE c.ports[Min(found)].port
  BY <1>1, <1>2, Zenon
<1>4. found \in SUBSET Nat
  BY PortsOfClusters
<1>5. found # {} => Min(found) \in found
  BY <1>4, MinIsLeast, Zenon
<1> QED
  BY <1>3, <1>5, PortsOfClusters

\* The three ways in: a node port, the load balancer, the listener of a Gateway.
LEMMA NodePortEnters ==
  ASSUME NEW name, NEW host, NEW port,
         host \in ({GatewayHost(cluster, name), cluster.ingress} \ {NoHost}) \cup {cluster.own},
         port # 0,
         \E i \in DOMAIN cluster.ports :
             cluster.ports[i].tcp /\ cluster.ports[i].nodePort = port
  PROVE  <<host, port>> \in Entrances(name)
  BY Zenon DEF Entrances

LEMMA BalancerEnters ==
  ASSUME NEW name, NEW port, cluster.ingress # NoHost,
         \E i \in DOMAIN cluster.ports : cluster.ports[i].tcp /\ cluster.ports[i].port = port
  PROVE  <<cluster.ingress, port>> \in Entrances(name)
  BY Zenon DEF Entrances

LEMMA ListenerEnters ==
  ASSUME NEW name, GatewayHost(cluster, name) # NoHost, ListenerPort(cluster, name) # 0
  PROVE  <<GatewayHost(cluster, name), ListenerPort(cluster, name)>> \in Entrances(name)
  BY Zenon DEF Entrances

\* A gateway without any of them has no entrance.
LEMMA NoEntrances ==
  ASSUME NEW name,
         \A i \in DOMAIN cluster.ports : cluster.ports[i].nodePort = 0,
         \/ cluster.ingress = NoHost
         \/ \A i \in DOMAIN cluster.ports : ~cluster.ports[i].tcp,
         GatewayHost(cluster, name) = NoHost \/ ListenerPort(cluster, name) = 0
  PROVE  Entrances(name) = {}
  BY DEF Entrances

\* The address a DevTask's URL names is an entrance, if there is one.
LEMMA DevAddressEnters ==
  ASSUME cluster \in Clusters, NEW name, NodePortIsTCP
  PROVE  LET at == DevAddress(cluster, name)
         IN  /\ at.port # 0
             /\ Entrances(name) = {} \/ <<at.host, at.port>> \in Entrances(name)
<1> DEFINE at == DevAddress(cluster, name)
<1>1. CASE NodePort(cluster) > 0
  <2>1. /\ at.port = NodePort(cluster)
        /\ at.host = OrOwn(cluster, GatewayHost(cluster, name))
    BY <1>1 DEF DevAddress
  <2>2. at.host \in ({GatewayHost(cluster, name), cluster.ingress} \ {NoHost}) \cup {cluster.own}
    BY <2>1 DEF OrOwn
  <2>3. at.port # 0
    BY <1>1, <2>1, NoNodePort
  <2>4. \E i \in DOMAIN cluster.ports :
            cluster.ports[i].tcp /\ cluster.ports[i].nodePort = at.port
    BY <1>1, <2>1 DEF NodePortIsTCP
  <2> QED
    BY <2>2, <2>3, <2>4, NodePortEnters, Zenon
<1>2. CASE /\ ~(NodePort(cluster) > 0)
           /\ GatewayHost(cluster, name) # NoHost /\ ListenerPort(cluster, name) # 0
  <2>1. at.host = GatewayHost(cluster, name) /\ at.port = ListenerPort(cluster, name)
    BY <1>2 DEF DevAddress
  <2> QED
    BY <1>2, <2>1, ListenerEnters, Zenon
<1>3. CASE /\ ~(NodePort(cluster) > 0)
           /\ GatewayHost(cluster, name) = NoHost \/ ListenerPort(cluster, name) = 0
  <2>1. at = Fallback(cluster)
    BY <1>3, Zenon DEF DevAddress
  <2>2. \A i \in DOMAIN cluster.ports : cluster.ports[i].nodePort = 0
    BY <1>3, NoNodePort
  <2>3. CASE TraefikPort(cluster) = 0
    <3>1. \A i \in DOMAIN cluster.ports : ~cluster.ports[i].tcp
      BY <2>2, <2>3, FallbackPort
    <3>2. Entrances(name) = {}
      BY <1>3, <2>2, <3>1, NoEntrances, Zenon
    <3> QED
      BY <2>1, <2>3, <3>2 DEF Fallback
  <2>4. CASE TraefikPort(cluster) # 0
    <3>1. at.port = TraefikPort(cluster) /\ at.host = OrOwn(cluster, cluster.ingress)
      BY <2>1, <2>4 DEF Fallback
    <3>2. \E i \in DOMAIN cluster.ports :
              cluster.ports[i].tcp /\ cluster.ports[i].port = TraefikPort(cluster)
      BY <2>2, <2>4, FallbackPort
    <3>3. CASE cluster.ingress = NoHost
      BY <1>3, <2>2, <2>4, <3>1, <3>3, NoEntrances, Zenon
    <3>4. CASE cluster.ingress # NoHost
      <4>1. at.host = cluster.ingress
        BY <3>1, <3>4 DEF OrOwn
      <4> QED
        BY <2>4, <3>1, <3>2, <3>4, <4>1, BalancerEnters, Zenon
    <3> QED
      BY <3>3, <3>4
  <2> QED
    BY <2>3, <2>4
<1> QED
  BY <1>1, <1>2, <1>3

\* That of an InferenceTask's URL is one by a node port or the Gateway.
LEMMA InferenceAddressEnters ==
  ASSUME cluster \in Clusters, NEW name, NodePortIsTCP,
         \/ NodePort(cluster) # 0
         \/ GatewayHost(cluster, name) # NoHost /\ ListenerPort(cluster, name) # 0
  PROVE  LET at == InferenceAddress(cluster, name)
         IN  at.port # 0 /\ <<at.host, at.port>> \in Entrances(name)
<1> DEFINE at == InferenceAddress(cluster, name)
<1>1. at.host = OrOwn(cluster, GatewayHost(cluster, name))
  BY DEF InferenceAddress
<1>2. CASE NodePort(cluster) # 0
  <2>1. NodePort(cluster) > 0
    BY <1>2, NoNodePort
  <2>2. at.port = NodePort(cluster)
    BY <2>1, NoNodePort DEF InferenceAddress
  <2>3. at.host \in ({GatewayHost(cluster, name), cluster.ingress} \ {NoHost}) \cup {cluster.own}
    BY <1>1 DEF OrOwn
  <2>4. \E i \in DOMAIN cluster.ports :
            cluster.ports[i].tcp /\ cluster.ports[i].nodePort = at.port
    BY <2>1, <2>2 DEF NodePortIsTCP
  <2> QED
    BY <1>2, <2>2, <2>3, <2>4, NodePortEnters, Zenon
<1>3. CASE NodePort(cluster) = 0
  <2>1. at.port = ListenerPort(cluster, name)
    BY <1>3 DEF InferenceAddress
  <2>2. at.host = GatewayHost(cluster, name)
    BY <1>1, <1>3 DEF OrOwn
  <2> QED
    BY <1>3, <2>1, <2>2, ListenerEnters, Zenon
<1> QED
  BY <1>2, <1>3

LEMMA ThreeIsFinite == \A x, y, z : IsFiniteSet({x, y, z})
<1> SUFFICES ASSUME NEW x, NEW y, NEW z
             PROVE  IsFiniteSet({x, y, z})
  OBVIOUS
<1> DEFINE all == {x} \cup {y} \cup {z}
<1>1. IsFiniteSet(all)
  BY FS_Singleton, FS_Union
<1>2. {x, y, z} \in SUBSET all
  OBVIOUS
<1> HIDE DEF all
<1> QED
  BY <1>1, <1>2, FS_Subset

\* The only tool of a spec is its framework.
LEMMA OneToolIsFramework ==
  ASSUME SpecOK, OneTool
  PROVE  Chosen = {FrameworkNow}
<1>1. IsFiniteSet(Chosen)
  <2>1. IsFiniteSet({"codeserver", "jupyter", "novnc"}) /\ IsFiniteSet({"vllm", "llama.cpp", "tgi"})
    BY ThreeIsFinite
  <2>2. IsFiniteSet(ToolsOf(taskKind))
    BY <2>1, Tools DEF SpecOK
  <2> QED
    BY <2>2, FS_Subset DEF SpecOK
<1>2. PICK t : Chosen = {t}
  BY <1>1, FS_Singleton DEF OneTool
<1> QED
  BY <1>2, FrameworkIsChosen

LEMMA PathOfURL == ExternalURL.path = RoutePath
<1>1. ASSUME NEW r, NEW gateway, NEW path
      PROVE  DevURL(cluster, r, gateway, path).path = path
  BY DEF DevURL, URL
<1>2. ASSUME NEW gateway, NEW path
      PROVE  InferenceURL(cluster, gateway, path).path = path
  BY DEF InferenceURL, URL
<1> QED
  BY <1>1, <1>2 DEF ExternalURL

\* The first of a route's host names is the URL's.
LEMMA HostOfURL ==
  ASSUME SpecOK, Hostnames # {}
  PROVE  ExternalURL.host \in Hostnames
<1>1. taskKind = "dev" /\ RoutingConfig # Unset
      /\ Hostnames = {RoutingConfig.hostnames[i] : i \in DOMAIN RoutingConfig.hostnames}
  BY DEF Hostnames
<1>2. RoutingConfig.hostnames \in Seq(STRING)
  BY <1>1, RoutingConfigType, RoutingsAssumption
<1>3. RoutingConfig.hostnames # <<>>
  BY <1>1
<1>4. Head(RoutingConfig.hostnames) \in Hostnames
  <2>1. 1 \in DOMAIN RoutingConfig.hostnames
    BY <1>2, <1>3
  <2>2. Head(RoutingConfig.hostnames) = RoutingConfig.hostnames[1]
    BY <1>2, <1>3
  <2> QED
    BY <1>1, <2>1, <2>2
<1>5. ExternalURL.host = Head(RoutingConfig.hostnames)
  BY <1>1, <1>3 DEF ExternalURL, DevURL, URL
<1> QED
  BY <1>4, <1>5

\* Port 80, and for https 443, are left out of a URL, and mean the same.
LEMMA AddressOfDevURL ==
  ASSUME cluster \in Clusters, NodePortIsTCP, taskKind = "dev",
         RoutingConfig # Unset =>
             RoutingConfig.hostnames = <<>> /\ RoutingConfig.externalHost = NoHost
  PROVE  \/ Entrances(GatewayName) = {}
         \/ <<ExternalURL.host, EffectivePort(ExternalURL)>> \in Entrances(GatewayName)
<1> DEFINE at == DevAddress(cluster, GatewayName)
<1>1. ExternalURL = URL("http", at.host, IF at.port = 80 THEN 0 ELSE at.port, RoutePath)
  BY Zenon DEF ExternalURL, DevURL
<1>2. /\ at.port # 0
      /\ Entrances(GatewayName) = {} \/ <<at.host, at.port>> \in Entrances(GatewayName)
  BY DevAddressEnters, Zenon
<1>3. ExternalURL.host = at.host /\ EffectivePort(ExternalURL) = at.port
  <2> HIDE DEF at
  <2> QED
    BY <1>1, <1>2 DEF URL, EffectivePort
<1> QED
  BY <1>2, <1>3, Zenon

LEMMA AddressOfInferenceURL ==
  ASSUME cluster \in Clusters, NodePortIsTCP, taskKind = "inference",
         \/ NodePort(cluster) # 0
         \/ /\ GatewayHost(cluster, GatewayName) # NoHost
            /\ ListenerPort(cluster, GatewayName) # 0
  PROVE  <<ExternalURL.host, EffectivePort(ExternalURL)>> \in Entrances(GatewayName)
<1> DEFINE at == InferenceAddress(cluster, GatewayName)
<1>1. ExternalURL = URL(Scheme(at.port), at.host,
                        IF at.port \in {80, 443} THEN 0 ELSE at.port, RoutePath)
  <2>1. taskKind # "dev"
    OBVIOUS
  <2> QED
    BY <2>1, Zenon DEF ExternalURL, InferenceURL
<1>2. at.port # 0 /\ <<at.host, at.port>> \in Entrances(GatewayName)
  BY InferenceAddressEnters, Zenon
<1>3. ExternalURL.host = at.host /\ EffectivePort(ExternalURL) = at.port
  <2> HIDE DEF at
  <2> QED
    BY <1>1, <1>2 DEF URL, Scheme, EffectivePort
<1> QED
  BY <1>2, <1>3, Zenon

LEMMA ServedOK == AccessOK => URLIsServed
<1> SUFFICES ASSUME AccessOK,
                    phase = "running", url # NoURL, current, OneTool,
                    FrameworkNow \notin outdated \cup refused
             PROVE  LET f == FrameworkNow
                        r == routes[f]
                        entrances == Entrances(r.gateway)
                    IN  /\ r # Unset /\ deployments[f] # Unset
                        /\ url.path = r.path
                        /\ r.hosts # {} => url.host \in r.hosts
                        /\ services[f] = r.port /\ deployments[f].port = r.port
                        /\ \/ f = "jupyter" /\ r.path # DefaultPath(f)
                           \/ deployments[f].base = IF r.rewrite THEN Root ELSE r.path
                        /\ \/ taskKind = "dev" /\ RoutingConfig # Unset
                              /\ \/ RoutingConfig.hostnames # <<>>
                                 \/ RoutingConfig.externalHost # NoHost
                           \/ /\ taskKind = "inference" /\ NodePort(cluster) = 0
                              /\ \/ GatewayHost(cluster, r.gateway) = NoHost
                                 \/ ListenerPort(cluster, r.gateway) = 0
                           \/ entrances = {} \/ ~NodePortIsTCP
                           \/ <<url.host, EffectivePort(url)>> \in entrances
  BY DEF URLIsServed
<1> DEFINE F == FrameworkNow
           r == routes[F]
<1>1. SpecOK /\ cluster \in Clusters /\ ExposedOK /\ WasSubmitted(phase)
  BY DEF AccessOK, AccessTyped, WasSubmitted
<1>2. url = ExternalURL /\ Matches /\ deployments[F] # Unset /\ r # Unset
      /\ (services[F] = 0 => ServicePort = 0)
  BY <1>1 DEF ExposedOK, UpToDate, Shown, Made, Access
<1>3. deployments[F] = BuildDeployment /\ services[F] = ServicePort /\ r = BuildRoute
  BY <1>2 DEF Matches
<1>4. /\ r.path = RoutePath /\ r.hosts = Hostnames /\ r.gateway = GatewayName
      /\ r.port = ServicePort
      /\ r.rewrite = Rewrites
      /\ deployments[F].port = ServicePort /\ deployments[F].base = Base
  BY <1>3 DEF BuildRoute, BuildDeployment
<1>5. url.path = r.path
  BY <1>2, <1>4, PathOfURL
<1>6. r.hosts # {} => url.host \in r.hosts
  BY <1>1, <1>2, <1>4, HostOfURL
<1>7. \/ F = "jupyter" /\ r.path # DefaultPath(F)
      \/ deployments[F].base = IF r.rewrite THEN Root ELSE r.path
  <2>1. Chosen = {F}
    BY <1>1, OneToolIsFramework
  <2>2. CASE taskKind = "dev" /\ F = "jupyter"
    <3>1. deployments[F].base = DefaultPath(F)
      BY <1>4, <2>1, <2>2 DEF Base
    <3>2. ~r.rewrite
      BY <1>4, <2>2 DEF Rewrites
    <3> QED
      BY <2>2, <3>1, <3>2
  <2>3. CASE ~(taskKind = "dev" /\ F = "jupyter")
    <3>1. deployments[F].base = Root
      BY <1>4, <2>1, <2>3 DEF Base
    <3>2. r.rewrite
      BY <1>1, <1>4, <2>1, <2>3, Tools DEF SpecOK, Rewrites
    <3> QED
      BY <3>1, <3>2
  <2> QED
    BY <2>2, <2>3
<1>8. \/ taskKind = "dev" /\ RoutingConfig # Unset
         /\ (RoutingConfig.hostnames # <<>> \/ RoutingConfig.externalHost # NoHost)
      \/ /\ taskKind = "inference" /\ NodePort(cluster) = 0
         /\ \/ GatewayHost(cluster, r.gateway) = NoHost
            \/ ListenerPort(cluster, r.gateway) = 0
      \/ Entrances(r.gateway) = {} \/ ~NodePortIsTCP
      \/ <<url.host, EffectivePort(url)>> \in Entrances(r.gateway)
  <2>1. CASE taskKind = "dev"
    BY <1>1, <1>2, <1>4, <2>1, AddressOfDevURL, Zenon
  <2>2. CASE taskKind = "inference"
    BY <1>1, <1>2, <1>4, <2>2, AddressOfInferenceURL, Zenon
  <2> QED
    BY <1>1, <2>1, <2>2 DEF SpecOK
<1> QED
  BY <1>2, <1>3, <1>4, <1>5, <1>6, <1>7, <1>8, Zenon

\* The URL in the status of a running task leads to its workload, under the
\* conditions URLIsServed names: what GetGatewayAddressAndPort finds, and what
\* its copy for InferenceTasks does, is an entrance of the gateway, and the route,
\* the Service and the container (BuildHTTPRoute, BuildService, BuildDevContainer)
\* agree with the URL and with each other; for any cluster, any settings and any
\* number of edits and refused Creates, the last of which must not have been of
\* the Service or the route (devtask_phases.go:119-130).
THEOREM URLLeadsToWorkload == AccessSpec => []URLIsServed
<1> QED
  BY AccessIsOK, ServedOK, PTL

-----------------------------------------------------------------------------
(* What a spec holds is what the calls have left.                          *)

IsPair(p) == p = <<p[1], p[2]>>

\* The settings that the calls of a kind of task write.
Writable(k) ==
  On(ToolsOf(k), UNION Presets[k]) \cup {p \in FurtherModel : k = "eval"}
    \cup UNION {BuilderCalls[k][c] : c \in DOMAIN BuilderCalls[k]}

CallsOK ==
  /\ DOMAIN calls = 1..Len(calls) /\ Len(calls) \in Nat
  /\ \A i \in DOMAIN calls : calls[i].writes \subseteq Writable(taskKind)

\* The tools of a spec are those that were chosen, its settings those that last.
HeldOK ==
  /\ task.held = [t \in DOMAIN task.held |-> task.held[t]]
  /\ \A t : t \in DOMAIN task.held <=> t = "task" \/ \E j \in DOMAIN calls : calls[j].tool = t
  /\ \A t, s : Holds(task, t, s) <=> Lasting(<<t, s>>)

\* A history one call longer.
LEMMA LongerHistory ==
  ASSUME CallsOK, NEW called, calls' = Append(calls, called)
  PROVE  /\ DOMAIN calls' = 1..Len(calls') /\ Len(calls') = Len(calls) + 1
         /\ \A i \in DOMAIN calls : calls'[i] = calls[i]
         /\ calls'[Len(calls) + 1] = called
  BY DEF CallsOK

\* A setting lasts that the last call wrote, or that lasted and was not lost by it.
LEMMA LastsLonger ==
  ASSUME CallsOK, taskKind' = taskKind, NEW called, calls' = Append(calls, called),
         NEW t, NEW s
  PROVE  Lasting(<<t, s>>)' <=>
           \/ /\ <<t, s>> \in called.writes
              /\ t = "task" \/ called.tool = t \/ \E j \in DOMAIN calls : calls[j].tool = t
           \/ /\ Lasting(<<t, s>>)
              /\ t # "task" => called.tool # t
              /\ taskKind = "inference" /\ s \in Model => called.tool = "task"
<1> DEFINE n == Len(calls)
           p == <<t, s>>
<1>1. /\ DOMAIN calls = 1..n /\ DOMAIN calls' = 1..(n + 1) /\ n \in Nat /\ Len(calls') = n + 1
      /\ \A i \in 1..n : calls'[i] = calls[i]
      /\ calls'[n + 1] = called
  BY LongerHistory DEF CallsOK
<1>2. p[1] = t /\ p[2] = s
  OBVIOUS
<1> HIDE DEF n, p
<1>3. ASSUME NEW i \in 1..n
      PROVE  /\ (\E j \in 1..i : calls'[j].tool = t) <=> \E j \in 1..i : calls[j].tool = t
             /\ p \in calls'[i].writes <=> p \in calls[i].writes
  BY <1>1
<1>4. ASSUME NEW i \in 1..n
      PROVE  (\A j \in (i + 1)..(n + 1) :
                 /\ t # "task" => calls'[j].tool # t
                 /\ taskKind = "inference" /\ s \in Model => calls'[j].tool = "task")
             <=> /\ \A j \in (i + 1)..n :
                       /\ t # "task" => calls[j].tool # t
                       /\ taskKind = "inference" /\ s \in Model => calls[j].tool = "task"
                 /\ t # "task" => called.tool # t
                 /\ taskKind = "inference" /\ s \in Model => called.tool = "task"
  BY <1>1
<1>5. (\E j \in 1..(n + 1) : calls'[j].tool = t) <=>
      called.tool = t \/ \E j \in 1..n : calls[j].tool = t
  BY <1>1
<1> DEFINE Then(i) ==
             /\ p \in calls'[i].writes
             /\ t = "task" \/ \E j \in 1..i : calls'[j].tool = t
             /\ \A j \in (i + 1)..(n + 1) :
                    /\ t # "task" => calls'[j].tool # t
                    /\ taskKind = "inference" /\ s \in Model => calls'[j].tool = "task"
           Now(i) ==
             /\ p \in calls[i].writes
             /\ t = "task" \/ \E j \in 1..i : calls[j].tool = t
             /\ \A j \in (i + 1)..n :
                    /\ t # "task" => calls[j].tool # t
                    /\ taskKind = "inference" /\ s \in Model => calls[j].tool = "task"
<1>6. Lasting(p) <=> \E i \in 1..n : Now(i)
  BY <1>1, <1>2, Zenon DEF Lasting, n
<1>7. Lasting(p)' <=> \E i \in 1..(n + 1) : Then(i)
  BY <1>1, <1>2, Zenon DEF Lasting, Model
<1>8. Then(n + 1) <=> /\ p \in called.writes
                      /\ t = "task" \/ called.tool = t \/ \E j \in 1..n : calls[j].tool = t
  BY <1>1, <1>5
<1>9. \A i \in 1..n : Then(i) <=> /\ Now(i)
                                  /\ t # "task" => called.tool # t
                                  /\ taskKind = "inference" /\ s \in Model => called.tool = "task"
  BY <1>3, <1>4
<1> HIDE DEF Then, Now
<1>10. \A i : i \in 1..(n + 1) <=> i \in 1..n \/ i = n + 1
  BY <1>1
<1> QED
  BY <1>1, <1>6, <1>7, <1>8, <1>9, <1>10 DEF p

LEMMA TaskIsNoTool ==
  ASSUME NEW k \in DOMAIN ToolOrder
  PROVE  "task" \notin ToolsOf(k)
  BY Tools

LEMMA CallsWritePairs ==
  ASSUME NEW k \in DOMAIN ToolOrder, NEW c \in DOMAIN BuilderCalls[k]
  PROVE  \A p \in BuilderCalls[k][c] : IsPair(p)
<1>1. \A S, T : \A p \in On(S, T) : IsPair(p)
  BY DEF On, IsPair
<1>2. \A d \in DOMAIN DevCalls : \A p \in DevCalls[d] : IsPair(p)
  BY <1>1 DEF DevCalls, Resources, Volume, TTL
<1>3. \A d \in DOMAIN InferenceCalls : \A p \in InferenceCalls[d] : IsPair(p)
  BY <1>1 DEF InferenceCalls, Resources, Volume, TTL
<1>4. \A d \in DOMAIN EvalCalls : \A p \in EvalCalls[d] : IsPair(p)
  BY <1>1 DEF EvalCalls, Resources, Volume, TTL
<1>5. \A d \in DOMAIN FineTuneCalls : \A p \in FineTuneCalls[d] : IsPair(p)
  BY <1>1 DEF FineTuneCalls, Resources, Volume, TTL
<1>6. \A d \in DOMAIN TrainCalls : \A p \in TrainCalls[d] : IsPair(p)
  BY <1>1 DEF TrainCalls, Resources, Volume, TTL
<1>7. /\ BuilderCalls["dev"] = DevCalls /\ BuilderCalls["inference"] = InferenceCalls
      /\ BuilderCalls["eval"] = EvalCalls /\ BuilderCalls["finetune"] = FineTuneCalls
      /\ BuilderCalls["train"] = TrainCalls
  BY DEF BuilderCalls
<1> QED
  BY <1>2, <1>3, <1>4, <1>5, <1>6, <1>7, Tools

LEMMA WritesAreWritable ==
  ASSUME BuiltOK, NEW c \in DOMAIN BuilderCalls[taskKind]
  PROVE  Writes(task, c) \subseteq Writable(taskKind)
<1>1. taskKind = "eval" => FurtherModel \subseteq Writable(taskKind)
  BY DEF Writable
<1>2. BuilderCalls[taskKind][c] \subseteq Writable(taskKind)
  BY DEF Writable
<1> HIDE DEF taskKind
<1>3. \/ Writes(task, c) = BuilderCalls[task.kind][c]
      \/ task.kind = "eval" /\ Writes(task, c) = FurtherModel
  BY Zenon DEF Writes
<1> QED
  BY <1>1, <1>2, <1>3 DEF taskKind

LEMMA WritablePairs ==
  ASSUME NEW k \in DOMAIN ToolOrder
  PROVE  \A p \in Writable(k) : IsPair(p)
<1>1. \A S, T : \A p \in On(S, T) : IsPair(p)
  BY DEF On, IsPair
<1>2. \A p \in FurtherModel : IsPair(p)
  BY <1>1 DEF FurtherModel
<1>3. \A c \in DOMAIN BuilderCalls[k] : \A p \in BuilderCalls[k][c] : IsPair(p)
  BY CallsWritePairs
<1> QED
  BY <1>1, <1>2, <1>3, Zenon DEF Writable

\* Choosing a tool loses exactly the settings that no longer last.
LEMMA ChoosingIsHeld ==
  ASSUME BuiltOK, CallsOK, HeldOK, NEW t \in ToolsOf(taskKind), NEW preset, ChooseTool(t, preset)
  PROVE  HeldOK' /\ taskKind' = taskKind
<1> DEFINE called == [tool |-> t, writes |-> On({t}, preset)]
           lost == IF task.kind = "inference" THEN {"model", "hubModel"} ELSE {}
<1>1. /\ task' = Choose(task, t, preset) /\ calls' = Append(calls, called)
      /\ called.tool = t /\ called.writes = On({t}, preset)
  BY DEF ChooseTool
<1>2. /\ task'.kind = task.kind /\ taskKind' = taskKind
      /\ task'.held = [u \in DOMAIN task.held \cup {t} |->
                         IF u = t THEN preset ELSE task.held[u] \ lost]
  BY <1>1 DEF Choose, taskKind
<1>3. t # "task"
  BY TaskIsNoTool DEF BuiltOK
<1> HIDE DEF called
<1>4. \A u : u \in DOMAIN task'.held <=> u = "task" \/ \E j \in DOMAIN calls' : calls'[j].tool = u
  <2>1. \A u : (\E j \in DOMAIN calls' : calls'[j].tool = u) <=>
              u = t \/ \E j \in DOMAIN calls : calls[j].tool = u
    BY <1>1, LongerHistory DEF CallsOK
  <2> QED
    BY <1>2, <2>1 DEF HeldOK
<1>5. ASSUME NEW u, NEW s
      PROVE  Holds(task', u, s) <=> Lasting(<<u, s>>)'
  <2>1. Lasting(<<u, s>>)' <=>
          \/ <<u, s>> \in On({t}, preset)
          \/ Lasting(<<u, s>>) /\ u # t /\ s \notin lost
    BY <1>1, <1>2, <1>3, LastsLonger DEF Model, taskKind, On
  <2>2. <<u, s>> \in On({t}, preset) <=> u = t /\ s \in preset
    BY DEF On
  <2>3. Holds(task', u, s) <=>
          \/ u = t /\ s \in preset
          \/ Holds(task, u, s) /\ u # t /\ s \notin lost
    BY <1>2 DEF Holds
  <2> QED
    BY <2>1, <2>2, <2>3 DEF HeldOK
<1> QED
  BY <1>2, <1>4, <1>5 DEF HeldOK

\* Any other call adds what it writes, for the tools that have been chosen.
LEMMA AskingIsHeld ==
  ASSUME BuiltOK, CallsOK, HeldOK, NEW c \in DOMAIN BuilderCalls[taskKind], Call(c)
  PROVE  HeldOK' /\ taskKind' = taskKind
<1> DEFINE called == [tool |-> "task", writes |-> Writes(task, c)]
           W == Writes(task, c)
<1>1. /\ task' = Ask(task, c) /\ calls' = Append(calls, called)
      /\ called.tool = "task" /\ called.writes = W
  BY DEF Call
<1>2. /\ task'.kind = task.kind /\ taskKind' = taskKind
      /\ task'.held = [u \in DOMAIN task.held |->
                         task.held[u] \cup {p[2] : p \in {q \in W : q[1] = u}}]
  BY <1>1 DEF Ask, taskKind
<1> HIDE DEF called
<1>3. \A p \in W : IsPair(p)
  BY WritesAreWritable, WritablePairs DEF BuiltOK
<1> HIDE DEF W
<1>4. \A u : u \in DOMAIN task'.held <=> u = "task" \/ \E j \in DOMAIN calls' : calls'[j].tool = u
  <2>1. \A u : (\E j \in DOMAIN calls' : calls'[j].tool = u) <=>
              u = "task" \/ \E j \in DOMAIN calls : calls[j].tool = u
    BY <1>1, LongerHistory DEF CallsOK
  <2> QED
    BY <1>2, <2>1 DEF HeldOK
<1>5. ASSUME NEW u, NEW s
      PROVE  Holds(task', u, s) <=> Lasting(<<u, s>>)'
  <2>1. Lasting(<<u, s>>)' <=>
          \/ <<u, s>> \in W /\ u \in DOMAIN task.held
          \/ Lasting(<<u, s>>)
    BY <1>1, <1>2, LastsLonger DEF HeldOK
  <2>2. s \in {p[2] : p \in {q \in W : q[1] = u}} <=> <<u, s>> \in W
    BY <1>3 DEF IsPair
  <2>3. Holds(task', u, s) <=>
          \/ <<u, s>> \in W /\ u \in DOMAIN task.held
          \/ Holds(task, u, s)
    BY <1>2, <2>2 DEF Holds
  <2> QED
    BY <2>1, <2>3 DEF HeldOK
<1> QED
  BY <1>2, <1>4, <1>5 DEF HeldOK

LEMMA CallsStep ==
  ASSUME BuiltOK, CallsOK,
         \/ \E t \in ToolsOf(taskKind), p \in Presets[taskKind] : ChooseTool(t, p)
         \/ \E c \in DOMAIN BuilderCalls[taskKind] : Call(c)
  PROVE  CallsOK'
<1>1. PICK called : /\ calls' = Append(calls, called) /\ called.writes \subseteq Writable(taskKind)
  <2>1. ASSUME NEW t \in ToolsOf(taskKind), NEW p \in Presets[taskKind], ChooseTool(t, p)
        PROVE  \E called : calls' = Append(calls, called)
                           /\ called.writes \subseteq Writable(taskKind)
    <3>1. On({t}, p) \subseteq Writable(taskKind)
      BY DEF On, Writable
    <3>2. [tool |-> t, writes |-> On({t}, p)].writes \subseteq Writable(taskKind)
      BY <3>1
    <3> QED
      BY <2>1, <3>2, Zenon DEF ChooseTool
  <2>2. ASSUME NEW c \in DOMAIN BuilderCalls[taskKind], Call(c)
        PROVE  \E called : calls' = Append(calls, called)
                           /\ called.writes \subseteq Writable(taskKind)
    <3>1. [tool |-> "task", writes |-> Writes(task, c)].writes \subseteq Writable(taskKind)
      BY WritesAreWritable
    <3> QED
      BY <2>2, <3>1, Zenon DEF Call
  <2> QED
    BY <2>1, <2>2
<1>2. taskKind' = taskKind
  BY BuilderStepsTyped
<1>3. /\ DOMAIN calls' = 1..Len(calls') /\ Len(calls') = Len(calls) + 1
      /\ \A i \in DOMAIN calls : calls'[i] = calls[i]
      /\ calls'[Len(calls) + 1] = called
  BY <1>1, LongerHistory
<1>4. Writable(taskKind') = Writable(taskKind)
  BY <1>2
<1>5. \A i \in 1..(Len(calls) + 1) : i \in DOMAIN calls \/ i = Len(calls) + 1
  BY DEF CallsOK
<1>6. ASSUME NEW i \in DOMAIN calls'
      PROVE  calls'[i].writes \subseteq Writable(taskKind)
  <2>1. CASE i \in DOMAIN calls
    BY <1>3, <2>1 DEF CallsOK
  <2>2. CASE i = Len(calls) + 1
    BY <1>1, <1>3, <2>2
  <2> QED
    BY <1>3, <1>5, <2>1, <2>2
<1>7. Len(calls') \in Nat
  BY <1>3 DEF CallsOK
<1> QED
  BY <1>3, <1>4, <1>6, <1>7 DEF CallsOK

\* A new task holds nothing, and no call has been made.
LEMMA NewTaskHoldsNothing ==
  ASSUME NEW k, task' = NewTask(k), calls' = <<>>
  PROVE  CallsOK' /\ HeldOK'
<1>1. /\ task'.held = [t \in {"task"} |-> {}]
      /\ DOMAIN calls' = {} /\ DOMAIN calls' = 1..Len(calls') /\ Len(calls') = 0
  BY DEF NewTask
<1>2. CallsOK'
  BY <1>1 DEF CallsOK
<1>3. \A t, s : ~Holds(task', t, s)
  BY <1>1 DEF Holds
<1>4. \A t, s : ~Lasting(<<t, s>>)'
  BY <1>1 DEF Lasting
<1> QED
  BY <1>1, <1>2, <1>3, <1>4 DEF HeldOK

HistoryOK == BuiltOK /\ CallsOK /\ HeldOK

LEMMA HistoryInit == AccessInit => HistoryOK
<1> SUFFICES ASSUME AccessInit
             PROVE  HistoryOK
  OBVIOUS
<1>1. PICK k \in DOMAIN ToolOrder : task = NewTask(k)
  BY DEF AccessInit
<1>2. /\ task.held = [t \in {"task"} |-> {}] /\ task.kind = k
      /\ DOMAIN calls = {} /\ DOMAIN calls = 1..Len(calls) /\ Len(calls) = 0
  BY <1>1 DEF NewTask, AccessInit
<1>3. \A t, s : ~Holds(task, t, s)
  BY <1>2 DEF Holds
<1>4. \A t, s : ~Lasting(<<t, s>>)
  BY <1>2 DEF Lasting
<1> QED
  BY <1>2, <1>3, <1>4 DEF HistoryOK, BuiltOK, CallsOK, HeldOK, taskKind

LEMMA HistoryStep == HistoryOK /\ [AccessNext]_accessVars => HistoryOK'
<1> SUFFICES ASSUME HistoryOK, [AccessNext]_accessVars
             PROVE  HistoryOK'
  OBVIOUS
<1> USE DEF HistoryOK
<1>1. ASSUME task' = task, calls' = calls
      PROVE  HistoryOK'
  <2>1. \A p : Lasting(p)' <=> Lasting(p)
    BY <1>1 DEF Lasting, Model, taskKind
  <2> QED
    BY <1>1, <2>1 DEF BuiltOK, CallsOK, HeldOK, taskKind
<1>2. ASSUME NEW t \in ToolsOf(taskKind), NEW p \in Presets[taskKind], ChooseTool(t, p)
      PROVE  HistoryOK'
  BY <1>2, BuilderStepsTyped, CallsStep, ChoosingIsHeld
<1>3. ASSUME NEW c \in DOMAIN BuilderCalls[taskKind], Call(c)
      PROVE  HistoryOK'
  BY <1>3, BuilderStepsTyped, CallsStep, AskingIsHeld
<1>4. ASSUME NEW r \in Routings \cup {Unset}, Submit(r)
      PROVE  HistoryOK'
  BY <1>4, SubmitTyped, NewTaskHoldsNothing DEF Submit
<1>5. CASE Client
  BY <1>2, <1>3, <1>4, <1>5 DEF Client
<1>6. CASE Reconcile
  BY <1>1, <1>6
  DEF Reconcile, ReconcileCreating, CreateHalf, Recreate, ReconcileRunning, ReconcileFinished,
      built
<1>7. CASE Users
  BY <1>1, <1>7 DEF Users, EditTool, EditRouting, EditPort, EditSettings, EditedSpec, built
<1>8. CASE Environment
  BY <1>1, <1>8 DEF Environment, ClusterChanges, WorkloadEnds, built
<1>9. CASE UNCHANGED accessVars
  BY <1>1, <1>9 DEF accessVars
<1> QED
  BY <1>5, <1>6, <1>7, <1>8, <1>9 DEF AccessNext

\* The inductive invariant of a task that is built.
LEMMA HistoryIsOK == AccessSpec => []HistoryOK
<1> QED
  BY HistoryInit, HistoryStep, PTL DEF AccessSpec

-----------------------------------------------------------------------------
(* What is used, and what is lost.                                         *)

LEMMA HeldAreUsed ==
  ASSUME NEW pairs, NEW p \in pairs, Holds(task, p[1], p[2])
  PROVE  p \in HeldOf(task, pairs)
  BY DEF HeldOf

\* The first of a set is the first of every part that it is in.
LEMMA FirstOfPart ==
  ASSUME NEW k \in DOMAIN ToolOrder, NEW S \in SUBSET ToolsOf(k), NEW T \in SUBSET S,
         FirstOf(ToolOrder[k], S) \in T
  PROVE  FirstOf(ToolOrder[k], T) = FirstOf(ToolOrder[k], S)
<1> DEFINE order == ToolOrder[k]
<1>1. DOMAIN order \in SUBSET Nat
  BY OrderIsSequence
<1>2. T # {} /\ S # {} /\ T \in SUBSET ToolsOf(k)
  OBVIOUS
<1>3. (\E i \in DOMAIN order : order[i] \in T) /\ \E i \in DOMAIN order : order[i] \in S
  BY <1>2 DEF ToolsOf
<1> HIDE DEF order
<1>4. PICK i \in DOMAIN order : /\ FirstOf(order, S) = order[i]
                                /\ \A j \in DOMAIN order : order[j] \in S => i <= j
  BY <1>1, <1>3, FirstOfFound
<1>5. PICK j \in DOMAIN order : /\ FirstOf(order, T) = order[j] /\ order[j] \in T
                                /\ \A l \in DOMAIN order : order[l] \in T => j <= l
  BY <1>1, <1>3, FirstOfFound
<1>6. order[i] \in T /\ order[j] \in S
  BY <1>4, <1>5 DEF order
<1>7. i = j
  BY <1>1, <1>4, <1>5, <1>6
<1> QED
  BY <1>4, <1>5, <1>7 DEF order

LEMMA UsedByKind ==
  /\ taskKind = "dev" => Used(task) = DevUsed(task)
  /\ taskKind = "inference" => Used(task) = InferenceUsed(task)
  /\ taskKind = "eval" => Used(task) = EvalUsed(task)
  /\ taskKind = "finetune" => Used(task) = FineTuneUsed(task)
<1>1. taskKind = "dev" => Used(task) = DevUsed(task)
  BY DEF Used, taskKind
<1>2. taskKind = "inference" => Used(task) = InferenceUsed(task)
  BY DEF Used, taskKind
<1>3. taskKind = "eval" => Used(task) = EvalUsed(task)
  BY DEF Used, taskKind
<1>4. taskKind = "finetune" => Used(task) = FineTuneUsed(task)
  BY DEF Used, taskKind
<1> QED
  BY <1>1, <1>2, <1>3, <1>4

\* No controller uses what the spec does not hold.
LEMMA UsedAreHeld ==
  ASSUME taskKind \in {"dev", "inference", "eval", "finetune"}, NEW p \in Used(task)
  PROVE  IsPair(p) /\ Holds(task, p[1], p[2])
<1> DEFINE Sound(S) == \A q \in S : IsPair(q) /\ Holds(task, q[1], q[2])
           Pairs(S) == \A q \in S : IsPair(q)
<1>1. \A S, T : Pairs(On(S, T))
  BY DEF On, IsPair
<1>2. \A t, s : Pairs({<<t, s>>})
  BY DEF IsPair
<1>3. \A S, T : Pairs(S) /\ Pairs(T) => Pairs(S \cup T)
  OBVIOUS
<1>4. \A S : Pairs(S) => Sound(HeldOf(task, S))
  BY DEF HeldOf
<1>5. \A S, T : Sound(S) /\ Sound(T) => Sound(S \cup T)
  OBVIOUS
<1>6. Pairs(Resources) /\ Pairs(TTL) /\ Pairs(Volume) /\ Pairs({})
  BY <1>1 DEF Resources, TTL, Volume
<1> HIDE DEF Sound, Pairs
<1>7. Sound(Volumes(task))
  BY <1>4, <1>6, Zenon DEF Volumes
<1>8. CASE taskKind = "dev"
  <2>1. Sound(DevImage(task)) /\ Sound(DevEnv(task))
    BY <1>1, <1>2, <1>4, Zenon DEF DevImage, DevEnv
  <2>2. Sound(HeldOf(task, TTL \cup {<<RoutingTool(task), "routing">>}))
    BY <1>2, <1>3, <1>4, <1>6, Zenon
  <2>3. Sound(DevUsed(task))
    BY <1>5, <1>7, <2>1, <2>2, Zenon DEF DevUsed
  <2> QED
    BY <1>8, <2>3, UsedByKind DEF Sound
<1>9. CASE taskKind = "inference"
  <2>1. Sound(InferenceImage(task))
    BY <1>2, <1>4, Zenon DEF InferenceImage
  <2>2. Sound(Replicas(task))
    <3>1. Sound(HeldOf(task, {<<"vllm", "minReplicas">>}))
      BY <1>2, <1>4, Zenon
    <3>2. Holds(task, "tgi", "minReplicas") => Sound({<<"tgi", "minReplicas">>})
      BY DEF Sound, IsPair
    <3> QED
      BY <3>1, <3>2, Zenon DEF Replicas
  <2>3. Sound(InferenceArgs(task))
    BY <1>1, <1>3, <1>4, Zenon DEF InferenceArgs
  <2>4. Sound(HeldOf(task, Resources \cup TTL \cup {<<RoutingTool(task), "routing">>}))
    BY <1>2, <1>3, <1>4, <1>6, Zenon
  <2>5. Sound(InferenceUsed(task))
    BY <1>5, <1>7, <2>1, <2>2, <2>3, <2>4, Zenon DEF InferenceUsed
  <2> QED
    BY <1>9, <2>5, UsedByKind DEF Sound
<1>10. CASE taskKind = "eval"
  <2>1. Sound(EvalUsed(task))
    BY <1>1, <1>4, Zenon DEF EvalUsed
  <2> QED
    BY <1>10, <2>1, UsedByKind DEF Sound
<1>11. CASE taskKind = "finetune"
  <2>1. Sound(FineTuneArgs(task))
    BY <1>1, <1>4, Zenon DEF FineTuneArgs
  <2>2. Sound(HeldOf(task, {<<"task", "cpu">>}))
    BY <1>2, <1>4, Zenon
  <2>3. Holds(task, "task", "gpu") => Sound({<<"task", "gpu">>})
    BY DEF Sound, IsPair
  <2>4. Sound(FineTuneUsed(task))
    BY <1>5, <2>1, <2>2, <2>3, Zenon DEF FineTuneUsed
  <2> QED
    BY <1>11, <2>4, UsedByKind DEF Sound
<1> QED
  BY <1>8, <1>9, <1>10, <1>11

LEMMA IsIn == \A t, s, S, T : <<t, s>> \in On(S, T) <=> t \in S /\ s \in T
  BY DEF On

\* If the framework's tool has routing settings, they are the task's.
LEMMA RoutingToolIsFramework ==
  ASSUME BuiltOK, Holds(task, Framework(task), "routing"), Framework(task) # "task"
  PROVE  RoutingTool(task) = Framework(task)
<1>1. taskKind \in DOMAIN ToolOrder /\ ChosenIn(task) \in SUBSET ToolsOf(taskKind)
  BY DEF BuiltOK, ChosenIn
<1> DEFINE routed == {t \in ChosenIn(task) : "routing" \in task.held[t]}
<1>2. routed \in SUBSET ChosenIn(task) /\ Framework(task) \in routed
  BY DEF Holds, ChosenIn
<1>3. FirstOf(ToolOrder[taskKind], routed) = FirstOf(ToolOrder[taskKind], ChosenIn(task))
  <2> HIDE DEF routed
  <2> QED
    BY <1>1, <1>2, FirstOfPart DEF Framework, taskKind
<1> QED
  BY <1>3, Zenon DEF RoutingTool, Framework, taskKind

LEMMA FrameworkIsTool ==
  ASSUME BuiltOK, NEW t, NEW s, Holds(task, t, s), t # "task"
  PROVE  t \in ChosenIn(task) /\ t \in ToolsOf(taskKind)
  BY DEF BuiltOK, ChosenIn, Holds

\* Kind by kind, a setting that is held, and not a known loss, is used.
LEMMA DevSettingsUsed ==
  ASSUME BuiltOK, taskKind = "dev", NEW t, NEW s, <<t, s>> \in Writable("dev"),
         Holds(task, t, s), t \in {"task", Framework(task)},
         <<t, s>> \notin KnownLosses["dev"]
  PROVE  <<t, s>> \in DevUsed(task)
<1> DEFINE F == Framework(task)
<1>1. "dev" \in DOMAIN ToolOrder /\ ToolsOf("dev") = {"codeserver", "jupyter", "novnc"}
  BY Tools
<1>2. KnownLosses["dev"] = ((Resources \cup Volume \cup TTL) \ TTL)
                             \cup {<<"task", "dataSource">>, <<"novnc", "env">>}
                             \cup On(ToolsOf("dev"), {"gatewayPort"})
  BY DEF KnownLosses
<1>3. CASE t = "task"
  <2>1. s \in {"cpu", "memory", "gpu", "volume", "ttl", "dataSource"}
    <3>1. <<t, s>> \notin On(ToolsOf("dev"), UNION Presets["dev"])
      BY <1>1, <1>3, IsIn
    <3>2. <<t, s>> \in UNION {DevCalls[c] : c \in DOMAIN DevCalls}
      BY <3>1, Zenon DEF Writable, BuilderCalls
    <3> QED
      BY <1>3, <3>2, IsIn DEF DevCalls, Resources, Volume, TTL
  <2>2. <<t, s>> \in TTL
    BY <1>2, <1>3, <2>1, IsIn DEF Resources, Volume, TTL
  <2> QED
    BY <2>2, HeldAreUsed DEF DevUsed
<1>4. CASE t = F /\ t # "task"
  <2>1. s \in {"image", "env", "routing", "gatewayPort"}
    BY <1>1, <1>4, IsIn
    DEF Writable, BuilderCalls, DevCalls, Resources, Volume, TTL, Presets, DevPresets
  <2>2. F \in {"codeserver", "jupyter", "novnc"} /\ s # "gatewayPort"
    BY <1>1, <1>2, <1>4, FrameworkIsTool, IsIn
  <2>3. CASE s = "image"
    <3>1. <<t, s>> \in DevImage(task)
      BY <1>4, <2>3, HeldAreUsed DEF DevImage
    <3> QED
      BY <3>1 DEF DevUsed
  <2>4. CASE s = "env"
    <3>1. t \in {"codeserver", "jupyter"}
      BY <1>2, <1>4, <2>2, <2>4
    <3>2. <<t, s>> \in On({"codeserver", "jupyter"}, {"env"})
      BY <2>4, <3>1, IsIn
    <3>3. <<t, s>> \in DevEnv(task)
      BY <3>2, HeldAreUsed DEF DevEnv
    <3> QED
      BY <3>3 DEF DevUsed
  <2>5. CASE s = "routing"
    <3>1. RoutingTool(task) = t
      BY <1>4, <2>5, RoutingToolIsFramework
    <3>2. <<t, s>> \in HeldOf(task, TTL \cup {<<RoutingTool(task), "routing">>})
      BY <2>5, <3>1, HeldAreUsed
    <3> QED
      BY <3>2 DEF DevUsed
  <2> QED
    BY <2>1, <2>2, <2>3, <2>4, <2>5
<1> QED
  BY <1>3, <1>4

LEMMA InferenceSettingsUsed ==
  ASSUME BuiltOK, taskKind = "inference", NEW t, NEW s, <<t, s>> \in Writable("inference"),
         Holds(task, t, s), t \in {"task", Framework(task)},
         <<t, s>> \notin KnownLosses["inference"], ~MixedUp(<<t, s>>)
  PROVE  <<t, s>> \in InferenceUsed(task)
<1> DEFINE F == Framework(task)
           engines == {"vllm", "llama.cpp", "tgi"}
<1>1. "inference" \in DOMAIN ToolOrder /\ ToolsOf("inference") = engines
  BY Tools
<1>2. KnownLosses["inference"] =
        Volume \cup {<<"llama.cpp", "hubModel">>} \cup On({"vllm", "tgi"}, {"maxReplicas"})
          \cup On(ToolsOf("inference"), {"hosts", "gatewayPort"})
  BY DEF KnownLosses
<1>3. CASE t = "task"
  <2>1. s \in {"cpu", "memory", "gpu", "volume", "ttl"}
    <3>1. <<t, s>> \notin On(ToolsOf("inference"), UNION Presets["inference"])
      BY <1>1, <1>3, IsIn
    <3>2. <<t, s>> \in UNION {InferenceCalls[c] : c \in DOMAIN InferenceCalls}
      BY <3>1, Zenon DEF Writable, BuilderCalls
    <3> QED
      BY <1>3, <3>2, IsIn DEF InferenceCalls, Resources, Volume, TTL
  <2>2. <<t, s>> \in Resources \cup TTL
    BY <1>2, <1>3, <2>1, IsIn DEF Resources, Volume, TTL
  <2> QED
    BY <2>2, HeldAreUsed DEF InferenceUsed
<1>4. CASE t = F /\ t # "task"
  <2>1. t \in engines /\ t \in ChosenIn(task)
    BY <1>1, <1>4, FrameworkIsTool
  <2>2. /\ s \in {"image", "model", "hubModel", "gpuCount", "gpuMemoryUtilization", "env",
                  "minReplicas", "routing"}
        /\ s \in {"gpuCount", "gpuMemoryUtilization"} => t = "vllm"
        /\ s = "minReplicas" => t \in {"vllm", "tgi"}
    <3>1. /\ s \in {"image", "model", "hubModel", "gpuCount", "gpuMemoryUtilization", "env",
                    "minReplicas", "maxReplicas", "routing", "hosts", "gatewayPort"}
          /\ s \in {"gpuCount", "gpuMemoryUtilization"} => t = "vllm"
          /\ s \in {"minReplicas", "maxReplicas"} => t \in {"vllm", "tgi"}
      BY <1>1, <1>4, IsIn
      DEF Writable, BuilderCalls, InferenceCalls, Resources, Volume, TTL, Presets,
          InferencePresets
    <3> QED
      BY <1>1, <1>2, <2>1, <3>1, IsIn
  <2>3. s \in Model \cup {"image", "minReplicas"} => ChosenIn(task) = {t}
    <3>1. IsFiniteSet(ChosenIn(task)) /\ Cardinality(ChosenIn(task)) # 0
      <4>1. IsFiniteSet(engines)
        BY ThreeIsFinite
      <4>2. ChosenIn(task) \in SUBSET engines
        BY <1>1 DEF BuiltOK, ChosenIn
      <4> QED
        BY <2>1, <4>1, <4>2, FS_Subset, FS_EmptySet
    <3>2. s \in Model \cup {"image", "minReplicas"} => ~(Cardinality(ChosenIn(task)) > 1)
      BY DEF MixedUp
    <3>3. s \in Model \cup {"image", "minReplicas"} => Cardinality(ChosenIn(task)) = 1
      BY <3>1, <3>2, FS_CardinalityType
    <3> QED
      BY <2>1, <3>1, <3>3, FS_Singleton
  <2>4. CASE s = "image"
    <3>1. FirstOf(<<"vllm", "tgi", "llama.cpp">>, ChosenIn(task)) = t
      <4> DEFINE order == <<"vllm", "tgi", "llama.cpp">>
      <4>1. DOMAIN order \in SUBSET Nat /\ \E k \in DOMAIN order : order[k] \in {t}
        BY <2>1
      <4> HIDE DEF order
      <4>2. FirstOf(order, {t}) = t
        BY <4>1, FirstOfFound
      <4> QED
        BY <2>3, <2>4, <4>2 DEF order
    <3>2. <<t, s>> \in InferenceImage(task)
      BY <2>4, <3>1, HeldAreUsed DEF InferenceImage
    <3> QED
      BY <3>2 DEF InferenceUsed
  <2>5. CASE s = "minReplicas"
    <3>1. <<t, s>> \in Replicas(task)
      <4>1. CASE t = "tgi"
        BY <2>5, <4>1, Zenon DEF Replicas
      <4>2. CASE t = "vllm"
        <5>1. ~Holds(task, "tgi", "minReplicas")
          BY <2>3, <2>5, <4>2 DEF Holds, ChosenIn
        <5>2. <<t, s>> \in HeldOf(task, {<<"vllm", "minReplicas">>})
          BY <2>5, <4>2, HeldAreUsed
        <5> QED
          BY <5>1, <5>2, Zenon DEF Replicas
      <4> QED
        BY <2>2, <2>5, <4>1, <4>2
    <3> QED
      BY <3>1 DEF InferenceUsed
  <2>6. CASE s = "routing"
    <3>1. RoutingTool(task) = t
      BY <1>4, <2>6, RoutingToolIsFramework
    <3>2. <<t, s>> \in HeldOf(task, Resources \cup TTL \cup {<<RoutingTool(task), "routing">>})
      BY <2>6, <3>1, HeldAreUsed
    <3> QED
      BY <3>2 DEF InferenceUsed
  <2>7. CASE s \in {"model", "env", "hubModel", "gpuCount", "gpuMemoryUtilization"}
    <3>1. s = "hubModel" => t \in {"vllm", "tgi"}
      BY <1>2, <2>1
    <3>2. \/ <<t, s>> \in On(ToolsOf("inference"), {"model", "env"})
          \/ <<t, s>> \in On({"vllm", "tgi"}, {"hubModel"})
          \/ <<t, s>> \in On({"vllm"}, {"gpuCount", "gpuMemoryUtilization"})
      BY <1>1, <2>1, <2>2, <2>7, <3>1, IsIn
    <3>3. <<t, s>> \in InferenceArgs(task)
      BY <3>2, HeldAreUsed DEF InferenceArgs
    <3> QED
      BY <3>3 DEF InferenceUsed
  <2> QED
    BY <2>2, <2>4, <2>5, <2>6, <2>7
<1> QED
  BY <1>3, <1>4

LEMMA EvalSettingsUsed ==
  ASSUME BuiltOK, taskKind = "eval", NEW t, NEW s, <<t, s>> \in Writable("eval"),
         Holds(task, t, s), <<t, s>> \notin KnownLosses["eval"]
  PROVE  <<t, s>> \in EvalUsed(task)
<1>1. "eval" \in DOMAIN ToolOrder /\ ToolsOf("eval") = {"opencompass", "lm-eval"}
  BY Tools
<1>2. KnownLosses["eval"] =
        (Resources \cup Volume \cup TTL)
          \cup On({"opencompass"}, {"image", "furtherModels", "furtherDatasets"})
          \cup On({"lm-eval"}, {"image", "model", "datasets"})
  BY DEF KnownLosses
<1>3. t = "task" \/ t \in {"opencompass", "lm-eval"}
  BY <1>1, FrameworkIsTool
<1>4. \/ <<t, s>> \in On({"opencompass", "lm-eval"}, {"image"})
      \/ \E c \in DOMAIN EvalCalls : <<t, s>> \in EvalCalls[c]
      \/ <<t, s>> \in FurtherModel
  <2>1. UNION Presets["eval"] = {"image"} /\ BuilderCalls["eval"] = EvalCalls
    BY DEF Presets, EvalPresets, BuilderCalls
  <2>2. Writable("eval") = On(ToolsOf("eval"), UNION Presets["eval"]) \cup FurtherModel
                             \cup UNION {EvalCalls[c] : c \in DOMAIN EvalCalls}
    BY <2>1 DEF Writable
  <2>3. On(ToolsOf("eval"), UNION Presets["eval"]) = On({"opencompass", "lm-eval"}, {"image"})
    BY <1>1, <2>1
  <2> QED
    BY <2>2, <2>3, Zenon
<1>5. /\ t = "task" => s \in {"cpu", "memory", "gpu", "volume", "ttl"}
      /\ t = "opencompass" =>
           s \in {"image", "model", "dataset", "furtherModels", "furtherDatasets"}
      /\ t = "lm-eval" => s \in {"image", "model", "datasets"}
  BY <1>4, IsIn DEF EvalCalls, FurtherModel, Resources, Volume, TTL
<1>6. t = "opencompass" /\ s \in {"model", "dataset"}
  BY <1>2, <1>3, <1>5, IsIn DEF Resources, Volume, TTL
<1>7. <<t, s>> \in On({"opencompass"}, {"model", "dataset"})
  BY <1>6, IsIn
<1> QED
  BY <1>7, HeldAreUsed DEF EvalUsed

LEMMA FineTuneSettingsUsed ==
  ASSUME BuiltOK, taskKind = "finetune", NEW t, NEW s, <<t, s>> \in Writable("finetune"),
         Holds(task, t, s), <<t, s>> \notin KnownLosses["finetune"]
  PROVE  <<t, s>> \in FineTuneUsed(task)
<1> DEFINE all == UNION {FineTuneCalls[c] : c \in DOMAIN FineTuneCalls}
           whole == Resources \cup Volume \cup TTL
           arguments == {"model", "trainData", "outputDir", "epochs", "batchSize", "learningRate"}
<1>1. "finetune" \in DOMAIN ToolOrder /\ ToolsOf("finetune") = {"lora", "llamafactory"}
  BY Tools
<1>2. KnownLosses["finetune"] =
        (whole \ {<<"task", "gpu">>}) \cup On({"llamafactory"}, {"image", "validData"})
          \cup LoraSettings
  BY DEF KnownLosses
<1>3. t = "task" \/ t \in {"lora", "llamafactory"}
  BY <1>1, FrameworkIsTool
<1>4. \/ <<t, s>> \in On({"lora", "llamafactory"}, {"image", "model"})
      \/ <<t, s>> \in all
  <2>1. UNION Presets["finetune"] = {"image", "model"}
    BY DEF Presets, FineTunePresets
  <2>2. CASE <<t, s>> \in On(ToolsOf("finetune"), UNION Presets["finetune"])
    BY <1>1, <2>1, <2>2, Zenon
  <2>3. CASE <<t, s>> \notin On(ToolsOf("finetune"), UNION Presets["finetune"])
    BY <2>3, Zenon DEF Writable, BuilderCalls
  <2> QED
    BY <2>2, <2>3
<1>5. t # "lora"
  <2> SUFFICES ASSUME t = "lora"
               PROVE  FALSE
    OBVIOUS
  <2>1. <<t, s>> \in all \/ <<t, s>> \in On({"lora"}, {"image", "model"})
    BY <1>4, IsIn
  <2>2. <<t, s>>[1] = "lora"
    OBVIOUS
  <2>3. <<t, s>> \in LoraSettings
    BY <2>1, <2>2, Zenon DEF LoraSettings
  <2> QED
    BY <1>2, <2>3
<1>6. CASE t = "task"
  <2>1. <<t, s>> \in all
    BY <1>4, <1>6, IsIn
  <2>2. s \in {"cpu", "memory", "gpu", "volume", "ttl"}
    BY <1>6, <2>1, IsIn DEF FineTuneCalls, Resources, Volume, TTL
  <2>3. s = "gpu"
    BY <1>2, <1>6, <2>2, IsIn DEF Resources, Volume, TTL
  <2>4. Holds(task, "task", "gpu")
    BY <1>6, <2>3
  <2> QED
    BY <1>6, <2>3, <2>4, Zenon DEF FineTuneUsed
<1>7. CASE t = "llamafactory"
  <2>1. s \in {"image", "validData"} \cup arguments
    BY <1>4, <1>7, IsIn DEF FineTuneCalls, Resources, Volume, TTL
  <2>2. s \notin {"image", "validData"}
    BY <1>2, <1>7, IsIn
  <2>3. <<t, s>> \in On({"llamafactory"}, arguments)
    BY <1>7, <2>1, <2>2, IsIn
  <2>4. <<t, s>> \in FineTuneArgs(task)
    BY <2>3, HeldAreUsed DEF FineTuneArgs
  <2> QED
    BY <2>4 DEF FineTuneUsed
<1> QED
  BY <1>3, <1>5, <1>6, <1>7

LEMMA SettingsOK == HistoryOK => SettingsReachWorkload
<1> SUFFICES ASSUME HistoryOK, taskKind # "train"
             PROVE  /\ \A p \in Used(task) : Lasting(p)
                    /\ \A p \in WrittenSettings :
                         Lasting(p) /\ p[1] \in {"task", Framework(task)}
                         /\ p \notin KnownLosses[taskKind] /\ ~MixedUp(p) => p \in Used(task)
  BY Zenon DEF SettingsReachWorkload
<1> USE DEF HistoryOK
<1>1. taskKind \in {"dev", "inference", "eval", "finetune"}
  BY Tools DEF BuiltOK
<1>2. ASSUME NEW p \in Used(task)
      PROVE  Lasting(p)
  <2>1. IsPair(p) /\ Holds(task, p[1], p[2])
    BY <1>1, UsedAreHeld
  <2>2. Lasting(<<p[1], p[2]>>)
    BY <2>1 DEF HeldOK
  <2> QED
    BY <2>1, <2>2, Zenon DEF IsPair
<1>3. ASSUME NEW p \in WrittenSettings, Lasting(p), p[1] \in {"task", Framework(task)},
             p \notin KnownLosses[taskKind], ~MixedUp(p)
      PROVE  p \in Used(task)
  <2>1. p \in Writable(taskKind)
    BY <1>3 DEF WrittenSettings, CallsOK
  <2>2. IsPair(p)
    BY <2>1, WritablePairs DEF BuiltOK
  <2>3. PICK t, s : p = <<t, s>> /\ t = p[1]
    BY <2>2 DEF IsPair
  <2>4. Holds(task, t, s)
    BY <1>3, <2>3 DEF HeldOK
  <2> QED
    BY <1>1, <1>3, <2>1, <2>3, <2>4, UsedByKind,
       DevSettingsUsed, InferenceSettingsUsed, EvalSettingsUsed, FineTuneSettingsUsed
<1> QED
  BY <1>2, <1>3

\* Whatever calls a program makes on a builder, and in whatever order, each
\* setting that is written for the framework and not overwritten is used by the
\* controller of its kind, but for KnownLosses, and nothing else is; for any
\* number of calls (the With... of the builders, and what Build... of the
\* controllers reads of a spec).
THEOREM WhatIsAskedReachesWorkload == AccessSpec => []SettingsReachWorkload
<1> QED
  BY HistoryIsOK, SettingsOK, PTL
=============================================================================
