----------------------------- MODULE TaskClient -----------------------------
(***************************************************************************)
(* A program that uses the SDK (sdk/*.go) on one task name: it waits, or it*)
(* changes the task, while the task's controller does what TaskLifecycle   *)
(* promises of its kind and other clients create, edit and delete the      *)
(* object.  The clients of the five kinds differ in their types only.      *)
(*                                                                         *)
(* Time passes in units.  The client's goroutine runs as soon as it can;   *)
(* only a request takes time, up to Latency.  A client reads and writes at *)
(* the API server, there is no cache, and its context has no deadline or   *)
(* cancellation of its own.                                                *)
(*                                                                         *)
(* As in TaskController, a resourceVersion is modelled by whether it is the*)
(* server's, and an operator whose comment begins with "Fault:" is a       *)
(* plausible mistake in the definition after it.                           *)
(***************************************************************************)
EXTENDS Naturals

CONSTANTS
    Task,             \* the name
    Waits,            \* the options a caller may give a wait
    Latency,          \* bound: units a request takes at most
    MaxIncarnations   \* bound: objects ever created under the name

ASSUME WaitsAssumption == \A w \in Waits : w.interval \in Nat \ {0} /\ w.timeout \in Nat \ {0}
ASSUME LatencyAssumption == Latency \in Nat
ASSUME IncarnationsAssumption == MaxIncarnations \in Nat \ {0}

VARIABLES
    kind,      \* the kind of the task
    life,      \* the object, as TaskLifecycle has it
    created,
    edits,     \* which clients' edits the object's spec carries
    call,      \* the SDK call under way, or "none"
    pc,        \* where it is
    opt,       \* its interval and timeout
    elapsed,   \* units since the timer and the ticker were started
    ticked,    \* is there a tick in the ticker's channel?
    flight,    \* units the request has taken
    mine,      \* the copy a caller of CreateOrPatch gives, and the copy to write
    seen,      \* what the last read of the object returned
    result,    \* what the call returned
    held,      \* history: units what is waited for has held without a break
    target     \* history: the object under the name when the call was made

objectVars == <<kind, life, created, edits>>
waitVars == <<opt, elapsed, ticked, flight>>
historyVars == <<held, target>>
vars == <<objectVars, call, pc, waitVars, mine, seen, result, historyVars>>

\* By their contracts: DevTask and InferenceTask, EvalTask and FineTuneTask,
\* TrainTask.
Kinds == {"deployed", "job", "idle"}
Terminal == {"completed", "failed"}
Mine == "mine"
Theirs == "theirs"

-----------------------------------------------------------------------------
(* The controllers, as their contracts.                                    *)

DeployedEdges ==
    {<<"creating", "running">>, <<"creating", "failed">>, <<"running", "creating">>,
     <<"running", "completed">>, <<"running", "failed">>}

JobEdges == {<<"running", "completed">>, <<"running", "failed">>}

Deployment ==
    INSTANCE TaskLifecycle WITH
        Tasks <- {Task}, Start <- "creating", Edges <- DeployedEdges, Withdrawing <- FALSE

Job ==
    INSTANCE TaskLifecycle WITH
        Tasks <- {Task}, Start <- "running", Edges <- JobEdges, Withdrawing <- TRUE

NoLife == Deployment!NoLife

\* What the controller of each kind does; that of TrainTask does nothing.
ControllerMoves ==
    /\ \/ /\ kind = "deployed"
          /\ \/ Deployment!Guard(Task) \/ Deployment!Begin(Task) \/ Deployment!Advance(Task)
             \/ Deployment!Stamp(Task) \/ Deployment!Release(Task)
       \/ /\ kind = "job"
          /\ \/ Job!Guard(Task) \/ Job!Begin(Task) \/ Job!Advance(Task)
             \/ Job!Stamp(Task) \/ Job!Withdraw(Task) \/ Job!Release(Task)
    /\ UNCHANGED created

Submitted == created[Task] < MaxIncarnations /\ Job!Submit(Task)
Withdrawn == Job!RequestDeletion(Task) /\ UNCHANGED created

Object == life[Task]
Exists(o) == o.uid # 0

-----------------------------------------------------------------------------
(* Bookkeeping.                                                            *)

\* What a wait waits for.
Awaited(o) ==
    CASE call = "running"   -> o.phase = "running"
      [] call = "completed" -> o.phase \in Terminal
      [] call = "deletion"  -> ~Exists(o)
      [] OTHER              -> FALSE

NoCopy == [uid |-> 0, current |-> FALSE, edits |-> {}]
NoResult == [err |-> "pending", object |-> NoLife]

Waiting == pc \in {"select", "look", "reply"}

Init ==
    /\ kind \in Kinds
    /\ Job!Init
    /\ edits = {}
    /\ call = "none" /\ pc = "idle"
    /\ opt \in Waits /\ elapsed = 0 /\ ticked = FALSE /\ flight = 0
    /\ mine = NoCopy
    /\ seen = NoLife
    /\ result = NoResult
    /\ held = 0 /\ target = 0

\* The object becomes another or changes: copies are outdated, and what held
\* may no longer hold.
ObjectChanged ==
    /\ mine' = [mine EXCEPT !.current = FALSE]
    /\ held' = IF Awaited(life'[Task]) THEN held ELSE 0

OthersAct ==
    /\ \/ ControllerMoves \/ Submitted \/ Withdrawn
    /\ edits' = IF life'[Task].uid = Object.uid THEN edits ELSE {}
    /\ ObjectChanged
    /\ UNCHANGED <<kind, call, pc, waitVars, seen, result, target>>

OthersEdit ==
    /\ Exists(Object)
    /\ edits' = edits \cup {Theirs}
    /\ mine' = [mine EXCEPT !.current = FALSE]
    /\ UNCHANGED <<kind, life, created, call, pc, waitVars, seen, result, historyVars>>

Returns(err, o) ==
    /\ pc' = "done"
    /\ result' = [err |-> err, object |-> o]

-----------------------------------------------------------------------------
(* The waits.                                                              *)

StartPolling ==
    /\ pc' = "select"
    /\ elapsed' = 0 /\ ticked' = FALSE /\ flight' = 0

Called(name) ==
    /\ pc = "idle"
    /\ call' = name
    /\ target' = Object.uid
    /\ UNCHANGED <<objectVars, opt, mine, held>>

\* WaitForCompleted and WaitForDeletion poll at once.
CallWaitForCompleted ==
    Called("completed") /\ StartPolling /\ UNCHANGED <<seen, result>>

CallWaitForDeletion ==
    Called("deletion") /\ StartPolling /\ UNCHANGED <<seen, result>>

\* WaitForRunning looks once before it polls.
CallWaitForRunning ==
    /\ Called("running")
    /\ seen' = Object
    /\ \/ ~Exists(Object) /\ Returns("notFound", Object) /\ UNCHANGED waitVars
       \/ Object.phase = "running" /\ Returns("none", Object) /\ UNCHANGED waitVars
       \/ Object.phase = "failed" /\ Returns("failed", Object) /\ UNCHANGED waitVars
       \/ /\ Exists(Object) /\ Object.phase \notin {"running", "failed"}
          /\ StartPolling /\ UNCHANGED result

\* Time passes while a request is under way, or until a channel is ready.
Tick ==
    /\ \/ pc = "select" /\ ~ticked /\ elapsed < opt.timeout /\ UNCHANGED flight
       \/ pc \in {"look", "reply"} /\ flight < Latency /\ flight' = flight + 1
    /\ elapsed' = elapsed + 1
    /\ ticked' = (ticked \/ (elapsed + 1) % opt.interval = 0)
    /\ held' = IF Awaited(Object) /\ held <= opt.timeout THEN held + 1 ELSE held
    /\ UNCHANGED <<objectVars, call, pc, opt, mine, seen, result, target>>

\* select: the ticker's case.  With both channels ready either case may run.
Poll ==
    /\ pc = "select" /\ ticked
    /\ pc' = "look"
    /\ ticked' = FALSE /\ flight' = 0
    /\ UNCHANGED <<objectVars, call, opt, elapsed, mine, seen, result, historyVars>>

Look ==
    /\ pc = "look"
    /\ seen' = Object
    /\ pc' = "reply"
    /\ UNCHANGED <<objectVars, call, waitVars, mine, result, historyVars>>

\* Fault: a task that has failed is not taken for one that is finished.
SatisfiedByCompletionOnly ==
    CASE call = "completed" -> seen.phase = "completed"
      [] call = "running"   -> seen.phase = "running"
      [] OTHER              -> ~Exists(seen)

\* Fault: a deletionTimestamp is taken for the end of the object.
SatisfiedByRequest ==
    CASE call = "completed" -> seen.phase \in Terminal
      [] call = "running"   -> seen.phase = "running"
      [] OTHER              -> ~Exists(seen) \/ seen.del

\* Not finding the task ends a wait for its deletion only.
Satisfied ==
    CASE call = "completed" -> seen.phase \in Terminal
      [] call = "running"   -> seen.phase = "running"
      [] OTHER              -> ~Exists(seen)

\* Fault: the timeout is started anew with every round.
AnswerRestartingTimer ==
    /\ pc = "reply"
    /\ \/ ~Satisfied /\ StartPolling /\ UNCHANGED <<opt, result>>
       \/ Satisfied /\ call = "deletion" /\ Returns("none", seen) /\ UNCHANGED waitVars
       \/ Satisfied /\ call # "deletion" /\ pc' = "last" /\ UNCHANGED <<waitVars, result>>
    /\ UNCHANGED <<objectVars, call, mine, seen, historyVars>>

Answer ==
    /\ pc = "reply"
    /\ \/ ~Satisfied /\ pc' = "select" /\ UNCHANGED result
       \/ Satisfied /\ call = "deletion" /\ Returns("none", seen)
       \/ Satisfied /\ call # "deletion" /\ pc' = "last" /\ UNCHANGED result
    /\ UNCHANGED <<objectVars, call, waitVars, mine, seen, historyVars>>

\* select: the context's case; the task as it is now is returned as well.
Deadline ==
    /\ pc = "select" /\ elapsed >= opt.timeout
    /\ Returns("timeout", Object)
    /\ UNCHANGED <<objectVars, call, waitVars, mine, seen, historyVars>>

\* Fault: the error of the last Get is dropped.
LastGetUnchecked ==
    /\ pc = "last"
    /\ Returns("none", Object)
    /\ UNCHANGED <<objectVars, call, waitVars, mine, seen, historyVars>>

\* The task is read once more for the caller: it may be gone, or another one.
LastGet ==
    /\ pc = "last"
    /\ Returns(IF Exists(Object) THEN "none" ELSE "notFound", Object)
    /\ UNCHANGED <<objectVars, call, waitVars, mine, seen, historyVars>>

\* A read that fails, and not because the task is not found, ends the call.
ReadFails ==
    /\ pc \in {"look", "last", "patchGet", "retryGet"}
    /\ Returns("error", NoLife)
    /\ UNCHANGED <<objectVars, call, waitVars, mine, seen, historyVars>>

-----------------------------------------------------------------------------
(* Changing a task.  `mine` is the caller's copy.                          *)

\* The caller hands in a task it has built, or one it has just read.
CallCreateOrPatch ==
    /\ pc = "idle"
    /\ call' = "createOrPatch" /\ pc' = "patchGet"
    /\ \/ mine' = NoCopy
       \/ Exists(Object) /\ mine' = [uid |-> Object.uid, current |-> TRUE, edits |-> edits]
    /\ target' = Object.uid
    /\ UNCHANGED <<objectVars, waitVars, seen, result, held>>

\* The object as it is now gets the edit, and keeps the caller's version.
PatchGet ==
    /\ pc = "patchGet"
    /\ IF Exists(Object)
       THEN mine' = [mine EXCEPT !.edits = edits \cup {Mine}] /\ pc' = "patchUpdate"
       ELSE UNCHANGED mine /\ pc' = "patchCreate"
    /\ UNCHANGED <<objectVars, call, waitVars, seen, result, historyVars>>

\* Create refuses a name that is taken, and an object that carries a version.
PatchCreate ==
    /\ pc = "patchCreate"
    /\ \/ /\ mine.uid = 0 /\ Submitted
          /\ edits' = {Mine}
          /\ Returns("none", life'[Task])
       \/ /\ Exists(Object) \/ mine.uid # 0
          /\ Returns("refused", Object)
          /\ UNCHANGED <<life, created, edits>>
    /\ UNCHANGED <<kind, call, waitVars, mine, seen, historyVars>>

Written(copy) ==
    /\ edits' = copy
    /\ UNCHANGED <<kind, life, created>>

\* Fault: the object read is written without a version.
PatchUpdateUnversioned ==
    /\ pc = "patchUpdate"
    /\ IF Exists(Object)
       THEN Returns("none", Object) /\ Written(mine.edits)
       ELSE Returns("refused", Object) /\ UNCHANGED objectVars
    /\ UNCHANGED <<call, waitVars, mine, seen, historyVars>>

\* Update accepts the version of the caller's copy if it is the server's.
PatchUpdate ==
    /\ pc = "patchUpdate"
    /\ IF mine.current
       THEN Returns("none", Object) /\ Written(mine.edits)
       ELSE Returns("refused", Object) /\ UNCHANGED objectVars
    /\ UNCHANGED <<call, waitVars, mine, seen, historyVars>>

\* UpdateWithRetry reads the task, and again after a conflict.
CallUpdateWithRetry ==
    /\ pc = "idle"
    /\ call' = "updateWithRetry" /\ pc' = "retryGet"
    /\ target' = Object.uid
    /\ UNCHANGED <<objectVars, waitVars, mine, seen, result, held>>

RetryGet ==
    /\ pc = "retryGet"
    /\ IF Exists(Object)
       THEN /\ mine' = [uid |-> Object.uid, current |-> TRUE, edits |-> edits \cup {Mine}]
            /\ pc' = "modify"
            /\ UNCHANGED result
       ELSE Returns("notFound", Object) /\ UNCHANGED mine
    /\ UNCHANGED <<objectVars, call, waitVars, seen, historyVars>>

\* It calls the caller's function and writes nothing itself: the edit reaches
\* the server only if the function calls Update.
Modify ==
    /\ pc = "modify"
    /\ \/ Returns("none", Object) /\ UNCHANGED objectVars
       \/ mine.current /\ Returns("none", Object) /\ Written(mine.edits)
       \/ /\ ~mine.current
          /\ pc' = "retryGet" \/ pc' = "done"
          /\ result' = [result EXCEPT !.err = IF pc' = "done" THEN "refused" ELSE @]
          /\ UNCHANGED objectVars
    /\ UNCHANGED <<call, waitVars, mine, seen, historyVars>>

-----------------------------------------------------------------------------

Calls ==
    \/ CallWaitForRunning \/ CallWaitForCompleted \/ CallWaitForDeletion
    \/ CallCreateOrPatch \/ CallUpdateWithRetry

ClientStep ==
    \/ Poll \/ Look \/ Answer \/ Deadline \/ LastGet
    \/ ReadFails \/ PatchGet \/ PatchCreate \/ PatchUpdate \/ RetryGet \/ Modify

Next == Calls \/ ClientStep \/ Tick \/ OthersAct \/ OthersEdit

Spec == Init /\ [][Next]_vars

\* The client's goroutine runs, the server answers, and time passes.
Fairness == WF_vars(ClientStep) /\ WF_vars(Tick)

FairSpec == Spec /\ Fairness

-----------------------------------------------------------------------------
(* Correctness.                                                            *)

\* A wait that times out had not been able to see what it waited for: it had
\* not held for a whole interval, or for longer than the last request took
\* (wait.go:56-78).  For a timeout within an interval that promises nothing.
TimesOutOnlyUnseen ==
    pc = "done" /\ result.err = "timeout" => held <= opt.interval \/ held <= Latency

\* A task returned without an error is the one the wait saw, at that point of
\* its life or a later one, or a later object (devtask.go:161, :177).
Later(p, q) == p = q \/ (p \notin Terminal /\ q # "")

AnswersAreNoOlder ==
    pc = "done" /\ call \in {"running", "completed"} /\ result.err = "none" =>
        /\ result.object.uid >= seen.uid
        /\ result.object.uid = seen.uid =>
              /\ Later(seen.phase, result.object.phase)
              /\ seen.del => result.object.del

\* Once WaitForDeletion has returned nil, the object that was there when it was
\* called is gone for good, though another may have its name (devtask.go:180).
DeletedIsGone ==
    pc = "done" /\ call = "deletion" /\ result.err = "none" =>
        target = 0 \/ Object.uid # target

\* No client's edit is lost: a write keeps what others wrote to the object
\* since the writer's copy was read (devtask.go:99-112, :193-201).
NoLostEdit == [][life'[Task].uid = Object.uid => edits \subseteq edits']_vars

\* Every wait comes to an end, also of a task that fails, is deleted, or is
\* never picked up.
WaitsEnd == Waiting ~> pc = "done"
=============================================================================
