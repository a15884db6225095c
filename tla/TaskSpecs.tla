------------------------------ MODULE TaskSpecs ------------------------------
(***************************************************************************)
(* A task's spec as the builders of the SDK put it together, call by call, *)
(* and what the controllers take out of it.  A spec is a function from the *)
(* chosen tools to the settings each holds; "task" stands for the part of  *)
(* the spec that belongs to no tool.  A setting is the name of what a call *)
(* writes and a controller uses, or passes over, as one: that it was asked *)
(* for is what counts, not its value, except for routing and ports.        *)
(***************************************************************************)
EXTENDS Integers, Sequences, FiniteSetsExt

CONSTANTS
    EnvPort,   \* the ports that KAI_DEFAULT_<FRAMEWORK>_PORT set: framework -> port
    Unset      \* a nil pointer of the spec

ASSUME EnvPortAssumption == \A f \in DOMAIN EnvPort : EnvPort[f] \in Int

(* The tools of each kind, in the order in which the code asks for them:   *)
(* the first one chosen gives the task its framework.                      *)
DevTools == <<"codeserver", "jupyter", "novnc">>
InferenceTools == <<"vllm", "llama.cpp", "tgi">>
EvalTools == <<"opencompass", "lm-eval">>
FineTuneTools == <<"lora", "llamafactory">>
TrainTools == <<"pytorch", "tensorflow">>

ToolOrder == [dev |-> DevTools, inference |-> InferenceTools, eval |-> EvalTools,
              finetune |-> FineTuneTools, train |-> TrainTools]

ToolsOf(kind) == {ToolOrder[kind][i] : i \in DOMAIN ToolOrder[kind]}

NoTool == ""

(* The first of a sequence that is in a set, or NoTool *)
FirstOf(order, S) ==
    LET found == {i \in DOMAIN order : order[i] \in S}
    IN  IF found = {} THEN NoTool ELSE order[Min(found)]

-----------------------------------------------------------------------------
(* The SDK's builders *)

(* What choosing a tool puts into its spec.  The model of an InferenceTask *)
(* is a path or, as hf://..., one of the hub's.                            *)
DevPresets == {{"image"}}
InferencePresets == {{"image", "model"}, {"image", "hubModel"}}
EvalPresets == {{"image"}}
FineTunePresets == {{"image", "model"}}
TrainPresets == {{"image", "script"}}

Presets == [dev |-> DevPresets, inference |-> InferencePresets, eval |-> EvalPresets,
            finetune |-> FineTunePresets, train |-> TrainPresets]

On(tools, settings) == tools \X settings
Resources == On({"task"}, {"cpu", "memory", "gpu"})
Volume == On({"task"}, {"volume"})
TTL == On({"task"}, {"ttl"})

(* The other calls: the settings each writes, on those of the named tools  *)
(* that have been chosen by then                                           *)
DevCalls ==
    [resources |-> Resources, volume |-> Volume, ttl |-> TTL,
     dataSource |-> On({"task"}, {"dataSource"}),
     env |-> On({"codeserver", "jupyter", "novnc"}, {"env"}),
     routing |-> On({"codeserver", "jupyter", "novnc"}, {"routing", "gatewayPort"})]

InferenceCalls ==
    [resources |-> Resources, volume |-> Volume, ttl |-> TTL,
     gpuCount |-> On({"vllm"}, {"gpuCount"}),
     gpuMemoryUtilization |-> On({"vllm"}, {"gpuMemoryUtilization"}),
     env |-> On({"vllm", "llama.cpp", "tgi"}, {"env"}),
     autoScaling |-> On({"vllm", "tgi"}, {"minReplicas", "maxReplicas"}),
     routing |-> On({"vllm", "llama.cpp", "tgi"}, {"routing", "hosts", "gatewayPort"})]

(* OpenCompass takes several models and several datasets; WithDatasets     *)
(* writes all its datasets at once, WithModel adds a model.                *)
EvalCalls ==
    [resources |-> Resources, volume |-> Volume, ttl |-> TTL,
     model |-> On({"opencompass", "lm-eval"}, {"model"}),
     datasets |-> On({"opencompass"}, {"dataset", "furtherDatasets"})
                     \cup On({"lm-eval"}, {"datasets"})]

FurtherModel == On({"opencompass"}, {"furtherModels"}) \cup On({"lm-eval"}, {"model"})

FineTuneCalls ==
    LET both == {"lora", "llamafactory"}
    IN  [resources |-> Resources, volume |-> Volume, ttl |-> TTL,
         trainData |-> On(both, {"trainData"}), validData |-> On(both, {"validData"}),
         outputDir |-> On(both, {"outputDir"}), epochs |-> On(both, {"epochs"}),
         batchSize |-> On(both, {"batchSize"}), learningRate |-> On(both, {"learningRate"})]

TrainCalls ==
    LET both == {"pytorch", "tensorflow"}
    IN  [resources |-> Resources, volume |-> Volume, ttl |-> TTL,
         env |-> On(both, {"env"}), hyperparameters |-> On(both, {"hyperparameters"}),
         batchSize |-> On(both, {"batchSize"}), learningRate |-> On(both, {"learningRate"}),
         maxEpochs |-> On({"pytorch"}, {"maxEpochs"}),
         maxSteps |-> On({"tensorflow"}, {"maxSteps"}),
         worldSize |-> On({"pytorch"}, {"worldSize", "nprocPerNode"})]

BuilderCalls == [dev |-> DevCalls, inference |-> InferenceCalls, eval |-> EvalCalls,
                 finetune |-> FineTuneCalls, train |-> TrainCalls]

(* NewDevTask and its like: no tool, no setting *)
NewTask(kind) == [kind |-> kind, held |-> [t \in {"task"} |-> {}]]

ChosenIn(task) == DOMAIN task.held \ {"task"}
Framework(task) == FirstOf(ToolOrder[task.kind], ChosenIn(task))

\* Fault: choosing a tool again keeps the settings it had.
ChooseKeeping(task, t, preset) ==
    LET before == IF t \in DOMAIN task.held THEN task.held[t] ELSE {}
    IN  [task EXCEPT !.held = [u \in DOMAIN @ \cup {t} |->
                                  IF u = t THEN before \cup preset ELSE @[u]]]

(* Choosing a tool writes a whole new spec for it.  An InferenceTask has   *)
(* one model, which the last tool chosen leaves behind for all of them.    *)
Choose(task, t, preset) ==
    LET lost == IF task.kind = "inference" THEN {"model", "hubModel"} ELSE {}
    IN  [task EXCEPT !.held = [u \in DOMAIN @ \cup {t} |->
                                  IF u = t THEN preset ELSE @[u] \ lost]]

Holds(task, t, s) == t \in DOMAIN task.held /\ s \in task.held[t]

Writes(task, call) ==
    IF task.kind = "eval" /\ call = "model" /\ Holds(task, "opencompass", "model")
    THEN FurtherModel
    ELSE BuilderCalls[task.kind][call]

Ask(task, call) ==
    [task EXCEPT !.held =
        [t \in DOMAIN @ |-> @[t] \cup {p[2] : p \in {q \in Writes(task, call) : q[1] = t}}]]

-----------------------------------------------------------------------------
(* What the controllers use of a spec, as pairs <<tool, setting>> *)

HeldOf(task, pairs) == {p \in pairs : Holds(task, p[1], p[2])}

(* The types of volume that become a volume source, and the one the SDK's  *)
(* WithVolume writes                                                       *)
VolumeTypes == {"emptyDir", "persistentVolumeClaim", "configMap", "secret"}
WithVolumeType == "PersistentVolumeClaim"
Volumes(task) ==
    HeldOf(task, IF WithVolumeType \in VolumeTypes THEN Volume ELSE {})

(* The first tool that has routing settings lends them to the task.  A     *)
(* DevTask uses all but the gateway's port, an InferenceTask no hosts.     *)
RoutingTool(task) ==
    FirstOf(ToolOrder[task.kind], {t \in ChosenIn(task) : "routing" \in task.held[t]})

(* The container of a DevTask: the image of the framework's tool, and the  *)
(* environment of code-server and of Jupyter.  No resources are set, a     *)
(* data source is an empty directory whatever its URI, and the environment *)
(* of noVNC is not copied.                                                 *)
DevImage(task) == HeldOf(task, {<<Framework(task), "image">>})
DevEnv(task) == HeldOf(task, On({"codeserver", "jupyter"}, {"env"}))
DevUsed(task) ==
    DevImage(task) \cup DevEnv(task) \cup Volumes(task)
        \cup HeldOf(task, TTL \cup {<<RoutingTool(task), "routing">>})

(* An InferenceTask's image is looked for in another order than its        *)
(* framework; it has the fewest replicas it may have, and with two tools   *)
(* that scale TGI has the last word.                                       *)
InferenceImage(task) ==
    HeldOf(task, {<<FirstOf(<<"vllm", "tgi", "llama.cpp">>, ChosenIn(task)), "image">>})
Replicas(task) ==
    IF Holds(task, "tgi", "minReplicas") THEN {<<"tgi", "minReplicas">>}
    ELSE HeldOf(task, {<<"vllm", "minReplicas">>})
InferenceArgs(task) ==
    HeldOf(task, On(ToolsOf("inference"), {"model", "env"})
                   \cup On({"vllm", "tgi"}, {"hubModel"})
                   \cup On({"vllm"}, {"gpuCount", "gpuMemoryUtilization"}))
InferenceUsed(task) ==
    InferenceImage(task) \cup Replicas(task) \cup InferenceArgs(task) \cup Volumes(task)
        \cup HeldOf(task, Resources \cup TTL \cup {<<RoutingTool(task), "routing">>})

(* An EvalTask's Job runs OpenCompass's own image, whatever was chosen, on *)
(* the first of its models and the first of its datasets.                  *)
EvalUsed(task) == HeldOf(task, On({"opencompass"}, {"model", "dataset"}))

(* A FineTuneTask's Job runs LLaMA-Factory whatever was chosen; the        *)
(* validation data only sets a format, and a GPU replaces the CPU.         *)
FineTuneArgs(task) ==
    HeldOf(task, On({"llamafactory"},
        {"model", "trainData", "outputDir", "epochs", "batchSize", "learningRate"}))
FineTuneUsed(task) ==
    FineTuneArgs(task)
        \cup (IF Holds(task, "task", "gpu") THEN {<<"task", "gpu">>}
              ELSE HeldOf(task, {<<"task", "cpu">>}))

(* The TrainTask controller looks at nothing *)
TrainUsed(task) == {}

Used(task) ==
    CASE task.kind = "dev" -> DevUsed(task)
      [] task.kind = "inference" -> InferenceUsed(task)
      [] task.kind = "eval" -> EvalUsed(task)
      [] task.kind = "finetune" -> FineTuneUsed(task)
      [] task.kind = "train" -> TrainUsed(task)

-----------------------------------------------------------------------------
(* Ports *)

(* What WithCodeServer and its like write.  The specs of inference tools   *)
(* have a port of their own that hides the one their builders set.         *)
BuilderPort ==
    [t \in ToolsOf("dev") \cup ToolsOf("inference") |->
        CASE t = "codeserver" -> 8080
          [] t = "jupyter" -> 8888
          [] t = "novnc" -> 6080
          [] OTHER -> 0]

DefaultPort ==
    [t \in ToolsOf("dev") \cup ToolsOf("inference") |->
        CASE t = "codeserver" -> 8443
          [] t = "jupyter" -> 8888
          [] t = "novnc" -> 6081
          [] t = "vllm" -> 8000
          [] t \in {"tgi", "llama.cpp"} -> 8080]

(* The environment is read once, over the defaults *)
FrameworkPort(f) == IF f \in DOMAIN EnvPort THEN EnvPort[f] ELSE DefaultPort[f]
=============================================================================
