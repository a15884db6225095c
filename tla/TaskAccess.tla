------------------------------ MODULE TaskAccess ------------------------------
(***************************************************************************)
(* From the SDK's builder calls to the URL a user opens.  A client builds  *)
(* a task and submits it; a DevTask or an InferenceTask is then exposed by *)
(* its controller through a Deployment, a Service and an HTTPRoute, each   *)
(* made once, under a name that holds the framework, from the spec of that *)
(* moment.  Meanwhile users edit the spec and the gateway changes.         *)
(*                                                                         *)
(* A handler is one step here and reads what is stored, though a Create of *)
(* its may be refused: how its calls interleave with users, crashes and a  *)
(* stale cache, and what deleting a task leaves of it, is the matter of    *)
(* DevTask and InferenceTask, which leave the contents of objects out.     *)
(***************************************************************************)
EXTENDS GatewayAddress, FiniteSets

CONSTANTS
    Routings,      \* the routing settings users may write
    EditedPorts,   \* the ports users may write into a tool's spec
    Clusters,      \* the states the gateway may be in
    MaxCalls,      \* bound: builder calls, the submission not counted
    MaxChanges     \* bound: edits of the submitted task, cluster changes, refusals

ASSUME RoutingsAssumption ==
    Routings \subseteq
        [enabled : BOOLEAN, pathPrefix : STRING, gatewayName : STRING, hostnames : Seq(STRING),
         externalHost : STRING \cup {NoHost}, externalPort : Int]
ASSUME EditedPortsAssumption == EditedPorts \subseteq Int
ASSUME ClustersAssumption ==
    \A c \in Clusters : c.ports \in Seq([port : Nat \ {0}, nodePort : Nat, tcp : BOOLEAN])

VARIABLES
    task,          \* the task under construction in the SDK
    calls,         \* history: the builder calls made so far
    spec,          \* the submitted spec: a function from tools, or Unset
    phase,         \* of the submitted task; "none" before
    deployments,   \* framework -> Unset or [port, base]
    services,      \* framework -> 0 or the port
    routes,        \* framework -> Unset or [path, hosts, gateway, port, rewrite]
    url,           \* status.externalURL
    cluster,       \* what there is to see of the gateway
    changes,       \* counts edits, cluster changes and refusals
    outdated,      \* history: frameworks edited after their objects were made
    refused,       \* history: frameworks of which a Create was refused, and not retried
    current        \* history: nothing changed since the URL was computed

accessVars == <<task, calls, spec, phase, deployments, services, routes, url,
                cluster, changes, outdated, refused, current>>
built == <<task, calls>>
objects == <<deployments, services, routes>>
Changes == <<cluster, changes, outdated, refused>>

Frameworks == ToolsOf("dev") \cup ToolsOf("inference")

(* What Deployments and routes may hold; Unset is none of them *)
Paths == [of : Frameworks \cup {NoTool}, prefix : {"", "/"} \cup {r.pathPrefix : r \in Routings}]
Hosts == UNION {{r.hostnames[i] : i \in DOMAIN r.hostnames} : r \in Routings}
Gateways == {"traefik-gateway", "traefik"} \cup {r.gatewayName : r \in Routings}
Workloads == [port : Int, base : Paths]
HTTPRoutes ==
    [path : Paths, hosts : SUBSET Hosts, gateway : Gateways, port : Int, rewrite : BOOLEAN]

ASSUME UnsetAssumption == Unset \notin Workloads \cup HTTPRoutes

AccessInit ==
    /\ \E k \in DOMAIN ToolOrder : task = NewTask(k)
    /\ calls = <<>>
    /\ spec = Unset
    /\ phase = "none"
    /\ deployments = [f \in Frameworks |-> Unset]
    /\ services = [f \in Frameworks |-> 0]
    /\ routes = [f \in Frameworks |-> Unset]
    /\ url = NoURL
    /\ cluster \in Clusters
    /\ changes = 0
    /\ outdated = {}
    /\ refused = {}
    /\ current = TRUE

-----------------------------------------------------------------------------
(* The client.  Routing settings differ in value: they are given when the  *)
(* task is submitted, to every tool whose spec holds "routing".            *)

Building == phase = "none" /\ Len(calls) < MaxCalls

ChooseTool(t, preset) ==
    /\ Building
    /\ task' = Choose(task, t, preset)
    /\ calls' = Append(calls, [tool |-> t, writes |-> On({t}, preset)])
    /\ UNCHANGED <<spec, phase, objects, url, current, Changes>>

Call(c) ==
    /\ Building
    /\ task' = Ask(task, c)
    /\ calls' = Append(calls, [tool |-> "task", writes |-> Writes(task, c)])
    /\ UNCHANGED <<spec, phase, objects, url, current, Changes>>

(* What of a spec its exposure depends on *)
Exposed(r) ==
    [t \in ChosenIn(task) |->
        [port |-> BuilderPort[t],
         routing |-> IF "routing" \in task.held[t] THEN r ELSE Unset]]

Submit(r) ==
    /\ phase = "none"
    /\ task.kind \in {"dev", "inference"}
    /\ ChosenIn(task) # {}
    /\ r = Unset <=> RoutingTool(task) = NoTool
    /\ spec' = Exposed(r)
    /\ phase' = "creating"
    /\ task' = NewTask(task.kind)
    /\ calls' = <<>>
    /\ UNCHANGED <<objects, url, current, Changes>>

-----------------------------------------------------------------------------
(* What the controllers read off the spec *)

taskKind == task.kind
Chosen == DOMAIN spec

FrameworkNow == FirstOf(ToolOrder[taskKind], Chosen)

(* The framework's tool says whether there is routing; the first tool that *)
(* has settings says which.                                                *)
NeedsRouting == spec[FrameworkNow].routing = Unset \/ spec[FrameworkNow].routing.enabled

RoutingConfig ==
    LET t == FirstOf(ToolOrder[taskKind], {u \in Chosen : spec[u].routing # Unset})
    IN  IF t = NoTool THEN Unset ELSE spec[t].routing

DefaultPath(f) == [of |-> f, prefix |-> ""]
Root == [of |-> NoTool, prefix |-> "/"]

RoutePath ==
    IF RoutingConfig # Unset /\ RoutingConfig.pathPrefix # ""
    THEN [of |-> NoTool, prefix |-> RoutingConfig.pathPrefix]
    ELSE DefaultPath(FrameworkNow)

GatewayName ==
    IF RoutingConfig # Unset /\ RoutingConfig.gatewayName # "" THEN RoutingConfig.gatewayName
    ELSE IF taskKind = "dev" THEN "traefik-gateway" ELSE "traefik"

Hostnames ==
    IF taskKind = "dev" /\ RoutingConfig # Unset
    THEN {RoutingConfig.hostnames[i] : i \in DOMAIN RoutingConfig.hostnames}
    ELSE {}

DevPort ==
    IF spec[FrameworkNow].port > 0 THEN spec[FrameworkNow].port ELSE FrameworkPort(FrameworkNow)

(* The configured ports come first, in an order that is not the framework's *)
InferencePort ==
    LET order == <<"vllm", "tgi", "llama.cpp">>
        set == FirstOf(order, {t \in Chosen : spec[t].port > 0})
    IN  IF set # NoTool THEN spec[set].port ELSE FrameworkPort(FirstOf(order, Chosen))

ServicePort == IF taskKind = "dev" THEN DevPort ELSE InferencePort

(* The path below which the workload answers: Jupyter is told of one *)
Base == IF taskKind = "dev" /\ "jupyter" \in Chosen THEN DefaultPath(FrameworkNow) ELSE Root

ExternalURL ==
    IF taskKind = "dev" THEN DevURL(cluster, RoutingConfig, GatewayName, RoutePath)
    ELSE InferenceURL(cluster, GatewayName, RoutePath)

-----------------------------------------------------------------------------
(* The controllers.  Each object is made if there is none of its name, and *)
(* never brought up to date.                                               *)

BuildDeployment == [port |-> ServicePort, base |-> Base]

(* All but Jupyter's routes take the prefix off the path *)
Rewrites == taskKind = "inference" \/ FrameworkNow \in {"codeserver", "novnc"}

\* Fault: the route is made for the framework's default port.
BuildRouteToDefault ==
    [path |-> RoutePath, hosts |-> Hostnames, gateway |-> GatewayName,
     port |-> FrameworkPort(FrameworkNow), rewrite |-> Rewrites]

(* noVNC's second rule, for the same Service and port, is left out *)
BuildRoute ==
    [path |-> RoutePath, hosts |-> Hostnames, gateway |-> GatewayName, port |-> ServicePort,
     rewrite |-> Rewrites]

(* A Create that is refused makes nothing *)
EnsureDeployment ==
    deployments' = [deployments EXCEPT ![FrameworkNow] = IF @ = Unset THEN BuildDeployment ELSE @]

EnsureService(failing) ==
    services' = [services EXCEPT ![FrameworkNow] =
                    IF @ = 0 /\ "service" \notin failing THEN ServicePort ELSE @]

EnsureHTTPRoute(failing) ==
    routes' = [routes EXCEPT ![FrameworkNow] =
                  IF @ = Unset /\ NeedsRouting /\ "route" \notin failing THEN BuildRoute ELSE @]

ToCreate ==
    (IF services[FrameworkNow] = 0 THEN {"service"} ELSE {})
        \cup (IF NeedsRouting /\ routes[FrameworkNow] = Unset THEN {"route"} ELSE {})

Refusals(failing) ==
    /\ IF failing = {} THEN changes' = changes /\ refused' = refused \ {FrameworkNow}
       ELSE /\ changes < MaxChanges
            /\ changes' = changes + 1
            /\ refused' = refused \cup {FrameworkNow}
    /\ UNCHANGED <<cluster, outdated>>

(* An error of the Service or the route is logged, and the handler goes on *)
EnsureAccess ==
    \E failing \in SUBSET ToCreate :
        EnsureService(failing) /\ EnsureHTTPRoute(failing) /\ Refusals(failing)

WriteURL ==
    IF NeedsRouting THEN url' = ExternalURL /\ current' = TRUE
    ELSE UNCHANGED <<url, current>>

(* The Service is needed here, and the route is not.  An InferenceTask's   *)
(* URL is computed only when there is none.                                *)
ReconcileCreating ==
    /\ phase = "creating"
    /\ EnsureDeployment
    /\ \E failing \in SUBSET (ToCreate \ {"service"}) :
           EnsureService(failing) /\ EnsureHTTPRoute(failing) /\ Refusals(failing)
    /\ IF taskKind = "dev" \/ url = NoURL THEN WriteURL ELSE UNCHANGED <<url, current>>
    /\ phase' = "running"
    /\ UNCHANGED <<built, spec>>

(* The Deployment is made and the Service refused: the queue asks again *)
CreateHalf ==
    /\ phase = "creating" /\ "service" \in ToCreate
    /\ EnsureDeployment
    /\ Refusals({"service"})
    /\ UNCHANGED <<built, spec, phase, services, routes, url, current>>

Recreate ==
    /\ phase = "running"
    /\ deployments[FrameworkNow] = Unset
    /\ EnsureDeployment
    /\ phase' = "creating"
    /\ UNCHANGED <<built, spec, services, routes, url, current, Changes>>

\* Fault: a running task's objects are looked for only while it has no URL.
ReconcileRunningOnce ==
    /\ phase = "running"
    /\ url = NoURL
    /\ EnsureAccess
    /\ UNCHANGED <<url, current, built, spec, phase, deployments>>

(* An InferenceTask's URL is computed too, and never written *)
ReconcileRunning ==
    /\ phase = "running"
    /\ deployments[FrameworkNow] # Unset
    /\ EnsureAccess
    /\ IF taskKind = "dev" THEN WriteURL ELSE UNCHANGED <<url, current>>
    /\ UNCHANGED <<built, spec, phase, deployments>>

(* A finished DevTask still gets its Service and its route *)
ReconcileFinished ==
    /\ phase = "completed"
    /\ taskKind = "dev"
    /\ EnsureAccess
    /\ UNCHANGED <<built, spec, phase, deployments, url, current>>

Reconcile ==
    ReconcileCreating \/ CreateHalf \/ Recreate \/ ReconcileRunning \/ ReconcileFinished

-----------------------------------------------------------------------------
(* Users and the cluster *)

HasObjects(f) == deployments[f] # Unset \/ services[f] # 0 \/ routes[f] # Unset

Changed == changes < MaxChanges /\ changes' = changes + 1 /\ current' = FALSE
EditedSpec(new) ==
    /\ phase # "none"
    /\ new # spec
    /\ Changed
    /\ spec' = new
    /\ UNCHANGED <<built, phase, objects, url, cluster, refused>>

(* The tools are replaced by one, with the settings its builder gives it *)
EditTool(t) ==
    /\ EditedSpec([u \in {t} |-> [port |-> BuilderPort[u], routing |-> Unset]])
    /\ outdated' = IF HasObjects(t) THEN outdated \cup {t} ELSE outdated

EditSettings(settings) ==
    /\ EditedSpec([spec EXCEPT ![FrameworkNow] = settings])
    /\ outdated' = IF HasObjects(FrameworkNow) THEN outdated \cup {FrameworkNow} ELSE outdated

EditRouting(r) == EditSettings([spec[FrameworkNow] EXCEPT !.routing = r])
EditPort(p) == EditSettings([spec[FrameworkNow] EXCEPT !.port = p])

ClusterChanges(new) ==
    /\ phase # "none"
    /\ new # cluster
    /\ Changed
    /\ cluster' = new
    /\ UNCHANGED <<built, spec, phase, objects, url, outdated, refused>>

WorkloadEnds ==
    /\ phase = "running"
    /\ deployments[FrameworkNow] # Unset
    /\ phase' = "completed"
    /\ UNCHANGED <<built, spec, objects, url, current, Changes>>

Client ==
    \/ \E t \in ToolsOf(taskKind), p \in Presets[taskKind] : ChooseTool(t, p)
    \/ \E c \in DOMAIN BuilderCalls[taskKind] : Call(c)
    \/ \E r \in Routings \cup {Unset} : Submit(r)

Users ==
    \/ \E t \in ToolsOf(taskKind) : EditTool(t)
    \/ \E r \in Routings \cup {Unset} : EditRouting(r)
    \/ \E p \in EditedPorts : EditPort(p)

Environment ==
    \/ \E c \in Clusters : ClusterChanges(c)
    \/ WorkloadEnds

AccessNext == Client \/ Reconcile \/ Users \/ Environment

AccessSpec == AccessInit /\ [][AccessNext]_accessVars

(* The queue retries a failed handler and every 30 seconds asks for a      *)
(* running task again                                                      *)
FairAccessSpec == AccessSpec /\ WF_accessVars(Reconcile)

-----------------------------------------------------------------------------
(* Properties *)

(* Where plain HTTP gets into the cluster through a gateway: the node      *)
(* ports of Traefik, the ports of its load balancer, the HTTP listener     *)
Entrances(name) ==
    LET ports == {p \in {cluster.ports[i] : i \in DOMAIN cluster.ports} : p.tcp}
        hosts == {GatewayHost(cluster, name), cluster.ingress} \ {NoHost}
        nodes == hosts \cup {cluster.own}
        listening == {ListenerPort(cluster, name)} \ {0}
    IN  (nodes \X ({p.nodePort : p \in ports} \ {0}))
        \cup (({cluster.ingress} \ {NoHost}) \X {p.port : p \in ports})
        \cup (({GatewayHost(cluster, name)} \ {NoHost}) \X listening)

(* getTraefikNodePort takes the first node port, of whatever protocol *)
NodePortIsTCP ==
    NodePort(cluster) > 0 =>
        \E i \in DOMAIN cluster.ports :
            cluster.ports[i].tcp /\ cluster.ports[i].nodePort = NodePort(cluster)

EffectivePort(u) == IF u.port # 0 THEN u.port ELSE IF u.scheme = "https" THEN 443 ELSE 80

OneTool == Cardinality(Chosen) = 1

(* The URL in the status of a running task leads to its workload: it names *)
(* an entrance of the gateway that the route is attached to, the route     *)
(* takes its host and path to a Service of the port it names, and that to  *)
(* a container that has this port and answers below the path it is sent.   *)
(* The code promises this only                                             *)
(*  - while neither the spec nor the gateway has changed since the URL was *)
(*    computed, and the framework's settings were not edited after its     *)
(*    objects were made: these are never brought up to date;               *)
(*  - unless the last Create of its Service or route was refused, which is *)
(*    logged only: the URL is written nevertheless (devtask_phases.go:128);*)
(*  - for a task of one tool: with two, their arguments are mixed;         *)
(*  - for Jupyter, under the default path, as its base URL is built in;    *)
(*  - where plain HTTP can get in at all, by a node port that is of TCP if *)
(*    by any, and for an InferenceTask only by a node port or a Gateway    *)
(*    with an address and an HTTP listener (getGatewayAddressAndPort does  *)
(*    not ask the load balancer).                                          *)
URLIsServed ==
    phase = "running" /\ url # NoURL /\ current /\ OneTool
    /\ FrameworkNow \notin outdated \cup refused =>
        LET f == FrameworkNow
            r == routes[f]
            entrances == Entrances(r.gateway)
        IN  /\ r # Unset /\ deployments[f] # Unset
            /\ url.path = r.path
            /\ r.hosts # {} => url.host \in r.hosts
            /\ services[f] = r.port /\ deployments[f].port = r.port
            /\ \/ f = "jupyter" /\ r.path # DefaultPath(f)
               \/ deployments[f].base = IF r.rewrite THEN Root ELSE r.path
            /\ \/ taskKind = "dev" /\ RoutingConfig # Unset
                  /\ (RoutingConfig.hostnames # <<>> \/ RoutingConfig.externalHost # NoHost)
               \/ /\ taskKind = "inference" /\ NodePort(cluster) = 0
                  /\ \/ GatewayHost(cluster, r.gateway) = NoHost
                     \/ ListenerPort(cluster, r.gateway) = 0
               \/ entrances = {} \/ ~NodePortIsTCP
               \/ <<url.host, EffectivePort(url)>> \in entrances

LoraSettings ==
    {p \in UNION {FineTuneCalls[c] : c \in DOMAIN FineTuneCalls} : p[1] = "lora"}
        \cup On({"lora"}, {"image", "model"})

(* Settings that no controller looks at, though a builder call writes them *)
KnownLosses ==
    LET whole == Resources \cup Volume \cup TTL
    IN  [dev |-> (whole \ TTL) \cup {<<"task", "dataSource">>, <<"novnc", "env">>}
                        \cup On(ToolsOf("dev"), {"gatewayPort"}),
         inference |-> Volume \cup {<<"llama.cpp", "hubModel">>}
                        \cup On({"vllm", "tgi"}, {"maxReplicas"})
                        \cup On(ToolsOf("inference"), {"hosts", "gatewayPort"}),
         eval |-> whole \cup On({"opencompass"}, {"image", "furtherModels", "furtherDatasets"})
                        \cup On({"lm-eval"}, {"image", "model", "datasets"}),
         finetune |-> (whole \ {<<"task", "gpu">>})
                        \cup On({"llamafactory"}, {"image", "validData"})
                        \cup LoraSettings]

WrittenSettings == UNION {calls[i].writes : i \in DOMAIN calls}
Model == {"model", "hubModel"}

(* p was written by a call after which its tool was not chosen again, nor, *)
(* as an InferenceTask has one model, any tool when p is the model         *)
Lasting(p) ==
    \E i \in DOMAIN calls :
        /\ p \in calls[i].writes
        /\ p[1] = "task" \/ \E j \in 1..i : calls[j].tool = p[1]
        /\ \A j \in (i + 1)..Len(calls) :
               /\ p[1] # "task" => calls[j].tool # p[1]
               /\ taskKind = "inference" /\ p[2] \in Model => calls[j].tool = "task"

(* With several tools an InferenceTask mixes these up *)
MixedUp(p) ==
    taskKind = "inference" /\ Cardinality(ChosenIn(task)) > 1
    /\ p[2] \in Model \cup {"image", "minReplicas"}

(* Every setting that is written to the spec of the task's framework, or   *)
(* to the task, and not overwritten, is used by its controller, and no     *)
(* other is: whatever the order of the calls and the tools chosen on the   *)
(* way (With... of the builders, and what the controllers read of a spec). *)
(* KnownLosses are the exceptions.                                         *)
SettingsReachWorkload ==
    taskKind # "train" =>
        /\ \A p \in Used(task) : Lasting(p)
        /\ \A p \in WrittenSettings :
               Lasting(p) /\ p[1] \in {"task", Framework(task)}
               /\ p \notin KnownLosses[taskKind] /\ ~MixedUp(p) => p \in Used(task)

Live == phase \in {"creating", "running"}

InPlace ==
    /\ deployments[FrameworkNow] # Unset /\ services[FrameworkNow] # 0
    /\ NeedsRouting => /\ routes[FrameworkNow] # Unset
                       /\ taskKind = "dev" => current /\ url.path = RoutePath

(* Whatever was edited and wherever the gateway moved, a task that lives   *)
(* on has in the end the Deployment, the Service and the route of its      *)
(* present framework, and a DevTask a URL computed from the present spec   *)
(* and gateway (handleRunningPhase looks for all of them each time).  The  *)
(* changes being bounded, what is present is what the last of them leaves. *)
EditTakesEffect == []<>(Live => InPlace)
=============================================================================
