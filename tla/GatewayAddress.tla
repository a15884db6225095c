---------------------------- MODULE GatewayAddress ----------------------------
(***************************************************************************)
(* Where the two controllers that expose a task believe the cluster's      *)
(* gateway is, and the URL they make of it.  A cluster is a record of what *)
(* they look at:                                                           *)
(*   gateways  the Gateways by name, each an address (or NoHost) and the   *)
(*             sequence of its listeners [protocol, port]                  *)
(*   ports     the ports [port, nodePort, tcp] of the Service "traefik",   *)
(*             in order: none when there is no such Service                *)
(*   ingress   the address of its load balancer, or NoHost                 *)
(*   own       the address the operator finds for its own machine          *)
(* The namespace of the gateway is the same for all of them.               *)
(***************************************************************************)
EXTENDS TaskSpecs

CONSTANTS NoHost, NoURL

Gateway(cluster, name) ==
    IF name \in DOMAIN cluster.gateways THEN cluster.gateways[name]
    ELSE [address |-> NoHost, listeners |-> <<>>]

GatewayHost(cluster, name) == Gateway(cluster, name).address

(* The first port of a sequence of ports that passes a test, or 0 *)
FirstPort(ports, Test(_), Port(_)) ==
    LET found == {i \in DOMAIN ports : Test(ports[i])}
    IN  IF found = {} THEN 0 ELSE Port(ports[Min(found)])

ListenerPort(cluster, name) ==
    FirstPort(Gateway(cluster, name).listeners,
              LAMBDA l : l.protocol = "HTTP", LAMBDA l : l.port)

NodePort(cluster) ==
    FirstPort(cluster.ports, LAMBDA p : p.nodePort # 0, LAMBDA p : p.nodePort)

-----------------------------------------------------------------------------
(* DevTask *)

TraefikPort(cluster) ==
    LET node == FirstPort(cluster.ports, LAMBDA p : p.tcp /\ p.nodePort # 0,
                                         LAMBDA p : p.nodePort)
    IN  IF node # 0 THEN node
        ELSE FirstPort(cluster.ports, LAMBDA p : p.tcp, LAMBDA p : p.port)

(* GetColimaHostIP never fails: it falls back on the operator's own address *)
OrOwn(cluster, host) == IF host # NoHost THEN host ELSE cluster.own

Fallback(cluster) ==
    IF TraefikPort(cluster) = 0 THEN [host |-> cluster.own, port |-> 80]
    ELSE [host |-> OrOwn(cluster, cluster.ingress), port |-> TraefikPort(cluster)]

DevAddress(cluster, name) ==
    IF NodePort(cluster) > 0
    THEN [host |-> OrOwn(cluster, GatewayHost(cluster, name)), port |-> NodePort(cluster)]
    ELSE IF GatewayHost(cluster, name) # NoHost /\ ListenerPort(cluster, name) # 0
    THEN [host |-> GatewayHost(cluster, name), port |-> ListenerPort(cluster, name)]
    ELSE Fallback(cluster)

(* A URL; port 0 means that it names none *)
URL(scheme, host, port, path) ==
    [scheme |-> scheme, host |-> host, port |-> port, path |-> path]

Scheme(port) == IF port = 443 THEN "https" ELSE "http"

(* Routing settings r, or Unset.  Hostnames come first, then an external   *)
(* host, then the gateway; the last is always plain HTTP.                  *)
DevURL(cluster, r, gateway, path) ==
    IF r # Unset /\ r.hostnames # <<>>
    THEN URL(Scheme(r.externalPort), Head(r.hostnames),
             IF r.externalPort = 80 THEN 0 ELSE r.externalPort, path)
    ELSE IF r # Unset /\ r.externalHost # NoHost
    THEN URL(Scheme(r.externalPort), r.externalHost,
             IF r.externalPort \in {80, 443} THEN 0 ELSE r.externalPort, path)
    ELSE LET at == DevAddress(cluster, gateway)
         IN  URL("http", at.host, IF at.port = 80 THEN 0 ELSE at.port, path)

-----------------------------------------------------------------------------
(* InferenceTask *)

InferenceAddress(cluster, name) ==
    LET web == FirstPort(cluster.ports, LAMBDA p : p.port \in {80, 443}, LAMBDA p : p.port)
        port == CASE NodePort(cluster) > 0 -> NodePort(cluster)
                  [] NodePort(cluster) = 0 /\ ListenerPort(cluster, name) # 0 ->
                         ListenerPort(cluster, name)
                  [] OTHER -> IF web # 0 THEN web ELSE 80
    IN  [host |-> OrOwn(cluster, GatewayHost(cluster, name)), port |-> port]

InferenceURL(cluster, gateway, path) ==
    LET at == InferenceAddress(cluster, gateway)
    IN  URL(Scheme(at.port), at.host, IF at.port \in {80, 443} THEN 0 ELSE at.port, path)
=============================================================================
