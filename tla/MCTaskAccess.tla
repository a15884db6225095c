----------------------------- MODULE MCTaskAccess -----------------------------
EXTENDS TaskAccess

Plain == [enabled |-> TRUE, pathPrefix |-> "", gatewayName |-> "", hostnames |-> <<>>,
          externalHost |-> NoHost, externalPort |-> 0]

(* No route; a path and a Gateway of its own; hostnames; an external host *)
SomeRoutings ==
    {[Plain EXCEPT !.enabled = FALSE],
     [Plain EXCEPT !.pathPrefix = "/team", !.gatewayName = "edge"],
     [Plain EXCEPT !.hostnames = <<"a.example", "b.example">>, !.externalPort = 443],
     [Plain EXCEPT !.externalHost = "c.example", !.externalPort = 8443]}

NoGateways == [g \in {} |-> Unset]
HTTPGateway(names) ==
    [g \in names |-> [address |-> "10.0.0.1",
                      listeners |-> <<[protocol |-> "HTTPS", port |-> 8443],
                                      [protocol |-> "HTTP", port |-> 8000]>>]]
HTTPSGateway(names) ==
    [g \in names |-> [address |-> "10.0.0.3",
                      listeners |-> <<[protocol |-> "HTTPS", port |-> 8443]>>]]
Web(node) == <<[port |-> 80, nodePort |-> node, tcp |-> TRUE],
               [port |-> 443, nodePort |-> 0, tcp |-> TRUE]>>

(* Nothing installed; a Gateway with an address; node ports; a load        *)
(* balancer, whose Gateways have no address yet but for one that listens   *)
(* for HTTPS only; node ports of which the first is not of TCP             *)
SomeClusters ==
    {[gateways |-> NoGateways, ports |-> <<>>, ingress |-> NoHost, own |-> "127.0.0.1"],
     [gateways |-> HTTPGateway({"traefik", "traefik-gateway", "edge"}), ports |-> Web(0),
      ingress |-> NoHost, own |-> "127.0.0.1"],
     [gateways |-> NoGateways, ports |-> Web(30080), ingress |-> NoHost, own |-> "127.0.0.1"],
     [gateways |-> HTTPSGateway({"edge"}), ports |-> Web(0),
      ingress |-> "10.0.0.2", own |-> "127.0.0.1"],
     [gateways |-> NoGateways,
      ports |-> <<[port |-> 443, nodePort |-> 30443, tcp |-> FALSE]>> \o Web(30080),
      ingress |-> NoHost, own |-> "127.0.0.1"]}

TGIPort == [tgi |-> 9000]
=============================================================================
