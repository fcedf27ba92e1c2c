-------------------------- MODULE MCGatewayStatus ---------------------------
(* Gateways of two listeners: plain ones, ones that need a grant, conflicts, *)
(* and listeners that are refused for each of the reasons there are.         *)
EXTENDS GatewayStatus

Local == [kind |-> "Secret", namespace |-> Home, name |-> "a"]
Remote == [kind |-> "Secret", namespace |-> "away", name |-> "b"]
Foreign == [kind |-> "Other", namespace |-> Home, name |-> "a"]

Plain(port, protocol, hostname) ==
    [port |-> port, protocol |-> protocol, hostname |-> hostname, kinds |-> {}, tls |-> NoTLS]

Cert(ref) == [ref |-> ref, mode |-> "Terminate", min |-> "", max |-> "", ciphers |-> {}]

Encrypted(port, tls) ==
    [port |-> port, protocol |-> "HTTPS", hostname |-> "", kinds |-> {}, tls |-> tls]

Gateway(a, b) == [listeners |-> <<a, b>>, addresses |-> FALSE]

\* Gateways that users edit into each other.
MCSpecs ==
    {Gateway(Plain(80, "TCP", ""), Encrypted(443, Cert(Remote))),
     Gateway(Plain(443, "HTTP", ""), Encrypted(443, Cert(Local)))}

Grant(from, to) ==
    [namespace |-> "away", from |-> {[kind |-> k, namespace |-> Home] : k \in from},
     to |-> {[kind |-> "Secret", name |-> n] : n \in to}]

MCGrantSets == {{Grant({"Gateway"}, {"b"})}, {Grant({"Gateway"}, {"c"}), Grant({"HTTPRoute"}, {""})}}

Pod(phase, ready) ==
    [phase |-> phase, ready |-> ready, unschedulable |-> FALSE, podIP |-> "p", hostIP |-> "h"]

MCPodSets == {{Pod("Running", TRUE)}, {Pod("Pending", FALSE)}}

MCSecrets == {Local, Remote}
=============================================================================
