------------------------------ MODULE MCRoutes ------------------------------
(* HTTP and TCP routes over a Service in another namespace, which Consul has  *)
(* on one node or under two names, over MeshServices, and over backends that  *)
(* cannot be.                                                                 *)
EXTENDS Routes

Backend(kind, namespace, name) ==
    [kind |-> kind, namespace |-> namespace, name |-> name, port |-> TRUE]

Away == Backend("Service", "away", "a")
Mesh == Backend("MeshService", Home, "m")
Peered == Backend("MeshService", Home, "p")
Portless == [Away EXCEPT !.port = FALSE]
Unknown == Backend("Other", Home, "u")

MCSpecs ==
    {[kind |-> "HTTPRoute", rules |-> <<<<Away>>, <<Mesh>>>>],
     [kind |-> "HTTPRoute", rules |-> <<<<Away>>>>],
     [kind |-> "TCPRoute", rules |-> <<<<Peered>>>>],
     [kind |-> "HTTPRoute", rules |-> <<<<Portless, Unknown>>>>],
     [kind |-> "TCPRoute", rules |-> <<<<Mesh>>, <<Peered>>>>]}

Grant(from) ==
    [namespace |-> "away", from |-> {[kind |-> "HTTPRoute", namespace |-> from]},
     to |-> {[kind |-> "Service", name |-> ""]}]

MCGrantSets == {{Grant(Home)}, {Grant("other")}}

MCServices == {Key(Away)}

Instance(node, namespace, service, of) ==
    [namespace |-> namespace, node |-> node, service |-> service, of |-> of]

MCCatalogs ==
    {{Instance("n1", "", "b", Key(Away)), Instance("n1", "", "a", Key(Away))},
     {Instance("n2", "ns", "m", Key(Mesh)), Instance("n2", "ns", "a", Key(Away))}}

MeshService(name, peer) == [namespace |-> Home, name |-> name, service |-> "m", peer |-> peer]

MCMeshSets == {{MeshService("m", ""), MeshService("p", "peer")}, {}}

MCPeerings == {[namespace |-> "ns", peer |-> "peer", imported |-> {"m"}]}

MCNodes == <<"n1", "n2">>
MCConsulNamespaces == <<"", "ns">>
MCmapper(namespace) == "ns"
=============================================================================
