--------------------------- MODULE MCControllers ---------------------------
(* Small instances of Controllers: one gateway with one HTTP listener. *)
EXTENDS Controllers

CONSTANTS g1, r1, hostA, hostB

Listener(hosts) ==
    [ready |-> TRUE, valid |-> TRUE, protocol |-> "HTTP", from |-> "All", hosts |-> hosts]

MCSameNamespace == Gateways \X Routes
MCHostMatches == {<<hostA, hostA>>, <<hostB, hostB>>}

Versions == 1..(MaxRevision + 2)

\* A listener that admits the route, and one that does not.
MCGatewayValues ==
    {[version |-> v, annotated |-> a, listeners |-> <<Listener(hosts)>>] :
        v \in Versions, a \in BOOLEAN, hosts \in {{}, {hostB}}}

MCRouteValues ==
    {[version |-> v, protocol |-> "HTTP", refs |-> <<[gateway |-> g1, section |-> 0]>>,
      resolved |-> TRUE, hosts |-> {hostA}] : v \in Versions}
=============================================================================
