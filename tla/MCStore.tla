------------------------------ MODULE MCStore ------------------------------
(* Small instances of Store. *)
EXTENDS Store

CONSTANTS g1, g2, r1, r2, hostA, hostB

Listener(protocol, from, hosts) ==
    [ready |-> TRUE, valid |-> TRUE, protocol |-> protocol, from |-> from, hosts |-> hosts]

GatewayValue(version, listeners) == [version |-> version, listeners |-> listeners]

RouteValue(version, protocol, refs, resolved, hosts) ==
    [version |-> version, protocol |-> protocol, refs |-> refs,
     resolved |-> resolved, hosts |-> hosts]

Ref(g, section) == [gateway |-> g, section |-> section]

MCSameNamespace == Gateways \X {r1}
MCHostMatches == {<<hostA, hostA>>, <<hostB, hostB>>}

\* An HTTP listener and a TCP listener with a namespace selector; in a later
\* version the HTTP listener has a hostname and the TCP listener a conflict.
MCGatewayValues ==
    { GatewayValue(1, <<Listener("HTTP", "Same", {}), Listener("TCP", "Selector", {})>>),
      GatewayValue(2, <<Listener("HTTP", "All", {hostA}),
                        [Listener("TCP", "All", {}) EXCEPT !.ready = FALSE, !.valid = FALSE]>>) }

\* An HTTP route that comes to refer to both gateways, one whose backends cannot
\* be resolved, and a TCP route.
MCRouteValues ==
    { RouteValue(1, "HTTP", <<Ref(g1, 0)>>, TRUE, {hostA}),
      RouteValue(1, "HTTP", <<Ref(g1, 0)>>, FALSE, {hostA}),
      RouteValue(2, "HTTP", <<Ref(g1, 1), Ref(g2, 0)>>, TRUE, {hostB}),
      RouteValue(1, "TCP", <<Ref(g1, 2)>>, TRUE, {}) }

\* Two HTTP listeners and a route that names both, or listeners of two gateways.
MCTwoHTTP == {GatewayValue(1, <<Listener("HTTP", "All", {}), Listener("HTTP", "All", {})>>)}
MCTwoRefs == {RouteValue(1, "HTTP", <<Ref(g1, 1), Ref(g1, 2)>>, TRUE, {})}

\* One reference to one gateway, whose listener changes its hostname.
MCOneRef == {RouteValue(1, "HTTP", <<Ref(g1, 0)>>, TRUE, {hostB})}
=============================================================================
