------------------------------- MODULE Binder -------------------------------
(***************************************************************************)
(* Binding a route to the listeners of a gateway:                          *)
(* internal/k8s/reconciler/binder.go, with the parts of gateway.go,        *)
(* utils.go and state/ that it uses.  Bind and Unbind walk references and  *)
(* listeners in nested loops over mutable maps; here each is given by what *)
(* the loops leave behind.                                                 *)
(*                                                                         *)
(* A gateway value is one version of a Gateway object with its validated   *)
(* state, a route value one version of a route with its resolved           *)
(* references.  The listener name that a reference gives is the listener's *)
(* position, 0 when it names none.                                         *)
(***************************************************************************)
EXTENDS Naturals, Sequences

CONSTANTS
    Gateways,           \* gateway ids
    Routes,             \* route ids
    NumListeners,       \* listeners of every gateway
    GatewayValues,      \* what a gateway may look like
    RouteValues,        \* what a route may look like
    Absent,             \* no route value
    SameNamespace,      \* pairs of a gateway and a route that share a namespace
    HostMatches         \* pairs of route and listener hostnames that match

Listeners == 1..NumListeners
Protocols == {"HTTP", "TCP"}
Hostnames == {p[1] : p \in HostMatches} \cup {p[2] : p \in HostMatches}

\* ready: Ready has no error; valid: no Conflicted, Detached or ResolvedRefs
\* error (the validator makes a listener with one not ready); protocol: HTTP
\* (and HTTPS) or TCP, which fixes the kind of routes;
\* hosts: the hostname, empty when the listener has none.
ListenerValues ==
    [ready : BOOLEAN, valid : BOOLEAN, protocol : Protocols,
     from : {"All", "Same", "Selector"}, hosts : SUBSET Hostnames]

Refs == [gateway : Gateways, section : {0} \cup Listeners]

ASSUME BinderAssumption ==
    /\ NumListeners \in Nat
    /\ Absent \notin RouteValues
    /\ \A gv \in GatewayValues :
           /\ gv.version \in Nat
           /\ gv.listeners \in [Listeners -> ListenerValues]
           /\ \A i \in Listeners : gv.listeners[i].ready => gv.listeners[i].valid
    /\ \A rv \in RouteValues :
           /\ rv.version \in Nat
           /\ rv.protocol \in Protocols
           /\ rv.refs \in Seq(Refs)
           /\ rv.resolved \in BOOLEAN
           /\ rv.hosts \in SUBSET Hostnames

\* Answers of the namespace lookup that a label selector needs.
Lookups == {"match", "mismatch", "error"}

\* The answers that matter to a gateway: a lookup is made for selectors only.
LookupsFor(gv) ==
    IF \E i \in Listeners : gv.listeners[i].from = "Selector" THEN Lookups ELSE {"match"}

----------------------------------------------------------------------------
(* canBind and the predicates it calls. *)

\* routeMatchesListenerHostname: TCP routes have no hostnames.
routeMatchesListenerHostname(listener, rv) ==
    \/ rv.protocol = "TCP"
    \/ listener.hosts = {}
    \/ rv.hosts = {}
    \/ \E a \in rv.hosts, b \in listener.hosts : <<a, b>> \in HostMatches

\* routeAllowedForListenerNamespaces
routeAllowedForListenerNamespaces(g, listener, r, lookup) ==
    CASE listener.from = "All" -> "match"
      [] listener.from = "Same" -> IF <<g, r>> \in SameNamespace THEN "match" ELSE "mismatch"
      [] OTHER -> lookup

\* What canBind leaves as the status of the reference: "bound" (and only then
\* it answers true), "failed", or "none" when it does not touch the status.  A
\* refusal is an error only for a reference that must bind to the listener.
canBind(g, gv, i, r, rv, ref, lookup) ==
    LET listener == gv.listeners[i]
        refused == IF ref.section # 0 THEN "failed" ELSE "none"
        namespaces == routeAllowedForListenerNamespaces(g, listener, r, lookup)
    IN IF ~listener.ready \/ ref.section \notin {0, i} THEN "none"
       ELSE IF rv.protocol # listener.protocol THEN refused
       ELSE IF namespaces = "error" THEN "failed"
       ELSE IF namespaces = "mismatch" THEN refused
       ELSE IF ~routeMatchesListenerHostname(listener, rv) THEN refused
       ELSE IF ~rv.resolved THEN "failed"
       ELSE "bound"

----------------------------------------------------------------------------
(* Bind and Unbind.  present is what the listeners of the gateway hold:     *)
(* for every listener and route the bound route value, or Absent.           *)

routeReferencesGateway(rv, g) == \E k \in DOMAIN rv.refs : rv.refs[k].gateway = g

\* Every reference of the route is tried on every listener, also the ones that
\* name another gateway, and a reference that cannot bind removes the route:
\* what is left is what the last reference found.
BindsTo(g, gv, i, r, rv, lookup) ==
    /\ routeReferencesGateway(rv, g)
    /\ canBind(g, gv, i, r, rv, rv.refs[Len(rv.refs)], lookup) = "bound"

\* The listeners' routes after Bind(g, r).
Bind(present, g, gv, r, rv, lookup) ==
    [i \in Listeners |->
        [present[i] EXCEPT ![r] = IF BindsTo(g, gv, i, r, rv, lookup) THEN rv ELSE Absent]]

\* Mutant of BindModifies: a route that no longer binds is not a modification.
BindModifiesWhenBound(present, g, gv, r, rv, lookup) ==
    /\ routeReferencesGateway(rv, g)
    /\ \E i \in Listeners : \E k \in DOMAIN rv.refs :
           canBind(g, gv, i, r, rv, rv.refs[k], lookup) = "bound"

\* Whether Bind(g, r) reports a modification.
BindModifies(present, g, gv, r, rv, lookup) ==
    \/ \E i \in Listeners : present[i][r] # Absent
    \/ /\ routeReferencesGateway(rv, g)
       /\ \E i \in Listeners : \E k \in DOMAIN rv.refs :
              canBind(g, gv, i, r, rv, rv.refs[k], lookup) = "bound"

\* The listeners' routes after Unbind(g, r), and whether it reports a change.
Unbind(present, r) == [i \in Listeners |-> [present[i] EXCEPT ![r] = Absent]]
UnbindModifies(present, r) == \E i \in Listeners : present[i][r] # Absent

----------------------------------------------------------------------------
(* Parent statuses: a route has one per reference, by position. *)

Statuses == {"none", "failed", "bound"}

\* The listeners on which trying reference k of the route set its status.
Touching(g, gv, r, rv, k, lookup) ==
    {i \in Listeners : canBind(g, gv, i, r, rv, rv.refs[k], lookup) # "none"}

\* The statuses after Bind(g, r): the last listener that touches one decides.
StatusesAfterBind(statuses, g, gv, r, rv, lookup) ==
    [k \in DOMAIN rv.refs |->
        LET touching == Touching(g, gv, r, rv, k, lookup)
            last == CHOOSE i \in touching : \A j \in touching : j <= i
        IN IF routeReferencesGateway(rv, g) /\ touching # {}
           THEN canBind(g, gv, last, r, rv, rv.refs[k], lookup)
           ELSE statuses[k]]

\* removeGatewayStatus stops at the first reference that names the gateway.
StatusesAfterUnbind(statuses, g, rv) ==
    LET naming == {k \in DOMAIN rv.refs : rv.refs[k].gateway = g}
    IN [k \in DOMAIN rv.refs |->
           IF k \in naming /\ \A j \in naming : k <= j THEN "none" ELSE statuses[k]]

----------------------------------------------------------------------------
\* ListenerState.Valid, for a listener that holds the routes of held.
Valid(listener, held) ==
    /\ listener.valid
    /\ listener.protocol = "TCP" =>
           \A r, s \in Routes : held[r] # Absent /\ held[s] # Absent => r = s

\* K8sGateway.Resolve: what each listener publishes; a listener without routes
\* is left out of Consul just like one that is not valid.
Resolve(gv, present) ==
    [i \in Listeners |->
        IF Valid(gv.listeners[i], present[i]) THEN present[i] ELSE [r \in Routes |-> Absent]]
=============================================================================
