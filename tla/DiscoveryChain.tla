--------------------------- MODULE DiscoveryChain ---------------------------
(***************************************************************************)
(* The conversion of a resolved gateway into the Consul config entries     *)
(* that publish it: internal/adapters/consul/sync.go (discoveryChain and   *)
(* its helpers) and internal/adapters/consul/http.go (the consolidation of *)
(* HTTP routes by hostname, routers and splitters).                        *)
(*                                                                         *)
(* A resolved gateway is a function from listeners to what is bound there: *)
(* for every hostname the rules that routes define for it, in order of     *)
(* precedence (empty when no route names the host), and the backend        *)
(* services of TCP routes.  A rule stands for its match, filters and       *)
(* services; the ones of SplitRules spread traffic over several services.  *)
(***************************************************************************)
EXTENDS Naturals, Sequences

CONSTANTS
    Gateway,        \* the name of the gateway's service
    NumListeners,   \* how many listeners the gateway has
    Hosts,          \* hostnames, one consolidated route each
    Rules,          \* HTTP rules
    SplitRules,     \* the rules with more than one weighted service
    Backends,       \* services that TCP routes forward to
    MaxRules        \* bound on the rules of one hostname

ASSUME ListenersAssumption == NumListeners \in Nat
ASSUME RulesAssumption == SplitRules \subseteq Rules
ASSUME MaxRulesAssumption == MaxRules \in Nat

Listeners == 1..NumListeners

\* Service names made up by the controller: <<h, 0>> is the consolidated route
\* of hostname h, <<h, n>> the virtual service that splits its n-th rule.
Virtual == Hosts \X (0..MaxRules)

\* They are called after the gateway and a hash of the hostname; no backend of
\* a TCP route is taken to have such a name.
ASSUME BackendsAssumption == Backends \cap Virtual = {}

Kinds == {"service-defaults", "service-router", "service-splitter"}

\* Config entries by kind and name.
Entry(kind, name) == [kind |-> kind, name |-> name]
IngressEntry == Entry("ingress-gateway", Gateway)
Entries == [kind : Kinds, name : Virtual] \cup {IngressEntry}

ResolvedListeners == [http : [Hosts -> Seq(Rules)], tcp : SUBSET Backends]

----------------------------------------------------------------------------
(* Consolidation: what one listener makes of its HTTP routes. *)

\* The hostnames for which the listener's routes define rules.
Hosted(listener) == {h \in Hosts : listener.http[h] # <<>>}

\* The rules of a hostname that need a virtual service and its splitter.
SplitsOf(listener, h) == {n \in DOMAIN listener.http[h] : listener.http[h][n] \in SplitRules}

\* Listeners are walked in order and ConfigEntryIndex is keyed by name, so the
\* router that stays is the one of the last listener that has the hostname.
Winner(gw, h) ==
    CHOOSE i \in Listeners :
        /\ h \in Hosted(gw[i])
        /\ \A j \in Listeners : h \in Hosted(gw[j]) => j <= i

\* The same for one splitter of the hostname, which not every listener defines.
SplitWinner(gw, h, n) ==
    CHOOSE i \in Listeners :
        /\ n \in SplitsOf(gw[i], h)
        /\ \A j \in Listeners : n \in SplitsOf(gw[j], h) => j <= i

----------------------------------------------------------------------------
(* discoveryChain: the computed entries, their bodies and the ingress. *)

ComputedRouters(gw) ==
    {Entry("service-router", <<h, 0>>) : h \in UNION {Hosted(gw[i]) : i \in Listeners}}

ComputedSplitters(gw) ==
    {Entry("service-splitter", v) :
        v \in {w \in Virtual : \E i \in Listeners : w[2] \in SplitsOf(gw[i], w[1])}}

\* httpServiceDefault for every router and every splitter.
ComputedDefaults(gw) ==
    {Entry("service-defaults", e.name) : e \in ComputedRouters(gw) \cup ComputedSplitters(gw)}

Computed(gw) ==
    ComputedDefaults(gw) \cup ComputedRouters(gw) \cup ComputedSplitters(gw) \cup {IngressEntry}

\* What a router or a splitter says: the rules it routes or splits.
Body(gw, e) ==
    CASE e.kind = "service-router" -> gw[Winner(gw, e.name[1])].http[e.name[1]]
      [] e.kind = "service-splitter" ->
             LET i == SplitWinner(gw, e.name[1], e.name[2])
             IN <<gw[i].http[e.name[1]][e.name[2]]>>
      [] OTHER -> <<>>

\* filterTCPRoutes keeps a single TCP route, whichever the map gives first.
TCPChoices(listener) ==
    IF listener.tcp = {} THEN {{}} ELSE {{b} : b \in listener.tcp}

\* The services of the ingress entry, listener by listener, for one choice.
IngressServices(gw, choice) ==
    [i \in Listeners |-> {<<h, 0>> : h \in Hosted(gw[i])} \cup choice[i]]

Choices(gw) ==
    {c \in [Listeners -> SUBSET Backends] : \A i \in Listeners : c[i] \in TCPChoices(gw[i])}
=============================================================================
