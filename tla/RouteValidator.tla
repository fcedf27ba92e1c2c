--------------------------- MODULE RouteValidator ---------------------------
(***************************************************************************)
(* The validation of a route: which of its backends it may use, and which  *)
(* Consul service each of them is                                          *)
(* (internal/k8s/reconciler/validator/route.go,                            *)
(* internal/k8s/service/resolver.go and rule.go, and the converters that   *)
(* make Consul's view of the route from it).                               *)
(*                                                                         *)
(* A route's specification is [kind, rules]: a sequence of rules, each a   *)
(* sequence of backends [kind, namespace, name, port], port telling        *)
(* whether one is given.  The route is in the namespace Home.              *)
(***************************************************************************)
EXTENDS GatewayValidator

CONSTANTS
    Nodes,              \* Consul's nodes, in the order it lists them
    ConsulNamespaces,   \* the namespaces that are searched, the default one first
    mapper(_)           \* the Consul namespace of a Kubernetes namespace

ASSUME SearchAssumption == Nodes \in Seq(STRING) /\ ConsulNamespaces \in Seq(STRING)

\* What the API server admits.
BackendRefs == [kind : STRING, namespace : STRING, name : STRING, port : BOOLEAN]
RouteSpecs == [kind : {"HTTPRoute", "TCPRoute"}, rules : Seq(Seq(BackendRefs))]

----------------------------------------------------------------------------
(* One backend.  The API server has services, a set of [namespace, name],  *)
(* and mesh, a set of [namespace, name, service, peer] with peer "" for a  *)
(* service that is not imported.  Consul has a catalog, a set of instances *)
(* [node, namespace, service, of], of being the [namespace, name] of their *)
(* Kubernetes service, and peerings, a set of [namespace, peer, imported]. *)

Key(ref) == [namespace |-> ref.namespace, name |-> ref.name]

routeAllowedForBackendRef(kind, ref, grants) ==
    referenceAllowed([kind |-> kind, namespace |-> Home], ref, grants)

\* What Resolve finds out before it asks Consul: an error, or "none".
ReferenceError(ref, services, mesh) ==
    CASE ref.kind = "Service" /\ ~ref.port -> "K8sService"
      [] ref.kind = "Service" /\ ref.port ->
            IF Key(ref) \in services THEN "none" ELSE "BackendNotFound"
      [] ref.kind = "MeshService" ->
            IF \E m \in mesh : Key(m) = Key(ref) THEN "none" ELSE "BackendNotFound"
      [] OTHER -> "InvalidKind"

Failed(error) == [error |-> error]
Found(namespace, service) == [error |-> "none", namespace |-> namespace, service |-> service]

\* validateAgentConsulReference and validateCatalogConsulReference
Single(instances) ==
    LET names == {[namespace |-> i.namespace, service |-> i.service] : i \in instances}
        name == CHOOSE n \in names : TRUE
    IN  IF Cardinality(names) > 1 THEN Failed("ConsulService")
        ELSE Found(name.namespace, name.service)

\* findGlobalCatalogService: the first node and namespace with an instance decide.
findGlobalCatalogService(of, catalog) ==
    LET At(p) == {i \in catalog : /\ i.of = of
                                  /\ i.node = Nodes[p[1]]
                                  /\ i.namespace = ConsulNamespaces[p[2]]}
        places == {p \in (DOMAIN Nodes) \X (DOMAIN ConsulNamespaces) : At(p) # {}}
        first == CHOOSE p \in places :
                    \A q \in places : p[1] < q[1] \/ (p[1] = q[1] /\ p[2] <= q[2])
    IN  IF places = {} THEN Failed("BackendNotFound") ELSE Single(At(first))

findPeerService(m, peerings) ==
    IF \E p \in peerings : /\ p.namespace = mapper(m.namespace)
                           /\ p.peer = m.peer
                           /\ m.service \in p.imported
    THEN Found(mapper(m.namespace), m.service)
    ELSE Failed("ConsulService")

findCatalogService(m, catalog) ==
    LET instances == {i \in catalog : i.service = m.service /\ i.namespace = mapper(m.namespace)}
    IN  IF instances = {} THEN Failed("BackendNotFound") ELSE Single(instances)

\* One attempt at Consul, which answers, for a backend without a ReferenceError.
\* The MeshService is the one that was read before the attempts.
ConsulService(ref, m, catalog, peerings) ==
    IF ref.kind = "Service" THEN findGlobalCatalogService(Key(ref), catalog)
    ELSE IF m.peer # "" THEN findPeerService(m, peerings)
    ELSE findCatalogService(m, catalog)

----------------------------------------------------------------------------
(* The route. *)

\* validateTCPRoute refuses all but one rule with one backend.
WrongShape(spec) ==
    spec.kind = "TCPRoute" /\ ~(Len(spec.rules) = 1 /\ Len(spec.rules[1]) = 1)

\* The backends in the order in which they are looked at, with their rules.
Backends(spec) ==
    IF WrongShape(spec) THEN <<>>
    ELSE FlattenSeq([r \in DOMAIN spec.rules |->
            [b \in DOMAIN spec.rules[r] |-> [rule |-> r, ref |-> spec.rules[r][b]]]])

\* ResolutionErrors.Flatten: several types of errors become a generic one.
Flatten(errors) ==
    IF "Generic" \in errors \/ Cardinality(errors) > 1 THEN "Generic"
    ELSE CHOOSE e \in errors : TRUE

\* The field of ResolvedRefs for the flattened error, in BindFailed.
ResolvedRefsField ==
    [ConsulService |-> "ConsulServiceNotFound", Generic |-> "Errors",
     K8sService |-> "ServiceNotFound", RefNotPermitted |-> "RefNotPermitted",
     InvalidKind |-> "InvalidKind", BackendNotFound |-> "BackendNotFound"]

\* httpReferencesToRules and tcpReferencesToService: the rules that have a
\* resolved backend, each with its services.  A rule without one is gone.
Convert(references) ==
    {[rule |-> r, services |-> {[namespace |-> x.found.namespace, service |-> x.found.service] :
                                    x \in {y \in references : y.rule = r}}] :
        r \in {x.rule : x \in references}}
=============================================================================
