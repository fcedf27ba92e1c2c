-------------------------- MODULE GatewayValidator --------------------------
(***************************************************************************)
(* The validation of a Gateway                                             *)
(* (internal/k8s/reconciler/validator/gateway.go): operators that turn the *)
(* specification of a gateway, and what the API server answers, into the   *)
(* errors of its status.                                                   *)
(*                                                                         *)
(* A specification is [listeners, addresses]: a sequence of listeners and  *)
(* whether addresses are requested.  A listener is [port, protocol,        *)
(* hostname, kinds, tls], with hostname "" when it is not set, and tls     *)
(* NoTLS or [mode, ref, min, max, ciphers], with ref NoRef or [kind,       *)
(* namespace, name].  The gateway is in the namespace Home.                *)
(***************************************************************************)
EXTENDS Naturals, FiniteSets, Status

NoTLS == [mode |-> "none"]
NoRef == [kind |-> "none"]
Home == "home"

\* What the API server admits.
SecretRefs == [kind : STRING, namespace : STRING, name : STRING]
TLSConfigs == {NoTLS} \cup
    [mode : {"Passthrough", "Terminate"}, ref : {NoRef} \cup SecretRefs,
     min : STRING, max : STRING, ciphers : SUBSET STRING]
ListenerSpecs ==
    [port : Nat, protocol : STRING, hostname : STRING, kinds : SUBSET STRING, tls : TLSConfigs]
GatewaySpecs == [listeners : Seq(ListenerSpecs) \ {<<>>}, addresses : BOOLEAN]
ReferenceGrants ==
    [namespace : STRING, from : SUBSET [kind : STRING, namespace : STRING],
     to : SUBSET [kind : STRING, name : STRING]]

----------------------------------------------------------------------------
(* Protocols, TLS versions and ciphers. *)

SupportedKindsFor(protocol) ==
    CASE protocol \in {"HTTP", "HTTPS"} -> {"HTTPRoute"}
      [] protocol = "TCP" -> {"TCPRoute"}
      [] OTHER -> {}

\* ProtocolToConsul says which protocols need TLS.
TLSRequired(protocol) == protocol \in {"HTTPS", "TLS"}

SupportedTLSVersions == {"TLS_AUTO", "TLSv1_0", "TLSv1_1", "TLSv1_2", "TLSv1_3"}
TLSVersionsWithConfigurableCipherSuites == {"", "TLS_AUTO", "TLSv1_0", "TLSv1_1", "TLSv1_2"}

\* Two stand for the fourteen supported suites.
SupportedTLSCipherSuites == {"default", "extra"}

----------------------------------------------------------------------------
(* Conflicts between the listeners of a port. *)

\* mergeListenersByPort
OnPort(spec, port) == {i \in DOMAIN spec.listeners : spec.listeners[i].port = port}

Merged(spec, i) ==
    LET js == OnPort(spec, spec.listeners[i].port)
    IN  [protocols |-> {spec.listeners[j].protocol : j \in js},
         hostnames |-> {spec.listeners[j].hostname : j \in js} \ {""}]

validateListenerConflicts(spec, i) ==
    LET m == Merged(spec, i)
    IN  (IF Cardinality(m.protocols) > 1 THEN {"ProtocolConflict"} ELSE {})
          \cup (IF Cardinality(m.hostnames) > 1 THEN {"HostnameConflict"} ELSE {})

----------------------------------------------------------------------------
(* Pods and addresses.  A pod is [phase, unschedulable, ready, podIP,      *)
(* hostIP], with "" for an IP it does not have yet.                        *)

PodError(pod) ==
    CASE pod.phase = "Pending" -> IF pod.unschedulable THEN {"NoResources"} ELSE {"NotReconciled"}
      [] pod.phase = "Running" -> {}
      [] pod.phase \in {"Succeeded", "Failed"} -> {"PodFailed"}
      [] OTHER -> {"Unknown"}

validatePodConditions(pods) == UNION {PodError(p) : p \in pods}

\* validatePodStatusRunning: one ready pod is enough.
PodReady(pods) == \E p \in pods : p.phase = "Running" /\ p.ready

\* assignGatewayIPFromPods, assignGatewayIPFromPodHost,
\* assignGatewayIPFromServiceIngress and assignGatewayIPFromService: the errors
\* and the addresses.  A service is [exists, addresses].
validateGatewayIP(type, pods, service) ==
    CASE type = "none" ->
            [errors |-> IF pods = {} THEN {"NotReconciled"} ELSE {},
             addresses |-> {p.podIP : p \in pods} \ {""}]
      [] type = "NodePort" ->
            [errors |-> IF pods = {} THEN {"NotReconciled"} ELSE {},
             addresses |-> {p.hostIP : p \in pods} \ {""}]
      [] type \in {"LoadBalancer", "ClusterIP"} ->
            [errors |-> IF service.exists THEN {} ELSE {"NotReconciled"},
             addresses |-> service.addresses]

----------------------------------------------------------------------------
(* Reference grants.  A grant is [namespace, from, to]: from a set of      *)
(* [kind, namespace], to a set of [kind, name], the name "" for all.       *)

\* Mutant of referenceAllowed: From and To may be those of two grants.
referenceAllowedAcross(from, to, grants) ==
    \/ to.namespace = from.namespace
    \/ LET there == {g \in grants : g.namespace = to.namespace}
       IN  /\ \E g \in there : from \in g.from
           /\ \E g \in there : \E t \in g.to : t.kind = to.kind /\ t.name \in {"", to.name}

referenceAllowed(from, to, grants) ==
    \/ to.namespace = from.namespace
    \/ \E g \in grants :
        /\ g.namespace = to.namespace
        /\ from \in g.from
        /\ \E t \in g.to : t.kind = to.kind /\ t.name \in {"", to.name}

gatewayAllowedForSecretRef(ref, grants) ==
    referenceAllowed([kind |-> "Gateway", namespace |-> Home], ref, grants)

\* Only Secrets resolve.
resolveCertificateReference(ref, secrets) == ref.kind = "Secret" /\ ref \in secrets

----------------------------------------------------------------------------
(* One listener. *)

validateProtocols(listener) ==
    [detached |-> IF SupportedKindsFor(listener.protocol) = {}
                  THEN {"UnsupportedProtocol"} ELSE {},
     refs |-> IF listener.kinds \subseteq SupportedKindsFor(listener.protocol)
              THEN {} ELSE {"InvalidRouteKinds"}]

\* The options are looked at only when there is a certificate; cipher suites
\* are refused for a minimum that does not let them be chosen.
OptionsInvalid(tls) ==
    \/ tls.min # "" /\ tls.min \notin SupportedTLSVersions
    \/ tls.min # "" /\ tls.ciphers # {} /\ tls.min \notin TLSVersionsWithConfigurableCipherSuites
    \/ tls.max # "" /\ tls.max \notin SupportedTLSVersions
    \/ tls.ciphers \ SupportedTLSCipherSuites # {}

validateTLS(listener, grants, secrets) ==
    LET tls == listener.tls
        Result(ready, refs, certs) == [ready |-> ready, refs |-> refs, certs |-> certs]
    IN  CASE tls = NoTLS ->
                Result(IF TLSRequired(listener.protocol) THEN {"Invalid"} ELSE {}, {}, {})
          [] tls.mode = "Passthrough" -> Result({"Invalid"}, {}, {})
          [] tls.mode = "Terminate" /\ tls.ref = NoRef ->
                Result({}, {"InvalidCertificateRef"}, {})
          [] tls.mode = "Terminate" /\ tls.ref # NoRef ->
                IF ~gatewayAllowedForSecretRef(tls.ref, grants)
                THEN Result({}, {"RefNotPermitted"}, {})
                ELSE IF ~resolveCertificateReference(tls.ref, secrets)
                THEN Result({}, {"InvalidCertificateRef"}, {})
                ELSE Result(IF OptionsInvalid(tls) THEN {"Invalid"} ELSE {}, {}, {tls.ref})

\* Mutant of Finished: a listener that is not valid keeps its own readiness.
FinishedAsIs(s) == s

\* A listener with any other error is not ready either.
Finished(s) ==
    [s EXCEPT !.Ready = IF StatusValid(s) THEN @ ELSE @ \cup {"Invalid"}]

\* validateListeners, for the listener i: its status and its certificates.
validateListener(spec, i, grants, secrets) ==
    LET listener == spec.listeners[i]
        protocols == validateProtocols(listener)
        tls == validateTLS(listener, grants, secrets)
        unsupported == IF spec.addresses THEN {"UnsupportedAddress"} ELSE {}
    IN  [status |-> Finished([Conflicted |-> validateListenerConflicts(spec, i),
                              Detached |-> unsupported \cup protocols.detached,
                              Ready |-> tls.ready,
                              ResolvedRefs |-> protocols.refs \cup tls.refs]),
         certs |-> tls.certs]

\* The Ready errors of the gateway, once its listeners are validated.
GatewayReadiness(spec, listeners, podReady, serviceReady) ==
    LET invalid == \E i \in DOMAIN listeners : "Invalid" \in listeners[i].status.Ready
        pending == \E i \in DOMAIN listeners : "Pending" \in listeners[i].status.Ready
    IN  (IF spec.addresses THEN {"AddressNotAssigned"} ELSE {})
          \cup (IF invalid THEN {"ListenersNotValid"}
                ELSE IF ~podReady \/ ~serviceReady \/ pending THEN {"ListenersNotReady"}
                ELSE {})

----------------------------------------------------------------------------
(* What the validation decides, said without its steps. *)

\* A listener can be served: its protocol and its routes are supported, nothing
\* on its port disagrees with it, and if it is encrypted, then with a permitted
\* Secret and parameters that Envoy knows.
Servable(spec, i, grants, secrets) ==
    LET l == spec.listeners[i]
        peers == {spec.listeners[j] : j \in OnPort(spec, l.port)}
    IN  /\ ~spec.addresses
        /\ l.protocol \in {"HTTP", "HTTPS", "TCP"}
        /\ l.kinds \subseteq {IF l.protocol = "TCP" THEN "TCPRoute" ELSE "HTTPRoute"}
        /\ \A a, b \in peers :
            /\ a.protocol = b.protocol
            /\ a.hostname = b.hostname \/ "" \in {a.hostname, b.hostname}
        /\ l.protocol = "HTTPS" => l.tls # NoTLS
        /\ l.tls # NoTLS =>
            /\ l.tls.mode = "Terminate" /\ l.tls.ref # NoRef
            /\ l.tls.ref.kind = "Secret" /\ l.tls.ref \in secrets
            /\ \/ l.tls.ref.namespace = Home
               \/ \E g \in grants :
                    /\ g.namespace = l.tls.ref.namespace
                    /\ [kind |-> "Gateway", namespace |-> Home] \in g.from
                    /\ \E t \in g.to : t \in {[kind |-> "Secret", name |-> n] : n \in {"", l.tls.ref.name}}
            /\ {l.tls.min, l.tls.max} \subseteq SupportedTLSVersions \cup {""}
            /\ l.tls.ciphers \subseteq SupportedTLSCipherSuites
            /\ l.tls.ciphers # {} => l.tls.min # "TLSv1_3"
=============================================================================
