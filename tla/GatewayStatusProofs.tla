------------------------- MODULE GatewayStatusProofs ------------------------
(***************************************************************************)
(* Proofs about GatewayStatus and the validation of gateways, for any      *)
(* specifications, grants, Secrets, pods and any number of changes: a      *)
(* listener is ready exactly when it can be served, a certificate is not   *)
(* kept without its grant, and what binds is published.                    *)
(***************************************************************************)
EXTENDS GatewayStatus, FiniteSetTheorems, TLAPS

----------------------------------------------------------------------------
(* What the validator says of one listener. *)

\* The errors that it finds.
ListenerErrors ==
    {"ProtocolConflict", "HostnameConflict", "UnsupportedAddress", "UnsupportedProtocol",
     "Invalid", "InvalidCertificateRef", "InvalidRouteKinds", "RefNotPermitted"}

ListenerStatuses ==
    [Conflicted : SUBSET ListenerErrors, Detached : SUBSET ListenerErrors,
     Ready : SUBSET ListenerErrors, ResolvedRefs : SUBSET ListenerErrors]
ListenerStates == [status : ListenerStatuses, certs : SUBSET SecretRefs]

\* A listener that is not valid is not ready either.
Judged(status) == StatusValid(status) \/ "Invalid" \in status.Ready

\* The listener's part of the TLS validation, case by case.
LEMMA ValidateTLSFacts ==
    ASSUME NEW l \in ListenerSpecs, NEW gs, NEW ss
    PROVE  /\ validateTLS(l, gs, ss) \in
                [ready : SUBSET ListenerErrors, refs : SUBSET ListenerErrors, certs : SUBSET SecretRefs]
           /\ \A c \in validateTLS(l, gs, ss).certs : gatewayAllowedForSecretRef(c, gs)
<1> DEFINE tls == l.tls
<1> USE DEF ListenerErrors
<1>1. CASE tls = NoTLS
    <2>1. validateTLS(l, gs, ss) =
            [ready |-> IF TLSRequired(l.protocol) THEN {"Invalid"} ELSE {}, refs |-> {}, certs |-> {}]
        BY <1>1 DEF validateTLS, NoTLS
    <2> QED BY <2>1
<1>2. CASE tls # NoTLS /\ tls.mode = "Passthrough"
    BY <1>2 DEF validateTLS
<1>3. CASE tls # NoTLS /\ tls.mode = "Terminate" /\ tls.ref = NoRef
    BY <1>3 DEF validateTLS
<1>4. CASE tls # NoTLS /\ tls.mode = "Terminate" /\ tls.ref # NoRef
    <2>1. tls.ref \in SecretRefs
        BY <1>4 DEF ListenerSpecs, TLSConfigs
    <2>2. validateTLS(l, gs, ss) =
            IF ~gatewayAllowedForSecretRef(tls.ref, gs)
            THEN [ready |-> {}, refs |-> {"RefNotPermitted"}, certs |-> {}]
            ELSE IF ~resolveCertificateReference(tls.ref, ss)
            THEN [ready |-> {}, refs |-> {"InvalidCertificateRef"}, certs |-> {}]
            ELSE [ready |-> IF OptionsInvalid(tls) THEN {"Invalid"} ELSE {}, refs |-> {},
                  certs |-> {tls.ref}]
        BY <1>4 DEF validateTLS
    <2> QED BY <2>1, <2>2
<1>5. tls = NoTLS \/ tls.mode \in {"Passthrough", "Terminate"}
    BY DEF ListenerSpecs, TLSConfigs
<1> QED BY <1>1, <1>2, <1>3, <1>4, <1>5

\* Finished leaves a judged status.
LEMMA FinishedFacts ==
    ASSUME NEW s \in ListenerStatuses
    PROVE  Finished(s) \in ListenerStatuses /\ Judged(Finished(s))
<1>1. CASE StatusValid(s)
    <2>1. Finished(s) = s
        BY <1>1 DEF Finished, ListenerStatuses
    <2> QED BY <1>1, <2>1 DEF Judged
<1>2. CASE ~StatusValid(s)
    BY <1>2 DEF Finished, ListenerStatuses, Judged, ListenerErrors
<1> QED BY <1>1, <1>2

\* A validated listener has a judged status and only permitted certificates.
LEMMA ValidateListenerFacts ==
    ASSUME NEW spec \in GatewaySpecs, NEW i \in DOMAIN spec.listeners, NEW gs, NEW ss
    PROVE  /\ validateListener(spec, i, gs, ss) \in ListenerStates
           /\ Judged(validateListener(spec, i, gs, ss).status)
           /\ \A c \in validateListener(spec, i, gs, ss).certs : gatewayAllowedForSecretRef(c, gs)
<1> DEFINE l == spec.listeners[i]
           tls == validateTLS(l, gs, ss)
           raw == [Conflicted |-> validateListenerConflicts(spec, i),
                   Detached |-> (IF spec.addresses THEN {"UnsupportedAddress"} ELSE {})
                                  \cup validateProtocols(l).detached,
                   Ready |-> tls.ready,
                   ResolvedRefs |-> validateProtocols(l).refs \cup tls.refs]
<1>1. l \in ListenerSpecs
    BY DEF GatewaySpecs
<1>2. /\ tls \in [ready : SUBSET ListenerErrors, refs : SUBSET ListenerErrors, certs : SUBSET SecretRefs]
      /\ \A c \in tls.certs : gatewayAllowedForSecretRef(c, gs)
    BY <1>1, ValidateTLSFacts
<1>3. validateListener(spec, i, gs, ss) = [status |-> Finished(raw), certs |-> tls.certs]
    BY DEF validateListener
<1>4. raw \in ListenerStatuses
    <2>1. validateListenerConflicts(spec, i) \in SUBSET ListenerErrors
        BY DEF validateListenerConflicts, ListenerErrors
    <2>2. validateProtocols(l).detached \in SUBSET ListenerErrors /\ validateProtocols(l).refs \in SUBSET ListenerErrors
        BY DEF validateProtocols, ListenerErrors
    <2>3. (IF spec.addresses THEN {"UnsupportedAddress"} ELSE {}) \in SUBSET ListenerErrors
        BY DEF ListenerErrors
    <2> HIDE DEF tls
    <2> QED BY <1>2, <2>1, <2>2, <2>3 DEF ListenerStatuses
<1>5. Finished(raw) \in ListenerStatuses /\ Judged(Finished(raw))
    BY <1>4, FinishedFacts
<1> HIDE DEF raw, tls
<1> QED BY <1>2, <1>3, <1>5 DEF ListenerStates

\* The copy in the store is judged too: JSON loses nothing of it.
LEMMA CopiedFacts ==
    ASSUME NEW s, Judged(s)
    PROVE  /\ Judged(Copied(ListenerStatusFields, s))
           /\ s.Ready = {} => StatusValid(Copied(ListenerStatusFields, s))
<1> DEFINE t == Copied(ListenerStatusFields, s)
<1>1. /\ t.Ready = s.Ready \cap ToSet(ListenerReady)
      /\ \A c \in {"Conflicted", "Detached", "ResolvedRefs"} :
            t[c] = s[c] \cap ToSet(ListenerStatusFields[c])
    BY DEF Copied, Marshaled, ListenerStatusFields
<1>2. StatusValid(t) <=> StatusValid(s)
    BY <1>1 DEF StatusValid, HasError
<1>3. "Invalid" \in ToSet(ListenerReady)
    BY DEF ToSet, ListenerReady
<1> QED BY <1>1, <1>2, <1>3 DEF Judged

----------------------------------------------------------------------------
(* A listener is ready exactly when it can be served. *)

\* A finite set with at most one element.
LEMMA AtMostOne ==
    ASSUME NEW S, IsFiniteSet(S)
    PROVE  Cardinality(S) > 1 <=> \E a, b \in S : a # b
<1>1. Cardinality(S) \in Nat
    BY FS_CardinalityType
<1>2. ASSUME NEW a \in S, NEW b \in S, a # b PROVE Cardinality(S) > 1
    <2>1. Cardinality(S) # 0
        BY FS_EmptySet
    <2>2. Cardinality(S) # 1
        BY <1>2, FS_Singleton
    <2> QED BY <1>1, <2>1, <2>2
<1>3. ASSUME Cardinality(S) > 1 PROVE \E a, b \in S : a # b
    <2>1. PICK a \in S : TRUE
        BY <1>3, FS_EmptySet
    <2>2. S # {a}
        BY <1>3, FS_Singleton
    <2> QED BY <2>1, <2>2
<1> QED BY <1>2, <1>3

\* The protocols and the hostnames of a port.
LEMMA MergedFacts ==
    ASSUME NEW spec \in GatewaySpecs, NEW i \in DOMAIN spec.listeners
    PROVE  IsFiniteSet(Merged(spec, i).protocols) /\ IsFiniteSet(Merged(spec, i).hostnames)
<1> DEFINE js == OnPort(spec, spec.listeners[i].port)
           protocols == {spec.listeners[j].protocol : j \in js}
           hostnames == {spec.listeners[j].hostname : j \in js}
<1>1. IsFiniteSet(js)
    <2>1. js \subseteq 1..Len(spec.listeners) /\ Len(spec.listeners) \in Nat
        BY DEF OnPort, GatewaySpecs
    <2>2. IsFiniteSet(1..Len(spec.listeners))
        BY <2>1, FS_Interval
    <2> QED BY <2>1, <2>2, FS_Subset
<1> HIDE DEF js
<1>2. IsFiniteSet(protocols)
    <2> DEFINE f == [j \in js |-> spec.listeners[j].protocol]
    <2>1. f \in Surjection(js, protocols)
        BY DEF Surjection
    <2> QED BY <1>1, <2>1, FS_Surjection
<1>3. IsFiniteSet(hostnames)
    <2> DEFINE f == [j \in js |-> spec.listeners[j].hostname]
    <2>1. f \in Surjection(js, hostnames)
        BY DEF Surjection
    <2> QED BY <1>1, <2>1, FS_Surjection
<1>4. IsFiniteSet(hostnames \ {""})
    BY <1>3, FS_Subset
<1> QED BY <1>2, <1>4 DEF Merged, js

\* The listeners of a port agree.
Agree(spec, i) ==
    \A a, b \in {spec.listeners[j] : j \in OnPort(spec, spec.listeners[i].port)} :
        /\ a.protocol = b.protocol
        /\ a.hostname = b.hostname \/ "" \in {a.hostname, b.hostname}

LEMMA ConflictFacts ==
    ASSUME NEW spec \in GatewaySpecs, NEW i \in DOMAIN spec.listeners
    PROVE  validateListenerConflicts(spec, i) = {} <=> Agree(spec, i)
<1> DEFINE m == Merged(spec, i)
           js == OnPort(spec, spec.listeners[i].port)
<1>1. IsFiniteSet(m.protocols) /\ IsFiniteSet(m.hostnames)
    BY MergedFacts
<1>2. validateListenerConflicts(spec, i) = {} <=>
        Cardinality(m.protocols) \leq 1 /\ Cardinality(m.hostnames) \leq 1
    BY <1>1, FS_CardinalityType DEF validateListenerConflicts
<1>3. (Cardinality(m.protocols) > 1 <=> \E a, b \in m.protocols : a # b)
      /\ (Cardinality(m.hostnames) > 1 <=> \E a, b \in m.hostnames : a # b)
    BY <1>1, AtMostOne
<1>4. Cardinality(m.protocols) \in Nat /\ Cardinality(m.hostnames) \in Nat
    BY <1>1, FS_CardinalityType
<1>5. m.protocols = {spec.listeners[j].protocol : j \in js}
      /\ m.hostnames = {spec.listeners[j].hostname : j \in js} \ {""}
    BY DEF Merged
<1> HIDE DEF m, js
<1>6. (\A a, b \in m.protocols : a = b) <=>
        \A j, k \in js : spec.listeners[j].protocol = spec.listeners[k].protocol
    <2>1. \A j \in js : spec.listeners[j].protocol \in m.protocols
        BY <1>5
    <2>2. \A a \in m.protocols : \E j \in js : a = spec.listeners[j].protocol
        BY <1>5
    <2> QED BY <2>1, <2>2
<1>7. (\A a, b \in m.hostnames : a = b) <=>
        \A j, k \in js : \/ spec.listeners[j].hostname = spec.listeners[k].hostname
                         \/ "" \in {spec.listeners[j].hostname, spec.listeners[k].hostname}
    <2>1. \A j \in js : spec.listeners[j].hostname # "" => spec.listeners[j].hostname \in m.hostnames
        BY <1>5
    <2>2. \A a \in m.hostnames : a # "" /\ \E j \in js : a = spec.listeners[j].hostname
        <3> TAKE a \in m.hostnames
        <3>1. a # "" /\ a \in {spec.listeners[j].hostname : j \in js}
            BY <1>5
        <3> QED BY <3>1
    <2> QED BY <2>1, <2>2
<1>8. Agree(spec, i) <=>
        \A j, k \in js :
            /\ spec.listeners[j].protocol = spec.listeners[k].protocol
            /\ \/ spec.listeners[j].hostname = spec.listeners[k].hostname
               \/ "" \in {spec.listeners[j].hostname, spec.listeners[k].hostname}
    <2> DEFINE peers == {spec.listeners[j] : j \in js}
               Alike(a, b) == /\ a.protocol = b.protocol
                              /\ a.hostname = b.hostname \/ "" \in {a.hostname, b.hostname}
    <2>1. Agree(spec, i) <=> \A a, b \in peers : Alike(a, b)
        BY Zenon DEF Agree, js
    <2>2. (\A a, b \in peers : Alike(a, b)) <=>
            \A j, k \in js : Alike(spec.listeners[j], spec.listeners[k])
        <3> HIDE DEF Alike
        <3> QED BY Zenon
    <2> QED BY <2>1, <2>2
<1>9. Agree(spec, i) <=> (\A a, b \in m.protocols : a = b) /\ (\A a, b \in m.hostnames : a = b)
    BY <1>6, <1>7, <1>8
<1> QED BY <1>2, <1>3, <1>4, <1>9

\* The TLS settings of a listener that can be served.
Encryptable(l, gs, ss) ==
    /\ l.protocol = "HTTPS" => l.tls # NoTLS
    /\ l.tls # NoTLS =>
        /\ l.tls.mode = "Terminate" /\ l.tls.ref # NoRef
        /\ gatewayAllowedForSecretRef(l.tls.ref, gs)
        /\ resolveCertificateReference(l.tls.ref, ss)
        /\ ~OptionsInvalid(l.tls)

LEMMA EncryptableFacts ==
    ASSUME NEW l \in ListenerSpecs, l.protocol # "TLS", NEW gs, NEW ss
    PROVE  /\ validateTLS(l, gs, ss).ready = {} /\ validateTLS(l, gs, ss).refs = {}
           <=> Encryptable(l, gs, ss)
<1> DEFINE tls == l.tls
<1>1. CASE tls = NoTLS
    <2>1. validateTLS(l, gs, ss) =
            [ready |-> IF TLSRequired(l.protocol) THEN {"Invalid"} ELSE {}, refs |-> {}, certs |-> {}]
        BY <1>1 DEF validateTLS, NoTLS
    <2> QED BY <1>1, <2>1 DEF Encryptable, TLSRequired
<1>2. CASE tls # NoTLS /\ tls.mode = "Passthrough"
    BY <1>2 DEF validateTLS, Encryptable
<1>3. CASE tls # NoTLS /\ tls.mode = "Terminate" /\ tls.ref = NoRef
    BY <1>3 DEF validateTLS, Encryptable
<1>4. CASE tls # NoTLS /\ tls.mode = "Terminate" /\ tls.ref # NoRef
    <2>1. validateTLS(l, gs, ss) =
            IF ~gatewayAllowedForSecretRef(tls.ref, gs)
            THEN [ready |-> {}, refs |-> {"RefNotPermitted"}, certs |-> {}]
            ELSE IF ~resolveCertificateReference(tls.ref, ss)
            THEN [ready |-> {}, refs |-> {"InvalidCertificateRef"}, certs |-> {}]
            ELSE [ready |-> IF OptionsInvalid(tls) THEN {"Invalid"} ELSE {}, refs |-> {},
                  certs |-> {tls.ref}]
        BY <1>4 DEF validateTLS
    <2> QED BY <1>4, <2>1 DEF Encryptable
<1>5. tls = NoTLS \/ tls.mode \in {"Passthrough", "Terminate"}
    BY DEF ListenerSpecs, TLSConfigs
<1> QED BY <1>1, <1>2, <1>3, <1>4, <1>5

\* What is permitted, resolved and an option, in the words of Servable.
LEMMA TLSServable ==
    ASSUME NEW tls \in TLSConfigs, tls # NoTLS, tls.ref # NoRef,
           NEW gs \in SUBSET ReferenceGrants, NEW ss
    PROVE  /\ gatewayAllowedForSecretRef(tls.ref, gs)
           /\ resolveCertificateReference(tls.ref, ss)
           /\ ~OptionsInvalid(tls)
           <=>
           /\ tls.ref.kind = "Secret" /\ tls.ref \in ss
           /\ \/ tls.ref.namespace = Home
              \/ \E g \in gs :
                    /\ g.namespace = tls.ref.namespace
                    /\ [kind |-> "Gateway", namespace |-> Home] \in g.from
                    /\ \E t \in g.to : t \in {[kind |-> "Secret", name |-> n] : n \in {"", tls.ref.name}}
           /\ {tls.min, tls.max} \subseteq SupportedTLSVersions \cup {""}
           /\ tls.ciphers \subseteq SupportedTLSCipherSuites
           /\ tls.ciphers # {} => tls.min # "TLSv1_3"
<1>1. ~OptionsInvalid(tls) <=>
        /\ {tls.min, tls.max} \subseteq SupportedTLSVersions \cup {""}
        /\ tls.ciphers \subseteq SupportedTLSCipherSuites
        /\ tls.ciphers # {} => tls.min # "TLSv1_3"
    BY DEF OptionsInvalid, SupportedTLSVersions, TLSVersionsWithConfigurableCipherSuites
<1>2. ASSUME NEW g \in gs, NEW t \in g.to, tls.ref.kind = "Secret"
      PROVE  t.kind = tls.ref.kind /\ t.name \in {"", tls.ref.name}
             <=> t \in {[kind |-> "Secret", name |-> n] : n \in {"", tls.ref.name}}
    <2>1. t \in [kind : STRING, name : STRING]
        BY DEF ReferenceGrants
    <2>2. t = [kind |-> t.kind, name |-> t.name]
        BY <2>1
    <2>3. ASSUME t.kind = "Secret", t.name \in {"", tls.ref.name}
          PROVE  t \in {[kind |-> "Secret", name |-> n] : n \in {"", tls.ref.name}}
        BY <2>2, <2>3
    <2>4. ASSUME NEW n \in {"", tls.ref.name}, t = [kind |-> "Secret", name |-> n]
          PROVE  t.kind = "Secret" /\ t.name \in {"", tls.ref.name}
        BY <2>4
    <2> QED BY <1>2, <2>3, <2>4
<1>3. tls.ref.kind = "Secret" =>
        (gatewayAllowedForSecretRef(tls.ref, gs) <=>
            \/ tls.ref.namespace = Home
            \/ \E g \in gs :
                /\ g.namespace = tls.ref.namespace
                /\ [kind |-> "Gateway", namespace |-> Home] \in g.from
                /\ \E t \in g.to : t \in {[kind |-> "Secret", name |-> n] : n \in {"", tls.ref.name}})
    BY <1>2 DEF gatewayAllowedForSecretRef, referenceAllowed
<1>4. resolveCertificateReference(tls.ref, ss) <=> tls.ref.kind = "Secret" /\ tls.ref \in ss
    BY DEF resolveCertificateReference
<1> QED BY <1>1, <1>3, <1>4

\* The errors of references that the TLS validation finds.
LEMMA ValidateTLSRefs ==
    ASSUME NEW l \in ListenerSpecs, NEW gs, NEW ss
    PROVE  validateTLS(l, gs, ss).refs \subseteq {"InvalidCertificateRef", "RefNotPermitted"}
<1> DEFINE tls == l.tls
<1>1. CASE tls = NoTLS
    BY <1>1 DEF validateTLS, NoTLS
<1>2. CASE tls # NoTLS /\ tls.mode = "Passthrough"
    BY <1>2 DEF validateTLS
<1>3. CASE tls # NoTLS /\ tls.mode = "Terminate"
    BY <1>3 DEF validateTLS
<1>4. tls = NoTLS \/ tls.mode \in {"Passthrough", "Terminate"}
    BY DEF ListenerSpecs, TLSConfigs
<1> QED BY <1>1, <1>2, <1>3, <1>4

\* Each of the errors is one of its condition's.
LEMMA StatusFieldsFacts ==
    /\ {"ProtocolConflict", "HostnameConflict"} \subseteq ToSet(ListenerStatusFields["Conflicted"])
    /\ {"UnsupportedAddress", "UnsupportedProtocol"} \subseteq ToSet(ListenerStatusFields["Detached"])
    /\ {"InvalidRouteKinds", "InvalidCertificateRef", "RefNotPermitted"}
            \subseteq ToSet(ListenerStatusFields["ResolvedRefs"])
BY DEF ToSet, ListenerStatusFields, ListenerConflicted, ListenerDetached, ListenerResolvedRefs

\* The validation of a listener, error by error, decides what Servable says
\* without its steps: a listener has no Ready error exactly when its protocol
\* and route kinds are supported, the other listeners of its port agree with it
\* and its TLS settings can be used with the grants and Secrets of the moment
\* (validateListeners in validator/gateway.go), for every gateway the API admits.
THEOREM ReadyMeansServable ==
    ASSUME NEW spec \in GatewaySpecs, NEW i \in DOMAIN spec.listeners,
           NEW gs \in SUBSET ReferenceGrants, NEW ss
    PROVE  validateListener(spec, i, gs, ss).status.Ready = {} <=> Servable(spec, i, gs, ss)
<1> DEFINE l == spec.listeners[i]
           tls == validateTLS(l, gs, ss)
           protocols == validateProtocols(l)
           addresses == IF spec.addresses THEN {"UnsupportedAddress"} ELSE {}
           raw == [Conflicted |-> validateListenerConflicts(spec, i),
                   Detached |-> addresses \cup protocols.detached,
                   Ready |-> tls.ready,
                   ResolvedRefs |-> protocols.refs \cup tls.refs]
           Fits == /\ l.protocol \in {"HTTP", "HTTPS", "TCP"}
                   /\ l.kinds \subseteq {IF l.protocol = "TCP" THEN "TCPRoute" ELSE "HTTPRoute"}
<1>1. l \in ListenerSpecs
    BY DEF GatewaySpecs
<1>2. validateListener(spec, i, gs, ss).status = Finished(raw)
    BY DEF validateListener
<1>3. protocols.detached = {} /\ protocols.refs = {} <=> Fits
    BY DEF validateProtocols, SupportedKindsFor
<1>4. StatusValid(raw) <=> raw.Conflicted = {} /\ raw.Detached = {} /\ raw.ResolvedRefs = {}
    <2>1. raw.Conflicted \subseteq {"ProtocolConflict", "HostnameConflict"}
        BY DEF validateListenerConflicts
    <2>2. raw.Detached \subseteq {"UnsupportedAddress", "UnsupportedProtocol"}
        BY DEF validateProtocols
    <2>3. raw.ResolvedRefs \subseteq {"InvalidRouteKinds", "InvalidCertificateRef", "RefNotPermitted"}
        <3>1. tls.refs \subseteq {"InvalidCertificateRef", "RefNotPermitted"}
            BY <1>1, ValidateTLSRefs
        <3> QED BY <3>1 DEF validateProtocols
    <2>4. /\ {"ProtocolConflict", "HostnameConflict"} \subseteq ToSet(ListenerStatusFields["Conflicted"])
          /\ {"UnsupportedAddress", "UnsupportedProtocol"} \subseteq ToSet(ListenerStatusFields["Detached"])
          /\ {"InvalidRouteKinds", "InvalidCertificateRef", "RefNotPermitted"}
                \subseteq ToSet(ListenerStatusFields["ResolvedRefs"])
        BY StatusFieldsFacts
    <2> HIDE DEF raw
    <2> QED BY <2>1, <2>2, <2>3, <2>4 DEF StatusValid, HasError
<1>5. Finished(raw).Ready = {} <=> StatusValid(raw) /\ raw.Ready = {}
    BY DEF Finished
<1>6. raw.Conflicted = {} <=> Agree(spec, i)
    BY ConflictFacts
<1>7. validateListener(spec, i, gs, ss).status.Ready = {} <=>
        Agree(spec, i) /\ ~spec.addresses /\ Fits /\ tls.ready = {} /\ tls.refs = {}
    <2>1. raw.Detached = {} <=> ~spec.addresses /\ protocols.detached = {}
        OBVIOUS
    <2>2. raw.ResolvedRefs = {} <=> protocols.refs = {} /\ tls.refs = {}
        OBVIOUS
    <2>3. raw.Ready = tls.ready
        OBVIOUS
    <2> HIDE DEF raw, tls, protocols
    <2> QED BY <1>2, <1>3, <1>4, <1>5, <1>6, <2>1, <2>2, <2>3
<1>8. Fits => (tls.ready = {} /\ tls.refs = {} <=> Encryptable(l, gs, ss))
    BY <1>1, EncryptableFacts
<1>9. Servable(spec, i, gs, ss) <=> Agree(spec, i) /\ ~spec.addresses /\ Fits /\ Encryptable(l, gs, ss)
    <2>1. l.tls \in TLSConfigs
        BY <1>1 DEF ListenerSpecs
    <2>2. CASE l.tls = NoTLS
        BY <2>2 DEF Servable, Agree, Encryptable
    <2>3. CASE l.tls # NoTLS /\ l.tls.ref = NoRef
        BY <2>3 DEF Servable, Encryptable
    <2>4. CASE l.tls # NoTLS /\ l.tls.ref # NoRef
        BY <2>1, <2>4, TLSServable DEF Servable, Agree, Encryptable
    <2> QED BY <2>2, <2>3, <2>4
<1> HIDE DEF tls, Fits
<1> QED BY <1>7, <1>8, <1>9

----------------------------------------------------------------------------
(* The inductive invariant. *)

RecFields == {"pc", "spec", "generation", "status", "fresh", "version", "state"}
StateFields == {"listeners", "addresses", "status", "podReady", "reworded", "saw"}
StoredFields == {"pc", "spec", "generation", "status", "fresh", "state", "bound"}
JobFields == StoredFields \cup {"by"}

Validating == {"pods", "ip", "listeners", "upsert"}

GwShape == DOMAIN gw = {"spec", "generation", "status"} /\ gw.spec \in Specs

\* The reconciliation under way: it works on a specification, listener by
\* listener, and its version is not older than the stored one.
RecShape ==
    rec = Idle \/
        /\ DOMAIN rec = RecFields /\ DOMAIN rec.state = StateFields
        /\ rec.pc \in Validating \cup {"sync"}
        /\ rec.spec \in Specs
        /\ rec.version # "older"
        /\ rec.state.listeners \in Seq(ListenerStates)
        /\ rec.pc \in {"pods", "ip", "listeners"} =>
                Len(rec.state.listeners) < Len(rec.spec.listeners)

StoredShape ==
    stored = None \/
        /\ DOMAIN stored = StoredFields
        /\ stored.pc = "stored"
        /\ DOMAIN stored.state.listeners \subseteq Nat \ {0}

JobShape == job = Idle \/ (DOMAIN job = JobFields /\ job.pc \in {"deploy", "consul", "status"})

\* The controller waits for the sync that it has started.
SyncOwner == job # Idle /\ job.by = "reconcile" => rec.pc = "sync"

Shapes == GwShape /\ RecShape /\ StoredShape /\ JobShape /\ SyncOwner

\* The listeners that have been validated, and those in the store.
ListenersAreJudged ==
    /\ rec # Idle => \A i \in DOMAIN rec.state.listeners : Judged(rec.state.listeners[i].status)
    /\ stored # None =>
        \A i \in DOMAIN stored.state.listeners : Judged(stored.state.listeners[i].status)

\* The certificates that the reconciliation has let pass are still permitted,
\* or it will be done once more.
PassedIsPermitted ==
    rec # Idle /\ ~lost => \A i \in DOMAIN rec.state.listeners :
        \A c \in rec.state.listeners[i].certs : gatewayAllowedForSecretRef(c, grants) \/ queued

Publishing ==
    /\ Shapes /\ ListenersAreJudged /\ PassedIsPermitted
    /\ RevokedIsPending /\ BoundIsPublished

----------------------------------------------------------------------------
(* Steps that leave the reconciliation or the stored gateway alone. *)

SameRec ==
    /\ rec' = Idle <=> rec = Idle
    /\ rec # Idle => /\ DOMAIN rec' = DOMAIN rec
                     /\ rec'.pc = rec.pc /\ rec'.spec = rec.spec /\ rec'.version = rec.version
                     /\ rec'.state = rec.state

SameStored ==
    /\ stored' = None <=> stored = None
    /\ stored # None => /\ DOMAIN stored' = DOMAIN stored
                        /\ stored'.pc = stored.pc /\ stored'.state = stored.state
                        /\ stored'.bound = stored.bound

\* Copies become stale and stay what they are.
LEMMA StaleRec == ASSUME RecShape, rec' \in {rec, Stale(rec)} PROVE SameRec
<1>1. CASE rec = Idle
    BY <1>1 DEF SameRec, Stale, Idle
<1>2. CASE rec # Idle
    <2>1. rec.pc \notin {"none", "idle"} /\ DOMAIN rec = RecFields
        BY <1>2 DEF RecShape, Validating
    <2>2. Stale(rec) = [rec EXCEPT !.fresh = FALSE]
        BY <2>1 DEF Stale
    <2> QED BY <1>2, <2>1, <2>2 DEF SameRec, RecFields, Idle
<1> QED BY <1>1, <1>2

LEMMA StaleStored == ASSUME StoredShape, stored' \in {stored, Stale(stored)} PROVE SameStored
<1>1. CASE stored = None
    BY <1>1 DEF SameStored, Stale, None
<1>2. CASE stored # None
    <2>1. stored.pc = "stored" /\ DOMAIN stored = StoredFields
        BY <1>2 DEF StoredShape
    <2>2. Stale(stored) = [stored EXCEPT !.fresh = FALSE]
        BY <2>1 DEF Stale
    <2> QED BY <1>2, <2>1, <2>2 DEF SameStored, StoredFields, None
<1> QED BY <1>1, <1>2

LEMMA StaleJob ==
    ASSUME JobShape, job' \in {job, Stale(job)}
    PROVE  JobShape' /\ (job' = Idle <=> job = Idle) /\ (job # Idle => job'.by = job.by)
<1>1. CASE job = Idle
    BY <1>1 DEF JobShape, Stale, Idle
<1>2. CASE job # Idle
    <2>1. job.pc \in {"deploy", "consul", "status"} /\ DOMAIN job = JobFields
        BY <1>2 DEF JobShape
    <2>2. Stale(job) = [job EXCEPT !.fresh = FALSE]
        BY <2>1 DEF Stale
    <2> QED BY <1>2, <2>1, <2>2 DEF JobShape, JobFields, StoredFields, Idle
<1> QED BY <1>1, <1>2

\* What such a step must do: change grants only with a request or a loss.
LEMMA QuietStep ==
    ASSUME Publishing, SameRec, SameStored, GwShape', JobShape', SyncOwner',
           queued => queued', lost => lost',
           grants' = grants \/ queued' \/ lost'
    PROVE  Publishing'
<1>1. RecShape'
    <2>1. CASE rec = Idle
        BY <2>1 DEF SameRec, RecShape
    <2>2. CASE rec # Idle
        BY <2>2 DEF Publishing, Shapes, SameRec, RecShape
    <2> QED BY <2>1, <2>2
<1>2. StoredShape'
    BY DEF Publishing, Shapes, SameStored, StoredShape
<1>3. ListenersAreJudged'
    BY DEF Publishing, ListenersAreJudged, SameRec, SameStored
<1>4. PassedIsPermitted'
    BY DEF Publishing, PassedIsPermitted, SameRec
<1>5. RevokedIsPending'
    <2> SUFFICES ASSUME stored # None, ~lost', ~queued',
                        NEW i \in DOMAIN stored.state.listeners,
                        NEW c \in stored.state.listeners[i].certs
                 PROVE  \/ gatewayAllowedForSecretRef(c, grants)
                        \/ /\ rec'.pc \in Validating
                           /\ i <= Len(rec'.state.listeners) => c \notin rec'.state.listeners[i].certs
        BY DEF RevokedIsPending, SameStored, Validating
    <2>1. \/ gatewayAllowedForSecretRef(c, grants)
          \/ /\ rec.pc \in Validating
             /\ i <= Len(rec.state.listeners) => c \notin rec.state.listeners[i].certs
        BY DEF Publishing, RevokedIsPending, Validating
    <2>2. rec.pc \in Validating => rec # Idle
        BY DEF Validating, Idle
    <2> QED BY <2>1, <2>2 DEF SameRec
<1>6. BoundIsPublished'
    BY DEF Publishing, BoundIsPublished, SameStored
<1> QED BY <1>1, <1>2, <1>3, <1>4, <1>5, <1>6 DEF Publishing, Shapes

\* The reconciliation ends: after its sync, or with the request in the queue.
LEMMA RecEnds ==
    ASSUME Publishing, rec' = Idle, SameStored, GwShape', JobShape',
           job' # Idle => job'.by # "reconcile",
           UNCHANGED <<grants, lost>>, queued => queued',
           queued' \/ rec.pc = "sync"
    PROVE  Publishing'
<1>1. Shapes'
    BY DEF Publishing, Shapes, SameStored, StoredShape, RecShape, SyncOwner
<1>2. ListenersAreJudged' /\ PassedIsPermitted'
    BY DEF Publishing, ListenersAreJudged, PassedIsPermitted, SameStored
<1>3. RevokedIsPending'
    BY DEF Publishing, RevokedIsPending, SameStored
<1>4. BoundIsPublished'
    BY DEF Publishing, BoundIsPublished, SameStored
<1> QED BY <1>1, <1>2, <1>3, <1>4 DEF Publishing

----------------------------------------------------------------------------
(* The steps. *)

\* The world and the syncs that go on.
LEMMA WorldStep ==
    ASSUME Publishing,
           \/ \E s \in Specs : EditGateway(s)
           \/ \E gs \in GrantSets : \E listed \in BOOLEAN : GrantsChange(gs, listed)
           \/ \E ps \in PodSets : PodsChange(ps)
           \/ \E s : ServiceChanges(s)
           \/ \E s \in Secrets : SecretChanges(s)
           \/ ConsulChanges
    PROVE  Publishing'
<1> USE DEF Publishing, Shapes
<1>1. ASSUME NEW s \in Specs, EditGateway(s) PROVE Publishing'
    <2>1. SameRec /\ SameStored
        BY <1>1, StaleRec, StaleStored DEF EditGateway
    <2>2. JobShape' /\ SyncOwner'
        <3>1. rec'.pc = rec.pc
            BY <2>1 DEF SameRec
        <3> QED BY <1>1, <3>1, StaleJob DEF EditGateway, SyncOwner
    <2>3. GwShape'
        BY <1>1 DEF EditGateway, GwShape
    <2> QED BY <1>1, <2>1, <2>2, <2>3, QuietStep DEF EditGateway
<1>2. ASSUME UNCHANGED <<gw, rec, stored, job>>, queued => queued', lost => lost',
             grants' = grants \/ queued' \/ lost'
      PROVE  Publishing'
    <2>1. SameRec /\ SameStored
        BY <1>2, StaleRec, StaleStored
    <2> QED BY <1>2, <2>1, QuietStep DEF GwShape, JobShape, SyncOwner
<1>3. ASSUME NEW gs \in GrantSets, NEW listed \in BOOLEAN, GrantsChange(gs, listed) PROVE Publishing'
    BY <1>2, <1>3 DEF GrantsChange
<1>4. ASSUME NEW ps \in PodSets, PodsChange(ps) PROVE Publishing'
    BY <1>2, <1>4 DEF PodsChange
<1>5. ASSUME NEW s, ServiceChanges(s) PROVE Publishing'
    BY <1>2, <1>5 DEF ServiceChanges
<1>6. ASSUME NEW s \in Secrets, SecretChanges(s) PROVE Publishing'
    BY <1>2, <1>6 DEF SecretChanges
<1>7. ASSUME ConsulChanges PROVE Publishing'
    BY <1>2, <1>7 DEF ConsulChanges
<1> QED BY <1>1, <1>3, <1>4, <1>5, <1>6, <1>7

\* The syncs, up to their end.
LEMMA SyncStep ==
    ASSUME Publishing, Deploy \/ SyncConsul \/ SyncAll
    PROVE  Publishing'
<1> USE DEF Publishing, Shapes
<1>1. UNCHANGED <<gw, rec, stored, grants, lost>> /\ (queued => queued')
    BY DEF Deploy, SyncConsul, SyncAll, worldVars
<1>2. SameRec /\ SameStored
    BY <1>1, StaleRec, StaleStored
<1>3. JobShape' /\ SyncOwner'
    <2>1. CASE Deploy
        <3>1. job # Idle
            BY <2>1 DEF Deploy, Idle
        <3>2. DOMAIN job = JobFields /\ job' = [job EXCEPT !.pc = "consul"]
            BY <2>1, <3>1 DEF Deploy, JobShape
        <3> QED BY <1>1, <3>1, <3>2 DEF JobShape, SyncOwner, JobFields, StoredFields
    <2>2. CASE SyncConsul
        <3>1. job # Idle
            BY <2>2 DEF SyncConsul, Idle
        <3>2. DOMAIN job = JobFields
            BY <2>2, <3>1 DEF SyncConsul, JobShape
        <3>3. PICK r \in {FALSE, ~consulUp /\ ShowsSyncError(job.status)} :
                job' = [job EXCEPT !.pc = "status",
                                   !.state.status.InSync = IF consulUp THEN {} ELSE {"SyncError"},
                                   !.state.reworded = @ \/ r]
            BY <2>2, Zenon DEF SyncConsul
        <3>4. DOMAIN job' = JobFields /\ job'.pc = "status" /\ job'.by = job.by
            BY <3>2, <3>3 DEF JobFields, StoredFields
        <3> QED BY <1>1, <3>1, <3>4 DEF JobShape, SyncOwner
    <2>3. CASE SyncAll
        BY <2>3 DEF SyncAll, Sync, JobShape, SyncOwner, JobFields, StoredFields
    <2> QED BY <2>1, <2>2, <2>3
<1> QED BY <1>1, <1>2, <1>3, QuietStep DEF GwShape

\* The end of a sync, which ends the reconciliation that waits for it.
LEMMA SyncEndsStep ==
    ASSUME Publishing, job # Idle, job' = Idle, UNCHANGED <<grants, lost>>, GwShape',
           stored' \in {stored, Stale(stored)}, queued => queued',
           IF job.by = "reconcile" THEN rec' = Idle ELSE rec' \in {rec, Stale(rec)}
    PROVE  Publishing'
<1> USE DEF Publishing, Shapes
<1>1. SameStored
    BY StaleStored
<1>2. JobShape' /\ SyncOwner'
    BY DEF JobShape, SyncOwner
<1>3. CASE job.by = "reconcile"
    <2>1. rec.pc = "sync"
        BY <1>3 DEF SyncOwner
    <2> QED BY <1>1, <1>2, <1>3, <2>1, RecEnds
<1>4. CASE job.by # "reconcile"
    <2>1. SameRec
        BY <1>4, StaleRec
    <2> QED BY <1>1, <1>2, <1>4, <2>1, QuietStep
<1> QED BY <1>3, <1>4

LEMMA SyncDoneStep ==
    ASSUME Publishing, DeployFails \/ UpdateStatus \/ UpdateStatusFails
    PROVE  Publishing'
<1>1. job # Idle /\ GwShape
    <2>1. job.pc \in {"deploy", "status"}
        BY DEF DeployFails, UpdateStatus, UpdateStatusFails
    <2> QED BY <2>1 DEF Idle, Publishing, Shapes
<1>2. CASE DeployFails \/ UpdateStatusFails
    BY <1>1, <1>2, SyncEndsStep DEF DeployFails, UpdateStatusFails, SyncEnds, GwShape
<1>3. CASE UpdateStatus
    <2>1. GwShape'
        BY <1>1, <1>3 DEF UpdateStatus, SyncEnds, GwShape
    <2> QED BY <1>1, <1>3, <2>1, SyncEndsStep DEF UpdateStatus, SyncEnds
<1> QED BY <1>2, <1>3

LEMMA ReadFailsStep == ASSUME Publishing, ReadFails PROVE Publishing'
<1> USE DEF Publishing, Shapes
<1>1. SameStored
    BY StaleStored DEF ReadFails
<1>2. JobShape' /\ (job' # Idle => job'.by # "reconcile")
    BY DEF ReadFails, JobShape, SyncOwner
<1> QED BY <1>1, <1>2, RecEnds DEF ReadFails, GwShape

\* A new reconciliation has validated nothing.
LEMMA ReconcileStep == ASSUME Publishing, Reconcile PROVE Publishing'
<1> USE DEF Publishing, Shapes, worldVars
<1>1. /\ rec' # Idle
      /\ DOMAIN rec' = RecFields /\ DOMAIN rec'.state = StateFields
      /\ rec'.pc = "pods" /\ rec'.spec = gw.spec /\ rec'.version \in {"same", "newer"}
      /\ rec'.state.listeners = <<>>
    BY DEF Reconcile, Idle, RecFields, StateFields, InitialGatewayState
<1>2. rec'.spec \in GatewaySpecs
    BY <1>1, SpecsAssumption DEF GwShape
<1>3. Len(rec'.spec.listeners) > 0
    BY <1>2 DEF GatewaySpecs
<1>4. Shapes'
    <2>1. RecShape'
        BY <1>1, <1>3 DEF RecShape, Validating, GwShape
    <2>2. SyncOwner'
        BY DEF Reconcile, SyncOwner, Idle
    <2> QED BY <2>1, <2>2 DEF Reconcile, GwShape, StoredShape, JobShape
<1>5. ListenersAreJudged' /\ PassedIsPermitted'
    BY <1>1 DEF Reconcile, ListenersAreJudged, PassedIsPermitted
<1>6. RevokedIsPending'
    BY <1>1 DEF Reconcile, RevokedIsPending, StoredShape
<1>7. BoundIsPublished'
    BY DEF Reconcile, BoundIsPublished
<1> QED BY <1>4, <1>5, <1>6, <1>7

\* Reading pods and addresses leaves the listeners alone.
LEMMA ReadStep == ASSUME Publishing, validatePods \/ validateIP PROVE Publishing'
<1> USE DEF Publishing, Shapes, worldVars
<1>1. rec # Idle /\ rec.pc \in {"pods", "ip"}
    BY DEF validatePods, validateIP, Idle
<1>2. DOMAIN rec = RecFields /\ DOMAIN rec.state = StateFields
    BY <1>1 DEF RecShape
<1>3. /\ DOMAIN rec' = RecFields /\ DOMAIN rec'.state = StateFields
      /\ rec'.pc \in {"ip", "listeners"} /\ rec'.spec = rec.spec /\ rec'.version = rec.version
      /\ rec'.state.listeners = rec.state.listeners
    <2>1. CASE validatePods
        BY <1>2, <2>1 DEF validatePods, RecFields, StateFields
    <2>2. CASE validateIP
        BY <1>2, <2>2 DEF validateIP, RecFields, StateFields
    <2> QED BY <2>1, <2>2
<1>4. rec' # Idle
    BY <1>3 DEF Idle
<1>5. UNCHANGED <<gw, grants, queued, stored, job, lost>>
    BY DEF validatePods, validateIP
<1>6. RecShape'
    BY <1>1, <1>3 DEF RecShape, Validating
<1>7. GwShape' /\ StoredShape' /\ JobShape' /\ SyncOwner'
    BY <1>1, <1>5 DEF GwShape, StoredShape, JobShape, SyncOwner
<1>8. ListenersAreJudged' /\ PassedIsPermitted'
    BY <1>1, <1>3, <1>5 DEF ListenersAreJudged, PassedIsPermitted
<1>9. RevokedIsPending'
    BY <1>1, <1>3, <1>5 DEF RevokedIsPending
<1>10. BoundIsPublished'
    BY <1>5 DEF BoundIsPublished
<1> QED BY <1>6, <1>7, <1>8, <1>9, <1>10

\* One more listener, under the grants and Secrets of this moment.
LEMMA ListenerStep == ASSUME Publishing, validateListeners PROVE Publishing'
<1> USE DEF Publishing, Shapes, worldVars
<1> DEFINE ls == rec.state.listeners
           n == Len(ls) + 1
           l == validateListener(rec.spec, n, grants, secrets)
<1>1. rec # Idle /\ rec.pc = "listeners"
    BY DEF validateListeners, Idle
<1>2. /\ DOMAIN rec = RecFields /\ DOMAIN rec.state = StateFields
      /\ rec.spec \in Specs /\ rec.version # "older"
      /\ ls \in Seq(ListenerStates) /\ Len(ls) < Len(rec.spec.listeners)
    BY <1>1 DEF RecShape
<1>3. rec.spec \in GatewaySpecs
    BY <1>2, SpecsAssumption
<1>4. n \in DOMAIN rec.spec.listeners /\ n <= Len(rec.spec.listeners)
      /\ Len(rec.spec.listeners) \in Nat /\ n \in Nat
    BY <1>2, <1>3 DEF GatewaySpecs
<1>5. /\ l \in ListenerStates /\ Judged(l.status)
      /\ \A c \in l.certs : gatewayAllowedForSecretRef(c, grants)
    BY <1>3, <1>4, ValidateListenerFacts
<1>6. /\ DOMAIN rec' = RecFields /\ DOMAIN rec'.state = StateFields
      /\ rec'.pc = (IF n = Len(rec.spec.listeners) THEN "upsert" ELSE "listeners")
      /\ rec'.spec = rec.spec /\ rec'.version = rec.version
      /\ rec'.state.listeners = Append(ls, l)
    <2> DEFINE After(r, ready) ==
            [rec.state EXCEPT !.listeners = Append(ls, l), !.saw = Append(@, secrets),
                              !.reworded = r, !.status.Ready = ready]
    <2>1. \E r, ready :
            rec' = [rec EXCEPT !.pc = IF n = Len(rec.spec.listeners) THEN "upsert" ELSE @,
                               !.state = After(r, ready)]
        <3> DEFINE done == n = Len(rec.spec.listeners)
                   readiness == IF done
                                THEN GatewayReadiness(rec.spec, Append(ls, l), rec.state.podReady,
                                                      rec.state.addresses # {})
                                ELSE rec.state.status.Ready
        <3>1. \E r \in {FALSE, done /\ ConflictShuffled(Append(ls, l)) /\ ShowsConflict(rec.status)} :
                rec' = [rec EXCEPT !.pc = IF done THEN "upsert" ELSE @,
                                   !.state = After(r, readiness)]
            BY Zenon DEF validateListeners
        <3> HIDE DEF After, readiness
        <3> QED BY <3>1, Zenon
    <2>2. \A r, ready : /\ DOMAIN After(r, ready) = StateFields
                        /\ After(r, ready).listeners = Append(ls, l)
        BY <1>2 DEF StateFields
    <2> HIDE DEF After
    <2> QED BY <1>1, <1>2, <2>1, <2>2 DEF RecFields
<1>7. rec' # Idle
    BY <1>6 DEF Idle
<1>8. UNCHANGED <<gw, grants, queued, stored, job, lost>>
    BY DEF validateListeners
<1> HIDE DEF l
<1>9. /\ Append(ls, l) \in Seq(ListenerStates) /\ Len(Append(ls, l)) = n
      /\ DOMAIN Append(ls, l) = 1..n
      /\ \A i \in 1..n : Append(ls, l)[i] = IF i = n THEN l ELSE ls[i]
      /\ DOMAIN ls = 1..(n - 1)
    BY <1>2, <1>5
<1>10. RecShape'
    <2>1. rec'.pc = "listeners" => n < Len(rec.spec.listeners)
        BY <1>4, <1>6
    <2> QED BY <1>2, <1>6, <1>9, <2>1 DEF RecShape, Validating
<1>11. GwShape' /\ StoredShape' /\ JobShape' /\ SyncOwner'
    BY <1>1, <1>8 DEF GwShape, StoredShape, JobShape, SyncOwner
<1>12. ListenersAreJudged'
    BY <1>1, <1>4, <1>5, <1>6, <1>8, <1>9 DEF ListenersAreJudged
<1>13. PassedIsPermitted'
    BY <1>1, <1>4, <1>5, <1>6, <1>8, <1>9 DEF PassedIsPermitted
<1>14. RevokedIsPending'
    <2> SUFFICES ASSUME stored # None, ~lost, ~queued,
                        NEW i \in DOMAIN stored.state.listeners,
                        NEW c \in stored.state.listeners[i].certs,
                        ~gatewayAllowedForSecretRef(c, grants)
                 PROVE  /\ rec'.pc \in {"pods", "ip", "listeners", "upsert"}
                        /\ i <= Len(rec'.state.listeners) => c \notin rec'.state.listeners[i].certs
        BY <1>8 DEF RevokedIsPending
    <2>1. i <= Len(ls) => c \notin ls[i].certs
        BY DEF RevokedIsPending
    <2>2. i \in Nat \ {0}
        BY DEF StoredShape
    <2>3. c \notin l.certs
        BY <1>5
    <2> QED BY <1>4, <1>6, <1>9, <2>1, <2>2, <2>3
<1>15. BoundIsPublished'
    BY <1>8 DEF BoundIsPublished
<1> QED BY <1>10, <1>11, <1>12, <1>13, <1>14, <1>15

\* What was validated replaces what was stored.
LEMMA UpsertStep == ASSUME Publishing, UpsertGateway PROVE Publishing'
<1> USE DEF Publishing, Shapes, worldVars
<1> DEFINE ls == rec.state.listeners
           kept == stored'.state.listeners
<1>1. rec # Idle /\ rec.pc = "upsert" /\ job = Idle
    BY DEF UpsertGateway, Idle
<1>2. /\ DOMAIN rec = RecFields /\ DOMAIN rec.state = StateFields
      /\ rec.spec \in Specs /\ rec.version # "older"
      /\ ls \in Seq(ListenerStates)
    BY <1>1 DEF RecShape
<1>3. /\ stored' = [pc |-> "stored", spec |-> rec.spec, generation |-> rec.generation,
                    status |-> rec.status, fresh |-> rec.fresh,
                    state |-> StoredState(rec.state), bound |-> Bound(rec.state)]
      /\ rec' = [rec EXCEPT !.pc = "sync"]
      /\ DOMAIN job' = JobFields /\ job'.pc = "deploy" /\ job'.by = "reconcile"
      /\ UNCHANGED <<gw, grants, queued, lost>>
    BY <1>2 DEF UpsertGateway, Accepts, Sync, JobFields, StoredFields
<1>4. /\ DOMAIN rec' = RecFields /\ rec'.pc = "sync" /\ rec'.spec = rec.spec
      /\ rec'.version = rec.version /\ rec'.state = rec.state
    BY <1>2, <1>3 DEF RecFields
<1>5. /\ kept = [i \in DOMAIN ls |-> StoredListener(ls[i])]
      /\ DOMAIN ls = 1..Len(ls) /\ Len(ls) \in Nat
    <2>1. stored'.state = StoredState(rec.state)
        BY <1>3
    <2>2. StoredState(rec.state).listeners =
            [i \in DOMAIN ls |-> StoredListener(ls[i])]
        BY <1>2 DEF StoredState, StateFields
    <2> QED BY <1>2, <2>1, <2>2
<1>6. ASSUME NEW i \in DOMAIN kept
      PROVE  /\ i \in DOMAIN ls /\ i \in Nat \ {0}
             /\ kept[i].status = Copied(ListenerStatusFields, ls[i].status)
             /\ kept[i].certs = ls[i].certs
    <2>1. i \in DOMAIN ls /\ ls[i] \in ListenerStates
        BY <1>2, <1>5
    <2> QED BY <1>5, <2>1 DEF ListenerStates, StoredListener
<1>7. stored' # None /\ rec' # Idle
    BY <1>3, <1>4 DEF None, Idle
<1> HIDE DEF kept
<1>8. Shapes'
    <2>1. RecShape'
        BY <1>2, <1>4 DEF RecShape
    <2>2. StoredShape'
        <3>1. DOMAIN stored' = StoredFields /\ stored'.pc = "stored"
            BY <1>3 DEF StoredFields
        <3> QED BY <3>1, <1>6 DEF StoredShape, kept
    <2>3. JobShape' /\ SyncOwner'
        BY <1>3, <1>4 DEF JobShape, SyncOwner
    <2> QED BY <1>3, <2>1, <2>2, <2>3 DEF GwShape
<1>9. ASSUME NEW i \in DOMAIN ls PROVE Judged(ls[i].status)
    BY <1>1 DEF ListenersAreJudged
<1>10. ListenersAreJudged'
    <2>1. ASSUME NEW i \in DOMAIN kept PROVE Judged(kept[i].status)
        BY <1>6, <1>9, CopiedFacts
    <2> QED BY <1>4, <1>9, <2>1 DEF ListenersAreJudged, kept
<1>11. PassedIsPermitted'
    BY <1>1, <1>3, <1>4 DEF PassedIsPermitted
<1>12. RevokedIsPending'
    <2>1. ASSUME ~lost, NEW i \in DOMAIN kept, NEW c \in kept[i].certs
          PROVE  gatewayAllowedForSecretRef(c, grants) \/ queued
        BY <1>1, <1>6, <2>1 DEF PassedIsPermitted
    <2> QED BY <1>3, <2>1 DEF RevokedIsPending, kept
<1>13. BoundIsPublished'
    <2> SUFFICES ASSUME NEW i \in DOMAIN kept, stored'.bound[i] > 0
                 PROVE  StatusValid(kept[i].status)
        BY DEF BoundIsPublished, kept
    <2>1. i \in DOMAIN ls /\ kept[i].status = Copied(ListenerStatusFields, ls[i].status)
        BY <1>6
    <2>2. stored'.bound[i] = IF ls[i].status.Ready = {} THEN routes[i] ELSE 0
        BY <1>3, <2>1 DEF Bound
    <2>3. ls[i].status.Ready = {}
        BY <2>2
    <2>4. Judged(ls[i].status)
        BY <1>9, <2>1
    <2> QED BY <2>1, <2>3, <2>4, CopiedFacts
<1> QED BY <1>8, <1>10, <1>11, <1>12, <1>13

\* A route binds to a listener that is ready, and so valid.
LEMMA RouteStep ==
    ASSUME Publishing, NEW i \in Listeners, NEW n \in 0..2, RouteChanges(i, n)
    PROVE  Publishing'
<1> USE DEF Publishing, Shapes
<1>1. UNCHANGED <<gw, grants, queued, rec, lost>> /\ job = Idle
    BY DEF RouteChanges
<1>2. CASE UNCHANGED <<stored, job>>
    <2>1. SameRec /\ SameStored
        BY <1>1, <1>2, StaleRec, StaleStored
    <2> QED BY <1>1, <1>2, <2>1, QuietStep DEF GwShape, JobShape, SyncOwner
<1>3. CASE /\ stored # None /\ stored.state.listeners[i].status.Ready = {}
           /\ stored' = [stored EXCEPT !.bound[i] = n] /\ job' = Sync("route", stored')
    <2>1. DOMAIN stored = StoredFields
        BY <1>3 DEF StoredShape
    <2>2. /\ DOMAIN stored' = StoredFields /\ stored'.pc = stored.pc
          /\ stored'.state = stored.state
          /\ stored'.bound = [stored.bound EXCEPT ![i] = n]
        BY <1>3, <2>1 DEF StoredFields
    <2>3. DOMAIN job' = JobFields /\ job'.pc = "deploy" /\ job'.by = "route"
        BY <1>3 DEF Sync, JobFields, StoredFields
    <2>4. stored' # None
        BY <2>2 DEF None, StoredFields
    <2>5. Shapes'
        BY <1>1, <1>3, <2>2, <2>3 DEF GwShape, RecShape, StoredShape, JobShape, SyncOwner
    <2>6. ListenersAreJudged' /\ PassedIsPermitted' /\ RevokedIsPending'
        BY <1>1, <1>3, <2>2 DEF ListenersAreJudged, PassedIsPermitted, RevokedIsPending
    <2>7. BoundIsPublished'
        <3> SUFFICES ASSUME NEW j \in DOMAIN stored.state.listeners, stored'.bound[j] > 0
                     PROVE  StatusValid(stored.state.listeners[j].status)
            BY <2>2 DEF BoundIsPublished
        <3>1. CASE j = i
            BY <1>3, <3>1 DEF ListenersAreJudged, Judged
        <3>2. CASE j # i
            BY <1>3, <2>2, <3>2 DEF BoundIsPublished
        <3> QED BY <3>1, <3>2
    <2> QED BY <2>5, <2>6, <2>7
<1> QED BY <1>2, <1>3 DEF RouteChanges

LEMMA InitPublishing == Init => Publishing
<1> SUFFICES ASSUME Init PROVE Publishing
    OBVIOUS
<1>1. GwShape
    BY DEF Init, GwShape
<1> QED BY <1>1 DEF Init, Publishing, Shapes, RecShape, StoredShape, JobShape, SyncOwner, ListenersAreJudged,
            PassedIsPermitted, RevokedIsPending, BoundIsPublished

LEMMA PublishingStep == Publishing /\ [Next]_vars => Publishing'
<1> SUFFICES ASSUME Publishing, [Next]_vars PROVE Publishing'
    OBVIOUS
<1>1. CASE Next
    BY <1>1, WorldStep, SyncStep, SyncDoneStep, ReadFailsStep, ReconcileStep, ReadStep, ListenerStep,
       UpsertStep, RouteStep
       DEF Next, Controller, Syncing, World
<1>2. CASE UNCHANGED vars
    <2>1. SameRec /\ SameStored
        BY <1>2, StaleRec, StaleStored DEF vars, Publishing, Shapes
    <2> QED BY <1>2, <2>1, QuietStep
            DEF vars, worldVars, Publishing, Shapes, GwShape, JobShape, SyncOwner
<1> QED BY <1>1, <1>2

----------------------------------------------------------------------------
(* The theorems. *)

\* A certificate of another namespace is never kept in the store without its
\* grant, unless a request or a reconciliation that takes it away is on its way
\* (GatewayStatus!RevokedIsPending), for any gateways and grants.
THEOREM RevokedCertificatesArePending == Spec => []RevokedIsPending
<1>1. Publishing => RevokedIsPending
    BY DEF Publishing
<1> QED BY <1>1, InitPublishing, PublishingStep, PTL DEF Spec

\* A listener that takes routes is one that Resolve publishes
\* (GatewayStatus!BoundIsPublished): the binder looks at the Ready errors only,
\* the resolver at all of them, and the copy that both see has gone through JSON.
THEOREM WhatBindsIsPublished == Spec => []BoundIsPublished
<1>1. Publishing => BoundIsPublished
    BY DEF Publishing
<1> QED BY <1>1, InitPublishing, PublishingStep, PTL DEF Spec
=============================================================================
