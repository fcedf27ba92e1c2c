---------------------------- MODULE RoutesProofs ----------------------------
(***************************************************************************)
(* Proofs about Routes, for any routes, grants, services, catalogs and any *)
(* number of changes and retries: a route is bound with all of its         *)
(* backends, each with a grant or with a request that will look again, and *)
(* the statuses of other controllers are kept.                             *)
(***************************************************************************)
EXTENDS Routes, WellFoundedInduction, TLAPS

----------------------------------------------------------------------------
(* The backends of a route are a sequence. *)

\* A set of naturals has a least element.
LEMMA LeastExists ==
    ASSUME NEW S \in SUBSET Nat, S # {}
    PROVE  \E i \in S : \A j \in S : i <= j
<1> DEFINE R == OpToRel(<, Nat)
<1>1. \E x \in S : \A y \in S : ~(<<y, x>> \in R)
    <2> HIDE DEF R
    <2>1. IsWellFoundedOn(R, Nat)
        BY NatLessThanWellFounded DEF R
    <2> QED BY <2>1, WFMin
<1>2. PICK x \in S : \A y \in S : ~(<<y, x>> \in R)
    BY <1>1
<1>3. \A y \in S : ~(y < x)
    BY <1>2 DEF OpToRel
<1> QED BY <1>3

\* A prefix of the concatenation, up to the sequence n.
Flattening(seqs, n, T) ==
    {g \in [1..n -> Seq(T)] :
        \A i \in 1..n : g[i] = IF i = 1 THEN seqs[i] ELSE g[i - 1] \o seqs[i]}

\* There is one for every n: else there is a least n without, and the one of
\* n - 1 can be continued.
LEMMA FlatteningExists ==
    ASSUME NEW T, NEW seqs \in Seq(Seq(T)), NEW n \in 1..Len(seqs)
    PROVE  \E g : g \in Flattening(seqs, n, T)
<1> DEFINE Bad == {m \in 1..Len(seqs) : Flattening(seqs, m, T) = {}}
<1>1. SUFFICES ASSUME Bad # {} PROVE FALSE
    OBVIOUS
<1>2. Len(seqs) \in Nat /\ \A i \in 1..Len(seqs) : seqs[i] \in Seq(T)
    OBVIOUS
<1>3. PICK m \in Bad : \A j \in Bad : m <= j
    <2>1. Bad \in SUBSET Nat
        BY <1>2
    <2> HIDE DEF Bad
    <2> QED BY <1>1, <2>1, LeastExists
<1>4. CASE m = 1
    <2> DEFINE g == [i \in 1..m |-> seqs[1]]
    <2>1. g \in [1..m -> Seq(T)] /\ m = 1 /\ \A i \in 1..m : i = 1 /\ g[i] = seqs[i]
        BY <1>2, <1>3, <1>4
    <2> HIDE DEF g
    <2>2. g \in Flattening(seqs, m, T)
        BY <2>1 DEF Flattening
    <2> QED BY <1>3, <2>2
<1>5. CASE m # 1
    <2>1. m \in Nat /\ m - 1 \in 1..Len(seqs) /\ m - 1 \notin Bad
        <3>1. m \in 1..Len(seqs)
            BY <1>3
        <3>2. m \in Nat /\ m - 1 \in 1..Len(seqs) /\ ~(m <= m - 1)
            BY <1>2, <1>5, <3>1
        <3> HIDE DEF Bad
        <3> QED BY <1>3, <3>2
    <2>2. PICK f : f \in Flattening(seqs, m - 1, T)
        BY <2>1
    <2> DEFINE g == [i \in 1..m |-> IF i = m THEN f[m - 1] \o seqs[m] ELSE f[i]]
    <2>3. /\ f \in [1..(m - 1) -> Seq(T)]
          /\ \A i \in 1..(m - 1) : f[i] = IF i = 1 THEN seqs[i] ELSE f[i - 1] \o seqs[i]
        BY <2>2 DEF Flattening
    <2>4. f[m - 1] \o seqs[m] \in Seq(T)
        <3>1. f[m - 1] \in Seq(T) /\ seqs[m] \in Seq(T)
            BY <1>2, <2>1, <2>3
        <3> QED BY <3>1
    <2>5. g \in [1..m -> Seq(T)]
        BY <2>1, <2>3, <2>4
    <2>6. ASSUME NEW i \in 1..m PROVE g[i] = IF i = 1 THEN seqs[i] ELSE g[i - 1] \o seqs[i]
        <3>1. CASE i = m
            <4>1. m \in 1..m /\ m - 1 \in 1..m /\ m - 1 # m
                BY <2>1
            <4>3. g[i] = f[m - 1] \o seqs[m]
                BY <3>1, <4>1
            <4>2. g[m - 1] = f[m - 1]
                BY <4>1
            <4> HIDE DEF g
            <4> QED BY <1>5, <3>1, <4>2, <4>3
        <3>2. CASE i # m
            <4>1. i \in 1..(m - 1) /\ (i # 1 => i - 1 \in 1..(m - 1))
                BY <2>1, <3>2
            <4>2. g[i] = f[i] /\ (i # 1 => g[i - 1] = f[i - 1])
                BY <2>1, <3>2, <4>1
            <4> HIDE DEF g
            <4> QED BY <2>3, <4>1, <4>2
        <3> QED BY <3>1, <3>2
    <2> HIDE DEF g
    <2>7. g \in Flattening(seqs, m, T)
        BY <2>5, <2>6 DEF Flattening
    <2> QED BY <1>3, <2>7
<1> QED BY <1>4, <1>5

\* FlattenSeq is the last element of such a function.
LEMMA FlattenSeqIsFlattening ==
    ASSUME NEW T, NEW seqs \in Seq(Seq(T)), Len(seqs) # 0
    PROVE  \E f \in Flattening(seqs, Len(seqs), T) : FlattenSeq(seqs) = f[Len(seqs)]
<1> DEFINE N == Len(seqs)
           IsFlatten(f) == f = [i \in 1..N |-> IF i = 1 THEN seqs[i] ELSE f[i - 1] \o seqs[i]]
           flatten == CHOOSE f : IsFlatten(f)
<1>1. N \in 1..Len(seqs) /\ N \in Nat
    OBVIOUS
<1>2. PICK g : g \in Flattening(seqs, N, T)
    BY <1>1, FlatteningExists
<1>3. IsFlatten(g)
    BY <1>2 DEF Flattening
<1>4. IsFlatten(flatten)
    <2> HIDE DEF IsFlatten
    <2> QED BY <1>3
<1>5. /\ DOMAIN flatten = 1..N /\ flatten = [i \in 1..N |-> flatten[i]]
      /\ \A i \in 1..N : flatten[i] = IF i = 1 THEN seqs[i] ELSE flatten[i - 1] \o seqs[i]
    BY <1>4
<1>6. FlattenSeq(seqs) = flatten[N]
    BY DEF FlattenSeq
<1> HIDE DEF flatten
<1>7. ASSUME NEW i \in 1..N PROVE flatten[i] \in Seq(T)
    <2> DEFINE Bad == {j \in 1..N : flatten[j] \notin Seq(T)}
    <2> SUFFICES ASSUME Bad # {} PROVE FALSE
        OBVIOUS
    <2>1. PICK m \in Bad : \A j \in Bad : m <= j
        <3>1. Bad \in SUBSET Nat
            BY <1>1
        <3> HIDE DEF Bad
        <3> QED BY <3>1, LeastExists
    <2>2. m = 1 \/ (m - 1 \in 1..N /\ m - 1 \notin Bad)
        BY <1>1, <2>1
    <2>3. seqs[m] \in Seq(T)
        BY <1>1
    <2>4. m \in 1..N /\ flatten[m] \notin Seq(T)
        BY <2>1
    <2>5. m # 1 => flatten[m - 1] \in Seq(T) /\ flatten[m] = flatten[m - 1] \o seqs[m]
        BY <1>5, <2>2, <2>4
    <2>6. m = 1 => flatten[m] = seqs[m]
        BY <1>5, <2>4
    <2>7. ASSUME NEW x \in Seq(T), NEW y \in Seq(T) PROVE x \o y \in Seq(T)
        OBVIOUS
    <2> HIDE DEF Bad
    <2>8. CASE m = 1
        BY <2>3, <2>4, <2>6, <2>8
    <2>9. CASE m # 1
        <3>1. flatten[m - 1] \o seqs[m] \in Seq(T)
            BY <2>3, <2>5, <2>7, <2>9
        <3> QED BY <2>4, <2>5, <2>9, <3>1
    <2> QED BY <2>8, <2>9
<1>8. flatten \in [1..N -> Seq(T)]
    BY <1>5, <1>7
<1>9. flatten \in Flattening(seqs, N, T)
    BY <1>5, <1>8 DEF Flattening
<1> QED BY <1>6, <1>9

\* Sequences of T in a row are a sequence of T.
LEMMA FlattenSeqType ==
    ASSUME NEW T, NEW seqs \in Seq(Seq(T))
    PROVE  FlattenSeq(seqs) \in Seq(T)
<1>1. CASE Len(seqs) = 0
    BY <1>1 DEF FlattenSeq
<1>2. CASE Len(seqs) # 0
    <2>1. PICK f \in Flattening(seqs, Len(seqs), T) : FlattenSeq(seqs) = f[Len(seqs)]
        BY <1>2, FlattenSeqIsFlattening
    <2>2. Len(seqs) \in 1..Len(seqs)
        BY <1>2
    <2> QED BY <2>1, <2>2 DEF Flattening
<1> QED BY <1>1, <1>2

\* All of their elements are in it.
LEMMA FlattenSeqKeeps ==
    ASSUME NEW T, NEW seqs \in Seq(Seq(T)), NEW i \in DOMAIN seqs, NEW b \in DOMAIN seqs[i]
    PROVE  \E k \in DOMAIN FlattenSeq(seqs) : FlattenSeq(seqs)[k] = seqs[i][b]
<1> DEFINE N == Len(seqs)
<1>1. N \in Nat /\ N # 0 /\ i \in 1..N /\ \A j \in 1..N : seqs[j] \in Seq(T)
    OBVIOUS
<1>2. PICK f \in Flattening(seqs, N, T) : FlattenSeq(seqs) = f[N]
    BY <1>1, FlattenSeqIsFlattening
<1>3. \A j \in 1..N : /\ f[j] \in Seq(T)
                      /\ f[j] = IF j = 1 THEN seqs[j] ELSE f[j - 1] \o seqs[j]
    BY <1>2 DEF Flattening
<1> DEFINE Has(j) == \E k \in DOMAIN f[j] : f[j][k] = seqs[i][b]
           Bad == {j \in i..N : ~Has(j)}
<1>4. ASSUME NEW x \in Seq(T), NEW y \in Seq(T)
      PROVE  /\ \A k \in DOMAIN x : k \in DOMAIN (x \o y) /\ (x \o y)[k] = x[k]
             /\ \A k \in DOMAIN y : Len(x) + k \in DOMAIN (x \o y) /\ (x \o y)[Len(x) + k] = y[k]
    OBVIOUS
<1>5. Has(i)
    <2>1. CASE i = 1
        BY <1>1, <1>3, <2>1
    <2>2. CASE i # 1
        <3>1. i - 1 \in 1..N
            BY <1>1, <2>2
        <3>2. f[i - 1] \in Seq(T) /\ seqs[i] \in Seq(T) /\ f[i] = f[i - 1] \o seqs[i]
            BY <1>1, <1>3, <2>2, <3>1
        <3>3. \A k \in DOMAIN seqs[i] :
                /\ Len(f[i - 1]) + k \in DOMAIN (f[i - 1] \o seqs[i])
                /\ (f[i - 1] \o seqs[i])[Len(f[i - 1]) + k] = seqs[i][k]
            BY <1>4, <3>2, Zenon
        <3>4. \A k \in DOMAIN seqs[i] : Len(f[i - 1]) + k \in DOMAIN f[i] /\ f[i][Len(f[i - 1]) + k] = seqs[i][k]
            BY <3>2, <3>3, Zenon
        <3> QED BY <3>4, Zenon
    <2> QED BY <2>1, <2>2
<1>6. Bad = {}
    <2> SUFFICES ASSUME Bad # {} PROVE FALSE
        OBVIOUS
    <2>1. PICK m \in Bad : \A j \in Bad : m <= j
        <3>1. Bad \in SUBSET Nat
            BY <1>1
        <3> HIDE DEF Bad
        <3> QED BY <3>1, LeastExists
    <2>2. m \in i..N /\ m # i /\ ~Has(m)
        <3>1. m \in i..N /\ ~Has(m)
            BY <2>1
        <3> HIDE DEF Has
        <3> QED BY <1>5, <3>1
    <2>3. m - 1 \in i..N /\ m - 1 \in 1..N /\ m \in 1..N /\ m # 1 /\ ~(m <= m - 1)
        BY <1>1, <2>2
    <2>4. Has(m - 1)
        <3> HIDE DEF Has
        <3> QED BY <2>1, <2>3
    <2>5. f[m - 1] \in Seq(T) /\ seqs[m] \in Seq(T) /\ f[m] = f[m - 1] \o seqs[m]
        BY <1>1, <1>3, <2>3
    <2>6. Has(m)
        <3>1. \A k \in DOMAIN f[m - 1] : /\ k \in DOMAIN (f[m - 1] \o seqs[m])
                                         /\ (f[m - 1] \o seqs[m])[k] = f[m - 1][k]
            BY <1>4, <2>5, Zenon
        <3>2. \A k \in DOMAIN f[m - 1] : k \in DOMAIN f[m] /\ f[m][k] = f[m - 1][k]
            BY <2>5, <3>1, Zenon
        <3> QED BY <2>4, <3>2, Zenon
    <2> QED BY <2>2, <2>6
<1>7. Has(N)
    <2>1. N \in i..N
        BY <1>1
    <2> HIDE DEF Has
    <2> QED BY <1>6, <2>1
<1> QED BY <1>2, <1>7

\* Backends has an index for each of its backends and no other, and it has every
\* backend of a route that is not of the wrong shape.
LEMMA BackendsFacts ==
    ASSUME NEW spec \in RouteSpecs
    PROVE  /\ Len(Backends(spec)) \in Nat
           /\ DOMAIN Backends(spec) = 1..Len(Backends(spec))
           /\ ~WrongShape(spec) =>
                \A r \in DOMAIN spec.rules : \A b \in DOMAIN spec.rules[r] :
                    \E k \in DOMAIN Backends(spec) :
                        Backends(spec)[k] = [rule |-> r, ref |-> spec.rules[r][b]]
<1> DEFINE T == [rule : Nat, ref : BackendRefs]
           Rule(r) == [b \in DOMAIN spec.rules[r] |-> [rule |-> r, ref |-> spec.rules[r][b]]]
           seqs == [r \in DOMAIN spec.rules |-> Rule(r)]
<1>1. spec.rules \in Seq(Seq(BackendRefs))
    BY DEF RouteSpecs
<1>2. ASSUME NEW r \in DOMAIN spec.rules PROVE Rule(r) \in Seq(T)
    <2>1. spec.rules[r] \in Seq(BackendRefs) /\ r \in Nat
        BY <1>1
    <2>2. DOMAIN spec.rules[r] = 1..Len(spec.rules[r]) /\ Len(spec.rules[r]) \in Nat
        BY <2>1
    <2>3. Rule(r) \in [1..Len(spec.rules[r]) -> T]
        BY <2>1, <2>2
    <2> HIDE DEF Rule, T
    <2> QED BY <2>2, <2>3
<1>3. seqs \in Seq(Seq(T))
    <2>1. DOMAIN spec.rules = 1..Len(spec.rules) /\ Len(spec.rules) \in Nat
        BY <1>1
    <2> HIDE DEF Rule, T
    <2>2. seqs \in [1..Len(spec.rules) -> Seq(T)]
        BY <1>2, <2>1
    <2> QED BY <2>1, <2>2
<1>4. Backends(spec) = IF WrongShape(spec) THEN <<>> ELSE FlattenSeq(seqs)
    BY DEF Backends
<1>5. Backends(spec) \in Seq(T)
    <2> HIDE DEF seqs, T
    <2>1. FlattenSeq(seqs) \in Seq(T)
        BY <1>3, FlattenSeqType
    <2> QED BY <1>4, <2>1
<1>6. ASSUME ~WrongShape(spec), NEW r \in DOMAIN spec.rules, NEW b \in DOMAIN spec.rules[r]
      PROVE  \E k \in DOMAIN Backends(spec) : Backends(spec)[k] = [rule |-> r, ref |-> spec.rules[r][b]]
    <2>1. r \in DOMAIN seqs /\ b \in DOMAIN seqs[r] /\ seqs[r][b] = [rule |-> r, ref |-> spec.rules[r][b]]
        OBVIOUS
    <2> HIDE DEF seqs, T
    <2>2. \E k \in DOMAIN FlattenSeq(seqs) : FlattenSeq(seqs)[k] = seqs[r][b]
        BY <1>3, <2>1, FlattenSeqKeeps
    <2> QED BY <1>4, <1>6, <2>1, <2>2
<1> HIDE DEF T
<1> QED BY <1>5, <1>6

----------------------------------------------------------------------------
(* The Consul service of a backend. *)

\* Of pairs of naturals one comes first.
LEMMA FirstPairExists ==
    ASSUME NEW S \in SUBSET (Nat \X Nat), S # {}
    PROVE  \E p \in S : \A q \in S : p[1] < q[1] \/ (p[1] = q[1] /\ p[2] <= q[2])
<1> DEFINE A == {p[1] : p \in S}
<1>1. \A p \in S : p[1] \in Nat /\ p[2] \in Nat
    OBVIOUS
<1>2. A \in SUBSET Nat /\ A # {}
    BY <1>1
<1>3. PICK a \in A : \A x \in A : a <= x
    <2> HIDE DEF A
    <2> QED BY <1>2, LeastExists
<1> DEFINE B == {p[2] : p \in {q \in S : q[1] = a}}
<1>4. B \in SUBSET Nat /\ B # {}
    BY <1>1, <1>3
<1>5. PICK b \in B : \A x \in B : b <= x
    <2> HIDE DEF B
    <2> QED BY <1>4, LeastExists
<1>6. PICK p \in S : p[1] = a /\ p[2] = b
    BY <1>5
<1>7. ASSUME NEW q \in S PROVE p[1] < q[1] \/ (p[1] = q[1] /\ p[2] <= q[2])
    <2>1. q[1] \in A /\ (q[1] = a => q[2] \in B)
        OBVIOUS
    <2>2. a <= q[1] /\ (q[1] = a => b <= q[2])
        BY <1>3, <1>5, <2>1
    <2> QED BY <1>1, <1>6, <2>2
<1> QED BY <1>6, <1>7

\* One name for some instances is the name of one of them.
LEMMA SingleFacts ==
    ASSUME NEW instances, instances # {}
    PROVE  /\ Single(instances).error \in {"none", "ConsulService"}
           /\ Single(instances).error = "none" =>
                \E i \in instances : /\ Single(instances).namespace = i.namespace
                                     /\ Single(instances).service = i.service
<1> DEFINE names == {[namespace |-> i.namespace, service |-> i.service] : i \in instances}
           name == CHOOSE n \in names : TRUE
<1>1. name \in names
    OBVIOUS
<1>2. PICK i \in instances : name = [namespace |-> i.namespace, service |-> i.service]
    BY <1>1
<1>3. Single(instances) = IF Cardinality(names) > 1 THEN Failed("ConsulService")
                          ELSE Found(name.namespace, name.service)
    BY DEF Single
<1> HIDE DEF names, name
<1> QED BY <1>2, <1>3 DEF Failed, Found

\* A backend that is a Service is sent to an instance of that very Service, and
\* is not found only when none of the searched nodes and namespaces has one
\* (findGlobalCatalogService in internal/k8s/service/resolver.go): the search
\* stops at the first place that has instances, which there always is.
THEOREM ServicesAreOfTheirBackend ==
    ASSUME NEW of, NEW consul
    PROVE  LET answer == findGlobalCatalogService(of, consul)
               searched == {i \in consul : /\ i.of = of
                                           /\ \E n \in DOMAIN Nodes : i.node = Nodes[n]
                                           /\ \E k \in DOMAIN ConsulNamespaces :
                                                i.namespace = ConsulNamespaces[k]}
           IN  /\ answer.error = "BackendNotFound" <=> searched = {}
               /\ answer.error = "none" =>
                    \E i \in searched : answer.namespace = i.namespace /\ answer.service = i.service
<1> DEFINE At(p) == {i \in consul : /\ i.of = of
                                    /\ i.node = Nodes[p[1]]
                                    /\ i.namespace = ConsulNamespaces[p[2]]}
           places == {p \in (DOMAIN Nodes) \X (DOMAIN ConsulNamespaces) : At(p) # {}}
           first == CHOOSE p \in places : \A q \in places : p[1] < q[1] \/ (p[1] = q[1] /\ p[2] <= q[2])
           answer == findGlobalCatalogService(of, consul)
           searched == {i \in consul : /\ i.of = of
                                       /\ \E n \in DOMAIN Nodes : i.node = Nodes[n]
                                       /\ \E k \in DOMAIN ConsulNamespaces :
                                            i.namespace = ConsulNamespaces[k]}
<1> SUFFICES /\ answer.error = "BackendNotFound" <=> searched = {}
             /\ answer.error = "none" =>
                    \E i \in searched : answer.namespace = i.namespace /\ answer.service = i.service
    BY Zenon
<1>1. answer = IF places = {} THEN Failed("BackendNotFound") ELSE Single(At(first))
    BY Zenon DEF findGlobalCatalogService
<1>2. \A p \in places : At(p) # {} /\ At(p) \subseteq searched
    OBVIOUS
<1>3. \A i \in searched : \E p \in places : i \in At(p)
    <2> TAKE i \in searched
    <2>1. PICK n \in DOMAIN Nodes, k \in DOMAIN ConsulNamespaces :
            i.node = Nodes[n] /\ i.namespace = ConsulNamespaces[k]
        OBVIOUS
    <2>2. <<n, k>> \in (DOMAIN Nodes) \X (DOMAIN ConsulNamespaces) /\ i \in At(<<n, k>>)
        BY <2>1
    <2> QED BY <2>2
<1>4. places # {} => first \in places
    <2>1. places \in SUBSET (Nat \X Nat)
        BY SearchAssumption
    <2> HIDE DEF places
    <2> QED BY <2>1, FirstPairExists
<1> HIDE DEF At, places, first, answer, searched
<1>5. CASE places = {}
    BY <1>1, <1>3, <1>5 DEF Failed
<1>6. CASE places # {}
    <2>1. At(first) # {} /\ At(first) \subseteq searched
        BY <1>2, <1>4, <1>6
    <2>2. answer = Single(At(first))
        BY <1>1, <1>6
    <2>3. /\ answer.error \in {"none", "ConsulService"}
          /\ answer.error = "none" =>
                \E i \in At(first) : answer.namespace = i.namespace /\ answer.service = i.service
        BY <2>1, <2>2, SingleFacts
    <2> QED BY <2>1, <2>3
<1> QED BY <1>5, <1>6

----------------------------------------------------------------------------
(* The inductive invariant. *)

RouteFields == {"spec", "generation", "ours", "others"}
CopyFields == RouteFields \cup {"pc", "fresh"}
RecFields == CopyFields \cup {"at", "tries", "mesh", "references", "errors", "shuffled", "saw"}
StoredFields == CopyFields \cup {"references", "errors", "shuffled", "saw", "entry", "bound", "held"}
JobFields == {"pc", "by", "generation", "ours", "others", "fresh", "entry"}

RouteShape == DOMAIN route = RouteFields /\ route.spec \in Specs

\* The reconciliation: it looks at one backend after the other, and comes to the
\* upsert behind the last.
RecShape ==
    rec = Idle \/
        /\ DOMAIN rec = RecFields
        /\ rec.pc \in {"read", "grant", "reference", "consul", "upsert", "sync"}
        /\ rec.spec \in Specs /\ rec.spec.kind = route.spec.kind
        /\ rec.at \in Nat \ {0}
        /\ rec.pc = "read" => rec.at = 1
        /\ rec.pc = "upsert" => rec.at > Len(Backends(rec.spec))

StoredShape ==
    stored = None \/
        /\ DOMAIN stored = StoredFields /\ stored.pc = "stored"
        /\ stored.spec \in Specs /\ stored.spec.kind = route.spec.kind
        /\ stored.bound => stored.errors = {} /\ stored.held = Convert(stored.references)

JobShape == job = Idle \/ (DOMAIN job = JobFields /\ job.pc = "status")

\* The controller waits for the status update that it has started.
JobOwner == job # Idle /\ job.by = "route" => rec.pc = "sync"

Shapes == RouteShape /\ RecShape /\ StoredShape /\ JobShape /\ JobOwner

\* A copy that is still current has the statuses of the others.
FreshCopies ==
    /\ rec # Idle /\ rec.fresh => rec.others = route.others
    /\ stored # None /\ stored.fresh => stored.others = route.others
    /\ job # Idle /\ job.fresh => job.others = route.others

Resolved(backend, references) == \E x \in references : x.rule = backend.rule /\ x.ref = backend.ref

\* Without an error, every backend so far has been resolved.
RecComplete ==
    rec # Idle /\ rec.errors = {} =>
        \A b \in DOMAIN Backends(rec.spec) :
            b < rec.at => Resolved(Backends(rec.spec)[b], rec.references)

StoredComplete ==
    stored # None /\ stored.errors = {} =>
        \A b \in DOMAIN Backends(stored.spec) : Resolved(Backends(stored.spec)[b], stored.references)

\* A route of the wrong shape, whose backends are not looked at, has an error.
WrongShapeFails ==
    /\ rec # Idle /\ rec.pc # "read" /\ WrongShape(rec.spec) => rec.errors # {}
    /\ stored # None /\ WrongShape(stored.spec) => stored.errors # {}

Allowed(r) == routeAllowedForBackendRef(route.spec.kind, r, grants)

\* The backend at hand, and those that were resolved, were permitted: they still
\* are, or the route will be looked at again.
CheckedIsPermitted ==
    rec # Idle /\ ~lost /\ rec.pc \in {"reference", "consul"} => Allowed(ref) \/ queued

RecPermitted == rec # Idle /\ ~lost => \A x \in rec.references : Allowed(x.ref) \/ queued

StoredPermitted ==
    stored # None /\ ~lost => \A x \in stored.references :
        \/ Allowed(x.ref) \/ queued
        \/ rec.pc \notin {"idle", "sync"} /\ ~\E y \in rec.references : y.ref = x.ref

Binding ==
    /\ Shapes /\ FreshCopies /\ RecComplete /\ StoredComplete /\ WrongShapeFails
    /\ CheckedIsPermitted /\ RecPermitted /\ StoredPermitted

\* A resolved backend has its rule among the converted ones.
LEMMA ConvertKeepsRules ==
    ASSUME NEW references, NEW x \in references
    PROVE  \E h \in Convert(references) : h.rule = x.rule
<1> DEFINE h == [rule |-> x.rule,
                 services |-> {[namespace |-> z.found.namespace, service |-> z.found.service] :
                                    z \in {y \in references : y.rule = x.rule}}]
<1>1. h \in Convert(references)
    BY Zenon DEF Convert
<1>2. h.rule = x.rule
    OBVIOUS
<1> QED BY <1>1, <1>2

LEMMA BindingGivesPermitted == Binding => BoundIsPermitted
<1> SUFFICES ASSUME Binding, stored # None, stored.bound, ~lost,
                    NEW b \in DOMAIN Backends(stored.spec)
             PROVE  LET backend == Backends(stored.spec)[b]
                    IN  /\ \E x \in stored.references : x.rule = backend.rule /\ x.ref = backend.ref
                        /\ \E h \in stored.held : h.rule = backend.rule
                        /\ \/ routeAllowedForBackendRef(stored.spec.kind, backend.ref, grants)
                           \/ queued
                           \/ rec.pc \notin {"idle", "sync"} /\ ~\E x \in rec.references : x.ref = backend.ref
    BY DEF BoundIsPermitted
<1> DEFINE backend == Backends(stored.spec)[b]
<1>1. stored.spec.kind = route.spec.kind /\ stored.errors = {} /\ stored.held = Convert(stored.references)
    BY DEF Binding, Shapes, StoredShape
<1>2. PICK x \in stored.references : x.rule = backend.rule /\ x.ref = backend.ref
    BY <1>1 DEF Binding, StoredComplete, Resolved
<1>3. \E h \in stored.held : h.rule = backend.rule
    BY <1>1, <1>2, ConvertKeepsRules
<1>4. \/ Allowed(x.ref) \/ queued
      \/ rec.pc \notin {"idle", "sync"} /\ ~\E y \in rec.references : y.ref = x.ref
    BY DEF Binding, StoredPermitted
<1> QED BY <1>1, <1>2, <1>3, <1>4 DEF Allowed

\* A grant that a backend needs and that goes is one of the route's namespace.
LEMMA RevokedAffects ==
    ASSUME NEW kind, NEW r, NEW old, NEW new,
           routeAllowedForBackendRef(kind, r, old), ~routeAllowedForBackendRef(kind, r, new)
    PROVE  GrantAffects(old, new)
<1>1. PICK g \in old : /\ g.namespace = r.namespace
                       /\ [kind |-> kind, namespace |-> Home] \in g.from
                       /\ \E t \in g.to : t.kind = r.kind /\ t.name \in {"", r.name}
    BY DEF routeAllowedForBackendRef, referenceAllowed
<1>2. g \notin new
    BY <1>1 DEF routeAllowedForBackendRef, referenceAllowed
<1>3. g \in (old \ new) \cup (new \ old)
    BY <1>2
<1>4. \E f \in g.from : f.namespace = Home
    <2> DEFINE f == [kind |-> kind, namespace |-> Home]
    <2>1. f \in g.from /\ f.namespace = Home
        BY <1>1
    <2> HIDE DEF f
    <2> QED BY <2>1
<1> QED BY <1>3, <1>4, Zenon DEF GrantAffects

----------------------------------------------------------------------------
(* Steps that leave the reconciliation or the stored route alone. *)

SameRec ==
    /\ rec' = Idle <=> rec = Idle
    /\ rec'.pc = rec.pc
    /\ rec # Idle => /\ DOMAIN rec' = DOMAIN rec
                     /\ rec'.spec = rec.spec /\ rec'.at = rec.at
                     /\ rec'.references = rec.references /\ rec'.errors = rec.errors

SameStored ==
    /\ stored' = None <=> stored = None
    /\ stored # None => /\ DOMAIN stored' = DOMAIN stored /\ stored'.pc = stored.pc
                        /\ stored'.spec = stored.spec
                        /\ stored'.references = stored.references
                        /\ stored'.errors = stored.errors
                        /\ stored'.bound = stored.bound /\ stored'.held = stored.held

\* Copies become stale and stay what they are.
LEMMA StaleRec ==
    ASSUME RecShape, rec' \in {rec, Stale(rec)}
    PROVE  /\ SameRec
           /\ rec # Idle /\ rec' = Stale(rec) => rec'.fresh = FALSE
<1>1. CASE rec = Idle
    BY <1>1 DEF SameRec, Stale, Idle
<1>2. CASE rec # Idle
    <2>1. rec.pc \notin {"none", "idle"} /\ DOMAIN rec = RecFields
        BY <1>2 DEF RecShape
    <2>2. Stale(rec) = [rec EXCEPT !.fresh = FALSE]
        BY <2>1 DEF Stale
    <2> QED BY <1>2, <2>1, <2>2 DEF SameRec, RecFields, CopyFields, RouteFields, Idle
<1> QED BY <1>1, <1>2

LEMMA StaleStored ==
    ASSUME StoredShape, stored' \in {stored, Stale(stored)}
    PROVE  /\ SameStored
           /\ stored # None /\ stored' = Stale(stored) => stored'.fresh = FALSE
<1>1. CASE stored = None
    BY <1>1 DEF SameStored, Stale, None
<1>2. CASE stored # None
    <2>1. stored.pc = "stored" /\ DOMAIN stored = StoredFields
        BY <1>2 DEF StoredShape
    <2>2. Stale(stored) = [stored EXCEPT !.fresh = FALSE]
        BY <2>1 DEF Stale
    <2> QED BY <1>2, <2>1, <2>2 DEF SameStored, StoredFields, CopyFields, RouteFields, None
<1> QED BY <1>1, <1>2

LEMMA StaleJob ==
    ASSUME JobShape, job' = Stale(job)
    PROVE  /\ JobShape' /\ (job' = Idle <=> job = Idle)
           /\ job # Idle => job'.by = job.by /\ job'.fresh = FALSE
<1>1. CASE job = Idle
    BY <1>1 DEF JobShape, Stale, Idle
<1>2. CASE job # Idle
    <2>1. job.pc = "status" /\ DOMAIN job = JobFields
        BY <1>2 DEF JobShape
    <2>2. Stale(job) = [job EXCEPT !.fresh = FALSE]
        BY <2>1 DEF Stale
    <2> QED BY <1>2, <2>1, <2>2 DEF JobShape, JobFields, Idle
<1> QED BY <1>1, <1>2

\* What such a step must do: keep the kind, and take grants of this namespace
\* back only with a request or a loss.
LEMMA QuietStep ==
    ASSUME Binding, SameRec, SameStored, RouteShape', route'.spec.kind = route.spec.kind,
           JobShape', JobOwner', FreshCopies',
           queued => queued', lost => lost',
           grants' = grants \/ queued' \/ lost' \/ ~GrantAffects(grants, grants')
    PROVE  Binding'
<1> USE DEF Binding, Shapes
<1>1. ASSUME NEW r, Allowed(r), ~queued', ~lost'
      PROVE  routeAllowedForBackendRef(route'.spec.kind, r, grants')
    BY <1>1, RevokedAffects DEF Allowed
<1>2. RecShape' /\ StoredShape'
    <2>1. RecShape'
        <3>1. CASE rec = Idle
            BY <3>1 DEF SameRec, RecShape
        <3>2. CASE rec # Idle
            BY <3>2 DEF SameRec, RecShape
        <3> QED BY <3>1, <3>2
    <2>2. StoredShape'
        BY DEF SameStored, StoredShape
    <2> QED BY <2>1, <2>2
<1>3. RecComplete'
    BY DEF SameRec, RecComplete
<1>4. StoredComplete' /\ WrongShapeFails'
    BY DEF SameRec, SameStored, StoredComplete, WrongShapeFails
<1>5. CheckedIsPermitted'
    <2> SUFFICES ASSUME rec # Idle, ~lost', ~queued', rec.pc \in {"reference", "consul"}
                 PROVE  routeAllowedForBackendRef(route'.spec.kind, Backends(rec.spec)[rec.at].ref, grants')
        BY DEF SameRec, CheckedIsPermitted, Allowed, ref
    <2> QED BY <1>1 DEF CheckedIsPermitted, ref
<1>6. RecPermitted'
    <2> SUFFICES ASSUME rec # Idle, ~lost', ~queued', NEW x \in rec.references
                 PROVE  routeAllowedForBackendRef(route'.spec.kind, x.ref, grants')
        BY DEF SameRec, RecPermitted, Allowed
    <2> QED BY <1>1 DEF RecPermitted
<1>7. StoredPermitted'
    <2> SUFFICES ASSUME stored # None, ~lost', ~queued', NEW x \in stored.references
                 PROVE  \/ routeAllowedForBackendRef(route'.spec.kind, x.ref, grants')
                        \/ rec'.pc \notin {"idle", "sync"} /\ ~\E y \in rec'.references : y.ref = x.ref
        BY DEF SameStored, StoredPermitted, Allowed
    <2>1. \/ Allowed(x.ref)
          \/ rec.pc \notin {"idle", "sync"} /\ ~\E y \in rec.references : y.ref = x.ref
        BY DEF StoredPermitted
    <2>2. rec.pc \notin {"idle", "sync"} => rec # Idle
        BY DEF Idle
    <2> QED BY <1>1, <2>1, <2>2 DEF SameRec
<1> QED BY <1>2, <1>3, <1>4, <1>5, <1>6, <1>7

\* The reconciliation ends: after its update, or with the request in the queue.
LEMMA RecEnds ==
    ASSUME Binding, rec' = Idle, SameStored, RouteShape', route'.spec.kind = route.spec.kind,
           JobShape', job' # Idle => job'.by # "route", FreshCopies',
           UNCHANGED <<grants, lost>>, queued => queued', queued' \/ rec.pc = "sync"
    PROVE  Binding'
<1> USE DEF Binding, Shapes
<1>1. RecShape' /\ StoredShape' /\ JobOwner'
    BY DEF SameStored, StoredShape, RecShape, JobOwner
<1>2. RecComplete' /\ CheckedIsPermitted' /\ RecPermitted'
    BY DEF RecComplete, CheckedIsPermitted, RecPermitted
<1>3. StoredComplete' /\ WrongShapeFails'
    BY DEF SameStored, StoredComplete, WrongShapeFails
<1>4. StoredPermitted'
    BY DEF SameStored, StoredPermitted, Allowed
<1> QED BY <1>1, <1>2, <1>3, <1>4

\* The validation goes on: what it adds to the references is permitted.
LEMMA RecMoves ==
    ASSUME Binding, rec # Idle, rec.pc \notin {"upsert", "sync"},
           UNCHANGED <<route, grants, queued, stored, job, lost>>,
           DOMAIN rec' = RecFields,
           rec'.pc \in {"grant", "reference", "consul", "upsert"},
           rec'.spec = rec.spec, rec'.others = rec.others, rec'.fresh = rec.fresh,
           rec'.at \in {rec.at, rec.at + 1},
           rec'.pc = "upsert" => rec'.at > Len(Backends(rec.spec)),
           RecComplete', CheckedIsPermitted', WrongShape(rec.spec) => rec'.errors # {},
           ~lost => \A x \in rec'.references : x \in rec.references \/ Allowed(x.ref) \/ queued
    PROVE  Binding'
<1> USE DEF Binding, Shapes
<1>1. rec' # Idle /\ rec.pc \in {"read", "grant", "reference", "consul"}
    BY DEF RecShape, Idle, RecFields
<1>2. RecShape'
    <2>1. rec'.at \in Nat \ {0}
        BY DEF RecShape
    <2> QED BY <2>1 DEF RecShape
<1>3. RouteShape' /\ StoredShape' /\ JobShape' /\ StoredComplete' /\ WrongShapeFails'
    BY DEF RouteShape, StoredShape, JobShape, StoredComplete, WrongShapeFails
<1>4. JobOwner'
    BY DEF JobOwner
<1>5. FreshCopies'
    BY DEF FreshCopies
<1>6. RecPermitted'
    BY DEF RecPermitted, Allowed
<1>7. StoredPermitted'
    <2> SUFFICES ASSUME stored # None, ~lost, ~queued, NEW x \in stored.references, ~Allowed(x.ref)
                 PROVE  ~\E y \in rec'.references : y.ref = x.ref
        BY DEF StoredPermitted, Allowed
    <2>1. ~\E y \in rec.references : y.ref = x.ref
        BY DEF StoredPermitted
    <2> QED BY <2>1
<1> QED BY <1>2, <1>3, <1>4, <1>5, <1>6, <1>7

----------------------------------------------------------------------------
(* The steps. *)

\* A user or another controller writes the route: every copy is stale.
LEMMA WrittenStep ==
    ASSUME Binding, OtherWrites \/ \E s \in Specs : EditRoute(s)
    PROVE  Binding'
<1> USE DEF Binding, Shapes
<1>1. /\ rec' = Stale(rec) /\ stored' = Stale(stored) /\ job' = Stale(job)
      /\ queued' = TRUE /\ UNCHANGED lost
    BY DEF OtherWrites, EditRoute
<1>2. RouteShape' /\ route'.spec.kind = route.spec.kind
    <2>1. CASE OtherWrites
        BY <2>1 DEF OtherWrites, RouteShape, RouteFields
    <2>2. ASSUME NEW s \in Specs, EditRoute(s) PROVE RouteShape' /\ route'.spec.kind = route.spec.kind
        BY <2>2 DEF EditRoute, RouteShape, RouteFields
    <2> QED BY <2>1, <2>2
<1>3. SameRec /\ (rec # Idle => rec'.fresh = FALSE)
    BY <1>1, StaleRec
<1>4. SameStored /\ (stored # None => stored'.fresh = FALSE)
    BY <1>1, StaleStored
<1>5. JobShape' /\ (job' = Idle <=> job = Idle) /\ (job # Idle => job'.by = job.by /\ job'.fresh = FALSE)
    BY <1>1, StaleJob
<1>6. JobOwner'
    BY <1>3, <1>5 DEF JobOwner, SameRec
<1>7. FreshCopies'
    BY <1>3, <1>4, <1>5 DEF FreshCopies, SameRec, SameStored
<1> QED BY <1>1, <1>2, <1>3, <1>4, <1>5, <1>6, <1>7, QuietStep

\* The cluster and Consul.
LEMMA ClusterStep ==
    ASSUME Binding,
           \/ \E gs \in GrantSets : \E listed \in BOOLEAN : GrantsChange(gs, listed)
           \/ \E s \in Services : \E listed \in BOOLEAN : ServiceChanges(s, listed)
           \/ \E ms \in MeshSets : MeshServicesChange(ms)
           \/ \E c \in Catalogs : CatalogChanges(c)
           \/ ConsulChanges
    PROVE  Binding'
<1>1. ASSUME UNCHANGED <<route, rec, stored, job>>, queued => queued', lost => lost',
             grants' = grants \/ queued' \/ lost' \/ ~GrantAffects(grants, grants')
      PROVE  Binding'
    <2>1. SameRec /\ SameStored
        BY <1>1, StaleRec, StaleStored DEF Binding, Shapes
    <2> QED BY <1>1, <2>1, QuietStep DEF Binding, Shapes, RouteShape, JobShape, JobOwner, FreshCopies
<1>2. ASSUME NEW gs \in GrantSets, NEW listed \in BOOLEAN, GrantsChange(gs, listed) PROVE Binding'
    BY <1>1, <1>2 DEF GrantsChange
<1>3. ASSUME NEW s \in Services, NEW listed \in BOOLEAN, ServiceChanges(s, listed) PROVE Binding'
    BY <1>1, <1>3 DEF ServiceChanges
<1>4. ASSUME NEW ms \in MeshSets, MeshServicesChange(ms) PROVE Binding'
    BY <1>1, <1>4 DEF MeshServicesChange
<1>5. ASSUME NEW c \in Catalogs, CatalogChanges(c) PROVE Binding'
    BY <1>1, <1>5 DEF CatalogChanges
<1>6. ASSUME ConsulChanges PROVE Binding'
    BY <1>1, <1>6 DEF ConsulChanges
<1> QED BY <1>2, <1>3, <1>4, <1>5, <1>6

\* A gateway that admits binds a stored route without errors; its references
\* were all resolved.
LEMMA GatewayStep ==
    ASSUME Binding, DeleteGateway \/ \E p \in {"refuses", "admits"} : UpsertGateway(p)
    PROVE  Binding'
<1> USE DEF Binding, Shapes
<1>1. job = Idle /\ UNCHANGED <<route, grants, queued, rec, lost>>
    BY DEF DeleteGateway, UpsertGateway, clusterVars
<1>2. CASE UNCHANGED <<stored, job>>
    <2>1. SameRec /\ SameStored
        BY <1>1, <1>2, StaleRec, StaleStored
    <2> QED BY <1>1, <1>2, <2>1, QuietStep DEF RouteShape, JobShape, JobOwner, FreshCopies
<1>3. ASSUME stored # None,
             /\ DOMAIN stored' = StoredFields /\ stored'.pc = stored.pc /\ stored'.spec = stored.spec
             /\ stored'.references = stored.references /\ stored'.errors = stored.errors
             /\ stored'.others = stored.others /\ stored'.fresh = stored.fresh
             /\ stored'.bound => stored.errors = {} /\ stored'.held = Convert(stored.references),
             job' \in {Idle, UpdateStatusOf("gateway", stored')}
      PROVE  Binding'
    <2>1. stored' # None
        BY <1>3 DEF None, StoredFields, CopyFields, RouteFields
    <2>2. /\ JobShape' /\ (job' # Idle => job'.by = "gateway" /\ job'.others = stored'.others
                                          /\ job'.fresh = stored'.fresh)
        BY <1>3 DEF JobShape, UpdateStatusOf, JobFields
    <2>3. RouteShape' /\ RecShape' /\ RecComplete' /\ CheckedIsPermitted' /\ RecPermitted'
        BY <1>1 DEF RouteShape, RecShape, RecComplete, CheckedIsPermitted, RecPermitted, Allowed, ref
    <2>4. StoredShape' /\ StoredComplete' /\ WrongShapeFails'
        BY <1>1, <1>3 DEF StoredShape, StoredComplete, WrongShapeFails
    <2>5. StoredPermitted'
        BY <1>1, <1>3 DEF StoredPermitted, Allowed
    <2>6. JobOwner' /\ FreshCopies'
        BY <1>1, <1>3, <2>2 DEF JobOwner, FreshCopies
    <2> QED BY <2>2, <2>3, <2>4, <2>5, <2>6
<1>4. stored # None => DOMAIN stored = StoredFields
    BY DEF StoredShape
<1>5. ASSUME NEW p \in {"refuses", "admits"}, UpsertGateway(p) PROVE Binding'
    <2>1. CASE stored = None
        BY <1>2, <1>5, <2>1 DEF UpsertGateway
    <2>2. CASE stored # None /\ p = "admits" /\ stored.errors = {}
        <3>1. /\ stored' = [stored EXCEPT !.entry = Clean, !.bound = TRUE, !.held = Convert(stored.references)]
              /\ job' = UpdateStatusOf("gateway", stored')
            BY <1>5, <2>2 DEF UpsertGateway
        <3>2. /\ DOMAIN stored' = StoredFields /\ stored'.pc = stored.pc /\ stored'.spec = stored.spec
              /\ stored'.references = stored.references /\ stored'.errors = stored.errors
              /\ stored'.others = stored.others /\ stored'.fresh = stored.fresh
              /\ stored'.held = Convert(stored.references)
            BY <1>4, <2>2, <3>1 DEF StoredFields, CopyFields, RouteFields
        <3> QED BY <1>3, <2>2, <3>1, <3>2
    <2>3. CASE stored # None /\ ~(p = "admits" /\ stored.errors = {})
        <3>1. stored' = [stored EXCEPT !.bound = FALSE, !.held = {}] /\ job' = Idle
            BY <1>1, <1>5, <2>3 DEF UpsertGateway
        <3>2. /\ DOMAIN stored' = StoredFields /\ stored'.pc = stored.pc /\ stored'.spec = stored.spec
              /\ stored'.references = stored.references /\ stored'.errors = stored.errors
              /\ stored'.others = stored.others /\ stored'.fresh = stored.fresh
              /\ stored'.bound = FALSE
            BY <1>4, <2>3, <3>1 DEF StoredFields, CopyFields, RouteFields
        <3> QED BY <1>3, <2>3, <3>1, <3>2
    <2> QED BY <2>1, <2>2, <2>3
<1>6. ASSUME DeleteGateway PROVE Binding'
    <2>1. CASE stored = None \/ ~stored.bound
        BY <1>2, <1>6, <2>1 DEF DeleteGateway
    <2>2. CASE stored # None /\ stored.bound
        <3>1. /\ stored' = [stored EXCEPT !.entry = NoEntry, !.bound = FALSE, !.held = {}]
              /\ job' = UpdateStatusOf("gateway", stored')
            BY <1>6, <2>2 DEF DeleteGateway
        <3>2. /\ DOMAIN stored' = StoredFields /\ stored'.pc = stored.pc /\ stored'.spec = stored.spec
              /\ stored'.references = stored.references /\ stored'.errors = stored.errors
              /\ stored'.others = stored.others /\ stored'.fresh = stored.fresh
              /\ stored'.bound = FALSE
            BY <1>4, <2>2, <3>1 DEF StoredFields, CopyFields, RouteFields
        <3> QED BY <1>3, <2>2, <3>1, <3>2
    <2> QED BY <2>1, <2>2
<1> QED BY <1>5, <1>6

LEMMA SyncAllStep == ASSUME Binding, SyncAll PROVE Binding'
<1> USE DEF Binding, Shapes, worldVars, clusterVars
<1>1. SameRec /\ SameStored
    BY StaleRec, StaleStored DEF SyncAll
<1>2. /\ job' # Idle => /\ DOMAIN job' = JobFields /\ job'.pc = "status" /\ job'.by = "background"
                        /\ job'.others = stored.others /\ job'.fresh = stored.fresh
    BY DEF SyncAll, UpdateStatusOf, JobFields
<1>3. JobShape' /\ JobOwner' /\ FreshCopies'
    BY <1>2 DEF SyncAll, JobShape, JobOwner, FreshCopies
<1> QED BY <1>1, <1>3, QuietStep DEF SyncAll, RouteShape

\* A status is written by the owner of a fresh copy, which has the statuses of
\* the others as they are.
LEMMA WriteKeepsOthers ==
    ASSUME Binding, UpdateRouteStatus \/ UpdateRouteStatusFails
    PROVE  /\ route'.others = route.others /\ route'.spec = route.spec
           /\ DOMAIN route' = RouteFields
<1>1. job # Idle /\ DOMAIN route = RouteFields
    <2>1. job.pc = "status"
        BY DEF UpdateRouteStatus, UpdateRouteStatusFails
    <2> QED BY <2>1 DEF Idle, Binding, Shapes, RouteShape
<1>2. CASE route' = route
    BY <1>1, <1>2
<1>3. CASE job.fresh /\ route' = [route EXCEPT !.ours = mergedStatus(job).ours,
                                               !.others = mergedStatus(job).others]
    <2>1. job.others = route.others
        BY <1>1, <1>3 DEF Binding, FreshCopies
    <2>2. mergedStatus(job).others = job.others
        BY DEF mergedStatus
    <2> QED BY <1>1, <1>3, <2>1, <2>2 DEF RouteFields
<1> QED BY <1>2, <1>3 DEF UpdateRouteStatus, UpdateRouteStatusFails

LEMMA StatusStep ==
    ASSUME Binding, UpdateRouteStatus \/ UpdateRouteStatusFails
    PROVE  Binding'
<1> USE DEF Binding, Shapes
<1>1. /\ job # Idle /\ job' = Idle
      /\ stored' \in {stored, Stale(stored)}
      /\ IF job.by = "route" THEN rec' = Idle ELSE rec' \in {rec, Stale(rec)}
      /\ UNCHANGED <<grants, lost>> /\ (queued => queued')
    <2>1. job.pc = "status"
        BY DEF UpdateRouteStatus, UpdateRouteStatusFails
    <2>2. job # Idle
        BY <2>1 DEF Idle
    <2>3. CASE UpdateRouteStatus
        BY <2>2, <2>3 DEF UpdateRouteStatus, StatusDone, clusterVars
    <2>4. CASE UpdateRouteStatusFails
        BY <2>2, <2>4 DEF UpdateRouteStatusFails, StatusDone, clusterVars
    <2> QED BY <2>3, <2>4
<1>2. RouteShape' /\ route'.spec.kind = route.spec.kind /\ route'.others = route.others
    BY WriteKeepsOthers DEF RouteShape
<1>3. SameStored /\ (stored # None /\ stored' = Stale(stored) => stored'.fresh = FALSE)
    BY <1>1, StaleStored
<1>4. JobShape' /\ JobOwner'
    BY <1>1 DEF JobShape, JobOwner
<1>5. CASE job.by = "route"
    <2>1. rec.pc = "sync" /\ rec' = Idle
        BY <1>1, <1>5 DEF JobOwner
    <2>2. FreshCopies'
        BY <1>1, <1>2, <1>3, <2>1 DEF FreshCopies, SameStored
    <2> QED BY <1>1, <1>2, <1>3, <1>4, <2>1, <2>2, RecEnds
<1>6. CASE job.by # "route"
    <2>1. SameRec /\ (rec # Idle /\ rec' = Stale(rec) => rec'.fresh = FALSE)
        BY <1>1, <1>6, StaleRec
    <2>2. FreshCopies'
        BY <1>1, <1>2, <1>3, <1>6, <2>1 DEF FreshCopies, SameStored, SameRec
    <2> QED BY <1>1, <1>2, <1>3, <1>4, <2>1, <2>2, QuietStep
<1> QED BY <1>5, <1>6

LEMMA FailedStep == ASSUME Binding, ReadFails \/ ConsulFails PROVE Binding'
<1> USE DEF Binding, Shapes
<1>1. /\ rec' = Idle /\ queued' = TRUE /\ rec.pc # "sync"
      /\ UNCHANGED <<route, grants, stored, job, lost>>
    BY DEF ReadFails, ConsulFails, worldVars, clusterVars
<1>2. SameStored
    BY <1>1, StaleStored
<1>3. JobShape' /\ (job' # Idle => job'.by # "route")
    BY <1>1 DEF JobShape, JobOwner
<1>4. FreshCopies'
    BY <1>1 DEF FreshCopies
<1> QED BY <1>1, <1>2, <1>3, <1>4, RecEnds DEF RouteShape

\* A new reconciliation has resolved nothing.
LEMMA ReconcileStep == ASSUME Binding, Reconcile PROVE Binding'
<1> USE DEF Binding, Shapes, worldVars, clusterVars
<1>1. /\ DOMAIN rec' = RecFields /\ rec'.pc = "read" /\ rec'.spec = route.spec /\ rec'.at = 1
      /\ rec'.others = route.others /\ rec'.references = {}
    BY DEF Reconcile, RecFields, CopyFields, RouteFields
<1>2. rec' # Idle /\ rec.pc = "idle" /\ UNCHANGED <<route, grants, stored, job, lost>>
    BY <1>1 DEF Reconcile, Idle
<1>3. Shapes'
    <2>1. RecShape'
        BY <1>1, <1>2 DEF RecShape, RouteShape
    <2> QED BY <1>2, <2>1 DEF RouteShape, StoredShape, JobShape, JobOwner
<1>4. FreshCopies' /\ StoredComplete' /\ WrongShapeFails'
    BY <1>1, <1>2 DEF FreshCopies, StoredComplete, WrongShapeFails
<1>5. RecComplete'
    <2>1. rec'.spec \in RouteSpecs
        BY <1>1, SpecsAssumption DEF RouteShape
    <2>2. DOMAIN Backends(rec'.spec) \subseteq Nat \ {0}
        BY <2>1, BackendsFacts
    <2> QED BY <1>1, <2>2 DEF RecComplete
<1>6. CheckedIsPermitted' /\ RecPermitted'
    BY <1>1 DEF CheckedIsPermitted, RecPermitted
<1>7. StoredPermitted'
    BY <1>1 DEF StoredPermitted
<1> QED BY <1>3, <1>4, <1>5, <1>6, <1>7

\* Where the validation goes on.
LEMMA OnwardFacts ==
    ASSUME NEW at
    PROVE  Onward(at) \in {"grant", "upsert"} /\ (Onward(at) = "upsert" => at > Len(Backends(rec.spec)))
BY DEF Onward

LEMMA upsertRouteStep == ASSUME Binding, upsertRoute PROVE Binding'
<1> USE DEF Binding, Shapes, worldVars, clusterVars
<1>1. rec # Idle /\ rec.pc = "read" /\ UNCHANGED <<route, grants, queued, stored, job, lost>>
    BY DEF upsertRoute, Idle
<1>2. DOMAIN rec = RecFields /\ rec.at = 1 /\ rec.spec \in Specs
    BY <1>1 DEF RecShape
<1>3. /\ DOMAIN rec' = RecFields /\ rec'.pc = Onward(1)
      /\ rec'.spec = rec.spec /\ rec'.others = rec.others /\ rec'.fresh = rec.fresh
      /\ rec'.at = rec.at /\ rec'.references = rec.references
      /\ WrongShape(rec.spec) => rec'.errors # {}
    BY <1>2 DEF upsertRoute, RecFields, CopyFields, RouteFields
<1>4. rec'.pc \in {"grant", "upsert"} /\ (rec'.pc = "upsert" => rec'.at > Len(Backends(rec.spec)))
    BY <1>2, <1>3, OnwardFacts
<1>5. RecComplete'
    <2>1. rec.spec \in RouteSpecs
        BY <1>2, SpecsAssumption
    <2>2. DOMAIN Backends(rec.spec) \subseteq Nat \ {0}
        BY <2>1, BackendsFacts
    <2> QED BY <1>2, <1>3, <2>2 DEF RecComplete
<1>6. CheckedIsPermitted'
    BY <1>4 DEF CheckedIsPermitted
<1> QED BY <1>1, <1>3, <1>4, <1>5, <1>6, RecMoves

\* A backend that is refused leaves an error.
LEMMA RefusedStep ==
    ASSUME Binding, NEW error, Refused(error), rec # Idle, rec.pc \in {"grant", "reference", "consul"},
           UNCHANGED <<route, grants, queued, stored, job, lost>>
    PROVE  Binding'
<1> USE DEF Binding, Shapes
<1>1. DOMAIN rec = RecFields /\ rec.at \in Nat
    BY DEF RecShape
<1>2. /\ DOMAIN rec' = RecFields /\ rec'.pc = Onward(rec.at + 1)
      /\ rec'.spec = rec.spec /\ rec'.others = rec.others /\ rec'.fresh = rec.fresh
      /\ rec'.at = rec.at + 1 /\ rec'.references = rec.references
      /\ rec'.errors = rec.errors \cup {error}
    BY <1>1 DEF Refused, RecFields, CopyFields, RouteFields
<1>3. rec'.pc \in {"grant", "upsert"} /\ (rec'.pc = "upsert" => rec'.at > Len(Backends(rec.spec)))
    BY <1>2, OnwardFacts
<1>4. rec'.errors # {}
    BY <1>2
<1>5. RecComplete' /\ CheckedIsPermitted'
    BY <1>3, <1>4 DEF RecComplete, CheckedIsPermitted
<1> QED BY <1>2, <1>3, <1>4, <1>5, RecMoves

\* The backend at hand stays.
LEMMA SameBackendStep ==
    ASSUME Binding, rec # Idle, rec.pc \in {"grant", "reference", "consul"},
           UNCHANGED <<route, grants, queued, stored, job, lost>>,
           DOMAIN rec' = RecFields, rec'.pc \in {"reference", "consul"},
           rec'.spec = rec.spec, rec'.others = rec.others, rec'.fresh = rec.fresh,
           rec'.at = rec.at, rec'.references = rec.references, rec'.errors = rec.errors,
           rec.pc = "grant" => Allowed(ref)
    PROVE  Binding'
<1>1. rec' # Idle
    BY DEF Idle, RecFields, CopyFields
<1>2. RecComplete'
    BY <1>1 DEF Binding, RecComplete
<1>3. CheckedIsPermitted'
    BY <1>1 DEF Binding, CheckedIsPermitted, Allowed, ref
<1>4. WrongShape(rec.spec) => rec'.errors # {}
    BY DEF Binding, WrongShapeFails
<1> QED BY <1>2, <1>3, <1>4, RecMoves

LEMMA CheckGrantStep == ASSUME Binding, CheckGrant PROVE Binding'
<1> USE DEF worldVars, clusterVars
<1>1. rec # Idle /\ rec.pc = "grant" /\ UNCHANGED <<route, grants, queued, stored, job, lost>>
    BY DEF CheckGrant, Idle
<1>2. DOMAIN rec = RecFields /\ rec.spec.kind = route.spec.kind
    BY <1>1 DEF Binding, Shapes, RecShape
<1>3. CASE routeAllowedForBackendRef(rec.spec.kind, ref, grants)
    <2>1. rec' = [rec EXCEPT !.pc = "reference"]
        BY <1>3 DEF CheckGrant
    <2>2. /\ DOMAIN rec' = RecFields /\ rec'.pc = "reference"
          /\ rec'.spec = rec.spec /\ rec'.others = rec.others /\ rec'.fresh = rec.fresh
          /\ rec'.at = rec.at /\ rec'.references = rec.references /\ rec'.errors = rec.errors
        BY <1>2, <2>1 DEF RecFields, CopyFields, RouteFields
    <2>3. Allowed(ref)
        BY <1>2, <1>3 DEF Allowed
    <2> QED BY <1>1, <2>2, <2>3, SameBackendStep
<1>4. CASE ~routeAllowedForBackendRef(rec.spec.kind, ref, grants)
    <2>1. Refused("RefNotPermitted")
        BY <1>4 DEF CheckGrant
    <2> QED BY <1>1, <2>1, RefusedStep
<1> QED BY <1>3, <1>4

LEMMA ResolveStep == ASSUME Binding, Resolve PROVE Binding'
<1> USE DEF worldVars, clusterVars
<1> DEFINE error == ReferenceError(ref, services, mesh)
<1>1. rec # Idle /\ rec.pc = "reference" /\ UNCHANGED <<route, grants, queued, stored, job, lost>>
    BY DEF Resolve, Idle
<1>2. DOMAIN rec = RecFields
    BY <1>1 DEF Binding, Shapes, RecShape
<1>3. CASE error # "none"
    <2>1. Refused(error)
        BY <1>3 DEF Resolve
    <2> HIDE DEF error
    <2> QED BY <1>1, <2>1, RefusedStep
<1>4. CASE error = "none"
    <2>1. /\ DOMAIN rec' = RecFields /\ rec'.pc = "consul"
          /\ rec'.spec = rec.spec /\ rec'.others = rec.others /\ rec'.fresh = rec.fresh
          /\ rec'.at = rec.at /\ rec'.references = rec.references /\ rec'.errors = rec.errors
        BY <1>2, <1>4 DEF Resolve, RecFields, CopyFields, RouteFields
    <2> QED BY <1>1, <2>1, SameBackendStep
<1> QED BY <1>3, <1>4

LEMMA AskAgainStep == ASSUME Binding, AskAgain PROVE Binding'
<1>1. rec # Idle /\ rec.pc = "consul" /\ UNCHANGED <<route, grants, queued, stored, job, lost>>
    BY DEF AskAgain, Idle, worldVars, clusterVars
<1>2. DOMAIN rec = RecFields
    BY <1>1 DEF Binding, Shapes, RecShape
<1>3. /\ DOMAIN rec' = RecFields /\ rec'.pc = "consul"
      /\ rec'.spec = rec.spec /\ rec'.others = rec.others /\ rec'.fresh = rec.fresh
      /\ rec'.at = rec.at /\ rec'.references = rec.references /\ rec'.errors = rec.errors
    BY <1>1, <1>2 DEF AskAgain, RecFields, CopyFields, RouteFields
<1> QED BY <1>1, <1>3, SameBackendStep

\* Consul's answer: an error, or a reference to the backend at hand.
LEMMA AskConsulStep == ASSUME Binding, AskConsul PROVE Binding'
<1> USE DEF Binding, Shapes
<1> DEFINE answer == ConsulService(ref, rec.mesh, catalog, Peerings)
           backend == Backends(rec.spec)[rec.at]
           new == [rule |-> backend.rule, ref |-> ref, found |-> answer]
<1>1. rec # Idle /\ rec.pc = "consul" /\ UNCHANGED <<route, grants, queued, stored, job, lost>>
    BY DEF AskConsul, Idle, worldVars, clusterVars
<1>2. DOMAIN rec = RecFields /\ rec.at \in Nat /\ rec.spec \in Specs
    BY <1>1 DEF RecShape
<1>3. /\ DOMAIN rec' = RecFields /\ rec'.pc = Onward(rec.at + 1)
      /\ rec'.spec = rec.spec /\ rec'.others = rec.others /\ rec'.fresh = rec.fresh
      /\ rec'.at = rec.at + 1
      /\ \/ rec'.references = rec.references \cup {new} /\ rec'.errors = rec.errors
         \/ rec'.references = rec.references /\ rec'.errors = rec.errors \cup {answer.error}
    BY <1>2 DEF AskConsul, RecFields, CopyFields, RouteFields
<1>4. rec'.pc \in {"grant", "upsert"} /\ (rec'.pc = "upsert" => rec'.at > Len(Backends(rec.spec)))
    BY <1>3, OnwardFacts
<1>5. CheckedIsPermitted'
    BY <1>4 DEF CheckedIsPermitted
<1>6. new.rule = backend.rule /\ new.ref = backend.ref /\ new.ref = ref
    BY DEF ref
<1> HIDE DEF new
<1>7. RecComplete'
    <2> SUFFICES ASSUME rec'.errors = {}, NEW b \in DOMAIN Backends(rec.spec), b < rec.at + 1
                 PROVE  Resolved(Backends(rec.spec)[b], rec'.references)
        BY <1>3 DEF RecComplete
    <2>1. rec'.references = rec.references \cup {new} /\ rec.errors = {}
        BY <1>3
    <2>2. CASE b = rec.at
        BY <1>6, <2>1, <2>2 DEF Resolved
    <2>3. CASE b # rec.at
        <3>1. rec.spec \in RouteSpecs
            BY <1>2, SpecsAssumption
        <3>2. b \in Nat
            BY <3>1, BackendsFacts
        <3>3. b < rec.at
            BY <1>2, <2>3, <3>2
        <3>4. Resolved(Backends(rec.spec)[b], rec.references)
            BY <1>1, <2>1, <3>3 DEF RecComplete
        <3> QED BY <2>1, <3>4 DEF Resolved
    <2> QED BY <2>2, <2>3
<1>8. ~lost => \A x \in rec'.references : x \in rec.references \/ Allowed(x.ref) \/ queued
    BY <1>1, <1>3, <1>6 DEF CheckedIsPermitted
<1>9. WrongShape(rec.spec) => rec'.errors # {}
    BY <1>1, <1>3 DEF WrongShapeFails
<1> QED BY <1>1, <1>3, <1>4, <1>5, <1>7, <1>8, <1>9, RecMoves

\* What was resolved replaces what was stored.
LEMMA UpsertStep == ASSUME Binding, NEW wording, UpsertRoute(wording) PROVE Binding'
<1> USE DEF Binding, Shapes, worldVars, clusterVars
<1>1. rec # Idle /\ rec.pc = "upsert" /\ job = Idle
    BY DEF UpsertRoute, Idle
<1>2. /\ DOMAIN rec = RecFields /\ rec.spec \in Specs /\ rec.spec.kind = route.spec.kind
      /\ rec.at \in Nat \ {0} /\ rec.at > Len(Backends(rec.spec))
    BY <1>1 DEF RecShape
<1>3. UNCHANGED <<route, grants, queued, lost>>
    BY DEF UpsertRoute
<1>4. /\ DOMAIN stored' = StoredFields /\ stored'.pc = "stored" /\ stored'.spec = rec.spec
      /\ stored'.references = rec.references /\ stored'.errors = rec.errors
      /\ stored'.others = rec.others /\ stored'.fresh = rec.fresh
      /\ stored'.bound => rec.errors = {} /\ stored'.held = Convert(rec.references)
    BY DEF UpsertRoute, StoredFields, CopyFields, RouteFields
<1>5. /\ DOMAIN rec' = RecFields /\ rec'.pc = "sync" /\ rec'.spec = rec.spec /\ rec'.at = rec.at
      /\ rec'.references = rec.references /\ rec'.errors = rec.errors
      /\ rec'.others = rec.others /\ rec'.fresh = rec.fresh
    BY <1>2 DEF UpsertRoute, RecFields, CopyFields, RouteFields
<1>6. /\ DOMAIN job' = JobFields /\ job'.pc = "status" /\ job'.others = rec.others /\ job'.fresh = rec.fresh
    BY DEF UpsertRoute, UpdateStatusOf, JobFields
<1>7. Shapes'
    BY <1>2, <1>3, <1>4, <1>5, <1>6
       DEF RouteShape, RecShape, StoredShape, JobShape, JobOwner
<1>8. FreshCopies'
    BY <1>1, <1>3, <1>4, <1>5, <1>6 DEF FreshCopies
<1>9. RecComplete' /\ WrongShapeFails'
    BY <1>1, <1>4, <1>5 DEF RecComplete, WrongShapeFails
<1>10. StoredComplete'
    <2> SUFFICES ASSUME rec.errors = {}, NEW b \in DOMAIN Backends(rec.spec)
                 PROVE  Resolved(Backends(rec.spec)[b], rec.references)
        BY <1>4 DEF StoredComplete
    <2>1. rec.spec \in RouteSpecs
        BY <1>2, SpecsAssumption
    <2>2. b < rec.at
        BY <1>2, <2>1, BackendsFacts
    <2> QED BY <1>1, <2>2 DEF RecComplete
<1>11. CheckedIsPermitted' /\ RecPermitted'
    BY <1>1, <1>3, <1>5 DEF CheckedIsPermitted, RecPermitted, Allowed
<1>12. StoredPermitted'
    BY <1>1, <1>3, <1>4 DEF StoredPermitted, RecPermitted, Allowed
<1> QED BY <1>7, <1>8, <1>9, <1>10, <1>11, <1>12

LEMMA InitBinding == Init => Binding
<1> SUFFICES ASSUME Init PROVE Binding
    OBVIOUS
<1>1. RouteShape
    BY DEF Init, RouteShape, RouteFields
<1> QED BY <1>1 DEF Init, Binding, Shapes, RecShape, StoredShape, JobShape, JobOwner, FreshCopies,
            RecComplete, StoredComplete, WrongShapeFails, CheckedIsPermitted, RecPermitted, StoredPermitted

LEMMA BindingStep == Binding /\ [Next]_vars => Binding'
<1> SUFFICES ASSUME Binding, [Next]_vars PROVE Binding'
    OBVIOUS
<1>1. CASE Next
    BY <1>1, WrittenStep, ClusterStep, GatewayStep, SyncAllStep, StatusStep, FailedStep, ReconcileStep,
       upsertRouteStep, CheckGrantStep, ResolveStep, AskAgainStep, AskConsulStep, UpsertStep
       DEF Next, Controller, World, Upserting
<1>2. CASE UNCHANGED vars
    <2>1. SameRec /\ SameStored
        BY <1>2, StaleRec, StaleStored DEF vars, Binding, Shapes
    <2> QED BY <1>2, <2>1, QuietStep
            DEF vars, worldVars, clusterVars, Binding, Shapes, RouteShape, JobShape, JobOwner, FreshCopies
<1> QED BY <1>1, <1>2

----------------------------------------------------------------------------
(* The theorems. *)

\* A route is bound with all of its backends or not at all, and each of them is
\* permitted or will be looked at again (Routes!BoundIsPermitted), whatever the
\* grants, however many rules and backends, and however often Consul is asked
\* while the grants change.
THEOREM BackendsArePermitted == Spec => []BoundIsPermitted
<1> QED BY InitBinding, BindingStep, BindingGivesPermitted, PTL DEF Spec

\* No status update, however late, changes what another controller has written
\* (Routes!OthersKeepTheirStatuses): only a fresh copy is accepted, and a fresh
\* copy has what the others wrote.
THEOREM OthersStatusesAreKept == Spec => OthersKeepTheirStatuses
<1>1. Binding /\ [Next]_vars => [job.pc = "status" /\ job'.pc = "idle" => route'.others = route.others]_vars
    <2> SUFFICES ASSUME Binding, Next, job.pc = "status", job'.pc = "idle"
                 PROVE  route'.others = route.others
        OBVIOUS
    <2>1. CASE UpdateRouteStatus \/ UpdateRouteStatusFails
        BY <2>1, WriteKeepsOthers
    <2>2. CASE ~(UpdateRouteStatus \/ UpdateRouteStatusFails)
        <3>1. job # Idle /\ DOMAIN job = JobFields
            BY DEF Idle, Binding, Shapes, JobShape
        <3>2. OtherWrites \/ (\E s \in Specs : EditRoute(s)) => job'.pc = "status"
            <4>1. Stale(job) = [job EXCEPT !.fresh = FALSE]
                BY DEF Stale
            <4> QED BY <3>1, <4>1 DEF OtherWrites, EditRoute, JobFields
        <3>3. ~(OtherWrites \/ \E s \in Specs : EditRoute(s))
            BY <3>2
        <3>4. CASE Controller
            BY <3>1, <3>4 DEF Controller, Reconcile, upsertRoute, CheckGrant, Resolve, AskAgain, AskConsul,
                   ConsulFails, Upserting, UpsertRoute, worldVars
        <3>5. CASE World
            BY <3>1, <3>3, <3>5 DEF World, GrantsChange, ServiceChanges, MeshServicesChange, CatalogChanges,
                   ConsulChanges, UpsertGateway, DeleteGateway
        <3>6. CASE SyncAll \/ ReadFails
            BY <3>1, <3>6 DEF SyncAll, ReadFails
        <3> QED BY <2>2, <3>4, <3>5, <3>6 DEF Next
    <2> QED BY <2>1, <2>2
<1> QED BY <1>1, InitBinding, BindingStep, PTL DEF Spec, OthersKeepTheirStatuses

\* Every backend of every rule of a route that is bound, as the user has written
\* it, has been resolved: none is dropped by the walk over the rules, by a retry
\* or by a grant that was refused, and TCPRoutes with several are not bound.
EveryBackendIsResolved ==
    stored # None /\ stored.bound =>
        \A r \in DOMAIN stored.spec.rules : \A b \in DOMAIN stored.spec.rules[r] :
            \E x \in stored.references : x.rule = r /\ x.ref = stored.spec.rules[r][b]

\* Routes are bound with all of their backends: EveryBackendIsResolved always
\* holds, for routes of any number of rules and backends (validateHTTPRoute and
\* validateTCPRoute in validator/route.go, the store's binding of the result).
THEOREM RoutesAreBoundWhole == Spec => []EveryBackendIsResolved
<1>1. Binding => EveryBackendIsResolved
    <2> SUFFICES ASSUME Binding, stored # None, stored.bound,
                        NEW r \in DOMAIN stored.spec.rules, NEW b \in DOMAIN stored.spec.rules[r]
                 PROVE  \E x \in stored.references : x.rule = r /\ x.ref = stored.spec.rules[r][b]
        BY DEF EveryBackendIsResolved
    <2> DEFINE backend == [rule |-> r, ref |-> stored.spec.rules[r][b]]
    <2>1. stored.spec \in RouteSpecs /\ stored.errors = {}
        BY SpecsAssumption DEF Binding, Shapes, StoredShape
    <2>2. ~WrongShape(stored.spec)
        BY <2>1 DEF Binding, WrongShapeFails
    <2>3. PICK k \in DOMAIN Backends(stored.spec) : Backends(stored.spec)[k] = backend
        BY <2>1, <2>2, BackendsFacts
    <2>4. Resolved(Backends(stored.spec)[k], stored.references)
        BY <2>1 DEF Binding, StoredComplete
    <2>5. backend.rule = r /\ backend.ref = stored.spec.rules[r][b]
        OBVIOUS
    <2> HIDE DEF backend
    <2> QED BY <2>3, <2>4, <2>5 DEF Resolved
<1> QED BY <1>1, InitBinding, BindingStep, PTL DEF Spec
=============================================================================
