------------------------ MODULE SecretManagerProofs ------------------------
(***************************************************************************)
(* Proofs about SecretManager, for any number of streams, nodes and        *)
(* secrets and every interleaving of requests and refreshes under the read *)
(* lock: type correctness, the soundness of the reference counting, what   *)
(* closing a stream releases, and what a served stream can rely on.        *)
(***************************************************************************)
EXTENDS SecretManager, TLAPS

----------------------------------------------------------------------------
(* Type correctness.  TypeOK is inductive together with the shape of the    *)
(* requests under way: a request has a name in hand when it is fetching or  *)
(* releasing one, it removes nothing before its unwatch, and its stream is  *)
(* open with its node on record.                                            *)

Shape(s) ==
    /\ request[s].step \in {"fetch", "check", "collect"} => request[s].name \in Names
    /\ request[s].step \in {"idle", "watch", "fetch"} => request[s].gone = {}
    /\ request[s].step # "idle" => stream[s] = "open" /\ nodeMap[s] = NodeOf[s]

Shapes == \A s \in Streams : Shape(s)

Types == TypeOK /\ Shapes

\* A request is a request still when the entry it has in hand is replaced: it
\* only learns that the entry is not the registry's.
LEMMA WithoutEntryKeeps ==
    ASSUME NEW r \in [Streams -> Requests], NEW x
    PROVE  /\ WithoutEntry(r, x) \in [Streams -> Requests]
           /\ \A t \in Streams :
                 /\ WithoutEntry(r, x)[t].step = r[t].step
                 /\ WithoutEntry(r, x)[t].watch = r[t].watch
                 /\ WithoutEntry(r, x)[t].name = r[t].name
                 /\ WithoutEntry(r, x)[t].push = r[t].push
                 /\ WithoutEntry(r, x)[t].found = r[t].found
                 /\ WithoutEntry(r, x)[t].unwatch = r[t].unwatch
                 /\ WithoutEntry(r, x)[t].gone = r[t].gone
                 /\ WithoutEntry(r, x)[t].orphan = r[t].orphan
                 /\ r[t].name # x => WithoutEntry(r, x)[t].live = r[t].live
BY DEF WithoutEntry, Requests

\* The refresh under way keeps its type as well.
LEMMA RefreshTypes ==
    ASSUME TypeOK, NEW x
    PROVE  RefreshWithoutEntry(x) \in Refreshes
BY DEF TypeOK, RefreshWithoutEntry, Refreshes

\* What the idle records are.
LEMMA IdleTypes ==
    /\ Idle \in Requests /\ Idle.step = "idle" /\ Idle.gone = {} /\ Idle.name = NoName
    /\ Idle.watch = {} /\ Idle.unwatch = {} /\ Idle.orphan = FALSE
    /\ NoRefresh \in Refreshes /\ NoRefresh.name = NoName
BY DEF Idle, Requests, Steps, NoRefresh, Refreshes

\* A request whose watcher was deleted is the same in everything else.
LEMMA OrphanKeeps ==
    ASSUME NEW r \in Requests
    PROVE  LET q == [r EXCEPT !.orphan = TRUE]
           IN /\ q \in Requests
              /\ q.step = r.step /\ q.name = r.name /\ q.live = r.live
              /\ q.gone = r.gone /\ q.watch = r.watch /\ q.unwatch = r.unwatch
BY DEF Requests

\* A step that changes one request keeps the others' shapes.
LEMMA OneRequestChanges ==
    ASSUME Types, NEW s \in Streams, NEW r \in Requests,
           request' = [request EXCEPT ![s] = r], UNCHANGED <<stream, nodeMap>>,
           r.step \in {"fetch", "check", "collect"} => r.name \in Names,
           r.step \in {"idle", "watch", "fetch"} => r.gone = {},
           r.step = "idle" \/ request[s].step # "idle"
    PROVE  request' \in [Streams -> Requests] /\ Shapes'
BY DEF Types, TypeOK, Shapes, Shape

\* A step of a request keeps types and shapes.
LEMMA RequestStepTypes ==
    ASSUME Types, NEW s \in Streams, RequestStep(s)
    PROVE  Types'
<1> USE NodeOfAssumption, NamesAssumption DEF Types, TypeOK
<1>0. request[s] \in Requests /\ NodeOf[s] \in Nodes
    OBVIOUS
<1>1. ASSUME NEW x \in Names, watchFinds(s, x) PROVE Types'
    <2> DEFINE r == [request[s] EXCEPT !.watch = @ \ {x}]
    <2>a. request' = [request EXCEPT ![s] = r] /\ request[s].step = "watch"
        BY <1>1 DEF watchFinds
    <2>b. r \in Requests /\ r.step = "watch" /\ r.gone = {}
        BY <1>0, <2>a DEF Requests, Shapes, Shape
    <2>c. UNCHANGED <<stream, nodeMap>>
        BY <1>1 DEF watchFinds
    <2> HIDE DEF r
    <2>1. request' \in [Streams -> Requests] /\ Shapes'
        BY <2>a, <2>b, <2>c, OneRequestChanges
    <2>2. watchers' \in [Nodes -> SUBSET Names]
        BY <1>0, <1>1 DEF watchFinds, Watched
    <2>3. refs' \in [Names -> SUBSET Nodes] /\ asked' \in [Streams -> SUBSET Names]
        BY <1>0, <1>1 DEF watchFinds
    <2> QED BY <1>1, <2>1, <2>2, <2>3, <2>c DEF watchFinds, gatewayVars, cacheVars
<1>2. ASSUME NEW x \in Names, watchFetches(s, x) PROVE Types'
    <2> DEFINE r == [request[s] EXCEPT !.watch = @ \ {x}, !.step = "fetch", !.name = x]
    <2>a. request' = [request EXCEPT ![s] = r] /\ request[s].step = "watch"
        BY <1>2 DEF watchFetches
    <2>b. r \in Requests /\ r.step = "fetch" /\ r.name \in Names /\ r.gone = {}
        BY <1>0, <2>a DEF Requests, Steps, Shapes, Shape
    <2>c. UNCHANGED <<stream, nodeMap>>
        BY <1>2 DEF watchFetches, handlerVars
    <2> HIDE DEF r
    <2>1. request' \in [Streams -> Requests] /\ Shapes'
        BY <2>a, <2>b, <2>c, OneRequestChanges
    <2>2. watchers' \in [Nodes -> SUBSET Names]
        BY <1>0, <1>2 DEF watchFetches, Watched
    <2> QED BY <1>2, <2>1, <2>2 DEF watchFetches, handlerVars, gatewayVars, registryVars, cacheVars
<1>3. ASSUME NEW x \in Names, updateCertificates(s, x) PROVE Types'
    <2> DEFINE r == [request[s] EXCEPT !.push = @ \ {x}]
    <2>a. request' = [request EXCEPT ![s] = r] /\ request[s].step = "watch"
        BY <1>3 DEF updateCertificates
    <2>b. r \in Requests /\ r.step = "watch" /\ r.gone = {}
        BY <1>0, <2>a DEF Requests, Shapes, Shape
    <2>c. UNCHANGED <<stream, nodeMap>>
        BY <1>3 DEF updateCertificates, handlerVars
    <2> HIDE DEF r
    <2>1. request' \in [Streams -> Requests] /\ Shapes'
        BY <2>a, <2>b, <2>c, OneRequestChanges
    <2> QED BY <1>3, <2>1 DEF updateCertificates, handlerVars, gatewayVars, watcherVars,
                              registryVars
<1>4. ASSUME NEW x \in Names, unwatch(s, x) PROVE Types'
    <2> DEFINE left == [request[s] EXCEPT !.unwatch = @ \ {x}]
               r == IF x \in registered
                    THEN [left EXCEPT !.step = "check", !.name = x, !.live = TRUE]
                    ELSE left
    <2>a. request' = [request EXCEPT ![s] = r] /\ request[s].step = "unwatch"
        BY <1>4 DEF unwatch
    <2>b. /\ r \in Requests
          /\ r.step \in {"check", "unwatch"}
          /\ r.step = "check" => r.name \in Names
        BY <1>0, <2>a DEF Requests, Steps
    <2>c. UNCHANGED <<stream, nodeMap>>
        BY <1>4 DEF unwatch, handlerVars
    <2> HIDE DEF r
    <2>1. request' \in [Streams -> Requests] /\ Shapes'
        BY <2>a, <2>b, <2>c, OneRequestChanges
    <2> QED BY <2>1, <1>0, <1>4 DEF unwatch, Dropped, handlerVars, gatewayVars, cacheVars
<1>5. ASSUME NEW x \in Names, removeCertificates(s, x) PROVE Types'
    <2> DEFINE left == [request[s] EXCEPT !.gone = @ \ {x}]
               r == IF left.gone = {} THEN Idle ELSE left
    <2>a. request' = [request EXCEPT ![s] = r] /\ request[s].step = "purge"
        BY <1>5 DEF removeCertificates
    <2>b. r \in Requests /\ (r = Idle \/ r.step = "purge")
        BY <1>0, <2>a, IdleTypes DEF Requests
    <2>c. UNCHANGED <<stream, nodeMap>>
        BY <1>5 DEF removeCertificates, handlerVars
    <2> HIDE DEF r
    <2>1. request' \in [Streams -> Requests] /\ Shapes'
        BY <2>a, <2>b, <2>c, IdleTypes, OneRequestChanges
    <2> QED BY <2>1, <1>0, <1>5 DEF removeCertificates, handlerVars, gatewayVars, watcherVars,
                                    registryVars
<1>6. CASE watchFetched(s)
    <2> DEFINE x == request[s].name
               left == [request[s] EXCEPT !.step = "watch", !.name = NoName,
                                          !.push = @ \cup {x}]
               r == [request EXCEPT ![s] = left]
    <2>1. x \in Names
        BY <1>6 DEF watchFetched, Shapes, Shape
    <2>a. left \in Requests /\ left.step = "watch" /\ left.gone = request[s].gone
        BY <1>0, <2>1 DEF Requests, Steps
    <2>3. request' = WithoutEntry(r, x) /\ request[s].step = "fetch" /\ request[s].gone = {}
        BY <1>6 DEF watchFetched, Shapes, Shape
    <2> HIDE DEF left
    <2>2. /\ r \in [Streams -> Requests]
          /\ \A t \in Streams : t # s => r[t] = request[t]
          /\ r[s].step = "watch" /\ r[s].gone = request[s].gone
        BY <2>a
    <2>c. UNCHANGED <<stream, nodeMap>>
        BY <1>6 DEF watchFetched
    <2> HIDE DEF r
    <2>4. request' \in [Streams -> Requests] /\ Shapes'
        <3>1. /\ request' \in [Streams -> Requests]
              /\ \A t \in Streams : /\ request'[t].step = r[t].step
                                    /\ request'[t].name = r[t].name
                                    /\ request'[t].gone = r[t].gone
            BY <2>2, <2>3, WithoutEntryKeeps
        <3> QED BY <2>2, <2>3, <2>c, <3>1 DEF Shapes, Shape
    <2>5. refresh' \in Refreshes
        BY <1>6, RefreshTypes DEF watchFetched
    <2> QED BY <1>0, <1>6, <2>1, <2>4, <2>5 DEF watchFetched, gatewayVars, watcherVars
<1>7. CASE watchFails(s)
    <2>1. request' \in [Streams -> Requests] /\ Shapes'
        BY <1>7, IdleTypes DEF watchFails, Shapes, Shape
    <2> QED BY <1>7, <2>1 DEF watchFails, StreamStates, gatewayVars, managerVars, watcherVars,
                              registryVars, cacheVars
<1>8. CASE watchReturns(s)
    <2> DEFINE r == IF request[s].found /\ NodeOf[s] \in tracked
                    THEN [request[s] EXCEPT !.step = "unwatch", !.orphan = FALSE]
                    ELSE Idle
    <2>a. request' = [request EXCEPT ![s] = r] /\ request[s].step = "watch"
        BY <1>8 DEF watchReturns
    <2>b. r \in Requests /\ (r = Idle \/ r.step = "unwatch")
        BY <1>0, IdleTypes DEF Requests, Steps
    <2>c. UNCHANGED <<stream, nodeMap>>
        BY <1>8 DEF watchReturns, handlerVars
    <2> HIDE DEF r
    <2>1. request' \in [Streams -> Requests] /\ Shapes'
        BY <2>a, <2>b, <2>c, IdleTypes, OneRequestChanges
    <2> QED BY <1>8, <2>1 DEF watchReturns, handlerVars, gatewayVars, managerVars, watcherVars,
                              registryVars, cacheVars
<1>9. CASE unwatchCollects(s)
    <2> DEFINE x == request[s].name
               left == [request[s] EXCEPT !.step = "unwatch", !.name = NoName, !.live = FALSE,
                                          !.gone = @ \cup {x}]
               r == [request EXCEPT ![s] = left]
    <2>1. x \in Names
        BY <1>9 DEF unwatchCollects, Shapes, Shape
    <2>a. left \in Requests /\ left.step = "unwatch"
        BY <1>0, <2>1 DEF Requests, Steps
    <2>3. request' = WithoutEntry(r, x) /\ request[s].step = "collect"
        BY <1>9 DEF unwatchCollects
    <2> HIDE DEF left
    <2>2. /\ r \in [Streams -> Requests]
          /\ \A t \in Streams : t # s => r[t] = request[t]
          /\ r[s].step = "unwatch"
        BY <2>a
    <2>c. UNCHANGED <<stream, nodeMap>>
        BY <1>9 DEF unwatchCollects, handlerVars
    <2> HIDE DEF r
    <2>4. request' \in [Streams -> Requests] /\ Shapes'
        <3>1. /\ request' \in [Streams -> Requests]
              /\ \A t \in Streams : /\ request'[t].step = r[t].step
                                    /\ request'[t].name = r[t].name
                                    /\ request'[t].gone = r[t].gone
            BY <2>2, <2>3, WithoutEntryKeeps
        <3> QED BY <2>2, <2>3, <2>c, <3>1 DEF Shapes, Shape
    <2>5. refresh' \in Refreshes
        BY <1>9, RefreshTypes DEF unwatchCollects
    <2> QED BY <1>0, <1>9, <2>1, <2>4, <2>5 DEF unwatchCollects, handlerVars, gatewayVars,
                                                watcherVars, cacheVars
<1>10. ASSUME NEW last \in BOOLEAN, unwatchChecks(s, last) PROVE Types'
    <2> DEFINE r == IF last THEN [request[s] EXCEPT !.step = "collect"]
                    ELSE [request[s] EXCEPT !.step = "unwatch", !.name = NoName, !.live = FALSE]
    <2>a. request' = [request EXCEPT ![s] = r] /\ request[s].step = "check"
        BY <1>10 DEF unwatchChecks
    <2>b. request[s].name \in Names
        BY <2>a DEF Shapes, Shape
    <2>d. /\ r \in Requests
          /\ r.step \in {"collect", "unwatch"}
          /\ r.step = "collect" => r.name \in Names
        BY <1>0, <2>b DEF Requests, Steps
    <2>c. UNCHANGED <<stream, nodeMap>>
        BY <1>10 DEF unwatchChecks, handlerVars
    <2> HIDE DEF r
    <2>1. request' \in [Streams -> Requests] /\ Shapes'
        BY <2>a, <2>c, <2>d, OneRequestChanges
    <2> QED BY <1>10, <2>1 DEF unwatchChecks, handlerVars, gatewayVars, managerVars, watcherVars,
                               registryVars, cacheVars
<1>11. ASSUME NEW empty \in BOOLEAN, unwatchReturns(s, empty) PROVE Types'
    <2>1. ASSUME NEW t \in Streams
          PROVE  request'[t] \in Requests /\ Shape(t)'
        <3>1. CASE t = s
            <4>1. request'[s] \in {Idle, [request[s] EXCEPT !.step = "purge"]}
                BY <1>11 DEF unwatchReturns
            <4>2. [request[s] EXCEPT !.step = "purge"] \in Requests
                BY <1>0 DEF Requests, Steps
            <4>3. [request[s] EXCEPT !.step = "purge"].step = "purge"
                BY <1>0 DEF Requests
            <4> QED BY <1>11, <3>1, <4>1, <4>2, <4>3, IdleTypes
                    DEF unwatchReturns, Shapes, Shape, handlerVars
        <3>2. CASE t # s
            <4> DEFINE q == [request[t] EXCEPT !.orphan = TRUE]
            <4>1. request'[t] \in {request[t], q} /\ UNCHANGED <<stream, nodeMap>>
                BY <1>11, <3>2 DEF unwatchReturns, handlerVars
            <4>2. /\ q \in Requests
                  /\ q.step = request[t].step /\ q.name = request[t].name
                  /\ q.gone = request[t].gone
                BY OrphanKeeps
            <4> HIDE DEF q
            <4> QED BY <4>1, <4>2 DEF Shapes, Shape
        <3> QED BY <3>1, <3>2
    <2>2. request' \in [Streams -> Requests] /\ Shapes'
        BY <1>11, <2>1 DEF unwatchReturns, Shapes
    <2> QED BY <1>0, <1>11, <2>2 DEF unwatchReturns, handlerVars, gatewayVars, registryVars,
                                     cacheVars
<1> QED BY <1>1, <1>2, <1>3, <1>4, <1>5, <1>6, <1>7, <1>8, <1>9, <1>10, <1>11 DEF RequestStep

\* A restart has nothing under way.
LEMMA RestartTypes ==
    ASSUME Types, Restart PROVE Types'
BY IdleTypes DEF Types, TypeOK, Restart, Shapes, Shape, StreamStates, gatewayVars

\* The result of UnwatchAll is well typed for any node.
LEMMA UnwatchAllTypes ==
    ASSUME TypeOK, NEW node \in Nodes, UnwatchAll(node)
    PROVE  /\ tracked' \in SUBSET Nodes
           /\ watchers' \in [Nodes -> SUBSET Names]
           /\ registered' \in SUBSET Names
           /\ refs' \in [Names -> SUBSET Nodes]
           /\ lost' \in [Names -> SUBSET Nodes]
           /\ cache' \in SUBSET Names
           /\ leaked' \in SUBSET Names
           /\ due' \in SUBSET Names
BY DEF TypeOK, UnwatchAll, Dropped, Collected

\* Every step keeps types and shapes.
LEMMA TypeStep == Types /\ [Next]_vars => Types'
<1> SUFFICES ASSUME Types, [Next]_vars PROVE Types'
    OBVIOUS
<1> USE NodeOfAssumption, NamesAssumption DEF Types, TypeOK
<1>1. ASSUME NEW s \in Streams, OnStreamOpen(s) PROVE Types'
    BY <1>1 DEF OnStreamOpen, StreamStates, Shapes, Shape, gatewayVars, managerVars,
                watcherVars, registryVars, cacheVars
<1>2. ASSUME NEW s \in Streams, NEW names \in Lists, OnStreamRequestDenied(s, names) PROVE Types'
    BY <1>2 DEF OnStreamRequestDenied, Working, StreamStates, Shapes, Shape, gatewayVars,
                managerVars, watcherVars, registryVars, cacheVars
<1>3. ASSUME NEW s \in Streams, NEW names \in Lists, OnStreamRequest(s, names) PROVE Types'
    <2> DEFINE w == names \ watchers[NodeOf[s]]
               u == watchers[NodeOf[s]] \ names
               f == NodeOf[s] \in tracked
               r == [Idle EXCEPT !.step = "watch", !.watch = w, !.found = f, !.unwatch = u]
    <2>a. request' = [request EXCEPT ![s] = r]
        BY <1>3 DEF OnStreamRequest, SetResourcesForNode
    <2>b. r \in Requests /\ r.step = "watch" /\ r.gone = {}
        <3>1. w \in SUBSET Names /\ u \in SUBSET Names /\ f \in BOOLEAN
            OBVIOUS
        <3> HIDE DEF w, u, f
        <3> QED BY <3>1 DEF Idle, Requests, Steps
    <2>c. stream' = stream /\ stream[s] = "open" /\ nodeMap' = [nodeMap EXCEPT ![s] = NodeOf[s]]
        BY <1>3 DEF OnStreamRequest
    <2> HIDE DEF r
    <2>1. request' \in [Streams -> Requests] /\ Shapes'
        BY <2>a, <2>b, <2>c DEF Shapes, Shape
    <2> QED BY <1>3, <2>1 DEF OnStreamRequest, SetResourcesForNode, gatewayVars, registryVars,
                              cacheVars
<1>4. ASSUME NEW s \in Streams, RequestStep(s) PROVE Types'
    BY <1>4, RequestStepTypes
<1>5. ASSUME NEW s \in Streams, OnStreamRequestPanics(s) \/ ConcurrentMapAccess(s) PROVE Types'
    BY <1>5, RestartTypes DEF OnStreamRequestPanics, ConcurrentMapAccess
<1>6. ASSUME NEW s \in Streams, OnStreamClosed(s) PROVE Types'
    <2>1. Shapes' /\ stream' \in [Streams -> StreamStates]
        BY <1>6 DEF OnStreamClosed, Working, StreamStates, Shapes, Shape
    <2>2. CASE nodeMap[s] # NoNode
        <3>1. UnwatchAll(nodeMap[s]) /\ nodeMap[s] \in Nodes
            BY <1>6, <2>2 DEF OnStreamClosed
        <3> QED BY <1>6, <2>1, <3>1, UnwatchAllTypes DEF OnStreamClosed, gatewayVars
    <2>3. CASE nodeMap[s] = NoNode
        BY <1>6, <2>1, <2>3 DEF OnStreamClosed, gatewayVars, managerVars, watcherVars,
                                registryVars, cacheVars
    <2> QED BY <2>2, <2>3
<1>7. CASE Manage
    <2>1. UNCHANGED <<handlerVars, gatewayVars, watcherVars, registered, refs, lost, request>>
        BY <1>7 DEF Manage, manage, manageFetched, manageFails, managerVars, registryVars
    <2>2. refresh' \in Refreshes
        <3>1. ASSUME NEW x \in Names PROVE [name |-> x, live |-> TRUE] \in Refreshes
            BY DEF Refreshes
        <3> QED BY <1>7, <3>1, IdleTypes DEF Manage, manage, manageFetched, manageFails
    <2>3. cache' \in SUBSET Names /\ leaked' \in SUBSET Names /\ due' \in SUBSET Names
        BY <1>7 DEF Manage, manage, manageFetched, manageFails, managerVars, registryVars, cacheVars
    <2> QED BY <2>1, <2>2, <2>3 DEF Shapes, Shape, handlerVars, gatewayVars, watcherVars
<1>8. CASE Environment
    BY <1>8 DEF Environment, GatewayChanges, Expire, Shapes, Shape, handlerVars, gatewayVars,
                managerVars, watcherVars, registryVars, cacheVars
<1>9. CASE UNCHANGED vars
    BY <1>9 DEF Shapes, Shape, vars, handlerVars, gatewayVars, managerVars, watcherVars,
                registryVars, cacheVars
<1> QED BY <1>1, <1>2, <1>3, <1>4, <1>5, <1>6, <1>7, <1>8, <1>9 DEF Next, Request

\* The first state is well typed, with nothing under way.
LEMMA TypeInit == Init => Types
BY NamesAssumption, IdleTypes DEF Init, Types, TypeOK, Shapes, Shape, StreamStates

\* TypeOK is an invariant of the secret manager.
THEOREM TypeCorrect == Spec => []TypeOK
<1>1. Types => TypeOK
    BY DEF Types
<1> QED BY <1>1, TypeInit, TypeStep, PTL DEF Spec

----------------------------------------------------------------------------
(* What leaves the registry and the cache.  A registered name without a     *)
(* reference is one that a request is about to delete, from an entry that   *)
(* is still the registry's; a cached name that is not registered is one     *)
(* that a request is about to take out of the cache, unless it was put      *)
(* there after its entry had gone.                                          *)

Releasing(s, x) ==
    /\ request[s].name = x
    /\ request[s].step = "collect" \/ (request[s].step = "check" /\ request[s].live)

Registered(x) == x \in registered => refs[x] # {} \/ \E s \in Streams : Releasing(s, x)

Cached(x) ==
    x \in cache \ registered => x \in leaked \/ \E s \in Streams : x \in request[s].gone

Counting == Types /\ \A x \in Names : Registered(x) /\ Cached(x)

\* A step of a request keeps the count.
LEMMA RequestStepCounts ==
    ASSUME Counting, NEW s \in Streams, RequestStep(s), NEW y \in Names
    PROVE  Registered(y)' /\ Cached(y)'
<1> USE NodeOfAssumption, NamesAssumption DEF Counting, Types, TypeOK
<1>0. /\ request[s] \in Requests /\ NodeOf[s] \in Nodes /\ Shape(s)
      /\ Registered(y) /\ Cached(y)
    BY DEF Shapes
<1>1. ASSUME NEW x \in Names, watchFinds(s, x) PROVE Registered(y)' /\ Cached(y)'
    <2>1. \A t \in Streams : /\ request'[t].name = request[t].name
                             /\ request'[t].step = request[t].step
                             /\ request'[t].live = request[t].live
                             /\ request'[t].gone = request[t].gone
        BY <1>0, <1>1 DEF watchFinds, Requests
    <2>2. UNCHANGED <<registered, cache, leaked>> /\ \A z \in Names : refs[z] \subseteq refs'[z]
        BY <1>1 DEF watchFinds, cacheVars
    <2> QED BY <1>0, <2>1, <2>2 DEF Registered, Cached, Releasing
<1>2. ASSUME NEW x \in Names, watchFetches(s, x) PROVE Registered(y)' /\ Cached(y)'
    <2>1. /\ \A t \in Streams : request'[t].gone = request[t].gone
          /\ \A t \in Streams : t # s => request'[t] = request[t]
          /\ request[s].step = "watch"
        BY <1>0, <1>2 DEF watchFetches, Requests
    <2>2. UNCHANGED <<registered, refs, cache, leaked>>
        BY <1>2 DEF watchFetches, registryVars, cacheVars
    <2> QED BY <1>0, <2>1, <2>2 DEF Registered, Cached, Releasing
<1>3. ASSUME NEW x \in Names, updateCertificates(s, x) PROVE Registered(y)' /\ Cached(y)'
    <2>1. /\ \A t \in Streams : /\ request'[t].name = request[t].name
                                /\ request'[t].step = request[t].step
                                /\ request'[t].live = request[t].live
                                /\ request'[t].gone = request[t].gone
        BY <1>0, <1>3 DEF updateCertificates, Requests
    <2>2. /\ UNCHANGED <<registered, refs>>
          /\ cache' = cache \cup {x}
          /\ leaked' = IF x \in registered THEN leaked ELSE leaked \cup {x}
        BY <1>3 DEF updateCertificates, registryVars
    <2> QED BY <1>0, <2>1, <2>2 DEF Registered, Cached, Releasing
<1>4. ASSUME NEW x \in Names, unwatch(s, x) PROVE Registered(y)' /\ Cached(y)'
    <2> DEFINE left == [request[s] EXCEPT !.unwatch = @ \ {x}]
               held == [left EXCEPT !.step = "check", !.name = x, !.live = TRUE]
    <2>1. /\ request[s].step = "unwatch"
          /\ request' = [request EXCEPT ![s] = IF x \in registered THEN held ELSE left]
        BY <1>4 DEF unwatch
    <2>2. /\ left.gone = request[s].gone
          /\ held.gone = request[s].gone
          /\ held.step = "check" /\ held.name = x /\ held.live = TRUE
        BY <1>0 DEF Requests
    <2> HIDE DEF left, held
    <2>3. /\ \A t \in Streams : request'[t].gone = request[t].gone
          /\ \A t \in Streams : t # s => request'[t] = request[t]
          /\ x \in registered => Releasing(s, x)'
        BY <2>1, <2>2 DEF Releasing
    <2>4. /\ UNCHANGED <<registered, cache, leaked>>
          /\ \A z \in Names : z # x => refs'[z] = refs[z]
        BY <1>4 DEF unwatch, Dropped, cacheVars
    <2>5. \A t \in Streams : Releasing(t, y) => t # s
        BY <2>1 DEF Releasing
    <2> QED BY <1>0, <2>3, <2>4, <2>5 DEF Registered, Cached, Releasing
<1>5. ASSUME NEW x \in Names, removeCertificates(s, x) PROVE Registered(y)' /\ Cached(y)'
    <2> DEFINE left == [request[s] EXCEPT !.gone = @ \ {x}]
    <2>1. /\ request[s].step = "purge"
          /\ request' = [request EXCEPT ![s] = IF left.gone = {} THEN Idle ELSE left]
        BY <1>5 DEF removeCertificates
    <2>2. left.gone = request[s].gone \ {x}
        BY <1>0 DEF Requests
    <2> HIDE DEF left
    <2>3. /\ request'[s].gone = request[s].gone \ {x}
          /\ \A t \in Streams : t # s => request'[t] = request[t]
        BY <2>1, <2>2, IdleTypes
    <2>4. UNCHANGED <<registered, refs>> /\ cache' = cache \ {x} /\ leaked' = leaked \ {x}
        BY <1>5 DEF removeCertificates, registryVars
    <2> QED BY <1>0, <2>1, <2>3, <2>4 DEF Registered, Cached, Releasing
<1>6. CASE watchFetched(s)
    <2> DEFINE x == request[s].name
               left == [request[s] EXCEPT !.step = "watch", !.name = NoName,
                                          !.push = @ \cup {x}]
               r == [request EXCEPT ![s] = left]
    <2>1. x \in Names /\ request[s].step = "fetch"
        BY <1>0, <1>6 DEF watchFetched, Shape
    <2>a. left \in Requests /\ left.gone = request[s].gone
        BY <1>0, <2>1 DEF Requests, Steps
    <2>3. request' = WithoutEntry(r, x)
        BY <1>6 DEF watchFetched
    <2> HIDE DEF left
    <2>2. /\ r \in [Streams -> Requests]
          /\ \A t \in Streams : t # s => r[t] = request[t]
          /\ r[s].gone = request[s].gone
        BY <2>a
    <2>4. /\ registered' = registered \cup {x}
          /\ cache' = cache /\ leaked' = leaked \ {x}
          /\ refs' = [refs EXCEPT ![x] = {NodeOf[s]}]
        BY <1>6 DEF watchFetched
    <2> HIDE DEF r
    <2>5. /\ \A t \in Streams : request'[t].gone = request[t].gone
          /\ \A t \in Streams : t # s => /\ request'[t].step = request[t].step
                                         /\ request'[t].name = request[t].name
                                         /\ request[t].name # x => request'[t].live = request[t].live
        <3>1. \A t \in Streams : /\ request'[t].gone = r[t].gone
                                 /\ request'[t].step = r[t].step
                                 /\ request'[t].name = r[t].name
                                 /\ r[t].name # x => request'[t].live = r[t].live
            BY <2>2, <2>3, WithoutEntryKeeps
        <3> QED BY <2>2, <3>1
    <2>6. CASE y = x
        BY <2>1, <2>4, <2>6 DEF Registered, Cached
    <2>7. CASE y # x
        BY <1>0, <2>1, <2>4, <2>5, <2>7 DEF Registered, Cached, Releasing
    <2> QED BY <2>6, <2>7
<1>7. CASE watchFails(s)
    <2>1. /\ request'[s].gone = request[s].gone
          /\ \A t \in Streams : t # s => request'[t] = request[t]
          /\ request[s].step = "fetch"
        BY <1>0, <1>7, IdleTypes DEF watchFails, Shape
    <2>2. UNCHANGED <<registered, refs, cache, leaked>>
        BY <1>7 DEF watchFails, managerVars, registryVars, cacheVars
    <2> QED BY <1>0, <2>1, <2>2 DEF Registered, Cached, Releasing
<1>8. CASE watchReturns(s)
    <2> DEFINE r == IF request[s].found /\ NodeOf[s] \in tracked
                    THEN [request[s] EXCEPT !.step = "unwatch", !.orphan = FALSE]
                    ELSE Idle
    <2>1. request' = [request EXCEPT ![s] = r] /\ request[s].step = "watch"
        BY <1>8 DEF watchReturns
    <2>2. r.gone = request[s].gone
        BY <1>0, <2>1, IdleTypes DEF Requests, Shape
    <2> HIDE DEF r
    <2>3. /\ request'[s].gone = request[s].gone
          /\ \A t \in Streams : t # s => request'[t] = request[t]
        BY <2>1, <2>2
    <2>4. UNCHANGED <<registered, refs, cache, leaked>>
        BY <1>8 DEF watchReturns, managerVars, registryVars, cacheVars
    <2> QED BY <1>0, <2>1, <2>3, <2>4 DEF Registered, Cached, Releasing
<1>9. CASE unwatchCollects(s)
    <2> DEFINE x == request[s].name
               left == [request[s] EXCEPT !.step = "unwatch", !.name = NoName, !.live = FALSE,
                                          !.gone = @ \cup {x}]
               r == [request EXCEPT ![s] = left]
    <2>1. x \in Names /\ request[s].step = "collect"
        BY <1>0, <1>9 DEF unwatchCollects, Shape
    <2>a. left \in Requests /\ left.gone = request[s].gone \cup {x}
        BY <1>0, <2>1 DEF Requests, Steps
    <2>3. request' = WithoutEntry(r, x)
        BY <1>9 DEF unwatchCollects
    <2> HIDE DEF left
    <2>2. /\ r \in [Streams -> Requests]
          /\ \A t \in Streams : t # s => r[t] = request[t]
          /\ r[s].gone = request[s].gone \cup {x}
        BY <2>a
    <2>4. /\ registered' = registered \ {x}
          /\ cache' = cache /\ leaked' = leaked
          /\ refs' = [refs EXCEPT ![x] = {}]
        BY <1>9 DEF unwatchCollects, cacheVars
    <2> HIDE DEF r
    <2>5. /\ \A t \in Streams : request[t].gone \subseteq request'[t].gone
          /\ x \in request'[s].gone
          /\ \A t \in Streams : t # s => /\ request'[t].step = request[t].step
                                         /\ request'[t].name = request[t].name
                                         /\ request[t].name # x => request'[t].live = request[t].live
        BY <2>2, <2>3, WithoutEntryKeeps
    <2>6. CASE y = x
        BY <2>1, <2>4, <2>5, <2>6 DEF Registered, Cached
    <2>7. CASE y # x
        BY <1>0, <2>1, <2>4, <2>5, <2>7 DEF Registered, Cached, Releasing
    <2> QED BY <2>6, <2>7
<1>10. ASSUME NEW last \in BOOLEAN, unwatchChecks(s, last) PROVE Registered(y)' /\ Cached(y)'
    <2> DEFINE go == [request[s] EXCEPT !.step = "collect"]
               stay == [request[s] EXCEPT !.step = "unwatch", !.name = NoName, !.live = FALSE]
    <2>1. /\ request' = [request EXCEPT ![s] = IF last THEN go ELSE stay]
          /\ request[s].step = "check"
          /\ request[s].live => last = (refs[request[s].name] = {})
        BY <1>10 DEF unwatchChecks
    <2>2. /\ go.gone = request[s].gone /\ stay.gone = request[s].gone
          /\ go.step = "collect" /\ go.name = request[s].name
        BY <1>0 DEF Requests
    <2> HIDE DEF go, stay
    <2>3. /\ \A t \in Streams : request'[t].gone = request[t].gone
          /\ \A t \in Streams : t # s => request'[t] = request[t]
          /\ last => request'[s].step = "collect" /\ request'[s].name = request[s].name
        BY <2>1, <2>2
    <2>4. UNCHANGED <<registered, refs, cache, leaked>>
        BY <1>10 DEF unwatchChecks, managerVars, registryVars, cacheVars
    <2>5. CASE last
        <3>1. \A t \in Streams : Releasing(t, y) => Releasing(t, y)'
            BY <2>1, <2>3, <2>5 DEF Releasing
        <3> QED BY <1>0, <2>3, <2>4, <3>1 DEF Registered, Cached
    <2>6. CASE ~last
        <3>1. Releasing(s, y) => refs[y] # {}
            BY <2>1, <2>6 DEF Releasing
        <3>2. \A t \in Streams : t # s /\ Releasing(t, y) => Releasing(t, y)'
            BY <2>3 DEF Releasing
        <3> QED BY <1>0, <2>3, <2>4, <3>1, <3>2 DEF Registered, Cached
    <2> QED BY <2>5, <2>6
<1>11. ASSUME NEW empty \in BOOLEAN, unwatchReturns(s, empty) PROVE Registered(y)' /\ Cached(y)'
    <2>1. /\ request[s].step = "unwatch"
          /\ request'[s] = IF request[s].gone = {} THEN Idle
                           ELSE [request[s] EXCEPT !.step = "purge"]
        BY <1>11 DEF unwatchReturns
    <2>2. [request[s] EXCEPT !.step = "purge"].gone = request[s].gone
        BY <1>0 DEF Requests
    <2>3. request'[s].gone = request[s].gone
        BY <2>1, <2>2, IdleTypes
    <2>4. ASSUME NEW t \in Streams, t # s
          PROVE  /\ request'[t].step = request[t].step
                 /\ request'[t].name = request[t].name
                 /\ request'[t].live = request[t].live
                 /\ request'[t].gone = request[t].gone
        <3>1. request'[t] \in {request[t], [request[t] EXCEPT !.orphan = TRUE]}
            BY <1>11, <2>4 DEF unwatchReturns
        <3> QED BY <3>1, OrphanKeeps
    <2>5. UNCHANGED <<registered, refs, cache, leaked>>
        BY <1>11 DEF unwatchReturns, registryVars, cacheVars
    <2> QED BY <1>0, <2>1, <2>3, <2>4, <2>5 DEF Registered, Cached, Releasing
<1> QED BY <1>1, <1>2, <1>3, <1>4, <1>5, <1>6, <1>7, <1>8, <1>9, <1>10, <1>11 DEF RequestStep

\* So does UnwatchAll, which has the lock to itself.
LEMMA UnwatchAllCounts ==
    ASSUME Counting, NEW node \in Nodes, UnwatchAll(node), Unlocked, UNCHANGED request,
           NEW y \in Names
    PROVE  Registered(y)' /\ Cached(y)'
<1> DEFINE gone == Collected(registered, refs', watchers[node])
<1> USE DEF Counting, Types, TypeOK
<1>1. /\ refs' = [x \in Names |-> IF x \in watchers[node] THEN refs[x] \ {node} ELSE refs[x]]
      /\ registered' = registered \ gone
      /\ cache' = cache \ gone
      /\ leaked' = leaked \ gone
    BY DEF UnwatchAll, Dropped
<1>2. gone = {x \in watchers[node] \cap registered : refs'[x] = {}}
    BY DEF Collected
<1>3. Registered(y) /\ Cached(y) /\ \A s \in Streams : ~Releasing(s, y)
    BY DEF Unlocked, Working, Releasing
<1> HIDE DEF gone
<1> QED BY <1>1, <1>2, <1>3 DEF Registered, Cached

\* Every step keeps the count.
LEMMA CountingStep == Counting /\ [Next]_vars => Counting'
<1> SUFFICES ASSUME Counting, [Next]_vars, NEW y \in Names PROVE Registered(y)' /\ Cached(y)'
    BY TypeStep DEF Counting
<1> USE DEF Counting, Types, TypeOK
<1>0. Registered(y) /\ Cached(y)
    OBVIOUS
<1>1. ASSUME UNCHANGED <<registered, refs, cache, leaked, request>>
      PROVE  Registered(y)' /\ Cached(y)'
    BY <1>0, <1>1 DEF Registered, Cached, Releasing
<1>2. ASSUME NEW s \in Streams, OnStreamOpen(s) PROVE Registered(y)' /\ Cached(y)'
    BY <1>1, <1>2 DEF OnStreamOpen, managerVars, registryVars, cacheVars
<1>3. ASSUME NEW s \in Streams, NEW names \in Lists, OnStreamRequestDenied(s, names)
      PROVE  Registered(y)' /\ Cached(y)'
    BY <1>1, <1>3 DEF OnStreamRequestDenied, managerVars, registryVars, cacheVars
<1>4. ASSUME NEW s \in Streams, NEW names \in Lists, OnStreamRequest(s, names)
      PROVE  Registered(y)' /\ Cached(y)'
    <2>1. \A t \in Streams : t # s => request'[t] = request[t]
        BY <1>4 DEF OnStreamRequest, SetResourcesForNode
    <2>2. request[s].step = "idle" /\ request[s].gone = {}
        BY <1>4 DEF OnStreamRequest, Working, Shapes, Shape
    <2>3. UNCHANGED <<registered, refs, cache, leaked>>
        BY <1>4 DEF OnStreamRequest, registryVars, cacheVars
    <2> QED BY <1>0, <2>1, <2>2, <2>3 DEF Registered, Cached, Releasing
<1>5. ASSUME NEW s \in Streams, RequestStep(s) PROVE Registered(y)' /\ Cached(y)'
    BY <1>5, RequestStepCounts
<1>6. ASSUME NEW s \in Streams, OnStreamRequestPanics(s) \/ ConcurrentMapAccess(s)
      PROVE  Registered(y)' /\ Cached(y)'
    BY <1>6 DEF OnStreamRequestPanics, ConcurrentMapAccess, Restart, Registered, Cached
<1>7. ASSUME NEW s \in Streams, OnStreamClosed(s) PROVE Registered(y)' /\ Cached(y)'
    <2>1. CASE nodeMap[s] # NoNode
        BY <1>7, <2>1, UnwatchAllCounts DEF OnStreamClosed
    <2>2. CASE nodeMap[s] = NoNode
        BY <1>7, <2>2, <1>1 DEF OnStreamClosed, managerVars, registryVars, cacheVars
    <2> QED BY <2>1, <2>2
<1>8. CASE Manage
    <2>1. ASSUME NEW x \in Names, manageFetched(x) PROVE Registered(y)' /\ Cached(y)'
        BY <1>0, <2>1 DEF manageFetched, Registered, Cached, Releasing
    <2>2. ASSUME NEW x \in Names, NEW force \in Forces, manage(force, x)
          PROVE  Registered(y)' /\ Cached(y)'
        BY <1>1, <2>2 DEF manage, managerVars, registryVars, cacheVars
    <2>3. CASE manageFails
        BY <1>1, <2>3 DEF manageFails, managerVars, registryVars, cacheVars
    <2> QED BY <1>8, <2>1, <2>2, <2>3 DEF Manage
<1>9. CASE Environment
    BY <1>1, <1>9 DEF Environment, GatewayChanges, Expire, managerVars, registryVars, cacheVars
<1>10. CASE UNCHANGED vars
    BY <1>1, <1>10 DEF vars, managerVars, registryVars, cacheVars
<1> QED BY <1>2, <1>3, <1>4, <1>5, <1>6, <1>7, <1>8, <1>9, <1>10 DEF Next, Request

\* No secret stays in the registry or the cache without a node referencing it,
\* but for the ones that a push or a refresh put back, also when several
\* streams carry the same node id.
THEOREM NoSecretOutlivesItsWatchers == Spec => []SecretsAreReferenced
<1>1. Init => Counting
    BY TypeInit DEF Init, Counting, Registered, Cached
<1>2. Counting => SecretsAreReferenced
    BY DEF Counting, Types, TypeOK, Registered, Cached, Releasing, SecretsAreReferenced, Removing
<1> QED BY <1>1, <1>2, CountingStep, PTL DEF Spec

----------------------------------------------------------------------------
(* What closing a stream releases.  nodeMap is how OnStreamClosed finds the *)
(* node of a stream: the manager tracks only nodes it can still find there. *)

NodesAreMapped ==
    /\ \A s \in Streams :
           /\ nodeMap[s] \in {NoNode, NodeOf[s]}
           /\ stream[s] = "closed" => nodeMap[s] = NoNode
    /\ \A n \in tracked : \E s \in Streams : NodeOf[s] = n /\ nodeMap[s] = n

Mapping == Types /\ NodesAreMapped

\* A step of a request tracks no other node, and maps none.
LEMMA RequestStepMaps ==
    ASSUME Mapping, NEW s \in Streams, RequestStep(s)
    PROVE  NodesAreMapped'
<1>1. /\ nodeMap' = nodeMap
      /\ tracked' \subseteq tracked
      /\ stream' = stream \/ stream' = [stream EXCEPT ![s] = "failed"]
    BY DEF RequestStep, watchFinds, watchFetches, updateCertificates, unwatch, removeCertificates,
           watchFetched, watchFails, watchReturns, unwatchCollects, unwatchChecks,
           unwatchReturns, handlerVars, managerVars, watcherVars
<1> QED BY <1>1 DEF Mapping, Types, TypeOK, NodesAreMapped

\* Every step keeps tracked nodes within reach of a close.
LEMMA MappingStep == Mapping /\ [Next]_vars => Mapping'
<1> SUFFICES ASSUME Mapping, [Next]_vars PROVE NodesAreMapped'
    BY TypeStep DEF Mapping
<1> USE NodeOfAssumption, NoNodeAssumption DEF Mapping, Types, TypeOK
<1>0. ASSUME UNCHANGED <<stream, nodeMap, tracked>> PROVE NodesAreMapped'
    BY <1>0 DEF NodesAreMapped
<1>1. ASSUME NEW s \in Streams, OnStreamOpen(s) PROVE NodesAreMapped'
    BY <1>1 DEF OnStreamOpen, NodesAreMapped, managerVars, watcherVars
<1>2. ASSUME NEW s \in Streams, NEW names \in Lists, OnStreamRequestDenied(s, names)
      PROVE  NodesAreMapped'
    BY <1>2 DEF OnStreamRequestDenied, NodesAreMapped, managerVars, watcherVars
<1>3. ASSUME NEW s \in Streams, NEW names \in Lists, OnStreamRequest(s, names)
      PROVE  NodesAreMapped'
    <2>1. /\ nodeMap' = [nodeMap EXCEPT ![s] = NodeOf[s]]
          /\ stream' = stream
          /\ stream[s] = "open"
          /\ tracked' = tracked \cup {NodeOf[s]}
        BY <1>3 DEF OnStreamRequest, SetResourcesForNode
    <2> QED BY <2>1 DEF NodesAreMapped
<1>4. ASSUME NEW s \in Streams, RequestStep(s) PROVE NodesAreMapped'
    BY <1>4, RequestStepMaps
<1>5. ASSUME NEW s \in Streams, OnStreamRequestPanics(s) \/ ConcurrentMapAccess(s)
      PROVE  NodesAreMapped'
    BY <1>5 DEF OnStreamRequestPanics, ConcurrentMapAccess, Restart, NodesAreMapped
<1>6. ASSUME NEW s \in Streams, OnStreamClosed(s) PROVE NodesAreMapped'
    <2>1. CASE nodeMap[s] # NoNode
        <3>1. /\ nodeMap[s] = NodeOf[s]
              /\ nodeMap' = [nodeMap EXCEPT ![s] = NoNode]
              /\ stream' = [stream EXCEPT ![s] = "closed"]
              /\ tracked' = tracked \ {NodeOf[s]}
            BY <1>6, <2>1 DEF OnStreamClosed, UnwatchAll, NodesAreMapped
        <3> QED BY <3>1 DEF NodesAreMapped
    <2>2. CASE nodeMap[s] = NoNode
        <3>1. /\ nodeMap' = nodeMap
              /\ stream' = [stream EXCEPT ![s] = "closed"]
              /\ tracked' = tracked
            BY <1>6, <2>2 DEF OnStreamClosed, managerVars, watcherVars
        <3> QED BY <2>2, <3>1 DEF NodesAreMapped
    <2> QED BY <2>1, <2>2
<1>7. CASE Manage
    BY <1>0, <1>7 DEF Manage, manage, manageFetched, manageFails, handlerVars, managerVars,
                      watcherVars
<1>8. CASE Environment
    BY <1>0, <1>8 DEF Environment, GatewayChanges, Expire, handlerVars, managerVars, watcherVars
<1>9. CASE UNCHANGED vars
    BY <1>0, <1>9 DEF vars, handlerVars, managerVars, watcherVars
<1> QED BY <1>1, <1>2, <1>3, <1>4, <1>5, <1>6, <1>7, <1>8, <1>9 DEF Next, Request

\* The first state tracks nothing.
LEMMA MappingInit == Init => Mapping
BY TypeInit DEF Init, Mapping, NodesAreMapped

\* A node with no stream left is forgotten, although several streams may carry
\* the same node id.
THEOREM CloseForgetsTheNode == Spec => []ClosedNodesAreForgotten
<1>1. Mapping => ClosedNodesAreForgotten
    BY NodeOfAssumption, NoNodeAssumption
       DEF Mapping, NodesAreMapped, Types, TypeOK, ClosedNodesAreForgotten
<1> QED BY <1>1, MappingInit, MappingStep, PTL DEF Spec
----------------------------------------------------------------------------
(* What a served stream can rely on, when no two streams carry the same     *)
(* node id.  A watcher has the names that the node holds a reference on,    *)
(* lost one on, or is fetching; what a request is to watch, is watched and  *)
(* is to unwatch stays apart; and no watcher is deleted under a request.    *)

OneStreamPerNode == \A s, t \in Streams : NodeOf[s] = NodeOf[t] => s = t

Fetching(s, x) == request[s].step = "fetch" /\ request[s].name = x

Books(s) ==
    /\ ~request[s].orphan
    /\ request[s].step \notin {"idle", "purge"} => NodeOf[s] \in tracked
    /\ request[s].step \in {"watch", "fetch"} =>
           request[s].watch \cap (watchers[NodeOf[s]] \cup request[s].unwatch) = {}
    /\ request[s].step = "fetch" =>
           request[s].name \in watchers[NodeOf[s]] \ (asked[s] \cup request[s].unwatch)

Held(s) ==
    /\ asked[s] \cap request[s].unwatch = {}
    /\ stream[s] = "closed" => asked[s] = {}
    /\ stream[s] = "open" =>
           /\ asked[s] \subseteq watchers[NodeOf[s]]
           /\ \A x \in watchers[NodeOf[s]] : NodeOf[s] \in refs[x] \cup lost[x] \/ Fetching(s, x)

WatchersAreTracked == \A n \in Nodes : watchers[n] # {} => n \in tracked

Holding ==
    /\ Mapping
    /\ \A s \in Streams : Books(s) /\ Held(s)
    /\ WatchersAreTracked
    /\ RefsAreWatched

\* A step that leaves a stream's part of the state alone keeps its books; its
\* references may go only with the entry they were on.
LEMMA OthersHold ==
    ASSUME Holding, NEW t \in Streams, NodeOf[t] \in Nodes,
           UNCHANGED <<stream[t], asked[t], watchers[NodeOf[t]]>>,
           request'[t].step = request[t].step, request'[t].name = request[t].name,
           request'[t].watch = request[t].watch, request'[t].unwatch = request[t].unwatch,
           request'[t].orphan = request[t].orphan,
           NodeOf[t] \in tracked => NodeOf[t] \in tracked',
           \A x \in Names : NodeOf[t] \in refs[x] \cup lost[x] => NodeOf[t] \in refs'[x] \cup lost'[x]
    PROVE  Books(t)' /\ Held(t)'
<1>1. /\ Books(t) /\ Held(t)
      /\ watchers[NodeOf[t]] \subseteq Names
    BY DEF Holding, Mapping, Types, TypeOK
<1>2. Books(t)'
    BY <1>1 DEF Books
<1>3. Held(t)'
    BY <1>1 DEF Held, Fetching
<1> QED BY <1>2, <1>3

\* What a step has to show.
AllHold == /\ \A t \in Streams : Books(t)' /\ Held(t)'
           /\ WatchersAreTracked'
           /\ RefsAreWatched'

\* watch comes to a registered name.
LEMMA watchFindsHolds ==
    ASSUME OneStreamPerNode, Holding, NEW s \in Streams, NEW x \in Names, watchFinds(s, x)
    PROVE  AllHold
<1> USE NodeOfAssumption, NamesAssumption DEF Holding, Mapping, Types, TypeOK
<1>0. request[s] \in Requests /\ NodeOf[s] \in Nodes /\ Books(s) /\ Held(s) /\ Shape(s)
    BY DEF Shapes
<1>1. /\ request[s].step = "watch" /\ x \in request[s].watch /\ x \in registered
      /\ watchers' = [watchers EXCEPT ![NodeOf[s]] = @ \cup {x}]
      /\ refs' = [refs EXCEPT ![x] = @ \cup {NodeOf[s]}]
      /\ asked' = [asked EXCEPT ![s] = @ \cup {x}]
      /\ UNCHANGED <<stream, tracked, registered, lost>>
    BY <1>0 DEF watchFinds, Watched, Books
<1>2. /\ request'[s].step = "watch" /\ request'[s].watch = request[s].watch \ {x}
      /\ request'[s].unwatch = request[s].unwatch /\ request'[s].orphan = request[s].orphan
      /\ \A t \in Streams : t # s => request'[t] = request[t]
    BY <1>0, <1>1 DEF watchFinds, Requests
<1>3. ASSUME NEW t \in Streams, t # s PROVE Books(t)' /\ Held(t)'
    <2>1. NodeOf[t] # NodeOf[s]
        BY <1>3 DEF OneStreamPerNode
    <2>2. UNCHANGED <<stream[t], asked[t], watchers[NodeOf[t]], request[t]>>
        BY <1>0, <1>1, <1>2, <1>3, <2>1
    <2> QED BY <1>1, <2>2, OthersHold
<1>4. Books(s)'
    BY <1>0, <1>1, <1>2 DEF Books
<1>5. Held(s)'
    <2>1. x \notin request[s].unwatch /\ stream[s] = "open"
        BY <1>0, <1>1 DEF Books, Shape
    <2>2. /\ \A y \in Names : refs[y] \cup lost[y] \subseteq refs'[y] \cup lost'[y]
          /\ NodeOf[s] \in refs'[x]
          /\ watchers'[NodeOf[s]] = watchers[NodeOf[s]] \cup {x}
          /\ asked'[s] = asked[s] \cup {x}
        BY <1>0, <1>1
    <2>3. \A y \in watchers[NodeOf[s]] : NodeOf[s] \in refs[y] \cup lost[y] /\ y \in Names
        BY <1>0, <1>1, <2>1 DEF Held, Fetching
    <2>4. \A y \in watchers'[NodeOf[s]] : NodeOf[s] \in refs'[y] \cup lost'[y]
        BY <2>2, <2>3
    <2> QED BY <1>0, <1>1, <1>2, <2>1, <2>2, <2>4 DEF Held
<1>6. WatchersAreTracked'
    BY <1>0, <1>1 DEF WatchersAreTracked, Books
<1>7. RefsAreWatched'
    BY <1>0, <1>1 DEF RefsAreWatched, Books
<1> QED BY <1>3, <1>4, <1>5, <1>6, <1>7 DEF AllHold

\* watch sets out to fetch a name.
LEMMA watchFetchesHolds ==
    ASSUME OneStreamPerNode, Holding, NEW s \in Streams, NEW x \in Names, watchFetches(s, x)
    PROVE  AllHold
<1> USE NodeOfAssumption, NamesAssumption DEF Holding, Mapping, Types, TypeOK
<1>0. request[s] \in Requests /\ NodeOf[s] \in Nodes /\ Books(s) /\ Held(s) /\ Shape(s)
    BY DEF Shapes
<1>1. /\ request[s].step = "watch" /\ x \in request[s].watch
      /\ watchers' = [watchers EXCEPT ![NodeOf[s]] = @ \cup {x}]
      /\ UNCHANGED <<stream, asked, tracked, registered, refs, lost>>
    BY <1>0 DEF watchFetches, Watched, Books, handlerVars, registryVars
<1>2. /\ request'[s].step = "fetch" /\ request'[s].name = x
      /\ request'[s].watch = request[s].watch \ {x}
      /\ request'[s].unwatch = request[s].unwatch /\ request'[s].orphan = request[s].orphan
      /\ \A t \in Streams : t # s => request'[t] = request[t]
    BY <1>0 DEF watchFetches, Requests
<1>3. ASSUME NEW t \in Streams, t # s PROVE Books(t)' /\ Held(t)'
    <2>1. NodeOf[t] # NodeOf[s]
        BY <1>3 DEF OneStreamPerNode
    <2>2. UNCHANGED <<stream[t], asked[t], watchers[NodeOf[t]], request[t]>>
        BY <1>0, <1>1, <1>2, <1>3, <2>1
    <2> QED BY <1>1, <2>2, OthersHold
<1>a. stream[s] = "open" /\ asked[s] \subseteq watchers[NodeOf[s]]
    BY <1>0, <1>1 DEF Shape, Held
<1>4. Books(s)'
    BY <1>0, <1>1, <1>2, <1>a DEF Books
<1>5. Held(s)'
    BY <1>0, <1>1, <1>2 DEF Held, Fetching, Books
<1>6. WatchersAreTracked'
    BY <1>0, <1>1 DEF WatchersAreTracked, Books
<1>7. RefsAreWatched'
    BY <1>0, <1>1 DEF RefsAreWatched, Books
<1> QED BY <1>3, <1>4, <1>5, <1>6, <1>7 DEF AllHold

\* A fetched certificate replaces what entry the registry has.
LEMMA watchFetchedHolds ==
    ASSUME OneStreamPerNode, Holding, NEW s \in Streams, watchFetched(s)
    PROVE  AllHold
<1> USE NodeOfAssumption, NamesAssumption DEF Holding, Mapping, Types, TypeOK
<1>0. request[s] \in Requests /\ NodeOf[s] \in Nodes /\ Books(s) /\ Held(s) /\ Shape(s)
    BY DEF Shapes
<1> DEFINE x == request[s].name
           left == [request[s] EXCEPT !.step = "watch", !.name = NoName, !.push = @ \cup {x}]
           r == [request EXCEPT ![s] = left]
<1>1. /\ request[s].step = "fetch" /\ x \in Names
      /\ registered' = registered \cup {x}
      /\ refs' = [refs EXCEPT ![x] = {NodeOf[s]}]
      /\ lost' = [lost EXCEPT ![x] = (@ \cup refs[x]) \ {NodeOf[s]}]
      /\ asked' = [asked EXCEPT ![s] = @ \cup {x}]
      /\ UNCHANGED <<stream, tracked, watchers>>
    BY <1>0 DEF watchFetched, Shape, watcherVars
<1>c. request' = WithoutEntry(r, x)
    BY DEF watchFetched
<1>a. /\ left \in Requests
      /\ left.step = "watch" /\ left.watch = request[s].watch
      /\ left.unwatch = request[s].unwatch /\ left.orphan = request[s].orphan
    BY <1>0, <1>1 DEF Requests, Steps
<1> HIDE DEF left
<1>b. /\ r \in [Streams -> Requests]
      /\ r[s] = left
      /\ \A t \in Streams : t # s => r[t] = request[t]
    BY <1>a
<1> HIDE DEF r
<1>2. \A t \in Streams : /\ request'[t].step = r[t].step /\ request'[t].name = r[t].name
                         /\ request'[t].watch = r[t].watch /\ request'[t].unwatch = r[t].unwatch
                         /\ request'[t].orphan = r[t].orphan
    BY <1>b, <1>c, WithoutEntryKeeps
<1>3. ASSUME NEW t \in Streams, t # s PROVE Books(t)' /\ Held(t)'
    <2>1. NodeOf[t] # NodeOf[s]
        BY <1>3 DEF OneStreamPerNode
    <2>2. UNCHANGED <<stream[t], asked[t], watchers[NodeOf[t]]>>
        BY <1>0, <1>1, <1>3
    <2>3. \A y \in Names : NodeOf[t] \in refs[y] \cup lost[y] => NodeOf[t] \in refs'[y] \cup lost'[y]
        BY <1>0, <1>1, <2>1
    <2> QED BY <1>1, <1>2, <1>3, <1>b, <2>2, <2>3, OthersHold
<1>4. Books(s)'
    BY <1>0, <1>1, <1>2, <1>a, <1>b DEF Books
<1>5. Held(s)'
    <2>1. x \in watchers[NodeOf[s]] /\ x \notin request[s].unwatch
        BY <1>0, <1>1 DEF Books
    <2>2. \A y \in Names : NodeOf[s] \in refs[y] \cup lost[y] => NodeOf[s] \in refs'[y] \cup lost'[y]
        BY <1>0, <1>1
    <2>3. NodeOf[s] \in refs'[x]
        BY <1>0, <1>1
    <2>4. asked'[s] = asked[s] \cup {x} /\ request'[s].unwatch = request[s].unwatch
        BY <1>1, <1>2, <1>a, <1>b
    <2>5. stream[s] = "open" /\ watchers[NodeOf[s]] \subseteq Names
        BY <1>0, <1>1 DEF Shape
    <2> QED BY <1>0, <1>1, <2>1, <2>2, <2>3, <2>4, <2>5 DEF Held, Fetching
<1>6. WatchersAreTracked'
    BY <1>1 DEF WatchersAreTracked
<1>7. RefsAreWatched'
    BY <1>0, <1>1 DEF RefsAreWatched, Books
<1> QED BY <1>3, <1>4, <1>5, <1>6, <1>7 DEF AllHold

\* A step that changes nothing but the request, and perhaps the cache, keeps
\* the rest when the request's own books are in order.
LEMMA OnlyTheRequest ==
    ASSUME Holding, NEW s \in Streams,
           UNCHANGED <<asked, tracked, watchers, registered, refs, lost>>,
           \A t \in Streams : t # s => request'[t] = request[t] /\ stream'[t] = stream[t],
           Books(s)', Held(s)'
    PROVE  AllHold
<1>1. ASSUME NEW t \in Streams, t # s PROVE Books(t)' /\ Held(t)'
    BY <1>1, OthersHold, NodeOfAssumption
<1>2. WatchersAreTracked' /\ RefsAreWatched'
    BY DEF Holding, WatchersAreTracked, RefsAreWatched
<1> QED BY <1>1, <1>2 DEF AllHold

\* The steps that only push, return, check or purge.
LEMMA QuietStepsHold ==
    ASSUME Holding, NEW s \in Streams, NEW x, NEW last \in BOOLEAN,
           \/ updateCertificates(s, x) \/ watchFails(s) \/ watchReturns(s)
           \/ unwatchChecks(s, last) \/ removeCertificates(s, x)
    PROVE  AllHold
<1> USE NodeOfAssumption, NamesAssumption DEF Holding, Mapping, Types, TypeOK
<1>0. request[s] \in Requests /\ NodeOf[s] \in Nodes /\ Books(s) /\ Held(s) /\ Shape(s)
    BY DEF Shapes
<1>1. /\ UNCHANGED <<asked, tracked, watchers, registered, refs, lost>>
      /\ \A t \in Streams : t # s => request'[t] = request[t] /\ stream'[t] = stream[t]
    BY DEF updateCertificates, watchFails, watchReturns, unwatchChecks, removeCertificates,
           handlerVars, managerVars, watcherVars, registryVars
<1>2. ASSUME stream'[s] \in {stream[s], "failed"},
             request'[s].orphan = request[s].orphan, request[s].step # "fetch" \/ stream'[s] = "failed",
             request'[s].unwatch \subseteq request[s].unwatch,
             \/ request'[s].step = "watch" /\ request[s].step = "watch"
                /\ request'[s].watch = request[s].watch
             \/ request'[s].step \in {"unwatch", "collect"}
                /\ request[s].step \notin {"idle", "purge"}
             \/ request'[s].step \in {"idle", "purge"}
      PROVE  AllHold
    <2>1. Books(s)'
        BY <1>0, <1>1, <1>2 DEF Books
    <2>2. Held(s)'
        BY <1>0, <1>1, <1>2 DEF Held, Fetching
    <2> QED BY <1>1, <2>1, <2>2, OnlyTheRequest
<1>3. CASE updateCertificates(s, x)
    <2>1. /\ request'[s].step = "watch" /\ request[s].step = "watch"
          /\ request'[s].watch = request[s].watch
          /\ request'[s].unwatch = request[s].unwatch /\ request'[s].orphan = request[s].orphan
          /\ stream'[s] = stream[s]
        BY <1>0, <1>3 DEF updateCertificates, Requests, handlerVars
    <2> QED BY <1>2, <2>1
<1>4. CASE watchFails(s)
    <2>1. request'[s] = Idle /\ stream'[s] = "failed"
        BY <1>4 DEF watchFails
    <2>2. request[s].orphan = FALSE
        BY <1>0 DEF Books, Requests
    <2> QED BY <1>2, <2>1, <2>2, IdleTypes
<1>5. CASE watchReturns(s)
    <2> DEFINE q == [request[s] EXCEPT !.step = "unwatch", !.orphan = FALSE]
    <2>1. request'[s] \in {q, Idle} /\ request[s].step = "watch" /\ stream'[s] = stream[s]
        BY <1>5 DEF watchReturns, handlerVars
    <2>2. q.step = "unwatch" /\ q.unwatch = request[s].unwatch /\ q.orphan = FALSE
        BY <1>0 DEF Requests
    <2>3. request[s].orphan = FALSE
        BY <1>0 DEF Books, Requests
    <2> HIDE DEF q
    <2> QED BY <1>2, <2>1, <2>2, <2>3, IdleTypes
<1>6. CASE unwatchChecks(s, last)
    <2> DEFINE go == [request[s] EXCEPT !.step = "collect"]
               stay == [request[s] EXCEPT !.step = "unwatch", !.name = NoName, !.live = FALSE]
    <2>1. request'[s] \in {go, stay} /\ request[s].step = "check" /\ stream'[s] = stream[s]
        BY <1>6 DEF unwatchChecks, handlerVars
    <2>2. /\ go.step = "collect" /\ go.unwatch = request[s].unwatch /\ go.orphan = request[s].orphan
          /\ stay.step = "unwatch" /\ stay.unwatch = request[s].unwatch
          /\ stay.orphan = request[s].orphan
        BY <1>0 DEF Requests
    <2> HIDE DEF go, stay
    <2> QED BY <1>2, <2>1, <2>2
<1>7. CASE removeCertificates(s, x)
    <2> DEFINE left == [request[s] EXCEPT !.gone = @ \ {x}]
    <2>1. request'[s] \in {left, Idle} /\ request[s].step = "purge" /\ stream'[s] = stream[s]
        BY <1>7 DEF removeCertificates, handlerVars
    <2>2. left.step = "purge" /\ left.unwatch = request[s].unwatch /\ left.orphan = request[s].orphan
        BY <1>0, <2>1 DEF Requests
    <2>3. request[s].orphan = FALSE
        BY <1>0 DEF Books, Requests
    <2> HIDE DEF left
    <2> QED BY <1>2, <2>1, <2>2, <2>3, IdleTypes
<1> QED BY <1>3, <1>4, <1>5, <1>6, <1>7

\* unwatch gives up a name, and a reference on it.
LEMMA unwatchHolds ==
    ASSUME OneStreamPerNode, Holding, NEW s \in Streams, NEW x \in Names, unwatch(s, x)
    PROVE  AllHold
<1> USE NodeOfAssumption, NamesAssumption DEF Holding, Mapping, Types, TypeOK
<1>0. request[s] \in Requests /\ NodeOf[s] \in Nodes /\ Books(s) /\ Held(s) /\ Shape(s)
    BY DEF Shapes
<1>1. /\ request[s].step = "unwatch" /\ x \in request[s].unwatch
      /\ watchers' = [watchers EXCEPT ![NodeOf[s]] = @ \ {x}]
      /\ refs' = [y \in Names |-> IF y = x THEN refs[y] \ {NodeOf[s]} ELSE refs[y]]
      /\ lost' = [y \in Names |-> IF y = x THEN lost[y] \ {NodeOf[s]} ELSE lost[y]]
      /\ UNCHANGED <<stream, asked, tracked, registered>>
    BY <1>0 DEF unwatch, Dropped, Books, handlerVars
<1> DEFINE left == [request[s] EXCEPT !.unwatch = @ \ {x}]
           held == [left EXCEPT !.step = "check", !.name = x, !.live = TRUE]
<1>a. request' = [request EXCEPT ![s] = IF x \in registered THEN held ELSE left]
    BY DEF unwatch
<1>b. /\ left.step = "unwatch" /\ left.unwatch = request[s].unwatch \ {x}
      /\ left.orphan = request[s].orphan
      /\ held.step = "check" /\ held.unwatch = request[s].unwatch \ {x}
      /\ held.orphan = request[s].orphan
    BY <1>0, <1>1 DEF Requests
<1> HIDE DEF left, held
<1>2. /\ request'[s].step \in {"unwatch", "check"}
      /\ request'[s].unwatch = request[s].unwatch \ {x} /\ request'[s].orphan = request[s].orphan
      /\ \A t \in Streams : t # s => request'[t] = request[t]
    BY <1>a, <1>b
<1>3. ASSUME NEW t \in Streams, t # s PROVE Books(t)' /\ Held(t)'
    <2>1. NodeOf[t] # NodeOf[s]
        BY <1>3 DEF OneStreamPerNode
    <2>2. UNCHANGED <<stream[t], asked[t], watchers[NodeOf[t]], request[t]>>
        BY <1>0, <1>1, <1>2, <1>3, <2>1
    <2>3. \A y \in Names : NodeOf[t] \in refs[y] \cup lost[y] => NodeOf[t] \in refs'[y] \cup lost'[y]
        BY <1>1, <2>1
    <2> QED BY <1>1, <2>2, <2>3, OthersHold
<1>4. Books(s)'
    BY <1>0, <1>1, <1>2 DEF Books
<1>5. Held(s)'
    <2>1. stream[s] = "open" /\ x \notin asked[s] /\ watchers[NodeOf[s]] \subseteq Names
        BY <1>0, <1>1 DEF Held, Shape
    <2>2. \A y \in watchers'[NodeOf[s]] : NodeOf[s] \in refs'[y] \cup lost'[y]
        BY <1>0, <1>1, <2>1 DEF Held, Fetching
    <2>3. watchers'[NodeOf[s]] = watchers[NodeOf[s]] \ {x}
        BY <1>0, <1>1
    <2>4. /\ asked[s] \cap request[s].unwatch = {}
          /\ asked[s] \subseteq watchers[NodeOf[s]]
        BY <1>0, <2>1 DEF Held
    <2> QED BY <1>1, <1>2, <2>1, <2>2, <2>3, <2>4 DEF Held
<1>6. WatchersAreTracked'
    BY <1>0, <1>1 DEF WatchersAreTracked
<1>7. RefsAreWatched'
    BY <1>0, <1>1 DEF RefsAreWatched
<1> QED BY <1>3, <1>4, <1>5, <1>6, <1>7 DEF AllHold

\* The entry found without references leaves the registry.
LEMMA unwatchCollectsHolds ==
    ASSUME Holding, NEW s \in Streams, unwatchCollects(s)
    PROVE  AllHold
<1> USE NodeOfAssumption, NamesAssumption DEF Holding, Mapping, Types, TypeOK
<1>0. request[s] \in Requests /\ NodeOf[s] \in Nodes /\ Books(s) /\ Held(s) /\ Shape(s)
    BY DEF Shapes
<1> DEFINE x == request[s].name
           left == [request[s] EXCEPT !.step = "unwatch", !.name = NoName, !.live = FALSE,
                                      !.gone = @ \cup {x}]
           r == [request EXCEPT ![s] = left]
<1>1. /\ request[s].step = "collect" /\ x \in Names
      /\ registered' = registered \ {x}
      /\ refs' = [refs EXCEPT ![x] = {}]
      /\ lost' = [lost EXCEPT ![x] = @ \cup refs[x]]
      /\ UNCHANGED <<stream, asked, tracked, watchers>>
    BY <1>0 DEF unwatchCollects, Shape, handlerVars, watcherVars
<1>c. request' = WithoutEntry(r, x)
    BY DEF unwatchCollects
<1>a. /\ left \in Requests
      /\ left.step = "unwatch" /\ left.unwatch = request[s].unwatch
      /\ left.orphan = request[s].orphan
    BY <1>0, <1>1 DEF Requests, Steps
<1> HIDE DEF left
<1>b. /\ r \in [Streams -> Requests]
      /\ r[s] = left
      /\ \A t \in Streams : t # s => r[t] = request[t]
    BY <1>a
<1> HIDE DEF r
<1>2. \A t \in Streams : /\ request'[t].step = r[t].step /\ request'[t].name = r[t].name
                         /\ request'[t].watch = r[t].watch /\ request'[t].unwatch = r[t].unwatch
                         /\ request'[t].orphan = r[t].orphan
    BY <1>b, <1>c, WithoutEntryKeeps
<1>3. \A y \in Names : refs[y] \cup lost[y] \subseteq refs'[y] \cup lost'[y]
    BY <1>1
<1>4. ASSUME NEW t \in Streams, t # s PROVE Books(t)' /\ Held(t)'
    BY <1>1, <1>2, <1>3, <1>4, <1>b, OthersHold
<1>5. Books(s)'
    BY <1>0, <1>1, <1>2, <1>a, <1>b DEF Books
<1>6. Held(s)'
    BY <1>0, <1>1, <1>2, <1>3, <1>a, <1>b DEF Held, Fetching
<1>7. WatchersAreTracked'
    BY <1>1 DEF WatchersAreTracked
<1>8. RefsAreWatched'
    BY <1>1 DEF RefsAreWatched
<1> QED BY <1>4, <1>5, <1>6, <1>7, <1>8 DEF AllHold

\* An empty watcher is deleted; only streams of its own node have it in hand.
LEMMA unwatchReturnsHolds ==
    ASSUME OneStreamPerNode, Holding, NEW s \in Streams, NEW empty \in BOOLEAN,
           unwatchReturns(s, empty)
    PROVE  AllHold
<1> USE NodeOfAssumption, NamesAssumption DEF Holding, Mapping, Types, TypeOK
<1>0. request[s] \in Requests /\ NodeOf[s] \in Nodes /\ Books(s) /\ Held(s) /\ Shape(s)
    BY DEF Shapes
<1>1. /\ request[s].step = "unwatch" /\ request[s].unwatch = {}
      /\ empty = (watchers[NodeOf[s]] = {})
      /\ watchers' = watchers
      /\ tracked' \in {tracked, tracked \ {NodeOf[s]}}
      /\ watchers[NodeOf[s]] # {} => tracked' = tracked
      /\ UNCHANGED <<stream, asked, registered, refs, lost>>
    BY <1>0 DEF unwatchReturns, Books, handlerVars, registryVars
<1>2. /\ request'[s] \in {Idle, [request[s] EXCEPT !.step = "purge"]}
      /\ \A t \in Streams : t # s => request'[t] = request[t]
    BY DEF unwatchReturns, OneStreamPerNode
<1>3. ASSUME NEW t \in Streams, t # s PROVE Books(t)' /\ Held(t)'
    <2>1. NodeOf[t] # NodeOf[s]
        BY <1>3 DEF OneStreamPerNode
    <2>2. UNCHANGED <<stream[t], asked[t], watchers[NodeOf[t]], request[t]>>
        BY <1>1, <1>2, <1>3
    <2> QED BY <1>1, <2>1, <2>2, OthersHold
<1> DEFINE q == [request[s] EXCEPT !.step = "purge"]
<1>a. q.step = "purge" /\ q.unwatch = {} /\ q.orphan = request[s].orphan
    BY <1>0, <1>1 DEF Requests
<1>b. request'[s] \in {Idle, q}
    BY <1>2
<1>c. request[s].orphan = FALSE
    BY <1>0 DEF Books, Requests
<1> HIDE DEF q
<1>d. /\ request'[s].step \in {"idle", "purge"} /\ request'[s].unwatch = {}
      /\ request'[s].orphan = FALSE
    BY <1>a, <1>b, <1>c, IdleTypes
<1>4. Books(s)'
    BY <1>d DEF Books
<1>5. Held(s)'
    BY <1>0, <1>1, <1>d DEF Held, Fetching
<1>6. WatchersAreTracked'
    BY <1>0, <1>1 DEF WatchersAreTracked
<1>7. RefsAreWatched'
    BY <1>0, <1>1 DEF RefsAreWatched
<1> QED BY <1>3, <1>4, <1>5, <1>6, <1>7 DEF AllHold

\* Every step of a request keeps all streams' books.
LEMMA RequestStepHolds ==
    ASSUME OneStreamPerNode, Holding, NEW s \in Streams, RequestStep(s)
    PROVE  AllHold
<1>1. ASSUME NEW x \in Names, watchFinds(s, x) \/ watchFetches(s, x) \/ unwatch(s, x)
      PROVE  AllHold
    BY <1>1, watchFindsHolds, watchFetchesHolds, unwatchHolds
<1>2. ASSUME NEW last \in BOOLEAN, unwatchReturns(s, last) PROVE AllHold
    BY <1>2, unwatchReturnsHolds
<1>3. ASSUME watchFetched(s) \/ unwatchCollects(s) PROVE AllHold
    BY <1>3, watchFetchedHolds, unwatchCollectsHolds
<1>4. ASSUME NEW x \in Names, updateCertificates(s, x) \/ removeCertificates(s, x) PROVE AllHold
    BY <1>4, QuietStepsHold
<1>5. ASSUME NEW last \in BOOLEAN, watchFails(s) \/ watchReturns(s) \/ unwatchChecks(s, last)
      PROVE  AllHold
    BY <1>5, QuietStepsHold
<1> QED BY <1>1, <1>2, <1>3, <1>4, <1>5 DEF RequestStep

\* Closing a stream touches the books of no other.
LEMMA CloseHolds ==
    ASSUME OneStreamPerNode, Holding, NEW s \in Streams, OnStreamClosed(s)
    PROVE  AllHold
<1> USE NodeOfAssumption, NoNodeAssumption, NamesAssumption DEF Holding, Mapping, Types, TypeOK
<1>0. /\ request[s] \in Requests /\ NodeOf[s] \in Nodes /\ Books(s) /\ Held(s)
      /\ request[s].step = "idle"
    BY DEF OnStreamClosed, Working
<1>1. /\ asked' = [asked EXCEPT ![s] = {}]
      /\ stream' = [stream EXCEPT ![s] = "closed"]
      /\ UNCHANGED request
    BY DEF OnStreamClosed
<1>2. CASE nodeMap[s] # NoNode
    <2>1. /\ watchers' = [watchers EXCEPT ![NodeOf[s]] = {}]
          /\ tracked' = tracked \ {NodeOf[s]}
          /\ refs' = [x \in Names |-> IF x \in watchers[NodeOf[s]] THEN refs[x] \ {NodeOf[s]}
                                      ELSE refs[x]]
          /\ lost' = [x \in Names |-> lost[x] \ {NodeOf[s]}]
          /\ registered' = registered \ Collected(registered, refs', watchers[NodeOf[s]])
        BY <1>2 DEF OnStreamClosed, UnwatchAll, Dropped, NodesAreMapped
    <2>2. \A x \in Names : refs'[x] = refs[x] \ {NodeOf[s]}
        BY <1>0, <2>1 DEF RefsAreWatched
    <2>3. ASSUME NEW t \in Streams, t # s PROVE Books(t)' /\ Held(t)'
        <3>1. NodeOf[t] # NodeOf[s]
            BY <2>3 DEF OneStreamPerNode
        <3>2. UNCHANGED <<stream[t], asked[t], watchers[NodeOf[t]], request[t]>>
            BY <1>1, <2>1, <2>3, <3>1
        <3>3. \A y \in Names : NodeOf[t] \in refs[y] \cup lost[y] => NodeOf[t] \in refs'[y] \cup lost'[y]
            BY <2>1, <2>2, <3>1
        <3> QED BY <2>1, <3>1, <3>2, <3>3, OthersHold
    <2>4. Books(s)' /\ Held(s)'
        BY <1>0, <1>1 DEF Books, Held
    <2>5. WatchersAreTracked'
        BY <1>0, <2>1 DEF WatchersAreTracked
    <2>6. RefsAreWatched'
        <3> SUFFICES ASSUME NEW x \in Names, NEW n \in refs'[x]
                     PROVE  x \in registered' /\ n \in tracked' /\ x \in watchers'[n]
            BY DEF RefsAreWatched
        <3>1. n \in refs[x] /\ n # NodeOf[s] /\ n \in Nodes
            BY <2>2
        <3>2. x \in registered /\ n \in tracked /\ x \in watchers[n]
            BY <3>1 DEF RefsAreWatched
        <3>3. x \notin Collected(registered, refs', watchers[NodeOf[s]])
            BY DEF Collected
        <3> QED BY <2>1, <3>1, <3>2, <3>3
    <2> QED BY <2>3, <2>4, <2>5, <2>6 DEF AllHold
<1>3. CASE nodeMap[s] = NoNode
    <2>1. UNCHANGED <<tracked, watchers, registered, refs, lost>>
        BY <1>3 DEF OnStreamClosed, managerVars, watcherVars, registryVars
    <2>2. ASSUME NEW t \in Streams, t # s PROVE Books(t)' /\ Held(t)'
        BY <1>1, <2>1, <2>2, OthersHold
    <2>3. Books(s)' /\ Held(s)'
        BY <1>0, <1>1 DEF Books, Held
    <2> QED BY <2>1, <2>2, <2>3 DEF AllHold, WatchersAreTracked, RefsAreWatched
<1> QED BY <1>2, <1>3

\* A request that sets out has what its node watches, and nothing to fetch yet.
LEMMA StartHolds ==
    ASSUME OneStreamPerNode, Holding, NEW s \in Streams, NEW names \in Lists,
           OnStreamRequest(s, names)
    PROVE  AllHold
<1> USE NodeOfAssumption, NamesAssumption DEF Holding, Mapping, Types, TypeOK
<1>0. /\ NodeOf[s] \in Nodes /\ Books(s) /\ Held(s)
      /\ request[s].step = "idle" /\ stream[s] = "open"
    BY DEF OnStreamRequest, Working
<1> DEFINE w == names \ watchers[NodeOf[s]]
           u == watchers[NodeOf[s]] \ names
           f == NodeOf[s] \in tracked
           r == [Idle EXCEPT !.step = "watch", !.watch = w, !.found = f, !.unwatch = u]
<1>1. /\ asked' = [asked EXCEPT ![s] = names \cap watchers[NodeOf[s]]]
      /\ tracked' = tracked \cup {NodeOf[s]}
      /\ request' = [request EXCEPT ![s] = r]
      /\ UNCHANGED <<stream, watchers, registered, refs, lost>>
    BY DEF OnStreamRequest, SetResourcesForNode, registryVars
<1>2. r.step = "watch" /\ r.watch = w /\ r.unwatch = u /\ ~r.orphan
    BY DEF Idle
<1> HIDE DEF r
<1>3. ASSUME NEW t \in Streams, t # s PROVE Books(t)' /\ Held(t)'
    BY <1>1, <1>3, OthersHold
<1>4. Books(s)'
    BY <1>0, <1>1, <1>2 DEF Books
<1>5. Held(s)'
    BY <1>0, <1>1, <1>2 DEF Held, Fetching
<1>6. WatchersAreTracked'
    BY <1>1 DEF WatchersAreTracked
<1>7. RefsAreWatched'
    BY <1>1 DEF RefsAreWatched
<1> QED BY <1>3, <1>4, <1>5, <1>6, <1>7 DEF AllHold

\* Every step keeps it, by the streams' having different nodes.
LEMMA HoldingStep ==
    ASSUME OneStreamPerNode
    PROVE  Holding /\ [Next]_vars => Holding'
<1> SUFFICES ASSUME Holding, [Next]_vars PROVE AllHold
    BY MappingStep DEF Holding, AllHold
<1> USE NodeOfAssumption, NoNodeAssumption, NamesAssumption DEF Holding, Mapping, Types, TypeOK
<1>0. ASSUME UNCHANGED <<stream, asked, tracked, watchers, registered, refs, lost, request>>
      PROVE  AllHold
    BY <1>0, OthersHold DEF AllHold, WatchersAreTracked, RefsAreWatched
<1>1. ASSUME NEW s \in Streams, OnStreamOpen(s) PROVE AllHold
    <2>1. /\ stream[s] = "closed" /\ stream' = [stream EXCEPT ![s] = "open"]
          /\ UNCHANGED <<asked, tracked, watchers, registered, refs, lost, request>>
        BY <1>1 DEF OnStreamOpen, managerVars, watcherVars, registryVars
    <2>2. watchers[NodeOf[s]] = {} /\ Books(s) /\ Held(s)
        BY <2>1 DEF NodesAreMapped, OneStreamPerNode, WatchersAreTracked
    <2>3. Books(s)' /\ Held(s)'
        BY <2>1, <2>2 DEF Books, Held
    <2> QED BY <2>1, <2>3, OnlyTheRequest
<1>2. ASSUME NEW s \in Streams, NEW names \in Lists, OnStreamRequestDenied(s, names) PROVE AllHold
    <2>1. /\ stream' = [stream EXCEPT ![s] = "failed"]
          /\ UNCHANGED <<asked, tracked, watchers, registered, refs, lost, request>>
        BY <1>2 DEF OnStreamRequestDenied, managerVars, watcherVars, registryVars
    <2>2. Books(s)' /\ Held(s)'
        BY <2>1 DEF Books, Held
    <2> QED BY <2>1, <2>2, OnlyTheRequest
<1>3. ASSUME NEW s \in Streams, NEW names \in Lists, OnStreamRequest(s, names) PROVE AllHold
    BY <1>3, StartHolds
<1>4. ASSUME NEW s \in Streams, RequestStep(s) PROVE AllHold
    BY <1>4, RequestStepHolds
<1>5. ASSUME NEW s \in Streams, OnStreamRequestPanics(s) \/ ConcurrentMapAccess(s) PROVE AllHold
    BY <1>5, IdleTypes DEF OnStreamRequestPanics, ConcurrentMapAccess, Restart, AllHold, Books,
                           Held, WatchersAreTracked, RefsAreWatched
<1>6. ASSUME NEW s \in Streams, OnStreamClosed(s) PROVE AllHold
    BY <1>6, CloseHolds
<1>7. CASE Manage
    BY <1>0, <1>7 DEF Manage, manage, manageFetched, manageFails, handlerVars, managerVars,
                      watcherVars, registryVars
<1>8. CASE Environment
    BY <1>0, <1>8 DEF Environment, GatewayChanges, Expire, handlerVars, managerVars, watcherVars,
                      registryVars
<1>9. CASE UNCHANGED vars
    BY <1>0, <1>9 DEF vars, handlerVars, managerVars, watcherVars, registryVars
<1> QED BY <1>1, <1>2, <1>3, <1>4, <1>5, <1>6, <1>7, <1>8, <1>9 DEF Next, Request

\* The first state has nothing to hold.
LEMMA HoldingInit == Init => Holding
BY MappingInit, IdleTypes
   DEF Init, Holding, Books, Held, WatchersAreTracked, RefsAreWatched

\* Reference counting is sound at every moment of concurrent requests: a
\* reference is held only by a tracked node that watches the name, and on a
\* registered name.
THEOREM ReferencesAreSound ==
    ASSUME OneStreamPerNode
    PROVE  Spec => []RefsAreWatched
<1>1. Holding => RefsAreWatched
    BY DEF Holding
<1> QED BY <1>1, HoldingInit, HoldingStep, PTL DEF Spec

\* A served stream holds a reference on every secret it was given, whatever the
\* other streams did, fail and close, unless the entry with its reference was
\* replaced by a concurrent fetch or deleted by a concurrent unwatch.
THEOREM ServedStreamsHoldTheirSecrets ==
    ASSUME OneStreamPerNode
    PROVE  Spec => []LiveStreamHoldsItsSecrets
<1>1. Holding => LiveStreamHoldsItsSecrets
    BY DEF Holding, Books, Held, Fetching, LiveStreamHoldsItsSecrets
<1> QED BY <1>1, HoldingInit, HoldingStep, PTL DEF Spec
=============================================================================
