--------------------------- MODULE SecretManager ---------------------------
(***************************************************************************)
(* The SDS server: RequestHandler (internal/envoy/handler.go) and the      *)
(* secretManager behind it (internal/envoy/secrets.go), which reference-   *)
(* counts the TLS secrets that connected Envoy nodes watch, keeps the      *)
(* watched ones in go-control-plane's LinearCache and re-fetches the ones  *)
(* about to expire.                                                        *)
(*                                                                         *)
(* A request and the refresh loop hold the manager's lock for reading      *)
(* only, while they fetch and while they write its maps, so that requests  *)
(* of several streams and a refresh interleave at each of their accesses;  *)
(* UnwatchAll has the lock to itself.  A request under way is a record:    *)
(*   step     idle, watch, fetch, unwatch, check, collect or purge         *)
(*   watch    names that watch has not come to                             *)
(*   name     the name being fetched, or released, by this request         *)
(*   push     fetched certificates that are not in the cache yet           *)
(*   found    whether the node had a watcher, so that unwatch follows      *)
(*   unwatch  names that unwatch has not come to                           *)
(*   gone     names deleted from the registry, still to leave the cache    *)
(*   live     whether the entry in hand for name is the registry's own     *)
(*   orphan   whether the watcher in hand has left s.watchers              *)
(* Secrets are names; what the model keeps of a certificate is whether the *)
(* copy held here is inside its expiry window (due).                       *)
(***************************************************************************)
EXTENDS Naturals, FiniteSets

CONSTANTS
    Streams,        \* gRPC streams, by stream id
    Nodes,          \* Envoy node ids
    Names,          \* names of TLS secrets
    Lists,          \* the lists of names that requests carry
    Certificates,   \* the sets of secrets that a gateway's listeners may name
    Expiring,       \* the secrets whose certificates may come near their expiry
    NodeOf,         \* the node id that requests on a stream carry
    NoNode,         \* a stream with no entry in nodeMap
    NoName,         \* no secret in hand
    LoopTimeout,    \* secretManager.loopTimeout
    ForceInterval   \* SDSServer.certificateForcePullInterval

ASSUME NodeOfAssumption == NodeOf \in [Streams -> Nodes]
ASSUME NoNodeAssumption == NoNode \notin Nodes
ASSUME NamesAssumption ==
    /\ NoName \notin Names
    /\ Lists \subseteq SUBSET Names
    /\ Certificates \subseteq SUBSET Names
    /\ Expiring \subseteq Names
ASSUME TimeoutAssumption == LoopTimeout \in Nat /\ ForceInterval \in Nat

VARIABLES
    stream,       \* closed, open, or failed: a callback returned an error
    asked,        \* names that the stream's last request asked for and was given
    nodeMap,      \* RequestHandler.nodeMap
    gateway,      \* whether the store still has the streams' gateway
    permitted,    \* the certificates of that gateway's listeners
    tracked,      \* keys of secretManager.watchers
    watchers,     \* names watched by each node (empty when not tracked)
    registered,   \* keys of secretManager.registry
    refs,         \* watchedCertificate.refs (empty when not registered)
    cache,        \* names present in the LinearCache
    due,          \* registered names within expirationDelta of expiration
    request,      \* the request under way on each stream
    refresh,      \* the secret that the refresh loop is fetching
    lost,         \* history: nodes whose reference on a name went with its entry
    leaked        \* history: names cached after their entry had been deleted

handlerVars == <<stream, asked, nodeMap>>
gatewayVars == <<gateway, permitted>>
watcherVars == <<tracked, watchers>>
registryVars == <<registered, refs, due, lost>>
cacheVars == <<cache, leaked>>
managerVars == <<watcherVars, registryVars, cacheVars>>
vars == <<handlerVars, gatewayVars, managerVars, request, refresh>>

StreamStates == {"closed", "open", "failed"}
Steps == {"idle", "watch", "fetch", "unwatch", "check", "collect", "purge"}
Requests ==
    [step : Steps, watch : SUBSET Names, name : Names \cup {NoName},
     push : SUBSET Names, found : BOOLEAN, unwatch : SUBSET Names,
     gone : SUBSET Names, live : BOOLEAN, orphan : BOOLEAN]
Refreshes == [name : Names \cup {NoName}, live : BOOLEAN]

Idle ==
    [step |-> "idle", watch |-> {}, name |-> NoName, push |-> {}, found |-> FALSE,
     unwatch |-> {}, gone |-> {}, live |-> FALSE, orphan |-> FALSE]
NoRefresh == [name |-> NoName, live |-> FALSE]

Init ==
    /\ stream = [s \in Streams |-> "closed"]
    /\ asked = [s \in Streams |-> {}]
    /\ nodeMap = [s \in Streams |-> NoNode]
    /\ gateway = TRUE
    /\ permitted \in Certificates
    /\ tracked = {}
    /\ watchers = [n \in Nodes |-> {}]
    /\ registered = {}
    /\ refs = [x \in Names |-> {}]
    /\ cache = {}
    /\ due = {}
    /\ request = [s \in Streams |-> Idle]
    /\ refresh = NoRefresh
    /\ lost = [x \in Names |-> {}]
    /\ leaked = {}

\* The lock: held for reading by requests and by the refresh loop.
Working(s) == request[s].step # "idle"
Unlocked == refresh.name = NoName /\ \A s \in Streams : ~Working(s)

----------------------------------------------------------------------------
(* A request, from SetResourcesForNode to its return. *)

\* The registry's entry of x was replaced or deleted: whoever has it in hand
\* goes on with one that is no longer the registry's.
WithoutEntry(r, x) ==
    [t \in Streams |-> IF r[t].name = x THEN [r[t] EXCEPT !.live = FALSE] ELSE r[t]]
RefreshWithoutEntry(x) ==
    IF refresh.name = x THEN [refresh EXCEPT !.live = FALSE] ELSE refresh

\* SetResourcesForNode computes what is to be watched and unwatched, and watch
\* makes a watcher for a node that has none.
SetResourcesForNode(s, names) ==
    LET node == NodeOf[s]
    IN /\ request' = [request EXCEPT ![s] =
              [Idle EXCEPT !.step = "watch", !.watch = names \ watchers[node],
                           !.found = node \in tracked,
                           !.unwatch = watchers[node] \ names]]
       /\ asked' = [asked EXCEPT ![s] = names \cap watchers[node]]
       /\ tracked' = tracked \cup {node}
       /\ UNCHANGED watchers

Watched(s, x) ==
    IF request[s].orphan THEN watchers ELSE [watchers EXCEPT ![NodeOf[s]] = @ \cup {x}]

\* watch comes to a name that is registered, and adds a reference.
watchFinds(s, x) ==
    /\ request[s].step = "watch"
    /\ x \in request[s].watch \cap registered
    /\ request' = [request EXCEPT ![s].watch = @ \ {x}]
    /\ watchers' = Watched(s, x)
    /\ refs' = [refs EXCEPT ![x] = @ \cup {NodeOf[s]}]
    /\ asked' = [asked EXCEPT ![s] = @ \cup {x}]
    /\ UNCHANGED <<stream, nodeMap, gatewayVars, tracked, registered, due, lost,
                   cacheVars, refresh>>

\* watch comes to a name that is not, and sets out to fetch it.
watchFetches(s, x) ==
    /\ request[s].step = "watch"
    /\ x \in request[s].watch \ registered
    /\ request' = [request EXCEPT ![s].watch = @ \ {x}, ![s].step = "fetch", ![s].name = x]
    /\ watchers' = Watched(s, x)
    /\ UNCHANGED <<handlerVars, gatewayVars, tracked, registryVars, cacheVars, refresh>>

\* The certificate is there: it becomes the registry's entry, with the node as
\* its one reference, also when another request has made an entry meanwhile.
watchFetched(s) ==
    LET x == request[s].name
        left == [request[s] EXCEPT !.step = "watch", !.name = NoName, !.push = @ \cup {x}]
    IN /\ request[s].step = "fetch"
       /\ request' = WithoutEntry([request EXCEPT ![s] = left], x)
       /\ refresh' = RefreshWithoutEntry(x)
       /\ registered' = registered \cup {x}
       /\ refs' = [refs EXCEPT ![x] = {NodeOf[s]}]
       /\ lost' = [lost EXCEPT ![x] = (@ \cup refs[x]) \ {NodeOf[s]}]
       /\ due' = due \ {x}
       /\ leaked' = leaked \ {x}
       /\ asked' = [asked EXCEPT ![s] = @ \cup {x}]
       /\ UNCHANGED <<stream, nodeMap, gatewayVars, watcherVars, cache>>

\* It cannot be fetched: the early returns skip the push into the cache and the
\* unwatch, and the callback's error ends the stream.
watchFails(s) ==
    /\ request[s].step = "fetch"
    /\ request' = [request EXCEPT ![s] = Idle]
    /\ stream' = [stream EXCEPT ![s] = "failed"]
    /\ UNCHANGED <<asked, nodeMap, gatewayVars, managerVars, refresh>>

\* updateCertificates, for one of the certificates that were fetched.
updateCertificates(s, x) ==
    /\ request[s].step = "watch"
    /\ request[s].watch = {}
    /\ x \in request[s].push
    /\ request' = [request EXCEPT ![s].push = @ \ {x}]
    /\ cache' = cache \cup {x}
    /\ leaked' = IF x \in registered THEN leaked ELSE leaked \cup {x}
    /\ UNCHANGED <<handlerVars, gatewayVars, watcherVars, registryVars, refresh>>

\* watch returns; unwatch follows for a node that had a watcher, and looks the
\* watcher up again.
watchReturns(s) ==
    /\ request[s].step = "watch"
    /\ request[s].watch = {}
    /\ request[s].push = {}
    /\ request' = [request EXCEPT ![s] =
           IF @.found /\ NodeOf[s] \in tracked
           THEN [@ EXCEPT !.step = "unwatch", !.orphan = FALSE]
           ELSE Idle]
    /\ UNCHANGED <<handlerVars, gatewayVars, managerVars, refresh>>

\* Mutants of Dropped: the reference stays, or everybody's goes with it.
DroppedNever(r, node, names) == r
DroppedForAll(r, node, names) == [x \in Names |-> IF x \in names THEN {} ELSE r[x]]

\* The deletions shared by unwatch and UnwatchAll.
Dropped(r, node, names) ==
    [x \in Names |-> IF x \in names THEN r[x] \ {node} ELSE r[x]]

\* unwatch deletes the name from the watcher and the node from the references.
unwatch(s, x) ==
    LET node == NodeOf[s]
        left == [request[s] EXCEPT !.unwatch = @ \ {x}]
    IN /\ request[s].step = "unwatch"
       /\ x \in request[s].unwatch
       /\ watchers' = IF request[s].orphan THEN watchers
                      ELSE [watchers EXCEPT ![node] = @ \ {x}]
       /\ refs' = Dropped(refs, node, {x})
       /\ lost' = Dropped(lost, node, {x})
       /\ request' = [request EXCEPT ![s] =
              IF x \in registered
              THEN [left EXCEPT !.step = "check", !.name = x, !.live = TRUE]
              ELSE left]
       /\ UNCHANGED <<handlerVars, gatewayVars, tracked, registered, due, cacheVars, refresh>>

\* It then looks whether a reference is left.  What is left on an entry that
\* is no longer the registry's is not kept: it may be any.
unwatchChecks(s, last) ==
    /\ request[s].step = "check"
    /\ request[s].live => last = (refs[request[s].name] = {})
    /\ request' = [request EXCEPT ![s] =
           IF last THEN [@ EXCEPT !.step = "collect"]
           ELSE [@ EXCEPT !.step = "unwatch", !.name = NoName, !.live = FALSE]]
    /\ UNCHANGED <<handlerVars, gatewayVars, managerVars, refresh>>

\* And deletes the entry the registry has by now, with what references it has.
unwatchCollects(s) ==
    LET x == request[s].name
        left == [request[s] EXCEPT !.step = "unwatch", !.name = NoName, !.live = FALSE,
                                   !.gone = @ \cup {x}]
    IN /\ request[s].step = "collect"
       /\ request' = WithoutEntry([request EXCEPT ![s] = left], x)
       /\ refresh' = RefreshWithoutEntry(x)
       /\ registered' = registered \ {x}
       /\ refs' = [refs EXCEPT ![x] = {}]
       /\ lost' = [lost EXCEPT ![x] = @ \cup refs[x]]
       /\ due' = due \ {x}
       /\ UNCHANGED <<handlerVars, gatewayVars, watcherVars, cacheVars>>

\* An empty watcher is deleted from s.watchers, under the feet of the node's
\* other streams.  Whether an orphan is empty is not kept.
unwatchReturns(s, empty) ==
    LET node == NodeOf[s]
    IN /\ request[s].step = "unwatch"
       /\ request[s].unwatch = {}
       /\ ~request[s].orphan => empty = (watchers[node] = {})
       /\ tracked' = IF empty THEN tracked \ {node} ELSE tracked
       /\ watchers' = IF empty THEN [watchers EXCEPT ![node] = {}] ELSE watchers
       /\ request' = [t \in Streams |->
              IF t = s THEN (IF request[s].gone = {} THEN Idle
                             ELSE [request[s] EXCEPT !.step = "purge"])
              ELSE IF empty /\ Working(t) /\ NodeOf[t] = node
              THEN [request[t] EXCEPT !.orphan = TRUE]
              ELSE request[t]]
       /\ UNCHANGED <<handlerVars, gatewayVars, registryVars, cacheVars, refresh>>

\* removeCertificates, for one of the names that left the registry.
removeCertificates(s, x) ==
    LET left == [request[s] EXCEPT !.gone = @ \ {x}]
    IN /\ request[s].step = "purge"
       /\ x \in request[s].gone
       /\ cache' = cache \ {x}
       /\ leaked' = leaked \ {x}
       /\ request' = [request EXCEPT ![s] = IF left.gone = {} THEN Idle ELSE left]
       /\ UNCHANGED <<handlerVars, gatewayVars, watcherVars, registryVars, refresh>>

----------------------------------------------------------------------------
(* UnwatchAll, with the lock held for writing. *)

\* Mutant of Collected: nothing is garbage collected.
CollectedNever(reg, r, names) == {}

\* Registered names left without a reference, which are garbage collected.
Collected(reg, r, names) == {x \in names \cap reg : r[x] = {}}

\* Mutant of UnwatchAll: the node itself is kept.
UnwatchAllKeepingNode(node) ==
    LET r == Dropped(refs, node, watchers[node])
        gone == Collected(registered, r, watchers[node])
    IN /\ watchers' = [watchers EXCEPT ![node] = {}]
       /\ refs' = r
       /\ lost' = [x \in Names |-> lost[x] \ {node}]
       /\ registered' = registered \ gone
       /\ cache' = cache \ gone
       /\ leaked' = leaked \ gone
       /\ due' = due \ gone
       /\ UNCHANGED tracked

\* UnwatchAll: the node's references are dropped, what nobody else references
\* is garbage collected and leaves the cache, and the node is forgotten.
UnwatchAll(node) ==
    LET r == Dropped(refs, node, watchers[node])
        gone == Collected(registered, r, watchers[node])
    IN /\ watchers' = [watchers EXCEPT ![node] = {}]
       /\ tracked' = tracked \ {node}
       /\ refs' = r
       /\ lost' = [x \in Names |-> lost[x] \ {node}]
       /\ registered' = registered \ gone
       /\ cache' = cache \ gone
       /\ leaked' = leaked \ gone
       /\ due' = due \ gone

----------------------------------------------------------------------------
(* The callbacks go-control-plane invokes, each stream in its own goroutine. *)

\* SPIFFEStreamMiddleware lets a stream through while its gateway is known.
OnStreamOpen(s) ==
    /\ stream[s] = "closed"
    /\ gateway
    /\ stream' = [stream EXCEPT ![s] = "open"]
    /\ UNCHANGED <<asked, nodeMap, gatewayVars, managerVars, request, refresh>>

\* A request for secrets that the gateway's listeners do not use.
OnStreamRequestDenied(s, names) ==
    /\ stream[s] = "open"
    /\ ~Working(s)
    /\ gateway
    /\ ~(names \subseteq permitted)
    /\ stream' = [stream EXCEPT ![s] = "failed"]
    /\ UNCHANGED <<asked, nodeMap, gatewayVars, managerVars, request, refresh>>

\* Mutant of OnStreamRequest: the stream is recorded instead of its node.
OnStreamRequestRecordsStream(s, names) ==
    /\ stream[s] = "open"
    /\ ~Working(s)
    /\ gateway
    /\ names \subseteq permitted
    /\ nodeMap' = [nodeMap EXCEPT ![s] = s]
    /\ SetResourcesForNode(s, names)
    /\ UNCHANGED <<stream, gatewayVars, registryVars, cacheVars, refresh>>

\* A request for permitted secrets is handed to the manager.
OnStreamRequest(s, names) ==
    /\ stream[s] = "open"
    /\ ~Working(s)
    /\ gateway
    /\ names \subseteq permitted
    /\ nodeMap' = [nodeMap EXCEPT ![s] = NodeOf[s]]
    /\ SetResourcesForNode(s, names)
    /\ UNCHANGED <<stream, gatewayVars, registryVars, cacheVars, refresh>>

\* The process dies and is started again, with nothing in memory.
Restart ==
    /\ stream' = [t \in Streams |-> "closed"]
    /\ asked' = [t \in Streams |-> {}]
    /\ nodeMap' = [t \in Streams |-> NoNode]
    /\ tracked' = {}
    /\ watchers' = [n \in Nodes |-> {}]
    /\ registered' = {}
    /\ refs' = [x \in Names |-> {}]
    /\ cache' = {}
    /\ due' = {}
    /\ request' = [t \in Streams |-> Idle]
    /\ refresh' = NoRefresh
    /\ lost' = [x \in Names |-> {}]
    /\ leaked' = {}
    /\ UNCHANGED gatewayVars

\* The gateway was deleted after the stream opened: GetGateway answers nil,
\* which is dereferenced.
OnStreamRequestPanics(s) ==
    /\ stream[s] = "open"
    /\ ~Working(s)
    /\ ~gateway
    /\ Restart

\* Two holders of the read lock meet in one of the maps, and Go's runtime ends
\* the process ("concurrent map writes", "concurrent map iteration").
ConcurrentMapAccess(s) ==
    /\ Working(s)
    /\ refresh.name # NoName \/ \E t \in Streams \ {s} : Working(t)
    /\ Restart

\* The stream ends: the client went away, or a callback returned an error.
OnStreamClosed(s) ==
    /\ stream[s] # "closed"
    /\ ~Working(s)
    /\ stream' = [stream EXCEPT ![s] = "closed"]
    /\ asked' = [asked EXCEPT ![s] = {}]
    /\ nodeMap' = [nodeMap EXCEPT ![s] = NoNode]
    /\ IF nodeMap[s] # NoNode
       THEN Unlocked /\ UnwatchAll(nodeMap[s])
       ELSE UNCHANGED managerVars
    /\ UNCHANGED <<gatewayVars, request, refresh>>

----------------------------------------------------------------------------
(* The refresh loop. *)

\* Manage builds both timers anew in every iteration, so that the shorter one
\* always wins; with equal ones the select may take either.
Forces == {force \in BOOLEAN : IF force THEN ForceInterval <= LoopTimeout
                                        ELSE LoopTimeout <= ForceInterval}

\* Mutant of Refreshed: only a forced iteration re-fetches.
RefreshedWhenForced(force) == IF force THEN registered ELSE {}

\* What one iteration re-fetches.
Refreshed(force) == IF force THEN registered ELSE registered \cap due

\* manage comes to a secret that is to be fetched again.
manage(force, x) ==
    /\ refresh.name = NoName
    /\ x \in Refreshed(force)
    /\ refresh' = [name |-> x, live |-> TRUE]
    /\ UNCHANGED <<handlerVars, gatewayVars, managerVars, request>>

\* The fresh certificate is put into the cache, and into the entry in hand,
\* whose references are kept.
manageFetched(x) ==
    /\ refresh.name = x
    /\ refresh' = NoRefresh
    /\ cache' = cache \cup {x}
    /\ leaked' = IF x \in registered THEN leaked ELSE leaked \cup {x}
    /\ due' = IF refresh.live THEN due \ {x} ELSE due
    /\ UNCHANGED <<handlerVars, gatewayVars, watcherVars, registered, refs, lost, request>>

\* It cannot be fetched: the loop goes on to the next one.
manageFails ==
    /\ refresh.name # NoName
    /\ refresh' = NoRefresh
    /\ UNCHANGED <<handlerVars, gatewayVars, managerVars, request>>

----------------------------------------------------------------------------
(* The environment. *)

\* A gateway is created, deleted, or its listeners' certificates change.
GatewayChanges(present, certificates) ==
    /\ gateway' = present
    /\ permitted' = certificates
    /\ <<present, certificates>> # <<gateway, permitted>>
    /\ UNCHANGED <<handlerVars, managerVars, request, refresh>>

\* Time passes: the certificate held for x enters its expiry window.
Expire(x) ==
    /\ x \in registered \ due
    /\ due' = due \cup {x}
    /\ UNCHANGED <<handlerVars, gatewayVars, watcherVars, registered, refs, lost, cacheVars,
                   request, refresh>>

Request(s) ==
    \E names \in Lists : OnStreamRequestDenied(s, names) \/ OnStreamRequest(s, names)

RequestStep(s) ==
    \/ \E x \in Names :
           \/ watchFinds(s, x) \/ watchFetches(s, x) \/ updateCertificates(s, x)
           \/ unwatch(s, x) \/ removeCertificates(s, x)
    \/ watchFetched(s) \/ watchFails(s) \/ watchReturns(s) \/ unwatchCollects(s)
    \/ \E last \in BOOLEAN : unwatchChecks(s, last) \/ unwatchReturns(s, last)

Manage ==
    \/ \E x \in Names : manageFetched(x) \/ \E force \in Forces : manage(force, x)
    \/ manageFails

Environment ==
    \/ \E present \in BOOLEAN, certificates \in Certificates :
           GatewayChanges(present, certificates)
    \/ \E x \in Expiring : Expire(x)

Next ==
    \/ \E s \in Streams :
           \/ OnStreamOpen(s) \/ Request(s) \/ RequestStep(s)
           \/ OnStreamRequestPanics(s) \/ ConcurrentMapAccess(s) \/ OnStreamClosed(s)
    \/ Manage
    \/ Environment

\* The refresh loop runs for as long as the server does and comes to every
\* registered name, and a source that keeps being asked for a certificate
\* answers in the end.  Clients and operators owe nothing.
Fairness ==
    \A x \in Expiring :
        /\ SF_vars(\E force \in Forces : manage(force, x))
        /\ SF_vars(manageFetched(x))

Spec == Init /\ [][Next]_vars /\ Fairness

----------------------------------------------------------------------------
TypeOK ==
    /\ stream \in [Streams -> StreamStates]
    /\ asked \in [Streams -> SUBSET Names]
    /\ nodeMap \in [Streams -> Nodes \cup {NoNode}]
    /\ gateway \in BOOLEAN
    /\ permitted \in SUBSET Names
    /\ tracked \in SUBSET Nodes
    /\ watchers \in [Nodes -> SUBSET Names]
    /\ registered \in SUBSET Names
    /\ refs \in [Names -> SUBSET Nodes]
    /\ cache \in SUBSET Names
    /\ due \in SUBSET Names
    /\ request \in [Streams -> Requests]
    /\ refresh \in Refreshes
    /\ lost \in [Names -> SUBSET Nodes]
    /\ leaked \in SUBSET Names

\* With one stream per node, reference counting neither leaks nor over-counts,
\* at any moment of the requests that share the read lock: a reference is held
\* only by a tracked node that watches the name, and only on a registered name.
RefsAreWatched ==
    \A x \in Names : \A n \in refs[x] :
        x \in registered /\ n \in tracked /\ x \in watchers[n]

\* A request is about to take x out of the registry, or out of the cache.
Removing(s, x) ==
    \/ request[s].step \in {"check", "collect"} /\ request[s].name = x
    \/ x \in request[s].gone

\* No private key outlives its last watcher (secrets.go, "GC it"): a secret in
\* the registry or in the cache is referenced by some node or just being
\* removed.  The exceptions are exactly the ones the read lock allows: a push
\* or a refresh whose fetch was under way when another request deleted the
\* secret's entry, and which puts it back into the cache afterwards.
SecretsAreReferenced ==
    \A x \in registered \cup cache :
        refs[x] # {} \/ x \in leaked \/ \E s \in Streams : Removing(s, x)

\* With one stream per node, a stream that is being served holds a reference on
\* every secret it was given, whatever failed, raced or closed on other streams.
\* The exceptions are exactly the ones the read lock allows: the entry that had
\* the reference was replaced by another node's fetch of the same name, or
\* deleted by one that had found it without references.
LiveStreamHoldsItsSecrets ==
    \A s \in Streams : stream[s] = "open" =>
        \A x \in asked[s] : NodeOf[s] \in refs[x] \cup lost[x]

\* The manager forgets a node once its streams are gone: closing a stream,
\* after an error too, releases everything the node was tracking.
ClosedNodesAreForgotten ==
    \A n \in tracked : \E s \in Streams : NodeOf[s] = n /\ stream[s] # "closed"

\* A secret held past the start of its expiry window is re-fetched, unless
\* every node stops watching it first (secrets.go, Manage).
ExpiringIsRefreshed ==
    \A x \in Expiring : (x \in registered \cap due) ~> (x \notin registered \cap due)
=============================================================================
