------------------------------- MODULE Store -------------------------------
(***************************************************************************)
(* The gateway store (internal/store/store.go over memory_backend.go): the *)
(* controller's record of the gateways and routes it manages, of which     *)
(* route is bound to which listener, and the publication of gateways to    *)
(* Consul.  Every operation holds the store's lock from start to end, so   *)
(* each is one action, the syncs it ends with included.                    *)
(*                                                                         *)
(* The adapter is seen from outside: a Sync publishes what Resolve answers,*)
(* or fails and leaves Consul with the old or the new state.  SyncAdapter  *)
(* opens that box.  Values arrive in any order, stale ones too.            *)
(***************************************************************************)
EXTENDS Binder, FiniteSets

ASSUME StoreAssumption == IsFiniteSet(Gateways) /\ Absent \notin GatewayValues

VARIABLES
    gateway,    \* the value stored for a gateway, or Absent
    present,    \* the routes its listeners hold
    route,      \* the value stored for a route, or Absent
    statuses,   \* the stored parent statuses of a route
    published,  \* what Consul serves for a gateway
    known,      \* the gateways the adapter has synced (keys of a.sync)
    insync      \* history: the gateways whose last sync succeeded

storeVars == <<gateway, present, route, statuses>>
consulVars == <<published, known, insync>>
vars == <<storeVars, consulVars>>

StoredGateways == {g \in Gateways : gateway[g] # Absent}
StoredRoutes == {r \in Routes : route[r] # Absent}

NoRoutes == [i \in Listeners |-> [r \in Routes |-> Absent]]

\* How a sync of one gateway ends: it failed before or after the new entries
\* were in place, or they were written and recorded, and then the intentions
\* failed or not (Synced and Failed of SyncContract).
SyncResults == {"failed", "applied", "recorded", "synced"}

\* The order in which a route meets the gateways, that of a Go map.
Orders ==
    {o \in [Gateways -> 1..Cardinality(Gateways)] :
        \A g, h \in Gateways : g # h => o[g] # o[h]}

Init ==
    /\ gateway = [g \in Gateways |-> Absent]
    /\ present = [g \in Gateways |-> NoRoutes]
    /\ route = [r \in Routes |-> Absent]
    /\ statuses = [r \in Routes |-> <<>>]
    /\ published = [g \in Gateways |-> NoRoutes]
    /\ known = {}
    /\ insync = {}

----------------------------------------------------------------------------
\* Mutant of syncGateways: the gateways as they were before the binding.
syncGatewaysUnbound(gs, values, held) ==
    \E result \in [gs -> SyncResults] :
        /\ published' = [g \in Gateways |->
               IF g \in gs /\ result[g] # "failed"
               THEN Resolve(values[g], present[g]) ELSE published[g]]
        /\ known' = known \cup {g \in gs : result[g] \in {"recorded", "synced"}}
        /\ insync' = (insync \ gs) \cup {g \in gs : result[g] = "synced"}

\* syncGateways for the gateways of gs, given their values and their routes;
\* each sync ends in its own way.
syncGateways(gs, values, held) ==
    \E result \in [gs -> SyncResults] :
        /\ published' = [g \in Gateways |->
               IF g \in gs /\ result[g] # "failed"
               THEN Resolve(values[g], held[g]) ELSE published[g]]
        /\ known' = known \cup {g \in gs : result[g] \in {"recorded", "synced"}}
        /\ insync' = (insync \ gs) \cup {g \in gs : result[g] = "synced"}

\* Mutant of Accepts: the versions are compared the wrong way round.
AcceptsOlder(current, value) == current # Absent => value.version <= current.version

\* The update condition of the manager's upserts: an older version than the
\* stored one is ignored (ResourceVersionGreater).
Accepts(current, value) == current # Absent => current.version <= value.version

\* Mutant of BoundAll: the gateway keeps the listeners' routes it had.
BoundAllKeeping(g, gv, lookup) ==
    [i \in Listeners |-> [r \in Routes |->
        IF r \in StoredRoutes /\ BindsTo(g, gv, i, r, route[r], lookup[r])
        THEN route[r] ELSE present[g][i][r]]]

\* The listeners of a validated gateway are empty and bindAll tries every
\* stored route on them.
BoundAll(g, gv, lookup) ==
    [i \in Listeners |-> [r \in Routes |->
        IF r \in StoredRoutes /\ BindsTo(g, gv, i, r, route[r], lookup[r])
        THEN route[r] ELSE Absent]]

\* Mutant of UpsertGateway: the routes that were bound are not stored again.
UpsertGatewayOnly(g, gv, lookup) ==
    LET held == [present EXCEPT ![g] = BoundAll(g, gv, lookup)]
        values == [gateway EXCEPT ![g] = gv]
    IN /\ Accepts(gateway[g], gv)
       /\ gateway' = values
       /\ present' = held
       /\ syncGateways({g}, values, held)
       /\ UNCHANGED <<route, statuses>>

\* Every stored route is tried on the new gateway; those that Bind reports as
\* modified are stored again, with their new statuses.
UpsertGateway(g, gv, lookup) ==
    LET held == [present EXCEPT ![g] = BoundAll(g, gv, lookup)]
        values == [gateway EXCEPT ![g] = gv]
        modified == {r \in StoredRoutes :
                        BindModifies(NoRoutes, g, gv, r, route[r], lookup[r])}
    IN /\ Accepts(gateway[g], gv)
       /\ gateway' = values
       /\ present' = held
       /\ statuses' = [r \in Routes |->
              IF r \in modified
              THEN StatusesAfterBind(statuses[r], g, gv, r, route[r], lookup[r])
              ELSE statuses[r]]
       /\ syncGateways({g}, values, held)
       /\ UNCHANGED route

\* The adapter's Clear fails and the gateway stays, cleared from Consul or not.
DeleteGatewayFails(g, cleared) ==
    /\ g \in StoredGateways \cap known
    /\ published' = IF cleared THEN [published EXCEPT ![g] = NoRoutes] ELSE published
    /\ insync' = insync \ {g}
    /\ UNCHANGED <<storeVars, known>>

\* Clear does nothing for a gateway that the adapter never synced.
DeleteGateway(g) ==
    /\ g \in StoredGateways
    /\ gateway' = [gateway EXCEPT ![g] = Absent]
    /\ present' = [present EXCEPT ![g] = NoRoutes]
    /\ statuses' = [r \in Routes |->
           IF r \in StoredRoutes /\ UnbindModifies(present[g], r)
           THEN StatusesAfterUnbind(statuses[r], g, route[r])
           ELSE statuses[r]]
    /\ published' = IF g \in known THEN [published EXCEPT ![g] = NoRoutes] ELSE published
    /\ known' = known \ {g}
    /\ insync' = insync \ {g}
    /\ UNCHANGED route

\* The statuses of a fresh route after Bind on every stored gateway, in order:
\* the last gateway that touches one decides.
FreshStatuses(r, rv, lookup, order) ==
    [k \in DOMAIN rv.refs |->
        LET touching == {g \in StoredGateways :
                            /\ routeReferencesGateway(rv, g)
                            /\ Touching(g, gateway[g], r, rv, k, lookup[g]) # {}}
            last == CHOOSE g \in touching : \A h \in touching : order[h] <= order[g]
        IN IF touching = {} THEN "none"
           ELSE StatusesAfterBind(<<>>, last, gateway[last], r, rv, lookup[last])[k]]

\* The gateways that bindAll, and those that unbindAll, report as modified for
\* one route.
BoundGateways(r, rv, lookup) ==
    {g \in StoredGateways : BindModifies(present[g], g, gateway[g], r, rv, lookup[g])}
UnboundGateways(r) == {g \in StoredGateways : UnbindModifies(present[g], r)}

\* The route is tried on every stored gateway; the gateways that Bind reports
\* as modified are stored again and synced.
UpsertRoute(r, rv, lookup, order) ==
    LET modified == BoundGateways(r, rv, lookup)
        held == [g \in Gateways |->
                    IF g \in modified
                    THEN Bind(present[g], g, gateway[g], r, rv, lookup[g])
                    ELSE present[g]]
    IN /\ Accepts(route[r], rv)
       /\ route' = [route EXCEPT ![r] = rv]
       /\ present' = held
       /\ statuses' = [statuses EXCEPT ![r] = FreshStatuses(r, rv, lookup, order)]
       /\ syncGateways(modified, gateway, held)
       /\ UNCHANGED gateway

\* The gateways that hold the route are stored again without it and synced.
DeleteRoute(r) ==
    LET modified == UnboundGateways(r)
        held == [g \in Gateways |->
                    IF g \in modified THEN Unbind(present[g], r) ELSE present[g]]
    IN /\ r \in StoredRoutes
       /\ route' = [route EXCEPT ![r] = Absent]
       /\ statuses' = [statuses EXCEPT ![r] = <<>>]
       /\ present' = held
       /\ syncGateways(modified, gateway, held)
       /\ UNCHANGED gateway

\* SyncAllAtInterval: every minute all stored gateways are synced again.
SyncAll ==
    /\ StoredGateways # {}
    /\ syncGateways(StoredGateways, gateway, present)
    /\ UNCHANGED storeVars

----------------------------------------------------------------------------
RouteLookups == {f \in [StoredGateways -> Lookups] :
                    \A g \in StoredGateways : f[g] \in LookupsFor(gateway[g])}

Next ==
    \/ \E g \in Gateways, gv \in GatewayValues :
           \E lookup \in [StoredRoutes -> LookupsFor(gv)] : UpsertGateway(g, gv, lookup)
    \/ \E g \in Gateways, cleared \in BOOLEAN : DeleteGatewayFails(g, cleared)
    \/ \E g \in Gateways : DeleteGateway(g)
    \/ \E r \in Routes, rv \in RouteValues, lookup \in RouteLookups, order \in Orders :
           UpsertRoute(r, rv, lookup, order)
    \/ \E r \in Routes : DeleteRoute(r)
    \/ SyncAll

Spec == Init /\ [][Next]_vars

----------------------------------------------------------------------------
Held == [Listeners -> [Routes -> RouteValues \cup {Absent}]]

TypeOK ==
    /\ gateway \in [Gateways -> GatewayValues \cup {Absent}]
    /\ present \in [Gateways -> Held]
    /\ route \in [Routes -> RouteValues \cup {Absent}]
    /\ DOMAIN statuses = Routes
    /\ \A r \in Routes :
           IF route[r] = Absent THEN statuses[r] = <<>>
           ELSE statuses[r] \in [DOMAIN route[r].refs -> Statuses]
    /\ published \in [Gateways -> Held]
    /\ known \in SUBSET Gateways
    /\ insync \in SUBSET Gateways

\* A listener holds a copy of the resolved route, made when it was bound; it is
\* never a stale one: not of a deleted route, an older version or a resolution
\* since replaced, and a deleted gateway holds none.
BoundRouteIsCurrent ==
    \A g \in Gateways, i \in Listeners, r \in Routes :
        present[g][i][r] # Absent =>
            g \in StoredGateways /\ present[g][i][r] = route[r]

\* Whatever gateways and routes were replaced since, a route is held only by a
\* listener of the stored gateway that admits the stored route: it is ready, of
\* the route's protocol, of a matching hostname and open to its namespace (a
\* selector's answer is the namespace's, at the time it was asked).
BoundWhereAdmitted ==
    \A g \in Gateways, i \in Listeners, r \in Routes :
        present[g][i][r] # Absent =>
            LET listener == gateway[g].listeners[i]
            IN /\ routeReferencesGateway(route[r], g)
               /\ listener.ready
               /\ listener.protocol = route[r].protocol
               /\ routeMatchesListenerHostname(listener, route[r])
               /\ listener.from = "Same" => <<g, r>> \in SameNamespace
               /\ route[r].resolved

\* What is bound is reported so, whichever of route and gateway came first and
\* whatever was replaced or deleted since: the stored status of a route with
\* one reference, from which its conditions are written, is never left missing
\* or refused while a listener holds the route.  The one refusal that may stay
\* beside a binding is that of a namespace lookup that failed for a listener.
HeldIsReported ==
    \A g \in Gateways, i \in Listeners, r \in Routes :
        present[g][i][r] # Absent /\ Len(route[r].refs) = 1 =>
            \/ statuses[r][1] = "bound"
            \/ /\ statuses[r][1] = "failed"
               /\ \E j \in Listeners : gateway[g].listeners[j].from = "Selector"

\* No change is kept from Consul: as long as its last sync went through, a
\* gateway is published with exactly the routes the store has on its valid
\* listeners, although each operation syncs only the gateways it modified.
PublishedIsStored ==
    \A g \in insync :
        g \in StoredGateways /\ published[g] = Resolve(gateway[g], present[g])

\* "Bind will attempt to bind the provided route to all listeners on the Gateway
\* and remove the route from any listeners that the route should no longer be
\* bound to" (binder.go): a route is held by every listener that one of its
\* references names on a stored gateway and that can take it.
EveryParentBinds ==
    \A g \in StoredGateways, r \in StoredRoutes, i \in Listeners :
        (\E k \in DOMAIN route[r].refs :
            /\ route[r].refs[k] = [gateway |-> g, section |-> i]
            /\ canBind(g, gateway[g], i, r, route[r], route[r].refs[k], "error") = "bound")
        => present[g][i][r] # Absent
=============================================================================
