---------------------------- MODULE StoreProofs ----------------------------
(***************************************************************************)
(* Proofs about Store, for any gateways, routes, values and listeners: the *)
(* listeners hold current routes, only where these are admitted, and what  *)
(* is synced is what is stored.  And about Controllers, which is Store     *)
(* with the controllers and their queue: nothing outdated is forgotten.    *)
(***************************************************************************)
EXTENDS Controllers, FiniteSetTheorems, WellFoundedInduction, TLAPS

----------------------------------------------------------------------------
(* Type correctness. *)

\* What the proofs use of the values.
LEMMA ValueFacts ==
    /\ Absent \notin GatewayValues /\ Absent \notin RouteValues
    /\ \A g \in StoredGateways : g \in Gateways
    /\ \A r \in StoredRoutes : r \in Routes
BY StoreAssumption, BinderAssumption DEF StoredGateways, StoredRoutes

\* canBind answers a status.
LEMMA canBindType ==
    ASSUME NEW g, NEW gv, NEW i, NEW r, NEW rv, NEW ref, NEW lookup
    PROVE  canBind(g, gv, i, r, rv, ref, lookup) \in Statuses
BY DEF canBind, Statuses

\* The statuses that Bind leaves: the last listener that touches one exists.
LEMMA StatusesAfterBindType ==
    ASSUME NEW st, NEW g, NEW gv, NEW r, NEW rv, NEW lookup, NEW k \in DOMAIN rv.refs,
           st[k] \in Statuses \/ (routeReferencesGateway(rv, g)
                                  /\ Touching(g, gv, r, rv, k, lookup) # {})
    PROVE  StatusesAfterBind(st, g, gv, r, rv, lookup)[k] \in Statuses
BY canBindType DEF StatusesAfterBind

\* A route that is upserted gets a status for each of its references.
LEMMA FreshStatusesType ==
    ASSUME NEW r, NEW rv, NEW lookup, NEW order \in Orders
    PROVE  FreshStatuses(r, rv, lookup, order) \in [DOMAIN rv.refs -> Statuses]
<1> SUFFICES ASSUME NEW k \in DOMAIN rv.refs
             PROVE  FreshStatuses(r, rv, lookup, order)[k] \in Statuses
    BY DEF FreshStatuses
<1> DEFINE touching == {g \in StoredGateways :
                            /\ routeReferencesGateway(rv, g)
                            /\ Touching(g, gateway[g], r, rv, k, lookup[g]) # {}}
           last == CHOOSE g \in touching : \A h \in touching : order[h] <= order[g]
<1>1. FreshStatuses(r, rv, lookup, order)[k] =
          IF touching = {} THEN "none"
          ELSE StatusesAfterBind(<<>>, last, gateway[last], r, rv, lookup[last])[k]
    BY DEF FreshStatuses
<1>2. CASE touching = {}
    BY <1>1, <1>2 DEF Statuses
<1>3. CASE touching # {}
    <2> DEFINE n == Cardinality(Gateways)
               after == {n - order[g] : g \in touching}
    <2>1. n \in Nat
        BY StoreAssumption, FS_CardinalityType
    <2>2. after \in SUBSET Nat /\ after # {}
        BY <1>3, <2>1, ValueFacts DEF Orders
    <2>3. \E x \in after : \A y \in after : ~(<<y, x>> \in OpToRel(<, Nat))
        <3> HIDE DEF after
        <3> QED BY <2>2, NatLessThanWellFounded, WFMin
    <2>4. \E g \in touching : \A h \in touching : order[h] <= order[g]
        <3>1. PICK g \in touching : \A h \in touching : ~(n - order[h] < n - order[g])
            BY <2>2, <2>3 DEF OpToRel
        <3>2. \A h \in touching : order[h] \in Nat
            BY ValueFacts DEF Orders
        <3> QED BY <2>1, <3>1, <3>2
    <2>5. last \in touching
        BY <2>4
    <2>6. /\ routeReferencesGateway(rv, last)
          /\ Touching(last, gateway[last], r, rv, k, lookup[last]) # {}
        BY <2>5
    <2> HIDE DEF last
    <2> QED BY <1>1, <1>3, <2>6, StatusesAfterBindType
<1> QED BY <1>2, <1>3

\* syncGateways, given well-typed routes, publishes well-typed routes.
LEMMA SyncTypes ==
    ASSUME TypeOK, NEW gs \in SUBSET Gateways, NEW values, NEW held \in [Gateways -> Held],
           syncGateways(gs, values, held)
    PROVE  /\ published' \in [Gateways -> Held]
           /\ known' \in SUBSET Gateways
           /\ insync' \in SUBSET Gateways
<1>1. \A g \in Gateways : Resolve(values[g], held[g]) \in Held
    BY DEF Resolve, Held
<1> QED BY <1>1 DEF syncGateways, TypeOK

\* What Bind and Unbind leave on the listeners is well typed.
LEMMA HeldTypes ==
    ASSUME NEW p \in Held, NEW g, NEW gv, NEW r \in Routes, NEW rv \in RouteValues, NEW lookup
    PROVE  /\ Bind(p, g, gv, r, rv, lookup) \in Held
           /\ Unbind(p, r) \in Held
           /\ NoRoutes \in Held
BY DEF Bind, Unbind, NoRoutes, Held

\* The part of TypeOK about statuses.
StatusTypes ==
    \A r \in Routes :
        IF route[r] = Absent THEN statuses[r] = <<>>
        ELSE statuses[r] \in [DOMAIN route[r].refs -> Statuses]

\* An upserted gateway.
LEMMA UpsertGatewayTypes ==
    ASSUME TypeOK, NEW g \in Gateways, NEW gv \in GatewayValues, NEW lookup,
           UpsertGateway(g, gv, lookup)
    PROVE  TypeOK'
<1> DEFINE held == [present EXCEPT ![g] = BoundAll(g, gv, lookup)]
           values == [gateway EXCEPT ![g] = gv]
<1>1. BoundAll(g, gv, lookup) \in Held
    BY DEF BoundAll, Held, TypeOK, StoredRoutes
<1>2. held \in [Gateways -> Held]
    BY <1>1 DEF TypeOK
<1>3. /\ gateway' = values /\ present' = held /\ route' = route
      /\ syncGateways({g}, values, held)
    BY DEF UpsertGateway
<1>4. /\ published' \in [Gateways -> Held]
      /\ known' \in SUBSET Gateways
      /\ insync' \in SUBSET Gateways
    <2> HIDE DEF values, held
    <2> QED BY <1>2, <1>3, SyncTypes
<1>5. DOMAIN statuses' = Routes /\ StatusTypes'
    <2>1. /\ DOMAIN statuses' = Routes
          /\ \A r \in Routes :
                 \/ statuses'[r] = statuses[r]
                 \/ /\ route[r] # Absent
                    /\ statuses'[r] = StatusesAfterBind(statuses[r], g, gv, r, route[r], lookup[r])
        BY DEF UpsertGateway, StoredRoutes
    <2>2. ASSUME NEW r \in Routes, route[r] # Absent
          PROVE  StatusesAfterBind(statuses[r], g, gv, r, route[r], lookup[r])
                     \in [DOMAIN route[r].refs -> Statuses]
        <3>1. \A k \in DOMAIN route[r].refs : statuses[r][k] \in Statuses
            BY <2>2 DEF TypeOK
        <3>2. \A k \in DOMAIN route[r].refs :
                  StatusesAfterBind(statuses[r], g, gv, r, route[r], lookup[r])[k] \in Statuses
            BY <3>1, StatusesAfterBindType
        <3> QED BY <3>2 DEF StatusesAfterBind
    <2> QED BY <1>3, <2>1, <2>2 DEF TypeOK, StatusTypes
<1> QED BY <1>2, <1>3, <1>4, <1>5 DEF TypeOK, StatusTypes

\* A deleted gateway.
LEMMA DeleteGatewayTypes ==
    ASSUME TypeOK, NEW g \in Gateways, DeleteGateway(g)
    PROVE  TypeOK'
<1>1. NoRoutes \in Held
    BY DEF NoRoutes, Held
<1>2. DOMAIN statuses' = Routes /\ StatusTypes'
    <2>1. /\ DOMAIN statuses' = Routes
          /\ \A r \in Routes :
                 \/ statuses'[r] = statuses[r]
                 \/ /\ route[r] # Absent
                    /\ statuses'[r] = StatusesAfterUnbind(statuses[r], g, route[r])
        BY DEF DeleteGateway, StoredRoutes
    <2>2. ASSUME NEW r \in Routes, route[r] # Absent
          PROVE  StatusesAfterUnbind(statuses[r], g, route[r]) \in [DOMAIN route[r].refs -> Statuses]
        BY <2>2 DEF TypeOK, StatusesAfterUnbind, Statuses
    <2> QED BY <2>1, <2>2 DEF DeleteGateway, TypeOK, StatusTypes
<1>3. /\ gateway' \in [Gateways -> GatewayValues \cup {Absent}]
      /\ present' \in [Gateways -> Held]
      /\ published' \in [Gateways -> Held]
      /\ known' \in SUBSET Gateways /\ insync' \in SUBSET Gateways /\ route' = route
    BY <1>1 DEF DeleteGateway, TypeOK
<1> QED BY <1>2, <1>3 DEF TypeOK, StatusTypes

\* An upserted route.
LEMMA UpsertRouteTypes ==
    ASSUME TypeOK, NEW r \in Routes, NEW rv \in RouteValues, NEW lookup, NEW order \in Orders,
           UpsertRoute(r, rv, lookup, order)
    PROVE  TypeOK'
<1> DEFINE modified == {g \in StoredGateways :
                            BindModifies(present[g], g, gateway[g], r, rv, lookup[g])}
           held == [g \in Gateways |->
                       IF g \in modified
                       THEN Bind(present[g], g, gateway[g], r, rv, lookup[g])
                       ELSE present[g]]
<1>1. /\ route' = [route EXCEPT ![r] = rv] /\ present' = held /\ gateway' = gateway
      /\ statuses' = [statuses EXCEPT ![r] = FreshStatuses(r, rv, lookup, order)]
      /\ syncGateways(modified, gateway, held)
    BY DEF UpsertRoute, BoundGateways
<1>2. held \in [Gateways -> Held]
    BY HeldTypes DEF TypeOK
<1>3. modified \in SUBSET Gateways
    BY ValueFacts
<1>4. /\ published' \in [Gateways -> Held]
      /\ known' \in SUBSET Gateways
      /\ insync' \in SUBSET Gateways
    <2> HIDE DEF modified, held
    <2> QED BY <1>1, <1>2, <1>3, SyncTypes
<1>5. DOMAIN statuses' = Routes /\ StatusTypes'
    BY <1>1, FreshStatusesType, ValueFacts DEF TypeOK, StatusTypes
<1> HIDE DEF held
<1> QED BY <1>1, <1>2, <1>4, <1>5 DEF TypeOK, StatusTypes

\* A deleted route.
LEMMA DeleteRouteTypes ==
    ASSUME TypeOK, NEW r \in Routes, DeleteRoute(r)
    PROVE  TypeOK'
<1> DEFINE modified == {g \in StoredGateways : UnbindModifies(present[g], r)}
           held == [g \in Gateways |->
                       IF g \in modified THEN Unbind(present[g], r) ELSE present[g]]
<1>1. /\ route' = [route EXCEPT ![r] = Absent] /\ present' = held /\ gateway' = gateway
      /\ statuses' = [statuses EXCEPT ![r] = <<>>]
      /\ syncGateways(modified, gateway, held)
    BY DEF DeleteRoute, UnboundGateways
<1>2. held \in [Gateways -> Held]
    BY DEF TypeOK, Held, Unbind
<1>3. modified \in SUBSET Gateways
    BY ValueFacts
<1>4. /\ published' \in [Gateways -> Held]
      /\ known' \in SUBSET Gateways
      /\ insync' \in SUBSET Gateways
    <2> HIDE DEF modified, held
    <2> QED BY <1>1, <1>2, <1>3, SyncTypes
<1>5. DOMAIN statuses' = Routes /\ StatusTypes'
    BY <1>1 DEF TypeOK, StatusTypes
<1> HIDE DEF held
<1> QED BY <1>1, <1>2, <1>4, <1>5 DEF TypeOK, StatusTypes

\* Every step keeps the types.
LEMMA TypeStep == TypeOK /\ [Next]_vars => TypeOK'
<1> SUFFICES ASSUME TypeOK, [Next]_vars PROVE TypeOK'
    OBVIOUS
<1>1. ASSUME NEW g \in Gateways, NEW cleared \in BOOLEAN, DeleteGatewayFails(g, cleared)
      PROVE  TypeOK'
    <2>1. NoRoutes \in Held
        BY DEF NoRoutes, Held
    <2> QED BY <1>1, <2>1 DEF DeleteGatewayFails, TypeOK, storeVars
<1>2. CASE SyncAll
    <2>1. /\ published' \in [Gateways -> Held]
          /\ known' \in SUBSET Gateways
          /\ insync' \in SUBSET Gateways
        BY <1>2, SyncTypes DEF SyncAll, StoredGateways, TypeOK
    <2> QED BY <1>2, <2>1 DEF SyncAll, TypeOK, storeVars
<1>3. CASE UNCHANGED vars
    BY <1>3 DEF TypeOK, vars, storeVars, consulVars
<1> QED BY <1>1, <1>2, <1>3, UpsertGatewayTypes, DeleteGatewayTypes, UpsertRouteTypes,
           DeleteRouteTypes DEF Next

\* The store starts empty.
LEMMA TypeInit == Init => TypeOK
BY DEF Init, TypeOK, NoRoutes, Held

\* TypeOK is an invariant of the store.
THEOREM TypeCorrect == Spec => []TypeOK
BY TypeInit, TypeStep, PTL DEF Spec

----------------------------------------------------------------------------
(* The bindings.  A route is tried only on the gateways that an operation   *)
(* is about, and a gateway is stored again only if Bind or Unbind reports a *)
(* modification; the copies on all the other listeners must be right        *)
(* already, which is what makes the three properties inductive together.    *)

Binding == TypeOK /\ BoundRouteIsCurrent /\ BoundWhereAdmitted /\ PublishedIsStored

\* What a listener asks of a route before it holds it.
Admits(g, gv, i, r, rv) ==
    /\ routeReferencesGateway(rv, g)
    /\ gv.listeners[i].ready
    /\ gv.listeners[i].protocol = rv.protocol
    /\ routeMatchesListenerHostname(gv.listeners[i], rv)
    /\ gv.listeners[i].from = "Same" => <<g, r>> \in SameNamespace
    /\ rv.resolved

\* Bind holds a route only where it is admitted.
LEMMA BindsWhereAdmitted ==
    ASSUME NEW g, NEW gv, NEW i, NEW r, NEW rv, NEW lookup, BindsTo(g, gv, i, r, rv, lookup)
    PROVE  Admits(g, gv, i, r, rv)
BY DEF BindsTo, Admits, canBind, routeAllowedForListenerNamespaces

\* The two properties of the bindings, as a state of gateways, routes and
\* listeners.
BoundRight(gw, rt, held) ==
    \A g \in Gateways, i \in Listeners, r \in Routes :
        held[g][i][r] # Absent =>
            /\ gw[g] # Absent
            /\ held[g][i][r] = rt[r]
            /\ Admits(g, gw[g], i, r, rt[r])

\* They are what the runs check.
LEMMA BoundRightIs ==
    (BoundRouteIsCurrent /\ BoundWhereAdmitted) <=> BoundRight(gateway, route, present)
<1>1. ASSUME BoundRouteIsCurrent, BoundWhereAdmitted PROVE BoundRight(gateway, route, present)
    <2> SUFFICES ASSUME NEW g \in Gateways, NEW i \in Listeners, NEW r \in Routes,
                        present[g][i][r] # Absent
                 PROVE  /\ gateway[g] # Absent
                        /\ present[g][i][r] = route[r]
                        /\ Admits(g, gateway[g], i, r, route[r])
        BY DEF BoundRight
    <2>1. gateway[g] # Absent /\ present[g][i][r] = route[r]
        BY <1>1 DEF BoundRouteIsCurrent, StoredGateways
    <2>2. Admits(g, gateway[g], i, r, route[r])
        BY <1>1 DEF BoundWhereAdmitted, Admits
    <2> QED BY <2>1, <2>2
<1>2. ASSUME BoundRight(gateway, route, present) PROVE BoundRouteIsCurrent
    BY <1>2 DEF BoundRouteIsCurrent, BoundRight, StoredGateways
<1>3. ASSUME BoundRight(gateway, route, present) PROVE BoundWhereAdmitted
    BY <1>3 DEF BoundWhereAdmitted, BoundRight, Admits
<1> QED BY <1>1, <1>2, <1>3

\* The gateways an operation does not sync are as they were; the synced ones
\* are published as given.
LEMMA SyncPublishes ==
    ASSUME TypeOK, PublishedIsStored,
           NEW gs \in SUBSET Gateways, NEW values, NEW held,
           syncGateways(gs, values, held),
           \A g \in gs : values[g] # Absent,
           \A g \in Gateways \ gs : values[g] = gateway[g] /\ held[g] = present[g]
    PROVE  \A g \in insync' : values[g] # Absent /\ published'[g] = Resolve(values[g], held[g])
<1> SUFFICES ASSUME NEW g \in insync'
             PROVE  values[g] # Absent /\ published'[g] = Resolve(values[g], held[g])
    OBVIOUS
<1>1. PICK result \in [gs -> SyncResults] :
          /\ published' = [h \in Gateways |->
                 IF h \in gs /\ result[h] # "failed"
                 THEN Resolve(values[h], held[h]) ELSE published[h]]
          /\ insync' = (insync \ gs) \cup {h \in gs : result[h] = "synced"}
    BY DEF syncGateways
<1>2. CASE g \in gs
    BY <1>1, <1>2
<1>3. CASE g \notin gs
    <2>1. g \in insync /\ g \in Gateways
        BY <1>1, <1>3 DEF TypeOK
    <2> QED BY <1>1, <1>3, <2>1 DEF PublishedIsStored, StoredGateways
<1> QED BY <1>2, <1>3

\* An upserted gateway holds the stored routes it admits, and nothing else.
LEMMA UpsertGatewayBinds ==
    ASSUME Binding, NEW g \in Gateways, NEW gv \in GatewayValues, NEW lookup,
           UpsertGateway(g, gv, lookup)
    PROVE  BoundRight(gateway, route, present)' /\ PublishedIsStored'
<1> DEFINE held == [present EXCEPT ![g] = BoundAll(g, gv, lookup)]
           values == [gateway EXCEPT ![g] = gv]
<1>1. /\ gateway' = values /\ present' = held /\ route' = route
      /\ syncGateways({g}, values, held)
    BY DEF UpsertGateway
<1>2. /\ values[g] = gv /\ held[g] = BoundAll(g, gv, lookup)
      /\ \A h \in Gateways : h # g => values[h] = gateway[h] /\ held[h] = present[h]
    BY DEF Binding, TypeOK
<1>3. BoundRight(values, route, held)
    <2> SUFFICES ASSUME NEW h \in Gateways, NEW i \in Listeners, NEW r \in Routes,
                        held[h][i][r] # Absent
                 PROVE  /\ values[h] # Absent /\ held[h][i][r] = route[r]
                        /\ Admits(h, values[h], i, r, route[r])
        BY DEF BoundRight
    <2>1. CASE h = g
        <3>1. BindsTo(g, gv, i, r, route[r], lookup[r]) /\ held[h][i][r] = route[r]
            BY <1>2, <2>1 DEF BoundAll
        <3> QED BY <1>2, <2>1, <3>1, BindsWhereAdmitted, ValueFacts
    <2>2. CASE h # g
        BY <1>2, <2>2, BoundRightIs DEF Binding, BoundRight
    <2> QED BY <2>1, <2>2
<1>4. \A h \in insync' : values[h] # Absent /\ published'[h] = Resolve(values[h], held[h])
    <2> HIDE DEF values, held
    <2> QED BY <1>1, <1>2, SyncPublishes, ValueFacts DEF Binding
<1>5. insync' \subseteq Gateways
    BY UpsertGatewayTypes DEF Binding, TypeOK
<1>6. PublishedIsStored'
    BY <1>1, <1>4, <1>5 DEF PublishedIsStored, StoredGateways
<1> QED BY <1>1, <1>3, <1>6

\* After an upsert of a route its copies are the new ones, on every gateway:
\* one that is not modified had none and gets none.
LEMMA UpsertRouteBinds ==
    ASSUME Binding, NEW r \in Routes, NEW rv \in RouteValues, NEW lookup, NEW order \in Orders,
           UpsertRoute(r, rv, lookup, order)
    PROVE  BoundRight(gateway, route, present)' /\ PublishedIsStored'
<1> DEFINE modified == {g \in StoredGateways :
                            BindModifies(present[g], g, gateway[g], r, rv, lookup[g])}
           held == [g \in Gateways |->
                       IF g \in modified
                       THEN Bind(present[g], g, gateway[g], r, rv, lookup[g])
                       ELSE present[g]]
           routes == [route EXCEPT ![r] = rv]
<1>1. /\ route' = routes /\ present' = held /\ gateway' = gateway
      /\ syncGateways(modified, gateway, held)
    BY DEF UpsertRoute, BoundGateways
<1>2. BoundRight(gateway, routes, held)
    <2> SUFFICES ASSUME NEW g \in Gateways, NEW i \in Listeners, NEW s \in Routes,
                        held[g][i][s] # Absent
                 PROVE  /\ gateway[g] # Absent /\ held[g][i][s] = routes[s]
                        /\ Admits(g, gateway[g], i, s, routes[s])
        BY DEF BoundRight
    <2>0. /\ routes[r] = rv /\ (s # r => routes[s] = route[s])
          /\ present[g] \in Held
        BY DEF Binding, TypeOK
    <2>1. CASE s = r /\ g \in modified
        <3>1. BindsTo(g, gateway[g], i, r, rv, lookup[g]) /\ held[g][i][s] = rv
            BY <2>0, <2>1 DEF Bind, Held
        <3> QED BY <2>0, <2>1, <3>1, BindsWhereAdmitted DEF StoredGateways
    <2>2. CASE s = r /\ g \notin modified
        <3>1. present[g][i][r] # Absent
            BY <2>2
        <3>2. g \in StoredGateways
            BY <3>1 DEF Binding, BoundRouteIsCurrent
        <3> QED BY <2>2, <3>1, <3>2 DEF BindModifies
    <2>3. CASE s # r
        <3>1. held[g][i][s] = present[g][i][s]
            BY <2>0, <2>3 DEF Bind, Held
        <3> QED BY <2>0, <2>3, <3>1, BoundRightIs DEF Binding, BoundRight
    <2> QED BY <2>1, <2>2, <2>3
<1>3. /\ modified \in SUBSET Gateways /\ \A g \in modified : gateway[g] # Absent
      /\ \A g \in Gateways \ modified : held[g] = present[g]
    BY DEF StoredGateways
<1>4. \A h \in insync' : gateway[h] # Absent /\ published'[h] = Resolve(gateway[h], held[h])
    <2> HIDE DEF modified, held
    <2> QED BY <1>1, <1>3, SyncPublishes DEF Binding
<1>5. insync' \subseteq Gateways
    BY UpsertRouteTypes DEF Binding, TypeOK
<1> HIDE DEF held, routes
<1>6. PublishedIsStored'
    BY <1>1, <1>4, <1>5 DEF PublishedIsStored, StoredGateways
<1> QED BY <1>1, <1>2, <1>6

\* A deleted route leaves no copy behind.
LEMMA DeleteRouteUnbinds ==
    ASSUME Binding, NEW r \in Routes, DeleteRoute(r)
    PROVE  BoundRight(gateway, route, present)' /\ PublishedIsStored'
<1> DEFINE modified == {g \in StoredGateways : UnbindModifies(present[g], r)}
           held == [g \in Gateways |->
                       IF g \in modified THEN Unbind(present[g], r) ELSE present[g]]
           routes == [route EXCEPT ![r] = Absent]
<1>1. /\ route' = routes /\ present' = held /\ gateway' = gateway
      /\ syncGateways(modified, gateway, held)
    BY DEF DeleteRoute, UnboundGateways
<1>2. BoundRight(gateway, routes, held)
    <2> SUFFICES ASSUME NEW g \in Gateways, NEW i \in Listeners, NEW s \in Routes,
                        held[g][i][s] # Absent
                 PROVE  /\ gateway[g] # Absent /\ held[g][i][s] = routes[s]
                        /\ Admits(g, gateway[g], i, s, routes[s])
        BY DEF BoundRight
    <2>0. (s # r => routes[s] = route[s]) /\ present[g] \in Held
        BY DEF Binding, TypeOK
    <2>1. CASE s = r /\ g \in modified
        BY <2>0, <2>1 DEF Unbind, Held
    <2>2. CASE s = r /\ g \notin modified
        <3>1. present[g][i][r] # Absent
            BY <2>2
        <3>2. g \in StoredGateways
            BY <3>1 DEF Binding, BoundRouteIsCurrent
        <3> QED BY <2>2, <3>1, <3>2 DEF UnbindModifies
    <2>3. CASE s # r
        <3>1. held[g][i][s] = present[g][i][s]
            BY <2>0, <2>3 DEF Unbind, Held
        <3> QED BY <2>0, <2>3, <3>1, BoundRightIs DEF Binding, BoundRight
    <2> QED BY <2>1, <2>2, <2>3
<1>3. /\ modified \in SUBSET Gateways /\ \A g \in modified : gateway[g] # Absent
      /\ \A g \in Gateways \ modified : held[g] = present[g]
    BY DEF StoredGateways
<1>4. \A h \in insync' : gateway[h] # Absent /\ published'[h] = Resolve(gateway[h], held[h])
    <2> HIDE DEF modified, held
    <2> QED BY <1>1, <1>3, SyncPublishes DEF Binding
<1>5. insync' \subseteq Gateways
    BY DeleteRouteTypes DEF Binding, TypeOK
<1> HIDE DEF held, routes
<1>6. PublishedIsStored'
    BY <1>1, <1>4, <1>5 DEF PublishedIsStored, StoredGateways
<1> QED BY <1>1, <1>2, <1>6

\* A deleted gateway holds nothing.
LEMMA DeleteGatewayUnbinds ==
    ASSUME Binding, NEW g \in Gateways, DeleteGateway(g)
    PROVE  BoundRight(gateway, route, present)' /\ PublishedIsStored'
<1>1. /\ \A h \in Gateways : h # g => gateway'[h] = gateway[h] /\ present'[h] = present[h]
      /\ present'[g] = NoRoutes /\ route' = route
      /\ insync' = insync \ {g}
      /\ \A h \in Gateways : h # g => published'[h] = published[h]
    BY DEF DeleteGateway, Binding, TypeOK
<1>2. BoundRight(gateway, route, present)'
    <2> SUFFICES ASSUME NEW h \in Gateways, NEW i \in Listeners, NEW r \in Routes,
                        present'[h][i][r] # Absent
                 PROVE  /\ gateway'[h] # Absent /\ present'[h][i][r] = route'[r]
                        /\ Admits(h, gateway'[h], i, r, route'[r])
        BY DEF BoundRight
    <2>1. h # g
        BY <1>1 DEF NoRoutes
    <2> QED BY <1>1, <2>1, BoundRightIs DEF Binding, BoundRight
<1>3. PublishedIsStored'
    BY <1>1 DEF Binding, TypeOK, PublishedIsStored, StoredGateways
<1> QED BY <1>2, <1>3

\* Every step keeps the bindings right.
LEMMA BindingStep == Binding /\ [Next]_vars => Binding'
<1> SUFFICES ASSUME Binding, [Next]_vars PROVE Binding'
    OBVIOUS
<1>0. BoundRight(gateway, route, present)
    BY BoundRightIs DEF Binding
<1>1. ASSUME NEW g \in Gateways, NEW cleared \in BOOLEAN, DeleteGatewayFails(g, cleared)
      PROVE  BoundRight(gateway, route, present)' /\ PublishedIsStored'
    <2>1. /\ UNCHANGED <<gateway, route, present>>
          /\ insync' = insync \ {g}
          /\ \A h \in Gateways : h # g => published'[h] = published[h]
        BY <1>1 DEF DeleteGatewayFails, storeVars, Binding, TypeOK
    <2>2. PublishedIsStored'
        BY <2>1 DEF Binding, TypeOK, PublishedIsStored, StoredGateways
    <2> QED BY <1>0, <2>1, <2>2 DEF BoundRight
<1>2. ASSUME SyncAll PROVE BoundRight(gateway, route, present)' /\ PublishedIsStored'
    <2>1. UNCHANGED <<gateway, route, present>> /\ syncGateways(StoredGateways, gateway, present)
        BY <1>2 DEF SyncAll, storeVars
    <2>2. \A h \in insync' : gateway[h] # Absent /\ published'[h] = Resolve(gateway[h], present[h])
        BY <2>1, SyncPublishes DEF Binding, StoredGateways
    <2>3. insync' \subseteq Gateways
        BY <2>1, SyncTypes DEF Binding, TypeOK, StoredGateways
    <2>4. PublishedIsStored'
        BY <2>1, <2>2, <2>3 DEF PublishedIsStored, StoredGateways
    <2> QED BY <1>0, <2>1, <2>4 DEF BoundRight
<1>3. ASSUME UNCHANGED vars PROVE BoundRight(gateway, route, present)' /\ PublishedIsStored'
    <2>1. PublishedIsStored'
        BY <1>3 DEF vars, storeVars, consulVars, Binding, PublishedIsStored, StoredGateways
    <2>2. BoundRight(gateway, route, present)'
        BY <1>0, <1>3 DEF vars, storeVars, BoundRight
    <2> QED BY <2>1, <2>2
<1>4. BoundRight(gateway, route, present)' /\ PublishedIsStored'
    <2>1. ASSUME NEW g \in Gateways, NEW gv \in GatewayValues, NEW lookup, UpsertGateway(g, gv, lookup)
          PROVE  BoundRight(gateway, route, present)' /\ PublishedIsStored'
        BY <2>1, UpsertGatewayBinds
    <2>2. ASSUME NEW g \in Gateways, DeleteGateway(g)
          PROVE  BoundRight(gateway, route, present)' /\ PublishedIsStored'
        BY <2>2, DeleteGatewayUnbinds
    <2>3. ASSUME NEW r \in Routes, NEW rv \in RouteValues, NEW lookup, NEW order \in Orders,
                 UpsertRoute(r, rv, lookup, order)
          PROVE  BoundRight(gateway, route, present)' /\ PublishedIsStored'
        BY <2>3, UpsertRouteBinds
    <2>4. ASSUME NEW r \in Routes, DeleteRoute(r)
          PROVE  BoundRight(gateway, route, present)' /\ PublishedIsStored'
        BY <2>4, DeleteRouteUnbinds
    <2> QED BY <1>1, <1>2, <1>3, <2>1, <2>2, <2>3, <2>4 DEF Next
<1>5. TypeOK'
    BY TypeStep DEF Binding
<1>6. (BoundRouteIsCurrent /\ BoundWhereAdmitted)' <=> BoundRight(gateway, route, present)'
    BY BoundRightIs, PTL
<1> QED BY <1>4, <1>5, <1>6 DEF Binding

\* The bindings are right throughout.
LEMMA BindingInvariant == Spec => []Binding
<1>1. Init => Binding
    BY TypeInit DEF Init, Binding, BoundRouteIsCurrent, BoundWhereAdmitted, PublishedIsStored, NoRoutes
<1> QED BY <1>1, BindingStep, PTL DEF Spec

\* No listener holds a stale copy of a route.
THEOREM NoStaleRoute == Spec => []BoundRouteIsCurrent
<1>1. Binding => BoundRouteIsCurrent
    BY DEF Binding
<1> QED BY <1>1, BindingInvariant, PTL

\* A route is held only by listeners that admit it as both are now.
THEOREM HeldOnlyWhereAdmitted == Spec => []BoundWhereAdmitted
<1>1. Binding => BoundWhereAdmitted
    BY DEF Binding
<1> QED BY <1>1, BindingInvariant, PTL

\* A gateway whose last sync succeeded is published as it is stored.
THEOREM SyncedIsStored == Spec => []PublishedIsStored
<1>1. Binding => PublishedIsStored
    BY DEF Binding
<1> QED BY <1>1, BindingInvariant, PTL

----------------------------------------------------------------------------
(* The statuses of what is bound. *)

\* A set of listeners has a last one.
LEMMA LastListener ==
    ASSUME NEW S \in SUBSET Listeners, S # {}
    PROVE  \E i \in S : \A j \in S : j <= i
<1> DEFINE after == {NumListeners - i : i \in S}
<1>0. NumListeners \in Nat
    BY BinderAssumption
<1>1. \A i \in S : i \in Nat /\ NumListeners - i \in Nat
    BY <1>0 DEF Listeners
<1>2. after \in SUBSET Nat /\ after # {}
    BY <1>1
<1>3. \E x \in after : \A y \in after : ~(<<y, x>> \in OpToRel(<, Nat))
    <2> HIDE DEF after
    <2> QED BY <1>2, NatLessThanWellFounded, WFMin
<1>4. PICK i \in S : \A j \in S : ~(NumListeners - j < NumListeners - i)
    BY <1>2, <1>3 DEF OpToRel
<1> QED BY <1>0, <1>1, <1>4

\* The status of the one reference of a route that gv's listeners hold.
Reported(status, gv) ==
    \/ status = "bound"
    \/ status = "failed" /\ \E j \in Listeners : gv.listeners[j].from = "Selector"

\* A reference that binds to one listener is refused by another only if a
\* lookup fails.
LEMMA RefusedBeside ==
    ASSUME NEW g, NEW gv \in GatewayValues, NEW r, NEW rv \in RouteValues, NEW ref, NEW lookup,
           NEW i \in Listeners, canBind(g, gv, i, r, rv, ref, lookup) = "bound",
           NEW j \in Listeners, canBind(g, gv, j, r, rv, ref, lookup) # "none"
    PROVE  Reported(canBind(g, gv, j, r, rv, ref, lookup), gv)
<1>0. gv.listeners \in [Listeners -> ListenerValues]
    BY BinderAssumption
<1>1. gv.listeners[j].from \in {"All", "Same", "Selector"}
    BY <1>0 DEF ListenerValues
<1>2. rv.resolved /\ ref.section \in {0, i}
    BY DEF canBind
<1>3. CASE ref.section # 0
    BY <1>2, <1>3 DEF canBind, Reported
<1>4. CASE ref.section = 0
    BY <1>1, <1>2, <1>4 DEF canBind, routeAllowedForListenerNamespaces, Reported
<1> QED BY <1>3, <1>4

\* Bind leaves such a status for a route that it binds.
LEMMA BoundIsReported ==
    ASSUME NEW st, NEW g, NEW gv \in GatewayValues, NEW r, NEW rv \in RouteValues, NEW lookup,
           NEW i \in Listeners, BindsTo(g, gv, i, r, rv, lookup), Len(rv.refs) = 1
    PROVE  /\ Touching(g, gv, r, rv, 1, lookup) # {}
           /\ Reported(StatusesAfterBind(st, g, gv, r, rv, lookup)[1], gv)
<1> DEFINE touching == Touching(g, gv, r, rv, 1, lookup)
           last == CHOOSE j \in touching : \A k \in touching : k <= j
<1>1. rv.refs \in Seq(Refs) /\ 1 \in DOMAIN rv.refs
    BY BinderAssumption
<1>2. /\ routeReferencesGateway(rv, g)
      /\ canBind(g, gv, i, r, rv, rv.refs[1], lookup) = "bound"
    BY DEF BindsTo
<1>3. i \in touching /\ touching \subseteq Listeners
    BY <1>2 DEF Touching
<1>4. last \in touching
    BY <1>3, LastListener
<1>5. StatusesAfterBind(st, g, gv, r, rv, lookup)[1]
          = canBind(g, gv, last, r, rv, rv.refs[1], lookup)
    BY <1>1, <1>2, <1>3 DEF StatusesAfterBind
<1>6. last \in Listeners /\ canBind(g, gv, last, r, rv, rv.refs[1], lookup) # "none"
    BY <1>4 DEF Touching
<1> HIDE DEF last
<1> QED BY <1>2, <1>3, <1>5, <1>6, RefusedBeside

\* A route with one reference refers to one gateway.
LEMMA OneGateway ==
    ASSUME NEW rv \in RouteValues, Len(rv.refs) = 1, NEW g, NEW h,
           routeReferencesGateway(rv, g), routeReferencesGateway(rv, h)
    PROVE  g = h
<1>1. rv.refs \in Seq(Refs)
    BY BinderAssumption
<1>2. DOMAIN rv.refs = {1}
    BY <1>1
<1> QED BY <1>2 DEF routeReferencesGateway

\* What a held route is, by the bindings.
LEMMA HeldFacts ==
    ASSUME Binding, NEW g \in Gateways, NEW i \in Listeners, NEW r \in Routes,
           present[g][i][r] # Absent
    PROVE  /\ g \in StoredGateways /\ gateway[g] \in GatewayValues
           /\ r \in StoredRoutes /\ route[r] \in RouteValues
           /\ routeReferencesGateway(route[r], g)
<1>1. g \in StoredGateways /\ route[r] # Absent
    BY DEF Binding, BoundRouteIsCurrent
<1>2. routeReferencesGateway(route[r], g)
    BY DEF Binding, BoundWhereAdmitted
<1> QED BY <1>1, <1>2 DEF Binding, TypeOK, StoredGateways, StoredRoutes

\* An upserted gateway's routes are stored again with what Bind reports; the
\* routes of the others are none of its own.
LEMMA UpsertGatewayReports ==
    ASSUME Binding, HeldIsReported, NEW g \in Gateways, NEW gv \in GatewayValues, NEW lookup,
           UpsertGateway(g, gv, lookup)
    PROVE  HeldIsReported'
<1> SUFFICES ASSUME NEW h \in Gateways, NEW i \in Listeners, NEW r \in Routes,
                    present'[h][i][r] # Absent, Len(route'[r].refs) = 1
             PROVE  Reported(statuses'[r][1], gateway'[h])
    BY DEF HeldIsReported, Reported
<1> DEFINE binds == BindModifies(NoRoutes, g, gv, r, route[r], lookup[r])
<1>1. /\ route' = route
      /\ h = g => present'[h] = BoundAll(g, gv, lookup) /\ gateway'[h] = gv
      /\ h # g => present'[h] = present[h] /\ gateway'[h] = gateway[h]
      /\ statuses'[r] = IF r \in StoredRoutes /\ binds
                        THEN StatusesAfterBind(statuses[r], g, gv, r, route[r], lookup[r])
                        ELSE statuses[r]
    BY DEF UpsertGateway, Binding, TypeOK
<1>2. CASE h = g
    <2>1. r \in StoredRoutes /\ BindsTo(g, gv, i, r, route[r], lookup[r])
        BY <1>1, <1>2 DEF BoundAll
    <2>2. route[r] \in RouteValues
        BY <2>1 DEF StoredRoutes, Binding, TypeOK
    <2>3. 1 \in DOMAIN route[r].refs /\ Len(route[r].refs) = 1
        BY <1>1, <2>2, BinderAssumption
    <2>4. /\ routeReferencesGateway(route[r], g)
          /\ canBind(g, gv, i, r, route[r], route[r].refs[1], lookup[r]) = "bound"
        BY <2>1, <2>3 DEF BindsTo
    <2>5. binds
        BY <2>3, <2>4 DEF BindModifies
    <2> HIDE DEF binds
    <2> QED BY <1>1, <1>2, <2>1, <2>2, <2>5, BoundIsReported
<1>3. CASE h # g
    <2>1. present[h][i][r] # Absent
        BY <1>1, <1>3
    <2>2. route[r] \in RouteValues /\ routeReferencesGateway(route[r], h)
        BY <2>1, HeldFacts
    <2>3. ~routeReferencesGateway(route[r], g)
        BY <1>1, <1>3, <2>2, OneGateway
    <2>4. ~binds
        BY <2>3 DEF BindModifies, NoRoutes
    <2> HIDE DEF binds
    <2> QED BY <1>1, <1>3, <2>1, <2>4 DEF HeldIsReported, Reported
<1> QED BY <1>2, <1>3

\* The deletion of a gateway takes statuses only from the routes it held.
LEMMA DeleteGatewayReports ==
    ASSUME Binding, HeldIsReported, NEW g \in Gateways, DeleteGateway(g)
    PROVE  HeldIsReported'
<1> SUFFICES ASSUME NEW h \in Gateways, NEW i \in Listeners, NEW r \in Routes,
                    present'[h][i][r] # Absent, Len(route'[r].refs) = 1
             PROVE  Reported(statuses'[r][1], gateway'[h])
    BY DEF HeldIsReported, Reported
<1>1. /\ route' = route /\ present'[g] = NoRoutes
      /\ h # g => present'[h] = present[h] /\ gateway'[h] = gateway[h]
      /\ ~UnbindModifies(present[g], r) => statuses'[r] = statuses[r]
    BY DEF DeleteGateway, Binding, TypeOK
<1>2. h # g /\ present[h][i][r] # Absent
    BY <1>1 DEF NoRoutes
<1>3. route[r] \in RouteValues /\ routeReferencesGateway(route[r], h)
    BY <1>2, HeldFacts
<1>4. ~UnbindModifies(present[g], r)
    <2> SUFFICES ASSUME NEW j \in Listeners, present[g][j][r] # Absent PROVE FALSE
        BY DEF UnbindModifies
    <2>1. routeReferencesGateway(route[r], g)
        BY HeldFacts
    <2> QED BY <1>1, <1>2, <1>3, <2>1, OneGateway
<1> QED BY <1>1, <1>2, <1>4 DEF HeldIsReported, Reported

\* An upserted route gets the status that its gateway's Bind gives it.
LEMMA UpsertRouteReports ==
    ASSUME Binding, HeldIsReported, NEW r \in Routes, NEW rv \in RouteValues, NEW lookup,
           NEW order \in Orders, UpsertRoute(r, rv, lookup, order)
    PROVE  HeldIsReported'
<1> SUFFICES ASSUME NEW g \in Gateways, NEW i \in Listeners, NEW s \in Routes,
                    present'[g][i][s] # Absent, Len(route'[s].refs) = 1
             PROVE  Reported(statuses'[s][1], gateway'[g])
    BY DEF HeldIsReported, Reported
<1> DEFINE modified == BoundGateways(r, rv, lookup)
<1>1. /\ gateway' = gateway
      /\ present'[g] = IF g \in modified
                       THEN Bind(present[g], g, gateway[g], r, rv, lookup[g]) ELSE present[g]
      /\ route'[r] = rv /\ (s # r => route'[s] = route[s] /\ statuses'[s] = statuses[s])
      /\ statuses'[r] = FreshStatuses(r, rv, lookup, order)
      /\ present[g] \in Held
    BY DEF UpsertRoute, Binding, TypeOK
<1>2. CASE s # r
    <2>1. present[g][i][s] # Absent
        BY <1>1, <1>2 DEF Bind, Held
    <2> QED BY <1>1, <1>2, <2>1 DEF HeldIsReported, Reported
<1>3. CASE s = r
    <2>1. g \in modified
        <3> SUFFICES ASSUME g \notin modified PROVE FALSE
            OBVIOUS
        <3>1. present[g][i][r] # Absent
            BY <1>1, <1>3
        <3> QED BY <3>1, HeldFacts DEF BoundGateways, BindModifies
    <2>2. BindsTo(g, gateway[g], i, r, rv, lookup[g])
        BY <1>1, <1>3, <2>1 DEF Bind, Held
    <2>3. g \in StoredGateways /\ gateway[g] \in GatewayValues
        BY <2>1 DEF BoundGateways, StoredGateways, Binding, TypeOK
    <2>4. /\ Touching(g, gateway[g], r, rv, 1, lookup[g]) # {}
          /\ Reported(StatusesAfterBind(<<>>, g, gateway[g], r, rv, lookup[g])[1], gateway[g])
        BY <1>1, <1>3, <2>2, <2>3, BoundIsReported
    <2> DEFINE touching == {h \in StoredGateways :
                                /\ routeReferencesGateway(rv, h)
                                /\ Touching(h, gateway[h], r, rv, 1, lookup[h]) # {}}
               last == CHOOSE h \in touching : \A k \in touching : order[k] <= order[h]
    <2>5. touching = {g}
        <3>1. g \in touching
            BY <2>2, <2>3, <2>4 DEF BindsTo
        <3> QED BY <1>1, <1>3, <2>2, <3>1, OneGateway DEF BindsTo
    <2>6. order[g] \in Nat
        BY StoreAssumption, FS_CardinalityType DEF Orders
    <2>7. last = g
        BY <2>5, <2>6
    <2>8. 1 \in DOMAIN rv.refs
        BY <1>1, <1>3, BinderAssumption
    <2>9. FreshStatuses(r, rv, lookup, order)[1] =
              IF touching = {} THEN "none"
              ELSE StatusesAfterBind(<<>>, last, gateway[last], r, rv, lookup[last])[1]
        BY <2>8 DEF FreshStatuses
    <2> HIDE DEF last, touching
    <2> QED BY <1>1, <1>3, <2>4, <2>5, <2>7, <2>9
<1> QED BY <1>2, <1>3

\* The deletion of a route leaves the others as they were.
LEMMA DeleteRouteReports ==
    ASSUME Binding, HeldIsReported, NEW r \in Routes, DeleteRoute(r)
    PROVE  HeldIsReported'
<1> SUFFICES ASSUME NEW g \in Gateways, NEW i \in Listeners, NEW s \in Routes,
                    present'[g][i][s] # Absent, Len(route'[s].refs) = 1
             PROVE  Reported(statuses'[s][1], gateway'[g])
    BY DEF HeldIsReported, Reported
<1>1. /\ gateway' = gateway
      /\ present'[g] = IF g \in UnboundGateways(r) THEN Unbind(present[g], r) ELSE present[g]
      /\ s # r => route'[s] = route[s] /\ statuses'[s] = statuses[s]
      /\ present[g] \in Held
    BY DEF DeleteRoute, Binding, TypeOK
<1>2. s # r
    <2> SUFFICES ASSUME s = r PROVE FALSE
        OBVIOUS
    <2>1. g \notin UnboundGateways(r) /\ present[g][i][r] # Absent
        BY <1>1 DEF Unbind, Held
    <2> QED BY <2>1, HeldFacts DEF UnboundGateways, UnbindModifies
<1>3. present[g][i][s] # Absent
    BY <1>1, <1>2 DEF Unbind, Held
<1> QED BY <1>1, <1>2, <1>3 DEF HeldIsReported, Reported

\* A route with one reference that a listener holds is reported as bound,
\* through every order of upserts and deletions of gateways and routes.
THEOREM WhatIsHeldIsReported == Spec => []HeldIsReported
<1>1. Init => HeldIsReported
    BY DEF Init, HeldIsReported, NoRoutes
<1>2. Binding /\ HeldIsReported /\ [Next]_vars => HeldIsReported'
    <2> SUFFICES ASSUME Binding, HeldIsReported, [Next]_vars PROVE HeldIsReported'
        OBVIOUS
    <2>1. CASE UNCHANGED storeVars
        BY <2>1 DEF HeldIsReported, storeVars
    <2> QED BY <2>1, UpsertGatewayReports, DeleteGatewayReports, UpsertRouteReports,
               DeleteRouteReports DEF Next, DeleteGatewayFails, SyncAll, vars
<1> QED BY <1>1, <1>2, BindingInvariant, PTL DEF Spec

----------------------------------------------------------------------------
(* Controllers. *)

\* The object as it is on the API server.
Api(o) == IF o \in Gateways THEN apiGateway[o] ELSE apiRoute[o]

Domains ==
    /\ DOMAIN gateway = Gateways /\ DOMAIN route = Routes
    /\ DOMAIN apiGateway = Gateways /\ DOMAIN apiRoute = Routes
    /\ DOMAIN reading = Objects

\* A reconciliation that holds an outdated read will be followed by another:
\* the change came after the read, and queued the object.
OutdatedReadIsQueued ==
    \A o \in Objects : reading[o].busy /\ reading[o].value # Api(o) => o \in queue

Tracking == Domains /\ OutdatedReadIsQueued /\ OutdatedIsPending

----------------------------------------------------------------------------
\* Reconciliations that end are of one object, and leave the rest as it was.
LEMMA FinishFacts ==
    ASSUME Domains, NEW o \in Objects, NEW error \in BOOLEAN, Finish(o, error)
    PROVE  /\ reading[o].busy /\ ~reading'[o].busy
           /\ \A p \in Objects : p # o => reading'[p] = reading[p]
           /\ DOMAIN reading' = Objects
           /\ queue \subseteq queue' /\ (error => o \in queue')
BY DEF Finish, Domains, NotReading

\* A change of a gateway on the API server, which queues it.
LEMMA GatewayWriteStep ==
    ASSUME Tracking, NEW g \in Gateways, UNCHANGED <<gateway, route, apiRoute>>,
           DOMAIN apiGateway' = Gateways, DOMAIN reading' = Objects,
           \A h \in Gateways : h # g => apiGateway'[h] = apiGateway[h],
           \A p \in Objects : p # g => reading'[p] = reading[p],
           queue' = queue \cup {g}, ignored \subseteq ignored' \cup {g}
    PROVE  Tracking'
<1> USE ControllersAssumption
<1>1. Domains'
    BY DEF Tracking, Domains
<1>2. OutdatedReadIsQueued'
    BY DEF Tracking, OutdatedReadIsQueued, Api, Objects
<1>3. OutdatedIsPending'
    BY DEF Tracking, OutdatedIsPending, TakenForOthers, Pending, Objects
<1> QED BY <1>1, <1>2, <1>3 DEF Tracking

\* A change of a route on the API server.
LEMMA RouteWriteStep ==
    ASSUME Tracking, NEW r \in Routes, UNCHANGED <<gateway, route, apiGateway, reading, ignored>>,
           DOMAIN apiRoute' = Routes,
           \A s \in Routes : s # r => apiRoute'[s] = apiRoute[s],
           queue' = queue \cup {r}
    PROVE  Tracking'
<1> USE ControllersAssumption
<1>1. Domains'
    BY DEF Tracking, Domains
<1>2. OutdatedReadIsQueued'
    BY DEF Tracking, OutdatedReadIsQueued, Api, Objects
<1>3. OutdatedIsPending'
    BY DEF Tracking, OutdatedIsPending, TakenForOthers, Pending, Objects
<1> QED BY <1>1, <1>2, <1>3 DEF Tracking

\* The end of a gateway's reconciliation: the store has what was read, or is as
\* it was and the gateway is queued again, or was taken for somebody else's.
LEMMA GatewayEndStep ==
    ASSUME Tracking, NEW g \in Gateways, NEW error \in BOOLEAN, Finish(g, error),
           UNCHANGED <<route, apiGateway, apiRoute>>, DOMAIN gateway' = Gateways,
           \A h \in Gateways : h # g => gateway'[h] = gateway[h],
           ignored \subseteq ignored',
           \/ error
           \/ gateway'[g] = reading[g].value
           \/ apiGateway[g] = reading[g].value => TakenForOthers(g)'
    PROVE  Tracking'
<1> USE ControllersAssumption
<1>1. g \in Objects
    BY DEF Objects
<1>2. /\ reading[g].busy /\ ~reading'[g].busy
      /\ \A p \in Objects : p # g => reading'[p] = reading[p]
      /\ DOMAIN reading' = Objects
      /\ queue \subseteq queue' /\ (error => g \in queue')
    BY <1>1, FinishFacts DEF Tracking
<1>3. Domains'
    BY <1>2 DEF Tracking, Domains
<1>4. OutdatedReadIsQueued'
    BY <1>2 DEF Tracking, OutdatedReadIsQueued, Api, Objects
<1>5. gateway'[g] = apiGateway[g] \/ g \in queue' \/ TakenForOthers(g)'
    BY <1>1, <1>2 DEF Tracking, OutdatedReadIsQueued, Api
<1>6. OutdatedIsPending'
    BY <1>2, <1>5 DEF Tracking, OutdatedIsPending, TakenForOthers, Pending, Objects
<1> QED BY <1>3, <1>4, <1>6 DEF Tracking

\* The end of a route's reconciliation: the store has what was read, has no
\* such route, or is as it was and the route is queued again.
LEMMA RouteEndStep ==
    ASSUME Tracking, NEW r \in Routes, NEW error \in BOOLEAN, Finish(r, error),
           UNCHANGED <<gateway, apiGateway, apiRoute, ignored>>, DOMAIN route' = Routes,
           \A s \in Routes : s # r => route'[s] = route[s],
           error \/ route'[r] \in {reading[r].value, Absent}
    PROVE  Tracking'
<1> USE ControllersAssumption
<1>1. r \in Objects /\ r \notin Gateways
    BY DEF Objects
<1>2. /\ reading[r].busy /\ ~reading'[r].busy
      /\ \A p \in Objects : p # r => reading'[p] = reading[p]
      /\ DOMAIN reading' = Objects
      /\ queue \subseteq queue' /\ (error => r \in queue')
    BY <1>1, FinishFacts DEF Tracking
<1>3. Domains'
    BY <1>2 DEF Tracking, Domains
<1>4. OutdatedReadIsQueued'
    BY <1>2 DEF Tracking, OutdatedReadIsQueued, Api, Objects
<1>5. route'[r] \in {apiRoute[r], Absent} \/ r \in queue'
    BY <1>1, <1>2 DEF Tracking, OutdatedReadIsQueued, Api
<1>6. OutdatedIsPending'
    BY <1>2, <1>5 DEF Tracking, OutdatedIsPending, TakenForOthers, Pending, Objects
<1> QED BY <1>3, <1>4, <1>6 DEF Tracking

\* The read: what is taken off the queue is what the API server has.
LEMMA ReadStep ==
    ASSUME Tracking, NEW o \in Objects, Read(o)
    PROVE  Tracking'
<1> USE ControllersAssumption
<1>1. /\ UNCHANGED <<gateway, route, apiGateway, apiRoute, ignored>>
      /\ ~reading[o].busy
      /\ queue' = queue \ {o}
      /\ reading' = [reading EXCEPT ![o] = Reading(Api(o))]
    BY DEF Read, vars, storeVars, apiVars, Api
<1>2. /\ reading'[o].busy /\ reading'[o].value = Api(o)
      /\ \A p \in Objects : p # o => reading'[p] = reading[p]
      /\ DOMAIN reading' = Objects
    BY <1>1 DEF Reading, Tracking, Domains
<1>3. Domains'
    BY <1>1, <1>2 DEF Tracking, Domains
<1>4. OutdatedReadIsQueued'
    BY <1>1, <1>2 DEF Tracking, OutdatedReadIsQueued, Api
<1>5. OutdatedIsPending'
    BY <1>1, <1>2 DEF Tracking, OutdatedIsPending, TakenForOthers, Pending, Objects, Api
<1> QED BY <1>3, <1>4, <1>5 DEF Tracking

----------------------------------------------------------------------------
\* What the store's operations do to its records, whatever they do elsewhere.
LEMMA StoreRecords ==
    /\ \A g, gv, lookup :
           UpsertGateway(g, gv, lookup) =>
               gateway' = [gateway EXCEPT ![g] = gv] /\ route' = route
    /\ \A g, cleared : DeleteGatewayFails(g, cleared) => gateway' = gateway /\ route' = route
    /\ \A g : DeleteGateway(g) => gateway' = [gateway EXCEPT ![g] = Absent] /\ route' = route
    /\ \A r, rv, lookup, order :
           UpsertRoute(r, rv, lookup, order) =>
               route' = [route EXCEPT ![r] = rv] /\ gateway' = gateway
    /\ \A r : DeleteRoute(r) => route' = [route EXCEPT ![r] = Absent] /\ gateway' = gateway
    /\ SyncAll => gateway' = gateway /\ route' = route
BY DEF UpsertGateway, DeleteGatewayFails, DeleteGateway, UpsertRoute, DeleteRoute, SyncAll,
       storeVars

\* A step that leaves all that Tracking is about as it was.
LEMMA UntrackedStep ==
    ASSUME Tracking, UNCHANGED <<gateway, route, apiGateway, apiRoute, queue, reading, ignored>>
    PROVE  Tracking'
BY DEF Tracking, Domains, OutdatedReadIsQueued, OutdatedIsPending, TakenForOthers, Pending, Api

LEMMA UsersStep ==
    ASSUME Tracking, Users
    PROVE  Tracking'
<1> USE DEF vars, storeVars
<1>1. ASSUME NEW g \in Gateways, NEW gv \in GatewayValues, WriteGateway(g, gv)
      PROVE  Tracking'
    BY <1>1, GatewayWriteStep DEF WriteGateway, Tracking, Domains
<1>2. ASSUME NEW g \in Gateways, RemoveGateway(g)
      PROVE  Tracking'
    BY <1>2, GatewayWriteStep DEF RemoveGateway, Tracking, Domains
<1>3. ASSUME NEW r \in Routes, NEW rv \in RouteValues, WriteRoute(r, rv)
      PROVE  Tracking'
    BY <1>3, RouteWriteStep DEF WriteRoute, Tracking, Domains
<1>4. ASSUME NEW r \in Routes, RemoveRoute(r)
      PROVE  Tracking'
    BY <1>4, RouteWriteStep DEF RemoveRoute, Tracking, Domains
<1>5. ASSUME ClassChanges PROVE Tracking'
    BY <1>5, UntrackedStep DEF ClassChanges, controllerVars
<1> QED BY <1>1, <1>2, <1>3, <1>4, <1>5 DEF Users

\* A failed reconciliation changes nothing but the queue.
LEMMA FailureStep ==
    ASSUME Tracking, NEW o \in Objects, ReconcileFails(o)
    PROVE  Tracking'
<1>1. Finish(o, TRUE) /\ UNCHANGED <<gateway, route, apiGateway, apiRoute, ignored>>
    BY DEF ReconcileFails, vars, storeVars, apiVars
<1>2. DOMAIN gateway' = Gateways /\ DOMAIN route' = Routes
    BY <1>1 DEF Tracking, Domains
<1>3. CASE o \in Gateways
    BY <1>1, <1>2, <1>3, GatewayEndStep
<1>4. CASE o \in Routes
    BY <1>1, <1>2, <1>4, RouteEndStep
<1> QED BY <1>3, <1>4 DEF Objects

LEMMA AnnotateStep ==
    ASSUME Tracking, NEW g \in Gateways, AnnotateGateway(g)
    PROVE  Tracking'
<1>1. UNCHANGED <<gateway, route, apiRoute, ignored>>
    BY DEF AnnotateGateway, vars, storeVars
<1>2. CASE apiGateway[g] = reading[g].value
  <2>1. /\ apiGateway' = [apiGateway EXCEPT ![g].annotated = TRUE, ![g].version = revision + 1]
        /\ reading' = [reading EXCEPT ![g] = NotReading]
        /\ queue' = queue \cup {g}
      BY <1>2 DEF AnnotateGateway
  <2>2. /\ DOMAIN apiGateway' = Gateways /\ DOMAIN reading' = Objects
        /\ \A h \in Gateways : h # g => apiGateway'[h] = apiGateway[h]
        /\ \A p \in Objects : p # g => reading'[p] = reading[p]
      BY <2>1 DEF Tracking, Domains
  <2> QED BY <1>1, <2>1, <2>2, GatewayWriteStep
<1>3. CASE apiGateway[g] # reading[g].value
  <2>1. Finish(g, TRUE) /\ UNCHANGED apiGateway
      BY <1>3 DEF AnnotateGateway
  <2> QED BY <1>1, <2>1, GatewayEndStep DEF Tracking, Domains
<1> QED BY <1>2, <1>3

\* A gateway that is not taken for ours: if it is as it was read, it is now
\* among those that were ignored.
LEMMA IgnoreStep ==
    ASSUME Tracking, NEW g \in Gateways, IgnoreGateway(g)
    PROVE  Tracking'
<1>1. /\ Finish(g, FALSE)
      /\ UNCHANGED <<gateway, route, apiGateway, apiRoute>>
      /\ ignored \subseteq ignored'
    BY DEF IgnoreGateway, vars, storeVars, apiVars
<1>2. apiGateway[g] = reading[g].value => TakenForOthers(g)'
    BY <1>1 DEF IgnoreGateway, TakenForOthers
<1>3. DOMAIN gateway' = Gateways
    BY <1>1 DEF Tracking, Domains
<1> QED BY <1>1, <1>2, <1>3, GatewayEndStep

LEMMA GatewayStep ==
    ASSUME Tracking, NEW g \in Gateways, NEW ready \in BOOLEAN, NEW error \in BOOLEAN,
           ReconcileGateway(g, ready, error)
    PROVE  Tracking'
<1>1. Finish(g, error) /\ UNCHANGED <<apiGateway, apiRoute, ignored>>
    BY DEF ReconcileGateway, apiVars
<1>2. gateway' = [gateway EXCEPT ![g] = reading[g].value] /\ route' = route
    BY StoreRecords DEF ReconcileGateway
<1>3. /\ DOMAIN gateway' = Gateways /\ gateway'[g] = reading[g].value
      /\ \A h \in Gateways : h # g => gateway'[h] = gateway[h]
    BY <1>2 DEF Tracking, Domains
<1> QED BY <1>1, <1>2, <1>3, GatewayEndStep

LEMMA DeletedGatewayStep ==
    ASSUME Tracking, NEW g \in Gateways, ReconcileDeletedGateway(g)
    PROVE  Tracking'
<1>1. reading[g].value = Absent /\ UNCHANGED <<apiGateway, apiRoute, ignored>>
    BY DEF ReconcileDeletedGateway, apiVars
<1>2. ASSUME NEW error \in BOOLEAN, DeleteGateway(g), Finish(g, error)
      PROVE  Tracking'
  <2>1. gateway' = [gateway EXCEPT ![g] = Absent] /\ route' = route
      BY <1>2, StoreRecords
  <2>2. /\ DOMAIN gateway' = Gateways /\ gateway'[g] = reading[g].value
        /\ \A h \in Gateways : h # g => gateway'[h] = gateway[h]
      BY <1>1, <2>1 DEF Tracking, Domains
  <2> QED BY <1>1, <1>2, <2>1, <2>2, GatewayEndStep
<1>3. CASE g \notin StoredGateways /\ UNCHANGED vars /\ Finish(g, FALSE)
  <2>1. UNCHANGED <<gateway, route>> /\ gateway'[g] = reading[g].value
      BY <1>1, <1>3 DEF StoredGateways, vars, storeVars
  <2> QED BY <1>1, <1>3, <2>1, GatewayEndStep DEF Tracking, Domains
<1>4. CASE (\E cleared \in BOOLEAN : DeleteGatewayFails(g, cleared)) /\ Finish(g, TRUE)
  <2>1. UNCHANGED <<gateway, route>>
      BY <1>4, StoreRecords
  <2> QED BY <1>1, <1>4, <2>1, GatewayEndStep DEF Tracking, Domains
<1> QED BY <1>2, <1>3, <1>4 DEF ReconcileDeletedGateway

LEMMA RouteStep ==
    ASSUME Tracking, NEW r \in Routes, NEW error \in BOOLEAN, ReconcileRoute(r, error)
    PROVE  Tracking'
<1>1. Finish(r, error) /\ UNCHANGED <<apiGateway, apiRoute, ignored>>
    BY DEF ReconcileRoute, apiVars
<1>2. route' = [route EXCEPT ![r] = reading[r].value] /\ gateway' = gateway
    BY StoreRecords DEF ReconcileRoute
<1>3. /\ DOMAIN route' = Routes /\ route'[r] = reading[r].value
      /\ \A s \in Routes : s # r => route'[s] = route[s]
    BY <1>2 DEF Tracking, Domains
<1> QED BY <1>1, <1>2, <1>3, RouteEndStep

LEMMA DeletedRouteStep ==
    ASSUME Tracking, NEW r \in Routes, NEW error \in BOOLEAN, ReconcileDeletedRoute(r, error)
    PROVE  Tracking'
<1>1. UNCHANGED <<apiGateway, apiRoute, ignored>>
    BY DEF ReconcileDeletedRoute, apiVars
<1>2. CASE r \in StoredRoutes
  <2>1. DeleteRoute(r) /\ Finish(r, error)
      BY <1>2 DEF ReconcileDeletedRoute
  <2>2. route' = [route EXCEPT ![r] = Absent] /\ gateway' = gateway
      BY <2>1, StoreRecords
  <2>3. /\ DOMAIN route' = Routes /\ route'[r] = Absent
        /\ \A s \in Routes : s # r => route'[s] = route[s]
      BY <2>2 DEF Tracking, Domains
  <2> QED BY <1>1, <2>1, <2>2, <2>3, RouteEndStep
<1>3. CASE r \notin StoredRoutes
  <2>1. UNCHANGED <<gateway, route>> /\ Finish(r, FALSE) /\ route'[r] = Absent
      BY <1>3 DEF ReconcileDeletedRoute, StoredRoutes, vars, storeVars
  <2> QED BY <1>1, <2>1, RouteEndStep DEF Tracking, Domains
<1> QED BY <1>2, <1>3

\* After a restart the store is empty, and all that exists is queued.
LEMMA RestartStep ==
    ASSUME Tracking, Restart
    PROVE  Tracking'
<1>1. Domains'
    BY DEF Restart, Tracking, Domains, apiVars
<1>2. OutdatedReadIsQueued'
    BY DEF Restart, OutdatedReadIsQueued, NotReading
<1>3. OutdatedIsPending'
    BY DEF Restart, OutdatedIsPending, TakenForOthers, Pending, apiVars
<1> QED BY <1>1, <1>2, <1>3 DEF Tracking

LEMMA TrackingStep == Tracking /\ [ControllersNext]_allVars => Tracking'
<1> SUFFICES ASSUME Tracking, [ControllersNext]_allVars
             PROVE  Tracking'
    OBVIOUS
<1>1. CASE Users
    BY <1>1, UsersStep
<1>2. CASE \E g \in Gateways : GarbageCollect(g)
    BY <1>2, UntrackedStep DEF GarbageCollect, vars, storeVars, apiVars
<1>3. CASE Reconcile
  <2>1. ASSUME NEW o \in Objects, Read(o) \/ ReconcileFails(o)
        PROVE  Tracking'
      BY <2>1, ReadStep, FailureStep
  <2>2. ASSUME NEW g \in Gateways, AnnotateGateway(g) \/ IgnoreGateway(g)
        PROVE  Tracking'
      BY <2>2, AnnotateStep, IgnoreStep
  <2>3. ASSUME NEW g \in Gateways, NEW ready \in BOOLEAN, NEW error \in BOOLEAN,
               ReconcileGateway(g, ready, error)
        PROVE  Tracking'
      BY <2>3, GatewayStep
  <2>4. ASSUME NEW g \in Gateways, ReconcileDeletedGateway(g)
        PROVE  Tracking'
      BY <2>4, DeletedGatewayStep
  <2>5. ASSUME NEW r \in Routes, NEW error \in BOOLEAN,
               ReconcileRoute(r, error) \/ ReconcileDeletedRoute(r, error)
        PROVE  Tracking'
      BY <2>5, RouteStep, DeletedRouteStep
  <2> QED BY <1>3, <2>1, <2>2, <2>3, <2>4, <2>5 DEF Reconcile
<1>4. CASE BackgroundSync
    BY <1>4, StoreRecords, UntrackedStep DEF BackgroundSync, apiVars
<1>5. CASE Restart
    BY <1>5, RestartStep
<1>6. CASE UNCHANGED allVars
    BY <1>6, UntrackedStep DEF allVars, vars, storeVars, apiVars, controllerVars
<1> QED BY <1>1, <1>2, <1>3, <1>4, <1>5, <1>6 DEF ControllersNext

----------------------------------------------------------------------------
\* Nothing outdated is forgotten (controllers and middleware.go): for any
\* number of objects, writes and restarts, an object that the store has in
\* another state than the API server is queued or is being reconciled with the
\* API server's value in hand, or it is a gateway without annotation that was
\* reconciled while no configuration was found for its class (manager.go:164).
THEOREM NothingOutdatedIsForgotten == ControllersSpec => []OutdatedIsPending
<1>1. ControllersInit => Tracking
    BY DEF ControllersInit, Init, Tracking, Domains, OutdatedReadIsQueued, OutdatedIsPending,
           Pending, NotReading
<1>2. Tracking => OutdatedIsPending
    BY DEF Tracking
<1> QED BY <1>1, <1>2, TrackingStep, PTL DEF ControllersSpec
=============================================================================
