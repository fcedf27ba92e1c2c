------------------------------- MODULE Routes -------------------------------
(***************************************************************************)
(* How a route is resolved, bound and reported: the route controllers read *)
(* a route and validate it backend by backend, the resolver asks Consul    *)
(* again and again until a service appears there, the store binds the      *)
(* route to its gateway, and its status is merged with those that other    *)
(* controllers wrote (internal/k8s/controllers/http_route_controller.go,   *)
(* tcp_route_controller.go, internal/k8s/reconciler/manager.go, route.go,  *)
(* statuses.go, status/route.go, status/equality.go).                      *)
(*                                                                         *)
(* One route with one parent of this controller.  Store has several, and   *)
(* what binding does to them; here binding is decided by the parent.  As   *)
(* in GatewayStatus, a copy of the route says whether it is still fresh.   *)
(***************************************************************************)
EXTENDS RouteValidator

CONSTANTS
    Specs,          \* specifications that users write
    GrantSets,      \* sets of reference grants that may be in place
    Services,       \* the Kubernetes services there may be
    Catalogs,       \* what Consul may have registered
    MeshSets,       \* sets of MeshServices that may be in place
    Peerings,       \* Consul's peerings
    MaxRetries,     \* how often Consul is asked again
    MaxChanges      \* bound: changes by users and the cluster, and faults

ASSUME RetriesAssumption == MaxRetries \in Nat
ASSUME SpecsAssumption == Specs \subseteq RouteSpecs

VARIABLES
    route,          \* the route in the API server: [spec, generation, ours, others]
    grants, services, mesh, catalog, consulUp,
    parent,         \* the gateway in the store: "pending" when it is not there,
                    \* "refuses" (by its namespace policy) or "admits"
    changes,        \* changes so far
    queued,         \* the route is in the controller's work queue
    rec,            \* the reconciliation under way
    stored,         \* the route in the store
    job,            \* the status update under way; its owner holds the store's lock
    lost            \* history: the event of a grant or a service was lost

clusterVars == <<grants, services, mesh, catalog, consulUp>>
worldVars == <<route, clusterVars, parent, changes>>
vars == <<worldVars, queued, rec, stored, job, lost>>

None == [pc |-> "none"]
Idle == [pc |-> "idle"]
NoEntry == [accepted |-> "none"]      \* no status for the parent

Stale(copy) == IF copy.pc \in {"none", "idle"} THEN copy ELSE [copy EXCEPT !.fresh = FALSE]

Init ==
    /\ \E s \in Specs : route = [spec |-> s, generation |-> 1, ours |-> NoEntry, others |-> FALSE]
    /\ grants \in GrantSets
    /\ services = Services
    /\ mesh = {}
    /\ catalog \in Catalogs
    /\ consulUp = TRUE
    /\ parent \in {"pending", "admits"}
    /\ changes = 0
    /\ queued = TRUE
    /\ rec = Idle /\ stored = None /\ job = Idle
    /\ lost = FALSE

----------------------------------------------------------------------------
(* The world. *)

Change ==
    /\ changes < MaxChanges
    /\ changes' = changes + 1

\* HTTPRoutes and TCPRoutes are objects of their own: the kind stays.
EditRoute(s) ==
    /\ Change
    /\ s # route.spec /\ s.kind = route.spec.kind
    /\ route' = [route EXCEPT !.spec = s, !.generation = @ + 1]
    /\ queued' = TRUE
    /\ rec' = Stale(rec) /\ stored' = Stale(stored) /\ job' = Stale(job)
    /\ UNCHANGED <<clusterVars, parent, lost>>

\* Another controller writes the status of its own parent.
OtherWrites ==
    /\ Change
    /\ route' = [route EXCEPT !.others = ~@]
    /\ queued' = TRUE
    /\ rec' = Stale(rec) /\ stored' = Stale(stored) /\ job' = Stale(job)
    /\ UNCHANGED <<clusterVars, parent, lost>>

\* Mutant of GrantAffects: only the grants that are left are looked at.
GrantAffectsNew(old, new) ==
    \E g \in new \ old : \E f \in g.from : f.namespace = Home

\* getRoutesAffectedByReferenceGrant, for the old and the new object of the event.
GrantAffects(old, new) ==
    \E g \in (old \ new) \cup (new \ old) : \E f \in g.from : f.namespace = Home

\* When the routes cannot be listed the event is gone.
GrantsChange(gs, listed) ==
    /\ Change
    /\ gs # grants
    /\ grants' = gs
    /\ queued' = (queued \/ (listed /\ GrantAffects(grants, gs)))
    /\ lost' = (lost \/ ~listed)
    /\ UNCHANGED <<route, services, mesh, catalog, consulUp, parent, rec, stored, job>>

\* Mutant of ServiceAffects: a backend's namespace is taken to be the route's.
ServiceAffectsHome(s) ==
    \E r \in DOMAIN route.spec.rules : \E b \in DOMAIN route.spec.rules[r] :
        s = [namespace |-> Home, name |-> route.spec.rules[r][b].name]

\* getRoutesAffectedByService
ServiceAffects(s) ==
    \E r \in DOMAIN route.spec.rules : \E b \in DOMAIN route.spec.rules[r] :
        s = Key(route.spec.rules[r][b])

ServiceChanges(s, listed) ==
    /\ Change
    /\ services' = (services \ {s}) \cup ({s} \ services)
    /\ queued' = (queued \/ (listed /\ ServiceAffects(s)))
    /\ lost' = (lost \/ ~listed)
    /\ UNCHANGED <<route, grants, mesh, catalog, consulUp, parent, rec, stored, job>>

\* MeshServices and Consul are not watched.
MeshServicesChange(ms) ==
    /\ Change
    /\ ms # mesh
    /\ mesh' = ms
    /\ UNCHANGED <<route, grants, services, catalog, consulUp, parent, queued, rec, stored, job, lost>>

CatalogChanges(c) ==
    /\ Change
    /\ c # catalog
    /\ catalog' = c
    /\ UNCHANGED <<route, grants, services, mesh, consulUp, parent, queued, rec, stored, job, lost>>

ConsulChanges ==
    /\ Change
    /\ consulUp' = ~consulUp
    /\ UNCHANGED <<route, grants, services, mesh, catalog, parent, queued, rec, stored, job, lost>>

----------------------------------------------------------------------------
(* The controller and the validator. *)

Reconcile ==
    /\ queued /\ rec.pc = "idle"
    /\ queued' = FALSE
    /\ rec' = [pc |-> "read", spec |-> route.spec, generation |-> route.generation,
               ours |-> route.ours, others |-> route.others, fresh |-> TRUE,
               at |-> 1, tries |-> 0, mesh |-> None,
               references |-> {}, errors |-> {},
               shuffled |-> FALSE,   \* an error's text depends on the order of a map
               saw |-> <<>>]     \* history: per backend, what was not watched
    /\ UNCHANGED <<worldVars, stored, job, lost>>

\* The manager's lock: routes share it, gateways take it alone.
GatewayHolds == job # Idle /\ job.by = "gateway"
RoutesHold == rec.pc \notin {"idle", "read"}

\* Where the validation goes on after the backend at.
Onward(at) == IF at > Len(Backends(rec.spec)) THEN "upsert" ELSE "grant"

\* upsertRoute: the parent's gateway is in the API server, so that the route is
\* managed (Controllers has the routes that are not).
upsertRoute ==
    /\ rec.pc = "read" /\ ~GatewayHolds
    /\ rec' = [rec EXCEPT !.pc = Onward(1),
                          !.errors = IF WrongShape(rec.spec) THEN {"Generic"} ELSE {},
                          !.saw = [b \in DOMAIN Backends(rec.spec) |-> "unasked"]]
    /\ UNCHANGED <<worldVars, queued, stored, job, lost>>

ref == Backends(rec.spec)[rec.at].ref

\* The backend cannot be used; the next one is looked at.
Refused(error) ==
    rec' = [rec EXCEPT !.pc = Onward(rec.at + 1), !.at = @ + 1, !.errors = @ \cup {error},
                       !.saw[rec.at] = IF rec.pc = "reference" /\ ref.kind = "MeshService"
                                       THEN "missing" ELSE @]

CheckGrant ==
    /\ rec.pc = "grant"
    /\ IF routeAllowedForBackendRef(rec.spec.kind, ref, grants)
       THEN rec' = [rec EXCEPT !.pc = "reference"]
       ELSE Refused("RefNotPermitted")
    /\ UNCHANGED <<worldVars, queued, stored, job, lost>>

\* The Service or the MeshService is read once, before Consul is asked.
Resolve ==
    /\ rec.pc = "reference"
    /\ LET error == ReferenceError(ref, services, mesh)
       IN  IF error # "none" THEN Refused(error)
           ELSE rec' = [rec EXCEPT
                    !.pc = "consul", !.tries = 0,
                    !.mesh = IF ref.kind = "MeshService"
                             THEN CHOOSE m \in mesh : Key(m) = Key(ref) ELSE None]
    /\ UNCHANGED <<worldVars, queued, stored, job, lost>>

\* backoff.Retry: any error is tried again, up to MaxRetries times.
AskAgain ==
    /\ rec.pc = "consul" /\ rec.tries < MaxRetries
    /\ consulUp => ConsulService(ref, rec.mesh, catalog, Peerings).error # "none"
    /\ rec' = [rec EXCEPT !.tries = @ + 1]
    /\ UNCHANGED <<worldVars, queued, stored, job, lost>>

\* validateAgentConsulReference names the first two services of different names
\* that a walk over a Go map meets; findCatalogService walks a list.
AskConsul ==
    /\ rec.pc = "consul" /\ consulUp
    /\ LET answer == ConsulService(ref, rec.mesh, catalog, Peerings)
       IN  \/ /\ answer.error = "none"
              /\ rec' = [rec EXCEPT
                    !.pc = Onward(rec.at + 1), !.at = @ + 1,
                    !.references = @ \cup
                        {[rule |-> Backends(rec.spec)[rec.at].rule, ref |-> ref, found |-> answer]},
                    !.saw[rec.at] = "found"]
           \/ /\ answer.error # "none" /\ rec.tries = MaxRetries
              /\ rec' = [rec EXCEPT
                    !.pc = Onward(rec.at + 1), !.at = @ + 1,
                    !.errors = @ \cup {answer.error},
                    !.shuffled = @ \/ (ref.kind = "Service" /\ answer.error = "ConsulService"),
                    !.saw[rec.at] = "missing"]
    /\ UNCHANGED <<worldVars, queued, stored, job, lost>>

\* An error that is not one of resolution ends the validation.
ConsulFails ==
    /\ rec.pc = "consul" /\ ~consulUp /\ rec.tries = MaxRetries
    /\ rec' = Idle
    /\ queued' = TRUE
    /\ UNCHANGED <<worldVars, stored, job, lost>>

ReadFails ==
    /\ Change
    /\ rec.pc \in {"read", "grant", "reference"}
    /\ rec' = Idle
    /\ queued' = TRUE
    /\ UNCHANGED <<route, clusterVars, parent, stored, job, lost>>

----------------------------------------------------------------------------
(* Binding and the parent's status.  An entry is the set of the errors of  *)
(* Accepted and of ResolvedRefs, and the wording of their messages, which  *)
(* are compared too: errors of several types are listed in the random      *)
(* order of a Go map, and so are the names of a service that is ambiguous. *)

Wordings(errors, shuffled) == IF Cardinality(errors) > 1 \/ shuffled THEN {1, 2} ELSE {1}

Clean == [accepted |-> {}, refs |-> {}, wording |-> 1]

BindFailed(field, errors, wording) ==
    [accepted |-> {field},
     refs |-> IF errors = {} THEN {} ELSE {ResolvedRefsField[Flatten(errors)]},
     wording |-> wording]

Bind(errors, wording) ==
    CASE parent = "pending" -> NoEntry
      [] parent = "refuses" -> BindFailed("ListenerNamespacePolicy", errors, wording)
      [] parent = "admits" ->
            IF errors = {} THEN Clean ELSE BindFailed("BindError", errors, wording)

UpdateStatusOf(by, copy) ==
    [pc |-> "status", by |-> by, generation |-> copy.generation,
     ours |-> copy.ours, others |-> copy.others, fresh |-> copy.fresh, entry |-> copy.entry]

\* Store.UpsertRoute: the stored version is never newer than the one in hand, as
\* a route's requests are handled one after the other.
UpsertRoute(wording) ==
    /\ rec.pc = "upsert" /\ job = Idle
    /\ wording \in Wordings(rec.errors, rec.shuffled)
    /\ LET r == [pc |-> "stored", spec |-> rec.spec, generation |-> rec.generation,
                 ours |-> rec.ours, others |-> rec.others, fresh |-> rec.fresh,
                 references |-> rec.references, errors |-> rec.errors,
                 shuffled |-> rec.shuffled, saw |-> rec.saw,
                 entry |-> Bind(rec.errors, wording),
                 bound |-> parent = "admits" /\ rec.errors = {},
                 held |-> IF parent = "admits" /\ rec.errors = {}
                          THEN Convert(rec.references) ELSE {}]
       IN  stored' = r /\ job' = UpdateStatusOf("route", r)
    /\ rec' = [rec EXCEPT !.pc = "sync"]
    /\ UNCHANGED <<worldVars, queued, lost>>

\* Store.UpsertGateway with a gateway that admits or refuses: its listeners start
\* empty, and the route is stored again, with its status, only if it binds.
UpsertGateway(p) ==
    /\ Change
    /\ job = Idle /\ ~RoutesHold
    /\ p # parent
    /\ parent' = p
    /\ IF stored = None THEN UNCHANGED <<stored, job>>
       ELSE IF p = "admits" /\ stored.errors = {}
       THEN LET r == [stored EXCEPT !.entry = Clean, !.bound = TRUE, !.held = Convert(stored.references)]
            IN  stored' = r /\ job' = UpdateStatusOf("gateway", r)
       ELSE stored' = [stored EXCEPT !.bound = FALSE, !.held = {}] /\ UNCHANGED job
    /\ UNCHANGED <<route, clusterVars, queued, rec, lost>>

\* Store.DeleteGateway: a route that is bound loses its status too.
DeleteGateway ==
    /\ Change
    /\ job = Idle /\ ~RoutesHold
    /\ parent # "pending"
    /\ parent' = "pending"
    /\ IF stored = None \/ ~stored.bound THEN UNCHANGED <<stored, job>>
       ELSE LET r == [stored EXCEPT !.entry = NoEntry, !.bound = FALSE, !.held = {}]
            IN  stored' = r /\ job' = UpdateStatusOf("gateway", r)
    /\ UNCHANGED <<route, clusterVars, queued, rec, lost>>

SyncAll ==
    /\ job = Idle /\ stored # None
    /\ job' = UpdateStatusOf("background", stored)
    /\ UNCHANGED <<worldVars, queued, rec, stored, lost>>

----------------------------------------------------------------------------
(* UpdateRouteStatus. *)

\* RouteStatuses.Statuses: the conditions of the parent.
Statuses(entry, generation) ==
    IF entry = NoEntry THEN NoEntry
    ELSE [accepted |-> Condition(RouteAccepted, entry.accepted),
          refs |-> Condition(RouteResolvedRefs, entry.refs),
          wording |-> entry.wording, generation |-> generation]

\* Mutant of mergedStatus: the statuses of other controllers are not kept.
mergedStatusOwn(j) == [ours |-> Statuses(j.entry, j.generation), others |-> FALSE]

\* mergedStatus and filterParentStatuses
mergedStatus(j) == [ours |-> Statuses(j.entry, j.generation), others |-> j.others]

\* Mutant of NeedsUpdate: the transition times are compared too.
NeedsUpdateExact(j) == TRUE

\* Both sides are sorted, so that the order of the parents does not matter, and
\* the transition times are not compared.
NeedsUpdate(j) == mergedStatus(j) # [ours |-> j.ours, others |-> j.others]

StatusDone(error) ==
    /\ job' = Idle
    /\ IF job.by = "route"
       THEN rec' = Idle /\ queued' = (queued \/ error)
       ELSE UNCHANGED <<rec, queued>>

\* The API server takes the status if the copy is still the current version.
UpdateRouteStatus ==
    /\ job.pc = "status"
    /\ IF NeedsUpdate(job) /\ job.fresh
       THEN /\ route' = [route EXCEPT !.ours = mergedStatus(job).ours,
                                      !.others = mergedStatus(job).others]
            /\ stored' = Stale(stored)
            /\ job' = Idle
            /\ rec' = IF job.by = "route" THEN Idle ELSE Stale(rec)
            /\ queued' = TRUE
       ELSE /\ StatusDone(NeedsUpdate(job))
            /\ UNCHANGED <<route, stored>>
    /\ UNCHANGED <<clusterVars, parent, changes, lost>>

UpdateRouteStatusFails ==
    /\ Change
    /\ job.pc = "status" /\ NeedsUpdate(job)
    /\ StatusDone(TRUE)
    /\ UNCHANGED <<route, clusterVars, parent, stored, lost>>

----------------------------------------------------------------------------
Upserting == \E wording \in {1, 2} : UpsertRoute(wording)

Controller ==
    \/ Reconcile \/ upsertRoute
    \/ CheckGrant \/ Resolve \/ AskAgain \/ AskConsul \/ ConsulFails
    \/ Upserting

World ==
    \/ \E s \in Specs : EditRoute(s)
    \/ OtherWrites
    \/ \E gs \in GrantSets : \E listed \in BOOLEAN : GrantsChange(gs, listed)
    \/ \E s \in Services : \E listed \in BOOLEAN : ServiceChanges(s, listed)
    \/ \E ms \in MeshSets : MeshServicesChange(ms)
    \/ \E c \in Catalogs : CatalogChanges(c)
    \/ ConsulChanges
    \/ \E p \in {"refuses", "admits"} : UpsertGateway(p)
    \/ DeleteGateway

Next ==
    \/ Controller \/ UpdateRouteStatus \/ SyncAll
    \/ World
    \/ ReadFails \/ UpdateRouteStatusFails

\* The worker, the updates and the background loop are scheduled, and the store's
\* mutex does not let a waiter starve.
Fairness ==
    /\ WF_vars(Controller) /\ WF_vars(UpdateRouteStatus) /\ WF_vars(SyncAll)
    /\ SF_vars(Upserting)

Spec == Init /\ [][Next]_vars /\ Fairness

----------------------------------------------------------------------------
\* A route is bound with all of its backends or not at all, and a backend of
\* another namespace only through a grant: when that is taken back the route may
\* still be bound, but then a request is queued or a reconciliation is under way
\* that has not got as far or has left the backend out.
BoundIsPermitted ==
    stored # None /\ stored.bound /\ ~lost =>
        \A b \in DOMAIN Backends(stored.spec) :
            LET backend == Backends(stored.spec)[b]
            IN  /\ \E x \in stored.references : x.rule = backend.rule /\ x.ref = backend.ref
                /\ \E h \in stored.held : h.rule = backend.rule
                /\ \/ routeAllowedForBackendRef(stored.spec.kind, backend.ref, grants)
                   \/ queued
                   \/ rec.pc \notin {"idle", "sync"} /\ ~\E x \in rec.references : x.ref = backend.ref

\* Several controllers write the status of one route, each the entries of its own
\* parents: whatever this one has read and however late it writes, it never
\* changes what another has written.
OthersKeepTheirStatuses ==
    [][job.pc = "status" /\ job'.pc = "idle" => route'.others = route.others]_vars

\* The backends can be used: those of a Service or a MeshService that is there,
\* permitted, and that Consul had when it was asked.  MeshServices and Consul are
\* not watched: what counts is what was found.
Usable(b) ==
    LET backend == Backends(route.spec)[b].ref
    IN  /\ backend.namespace = Home \/
            \E g \in grants : /\ g.namespace = backend.namespace
                              /\ [kind |-> route.spec.kind, namespace |-> Home] \in g.from
                              /\ \E t \in g.to : t.kind = backend.kind /\ t.name \in {"", backend.name}
        /\ backend.kind = "Service" => backend.port /\ Key(backend) \in services
        /\ backend.kind \in {"Service", "MeshService"}
        /\ stored.saw[b] # "missing"

Truthful ==
    LET usable == /\ ~WrongShape(route.spec)
                  /\ \A b \in DOMAIN Backends(route.spec) : Usable(b)
    IN  /\ stored # None /\ stored.generation = route.generation
        /\ usable <=> stored.bound
        /\ usable => route.ours = [accepted |-> Fine, refs |-> Fine, wording |-> 1,
                                   generation |-> route.generation]
        /\ ~usable => route.ours.accepted # Fine

\* Once users, the cluster and Consul have come to rest, a route whose gateway
\* admits it is bound and reported as accepted exactly when all of its backends
\* can be used, whatever was retried, conflicted or came in a bad order.
\* Only a Consul that is down for good, and an event that was lost, prevent it.
RouteBecomesTrue ==
    <>[](lost \/ parent # "admits" \/ Truthful) \/ []<>(~consulUp)

\* The status of a route is written into the route, whose event starts another
\* reconciliation: the loop ends.  It need not while Consul is down, nor for a
\* route with errors of several types, nor for one with a Service that Consul has
\* under several names: the order of the types and of the names, and so the text
\* of the status, is drawn at random each time.
RoutesSettle ==
    \/ <>[](~queued /\ rec = Idle)
    \/ []<>(~consulUp)
    \/ []<>(stored # None /\ Wordings(stored.errors, stored.shuffled) # {1})
=============================================================================
