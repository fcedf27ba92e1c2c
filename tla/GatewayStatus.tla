--------------------------- MODULE GatewayStatus ----------------------------
(***************************************************************************)
(* How the status of a Gateway comes about and is published: the gateway   *)
(* controller reads the gateway and validates it with several reads of the *)
(* API server, the store keeps the result, and every sync (after an        *)
(* upsert, after a route, in the background) deploys, calls Consul and     *)
(* writes the status, if it differs from the one that came with the        *)
(* gateway.  A write of the gateway is an event that the controller gets   *)
(* back (internal/k8s/reconciler/manager.go, statuses.go, state/gateway.go,*)
(* status/equality.go, internal/k8s/controllers/gateway_controller.go).    *)
(*                                                                         *)
(* Resource versions are only ever compared with the current one: a copy   *)
(* of the gateway says whether it is "fresh", still the current version.   *)
(***************************************************************************)
EXTENDS GatewayValidator

CONSTANTS
    Specs,          \* specifications that users write, all with the same number of listeners
    ServiceTypes,   \* service types of class configs
    GrantSets,      \* sets of reference grants that may be in place
    PodSets,        \* sets of pods that may run
    Secrets,        \* the Secrets that specifications refer to
    IPs,            \* addresses that services get
    MaxChanges      \* bound: changes by users and the cluster, and faults

ASSUME SpecsAssumption == Specs \subseteq GatewaySpecs

VARIABLES
    gw,             \* the Gateway in the API server: [spec, generation, status]
    serviceType,    \* the type in the gateway's configuration
    grants, pods, service, secrets,
    routes,         \* per listener, routes in the store that would bind to it
    consulUp,       \* whether syncs with Consul succeed
    changes,        \* changes so far
    queued,         \* the gateway is in the controller's work queue
    rec,            \* the reconciliation under way
    stored,         \* the gateway in the store
    job,            \* the sync under way; its owner holds the store's lock
    lost            \* history: an event of a grant was lost

worldVars == <<gw, serviceType, grants, pods, service, secrets, routes, consulUp, changes>>
vars == <<worldVars, queued, rec, stored, job, lost>>

Listeners == DOMAIN gw.spec.listeners

NoStatus == [generation |-> 0]      \* a new gateway has no conditions
None == [pc |-> "none"]
Idle == [pc |-> "idle"]

\* InitialGatewayState.  Of the messages only this is kept: reworded, whether one
\* of them differs from that in the status with which the gateway was read, for
\* the same reason.
InitialGatewayState ==
    [listeners |-> <<>>, addresses |-> {},
     status |-> NoErrors(GatewayStatusFields), podReady |-> FALSE,
     reworded |-> FALSE,
     saw |-> <<>>]     \* history: the Secrets when each listener was validated

Init ==
    /\ \E s \in Specs : gw = [spec |-> s, generation |-> 1, status |-> NoStatus]
    /\ serviceType \in ServiceTypes
    /\ grants \in GrantSets
    /\ pods = {}
    /\ service = [exists |-> FALSE, addresses |-> {}]
    /\ secrets = Secrets
    /\ routes = [i \in Listeners |-> 0]
    /\ consulUp = TRUE
    /\ changes = 0
    /\ queued = TRUE
    /\ rec = Idle /\ stored = None /\ job = Idle
    /\ lost = FALSE

----------------------------------------------------------------------------
(* Copies of the gateway that are no longer current. *)

Stale(copy) == IF copy.pc \in {"none", "idle"} THEN copy ELSE [copy EXCEPT !.fresh = FALSE]

----------------------------------------------------------------------------
(* The world. *)

Change ==
    /\ changes < MaxChanges
    /\ changes' = changes + 1

EditGateway(s) ==
    /\ Change
    /\ s # gw.spec
    /\ gw' = [gw EXCEPT !.spec = s, !.generation = @ + 1]
    /\ queued' = TRUE
    /\ rec' = Stale(rec) /\ stored' = Stale(stored) /\ job' = Stale(job)
    /\ UNCHANGED <<serviceType, grants, pods, service, secrets, routes, consulUp, lost>>

\* referenceGrantToGatewayRequests: gateways in the namespaces of From are
\* queued; when they cannot be listed, the event is gone.
GrantsChange(gs, listed) ==
    /\ Change
    /\ gs # grants
    /\ grants' = gs
    /\ queued' = (queued \/ listed)
    /\ lost' = (lost \/ ~listed)
    /\ UNCHANGED <<gw, serviceType, pods, service, secrets, routes, consulUp, rec, stored, job>>

\* podToGatewayRequest
PodsChange(ps) ==
    /\ Change
    /\ ps # pods
    /\ pods' = ps
    /\ queued' = TRUE
    /\ UNCHANGED <<gw, serviceType, grants, service, secrets, routes, consulUp, rec, stored, job, lost>>

\* The owned Service gets another address, or is deleted by a user.
ServiceChanges(s) ==
    /\ Change
    /\ service.exists /\ s # service
    /\ service' = s
    /\ queued' = TRUE
    /\ UNCHANGED <<gw, serviceType, grants, pods, secrets, routes, consulUp, rec, stored, job, lost>>

\* A certificate's Secret comes or goes.  It is not owned by the gateway, so
\* that no event follows.
SecretChanges(s) ==
    /\ Change
    /\ secrets' = (secrets \ {s}) \cup ({s} \ secrets)
    /\ UNCHANGED <<gw, serviceType, grants, pods, service, routes, consulUp, queued, rec,
                   stored, job, lost>>

ConsulChanges ==
    /\ Change
    /\ consulUp' = ~consulUp
    /\ UNCHANGED <<gw, serviceType, grants, pods, service, secrets, routes, queued, rec,
                   stored, job, lost>>

----------------------------------------------------------------------------
(* The controller: one reconciliation at a time. *)

Reconcile ==
    /\ queued /\ rec.pc = "idle"
    /\ queued' = FALSE
    /\ rec' = [pc |-> "pods", spec |-> gw.spec, generation |-> gw.generation,
               status |-> gw.status, fresh |-> TRUE,
               version |-> IF stored # None /\ stored.fresh THEN "same" ELSE "newer",
               state |-> InitialGatewayState]
    /\ UNCHANGED <<worldVars, stored, job, lost>>

\* A read fails: the error is returned and the request comes back.
ReadFails ==
    /\ Change
    /\ rec.pc \notin {"idle", "sync"}
    /\ rec' = Idle
    /\ queued' = TRUE
    /\ UNCHANGED <<gw, serviceType, grants, pods, service, secrets, routes, consulUp, stored, job, lost>>

validatePods ==
    /\ rec.pc = "pods"
    /\ rec' = [rec EXCEPT !.pc = "ip",
                          !.state.podReady = PodReady(pods),
                          !.state.status.Scheduled = validatePodConditions(pods)]
    /\ UNCHANGED <<worldVars, queued, stored, job, lost>>

validateIP ==
    /\ rec.pc = "ip"
    /\ LET ip == validateGatewayIP(serviceType, pods, service)
       IN  rec' = [rec EXCEPT !.pc = "listeners",
                              !.state.addresses = ip.addresses,
                              !.state.status.Scheduled = @ \cup ip.errors]
    /\ UNCHANGED <<worldVars, queued, stored, job, lost>>

\* setToCSV lists the protocols of a port in the random order of a Go map, in the
\* message of a protocol conflict and in that of a hostname conflict.
ConflictShuffled(listeners) ==
    \E i \in DOMAIN listeners : "ProtocolConflict" \in listeners[i].status.Conflicted

ShowsConflict(status) ==
    status # NoStatus /\ \E i \in DOMAIN status.listeners :
        status.listeners[i].conditions.Conflicted \in {"HostnameConflict", "ProtocolConflict"}

ShowsSyncError(status) == status # NoStatus /\ status.conditions.InSync = "SyncError"

\* The next listener; after the last one comes the readiness of the gateway.
validateListeners ==
    /\ rec.pc = "listeners"
    /\ LET st == rec.state
           i == Len(st.listeners) + 1
           ls == Append(st.listeners, validateListener(rec.spec, i, grants, secrets))
           done == i = Len(rec.spec.listeners)
           ready == IF done
                    THEN GatewayReadiness(rec.spec, ls, st.podReady, st.addresses # {})
                    ELSE st.status.Ready
       IN  \E reworded \in {FALSE, done /\ ConflictShuffled(ls) /\ ShowsConflict(rec.status)} :
           rec' = [rec EXCEPT
                    !.pc = IF done THEN "upsert" ELSE @,
                    !.state = [st EXCEPT !.listeners = ls, !.saw = Append(@, secrets),
                                         !.reworded = reworded, !.status.Ready = ready]]
    /\ UNCHANGED <<worldVars, queued, stored, job, lost>>

\* Mutant of Accepts: only a newer version is stored.
AcceptsNewer == stored = None \/ rec.version = "newer"

\* The update condition: the stored version is not greater.
Accepts == stored = None \/ rec.version # "older"

\* Binding: a listener that is not ready takes no routes.
Bound(state) ==
    [i \in DOMAIN state.listeners |-> IF state.listeners[i].status.Ready = {} THEN routes[i] ELSE 0]

\* The copy that the store keeps has gone through JSON.
StoredListener(l) == [l EXCEPT !.status = Copied(ListenerStatusFields, @)]

StoredState(state) ==
    [state EXCEPT
        !.status = Copied(GatewayStatusFields, @),
        !.listeners = [i \in DOMAIN @ |-> StoredListener(@[i])]]

Sync(by, g) ==
    [pc |-> "deploy", by |-> by, spec |-> g.spec, generation |-> g.generation,
     status |-> g.status, fresh |-> g.fresh, state |-> g.state, bound |-> g.bound]

\* Store.UpsertGateway takes the lock, binds and stores; the sync of the gateway
\* that was passed in follows.
UpsertGateway ==
    /\ rec.pc = "upsert" /\ job = Idle
    /\ IF Accepts
       THEN LET g == [pc |-> "stored", spec |-> rec.spec, generation |-> rec.generation,
                      status |-> rec.status, fresh |-> rec.fresh,
                      state |-> rec.state, bound |-> Bound(rec.state)]
            IN  /\ stored' = [g EXCEPT !.state = StoredState(@)]
                /\ job' = Sync("reconcile", g)
                /\ rec' = [rec EXCEPT !.pc = "sync"]
       ELSE /\ rec' = Idle
            /\ UNCHANGED <<stored, job>>
    /\ UNCHANGED <<worldVars, queued, lost>>

\* Store.UpsertRoute and DeleteRoute: the route binds or unbinds, and the stored
\* gateway is synced if it did.
RouteChanges(i, n) ==
    /\ Change
    /\ job = Idle
    /\ n # routes[i]
    /\ routes' = [routes EXCEPT ![i] = n]
    /\ IF stored # None /\ stored.state.listeners[i].status.Ready = {}
       THEN LET g == [stored EXCEPT !.bound[i] = n]
            IN  stored' = g /\ job' = Sync("route", g)
       ELSE UNCHANGED <<stored, job>>
    /\ UNCHANGED <<gw, serviceType, grants, pods, service, secrets, consulUp, queued, rec, lost>>

SyncAll ==
    /\ job = Idle /\ stored # None
    /\ job' = Sync("background", stored)
    /\ UNCHANGED <<worldVars, queued, rec, stored, lost>>

----------------------------------------------------------------------------
(* UpdateGatewayStatusOnSync, in the goroutine of whoever has the lock. *)

\* The end of a sync.  An error sends the controller's request back; the others
\* log it (a route's own request comes back, which changes nothing here).
SyncEnds(error) ==
    /\ job' = Idle
    /\ IF job.by = "reconcile"
       THEN rec' = Idle /\ queued' = (queued \/ error)
       ELSE UNCHANGED <<rec, queued>>

\* The Service is created if it is not there; its event comes back.
Deploy ==
    /\ job.pc = "deploy"
    /\ job' = [job EXCEPT !.pc = "consul"]
    /\ IF serviceType # "none" /\ ~service.exists
       THEN /\ service' = [exists |-> TRUE, addresses |-> {}]
            /\ queued' = TRUE
       ELSE UNCHANGED <<service, queued>>
    /\ UNCHANGED <<gw, serviceType, grants, pods, secrets, routes, consulUp, changes, rec,
                   stored, lost>>

DeployFails ==
    /\ Change
    /\ job.pc = "deploy"
    /\ SyncEnds(TRUE)
    /\ UNCHANGED <<gw, serviceType, grants, pods, service, secrets, routes, consulUp, stored, lost>>

\* The result of the adapter's Sync becomes a condition and not an error.  Its
\* message lists the calls that failed, in the order of another map.
SyncConsul ==
    /\ job.pc = "consul"
    /\ \E reworded \in {FALSE, ~consulUp /\ ShowsSyncError(job.status)} :
        job' = [job EXCEPT !.pc = "status",
                           !.state.status.InSync = IF consulUp THEN {} ELSE {"SyncError"},
                           !.state.reworded = @ \/ reworded]
    /\ UNCHANGED <<worldVars, queued, rec, stored, lost>>

\* ListenerState.getStatus
getStatus(protocol, listener, bound) ==
    [conditions |-> Conditions(ListenerStatusFields,
        [listener.status EXCEPT !.Conflicted =
            IF protocol = "TCP" /\ bound > 1 THEN @ \cup {"RouteConflict"} ELSE @]),
     attached |-> bound]

GetStatus(j) ==
    [generation |-> j.generation,
     conditions |-> Conditions(GatewayStatusFields, j.state.status),
     listeners |-> [i \in DOMAIN j.state.listeners |->
        getStatus(j.spec.listeners[i].protocol, j.state.listeners[i], j.bound[i])],
     addresses |-> j.state.addresses,
     reworded |-> j.state.reworded]

\* Mutant of GatewayStatusEqual: the transition times are compared too.
GatewayStatusEqualExact(a, b) == FALSE

\* GatewayStatusEqual, for a new status a and the one b with which the gateway was
\* read: neither timestamps nor addresses are compared.
GatewayStatusEqual(a, b) ==
    /\ a.generation = b.generation      \* of every condition
    /\ a.conditions = b.conditions
    /\ a.listeners = b.listeners
    /\ ~a.reworded                      \* conditionEqual compares messages

\* The status is written if it differs from the one the gateway came with, and
\* the API server takes it if the gateway is still the current version.
UpdateStatus ==
    /\ job.pc = "status"
    /\ LET new == GetStatus(job)
           equal == GatewayStatusEqual(new, job.status)
       IN  IF ~equal /\ job.fresh
           THEN /\ gw' = [gw EXCEPT !.status = [new EXCEPT !.reworded = FALSE]]
                /\ stored' = Stale(stored)
                /\ job' = Idle
                /\ rec' = IF job.by = "reconcile" THEN Idle ELSE Stale(rec)
                /\ queued' = TRUE
           ELSE /\ SyncEnds(~equal)
                /\ UNCHANGED <<gw, stored>>
    /\ UNCHANGED <<serviceType, grants, pods, service, secrets, routes, consulUp, changes, lost>>

UpdateStatusFails ==
    /\ Change
    /\ job.pc = "status" /\ ~GatewayStatusEqual(GetStatus(job), job.status)
    /\ SyncEnds(TRUE)
    /\ UNCHANGED <<gw, serviceType, grants, pods, service, secrets, routes, consulUp, stored, lost>>

----------------------------------------------------------------------------
Controller ==
    \/ Reconcile
    \/ validatePods \/ validateIP \/ validateListeners
    \/ UpsertGateway

Syncing == Deploy \/ SyncConsul \/ UpdateStatus

World ==
    \/ \E s \in Specs : EditGateway(s)
    \/ \E gs \in GrantSets : \E listed \in BOOLEAN : GrantsChange(gs, listed)
    \/ \E ps \in PodSets : PodsChange(ps)
    \/ \E s \in {[exists |-> FALSE, addresses |-> {}]} \cup [exists : {TRUE}, addresses : SUBSET IPs] :
            ServiceChanges(s)
    \/ \E s \in Secrets : SecretChanges(s)
    \/ ConsulChanges
    \/ \E i \in Listeners : \E n \in 0..2 : RouteChanges(i, n)

Next ==
    \/ Controller \/ Syncing \/ SyncAll
    \/ World
    \/ ReadFails \/ DeployFails \/ UpdateStatusFails

\* The controller's worker, the syncs and the background loop are scheduled, and
\* the store's mutex is handed to a waiter in the end (sync.Mutex does not let
\* one starve), although the background loop takes it again and again.
Fairness ==
    /\ WF_vars(Controller) /\ WF_vars(Syncing) /\ WF_vars(SyncAll)
    /\ SF_vars(UpsertGateway)

Spec == Init /\ [][Next]_vars /\ Fairness

----------------------------------------------------------------------------
\* A certificate of another namespace may be fetched only through a grant: when
\* the grant is taken back, the store may still hold the certificate, but never
\* without a request, or a reconciliation that has not yet looked at that
\* listener or has left the certificate out, that will take it away.
RevokedIsPending ==
    stored # None /\ ~lost =>
        \A i \in DOMAIN stored.state.listeners :
            \A c \in stored.state.listeners[i].certs :
                \/ gatewayAllowedForSecretRef(c, grants)
                \/ queued
                \/ rec.pc \in {"pods", "ip", "listeners", "upsert"}
                   /\ (i <= Len(rec.state.listeners) => c \notin rec.state.listeners[i].certs)

\* The binder takes routes on a listener that has no Ready error, and Resolve
\* publishes a listener that is valid: what binds must be published, except for
\* a TCP listener with two routes.
BoundIsPublished ==
    stored # None =>
        \A i \in DOMAIN stored.state.listeners :
            stored.bound[i] > 0 => StatusValid(stored.state.listeners[i].status)

\* What the status should say.
Truthful ==
    /\ gw.status # NoStatus
    /\ gw.status.generation = gw.generation
    /\ \A i \in Listeners :
        LET l == gw.status.listeners[i]
        IN  /\ l.conditions.Ready = Fine <=> Servable(gw.spec, i, grants, stored.state.saw[i])
            /\ l.attached = (IF l.conditions.Ready = Fine THEN routes[i] ELSE 0)
    /\ gw.status.conditions.Ready = Fine <=>
        /\ \A i \in Listeners : gw.status.listeners[i].conditions.Ready = Fine
        /\ \E p \in pods : p.phase = "Running" /\ p.ready
        /\ validateGatewayIP(serviceType, pods, service).addresses # {}
    /\ gw.status.conditions.InSync = Fine <=> consulUp

\* Once users, the cluster and Consul have come to rest, the published status
\* becomes true and stays so, whatever was lost on the way: status writes that
\* conflict, syncs that fail without an error, pods that become ready without
\* the gateway changing.  Only what has no event is left out: the coming and
\* going of certificates, and a grant whose event was lost.
StatusBecomesTrue == <>[](lost \/ Truthful)

\* Every status write is an event that starts another reconciliation: the loop
\* ends, because what is written is compared without its timestamps.  It need not
\* while Consul is down, nor for a gateway with listeners of several protocols on
\* a port: their messages, which are compared, come out of Go maps in another
\* order each time, and every other order is written and starts the next round.
LoopEnds ==
    \/ <>[](~queued /\ rec = Idle)
    \/ []<>(~consulUp)
    \/ []<>(stored # None /\ ConflictShuffled(stored.state.listeners))
=============================================================================
