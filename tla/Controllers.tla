---------------------------- MODULE Controllers ----------------------------
(***************************************************************************)
(* The Kubernetes controllers above the store: the Gateway and route       *)
(* reconcilers (internal/k8s/controllers), the requeueing middleware and   *)
(* the GatewayReconcileManager (internal/k8s/reconciler/manager.go), with  *)
(* the API server and the users who write to it.                           *)
(*                                                                         *)
(* A reconciliation reads its object, and applies what it read later, when *)
(* the object may have changed; an object is reconciled by one worker at a *)
(* time and is queued again by every change.  Writes of statuses are left  *)
(* out: they bump versions but change nothing that is reconciled.          *)
(***************************************************************************)
EXTENDS Store

CONSTANTS
    MaxRevision,    \* bound on the writes to the API server
    MaxRestarts     \* bound on the restarts of the controller

ASSUME ControllersAssumption ==
    MaxRevision \in Nat /\ MaxRestarts \in Nat /\ Gateways \cap Routes = {}

VARIABLES
    revision,       \* the API server's last resource version
    apiGateway,     \* the Gateway objects, or Absent
    apiRoute,       \* the route objects, or Absent
    queue,          \* the gateways and routes waiting to be reconciled
    reading,        \* gateways and routes being reconciled, with what was read
    configured,     \* a configuration is found for the gateways' class
    namespaceMap,   \* the gateways the manager has a Consul namespace for
    deployed,       \* the gateways that have a managed Deployment
    restarts,
    ignored         \* history: gateways whose present value was not taken for ours

apiVars == <<revision, apiGateway, apiRoute, configured>>
controllerVars == <<queue, reading, namespaceMap, deployed, restarts, ignored>>
allVars == <<vars, apiVars, controllerVars>>

Objects == Gateways \cup Routes
NotReading == [busy |-> FALSE, value |-> Absent]
Reading(value) == [busy |-> TRUE, value |-> value]

ControllersInit ==
    /\ Init
    /\ revision = 0
    /\ apiGateway = [g \in Gateways |-> Absent]
    /\ apiRoute = [r \in Routes |-> Absent]
    /\ configured \in BOOLEAN
    /\ queue = {}
    /\ reading = [o \in Objects |-> NotReading]
    /\ namespaceMap = {}
    /\ deployed = {}
    /\ restarts = 0
    /\ ignored = {}

----------------------------------------------------------------------------
(* Users write objects; a write is a watch event, which queues the object. *)

\* An edit keeps the annotation that the controller has put on the object.
WriteGateway(g, gv) ==
    /\ revision < MaxRevision
    /\ gv.version = revision + 1
    /\ gv.annotated = (apiGateway[g] # Absent /\ apiGateway[g].annotated)
    /\ revision' = revision + 1
    /\ apiGateway' = [apiGateway EXCEPT ![g] = gv]
    /\ queue' = queue \cup {g}
    /\ ignored' = ignored \ {g}
    /\ UNCHANGED <<vars, apiRoute, configured, reading, namespaceMap, deployed, restarts>>

RemoveGateway(g) ==
    /\ revision < MaxRevision
    /\ apiGateway[g] # Absent
    /\ revision' = revision + 1
    /\ apiGateway' = [apiGateway EXCEPT ![g] = Absent]
    /\ queue' = queue \cup {g}
    /\ ignored' = ignored \ {g}
    /\ UNCHANGED <<vars, apiRoute, configured, reading, namespaceMap, deployed, restarts>>

WriteRoute(r, rv) ==
    /\ revision < MaxRevision
    /\ rv.version = revision + 1
    /\ revision' = revision + 1
    /\ apiRoute' = [apiRoute EXCEPT ![r] = rv]
    /\ queue' = queue \cup {r}
    /\ UNCHANGED <<vars, apiGateway, configured, reading, namespaceMap, deployed, restarts,
                   ignored>>

RemoveRoute(r) ==
    /\ revision < MaxRevision
    /\ apiRoute[r] # Absent
    /\ revision' = revision + 1
    /\ apiRoute' = [apiRoute EXCEPT ![r] = Absent]
    /\ queue' = queue \cup {r}
    /\ UNCHANGED <<vars, apiGateway, configured, reading, namespaceMap, deployed, restarts,
                   ignored>>

\* The class or its configuration is created, deleted or handed to another
\* controller: no gateway is queued, because neither is watched for gateways.
ClassChanges ==
    /\ configured' = ~configured
    /\ UNCHANGED <<vars, revision, apiGateway, apiRoute, controllerVars>>

\* Kubernetes deletes the Deployment of a deleted Gateway, its owner.
GarbageCollect(g) ==
    /\ g \in deployed
    /\ apiGateway[g] = Absent
    /\ deployed' = deployed \ {g}
    /\ UNCHANGED <<vars, apiVars, queue, reading, namespaceMap, restarts, ignored>>

----------------------------------------------------------------------------
(* Reconcile: the read, and the ways the rest may end. *)

Read(o) ==
    /\ o \in queue
    /\ ~reading[o].busy
    /\ queue' = queue \ {o}
    /\ reading' = [reading EXCEPT ![o] =
                      Reading(IF o \in Gateways THEN apiGateway[o] ELSE apiRoute[o])]
    /\ UNCHANGED <<vars, apiVars, namespaceMap, deployed, restarts, ignored>>

\* Mutant of Finish: an error is not requeued.
FinishForgetting(o, error) ==
    /\ reading[o].busy
    /\ reading' = [reading EXCEPT ![o] = NotReading]
    /\ UNCHANGED queue

\* The end of a reconciliation; an error puts the object back into the queue.
Finish(o, error) ==
    /\ reading[o].busy
    /\ reading' = [reading EXCEPT ![o] = NotReading]
    /\ queue' = IF error THEN queue \cup {o} ELSE queue

\* A call of the Kubernetes or Consul API fails before anything is changed; a
\* gateway that got as far as its validation is in namespaceMap already.
ReconcileFails(o) ==
    /\ Finish(o, TRUE)
    /\ namespaceMap' = IF /\ o \in Gateways
                          /\ reading[o].value # Absent
                          /\ reading[o].value.annotated
                       THEN namespaceMap \cup {o} ELSE namespaceMap
    /\ UNCHANGED <<vars, apiVars, deployed, restarts, ignored>>

\* UpsertGateway of a gateway without the annotation only annotates it, which
\* fails with a conflict if the object has changed since it was read.
AnnotateGateway(g) ==
    /\ reading[g].value # Absent
    /\ ~reading[g].value.annotated
    /\ configured
    /\ IF apiGateway[g] = reading[g].value
       THEN /\ revision' = revision + 1
            /\ apiGateway' = [apiGateway EXCEPT ![g].annotated = TRUE, ![g].version = revision + 1]
            /\ reading' = [reading EXCEPT ![g] = NotReading]
            /\ queue' = queue \cup {g}
       ELSE /\ Finish(g, TRUE)
            /\ UNCHANGED <<revision, apiGateway>>
    /\ UNCHANGED <<vars, apiRoute, configured, namespaceMap, deployed, restarts, ignored>>

\* No configuration is found for such a gateway: it is taken for somebody
\* else's, without an error and so without a requeue.
IgnoreGateway(g) ==
    /\ reading[g].value # Absent
    /\ ~reading[g].value.annotated
    /\ ~configured
    /\ Finish(g, FALSE)
    /\ ignored' = IF apiGateway[g] = reading[g].value THEN ignored \cup {g} ELSE ignored
    /\ UNCHANGED <<vars, apiVars, namespaceMap, deployed, restarts>>

\* UpdateGatewayStatusOnSync, for the gateways of gs: each is deployed before
\* the adapter is called, and one whose deployment fails is not synced at all.
Deploys(gs, ready) ==
    /\ deployed' = deployed \cup ready
    /\ \A g \in gs \ ready : published'[g] = published[g] /\ g \notin insync'

\* UpsertGateway proper.  A failed deployment or status update is an error, a
\* failed Sync is not.
ReconcileGateway(g, ready, error) ==
    /\ reading[g].value # Absent
    /\ reading[g].value.annotated
    /\ Finish(g, error)
    /\ namespaceMap' = namespaceMap \cup {g}
    /\ \E lookup \in [StoredRoutes -> LookupsFor(reading[g].value)] :
           UpsertGateway(g, reading[g].value, lookup)
    /\ Deploys({g}, IF ready THEN {g} ELSE {})
    /\ ready \/ error
    /\ UNCHANGED <<apiVars, restarts, ignored>>

\* The gateway is gone.  Should the store's deletion fail, in the adapter or
\* after it in the update of the routes' statuses, the manager keeps its entry.
ReconcileDeletedGateway(g) ==
    /\ reading[g].busy
    /\ reading[g].value = Absent
    /\ \/ /\ g \in StoredGateways
          /\ DeleteGateway(g)
          /\ namespaceMap' = namespaceMap \ {g}
          /\ Finish(g, FALSE)
       \/ /\ g \notin StoredGateways
          /\ UNCHANGED vars
          /\ namespaceMap' = namespaceMap \ {g}
          /\ Finish(g, FALSE)
       \/ /\ DeleteGateway(g) \/ \E cleared \in BOOLEAN : DeleteGatewayFails(g, cleared)
          /\ Finish(g, TRUE)
          /\ UNCHANGED namespaceMap
    /\ UNCHANGED <<apiVars, deployed, restarts, ignored>>

\* deleteUnmanagedRoute: whether one of the route's parents is a gateway that
\* the manager has met or that has a managed Deployment.
Managed(rv) ==
    \E k \in DOMAIN rv.refs : rv.refs[k].gateway \in namespaceMap \cup deployed

ReconcileRoute(r, error) ==
    /\ reading[r].value # Absent
    /\ Managed(reading[r].value)
    /\ Finish(r, error)
    /\ \E lookup \in RouteLookups, order \in Orders :
           LET synced == BoundGateways(r, reading[r].value, lookup)
           IN /\ UpsertRoute(r, reading[r].value, lookup, order)
              /\ \E ready \in SUBSET synced :
                     Deploys(synced, ready) /\ (ready = synced \/ error)
    /\ UNCHANGED <<apiVars, namespaceMap, restarts, ignored>>

\* The route is gone, or none of its parents is ours: it leaves the store.
ReconcileDeletedRoute(r, error) ==
    /\ reading[r].busy
    /\ reading[r].value # Absent => ~Managed(reading[r].value)
    /\ IF r \in StoredRoutes
       THEN /\ DeleteRoute(r)
            /\ \E ready \in SUBSET UnboundGateways(r) :
                   Deploys(UnboundGateways(r), ready) /\ (ready = UnboundGateways(r) \/ error)
            /\ Finish(r, error)
       ELSE UNCHANGED <<vars, deployed>> /\ Finish(r, FALSE)
    /\ UNCHANGED <<apiVars, namespaceMap, restarts, ignored>>

BackgroundSync ==
    /\ SyncAll
    /\ \E ready \in SUBSET StoredGateways : Deploys(StoredGateways, ready)
    /\ UNCHANGED <<apiVars, queue, reading, namespaceMap, restarts, ignored>>

\* The controller starts anew: store, manager and adapter are empty, and the
\* first listing of the API server queues every object.
Restart ==
    /\ restarts < MaxRestarts
    /\ restarts' = restarts + 1
    /\ gateway' = [g \in Gateways |-> Absent]
    /\ present' = [g \in Gateways |-> NoRoutes]
    /\ route' = [r \in Routes |-> Absent]
    /\ statuses' = [r \in Routes |-> <<>>]
    /\ known' = {}
    /\ insync' = {}
    /\ queue' = {g \in Gateways : apiGateway[g] # Absent} \cup {r \in Routes : apiRoute[r] # Absent}
    /\ reading' = [o \in Objects |-> NotReading]
    /\ namespaceMap' = {}
    /\ ignored' = {}
    /\ UNCHANGED <<apiVars, published, deployed>>

----------------------------------------------------------------------------
Users ==
    \/ \E g \in Gateways, gv \in GatewayValues : WriteGateway(g, gv)
    \/ \E g \in Gateways : RemoveGateway(g)
    \/ \E r \in Routes, rv \in RouteValues : WriteRoute(r, rv)
    \/ \E r \in Routes : RemoveRoute(r)
    \/ ClassChanges

Reconcile ==
    \/ \E o \in Objects : Read(o) \/ ReconcileFails(o)
    \/ \E g \in Gateways :
           \/ AnnotateGateway(g) \/ IgnoreGateway(g)
           \/ \E ready, error \in BOOLEAN : ReconcileGateway(g, ready, error)
           \/ ReconcileDeletedGateway(g)
    \/ \E r \in Routes, error \in BOOLEAN :
           ReconcileRoute(r, error) \/ ReconcileDeletedRoute(r, error)

ControllersNext ==
    \/ Users
    \/ \E g \in Gateways : GarbageCollect(g)
    \/ Reconcile
    \/ BackgroundSync
    \/ Restart

\* Workers take what is queued, a reconciliation that is tried again and again
\* succeeds in the end, and so does the background sync; the garbage collector
\* runs.  Users and crashes owe nothing.
ControllersFairness ==
    /\ \A o \in Objects : WF_allVars(Read(o))
    /\ \A g \in Gateways :
           /\ SF_allVars(AnnotateGateway(g) \/ IgnoreGateway(g))
           /\ SF_allVars(ReconcileGateway(g, TRUE, FALSE))
           /\ SF_allVars(ReconcileDeletedGateway(g) /\ g \notin StoredGateways')
           /\ WF_allVars(GarbageCollect(g))
    /\ \A r \in Routes :
           SF_allVars(ReconcileRoute(r, FALSE) \/ ReconcileDeletedRoute(r, FALSE))
    /\ SF_allVars(BackgroundSync /\ insync' = StoredGateways)

ControllersSpec == ControllersInit /\ [][ControllersNext]_allVars /\ ControllersFairness

----------------------------------------------------------------------------
\* The object's present value is waiting in the queue or being reconciled.
Pending(o, value) ==
    o \in queue \/ (reading[o].busy /\ reading[o].value = value)

\* The exception that the code makes (manager.go, "we don't own the gateway"):
\* a gateway without annotation that was reconciled while no configuration was
\* found for its class is left alone until it is written again or the
\* controller restarts, also when the configuration arrives later.
TakenForOthers(g) ==
    g \in ignored /\ apiGateway[g] # Absent /\ ~apiGateway[g].annotated

\* Nothing outdated is forgotten: a gateway that the store has not got as it is
\* on the API server, and a route that it has in an older version or after its
\* deletion, is on its way to be reconciled, whatever failed, was in flight when
\* the object changed, or was lost in a restart.  Gateways that were taken for
\* those of others are excepted.
OutdatedIsPending ==
    /\ \A g \in Gateways :
           gateway[g] # apiGateway[g] => Pending(g, apiGateway[g]) \/ TakenForOthers(g)
    /\ \A r \in Routes : route[r] \notin {apiRoute[r], Absent} => Pending(r, apiRoute[r])

\* Once users stop writing, the store has the gateways of the API server as
\* they are, except for those that were taken for those of others, and of its
\* routes no outdated or deleted one, and Consul serves what the store says,
\* through failed syncs, failed calls, a restart and a class that comes and goes.
Converges ==
    <>[](/\ \A g \in Gateways : gateway[g] = apiGateway[g] \/ TakenForOthers(g)
         /\ \A r \in Routes : route[r] \in {apiRoute[r], Absent}
         /\ \A g \in StoredGateways : published[g] = Resolve(gateway[g], present[g]))
=============================================================================
