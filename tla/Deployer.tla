------------------------------ MODULE Deployer ------------------------------
(***************************************************************************)
(* What a gateway runs on: the deployer creates or repairs, one after the  *)
(* other, the objects of a gateway in the store, at every sync of it       *)
(* (internal/k8s/reconciler/deployer.go, internal/k8s/builder/gateway.go,  *)
(* pkg/apis/v1alpha1/types.go, internal/k8s/gatewayclient/gatewayclient.go).*)
(*                                                                         *)
(* The objects have the gateway's name.  All but the role and its binding  *)
(* are owned by the gateway, and are collected when it has gone; a gateway *)
(* that is created again is another owner, by its UID, and its pods have   *)
(* other labels, by its time of creation: a uid stands for both.  A        *)
(* gateway comes with the snapshot of its configuration, or with none and  *)
(* then it is not ours: GatewayClasses has how it gets it.  What a sync    *)
(* does after deploying is in GatewayStatus.                               *)
(***************************************************************************)
EXTENDS Integers

CONSTANTS
    Configs,        \* contents of configurations
    Ports,          \* lists of listener ports
    Counts,         \* replica counts that users ask for
    MaxChanges      \* bound: changes by users, and faults

VARIABLES
    gw,             \* the Gateway in the API server
    objects,        \* the objects in the API server, by kind
    uids,           \* gateways created so far
    changes,        \* changes so far
    gwQueue,        \* the gateway is in its controller's work queue
    gwRec,          \* the gateway's reconciliation under way
    stored,         \* the gateway in the store
    job,            \* the sync under way; its owner holds the store's lock
    asked           \* history: the count that a user last asked for, if it must hold

vars == <<gw, objects, uids, changes, gwQueue, gwRec, stored, job, asked>>

Idle == [pc |-> "idle"]
None == [pc |-> "none"]
NoCount == -1                       \* a nil *int32
Nobody == 0                         \* the owner of an object without one
Foreign == -1                       \* an owner that is not a gateway of this name
NoConfig == [pc |-> "noconfig"]     \* no annotation

Owned == {"account", "secret", "deployment", "service"}
Unowned == {"role", "binding"}
Kinds == Owned \cup Unowned

Exists(kind) == objects[kind] # None

Live(uid) == gw # None /\ gw.uid = uid

\* The controller starts; there may already be a service account or a secret of
\* that name.
Init ==
    /\ gw = None
    /\ \E taken \in {{}, {"account"}, {"secret"}} :
        objects = [k \in Kinds |-> IF k \in taken
                                   THEN [pc |-> "made", owner |-> Foreign, intact |-> FALSE]
                                   ELSE None]
    /\ uids = 0
    /\ changes = 0
    /\ gwQueue = FALSE
    /\ gwRec = Idle /\ stored = None /\ job = Idle
    /\ asked = NoCount

----------------------------------------------------------------------------
Change ==
    /\ changes < MaxChanges
    /\ changes' = changes + 1

----------------------------------------------------------------------------
(* The builders. *)

\* The minimum is applied last.
instances(config, current) ==
    LET start == CASE current # NoCount -> current
                   [] current = NoCount /\ config.default # NoCount -> config.default
                   [] OTHER -> 1
        capped == IF config.max # NoCount /\ start > config.max THEN config.max ELSE start
    IN  IF config.min # NoCount /\ capped < config.min THEN config.min ELSE capped

\* The pod template, with its labels, is a function of the gateway, the
\* configuration and the ports; the selector of the deployment is those labels.
Deployment(uid, config, ports, current) ==
    [pc |-> "made", owner |-> Nobody, selector |-> uid,
     template |-> [labels |-> uid, config |-> config, ports |-> ports],
     replicas |-> instances(config, current)]

ServiceAccountFor(config) == config.managed
RoleFor(config) == config.managed /\ config.podSecurityPolicy
RequiresCA(config) == config.scheme = "https"
HasService(config) == config.serviceType # "none"

\* MergeDeployment: the template counts as changed only if its ports have.
MergeDeployment(a, b) ==
    IF a.template.ports = b.template.ports /\ a.replicas = b.replicas THEN b
    ELSE [b EXCEPT !.template = a.template, !.replicas = a.replicas]

----------------------------------------------------------------------------
(* The API server. *)

\* CreateOrUpdate of an owned object: it is created, or merged and written if
\* that changes it; either comes back as an event of the gateway.
Write(kind, o) ==
    /\ objects' = [objects EXCEPT ![kind] = o]
    /\ gwQueue' = (gwQueue \/ o # objects[kind])

\* SetControllerReference compares the group, the kind and the name of the owner:
\* an object of an earlier gateway of this name becomes the new one's.
OwnedByOther(kind) == Exists(kind) /\ objects[kind].owner = Foreign

\* The API server refuses a deployment that does not select its own pods; the
\* selector cannot be changed.
Admitted(deployment) == deployment.selector = deployment.template.labels

----------------------------------------------------------------------------
(* Deploy. *)

\* The end of a sync.  An error sends the controller's request back; the
\* background loop logs it.
SyncEnds(error) ==
    /\ job' = Idle
    /\ IF job.by = "reconcile"
       THEN gwRec' = Idle /\ gwQueue' = (gwQueue \/ error)
       ELSE UNCHANGED <<gwRec, gwQueue>>

Sync(by, g) ==
    [pc |-> "account", by |-> by, uid |-> g.uid, config |-> g.config, ports |-> g.ports,
     current |-> NoCount]

Goto(pc) == job' = [job EXCEPT !.pc = pc]

\* EnsureServiceAccount
ensureServiceAccount ==
    /\ job.pc = "account"
    /\ \/ /\ ~ServiceAccountFor(job.config)
          /\ Goto("secret")
          /\ UNCHANGED <<objects, gwRec, gwQueue>>
       \/ /\ ServiceAccountFor(job.config) /\ ~Exists("account")
          /\ Write("account", [pc |-> "made", owner |-> job.uid])
          /\ Goto("role")
          /\ UNCHANGED gwRec
       \/ /\ ServiceAccountFor(job.config) /\ Exists("account")
          /\ objects["account"].owner = job.uid
          /\ Goto("role")
          /\ UNCHANGED <<objects, gwRec, gwQueue>>
       \/ /\ ServiceAccountFor(job.config) /\ Exists("account")
          /\ objects["account"].owner # job.uid
          /\ SyncEnds(TRUE)
          /\ UNCHANGED objects

\* The role and then its binding, without an owner.
ensureRole ==
    /\ job.pc \in {"role", "binding"}
    /\ IF RoleFor(job.config)
       THEN objects' = [objects EXCEPT ![job.pc] = [pc |-> "made", owner |-> Nobody]]
       ELSE UNCHANGED objects
    /\ Goto(IF job.pc = "role" /\ RoleFor(job.config) THEN "binding" ELSE "secret")
    /\ UNCHANGED <<gwRec, gwQueue>>

\* The CA's certificate is put back if it was changed.
ensureSecret ==
    /\ job.pc = "secret"
    /\ \/ /\ ~RequiresCA(job.config)
          /\ Goto("read")
          /\ UNCHANGED <<objects, gwRec, gwQueue>>
       \/ /\ RequiresCA(job.config) /\ ~OwnedByOther("secret")
          /\ Write("secret", [pc |-> "made", owner |-> job.uid, intact |-> TRUE])
          /\ Goto("read")
          /\ UNCHANGED gwRec
       \/ /\ RequiresCA(job.config) /\ OwnedByOther("secret")
          /\ SyncEnds(TRUE)
          /\ UNCHANGED objects

\* Mutant of currentReplicas: the deployment that is there is not looked at.
currentReplicasNever == NoCount

currentReplicas == IF Exists("deployment") THEN objects["deployment"].replicas ELSE NoCount

\* ensureDeployment reads the count first ...
readReplicas ==
    /\ job.pc = "read"
    /\ job' = [job EXCEPT !.pc = "deployment", !.current = currentReplicas]
    /\ UNCHANGED <<objects, gwRec, gwQueue>>

\* ... and CreateOrUpdate reads the deployment again.
ensureDeployment ==
    /\ job.pc = "deployment"
    /\ LET built == Deployment(job.uid, job.config, job.ports, job.current)
           merged == IF Exists("deployment") THEN MergeDeployment(built, objects["deployment"])
                     ELSE built
       IN  IF OwnedByOther("deployment") \/ ~Admitted(merged)
           THEN SyncEnds(TRUE) /\ UNCHANGED objects
           ELSE /\ Write("deployment", [merged EXCEPT !.owner = job.uid])
                /\ Goto("service")
                /\ UNCHANGED gwRec

\* MergeService: the ports are put back if they differ, the selector stays.
ensureService ==
    /\ job.pc = "service"
    /\ \/ /\ ~HasService(job.config)
          /\ SyncEnds(FALSE)
          /\ UNCHANGED objects
       \/ /\ HasService(job.config) /\ OwnedByOther("service")
          /\ SyncEnds(TRUE)
          /\ UNCHANGED objects
       \/ /\ HasService(job.config) /\ ~OwnedByOther("service")
          /\ Write("service",
                   [pc |-> "made", owner |-> job.uid, ports |-> job.ports,
                    selector |-> IF Exists("service") THEN objects["service"].selector ELSE job.uid])
          /\ job' = Idle
          /\ gwRec' = IF job.by = "reconcile" THEN Idle ELSE gwRec

Deploy ==
    /\ \/ ensureServiceAccount \/ ensureRole \/ ensureSecret
       \/ readReplicas \/ ensureDeployment \/ ensureService
    /\ UNCHANGED <<gw, uids, changes, stored, asked>>

\* A call to Kubernetes, or to Consul for the namespace, fails.
DeployFails ==
    /\ Change
    /\ job # Idle
    /\ SyncEnds(TRUE)
    /\ UNCHANGED <<gw, objects, uids, stored, asked>>

----------------------------------------------------------------------------
(* The controller of gateways, and the background loop. *)

Reconcile ==
    /\ gwQueue /\ gwRec = Idle
    /\ gwQueue' = FALSE
    /\ gwRec' = IF gw = None THEN [pc |-> "gone"]
                ELSE [pc |-> "upsert", uid |-> gw.uid, config |-> gw.config, ports |-> gw.ports]
    /\ UNCHANGED <<gw, objects, uids, changes, stored, job, asked>>

\* Store.DeleteGateway
DeleteGateway ==
    /\ gwRec.pc = "gone" /\ job = Idle
    /\ gwRec' = Idle
    /\ stored' = None
    /\ UNCHANGED <<gw, objects, uids, changes, gwQueue, job, asked>>

DeleteGatewayFails ==
    /\ Change
    /\ gwRec.pc = "gone" /\ job = Idle
    /\ gwRec' = Idle
    /\ gwQueue' = TRUE
    /\ UNCHANGED <<gw, objects, uids, stored, job, asked>>

\* A gateway that is not ours is left alone, and so is one that is still stored
\* under its name.
UpsertUnmanaged ==
    /\ gwRec.pc = "upsert" /\ gwRec.config = NoConfig
    /\ gwRec' = Idle
    /\ UNCHANGED <<gw, objects, uids, changes, gwQueue, stored, job, asked>>

\* Store.UpsertGateway: a name's requests are handled one after the other, so that
\* the stored version is never newer.
UpsertGateway ==
    /\ gwRec.pc = "upsert" /\ gwRec.config # NoConfig /\ job = Idle
    /\ stored' = [pc |-> "stored", uid |-> gwRec.uid, config |-> gwRec.config, ports |-> gwRec.ports]
    /\ job' = Sync("reconcile", stored')
    /\ gwRec' = [pc |-> "sync"]
    /\ UNCHANGED <<gw, objects, uids, changes, gwQueue, asked>>

\* SyncAllAtInterval
SyncAll ==
    /\ job = Idle /\ stored # None
    /\ job' = Sync("background", stored)
    /\ UNCHANGED <<gw, objects, uids, changes, gwQueue, gwRec, stored, asked>>

----------------------------------------------------------------------------
(* The users and the cluster. *)

CreateGateway(config, ports) ==
    /\ gw = None
    /\ gw' = [pc |-> "made", uid |-> uids + 1, config |-> config, ports |-> ports]
    /\ uids' = uids + 1

EditGateway(ports) ==
    /\ gw # None /\ ports # gw.ports
    /\ gw' = [gw EXCEPT !.ports = ports]
    /\ UNCHANGED uids

DeleteObject ==
    /\ gw # None
    /\ gw' = None
    /\ UNCHANGED uids

GatewayChanges ==
    /\ Change
    /\ \/ \E c \in Configs \cup {NoConfig} : CreateGateway(c, CHOOSE p \in Ports : TRUE)
       \/ \E p \in Ports : EditGateway(p)
       \/ DeleteObject
    /\ gwQueue' = TRUE
    /\ asked' = IF gw' = None THEN NoCount ELSE asked
    /\ UNCHANGED <<objects, gwRec, stored, job>>

\* kubectl scale.  A sync that has read the count and not yet written it undoes
\* this: then nothing is promised.
Scale(n) ==
    /\ Change
    /\ Exists("deployment") /\ n # objects["deployment"].replicas
    /\ objects' = [objects EXCEPT !["deployment"].replicas = n]
    /\ gwQueue' = TRUE
    /\ asked' = IF job.pc # "deployment" /\ Live(objects["deployment"].owner) THEN n ELSE NoCount
    /\ UNCHANGED <<gw, uids, gwRec, stored, job>>

\* Someone deletes an owned object, or changes it.
Tamper(kind) ==
    /\ Change
    /\ Exists(kind)
    /\ objects' = [objects EXCEPT ![kind] =
                    IF kind = "secret" THEN [@ EXCEPT !.intact = FALSE] ELSE None]
    /\ asked' = IF kind = "deployment" THEN NoCount ELSE asked
    /\ gwQueue' = TRUE
    /\ UNCHANGED <<gw, uids, gwRec, stored, job>>

\* The garbage collector takes what a gateway that has gone owned.
Collect(kind) ==
    /\ Exists(kind) /\ objects[kind].owner \notin {Nobody, Foreign}
    /\ ~Live(objects[kind].owner)
    /\ objects' = [objects EXCEPT ![kind] = None]
    /\ gwQueue' = TRUE
    /\ UNCHANGED <<gw, uids, changes, gwRec, stored, job, asked>>

----------------------------------------------------------------------------
Controller == Reconcile \/ DeleteGateway \/ UpsertUnmanaged \/ UpsertGateway

Collecting == \E k \in Owned : Collect(k)

World ==
    \/ GatewayChanges
    \/ \E n \in Counts : Scale(n)
    \/ \E k \in Owned : Tamper(k)

Next ==
    \/ Controller \/ Deploy \/ SyncAll \/ Collecting
    \/ World
    \/ DeleteGatewayFails \/ DeployFails

\* The worker, the sync, the background loop and the garbage collector are
\* scheduled, and the store's mutex does not let a waiter starve.
Fairness ==
    /\ WF_vars(Controller) /\ WF_vars(Deploy) /\ WF_vars(SyncAll) /\ WF_vars(Collecting)
    /\ SF_vars(UpsertGateway) /\ SF_vars(DeleteGateway)

Spec == Init /\ [][Next]_vars /\ Fairness

----------------------------------------------------------------------------
\* Objects of someone else's are in the way.
Taken ==
    \/ ServiceAccountFor(gw.config) /\ OwnedByOther("account")
    \/ RequiresCA(gw.config) /\ OwnedByOther("secret")

\* The deployment was made for an earlier gateway of this name, and the present
\* one has taken it over before it was collected.
Inherited ==
    LET d == objects["deployment"]
    IN  Exists("deployment") /\ d.owner = gw.uid /\ d.selector # gw.uid

Running(uid, config, ports) ==
    LET d == objects["deployment"]
    IN  /\ Exists("deployment") /\ d.owner = uid
        /\ d.template = [labels |-> uid, config |-> config, ports |-> ports]
        /\ config.min # NoCount => d.replicas >= config.min
        /\ config.max # NoCount /\ config.max >= config.min => d.replicas <= config.max
        /\ asked # NoCount /\ (config.min # NoCount => asked >= config.min)
                           /\ (config.max # NoCount => asked <= config.max) => d.replicas = asked
        /\ HasService(config) => /\ Exists("service") /\ objects["service"].owner = uid
                                 /\ objects["service"].ports = ports
        /\ RequiresCA(config) => Exists("secret") /\ objects["secret"].intact

\* Once users have come to rest, a gateway runs on what its own specification and
\* the snapshot of its configuration ask for, with the number of instances that a
\* user has set within the limits, whatever was done to the objects; what an
\* earlier gateway of that name has left, and what the store has gone on deploying
\* for it, neither keeps the gateway from being deployed nor stays for ever.
\* Left out: a gateway that is not ours, objects of someone else's, a count that
\* was set while a sync was between reading and writing it, and a deployment of an
\* earlier gateway that the present one has taken over: it keeps its old template,
\* and no other can be given to it.  A service that was taken over keeps its old
\* selector, of which nothing is said here.
DeployedAsWanted ==
    <>[](IF gw = None THEN \A k \in Owned : Exists(k) => objects[k].owner = Foreign
         ELSE gw.config = NoConfig \/ Taken \/ Inherited \/ Running(gw.uid, gw.config, gw.ports))
=============================================================================
