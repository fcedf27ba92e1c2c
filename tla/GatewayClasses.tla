--------------------------- MODULE GatewayClasses ---------------------------
(***************************************************************************)
(* Gateway classes, their configurations and the gateways that take them:  *)
(* three controllers over three objects that refer to each other, a cache  *)
(* of validated classes between them, finalizers that keep a class while   *)
(* a gateway names it and a configuration while a class names it, and the  *)
(* snapshot of the configuration that a gateway is given once and keeps    *)
(* (internal/k8s/reconciler/gatewayclass.go, manager.go,                   *)
(* internal/k8s/controllers/gateway_class_controller.go,                   *)
(* gateway_class_config_controller.go, gateway_controller.go,              *)
(* internal/k8s/gatewayclient/gatewayclient.go).                           *)
(*                                                                         *)
(* One object of each kind.  An update is refused if the copy it is made   *)
(* from is not fresh any more, that is, still the current version.         *)
(***************************************************************************)
EXTENDS Naturals

CONSTANTS
    Configs,        \* contents of configurations
    DefaultConfig,  \* the empty one, of a class without a reference
    MaxChanges      \* bound: changes by users, and faults

ASSUME ConfigsAssumption == Configs # {}

VARIABLES
    config,         \* the GatewayClassConfig in the API server
    class,          \* the GatewayClass in the API server
    gw,             \* the Gateway in the API server
    changes,        \* changes so far
    cache,          \* K8sGatewayClasses: the class as last validated
    configQueue, configRec,     \* the controllers' queues and work under way
    classQueue, classRec,
    gwQueue, gwRec

configWork == <<configQueue, configRec>>
classWork == <<classQueue, classRec>>
gwWork == <<gwQueue, gwRec>>
apiVars == <<config, class, gw>>
vars == <<apiVars, changes, cache, configWork, classWork, gwWork>>

Idle == [pc |-> "idle"]
None == [pc |-> "none"]
NoConfig == [pc |-> "noconfig"]     \* no annotation

Stale(copy) == IF copy.pc \in {"none", "idle"} THEN copy ELSE [copy EXCEPT !.fresh = FALSE]

\* A gateway that names the class; refused is history.
NewGateway == [pc |-> "made", annotation |-> NoConfig, refused |-> FALSE]

\* [finalizer, deleting] of an object: new, seen by an earlier run of the
\* controller, and being deleted since.
Lives == {<<FALSE, FALSE>>, <<TRUE, FALSE>>, <<TRUE, TRUE>>}

\* The controller starts: every object that is there is in its queue.
Init ==
    /\ config \in {None} \cup
            {[pc |-> "made", value |-> CHOOSE c \in Configs : TRUE, deleting |-> l[2],
              finalizer |-> l[1]] : l \in Lives}
    /\ class \in
            {[pc |-> "made", ours |-> o, ref |-> "config", generation |-> 1, status |-> None,
              deleting |-> l[2], finalizer |-> l[1]] : o \in BOOLEAN, l \in Lives}
    /\ ~class.ours => ~class.finalizer
    /\ gw \in {None, NewGateway}
    /\ changes = 0
    /\ cache = None
    /\ configQueue = TRUE /\ classQueue = TRUE /\ gwQueue = TRUE
    /\ configRec = Idle /\ classRec = Idle /\ gwRec = Idle

----------------------------------------------------------------------------
(* The users and the cluster. *)

Change ==
    /\ changes < MaxChanges
    /\ changes' = changes + 1

\* An object that has no finalizer goes at once.
Deleted(o) == IF o.finalizer THEN [o EXCEPT !.deleting = TRUE] ELSE None

CreateConfig(c) ==
    /\ config = None
    /\ config' = [pc |-> "made", value |-> c, deleting |-> FALSE, finalizer |-> FALSE]

EditConfig(c) ==
    /\ config # None /\ c # config.value
    /\ config' = [config EXCEPT !.value = c]

DeleteConfig ==
    /\ config # None /\ ~config.deleting
    /\ config' = Deleted(config)

ConfigChanges ==
    /\ Change
    /\ (\E c \in Configs : CreateConfig(c) \/ EditConfig(c)) \/ DeleteConfig
    /\ configQueue' = TRUE
    /\ configRec' = Stale(configRec)
    /\ UNCHANGED <<class, gw, cache, classWork, gwWork>>

EditClass(ref) ==
    /\ class # None /\ ref # class.ref
    /\ class' = [class EXCEPT !.ref = ref, !.generation = @ + 1]

DeleteClass ==
    /\ class # None /\ ~class.deleting
    /\ class' = Deleted(class)

ClassChanges ==
    /\ Change
    /\ (\E ref \in {"none", "config", "other"} : EditClass(ref)) \/ DeleteClass
    /\ classQueue' = TRUE
    /\ classRec' = Stale(classRec)
    /\ UNCHANGED <<config, gw, cache, configWork, gwWork>>

\* A gateway is created, edited, or deleted (it has no finalizer of ours).
GatewayChanges ==
    /\ Change
    /\ gw' \in (IF gw = None THEN {NewGateway} ELSE {gw, None})
    /\ gwQueue' = TRUE
    /\ gwRec' = Stale(gwRec)
    /\ UNCHANGED <<config, class, cache, configWork, classWork>>

----------------------------------------------------------------------------
(* The controller of configurations. *)

\* History: what holds the content of the configuration, in the cache or on its
\* way there, is not evicted.
Escaped(copy) == IF copy.ref = "config" THEN [copy EXCEPT !.escaped = TRUE] ELSE copy

Escape ==
    /\ cache' = IF cache = None THEN None ELSE Escaped(cache)
    /\ classRec' = IF classRec.pc \in {"upsert", "status"} THEN Escaped(classRec) ELSE classRec

\* For a configuration that is gone there is nothing to do.
ReconcileConfig ==
    /\ configQueue /\ configRec = Idle
    /\ configQueue' = FALSE
    /\ configRec' = CASE config = None -> Idle
                      [] config # None /\ config.deleting -> [pc |-> "inuse", fresh |-> TRUE]
                      [] OTHER -> [pc |-> "list", fresh |-> TRUE]
    /\ IF config = None THEN Escape ELSE UNCHANGED <<cache, classRec>>
    /\ UNCHANGED <<apiVars, changes, classQueue, gwWork>>

\* Mutant of Requeued: a configuration that is in use is not looked at again.
RequeuedNever(used) == FALSE

\* RequeueAfter 10 s
Requeued(used) == used

gatewayClassUsesConfig == class # None /\ class.ref = "config"

GatewayClassConfigInUse ==
    /\ configRec.pc = "inuse"
    /\ configRec' = IF gatewayClassUsesConfig THEN Idle ELSE [configRec EXCEPT !.pc = "release"]
    /\ configQueue' = (configQueue \/ Requeued(gatewayClassUsesConfig))
    /\ UNCHANGED <<apiVars, changes, cache, classWork, gwWork>>

\* RemoveFinalizer and EnsureFinalizer of a configuration.  Removing the last one
\* of an object that is being deleted removes the object.
FinalizeConfig ==
    /\ configRec.pc \in {"release", "finalize"}
    /\ configRec' = Idle
    /\ LET writes == config # None /\ config.finalizer = (configRec.pc = "release")
       IN  /\ config' = CASE ~writes \/ ~configRec.fresh -> config
                          [] writes /\ configRec.fresh /\ configRec.pc = "release" -> None
                          [] OTHER -> [config EXCEPT !.finalizer = TRUE]
           /\ configQueue' = (configQueue \/ writes)   \* its own event, or the error
    /\ UNCHANGED <<class, gw, changes, cache, classWork, gwWork>>

\* The classes that use the configuration are listed ...
GatewayClassesUsingConfig ==
    /\ configRec.pc = "list"
    /\ configRec' = [configRec EXCEPT !.pc = IF gatewayClassUsesConfig THEN "evict" ELSE "finalize"]
    /\ UNCHANGED <<apiVars, changes, cache, configQueue, classWork, gwWork>>

\* K8sGatewayClasses has a mutex, which Upsert keeps while it writes the status.
ClassesLocked == classRec.pc = "status"

\* Mutant of evict: the class stays in the cache.
evictNothing == UNCHANGED <<cache, classRec>>

\* A class that has been validated and not yet stored escapes.
evict ==
    /\ cache' = None
    /\ classRec' = IF classRec.pc = "upsert" THEN [classRec EXCEPT !.escaped = TRUE] ELSE classRec

\* ... and evicted from the cache.
DeleteGatewayClass ==
    /\ configRec.pc = "evict" /\ ~ClassesLocked
    /\ configRec' = [configRec EXCEPT !.pc = "finalize"]
    /\ evict
    /\ UNCHANGED <<apiVars, changes, configQueue, classQueue, gwWork>>

\* A call fails, and the request comes back; but a listing that fails only keeps
\* the classes from being evicted.
ConfigCallFails ==
    /\ Change
    /\ configRec.pc \in {"inuse", "release", "finalize"}
    /\ configRec' = Idle
    /\ configQueue' = TRUE
    /\ UNCHANGED <<apiVars, cache, classWork, gwWork>>

ListingFails ==
    /\ Change
    /\ configRec.pc = "list"
    /\ configRec' = [configRec EXCEPT !.pc = "finalize"]
    /\ Escape
    /\ UNCHANGED <<apiVars, configQueue, classQueue, gwWork>>

----------------------------------------------------------------------------
(* The controller of classes. *)

ReconcileClass ==
    /\ classQueue /\ classRec = Idle
    /\ classQueue' = FALSE
    /\ classRec' =
        LET at(pc) == [pc |-> pc, ref |-> class.ref, generation |-> class.generation,
                       status |-> class.status, finalizer |-> class.finalizer, fresh |-> TRUE,
                       value |-> NoConfig, valid |-> FALSE, escaped |-> FALSE]
        IN  CASE class = None -> [pc |-> "gone", fresh |-> TRUE]
              [] class # None /\ ~class.ours -> Idle
              [] class # None /\ class.ours /\ class.deleting -> at("inuse")
              [] OTHER -> at("finalize")
    /\ UNCHANGED <<apiVars, changes, cache, configWork, gwWork>>

\* A class that has been deleted is dropped from the cache.
ForgetClass ==
    /\ classRec.pc = "gone"
    /\ classRec' = Idle
    /\ cache' = None
    /\ UNCHANGED <<apiVars, changes, configWork, classQueue, gwWork>>

GatewayClassInUse ==
    /\ classRec.pc = "inuse"
    /\ classRec' = IF gw # None THEN Idle ELSE [classRec EXCEPT !.pc = "release"]
    /\ classQueue' = (classQueue \/ Requeued(gw # None))
    /\ UNCHANGED <<apiVars, changes, cache, configWork, gwWork>>

\* RemoveFinalizer, and EnsureFinalizer when there is one to add: then the event
\* of the update goes on.
FinalizeClass ==
    /\ classRec.pc \in {"release", "finalize"}
    /\ classRec.pc = "finalize" => ~classRec.finalizer
    /\ classRec' = Idle
    /\ classQueue' = TRUE
    /\ class' = CASE ~classRec.fresh -> class
                  [] classRec.fresh /\ classRec.pc = "release" -> None
                  [] OTHER -> [class EXCEPT !.finalizer = TRUE]
    /\ UNCHANGED <<config, gw, changes, cache, configWork, gwWork>>

\* What a reference to a configuration gives: a valid class, and its content.
Validated(ref) ==
    CASE ref = "none" -> [valid |-> TRUE, value |-> DefaultConfig]
      [] ref = "config" /\ config # None -> [valid |-> TRUE, value |-> config.value]
      [] OTHER -> [valid |-> FALSE, value |-> NoConfig]

Validate ==
    /\ classRec.pc = "finalize" /\ classRec.finalizer
    /\ classRec' = [classRec EXCEPT !.pc = "upsert",
                                    !.valid = Validated(classRec.ref).valid,
                                    !.value = Validated(classRec.ref).value]
    /\ UNCHANGED <<apiVars, changes, cache, configWork, classQueue, gwQueue,
                   gwRec>>

\* A class's requests are handled one after the other, so that what is cached is
\* never newer.
UpsertClass ==
    /\ classRec.pc = "upsert"
    /\ cache' = [pc |-> "cached", ref |-> classRec.ref, valid |-> classRec.valid,
                 value |-> classRec.value, escaped |-> classRec.escaped]
    /\ classRec' = [classRec EXCEPT !.pc = "status"]
    /\ UNCHANGED <<apiVars, changes, configWork, classQueue, gwWork>>

\* SyncStatus
SyncStatus ==
    /\ classRec.pc = "status"
    /\ classRec' = Idle
    /\ LET status == [pc |-> "status", valid |-> classRec.valid, generation |-> classRec.generation]
       IN  IF status = classRec.status
           THEN UNCHANGED <<class, classQueue>>
           ELSE /\ classQueue' = TRUE
                /\ class' = IF classRec.fresh THEN [class EXCEPT !.status = status] ELSE class
    /\ UNCHANGED <<config, gw, changes, cache, configWork, gwWork>>

ClassCallFails ==
    /\ Change
    /\ classRec.pc \notin {"idle", "gone", "upsert"}
    /\ classRec' = Idle
    /\ classQueue' = TRUE
    /\ UNCHANGED <<apiVars, cache, configWork, gwWork>>

----------------------------------------------------------------------------
(* The controller of gateways. *)

\* A gateway that has gone, or has its snapshot, is the store's business.
ReconcileGateway ==
    /\ gwQueue /\ gwRec = Idle
    /\ gwQueue' = FALSE
    /\ gwRec' = IF gw = None THEN Idle
                ELSE IF gw.annotation # NoConfig THEN Idle
                ELSE [pc |-> "upsert", config |-> NoConfig, fresh |-> TRUE]
    /\ UNCHANGED <<apiVars, changes, cache, configWork, classWork>>

\* The gateway has no annotation yet: its configuration is that of the cached
\* class, if it is valid, or else that of the class and its reference as they are.
GetConfig ==
    /\ gwRec.pc = "upsert" /\ ~ClassesLocked
    /\ gwRec' = IF cache # None /\ cache.valid
                THEN [gwRec EXCEPT !.pc = "annotate", !.config = cache.value]
                ELSE [gwRec EXCEPT !.pc = "lookup"]
    /\ UNCHANGED <<apiVars, changes, cache, configWork, classWork, gwQueue>>

\* GetConfigForGatewayClassName: the class and then its reference are read;
\* without a configuration the gateway is not ours.
Unmanaged ==
    /\ gwRec' = Idle
    /\ gw' = IF gwRec.fresh THEN [gw EXCEPT !.refused = TRUE] ELSE gw

LookUpClass ==
    /\ gwRec.pc = "lookup"
    /\ IF class # None /\ class.ours /\ class.ref # "other"
       THEN /\ gwRec' = IF class.ref = "none"
                        THEN [gwRec EXCEPT !.pc = "annotate", !.config = DefaultConfig]
                        ELSE [gwRec EXCEPT !.pc = "reference"]
            /\ UNCHANGED gw
       ELSE Unmanaged
    /\ UNCHANGED <<config, class, changes, cache, configWork, classWork, gwQueue>>

LookUpConfig ==
    /\ gwRec.pc = "reference"
    /\ IF config # None
       THEN gwRec' = [gwRec EXCEPT !.pc = "annotate", !.config = config.value] /\ UNCHANGED gw
       ELSE Unmanaged
    /\ UNCHANGED <<config, class, changes, cache, configWork, classWork, gwQueue>>

\* The snapshot is written into the gateway, whose event goes on.
Annotate ==
    /\ gwRec.pc = "annotate"
    /\ gwRec' = Idle
    /\ gwQueue' = TRUE
    /\ gw' = IF gwRec.fresh THEN [gw EXCEPT !.annotation = gwRec.config] ELSE gw
    /\ UNCHANGED <<config, class, changes, cache, configWork, classWork>>

GatewayCallFails ==
    /\ Change
    /\ gwRec.pc \in {"lookup", "reference", "annotate"}
    /\ gwRec' = Idle
    /\ gwQueue' = TRUE
    /\ UNCHANGED <<apiVars, cache, configWork, classWork>>

----------------------------------------------------------------------------
ConfigController ==
    \/ ReconcileConfig \/ GatewayClassConfigInUse \/ GatewayClassesUsingConfig
    \/ DeleteGatewayClass \/ FinalizeConfig

ClassController ==
    \/ ReconcileClass \/ ForgetClass \/ GatewayClassInUse \/ FinalizeClass
    \/ Validate \/ UpsertClass \/ SyncStatus

GatewayController ==
    ReconcileGateway \/ GetConfig \/ LookUpClass \/ LookUpConfig \/ Annotate

World == ConfigChanges \/ ClassChanges \/ GatewayChanges

Next ==
    \/ ConfigController \/ ClassController \/ GatewayController
    \/ World
    \/ ConfigCallFails \/ ListingFails \/ ClassCallFails \/ GatewayCallFails

\* The three workers are scheduled, and the mutex does not let a waiter starve.
Fairness ==
    /\ WF_vars(ConfigController) /\ WF_vars(ClassController) /\ WF_vars(GatewayController)
    /\ SF_vars(DeleteGatewayClass) /\ SF_vars(GetConfig)

Spec == Init /\ [][Next]_vars /\ Fairness

----------------------------------------------------------------------------
ClassPending == classQueue \/ classRec # Idle
ConfigPending == configQueue \/ configRec.pc \in {"inuse", "release", "list", "evict"}

\* A new gateway keeps for ever the configuration that the cache gives it, and
\* the cache is filled by one controller and emptied by another: what it holds is
\* what the class refers to now, or an event of the class or of the configuration
\* is on its way.  Three cases are left out, those that have escaped: a class that
\* was validated before its configuration changed and stored after the eviction,
\* an eviction whose listing failed, and a configuration that has gone (deleted
\* before its finalizer was there, or released as a class came to name it), upon
\* which nothing is evicted.
CachedIsCurrent ==
    cache # None /\ cache.valid /\ ~cache.escaped =>
        \/ ClassPending
        \/ /\ class # None /\ class.ref = cache.ref
           /\ cache.ref = "config" =>
                (config # None /\ cache.value = config.value) \/ ConfigPending

\* What is being deleted goes once nothing refers to it: a configuration waits for
\* its class, and the class for its gateway, each asking again every ten seconds.
DeletionsComplete ==
    <>[](/\ config # None /\ config.deleting => gatewayClassUsesConfig
         /\ class # None /\ class.deleting => gw # None)
=============================================================================
