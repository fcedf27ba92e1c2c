------------------------ MODULE GatewayClassesProofs ------------------------
(***************************************************************************)
(* Proofs about GatewayClasses, for any configurations and any number of   *)
(* changes and faults: what the cache of classes holds is what the class   *)
(* refers to, or an event is on its way.                                   *)
(***************************************************************************)
EXTENDS GatewayClasses, TLAPS

Refs == {"none", "config", "other"}
Values == Configs \cup {DefaultConfig, NoConfig}
Statuses == {None} \cup [pc : {"status"}, valid : BOOLEAN, generation : Nat]

\* Reconciliations under way: of a configuration, of a class that is not there
\* and of one that is.
ConfigWork == [pc : {"inuse", "release", "list", "evict", "finalize"}, fresh : BOOLEAN]
GoneWork == [pc : {"gone"}, fresh : BOOLEAN]
ClassWork ==
    [pc : {"inuse", "release", "finalize", "upsert", "status"}, ref : Refs, generation : Nat,
     status : Statuses, finalizer : BOOLEAN, fresh : BOOLEAN, value : Values,
     valid : BOOLEAN, escaped : BOOLEAN]

Types ==
    /\ config \in {None} \cup
            [pc : {"made"}, value : Configs, deleting : BOOLEAN, finalizer : BOOLEAN]
    /\ class \in {None} \cup
            [pc : {"made"}, ours : BOOLEAN, ref : Refs, generation : Nat, status : Statuses,
             deleting : BOOLEAN, finalizer : BOOLEAN]
    /\ cache \in {None} \cup
            [pc : {"cached"}, ref : Refs, valid : BOOLEAN, value : Values, escaped : BOOLEAN]
    /\ configQueue \in BOOLEAN /\ classQueue \in BOOLEAN
    /\ configRec \in {Idle} \cup ConfigWork
    /\ classRec \in {Idle} \cup GoneWork \cup ClassWork

\* A reconciliation of the class that has read it.
ReadClass == classRec.pc \notin {"idle", "gone"}

\* Only the controller of configurations ends a deletion, so that what it has
\* found being deleted is still there.
Dying ==
    /\ config # None /\ config.deleting => config.finalizer
    /\ configRec.pc \in {"inuse", "release"} => config # None /\ config.deleting

\* Only a class of this controller is validated and cached.
Owned == (cache # None \/ ReadClass) /\ class # None => class.ours

\* A change of the class since it was read has queued it.
ReadIsCurrent ==
    /\ ReadClass /\ ~classQueue => class # None /\ class.ref = classRec.ref
    /\ ReadClass /\ classRec.fresh => class # None

\* The value that a copy of the class has of its configuration is the current
\* one, or the copy is about to be evicted.
Right(copy) ==
    copy.valid /\ ~copy.escaped /\ copy.ref = "config" =>
        (config # None /\ copy.value = config.value) \/ ConfigPending

ValidatedIsCurrent == classRec.pc \in {"upsert", "status"} /\ ~classQueue => Right(classRec)

\* While the status is written, the mutex keeps the class in the cache as it was
\* validated.
CachedAsValidated ==
    classRec.pc = "status" /\ cache # None =>
        /\ cache.ref = classRec.ref /\ cache.valid = classRec.valid
        /\ cache.value = classRec.value /\ cache.escaped = classRec.escaped

Caching ==
    /\ Types /\ Dying /\ Owned /\ ReadIsCurrent
    /\ ValidatedIsCurrent /\ CachedAsValidated /\ CachedIsCurrent

----------------------------------------------------------------------------
(* Types. *)

\* The copies keep their shapes when they become stale.
LEMMA StaleConfig ==
    ASSUME NEW r \in {Idle} \cup ConfigWork
    PROVE  Stale(r) \in {Idle} \cup ConfigWork /\ Stale(r).pc = r.pc
<1>1. CASE r = Idle
    BY <1>1 DEF Stale, Idle
<1>2. CASE r \in ConfigWork
    <2>1. Stale(r) = [r EXCEPT !.fresh = FALSE]
        BY <1>2 DEF ConfigWork, Stale
    <2> QED BY <1>2, <2>1 DEF ConfigWork
<1> QED BY <1>1, <1>2

\* What a stale copy of the class keeps of it.
SameRead(r, s) ==
    /\ s.pc = r.pc /\ s.ref = r.ref
    /\ s.value = r.value /\ s.valid = r.valid /\ s.escaped = r.escaped

LEMMA StaleClass ==
    ASSUME NEW r \in {Idle} \cup GoneWork \cup ClassWork
    PROVE  /\ Stale(r) \in {Idle} \cup GoneWork \cup ClassWork
           /\ Stale(r).pc = r.pc
           /\ r \in ClassWork => SameRead(r, Stale(r)) /\ ~Stale(r).fresh
<1>1. CASE r = Idle
    BY <1>1 DEF Stale, Idle, ClassWork
<1>2. CASE r \in GoneWork
    <2>1. Stale(r) = [r EXCEPT !.fresh = FALSE]
        BY <1>2 DEF GoneWork, Stale
    <2> QED BY <1>2, <2>1 DEF GoneWork, ClassWork
<1>3. CASE r \in ClassWork
    <2>1. Stale(r) = [r EXCEPT !.fresh = FALSE]
        BY <1>3 DEF ClassWork, Stale
    <2> QED BY <1>3, <2>1 DEF ClassWork, SameRead
<1> QED BY <1>1, <1>2, <1>3

\* Where the reconciliations are tells what they hold.
LEMMA Shapes ==
    ASSUME Types
    PROVE  /\ configRec.pc = "idle" <=> configRec = Idle
           /\ configRec.pc # "idle" => configRec \in ConfigWork
           /\ classRec.pc = "idle" <=> classRec = Idle
           /\ ReadClass <=> classRec \in ClassWork
           /\ classRec.pc # "idle" <=> classRec # Idle
BY DEF Types, Idle, ConfigWork, GoneWork, ClassWork, ReadClass

----------------------------------------------------------------------------
(* The controller of configurations. *)

\* A step of this controller, or of a user, that leaves the class and its copies
\* alone: if the class refers to the configuration, then after the step the
\* configuration is pending, or it was not before and its content, if it was
\* there, is the same.
LEMMA ConfigFrame ==
    ASSUME Caching, Types', Dying', UNCHANGED <<class, cache, classWork>>,
           gatewayClassUsesConfig =>
               \/ ConfigPending'
               \/ /\ ~ConfigPending
                  /\ config # None => config' # None /\ config'.value = config.value
    PROVE  Caching'
<1>1. UNCHANGED <<class, cache, classQueue, classRec>>
    BY DEF classWork
<1>2. Owned' /\ ReadIsCurrent' /\ CachedAsValidated'
    BY <1>1 DEF Caching, Owned, ReadIsCurrent, CachedAsValidated, ReadClass
<1>3. ValidatedIsCurrent'
    <2>1. SUFFICES ASSUME classRec.pc \in {"upsert", "status"}, ~classQueue,
                          classRec.ref = "config"
                   PROVE  Right(classRec)'
        BY <1>1 DEF ValidatedIsCurrent, Right
    <2>2. gatewayClassUsesConfig /\ Right(classRec)
        BY <2>1 DEF Caching, ReadIsCurrent, ReadClass, ValidatedIsCurrent, gatewayClassUsesConfig
    <2> QED BY <1>1, <2>2 DEF Right
<1>4. CachedIsCurrent'
    BY <1>1 DEF Caching, CachedIsCurrent, ClassPending, gatewayClassUsesConfig
<1> QED BY <1>2, <1>3, <1>4 DEF Caching

\* A user creates, edits or deletes the configuration.
LEMMA ConfigChangesStep == ASSUME Caching, ConfigChanges PROVE Caching'
<1>1. /\ configQueue' = TRUE /\ configRec' = Stale(configRec)
      /\ UNCHANGED <<class, cache, classWork>>
      /\ (\E c \in Configs : CreateConfig(c) \/ EditConfig(c)) \/ DeleteConfig
    BY DEF ConfigChanges
<1>2. /\ configRec' \in {Idle} \cup ConfigWork
      /\ configRec'.pc = configRec.pc
    BY <1>1, StaleConfig DEF Caching, Types
<1>3. /\ config' \in {None} \cup
            [pc : {"made"}, value : Configs, deleting : BOOLEAN, finalizer : BOOLEAN]
      /\ config' # None /\ config'.deleting => config'.finalizer
      /\ config # None /\ config.deleting => config' # None /\ config'.deleting
    <2>1. CASE \E c \in Configs : CreateConfig(c)
        BY <2>1 DEF CreateConfig, None
    <2>2. CASE \E c \in Configs : EditConfig(c)
        <3>1. PICK c \in Configs : EditConfig(c)
            BY <2>2
        <3>2. config \in [pc : {"made"}, value : Configs, deleting : BOOLEAN, finalizer : BOOLEAN]
            BY <3>1 DEF EditConfig, Caching, Types
        <3>3. config.deleting => config.finalizer
            BY <3>1 DEF EditConfig, Caching, Dying
        <3> QED BY <3>1, <3>2, <3>3 DEF EditConfig, None
    <2>3. CASE DeleteConfig
        <3>1. config \in [pc : {"made"}, value : Configs, deleting : BOOLEAN, finalizer : BOOLEAN]
            BY <2>3 DEF DeleteConfig, Caching, Types
        <3> QED BY <2>3, <3>1 DEF DeleteConfig, Deleted, None
    <2> QED BY <1>1, <2>1, <2>2, <2>3
<1>4. Types'
    BY <1>1, <1>2, <1>3 DEF Caching, Types, classWork
<1>5. Dying'
    BY <1>2, <1>3 DEF Caching, Dying
<1> QED BY <1>1, <1>4, <1>5, ConfigFrame DEF ConfigPending

\* The class escapes: a copy of it that has been validated is marked.
LEMMA EscapedClass ==
    ASSUME NEW r \in {Idle} \cup GoneWork \cup ClassWork, r.pc \in {"upsert", "status"}
    PROVE  LET s == [r EXCEPT !.escaped = TRUE]
           IN  s \in ClassWork /\ s.pc = r.pc /\ s.ref = r.ref /\ s.value = r.value
               /\ s.valid = r.valid /\ s.escaped = TRUE /\ s.fresh = r.fresh
<1>1. r \in ClassWork
    BY DEF Idle, GoneWork
<1> QED BY <1>1 DEF ClassWork

\* A step of this controller by which the copies of a class that refers to the
\* configuration escape.
LEMMA EscapeFrame ==
    ASSUME Caching, Escape, UNCHANGED <<config, class, classQueue>>,
           configQueue' \in BOOLEAN, configRec' \in {Idle} \cup ConfigWork, Dying'
    PROVE  Caching'
<1>1. /\ cache' = IF cache = None THEN None ELSE Escaped(cache)
      /\ classRec' = IF classRec.pc \in {"upsert", "status"} THEN Escaped(classRec) ELSE classRec
    BY DEF Escape
<1>2. /\ classRec' \in {Idle} \cup GoneWork \cup ClassWork
      /\ classRec'.pc = classRec.pc /\ classRec'.ref = classRec.ref
      /\ classRec'.fresh = classRec.fresh
    BY <1>1, EscapedClass DEF Caching, Types, Escaped
<1>3. ASSUME classRec.pc \in {"upsert", "status"}
      PROVE  /\ classRec'.valid = classRec.valid /\ classRec'.value = classRec.value
             /\ classRec'.escaped = IF classRec.ref = "config" THEN TRUE ELSE classRec.escaped
    BY <1>1, <1>3, EscapedClass DEF Caching, Types, Escaped
<1>4. cache' # None <=> cache # None
    BY <1>1 DEF Caching, Types, Escaped, None
<1>5. ASSUME cache # None
      PROVE  /\ cache' \in [pc : {"cached"}, ref : Refs, valid : BOOLEAN, value : Values,
                             escaped : BOOLEAN]
             /\ cache'.ref = cache.ref /\ cache'.valid = cache.valid /\ cache'.value = cache.value
             /\ cache'.escaped = IF cache.ref = "config" THEN TRUE ELSE cache.escaped
    BY <1>1, <1>5 DEF Caching, Types, Escaped
<1>6. Types' /\ Owned' /\ ReadIsCurrent'
    BY <1>2, <1>4, <1>5 DEF Caching, Types, Owned, ReadIsCurrent, ReadClass
<1>7. CachedAsValidated'
    BY <1>2, <1>3, <1>4, <1>5 DEF Caching, CachedAsValidated
<1>8. ValidatedIsCurrent'
    BY <1>2, <1>3 DEF ValidatedIsCurrent, Right
<1>9. CachedIsCurrent'
    <2>1. classRec' # Idle <=> classRec # Idle
        BY <1>2, <1>6, Shapes DEF Caching, Idle, Types, GoneWork, ClassWork
    <2> QED BY <1>4, <1>5, <2>1 DEF Caching, CachedIsCurrent, ClassPending
<1> QED BY <1>6, <1>7, <1>8, <1>9 DEF Caching

\* A reconciliation starts with the configuration as it is.
LEMMA ReconcileConfigStep == ASSUME Caching, ReconcileConfig PROVE Caching'
<1>1. UNCHANGED <<config, class, classQueue>> /\ configQueue' = FALSE
    BY DEF ReconcileConfig, apiVars
<1>2. configRec' = IF config = None THEN Idle
                   ELSE IF config.deleting THEN [pc |-> "inuse", fresh |-> TRUE]
                   ELSE [pc |-> "list", fresh |-> TRUE]
    BY DEF ReconcileConfig
<1>3. configRec' \in {Idle} \cup ConfigWork
    BY <1>2 DEF ConfigWork
<1>4. Dying'
    BY <1>1, <1>2 DEF Caching, Dying, Idle
<1>5. CASE config = None
    <2>1. Escape
        BY <1>5 DEF ReconcileConfig
    <2> QED BY <1>1, <1>3, <1>4, <2>1, EscapeFrame
<1>6. CASE config # None
    <2>1. UNCHANGED <<cache, classRec>>
        BY <1>6 DEF ReconcileConfig
    <2>2. Types'
        BY <1>1, <1>3, <2>1 DEF Caching, Types
    <2>3. ConfigPending'
        BY <1>2, <1>6 DEF ConfigPending
    <2> QED BY <1>1, <1>4, <2>1, <2>2, <2>3, ConfigFrame DEF classWork
<1> QED BY <1>5, <1>6

\* A configuration that is being deleted is asked about: it is queued again, or
\* its finalizer is to be removed.
LEMMA ConfigInUseStep == ASSUME Caching, GatewayClassConfigInUse PROVE Caching'
<1>1. UNCHANGED <<config, class, cache, classQueue, classRec>> /\ configRec.pc = "inuse"
    BY DEF GatewayClassConfigInUse, apiVars, classWork
<1>2. configQueue' \in BOOLEAN
    BY DEF GatewayClassConfigInUse, Caching, Types, Requeued, gatewayClassUsesConfig
<1>3. \/ configRec' = Idle /\ configQueue'
      \/ configRec' \in ConfigWork /\ configRec'.pc = "release"
    BY <1>1, Shapes DEF GatewayClassConfigInUse, Requeued, Caching, ConfigWork
<1>4. Types'
    BY <1>1, <1>2, <1>3 DEF Caching, Types
<1>5. Dying' /\ ConfigPending'
    BY <1>1, <1>3 DEF Caching, Dying, Idle, ConfigPending
<1> QED BY <1>1, <1>4, <1>5, ConfigFrame DEF classWork

\* Without a class that uses it, the configuration needs no eviction.
LEMMA UsingConfigStep == ASSUME Caching, GatewayClassesUsingConfig PROVE Caching'
<1>1. /\ UNCHANGED <<config, class, cache, classQueue, classRec, configQueue>>
      /\ configRec.pc = "list"
    BY DEF GatewayClassesUsingConfig, apiVars, classWork
<1>2. /\ configRec' \in ConfigWork
      /\ configRec'.pc = IF gatewayClassUsesConfig THEN "evict" ELSE "finalize"
    BY <1>1, Shapes DEF GatewayClassesUsingConfig, Caching, ConfigWork
<1>3. Types' /\ Dying'
    BY <1>1, <1>2 DEF Caching, Types, Dying
<1>4. gatewayClassUsesConfig => ConfigPending'
    BY <1>2 DEF ConfigPending
<1> QED BY <1>1, <1>3, <1>4, ConfigFrame DEF classWork

\* The finalizer of the configuration is written: what was found being deleted
\* goes, or comes back, and what was not is no less settled than before.
LEMMA FinalizeConfigStep == ASSUME Caching, FinalizeConfig PROVE Caching'
<1> DEFINE writes == config # None /\ config.finalizer = (configRec.pc = "release")
<1>1. UNCHANGED <<class, cache, classQueue, classRec>> /\ configRec' = Idle
    BY DEF FinalizeConfig, classWork
<1>2. /\ config' = CASE ~writes \/ ~configRec.fresh -> config
                     [] writes /\ configRec.fresh /\ configRec.pc = "release" -> None
                     [] OTHER -> [config EXCEPT !.finalizer = TRUE]
      /\ configQueue' = (configQueue \/ writes)
      /\ configRec.pc \in {"release", "finalize"}
    BY DEF FinalizeConfig
<1>3. \/ config' = config
      \/ config' = None
      \/ config # None /\ config' = [config EXCEPT !.finalizer = TRUE]
    BY <1>2
<1>4. /\ config' \in {None} \cup
            [pc : {"made"}, value : Configs, deleting : BOOLEAN, finalizer : BOOLEAN]
      /\ config' # None => config # None /\ config'.value = config.value
                           /\ config'.deleting = config.deleting
                           /\ (config.finalizer => config'.finalizer)
    BY <1>3 DEF Caching, Types, None
<1>5. configQueue' \in BOOLEAN /\ (configQueue => configQueue')
    BY <1>2 DEF Caching, Types
<1>6. Types' /\ Dying'
    BY <1>1, <1>4, <1>5 DEF Caching, Types, Dying, Idle
<1>7. configRec.pc = "release" => configQueue'
    BY <1>2 DEF Caching, Dying
<1>8. ConfigPending' \/ ~ConfigPending
    BY <1>2, <1>5, <1>7 DEF ConfigPending
<1>9. config # None /\ config' = None => ConfigPending'
    BY <1>2 DEF ConfigPending
<1> QED BY <1>1, <1>4, <1>6, <1>8, <1>9, ConfigFrame DEF classWork

\* A call fails, and the request comes back.
LEMMA ConfigCallFailsStep == ASSUME Caching, ConfigCallFails PROVE Caching'
<1>1. /\ UNCHANGED <<config, class, cache, classQueue, classRec>>
      /\ configRec' = Idle /\ configQueue' = TRUE
    BY DEF ConfigCallFails, apiVars, classWork
<1>2. Types' /\ Dying' /\ ConfigPending'
    BY <1>1 DEF Caching, Types, Dying, Idle, ConfigPending
<1> QED BY <1>1, <1>2, ConfigFrame DEF classWork

\* The eviction, which waits for the mutex.
LEMMA DeleteGatewayClassStep == ASSUME Caching, DeleteGatewayClass PROVE Caching'
<1>1. /\ UNCHANGED <<config, class, configQueue, classQueue>>
      /\ cache' = None
      /\ configRec.pc = "evict" /\ classRec.pc # "status"
      /\ configRec' = [configRec EXCEPT !.pc = "finalize"]
      /\ classRec' = IF classRec.pc = "upsert" THEN [classRec EXCEPT !.escaped = TRUE] ELSE classRec
    BY DEF DeleteGatewayClass, evict, ClassesLocked, apiVars
<1>2. configRec' \in ConfigWork /\ configRec'.pc = "finalize"
    BY <1>1, Shapes DEF Caching, ConfigWork
<1>3. /\ classRec' \in {Idle} \cup GoneWork \cup ClassWork
      /\ classRec'.pc = classRec.pc /\ classRec'.ref = classRec.ref
      /\ classRec'.fresh = classRec.fresh
      /\ classRec.pc = "upsert" => classRec'.escaped
    BY <1>1, EscapedClass DEF Caching, Types
<1>4. Types' /\ Dying' /\ Owned' /\ ReadIsCurrent'
    BY <1>1, <1>2, <1>3 DEF Caching, Types, Dying, Owned, ReadIsCurrent, ReadClass
<1>5. ValidatedIsCurrent' /\ CachedAsValidated' /\ CachedIsCurrent'
    BY <1>1, <1>3 DEF ValidatedIsCurrent, CachedAsValidated, CachedIsCurrent, Right
<1> QED BY <1>4, <1>5 DEF Caching

\* The listing fails, and whatever should have been evicted escapes.
LEMMA ListingFailsStep == ASSUME Caching, ListingFails PROVE Caching'
<1>1. /\ UNCHANGED <<config, class, configQueue, classQueue>>
      /\ Escape
      /\ configRec.pc = "list"
      /\ configRec' = [configRec EXCEPT !.pc = "finalize"]
    BY DEF ListingFails, apiVars
<1>2. configRec' \in ConfigWork /\ configRec'.pc = "finalize"
    BY <1>1, Shapes DEF Caching, ConfigWork
<1>3. configQueue' \in BOOLEAN /\ Dying'
    BY <1>1, <1>2 DEF Caching, Types, Dying
<1> QED BY <1>1, <1>2, <1>3, EscapeFrame

----------------------------------------------------------------------------
(* The controller of classes. *)

\* A step that leaves the configuration and the cache alone and ends with the
\* class in the queue and no reconciliation, or one that has not validated yet.
LEMMA ClassFrame ==
    ASSUME Caching, Types', UNCHANGED <<config, configWork, cache>>,
           class' # None => class # None /\ class'.ours = class.ours,
           ReadClass' => ReadClass,
           ReadClass' /\ ~classQueue' => class' # None /\ class'.ref = classRec'.ref,
           ReadClass' /\ classRec'.fresh => class' # None,
           classQueue' \/ classRec'.pc \notin {"idle", "upsert", "status"},
           classRec'.pc = "status" => classRec.pc = "status" /\ SameRead(classRec, classRec')
    PROVE  Caching'
<1>1. UNCHANGED <<config, configQueue, configRec, cache>>
    BY DEF configWork
<1>2. Dying' /\ Owned' /\ ReadIsCurrent'
    BY <1>1 DEF Caching, Dying, Owned, ReadIsCurrent
<1>3. CachedAsValidated'
    BY <1>1 DEF Caching, CachedAsValidated, SameRead
<1>4. ValidatedIsCurrent'
    BY DEF ValidatedIsCurrent
<1>5. CachedIsCurrent'
    BY DEF CachedIsCurrent, ClassPending, Idle
<1> QED BY <1>2, <1>3, <1>4, <1>5 DEF Caching

\* A user edits or deletes the class.
LEMMA ClassChangesStep == ASSUME Caching, ClassChanges PROVE Caching'
<1>1. /\ classQueue' = TRUE /\ classRec' = Stale(classRec)
      /\ UNCHANGED <<config, cache, configQueue, configRec>>
      /\ (\E ref \in Refs : EditClass(ref)) \/ DeleteClass
    BY DEF ClassChanges, configWork, Refs
<1>2. /\ classRec' \in {Idle} \cup GoneWork \cup ClassWork
      /\ classRec'.pc = classRec.pc
      /\ ReadClass => SameRead(classRec, classRec') /\ ~classRec'.fresh
    BY <1>1, StaleClass, Shapes DEF Caching, Types
<1>3. class \in [pc : {"made"}, ours : BOOLEAN, ref : Refs, generation : Nat, status : Statuses,
                 deleting : BOOLEAN, finalizer : BOOLEAN]
    BY <1>1 DEF EditClass, DeleteClass, Caching, Types
<1>4. /\ class' \in {None} \cup
            [pc : {"made"}, ours : BOOLEAN, ref : Refs, generation : Nat, status : Statuses,
             deleting : BOOLEAN, finalizer : BOOLEAN]
      /\ class' # None => class # None /\ class'.ours = class.ours
    <2>1. CASE \E ref \in Refs : EditClass(ref)
        <3>1. PICK ref \in Refs : EditClass(ref)
            BY <2>1
        <3>2. class' = [class EXCEPT !.ref = ref, !.generation = class.generation + 1]
            BY <3>1 DEF EditClass
        <3>3. class.generation + 1 \in Nat
            BY <1>3
        <3> QED BY <1>3, <3>2, <3>3 DEF None
    <2>2. CASE DeleteClass
        BY <1>3, <2>2 DEF DeleteClass, Deleted
    <2> QED BY <1>1, <2>1, <2>2
<1>5. Types'
    BY <1>1, <1>2, <1>4 DEF Caching, Types
<1> QED BY <1>1, <1>2, <1>4, <1>5, ClassFrame DEF ReadClass, configWork

\* A reconciliation starts with the class as it is; a class of another controller
\* is neither cached nor looked at.
LEMMA ReconcileClassStep == ASSUME Caching, ReconcileClass PROVE Caching'
<1>1. /\ UNCHANGED <<config, class, cache, configQueue, configRec>>
      /\ classQueue' = FALSE /\ classRec = Idle
    BY DEF ReconcileClass, apiVars, configWork
<1>2. CASE class = None
    <2>1. classRec' = [pc |-> "gone", fresh |-> TRUE]
        BY <1>2 DEF ReconcileClass
    <2>2. Types'
        BY <1>1, <2>1 DEF Caching, Types, GoneWork
    <2> QED BY <1>1, <2>1, <2>2, ClassFrame DEF ReadClass, configWork
<1>3. CASE class # None /\ ~class.ours
    <2>1. classRec' = Idle /\ cache = None
        BY <1>3 DEF ReconcileClass, Caching, Owned
    <2>2. Types' /\ Dying' /\ Owned' /\ ReadIsCurrent'
        BY <1>1, <2>1 DEF Caching, Types, Dying, Owned, ReadIsCurrent, ReadClass, Idle
    <2> QED BY <1>1, <2>1, <2>2
            DEF Caching, ValidatedIsCurrent, CachedAsValidated, CachedIsCurrent, Idle
<1>4. CASE class # None /\ class.ours
    <2>1. class \in [pc : {"made"}, ours : BOOLEAN, ref : Refs, generation : Nat,
                     status : Statuses, deleting : BOOLEAN, finalizer : BOOLEAN]
        BY <1>4 DEF Caching, Types
    <2>2. classRec' = [pc |-> IF class.deleting THEN "inuse" ELSE "finalize",
                       ref |-> class.ref, generation |-> class.generation,
                       status |-> class.status, finalizer |-> class.finalizer, fresh |-> TRUE,
                       value |-> NoConfig, valid |-> FALSE, escaped |-> FALSE]
        BY <1>4 DEF ReconcileClass
    <2>3. classRec' \in ClassWork /\ classRec'.pc \in {"inuse", "finalize"}
          /\ classRec'.ref = class.ref
        BY <2>1, <2>2 DEF ClassWork, Values
    <2>4. Types' /\ Dying' /\ Owned' /\ ReadIsCurrent'
        BY <1>1, <1>4, <2>3 DEF Caching, Types, Dying, Owned, ReadIsCurrent, ReadClass
    <2> QED BY <1>1, <2>3, <2>4
            DEF Caching, ValidatedIsCurrent, CachedAsValidated, CachedIsCurrent, ClassPending, Idle
<1> QED BY <1>2, <1>3, <1>4

\* A class that has gone is dropped from the cache.
LEMMA ForgetClassStep == ASSUME Caching, ForgetClass PROVE Caching'
<1>1. /\ UNCHANGED <<config, class, configQueue, configRec, classQueue>>
      /\ classRec' = Idle /\ cache' = None
    BY DEF ForgetClass, apiVars, configWork
<1>2. Types' /\ Dying' /\ Owned' /\ ReadIsCurrent'
    BY <1>1 DEF Caching, Types, Dying, Owned, ReadIsCurrent, ReadClass, Idle
<1> QED BY <1>1, <1>2 DEF Caching, ValidatedIsCurrent, CachedAsValidated, CachedIsCurrent, Idle

\* A class that is being deleted is asked about: it is queued again, or its
\* finalizer is to be removed.
LEMMA ClassInUseStep == ASSUME Caching, GatewayClassInUse PROVE Caching'
<1>1. /\ UNCHANGED <<config, class, cache, configQueue, configRec>>
      /\ classRec.pc = "inuse" /\ classRec \in ClassWork
    BY Shapes DEF GatewayClassInUse, apiVars, configWork, Caching, ReadClass
<1>2. CASE gw # None
    <2>1. classRec' = Idle /\ classQueue' = TRUE
        BY <1>2 DEF GatewayClassInUse, Requeued
    <2>2. Types'
        BY <1>1, <2>1 DEF Caching, Types
    <2> QED BY <1>1, <2>1, <2>2, ClassFrame DEF ReadClass, Idle, configWork
<1>3. CASE gw = None
    <2>1. classRec' = [classRec EXCEPT !.pc = "release"]
        BY <1>3 DEF GatewayClassInUse
    <2>2. classQueue' = classQueue
        BY <1>3 DEF GatewayClassInUse, Requeued, Caching, Types
    <2>3. classRec' \in ClassWork /\ classRec'.pc = "release" /\ classRec'.ref = classRec.ref
          /\ classRec'.fresh = classRec.fresh
        BY <1>1, <2>1 DEF ClassWork
    <2>4. Types'
        BY <1>1, <2>2, <2>3 DEF Caching, Types
    <2> QED BY <1>1, <2>2, <2>3, <2>4, ClassFrame DEF ReadClass, configWork, Caching, ReadIsCurrent
<1> QED BY <1>2, <1>3

\* The finalizer of the class is written, and the event comes back.
LEMMA FinalizeClassStep == ASSUME Caching, FinalizeClass PROVE Caching'
<1>1. /\ UNCHANGED <<config, cache, configQueue, configRec>>
      /\ classRec' = Idle /\ classQueue' = TRUE
      /\ classRec.pc \in {"release", "finalize"}
    BY DEF FinalizeClass, configWork
<1>2. \/ class' = class
      \/ class' = None
      \/ class # None /\ class' = [class EXCEPT !.finalizer = TRUE]
    BY <1>1 DEF FinalizeClass, Caching, ReadIsCurrent, ReadClass
<1>3. /\ class' \in {None} \cup
            [pc : {"made"}, ours : BOOLEAN, ref : Refs, generation : Nat, status : Statuses,
             deleting : BOOLEAN, finalizer : BOOLEAN]
      /\ class' # None => class # None /\ class'.ours = class.ours
    BY <1>2 DEF Caching, Types, None
<1>4. Types'
    BY <1>1, <1>3 DEF Caching, Types
<1> QED BY <1>1, <1>3, <1>4, ClassFrame DEF ReadClass, Idle, configWork

\* The validation takes the content of the configuration as it is.
LEMMA ValidateStep == ASSUME Caching, Validate PROVE Caching'
<1>1. /\ UNCHANGED <<config, class, cache, configQueue, configRec, classQueue>>
      /\ classRec.pc = "finalize" /\ classRec \in ClassWork
      /\ classRec' = [classRec EXCEPT !.pc = "upsert",
                                      !.valid = Validated(classRec.ref).valid,
                                      !.value = Validated(classRec.ref).value]
    BY Shapes DEF Validate, apiVars, configWork, Caching, ReadClass
<1>2. /\ Validated(classRec.ref).valid \in BOOLEAN /\ Validated(classRec.ref).value \in Values
      /\ classRec.ref = "config" /\ config # None => Validated(classRec.ref).value = config.value
      /\ classRec.ref = "config" /\ config = None => ~Validated(classRec.ref).valid
    <2>1. CASE classRec.ref = "none"
        BY <2>1 DEF Validated, Values
    <2>2. CASE classRec.ref = "config" /\ config # None
        <3>1. config.value \in Configs
            BY <2>2 DEF Caching, Types
        <3> QED BY <2>2, <3>1 DEF Validated, Values
    <2>3. CASE ~(classRec.ref = "none") /\ ~(classRec.ref = "config" /\ config # None)
        <3>1. Validated(classRec.ref) = [valid |-> FALSE, value |-> NoConfig]
            BY <2>3 DEF Validated
        <3> QED BY <2>3, <3>1 DEF Values
    <2> QED BY <2>1, <2>2, <2>3
<1>3. /\ classRec' \in ClassWork /\ classRec'.pc = "upsert" /\ classRec'.ref = classRec.ref
      /\ classRec'.fresh = classRec.fresh
      /\ classRec'.value = Validated(classRec.ref).value
      /\ classRec'.valid = Validated(classRec.ref).valid
    BY <1>1, <1>2 DEF ClassWork
<1>4. Types' /\ Dying' /\ Owned' /\ ReadIsCurrent'
    BY <1>1, <1>3 DEF Caching, Types, Dying, Owned, ReadIsCurrent, ReadClass
<1>5. ValidatedIsCurrent'
    BY <1>1, <1>2, <1>3 DEF ValidatedIsCurrent, Right
<1>6. CachedAsValidated' /\ CachedIsCurrent'
    BY <1>3 DEF CachedAsValidated, CachedIsCurrent, ClassPending, Idle
<1> QED BY <1>4, <1>5, <1>6 DEF Caching

\* What was validated is cached.
LEMMA UpsertClassStep == ASSUME Caching, UpsertClass PROVE Caching'
<1>1. /\ UNCHANGED <<config, class, configQueue, configRec, classQueue>>
      /\ classRec.pc = "upsert" /\ classRec \in ClassWork
      /\ classRec' = [classRec EXCEPT !.pc = "status"]
      /\ cache' = [pc |-> "cached", ref |-> classRec.ref, valid |-> classRec.valid,
                   value |-> classRec.value, escaped |-> classRec.escaped]
    BY Shapes DEF UpsertClass, apiVars, configWork, Caching, ReadClass
<1>2. /\ classRec' \in ClassWork /\ classRec'.pc = "status" /\ classRec'.ref = classRec.ref
      /\ classRec'.fresh = classRec.fresh /\ classRec'.valid = classRec.valid
      /\ classRec'.value = classRec.value /\ classRec'.escaped = classRec.escaped
    BY <1>1 DEF ClassWork
<1>3. cache' \in [pc : {"cached"}, ref : Refs, valid : BOOLEAN, value : Values, escaped : BOOLEAN]
    BY <1>1 DEF ClassWork
<1>4. Types' /\ Dying' /\ Owned' /\ ReadIsCurrent'
    BY <1>1, <1>2, <1>3 DEF Caching, Types, Dying, Owned, ReadIsCurrent, ReadClass
<1>5. ValidatedIsCurrent'
    BY <1>1, <1>2 DEF Caching, ValidatedIsCurrent, Right, ConfigPending
<1>6. CachedAsValidated' /\ CachedIsCurrent'
    BY <1>1, <1>2 DEF CachedAsValidated, CachedIsCurrent, ClassPending, Idle
<1> QED BY <1>4, <1>5, <1>6 DEF Caching

\* The status is written, or need not be: then what is cached is what the class
\* refers to, unless the class is queued.
LEMMA SyncStatusStep == ASSUME Caching, SyncStatus PROVE Caching'
<1> DEFINE status == [pc |-> "status", valid |-> classRec.valid, generation |-> classRec.generation]
<1>1. /\ UNCHANGED <<config, cache, configQueue, configRec>>
      /\ classRec.pc = "status" /\ classRec \in ClassWork /\ classRec' = Idle
    BY Shapes DEF SyncStatus, configWork, Caching, ReadClass
<1>2. CASE status = classRec.status
    <2>1. UNCHANGED <<class, classQueue>>
        BY <1>2 DEF SyncStatus
    <2>2. Types' /\ Dying' /\ Owned' /\ ReadIsCurrent'
        BY <1>1, <2>1 DEF Caching, Types, Dying, Owned, ReadIsCurrent, ReadClass, Idle
    <2>3. ValidatedIsCurrent' /\ CachedAsValidated'
        BY <1>1 DEF ValidatedIsCurrent, CachedAsValidated, Idle
    <2>4. CachedIsCurrent'
        <3>1. SUFFICES ASSUME cache # None, cache.valid, ~cache.escaped, ~classQueue
                       PROVE  /\ class # None /\ class.ref = cache.ref
                              /\ cache.ref = "config" =>
                                    (config # None /\ cache.value = config.value) \/ ConfigPending
            BY <1>1, <2>1 DEF CachedIsCurrent, ClassPending, ConfigPending
        <3>2. /\ cache.ref = classRec.ref /\ cache.valid = classRec.valid
              /\ cache.value = classRec.value /\ cache.escaped = classRec.escaped
            BY <1>1, <3>1 DEF Caching, CachedAsValidated
        <3>3. class # None /\ class.ref = classRec.ref /\ Right(classRec)
            BY <1>1, <3>1 DEF Caching, ReadIsCurrent, ReadClass, ValidatedIsCurrent
        <3> QED BY <3>1, <3>2, <3>3 DEF Right
    <2> QED BY <2>2, <2>3, <2>4 DEF Caching
<1>3. CASE status # classRec.status
    <2>1. /\ classQueue' = TRUE
          /\ class' = IF classRec.fresh THEN [class EXCEPT !.status = status] ELSE class
        BY <1>3 DEF SyncStatus
    <2>2. status \in Statuses
        BY <1>1 DEF ClassWork, Statuses
    <2>3. /\ class' \in {None} \cup
                [pc : {"made"}, ours : BOOLEAN, ref : Refs, generation : Nat, status : Statuses,
                 deleting : BOOLEAN, finalizer : BOOLEAN]
          /\ class' # None => class # None /\ class'.ours = class.ours
        <3> HIDE DEF status
        <3>1. classRec.fresh => class # None
            BY <1>1 DEF Caching, ReadIsCurrent, ReadClass
        <3> QED BY <2>1, <2>2, <3>1 DEF Caching, Types
    <2>4. Types'
        BY <1>1, <2>1, <2>3 DEF Caching, Types
    <2> QED BY <1>1, <2>1, <2>3, <2>4, ClassFrame DEF ReadClass, Idle, configWork
<1> QED BY <1>2, <1>3

\* A call fails, and the request comes back.
LEMMA ClassCallFailsStep == ASSUME Caching, ClassCallFails PROVE Caching'
<1>1. /\ UNCHANGED <<config, class, cache, configQueue, configRec>>
      /\ classRec' = Idle /\ classQueue' = TRUE
    BY DEF ClassCallFails, apiVars, configWork
<1>2. Types'
    BY <1>1 DEF Caching, Types
<1> QED BY <1>1, <1>2, ClassFrame DEF ReadClass, Idle, configWork

----------------------------------------------------------------------------
(* The theorem. *)

\* An object that is being deleted has a finalizer.
LEMMA LivesFacts ==
    ASSUME NEW l \in Lives
    PROVE  l[1] \in BOOLEAN /\ l[2] \in BOOLEAN /\ (l[2] => l[1])
<1>1. CASE l = <<FALSE, FALSE>>
    BY <1>1
<1>2. CASE l = <<TRUE, FALSE>>
    BY <1>2
<1>3. CASE l = <<TRUE, TRUE>>
    BY <1>3
<1> QED BY <1>1, <1>2, <1>3 DEF Lives

LEMMA InitCaching == Init => Caching
<1> SUFFICES ASSUME Init PROVE Caching
    OBVIOUS
<1>1. (CHOOSE c \in Configs : TRUE) \in Configs
    BY ConfigsAssumption
<1>2. config \in {None} \cup
            [pc : {"made"}, value : Configs, deleting : BOOLEAN, finalizer : BOOLEAN]
      /\ (config # None /\ config.deleting => config.finalizer)
    <2>1. CASE config = None
        BY <2>1
    <2>2. CASE config # None
        <3>1. PICK l \in Lives : config = [pc |-> "made", value |-> CHOOSE c \in Configs : TRUE,
                                           deleting |-> l[2], finalizer |-> l[1]]
            BY <2>2 DEF Init
        <3>2. l[1] \in BOOLEAN /\ l[2] \in BOOLEAN /\ (l[2] => l[1])
            BY LivesFacts
        <3> QED BY <1>1, <3>1, <3>2
    <2> QED BY <2>1, <2>2
<1>3. class \in [pc : {"made"}, ours : BOOLEAN, ref : Refs, generation : Nat, status : Statuses,
                 deleting : BOOLEAN, finalizer : BOOLEAN]
    <2>1. PICK o \in BOOLEAN, l \in Lives :
            class = [pc |-> "made", ours |-> o, ref |-> "config", generation |-> 1,
                     status |-> None, deleting |-> l[2], finalizer |-> l[1]]
        BY DEF Init
    <2>2. l[1] \in BOOLEAN /\ l[2] \in BOOLEAN
        BY LivesFacts
    <2> QED BY <2>1, <2>2 DEF Refs, Statuses
<1>4. Types
    BY <1>2, <1>3 DEF Init, Types
<1> QED BY <1>2, <1>4 DEF Init, Caching, Dying, Owned, ReadIsCurrent, ReadClass, Idle,
           ValidatedIsCurrent, CachedAsValidated, CachedIsCurrent

\* The gateways and their controller, which only reads the others' state.
LEMMA OthersKeepCaching ==
    ASSUME Caching, UNCHANGED <<config, class, cache, configWork, classWork>>
    PROVE  Caching'
<1>1. UNCHANGED <<config, class, cache, configQueue, configRec, classQueue, classRec>>
    BY DEF configWork, classWork
<1> QED BY <1>1 DEF Caching, Types, Dying, Owned, ReadIsCurrent, ReadClass, ValidatedIsCurrent,
           Right, CachedAsValidated, CachedIsCurrent, ConfigPending, ClassPending

LEMMA CachingStep == Caching /\ [Next]_vars => Caching'
<1> SUFFICES ASSUME Caching, [Next]_vars PROVE Caching'
    OBVIOUS
<1>1. CASE ConfigController
    BY <1>1, ReconcileConfigStep, ConfigInUseStep, UsingConfigStep, DeleteGatewayClassStep,
       FinalizeConfigStep DEF ConfigController
<1>2. CASE ClassController
    BY <1>2, ReconcileClassStep, ForgetClassStep, ClassInUseStep, FinalizeClassStep,
       ValidateStep, UpsertClassStep, SyncStatusStep DEF ClassController
<1>3. CASE GatewayController \/ GatewayChanges \/ GatewayCallFails
    <2>1. UNCHANGED <<config, class, cache, configWork, classWork>>
        BY <1>3 DEF GatewayController, ReconcileGateway, GetConfig, LookUpClass, LookUpConfig,
           Annotate, GatewayChanges, GatewayCallFails, apiVars
    <2> QED BY <2>1, OthersKeepCaching
<1>4. CASE ConfigChanges \/ ClassChanges
    BY <1>4, ConfigChangesStep, ClassChangesStep
<1>5. CASE ConfigCallFails \/ ListingFails \/ ClassCallFails
    BY <1>5, ConfigCallFailsStep, ListingFailsStep, ClassCallFailsStep
<1>6. CASE UNCHANGED vars
    BY <1>6, OthersKeepCaching DEF vars, apiVars
<1> QED BY <1>1, <1>2, <1>3, <1>4, <1>5, <1>6 DEF Next, World

\* The configuration that a new gateway takes from the cache and keeps for ever
\* (gatewayclass.go, gateway_controller.go) is the one its class refers to, or an
\* event of the class or of the configuration is on its way; only a class stored
\* after its eviction, one whose eviction failed and one whose configuration has
\* gone are excepted.
THEOREM CacheIsCurrent == Spec => []CachedIsCurrent
<1>1. Caching => CachedIsCurrent
    BY DEF Caching
<1> QED BY <1>1, InitCaching, CachingStep, PTL DEF Spec
=============================================================================
