-------------------------- MODULE IntentionsProofs --------------------------
(***************************************************************************)
(* Safety of the intentions reconciler, for any services, targets, sources *)
(* and edits.  Updating is what the loop knows while it updates a target;  *)
(* Reporting ties the references to what the watchers have reported.       *)
(***************************************************************************)
EXTENDS Intentions, TLAPS

\* The loop is at work on a target of its list, or on none.
TargetIsListed ==
    /\ phase \in {"idle", "ended"} => todo = {}
    /\ target # NoTarget => target \in todo
    /\ seen # Unread => target # NoTarget /\ Modifies(seen)

\* What it has read is still what Consul has, unless somebody wrote.
FreshIsCurrent == fresh => seen # Unread /\ seen = intention[target]

\* Only targets without references are up for removal.
TombstonesAreUnreferenced ==
    /\ phase = "removing" => todo \subseteq tombstones
    /\ \A t \in tombstones : refs[t] = {}

Updating == TypeOK /\ TargetIsListed /\ FreshIsCurrent /\ TombstonesAreUnreferenced

----------------------------------------------------------------------------
\* Both ends of an attempt leave the loop with nothing read, on its list.
LEMMA AttemptEnds ==
    ASSUME Updating, NEW t \in todo, NEW success \in BOOLEAN, Syncing,
           TargetDone(t, success) \/ AttemptFailed(t)
    PROVE  /\ todo' \subseteq todo /\ tombstones' \subseteq tombstones
           /\ target' \in Targets \cup {NoTarget} /\ (target' # NoTarget => target' \in todo')
           /\ seen' = Unread /\ fresh' = FALSE /\ retries' \in 0..MaxRetries
           /\ phase = "removing" => todo' \subseteq tombstones'
<1> USE DEF Updating, TypeOK, TombstonesAreUnreferenced
<1>1. ASSUME NEW b \in BOOLEAN, TargetDone(t, b)
      PROVE  /\ todo' \subseteq todo /\ tombstones' \subseteq tombstones
             /\ target' = NoTarget
             /\ seen' = Unread /\ fresh' = FALSE /\ retries' \in 0..MaxRetries
             /\ phase = "removing" => todo' \subseteq tombstones'
    <2>1. retries' = 0 /\ MaxRetries \in Nat
        BY <1>1, IntentionsAssumption DEF TargetDone
    <2>2. todo' = todo \ {t} /\ tombstones' \in {tombstones, tombstones \ {t}}
        BY <1>1 DEF TargetDone
    <2> QED BY <1>1, <2>1, <2>2 DEF TargetDone
<1>2. CASE retries < MaxRetries /\ AttemptFailed(t)
    <2>1. /\ target' = t /\ retries' = retries + 1 /\ seen' = Unread /\ fresh' = FALSE
          /\ todo' = todo /\ tombstones' = tombstones
        BY <1>2 DEF AttemptFailed
    <2>2. retries' \in 0..MaxRetries
        BY <1>2, <2>1, IntentionsAssumption
    <2> QED BY <2>1, <2>2
<1>3. CASE ~(retries < MaxRetries) /\ AttemptFailed(t)
    BY <1>1, <1>3 DEF AttemptFailed
<1> QED BY <1>1, <1>2, <1>3

\* What the loop writes is a set of sources, and an entry that is to lose the
\* gateway's source has it.
LEMMA UpdatedFacts ==
    ASSUME Updating, Syncing, seen # Unread
    PROVE  /\ target \in todo
           /\ Updated \in SUBSET (Others \cup {Gateway})
           /\ phase = "adding" => Gateway \in Updated
           /\ phase = "removing" => seen # Absent
           /\ seen # Absent => seen \cap Others \subseteq Updated
BY IntentionsAssumption
   DEF Updating, TypeOK, TargetIsListed, Modifies, Updated, Syncing, Entries

\* One step of the loop's bookkeeping and of everybody around it.
LEMMA UpdatingStep == Updating /\ [Next]_vars => Updating'
<1> SUFFICES ASSUME Updating, [Next]_vars PROVE Updating'
    OBVIOUS
<1> USE DEF Updating
<1>1. ASSUME NEW s \in Services, NEW c \in SUBSET Targets, ChainChanges(s, c)
      PROVE  Updating'
    <2>1. TypeOK'
        BY <1>1, IntentionsAssumption DEF ChainChanges, TypeOK, watcherVars, indexVars, loopVars, updateVars
    <2> QED BY <1>1, <2>1 DEF ChainChanges, TargetIsListed, FreshIsCurrent, TombstonesAreUnreferenced,
                Modifies, indexVars, loopVars, updateVars
<1>2. ASSUME NEW t \in Targets, NEW sources \in Entries, IntentionEdited(t, sources)
      PROVE  Updating'
    <2>1. TypeOK'
        BY <1>2, IntentionsAssumption DEF IntentionEdited, TypeOK, watcherVars, indexVars
    <2>2. ASSUME fresh' PROVE seen' # Unread /\ seen' = intention'[target']
        <3>1. fresh /\ t # target
            BY <1>2, <2>2 DEF IntentionEdited
        <3>2. seen # Unread /\ seen = intention[target]
            BY <3>1 DEF FreshIsCurrent
        <3>3. target \in Targets
            BY <3>2 DEF TargetIsListed, TypeOK
        <3>4. intention'[target] = intention[target] /\ seen' = seen /\ target' = target
            BY <1>2, <3>1, <3>3 DEF IntentionEdited, TypeOK
        <3> QED BY <3>2, <3>4
    <2>3. FreshIsCurrent'
        BY <2>2 DEF FreshIsCurrent
    <2> QED BY <1>2, <2>1, <2>3 DEF IntentionEdited, TargetIsListed, TombstonesAreUnreferenced,
                Modifies, indexVars
<1>3. ASSUME NEW new \in SUBSET Services, SetIngressServices(new)
      PROVE  Updating'
    <2>1. watcher' \in [Watchers -> {"none", "asking", "holding"}]
        BY <1>3 DEF SetIngressServices, AfterCancel, TypeOK
    <2>2. started' \in [Services -> Nat]
        BY <1>3 DEF SetIngressServices, TypeOK
    <2>3. TypeOK'
        BY <1>3, <2>1, <2>2
        DEF SetIngressServices, TypeOK, consulVars, indexVars, loopVars, updateVars
    <2> QED BY <1>3, <2>3 DEF SetIngressServices, TargetIsListed, FreshIsCurrent,
                TombstonesAreUnreferenced, Modifies, consulVars, indexVars, loopVars, updateVars
<1>4. ASSUME Stop
      PROVE  Updating'
    <2>1. watcher' \in [Watchers -> {"none", "asking", "holding"}]
        BY <1>4 DEF Stop, AfterCancel, TypeOK
    <2>2. TypeOK'
        BY <1>4, <2>1 DEF Stop, TypeOK, consulVars, indexVars, loopVars, updateVars
    <2> QED BY <1>4, <2>2 DEF Stop, TargetIsListed, FreshIsCurrent,
                TombstonesAreUnreferenced, Modifies, consulVars, indexVars, loopVars, updateVars
<1>5. ASSUME NEW w \in Watchers, QueryAnswers(w) \/ WatcherReturns(w)
      PROVE  Updating'
    <2>1. /\ watcher' \in [Watchers -> {"none", "asking", "holding"}]
          /\ names' \in [Watchers -> SUBSET Targets]
        BY <1>5 DEF QueryAnswers, WatcherReturns, TypeOK, compiledDiscoChainToServiceNames, Watchers
    <2>2. UNCHANGED <<consulVars, adapter, services, started, prev, indexVars, stopped, loopVars>>
        BY <1>5 DEF QueryAnswers, WatcherReturns
    <2>3. TypeOK'
        BY <2>1, <2>2 DEF TypeOK, consulVars, indexVars, loopVars, updateVars
    <2> QED BY <2>2, <2>3 DEF TargetIsListed, FreshIsCurrent,
                TombstonesAreUnreferenced, Modifies, consulVars, indexVars, loopVars, updateVars
<1>6. ASSUME TakeForce \/ Tick \/ LoopReturns
      PROVE  Updating'
    <2>1. /\ UNCHANGED <<consulVars, services, watcherVars, indexVars, stopped, updateVars>>
          /\ adapter' \in {adapter, "waiting"} /\ phase = "idle"
          /\ phase' \in {"adding", "ended"} /\ todo' \in {todo, Referenced}
          /\ phase' = "ended" => todo' = todo
          /\ forced' \in {forced, TRUE, FALSE}
        BY <1>6 DEF TakeForce, Tick, LoopReturns, StartSync
    <2>2. target = NoTarget /\ seen = Unread
        BY <2>1 DEF TargetIsListed
    <2>3. TypeOK'
        BY <2>1 DEF TypeOK, consulVars, watcherVars, indexVars, updateVars, Referenced
    <2> QED BY <2>1, <2>2, <2>3 DEF TargetIsListed, FreshIsCurrent,
                TombstonesAreUnreferenced, consulVars, indexVars, updateVars
<1>7. ASSUME NEW w \in Watchers, TakeResult(w)
      PROVE  Updating'
    <2> DEFINE added == names[w] \ prev[w]
               removed == prev[w] \ names[w]
    <2>1. /\ added \subseteq Targets /\ removed \subseteq Targets /\ added \cap removed = {}
          /\ w[1] \in Services
        BY DEF TypeOK, Watchers
    <2>2. /\ refs' = [t \in Targets |-> IF t \in added THEN refs[t] \cup {w[1]}
                                       ELSE IF t \in removed THEN refs[t] \ {w[1]} ELSE refs[t]]
          /\ tombstones' = (tombstones \ added) \cup {t \in removed : refs'[t] = {}}
        BY <1>7 DEF TakeResult, handleChainResult
    <2>3. refs' \in [Targets -> SUBSET Services] /\ tombstones' \in SUBSET Targets
        BY <2>1, <2>2 DEF TypeOK
    <2>4. \A t \in tombstones' : refs'[t] = {}
        BY <2>1, <2>2 DEF TypeOK, TombstonesAreUnreferenced
    <2>5. /\ watcher' \in [Watchers -> {"none", "asking", "holding"}]
          /\ names' \in [Watchers -> SUBSET Targets] /\ prev' \in [Watchers -> SUBSET Targets]
        BY <1>7 DEF TakeResult, TypeOK
    <2>6. /\ UNCHANGED <<consulVars, adapter, services, started, stopped, updateVars>>
          /\ phase = "idle" /\ phase' = "adding" /\ forced' = FALSE /\ todo' \subseteq Targets
        BY <1>7 DEF TakeResult, StartSync
    <2>7. target = NoTarget /\ seen = Unread
        BY <2>6 DEF TargetIsListed
    <2>8. TypeOK'
        BY <2>3, <2>5, <2>6 DEF TypeOK, consulVars, updateVars
    <2> QED BY <2>4, <2>6, <2>7, <2>8 DEF TargetIsListed, FreshIsCurrent,
                TombstonesAreUnreferenced, consulVars, updateVars
<1>8. ASSUME NEW t \in Targets, NEW error \in BOOLEAN, Get(t, error)
      PROVE  Updating'
    <2>1. /\ Syncing /\ t \in todo
          /\ UNCHANGED <<consulVars, adapter, services, watcherVars, refs, stopped, phase, forced>>
        BY <1>8 DEF Get
    <2>2. CASE TargetDone(t, TRUE) \/ AttemptFailed(t)
        <3>1. /\ todo' \subseteq todo /\ tombstones' \subseteq tombstones
              /\ target' \in Targets \cup {NoTarget} /\ (target' # NoTarget => target' \in todo')
              /\ seen' = Unread /\ fresh' = FALSE /\ retries' \in 0..MaxRetries
              /\ phase = "removing" => todo' \subseteq tombstones'
            BY <2>1, <2>2, AttemptEnds
        <3>2. TypeOK'
            BY <2>1, <3>1 DEF TypeOK, consulVars, watcherVars
        <3> QED BY <2>1, <3>1, <3>2 DEF TargetIsListed, FreshIsCurrent, TombstonesAreUnreferenced,
                    Syncing, consulVars
    <2>3. CASE ~(TargetDone(t, TRUE) \/ AttemptFailed(t))
        <3>1. /\ Modifies(intention[t]) /\ target' = t /\ seen' = intention[t] /\ fresh' = TRUE
              /\ UNCHANGED <<todo, retries, tombstones>>
            BY <1>8, <2>3 DEF Get
        <3>2. intention[t] \in Entries /\ intention[t] # Unread
            BY IntentionsAssumption DEF TypeOK, Entries
        <3>3. TypeOK'
            BY <2>1, <3>1, <3>2 DEF TypeOK, consulVars, watcherVars
        <3>4. Modifies(seen)'
            BY <2>1, <3>1 DEF Modifies
        <3>5. TargetIsListed'
            BY <2>1, <3>1, <3>4, IntentionsAssumption DEF TargetIsListed, Syncing
        <3> QED BY <2>1, <3>1, <3>2, <3>3, <3>5 DEF FreshIsCurrent, TombstonesAreUnreferenced, consulVars
    <2> QED BY <2>2, <2>3
<1>9. ASSUME NEW applied \in BOOLEAN, NEW error \in BOOLEAN, CAS(applied, error) \/ Delete(applied, error)
      PROVE  Updating'
    <2>1. /\ Syncing /\ seen # Unread
          /\ UNCHANGED <<chain, edits, adapter, services, watcherVars, refs, stopped, phase, forced>>
          /\ \/ intention' = [intention EXCEPT ![target] = Updated]
             \/ intention' = [intention EXCEPT ![target] = Absent]
             \/ intention' = intention
          /\ TargetDone(target, TRUE) \/ AttemptFailed(target)
        BY <1>9 DEF CAS, Delete
    <2>2. target \in todo /\ Updated \in Entries /\ Absent \in Entries
        BY <2>1, UpdatedFacts DEF Entries
    <2>3. intention' \in [Targets -> Entries]
        BY <2>1, <2>2 DEF TypeOK
    <2>4. /\ todo' \subseteq todo /\ tombstones' \subseteq tombstones
          /\ target' \in Targets \cup {NoTarget} /\ (target' # NoTarget => target' \in todo')
          /\ seen' = Unread /\ fresh' = FALSE /\ retries' \in 0..MaxRetries
          /\ phase = "removing" => todo' \subseteq tombstones'
        BY <2>1, <2>2, AttemptEnds
    <2>5. TypeOK'
        BY <2>1, <2>3, <2>4 DEF TypeOK, watcherVars
    <2> QED BY <2>1, <2>4, <2>5 DEF TargetIsListed, FreshIsCurrent, TombstonesAreUnreferenced, Syncing
<1>10. ASSUME AddingDone \/ SyncDone
       PROVE  Updating'
    <2>1. /\ UNCHANGED <<consulVars, services, watcherVars, indexVars, stopped, updateVars>>
          /\ adapter' \in {adapter, "idle"} /\ forced' \in {forced, FALSE} /\ todo = {}
          /\ \/ phase' = "removing" /\ todo' = tombstones
             \/ phase' = "idle" /\ todo' = todo
        BY <1>10 DEF AddingDone, SyncDone
    <2>2. target = NoTarget /\ seen = Unread
        BY <2>1 DEF TargetIsListed
    <2>3. TypeOK'
        BY <2>1 DEF TypeOK, consulVars, watcherVars, indexVars, updateVars
    <2> QED BY <2>1, <2>2, <2>3 DEF TargetIsListed, FreshIsCurrent,
                TombstonesAreUnreferenced, consulVars, indexVars, updateVars
<1>11. CASE UNCHANGED vars
    BY <1>11 DEF vars, consulVars, watcherVars, indexVars, loopVars, updateVars, TypeOK,
        TargetIsListed, FreshIsCurrent, TombstonesAreUnreferenced, Modifies
<1> QED BY <1>1, <1>2, <1>3, <1>4, <1>5, <1>6, <1>7, <1>8, <1>9, <1>10, <1>11
        DEF Next, OthersStep, AdapterStep, WatcherStep, LoopStep

LEMMA UpdatingInit == Init => Updating
<1> SUFFICES ASSUME Init PROVE Updating
    OBVIOUS
<1>1. edits \in 0..MaxEdits /\ retries \in 0..MaxRetries
    BY IntentionsAssumption DEF Init
<1>2. chain \in [Services -> SUBSET Targets] /\ intention \in [Targets -> Entries]
    BY IntentionsAssumption DEF Init, Entries
<1>3. TypeOK
    BY <1>1, <1>2 DEF Init, TypeOK
<1> QED BY <1>3 DEF Init, Updating, TargetIsListed, FreshIsCurrent, TombstonesAreUnreferenced

\* Updating is an invariant of the specification.
LEMMA UpdatingInvariant == Spec => []Updating
BY UpdatingInit, UpdatingStep, PTL DEF Spec

\* The reconciler's state keeps its types: in particular, no more attempts than
\* updateIntentionsMaxRetries allows, and nothing but sets of sources written.
THEOREM TypeCorrect == Spec => []TypeOK
<1>1. Updating => TypeOK
    BY DEF Updating
<1> QED BY <1>1, UpdatingInvariant, PTL

----------------------------------------------------------------------------
(* What the loop's writes may do. *)

\* A step that is not an edit of somebody else and changes an entry is a write
\* of the loop to the target it is at work on.
LEMMA LoopWrites ==
    ASSUME Updating, [Next]_vars, edits' = edits, NEW t \in Targets, intention'[t] # intention[t]
    PROVE  /\ t = target /\ seen # Unread /\ Syncing
           /\ \/ Updated # {} /\ CASAllowed /\ intention'[t] = Updated
              \/ Updated = {} /\ intention'[t] = Absent
<1> USE DEF Updating
<1>1. CASE \E applied, error \in BOOLEAN : CAS(applied, error) \/ Delete(applied, error)
    <2>1. PICK applied \in BOOLEAN, error \in BOOLEAN : CAS(applied, error) \/ Delete(applied, error)
        BY <1>1
    <2>2. Syncing /\ seen # Unread /\ target \in Targets
        BY <2>1, UpdatedFacts DEF CAS, Delete, TypeOK
    <2> QED BY <2>1, <2>2 DEF CAS, Delete, TypeOK
<1>2. CASE OthersStep
    BY <1>2, IntentionsAssumption DEF OthersStep, ChainChanges, IntentionEdited, TypeOK
<1>3. CASE AdapterStep
    BY <1>3 DEF AdapterStep, Stop, SetIngressServices, consulVars
<1>4. CASE WatcherStep
    BY <1>4 DEF WatcherStep, QueryAnswers, WatcherReturns, consulVars
<1>5. CASE LoopStep /\ ~ \E applied, error \in BOOLEAN : CAS(applied, error) \/ Delete(applied, error)
    <2>1. UNCHANGED consulVars
        BY <1>5 DEF LoopStep, TakeForce, Tick, TakeResult, LoopReturns, Get, AddingDone, SyncDone
    <2> QED BY <2>1 DEF consulVars
<1>6. CASE UNCHANGED vars
    BY <1>6 DEF vars, consulVars
<1> QED BY <1>1, <1>2, <1>3, <1>4, <1>5, <1>6 DEF Next

\* The gateway's source is taken only from targets that no chain refers to:
\* references cannot change while the loop works through its tombstones.
THEOREM ReferencedTargetsKeepTheGateway == Spec => RemovedOnlyUnreferenced
<1>1. ASSUME Updating, [Next]_vars
      PROVE  [\A t \in Targets :
                 /\ intention[t] # Absent /\ Gateway \in intention[t]
                 /\ intention'[t] = Absent \/ Gateway \notin intention'[t]
                 /\ edits' = edits
                 => refs[t] = {}]_vars
    <2> SUFFICES ASSUME NEW t \in Targets, intention[t] # Absent, Gateway \in intention[t],
                        intention'[t] = Absent \/ Gateway \notin intention'[t], edits' = edits
                 PROVE  refs[t] = {}
        OBVIOUS
    <2>1. /\ t = target /\ seen # Unread /\ Syncing
          /\ \/ Updated # {} /\ intention'[t] = Updated
             \/ Updated = {} /\ intention'[t] = Absent
        BY <1>1, LoopWrites
    <2>2. /\ target \in todo
          /\ Updated \in SUBSET (Others \cup {Gateway})
          /\ phase = "adding" => Gateway \in Updated
        BY <1>1, <2>1, UpdatedFacts
    <2>3. phase = "removing"
        <3>1. CASE phase = "adding"
            <4>1. Gateway \in Updated /\ Updated # Absent
                BY <2>2, <3>1, IntentionsAssumption
            <4> QED BY <2>1, <4>1
        <3> QED BY <2>1, <3>1 DEF Syncing
    <2> QED BY <1>1, <2>1, <2>2, <2>3 DEF Updating, TombstonesAreUnreferenced
<1> QED BY <1>1, UpdatingInvariant, PTL DEF Spec, RemovedOnlyUnreferenced

\* Nobody else's source is lost, whatever is edited between the loop's read and
\* its write, but for the documented race of the deletion.
THEOREM OthersAreKept == Spec => OthersKeepTheirSources
<1>1. ASSUME Updating, [Next]_vars
      PROVE  [\A t \in Targets :
                 /\ edits' = edits
                 /\ intention[t] # Absent
                 => \/ intention'[t] # Absent /\ intention[t] \cap Others \subseteq intention'[t]
                    \/ intention'[t] = Absent
                       /\ (intention[t] \cap Others = {} \/ (t = target /\ ~fresh))]_vars
    <2> SUFFICES ASSUME NEW t \in Targets, edits' = edits, intention[t] # Absent
                 PROVE  \/ intention'[t] # Absent /\ intention[t] \cap Others \subseteq intention'[t]
                        \/ intention'[t] = Absent
                           /\ (intention[t] \cap Others = {} \/ (t = target /\ ~fresh))
        OBVIOUS
    <2>1. CASE intention'[t] = intention[t]
        BY <2>1
    <2>2. CASE intention'[t] # intention[t]
        <3>1. /\ t = target /\ seen # Unread /\ Syncing
              /\ \/ Updated # {} /\ CASAllowed /\ intention'[t] = Updated
                 \/ Updated = {} /\ intention'[t] = Absent
            BY <1>1, <2>2, LoopWrites
        <3>2. /\ Updated \in SUBSET (Others \cup {Gateway})
              /\ seen # Absent => seen \cap Others \subseteq Updated
            BY <1>1, <3>1, UpdatedFacts
        <3>3. fresh => seen = intention[t]
            BY <1>1, <3>1 DEF Updating, FreshIsCurrent
        <3>4. CASE CASAllowed /\ intention'[t] = Updated
            <4>1. seen # Absent /\ fresh
                BY <3>1, <3>4 DEF CASAllowed
            <4>2. Updated # Absent
                BY <3>2, IntentionsAssumption
            <4> QED BY <3>2, <3>3, <3>4, <4>1, <4>2
        <3>5. CASE Updated = {} /\ intention'[t] = Absent
            BY <3>1, <3>2, <3>3, <3>5
        <3> QED BY <3>1, <3>4, <3>5
    <2> QED BY <2>1, <2>2
<1> QED BY <1>1, UpdatingInvariant, PTL DEF Spec, OthersKeepTheirSources

----------------------------------------------------------------------------
(* The references and the watchers' reports. *)

\* A watcher that runs has been started, and a service that has had one watcher
\* at most holds references on what that watcher has reported.
Reporting ==
    /\ \A w \in Watchers : watcher[w] # "none" => w[2] <= started[w[1]]
    /\ \A s \in Services :
           /\ started[s] = 0 => prev[<<s, 1>>] = {}
           /\ started[s] <= 1 => \A t \in Targets : s \in refs[t] <=> t \in prev[<<s, 1>>]

LEMMA FirstWatchers ==
    /\ \A s \in Services : <<s, 1>> \in Watchers
    /\ \A w \in Watchers : w[1] \in Services /\ w[2] \in Nat /\ w[2] >= 1 /\ w = <<w[1], w[2]>>
BY IntentionsAssumption DEF Watchers

LEMMA ReportingStep == TypeOK /\ Reporting /\ [Next]_vars => Reporting'
<1> SUFFICES ASSUME TypeOK, Reporting, [Next]_vars PROVE Reporting'
    OBVIOUS
<1>1. ASSUME NEW new \in SUBSET Services, SetIngressServices(new)
      PROVE  Reporting'
    <2>1. /\ prev' = prev /\ refs' = refs
          /\ started' = [s \in Services |-> IF s \in new \ services THEN started[s] + 1 ELSE started[s]]
        BY <1>1 DEF SetIngressServices, indexVars
    <2>2. \A s \in Services : started[s] \in Nat /\ started'[s] \in {started[s], started[s] + 1}
        BY <2>1 DEF TypeOK
    <2>3. ASSUME NEW w \in Watchers, watcher'[w] # "none"
          PROVE  w[2] <= started'[w[1]]
        <3>1. watcher'[w] = IF w[1] \in services \ new THEN AfterCancel(w)
                            ELSE IF w[1] \in new \ services /\ w[2] = started[w[1]] + 1 THEN "asking"
                            ELSE watcher[w]
            BY <1>1 DEF SetIngressServices
        <3>2. CASE w[1] \in new \ services /\ w[2] = started[w[1]] + 1
            BY <2>1, <3>2, FirstWatchers DEF TypeOK
        <3>3. CASE ~(w[1] \in new \ services /\ w[2] = started[w[1]] + 1)
            <4>1. watcher[w] # "none"
                BY <2>3, <3>1, <3>3 DEF AfterCancel
            <4>2. w[2] <= started[w[1]]
                BY <4>1 DEF Reporting
            <4> QED BY <2>2, <4>2, FirstWatchers
        <3> QED BY <3>2, <3>3
    <2>4. ASSUME NEW s \in Services
          PROVE  /\ started'[s] = 0 => prev'[<<s, 1>>] = {}
                 /\ started'[s] <= 1 => \A t \in Targets : s \in refs'[t] <=> t \in prev'[<<s, 1>>]
        <3>1. started'[s] = 0 => started[s] = 0
            BY <2>2
        <3>2. started'[s] <= 1 => started[s] <= 1
            BY <2>2
        <3> QED BY <2>1, <3>1, <3>2 DEF Reporting
    <2> QED BY <2>3, <2>4 DEF Reporting
<1>2. ASSUME NEW w \in Watchers, TakeResult(w)
      PROVE  Reporting'
    <2> DEFINE added == names[w] \ prev[w]
               removed == prev[w] \ names[w]
    <2>1. /\ refs' = [t \in Targets |-> IF t \in added THEN refs[t] \cup {w[1]}
                                       ELSE IF t \in removed THEN refs[t] \ {w[1]} ELSE refs[t]]
          /\ prev' = [prev EXCEPT ![w] = names[w]] /\ started' = started
          /\ watcher[w] = "holding" /\ \A v \in Watchers : v # w => watcher'[v] = watcher[v]
        BY <1>2 DEF TakeResult, handleChainResult, TypeOK
    <2>2. w[1] \in Services /\ w[2] >= 1 /\ w[2] <= started[w[1]] /\ w[2] \in Nat /\ w = <<w[1], w[2]>>
        BY <2>1, FirstWatchers DEF Reporting
    <2>3. ASSUME NEW v \in Watchers, watcher'[v] # "none" PROVE v[2] <= started'[v[1]]
        BY <2>1, <2>2, <2>3 DEF Reporting
    <2>4. ASSUME NEW s \in Services, s # w[1]
          PROVE  prev'[<<s, 1>>] = prev[<<s, 1>>] /\ \A t \in Targets : s \in refs'[t] <=> s \in refs[t]
        BY <2>1, <2>2, <2>4, FirstWatchers DEF TypeOK
    <2>5. CASE started[w[1]] <= 1
        <3>1. w = <<w[1], 1>> /\ started[w[1]] # 0
            BY <2>2, <2>5 DEF TypeOK
        <3>2. prev'[<<w[1], 1>>] = names[w] /\ names[w] \subseteq Targets
            BY <2>1, <3>1 DEF TypeOK
        <3>3. \A t \in Targets : w[1] \in refs[t] <=> t \in prev[w]
            BY <2>2, <2>5, <3>1 DEF Reporting
        <3>4. \A t \in Targets : w[1] \in refs'[t] <=> t \in names[w]
            BY <2>1, <3>3 DEF TypeOK
        <3> QED BY <2>1, <2>3, <2>4, <3>1, <3>2, <3>4 DEF Reporting
    <2>6. CASE ~(started[w[1]] <= 1)
        <3>1. started[w[1]] # 0
            BY <2>2, <2>6 DEF TypeOK
        <3> QED BY <2>1, <2>3, <2>4, <2>6, <3>1 DEF Reporting
    <2> QED BY <2>5, <2>6
<1>3. ASSUME UNCHANGED <<started, prev, refs>>,
             \A w \in Watchers : watcher'[w] # "none" => watcher[w] # "none"
      PROVE  Reporting'
    BY <1>3 DEF Reporting
<1>4. CASE OthersStep
    BY <1>3, <1>4 DEF OthersStep, ChainChanges, IntentionEdited, watcherVars, indexVars
<1>5. CASE Stop
    <2>1. \A w \in Watchers : watcher'[w] # "none" => watcher[w] # "none"
        BY <1>5 DEF Stop, AfterCancel
    <2> QED BY <1>3, <1>5, <2>1 DEF Stop, indexVars
<1>6. CASE WatcherStep
    <2>1. PICK w \in Watchers : QueryAnswers(w) \/ WatcherReturns(w)
        BY <1>6 DEF WatcherStep
    <2>2. \A v \in Watchers : watcher'[v] # "none" => watcher[v] # "none"
        BY <2>1 DEF QueryAnswers, WatcherReturns, TypeOK
    <2> QED BY <1>3, <2>1, <2>2 DEF QueryAnswers, WatcherReturns, indexVars
<1>7. CASE LoopStep /\ ~ \E w \in Watchers : TakeResult(w)
    <2>1. UNCHANGED <<watcherVars, refs>>
        BY <1>7 DEF LoopStep, TakeForce, Tick, LoopReturns, Get, CAS, Delete, AddingDone, SyncDone, indexVars
    <2> QED BY <1>3, <2>1 DEF watcherVars
<1>8. CASE UNCHANGED vars
    BY <1>3, <1>8 DEF vars, watcherVars, indexVars
<1> QED BY <1>1, <1>2, <1>4, <1>5, <1>6, <1>7, <1>8 DEF Next, AdapterStep, LoopStep

\* For any number of services and targets, and results taken in any order: a
\* service that has had one watcher is counted for exactly what it reported.
THEOREM ReferencesAreExact == Spec => []ReportsAreReferenced
<1>1. Init => Reporting
    BY FirstWatchers DEF Init, Reporting
<1>2. ASSUME TypeOK, Reporting PROVE ReportsAreReferenced
    <2> SUFFICES ASSUME NEW s \in services, started[s] = 1
                 PROVE  {t \in Targets : s \in refs[t]} = prev[<<s, 1>>]
        BY DEF ReportsAreReferenced
    <2>1. s \in Services /\ prev[<<s, 1>>] \subseteq Targets
        BY <1>2, FirstWatchers DEF TypeOK
    <2>2. \A t \in Targets : s \in refs[t] <=> t \in prev[<<s, 1>>]
        BY <1>2, <2>1 DEF Reporting
    <2> QED BY <2>1, <2>2
<1> QED BY <1>1, <1>2, ReportingStep, TypeCorrect, PTL DEF Spec
=============================================================================
