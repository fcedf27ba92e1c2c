----------------------------- MODULE Intentions -----------------------------
(***************************************************************************)
(* The intentions reconciler of one gateway (internal/consul/intentions.go *)
(* and disco_chain_watcher.go), from its creation to Stop.  For every      *)
(* service of the ingress entry a goroutine watches the compiled discovery *)
(* chain; the reconcile loop counts the references to the chains' targets  *)
(* and makes the gateway a source of each target's service-intentions      *)
(* entry, which operators and other gateways edit too.                     *)
(*                                                                         *)
(* A watcher hands its result to the loop over an unbuffered channel, a    *)
(* single step.  Reads and writes of Consul are steps of their own.        *)
(* Consul's modify indices only grow, so that all a compare-and-set needs  *)
(* of them is whether the entry was modified since the loop read it.       *)
(***************************************************************************)
EXTENDS Naturals, FiniteSets

CONSTANTS
    Services,       \* services that the ingress entry may name
    Targets,        \* services that discovery chains lead to
    TCPServices,    \* the services whose chain has protocol tcp
    InitialChains,  \* what the chains may be when the reconciler is created
    Gateway,        \* the source that the reconciler maintains
    Others,         \* the sources of operators and of other gateways
    Absent,         \* no service-intentions entry
    Unread,         \* the loop has not read the entry yet
    NoTarget,       \* the loop is between two targets
    MaxRetries,     \* updateIntentionsMaxRetries
    MaxWatchers,    \* bound on the watchers that are started
    MaxEdits        \* bound on the changes made in Consul by others

ASSUME IntentionsAssumption ==
    /\ {MaxRetries, MaxEdits} \subseteq Nat
    /\ MaxWatchers \in Nat \ {0}
    /\ Gateway \notin Others
    /\ \A e \in SUBSET (Others \cup {Gateway}) : e # Absent /\ e # Unread
    /\ Absent # Unread
    /\ NoTarget \notin Targets
    /\ TCPServices \subseteq Services
    /\ InitialChains \subseteq [Services -> SUBSET Targets]

Entries == (SUBSET (Others \cup {Gateway})) \cup {Absent}
Watchers == Services \X (1..MaxWatchers)

VARIABLES
    chain,      \* the targets of the compiled discovery chains in Consul
    intention,  \* the sources of the targets' service-intentions entries
    edits,      \* how many changes others have made
    adapter,    \* the caller, with the adapter's mutex: idle, offering, waiting
    services,   \* ingressServiceIndex, the keys of chainWatchers
    started,    \* how many watchers a service has had
    watcher,    \* not running, asking Consul, or holding an answer
    names,      \* the targets of that answer
    prev,       \* prevResults
    refs,       \* targetIndex: the services that refer to a target
    tombstones, \* targetTombstones
    stopped,    \* whether ctx is cancelled
    phase,      \* the loop: idle, adding, removing or ended
    forced,     \* whether a call of Reconcile waits for the sync under way
    todo,       \* targets of the phase that are still to be updated
    target,     \* the target being updated
    seen,       \* its entry as read in this attempt
    fresh,      \* whether the entry is unmodified since
    retries     \* failed attempts on the target

consulVars == <<chain, intention, edits>>
watcherVars == <<started, watcher, names, prev>>
indexVars == <<refs, tombstones>>
updateVars == <<target, seen, fresh, retries>>
loopVars == <<phase, forced, todo, updateVars>>
vars == <<consulVars, adapter, services, watcherVars, indexVars, stopped, loopVars>>

Init ==
    /\ chain \in InitialChains
    /\ intention = [t \in Targets |-> Absent]
    /\ edits = 0
    /\ adapter = "idle"
    /\ services = {}
    /\ started = [s \in Services |-> 0]
    /\ watcher = [w \in Watchers |-> "none"]
    /\ names = [w \in Watchers |-> {}]
    /\ prev = [w \in Watchers |-> {}]
    /\ refs = [t \in Targets |-> {}]
    /\ tombstones = {}
    /\ stopped = FALSE
    /\ phase = "idle"
    /\ forced = FALSE
    /\ todo = {}
    /\ target = NoTarget
    /\ seen = Unread
    /\ fresh = FALSE
    /\ retries = 0

----------------------------------------------------------------------------
(* Consul, as others change it. *)

ChainChanges(s, c) ==
    /\ edits < MaxEdits
    /\ c # chain[s]
    /\ edits' = edits + 1
    /\ chain' = [chain EXCEPT ![s] = c]
    /\ UNCHANGED <<intention, adapter, services, watcherVars, indexVars, stopped, loopVars>>

\* Somebody adds or removes sources, ours included, or the whole entry.
IntentionEdited(t, sources) ==
    /\ edits < MaxEdits
    /\ sources # intention[t]
    /\ edits' = edits + 1
    /\ intention' = [intention EXCEPT ![t] = sources]
    /\ fresh' = (fresh /\ t # target)
    /\ UNCHANGED <<chain, adapter, services, watcherVars, indexVars, stopped,
                   phase, forced, todo, target, seen, retries>>

----------------------------------------------------------------------------
(* The adapter, which holds its mutex until the call returns. *)

\* A watcher whose context is cancelled: its query fails and it returns; one
\* that holds an answer has yet to come to its select.
AfterCancel(w) == IF watcher[w] = "asking" THEN "none" ELSE watcher[w]

\* updateChainWatchers and the start of Reconcile: watchers of services that
\* are no longer named are cancelled, new ones are started.
SetIngressServices(new) ==
    LET added == new \ services
        removed == services \ new
    IN /\ adapter = "idle"
       /\ ~stopped
       /\ Cardinality({w \in Watchers : w[2] <= started[w[1]]} \cup (added \X {0})) <= MaxWatchers
       /\ started' = [s \in Services |-> IF s \in added THEN started[s] + 1 ELSE started[s]]
       /\ watcher' = [w \in Watchers |->
              IF w[1] \in removed THEN AfterCancel(w)
              ELSE IF w[1] \in added /\ w[2] = started[w[1]] + 1 THEN "asking"
              ELSE watcher[w]]
       /\ services' = new
       /\ adapter' = "offering"
       /\ UNCHANGED <<consulVars, names, prev, indexVars, stopped, loopVars>>

\* Clear calls Stop; the mutex keeps it apart from a call of Reconcile.
Stop ==
    /\ adapter = "idle"
    /\ ~stopped
    /\ stopped' = TRUE
    /\ watcher' = [w \in Watchers |-> AfterCancel(w)]
    /\ UNCHANGED <<consulVars, adapter, services, started, names, prev, indexVars, loopVars>>

----------------------------------------------------------------------------
(* The watchers. *)

Cancelled(w) == stopped \/ w[1] \notin services \/ w[2] # started[w[1]]

\* A chain's targets include the service it belongs to, which is meant only if
\* it is a TCP service.
compiledDiscoChainToServiceNames(s) == {t \in chain[s] : t # s \/ s \in TCPServices}

\* The blocking query answers with a change.  One that fails is asked again, and
\* an answer that brings nothing new wakes the loop as Tick does.
QueryAnswers(w) ==
    /\ watcher[w] = "asking"
    /\ compiledDiscoChainToServiceNames(w[1]) # prev[w]
    /\ watcher' = [watcher EXCEPT ![w] = "holding"]
    /\ names' = [names EXCEPT ![w] = compiledDiscoChainToServiceNames(w[1])]
    /\ UNCHANGED <<consulVars, adapter, services, started, prev, indexVars, stopped, loopVars>>

\* The select of a cancelled watcher takes the case of its context.
WatcherReturns(w) ==
    /\ watcher[w] = "holding"
    /\ Cancelled(w)
    /\ watcher' = [watcher EXCEPT ![w] = "none"]
    /\ names' = [names EXCEPT ![w] = {}]
    /\ UNCHANGED <<consulVars, adapter, services, started, prev, indexVars, stopped, loopVars>>

----------------------------------------------------------------------------
(* The reconcile loop: what wakes it. *)

Referenced == {t \in Targets : refs[t] # {}}

\* The first half of syncIntentions: the targets to be given our source.
StartSync(referenced, force) ==
    /\ phase = "idle"
    /\ phase' = "adding"
    /\ todo' = referenced
    /\ forced' = force

TakeForce ==
    /\ adapter = "offering"
    /\ adapter' = "waiting"
    /\ StartSync(Referenced, TRUE)
    /\ UNCHANGED <<consulVars, services, watcherVars, indexVars, stopped, updateVars>>

Tick ==
    /\ StartSync(Referenced, FALSE)
    /\ UNCHANGED <<consulVars, adapter, services, watcherVars, indexVars, stopped, updateVars>>

\* Mutant of handleChainResult: a target that is back keeps its tombstone.
handleChainResultKeepingTombstones(s, added, removed) ==
    /\ refs' = [t \in Targets |-> IF t \in added THEN refs[t] \cup {s}
                                  ELSE IF t \in removed THEN refs[t] \ {s} ELSE refs[t]]
    /\ tombstones' = tombstones \cup {t \in removed : refs'[t] = {}}

\* Mutant of handleChainResult: the target goes, whoever else refers to it.
handleChainResultForAll(s, added, removed) ==
    /\ refs' = [t \in Targets |-> IF t \in added THEN refs[t] \cup {s}
                                  ELSE IF t \in removed THEN {} ELSE refs[t]]
    /\ tombstones' = (tombstones \ added) \cup {t \in removed : refs'[t] = {}}

\* A target that gains a reference is no longer to be removed; one that has
\* lost its last reference is.
handleChainResult(s, added, removed) ==
    /\ refs' = [t \in Targets |-> IF t \in added THEN refs[t] \cup {s}
                                  ELSE IF t \in removed THEN refs[t] \ {s} ELSE refs[t]]
    /\ tombstones' = (tombstones \ added) \cup {t \in removed : refs'[t] = {}}

\* A watcher's result is received, also that of a cancelled watcher whose
\* select finds the loop ready and takes that case.
TakeResult(w) ==
    /\ watcher[w] = "holding"
    /\ handleChainResult(w[1], names[w] \ prev[w], prev[w] \ names[w])
    /\ watcher' = [watcher EXCEPT ![w] = IF Cancelled(w) THEN "none" ELSE "asking"]
    /\ prev' = [prev EXCEPT ![w] = names[w]]
    /\ names' = [names EXCEPT ![w] = {}]
    /\ StartSync({t \in Targets : refs'[t] # {}}, FALSE)
    /\ UNCHANGED <<consulVars, adapter, services, started, stopped, updateVars>>

LoopReturns ==
    /\ phase = "idle"
    /\ stopped
    /\ phase' = "ended"
    /\ UNCHANGED <<consulVars, adapter, services, watcherVars, indexVars, stopped,
                   forced, todo, updateVars>>

----------------------------------------------------------------------------
(* syncIntentions, target by target; updateIntentionSources. *)

Syncing == phase \in {"adding", "removing"}

\* The update is over: the loop goes on to another target, and a tombstone is
\* kept if it failed.
TargetDone(t, success) ==
    /\ todo' = todo \ {t}
    /\ target' = NoTarget
    /\ seen' = Unread
    /\ fresh' = FALSE
    /\ retries' = 0
    /\ tombstones' = IF phase = "removing" /\ success THEN tombstones \ {t} ELSE tombstones

\* Mutant of AttemptFailed: one retry too many.
AttemptFailedOnceMore(t) ==
    IF retries <= MaxRetries
    THEN /\ target' = t
         /\ retries' = retries + 1
         /\ seen' = Unread
         /\ fresh' = FALSE
         /\ UNCHANGED <<todo, tombstones>>
    ELSE TargetDone(t, FALSE)

\* An attempt has failed; the last one is the target's failure.
AttemptFailed(t) ==
    IF retries < MaxRetries
    THEN /\ target' = t
         /\ retries' = retries + 1
         /\ seen' = Unread
         /\ fresh' = FALSE
         /\ UNCHANGED <<todo, tombstones>>
    ELSE TargetDone(t, FALSE)

\* Mutant of Modifies: an entry that is not there is not made.
ModifiesExisting(entry) ==
    IF phase = "adding" THEN entry # Absent /\ Gateway \notin entry
    ELSE entry # Absent /\ Gateway \in entry

\* Whether addSourceCB, or delSourceCB, modifies the entry.
Modifies(entry) ==
    IF phase = "adding" THEN entry = Absent \/ Gateway \notin entry
    ELSE entry # Absent /\ Gateway \in entry

\* getOrInitIntention and the callback; an entry that needs no change is done.
Get(t, error) ==
    /\ Syncing
    /\ seen = Unread
    /\ t \in todo
    /\ target \in {NoTarget, t}
    /\ IF error THEN AttemptFailed(t)
       ELSE IF ~Modifies(intention[t]) THEN TargetDone(t, TRUE)
       ELSE /\ target' = t
            /\ seen' = intention[t]
            /\ fresh' = TRUE
            /\ UNCHANGED <<todo, retries, tombstones>>
    /\ UNCHANGED <<consulVars, adapter, services, watcherVars, refs, stopped, phase, forced>>

\* The sources as the callback leaves them.
Updated ==
    IF phase = "adding" THEN (IF seen = Absent THEN {} ELSE seen) \cup {Gateway}
    ELSE seen \ {Gateway}

\* Mutant of CASAllowed: the index is not looked at.
CASAlwaysAllowed == TRUE

\* Index 0 stands for an entry that is not there.
CASAllowed == IF seen = Absent THEN intention[target] = Absent ELSE fresh

\* The update is written: applied by Consul if the index allows it, and the
\* answer may be lost.
CAS(applied, error) ==
    /\ Syncing
    /\ seen # Unread
    /\ Updated # {}
    /\ applied => CASAllowed
    /\ ~applied /\ CASAllowed => error
    /\ intention' = IF applied THEN [intention EXCEPT ![target] = Updated] ELSE intention
    /\ IF applied /\ ~error THEN TargetDone(target, TRUE) ELSE AttemptFailed(target)
    /\ UNCHANGED <<chain, edits, adapter, services, watcherVars, refs, stopped, phase, forced>>

\* An entry left without sources is deleted, whatever it has become meanwhile.
Delete(applied, error) ==
    /\ Syncing
    /\ seen # Unread
    /\ Updated = {}
    /\ applied \/ error
    /\ intention' = IF applied THEN [intention EXCEPT ![target] = Absent] ELSE intention
    /\ IF error THEN AttemptFailed(target) ELSE TargetDone(target, TRUE)
    /\ UNCHANGED <<chain, edits, adapter, services, watcherVars, refs, stopped, phase, forced>>

\* All targets have their source; the tombstones follow.
AddingDone ==
    /\ phase = "adding"
    /\ todo = {}
    /\ phase' = "removing"
    /\ todo' = tombstones
    /\ UNCHANGED <<consulVars, adapter, services, watcherVars, indexVars, stopped, forced, updateVars>>

\* Mutant of SyncDone: the caller of Reconcile gets no answer.
SyncDoneSilently ==
    /\ phase = "removing"
    /\ todo = {}
    /\ phase' = "idle"
    /\ forced' = FALSE
    /\ UNCHANGED <<consulVars, adapter, services, watcherVars, indexVars, stopped, todo, updateVars>>

\* The end of syncIntentions, and the answer to Reconcile.
SyncDone ==
    /\ phase = "removing"
    /\ todo = {}
    /\ phase' = "idle"
    /\ forced' = FALSE
    /\ adapter' = IF forced THEN "idle" ELSE adapter
    /\ UNCHANGED <<consulVars, services, watcherVars, indexVars, stopped, todo, updateVars>>

----------------------------------------------------------------------------
OthersStep ==
    \/ \E s \in Services, c \in SUBSET Targets : ChainChanges(s, c)
    \/ \E t \in Targets, sources \in Entries : IntentionEdited(t, sources)

AdapterStep == Stop \/ \E new \in SUBSET Services : SetIngressServices(new)

WatcherStep == \E w \in Watchers : QueryAnswers(w) \/ WatcherReturns(w)

LoopStep ==
    \/ TakeForce
    \/ Tick
    \/ \E w \in Watchers : TakeResult(w)
    \/ LoopReturns
    \/ \E t \in Targets, error \in BOOLEAN : Get(t, error)
    \/ \E applied, error \in BOOLEAN : CAS(applied, error) \/ Delete(applied, error)
    \/ AddingDone
    \/ SyncDone

Next == OthersStep \/ AdapterStep \/ WatcherStep \/ LoopStep

\* The loop never rests, select is fair to its cases, a query is answered, and
\* Consul answers some of the calls that are made again and again.  Operators
\* and the adapter owe nothing.
Fairness ==
    /\ WF_vars(LoopStep)
    /\ SF_vars(TakeForce)
    /\ \A s \in Services :
           /\ WF_vars(\E w \in Watchers : w[1] = s /\ QueryAnswers(w))
           /\ SF_vars(\E w \in Watchers : w[1] = s /\ TakeResult(w))
    /\ \A t \in Targets :
           /\ SF_vars(Get(t, FALSE))
           /\ SF_vars(target = t /\ CAS(TRUE, FALSE))

Spec == Init /\ [][Next]_vars /\ Fairness

----------------------------------------------------------------------------
TypeOK ==
    /\ chain \in [Services -> SUBSET Targets]
    /\ intention \in [Targets -> Entries]
    /\ edits \in 0..MaxEdits
    /\ adapter \in {"idle", "offering", "waiting"}
    /\ services \in SUBSET Services
    /\ started \in [Services -> Nat]
    /\ watcher \in [Watchers -> {"none", "asking", "holding"}]
    /\ names \in [Watchers -> SUBSET Targets]
    /\ prev \in [Watchers -> SUBSET Targets]
    /\ refs \in [Targets -> SUBSET Services]
    /\ tombstones \in SUBSET Targets
    /\ stopped \in BOOLEAN
    /\ phase \in {"idle", "adding", "removing", "ended"}
    /\ forced \in BOOLEAN
    /\ todo \in SUBSET Targets
    /\ target \in Targets \cup {NoTarget}
    /\ seen \in Entries \cup {Unread}
    /\ fresh \in BOOLEAN
    /\ retries \in 0..MaxRetries

\* The references that a service holds are exactly the targets its watcher has
\* reported, as long as the service has had no other watcher: results of
\* several watchers, taken in any order, neither lose nor invent a reference.
ReportsAreReferenced ==
    \A s \in services : started[s] = 1 =>
        {t \in Targets : s \in refs[t]} = prev[<<s, 1>>]

\* "intentions are only removed when they have no references to them"
\* (intentions.go): the loop takes the gateway's source only from a target that
\* no discovery chain refers to, although the decision was taken earlier.
RemovedOnlyUnreferenced ==
    [][\A t \in Targets :
          /\ intention[t] # Absent /\ Gateway \in intention[t]
          /\ intention'[t] = Absent \/ Gateway \notin intention'[t]
          /\ edits' = edits
          => refs[t] = {}]_vars

\* The loop never costs anybody else a source, whatever is edited between its
\* read and its write; the one exception is the deletion of an entry that was
\* modified since it was read, the race that updateIntentionSources documents.
OthersKeepTheirSources ==
    [][\A t \in Targets :
          /\ edits' = edits
          /\ intention[t] # Absent
          => \/ intention'[t] # Absent /\ intention[t] \cap Others \subseteq intention'[t]
             \/ intention'[t] = Absent
                /\ (intention[t] \cap Others = {} \/ (t = target /\ ~fresh))]_vars

\* Reconcile, which Sync calls with the adapter's mutex held, returns.
ReconcileReturns == (adapter # "idle") ~> (adapter = "idle")

\* Once nothing is edited any more, the gateway may reach every target of every
\* service it has exposed without interruption, until it is stopped.
TargetsAreAllowed ==
    <>[](\A s \in services : \A t \in compiledDiscoChainToServiceNames(s) :
            started[s] = 1 /\ ~stopped =>
                intention[t] # Absent /\ Gateway \in intention[t])
=============================================================================
