---------------------------- MODULE SyncAdapter ----------------------------
(***************************************************************************)
(* The Consul sync adapter (internal/adapters/consul/sync.go): Sync        *)
(* publishes a resolved gateway as config entries, Clear removes them.     *)
(* Consul has no transaction over several entries, so each of them is a    *)
(* sequence of stages, each stage one call per entry, in any order.        *)
(*                                                                         *)
(* The module follows one gateway.  The adapter's mutex admits one Sync or *)
(* Clear at a time and the entries of two gateways have different names,   *)
(* so that gateways do not meet here.  Every call of the Consul API may    *)
(* fail, before or after the change was applied, and the controller may    *)
(* crash between any two calls: a.sync lives in memory only.               *)
(***************************************************************************)
EXTENDS DiscoveryChain

CONSTANT Snapshots      \* the resolved gateways that Sync is called with

ASSUME SnapshotsAssumption ==
    /\ Snapshots \subseteq [Listeners -> ResolvedListeners]
    /\ \A gw \in Snapshots : \A i \in Listeners : \A h \in Hosts : Len(gw[i].http[h]) <= MaxRules

VARIABLES
    live,       \* the config entries Consul has
    body,       \* what a live router or splitter says
    services,   \* the services of the live ingress entry, by listener
    found,      \* whether a.sync has an entry for the gateway
    tracked,    \* the entries that entry records
    intentions, \* the services the IntentionsReconciler was given, or none
    op,         \* the call under way: "none", "sync" or "clear"
    target,     \* the resolved gateway of the sync under way
    wanted,     \* the services of its ingress entry
    stage,      \* position in the stages of op
    todo,       \* the entries of the stage still to be written or deleted
    failed,     \* whether a call of the stage returned an error
    result,     \* how the last call ended
    suspect     \* history: entries of a Sync that ended in an error, or that
                \* were tracked when the controller crashed

consulVars == <<live, body, services>>
memoryVars == <<found, tracked, intentions>>
callVars == <<op, target, wanted, stage, todo, failed>>
vars == <<consulVars, memoryVars, callVars, result, suspect>>

NoServices == [i \in Listeners |-> {}]

----------------------------------------------------------------------------
(* The stages of Sync and of Clear. *)

Stage(verb, kind) == [verb |-> verb, kind |-> kind]

\* Mutant of SyncStages: the splitters are written after the ingress entry.
SyncStagesSplittersLate ==
    << Stage("set", "service-defaults"),
       Stage("set", "service-router"),
       Stage("set", "ingress-gateway"),
       Stage("set", "service-splitter"),
       Stage("delete", "service-router"),
       Stage("delete", "service-splitter"),
       Stage("delete", "service-defaults") >>

SyncStages ==
    << Stage("set", "service-defaults"),
       Stage("set", "service-router"),
       Stage("set", "service-splitter"),
       Stage("set", "ingress-gateway"),
       Stage("delete", "service-router"),
       Stage("delete", "service-splitter"),
       Stage("delete", "service-defaults") >>

\* Mutant of ClearStages: the ingress entry goes last.
ClearStagesIngressLast ==
    << Stage("delete", "service-router"),
       Stage("delete", "service-splitter"),
       Stage("delete", "service-defaults"),
       Stage("delete", "ingress-gateway") >>

ClearStages ==
    << Stage("delete", "ingress-gateway"),
       Stage("delete", "service-router"),
       Stage("delete", "service-splitter"),
       Stage("delete", "service-defaults") >>

Stages(o) == IF o = "sync" THEN SyncStages ELSE ClearStages

OfKind(entries, kind) == {e \in entries : e.kind = kind}

\* Mutant of SyncWork: Intersection is called instead of Difference.
SyncWorkIntersection(gw, s) ==
    OfKind(IF s.verb = "set" THEN Computed(gw) ELSE tracked \cap Computed(gw), s.kind)

\* The entries a stage of Sync handles: the computed ones are written, the
\* tracked ones that are no longer computed are deleted (Difference).
SyncWork(gw, s) ==
    OfKind(IF s.verb = "set" THEN Computed(gw) ELSE tracked \ Computed(gw), s.kind)

\* The entries a stage of Clear deletes.
ClearWork(s) == OfKind(tracked, s.kind)

Work(o, gw, n) ==
    IF o = "sync" THEN SyncWork(gw, SyncStages[n]) ELSE ClearWork(ClearStages[n])

Init ==
    /\ live = {}
    /\ body = [e \in Entries |-> <<>>]
    /\ services = NoServices
    /\ found = FALSE
    /\ tracked = {}
    /\ intentions = {}
    /\ op = "none"
    /\ target \in Snapshots
    /\ wanted = NoServices
    /\ stage = 1
    /\ todo = {}
    /\ failed = FALSE
    /\ result = "none"
    /\ suspect = {}

----------------------------------------------------------------------------
SyncStarts(gw, choice) ==
    /\ op = "none"
    /\ choice \in Choices(gw)
    /\ op' = "sync"
    /\ target' = gw
    /\ wanted' = IngressServices(gw, choice)
    /\ stage' = 1
    /\ todo' = Work("sync", gw, 1)
    /\ failed' = FALSE
    /\ result' = "none"
    /\ UNCHANGED <<consulVars, memoryVars, suspect>>

\* Clear of a gateway that a.sync does not know does nothing.
ClearStarts ==
    /\ op = "none"
    /\ IF found
       THEN /\ op' = "clear"
            /\ stage' = 1
            /\ todo' = Work("clear", target, 1)
            /\ failed' = FALSE
            /\ result' = "none"
       ELSE /\ result' = "cleared"
            /\ UNCHANGED <<op, stage, todo, failed>>
    /\ UNCHANGED <<consulVars, memoryVars, target, wanted, suspect>>

\* What one call does to Consul when it takes effect.
Apply(e, verb) ==
    IF verb = "set"
    THEN /\ live' = live \cup {e}
         /\ body' = [body EXCEPT ![e] = Body(target, e)]
         /\ services' = IF e = IngressEntry THEN wanted ELSE services
    ELSE /\ live' = live \ {e}
         /\ body' = [body EXCEPT ![e] = <<>>]
         /\ services' = IF e = IngressEntry THEN NoServices ELSE services

\* Mutant of Call: the error of a single entry is dropped.
CallIgnoringErrors(e, applied, error) ==
    /\ op # "none"
    /\ e \in todo
    /\ applied \/ error
    /\ todo' = todo \ {e}
    /\ failed' = failed
    /\ IF applied THEN Apply(e, Stages(op)[stage].verb) ELSE UNCHANGED consulVars
    /\ UNCHANGED <<memoryVars, op, target, wanted, stage, result, suspect>>

\* One call of setConfigEntries or deleteConfigEntries, which carry on after
\* an error.
Call(e, applied, error) ==
    /\ op # "none"
    /\ e \in todo
    /\ applied \/ error
    /\ todo' = todo \ {e}
    /\ failed' = (failed \/ error)
    /\ IF applied THEN Apply(e, Stages(op)[stage].verb) ELSE UNCHANGED consulVars
    /\ UNCHANGED <<memoryVars, op, target, wanted, stage, result, suspect>>

\* A stage without errors is followed by the next one.
StageDone ==
    /\ op # "none"
    /\ todo = {}
    /\ ~failed
    /\ stage < Len(Stages(op))
    /\ stage' = stage + 1
    /\ todo' = Work(op, target, stage + 1)
    /\ UNCHANGED <<consulVars, memoryVars, op, target, wanted, failed, result, suspect>>

\* A stage with an error is the last one; a.sync stays as it was.
StageFailed ==
    /\ op # "none"
    /\ todo = {}
    /\ failed
    /\ op' = "none"
    /\ result' = "failed"
    /\ suspect' = suspect \cup (IF op = "sync" THEN Computed(target) ELSE {})
    /\ UNCHANGED <<consulVars, memoryVars, target, wanted, stage, todo, failed>>

\* The end of Sync: setEntriesForGateway, then syncIntentionsForGateway, whose
\* error is returned although everything was published and recorded.
SyncDone(error) ==
    /\ op = "sync"
    /\ todo = {}
    /\ ~failed
    /\ stage = Len(SyncStages)
    /\ op' = "none"
    /\ found' = TRUE
    /\ tracked' = Computed(target)
    /\ intentions' = UNION {wanted[i] : i \in Listeners}
    /\ result' = IF error THEN "failed" ELSE "synced"
    /\ UNCHANGED <<consulVars, target, wanted, stage, todo, failed, suspect>>

\* The end of Clear: stopIntentionSyncForGateway and delete(a.sync, id).
ClearDone ==
    /\ op = "clear"
    /\ todo = {}
    /\ ~failed
    /\ stage = Len(ClearStages)
    /\ op' = "none"
    /\ found' = FALSE
    /\ tracked' = {}
    /\ intentions' = {}
    /\ result' = "cleared"
    /\ UNCHANGED <<consulVars, target, wanted, stage, todo, failed, suspect>>

\* The controller dies, in the middle of a call or not, and starts anew.
Crash ==
    /\ found' = FALSE
    /\ tracked' = {}
    /\ intentions' = {}
    /\ op' = "none"
    /\ stage' = 1
    /\ todo' = {}
    /\ failed' = FALSE
    /\ result' = "none"
    /\ suspect' = suspect \cup tracked \cup (IF op = "sync" THEN Computed(target) ELSE {})
    /\ UNCHANGED <<consulVars, target, wanted>>

Next ==
    \/ \E gw \in Snapshots : \E choice \in Choices(gw) : SyncStarts(gw, choice)
    \/ ClearStarts
    \/ \E e \in todo, applied, error \in BOOLEAN : Call(e, applied, error)
    \/ StageDone
    \/ StageFailed
    \/ \E error \in BOOLEAN : SyncDone(error)
    \/ ClearDone
    \/ Crash

Spec == Init /\ [][Next]_vars

----------------------------------------------------------------------------
TypeOK ==
    /\ live \in SUBSET Entries
    /\ body \in [Entries -> Seq(Rules)]
    /\ services \in [Listeners -> SUBSET (Virtual \cup Backends)]
    /\ found \in BOOLEAN
    /\ tracked \in SUBSET Entries
    /\ intentions \in SUBSET (Virtual \cup Backends)
    /\ op \in {"none", "sync", "clear"}
    /\ target \in Snapshots
    /\ wanted \in [Listeners -> SUBSET (Virtual \cup Backends)]
    /\ stage \in 1..7
    /\ op = "clear" => stage \in 1..4
    /\ todo \in SUBSET Entries
    /\ failed \in BOOLEAN
    /\ result \in {"none", "synced", "cleared", "failed"}
    /\ suspect \in SUBSET Entries

\* The consolidated HTTP services that the live ingress entry sends traffic to.
Exposed == {v \in Virtual : \E i \in Listeners : v \in services[i]}

\* At every moment, in the middle of a Sync or Clear, after a partial failure
\* and after a crash, an HTTP service that the live ingress entry names has its
\* router and its service-defaults (without which Consul treats it as TCP).
IngressIsBacked ==
    \A v \in Exposed :
        /\ Entry("service-router", v) \in live
        /\ Entry("service-defaults", v) \in live

\* The virtual services that the live router of v routes to.
Splitters(v) ==
    {<<v[1], n>> : n \in {m \in DOMAIN body[Entry("service-router", v)] :
                              body[Entry("service-router", v)][m] \in SplitRules}}

\* The ingress entry starts to name an HTTP service only when everything that
\* serves it is in place: "perform the operations in a set that is least likely
\* to induce downtime" (sync.go).
ExposedWhenComplete ==
    [][\A v \in Exposed' \ Exposed :
          /\ {Entry("service-router", v), Entry("service-defaults", v)} \subseteq live
          /\ \A s \in Splitters(v) :
                 /\ {Entry("service-splitter", s), Entry("service-defaults", s)} \subseteq live
                 /\ body[Entry("service-splitter", s)] = <<body[Entry("service-router", v)][s[2]]>>
      ]_vars

\* When Sync reports success, Consul says exactly what the gateway says of
\* every entry of the gateway, whatever failed before it.
SuccessIsPublished ==
    result = "synced" =>
        /\ Computed(target) \subseteq live
        /\ services = wanted
        /\ \A e \in Computed(target) : body[e] = Body(target, e)

\* An entry is left behind in Consul only by a Sync that failed or by a crash;
\* between calls everything else that is live is tracked, hence removable.
OnlyFailuresLeak ==
    op = "none" => live \subseteq tracked \cup suspect

\* "Routing for a given hostname must behave based on the aggregate of all rules
\* that apply to it" (http.go): after a successful Sync every rule that a
\* listener has for a hostname is in the router of the service it exposes.
EveryRuleIsRouted ==
    result = "synced" =>
        \A i \in Listeners : \A h \in Hosted(target[i]) : \A n \in DOMAIN target[i].http[h] :
            \E m \in DOMAIN body[Entry("service-router", <<h, 0>>)] :
                body[Entry("service-router", <<h, 0>>)][m] = target[i].http[h][n]

----------------------------------------------------------------------------
(* The contract of the adapter, as its callers see it: see SyncContract. *)

\* An entry with what it says.
Says(e, rules, listeners) ==
    <<e, rules, IF e = IngressEntry THEN listeners ELSE NoServices>>

\* What Consul has, and what a resolved gateway asks for.
Published == {Says(e, body[e], services) : e \in live}
Rendering(gw, listeners) == {Says(e, Body(gw, e), listeners) : e \in Computed(gw)}

Renderings ==
    UNION {{Rendering(gw, IngressServices(gw, choice)) : choice \in Choices(gw)} : gw \in Snapshots}

Contract == INSTANCE SyncContract WITH
    Renderings <- Renderings,
    entries <- Published,
    known <- tracked,
    call <- op,
    goal <- IF op = "sync" THEN Rendering(target, wanted) ELSE {},
    outcome <- result

\* The adapter implements its contract: a Sync writes the entries of the
\* gateway and removes only what an earlier Sync published and the gateway
\* does without, and reports success only when all of that is done; a failed
\* call forgets nothing that a later one has to remove; nothing but a call
\* under way changes Consul.
ImplementsContract == Contract!Spec
=============================================================================
