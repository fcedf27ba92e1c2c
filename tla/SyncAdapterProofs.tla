------------------------- MODULE SyncAdapterProofs -------------------------
(***************************************************************************)
(* Proofs about SyncAdapter, for any listeners, hostnames, rules and       *)
(* resolved gateways: type correctness, what a successful Sync has         *)
(* published, that the ingress entry never names a service without its     *)
(* router, that only failures leave entries behind, and that the adapter   *)
(* implements SyncContract.                                                *)
(***************************************************************************)
EXTENDS SyncAdapter, WellFoundedInduction, TLAPS

----------------------------------------------------------------------------
(* The winners of DiscoveryChain are well defined. *)

\* A nonempty set of positions has a greatest one: by the well-foundedness of <
\* on what is left up to N.
LEMMA MaximumExists ==
    ASSUME NEW N \in Nat, NEW S \in SUBSET (1..N), S # {}
    PROVE  \E i \in S : \A j \in S : j <= i
<1> DEFINE T == {N - i : i \in S}
           R == OpToRel(<, Nat)
<1>1. \A i \in S : i \in Nat /\ N - i \in Nat
    OBVIOUS
<1>2. T \subseteq Nat /\ T # {}
    BY <1>1
<1>3. \E x \in T : \A y \in T : ~(<<y, x>> \in R)
    <2> HIDE DEF T, R
    <2>1. IsWellFoundedOn(R, Nat)
        BY NatLessThanWellFounded DEF R
    <2> QED BY <1>2, <2>1, WFMin
<1>4. PICK x \in T : \A y \in T : ~(<<y, x>> \in R)
    BY <1>3
<1>5. PICK i \in S : x = N - i
    OBVIOUS
<1>6. \A j \in S : ~(N - j < N - i)
    BY <1>1, <1>4, <1>5 DEF OpToRel
<1> QED BY <1>1, <1>6

\* The router of a hostname some listener has is the one of the last of them.
LEMMA WinnerIsLast ==
    ASSUME NEW gw, NEW h \in Hosts, NEW k \in Listeners, h \in Hosted(gw[k])
    PROVE  /\ Winner(gw, h) \in Listeners
           /\ h \in Hosted(gw[Winner(gw, h)])
           /\ \A j \in Listeners : h \in Hosted(gw[j]) => j <= Winner(gw, h)
<1> DEFINE S == {i \in Listeners : h \in Hosted(gw[i])}
<1>1. S \in SUBSET Listeners /\ S # {}
    OBVIOUS
<1>2. \E i \in S : \A j \in S : j <= i
    BY <1>1, MaximumExists, ListenersAssumption DEF Listeners
<1>3. \E i \in Listeners : /\ h \in Hosted(gw[i])
                           /\ \A j \in Listeners : h \in Hosted(gw[j]) => j <= i
    BY <1>2
<1> QED BY <1>3 DEF Winner

\* The same for a splitter.
LEMMA SplitWinnerIsLast ==
    ASSUME NEW gw, NEW h \in Hosts, NEW n, NEW k \in Listeners, n \in SplitsOf(gw[k], h)
    PROVE  /\ SplitWinner(gw, h, n) \in Listeners
           /\ n \in SplitsOf(gw[SplitWinner(gw, h, n)], h)
           /\ \A j \in Listeners : n \in SplitsOf(gw[j], h) => j <= SplitWinner(gw, h, n)
<1> DEFINE S == {i \in Listeners : n \in SplitsOf(gw[i], h)}
<1>1. S \in SUBSET Listeners /\ S # {}
    OBVIOUS
<1>2. \E i \in S : \A j \in S : j <= i
    BY <1>1, MaximumExists, ListenersAssumption DEF Listeners
<1>3. \E i \in Listeners : /\ n \in SplitsOf(gw[i], h)
                           /\ \A j \in Listeners : n \in SplitsOf(gw[j], h) => j <= i
    BY <1>2
<1> QED BY <1>3 DEF SplitWinner

----------------------------------------------------------------------------
(* Types. *)

\* A rule's position is a name's second part: snapshots respect MaxRules.
LEMMA SnapshotTypes ==
    ASSUME NEW gw \in Snapshots, NEW i \in Listeners, NEW h \in Hosts
    PROVE  /\ gw[i].http[h] \in Seq(Rules)
           /\ gw[i].tcp \in SUBSET Backends
           /\ Hosted(gw[i]) \subseteq Hosts
           /\ SplitsOf(gw[i], h) \subseteq 1..MaxRules
           /\ SplitsOf(gw[i], h) # {} => h \in Hosted(gw[i])
<1>1. gw[i] \in ResolvedListeners /\ Len(gw[i].http[h]) <= MaxRules
    BY SnapshotsAssumption
<1>2. gw[i].http[h] \in Seq(Rules) /\ gw[i].tcp \in SUBSET Backends
    BY <1>1 DEF ResolvedListeners
<1>3. DOMAIN gw[i].http[h] = 1..Len(gw[i].http[h]) /\ Len(gw[i].http[h]) \in Nat
    BY <1>2
<1>4. SplitsOf(gw[i], h) \subseteq 1..MaxRules
    BY <1>1, <1>3, MaxRulesAssumption DEF SplitsOf
<1>5. SplitsOf(gw[i], h) # {} => h \in Hosted(gw[i])
    BY <1>3 DEF SplitsOf, Hosted
<1> QED BY <1>2, <1>4, <1>5 DEF Hosted

\* Where a computed entry comes from.
LEMMA ComputedCases ==
    ASSUME NEW gw \in Snapshots, NEW e \in Computed(gw)
    PROVE  \/ e = IngressEntry
           \/ \E h \in Hosts : \E k \in Listeners :
                  h \in Hosted(gw[k]) /\ e = Entry("service-router", <<h, 0>>)
           \/ \E h \in Hosts : \E n \in 1..MaxRules : \E k \in Listeners :
                  n \in SplitsOf(gw[k], h) /\ e = Entry("service-splitter", <<h, n>>)
           \/ \E v \in Virtual : e = Entry("service-defaults", v)
<1>1. \A r \in ComputedRouters(gw) : \E h \in Hosts : \E k \in Listeners :
          h \in Hosted(gw[k]) /\ r = Entry("service-router", <<h, 0>>)
    BY DEF ComputedRouters, Hosted
<1>2. \A s \in ComputedSplitters(gw) :
          \E h \in Hosts : \E n \in 1..MaxRules : \E k \in Listeners :
              n \in SplitsOf(gw[k], h) /\ s = Entry("service-splitter", <<h, n>>)
    <2> SUFFICES ASSUME NEW s \in ComputedSplitters(gw)
                 PROVE  \E h \in Hosts : \E n \in 1..MaxRules : \E k \in Listeners :
                            n \in SplitsOf(gw[k], h) /\ s = Entry("service-splitter", <<h, n>>)
        OBVIOUS
    <2>1. PICK w \in Virtual : /\ \E i \in Listeners : w[2] \in SplitsOf(gw[i], w[1])
                               /\ s = Entry("service-splitter", w)
        BY DEF ComputedSplitters
    <2>2. w = <<w[1], w[2]>> /\ w[1] \in Hosts
        BY DEF Virtual
    <2> QED BY <2>1, <2>2, SnapshotTypes
<1>3. \A d \in ComputedDefaults(gw) : \E v \in Virtual : d = Entry("service-defaults", v)
    <2> SUFFICES ASSUME NEW r \in ComputedRouters(gw) \cup ComputedSplitters(gw)
                 PROVE  r.name \in Virtual
        BY DEF ComputedDefaults
    <2>1. CASE r \in ComputedRouters(gw)
        BY <1>1, <2>1, MaxRulesAssumption DEF Virtual, Entry
    <2>2. CASE r \in ComputedSplitters(gw)
        BY <1>2, <2>2, MaxRulesAssumption DEF Virtual, Entry
    <2> QED BY <2>1, <2>2
<1> QED BY <1>1, <1>2, <1>3 DEF Computed

\* What discoveryChain computes are entries, with bodies made of rules.
LEMMA ComputedTypes ==
    ASSUME NEW gw \in Snapshots
    PROVE  /\ Computed(gw) \subseteq Entries
           /\ \A e \in Computed(gw) : Body(gw, e) \in Seq(Rules)
<1> SUFFICES ASSUME NEW e \in Computed(gw) PROVE e \in Entries /\ Body(gw, e) \in Seq(Rules)
    OBVIOUS
<1>1. CASE e = IngressEntry
    BY <1>1 DEF Entries, Body, IngressEntry, Entry
<1>2. ASSUME NEW h \in Hosts, NEW k \in Listeners, h \in Hosted(gw[k]),
             e = Entry("service-router", <<h, 0>>)
      PROVE  e \in Entries /\ Body(gw, e) \in Seq(Rules)
    <2>1. e \in Entries
        BY <1>2, MaxRulesAssumption DEF Entries, Entry, Virtual, Kinds
    <2>2. Body(gw, e) = gw[Winner(gw, h)].http[h]
        BY <1>2 DEF Body, Entry
    <2> QED BY <1>2, <2>1, <2>2, WinnerIsLast, SnapshotTypes
<1>3. ASSUME NEW h \in Hosts, NEW n \in 1..MaxRules, NEW k \in Listeners,
             n \in SplitsOf(gw[k], h), e = Entry("service-splitter", <<h, n>>)
      PROVE  e \in Entries /\ Body(gw, e) \in Seq(Rules)
    <2>1. e \in Entries
        BY <1>3, MaxRulesAssumption DEF Entries, Entry, Virtual, Kinds
    <2>2. Body(gw, e) = <<gw[SplitWinner(gw, h, n)].http[h][n]>>
        BY <1>3 DEF Body, Entry
    <2>3. /\ SplitWinner(gw, h, n) \in Listeners
          /\ n \in SplitsOf(gw[SplitWinner(gw, h, n)], h)
        BY <1>3, SplitWinnerIsLast
    <2>4. gw[SplitWinner(gw, h, n)].http[h][n] \in Rules
        BY <2>3, RulesAssumption DEF SplitsOf
    <2> QED BY <2>1, <2>2, <2>4
<1>4. ASSUME NEW v \in Virtual, e = Entry("service-defaults", v)
      PROVE  e \in Entries /\ Body(gw, e) \in Seq(Rules)
    BY <1>4 DEF Entries, Entry, Kinds, Body
<1> QED BY <1>1, <1>2, <1>3, <1>4, ComputedCases

\* The stages, one by one.
LEMMA StageFacts ==
    /\ Len(SyncStages) = 7 /\ Len(ClearStages) = 4
    /\ SyncStages[1] = Stage("set", "service-defaults")
    /\ SyncStages[2] = Stage("set", "service-router")
    /\ SyncStages[3] = Stage("set", "service-splitter")
    /\ SyncStages[4] = Stage("set", "ingress-gateway")
    /\ SyncStages[5] = Stage("delete", "service-router")
    /\ SyncStages[6] = Stage("delete", "service-splitter")
    /\ SyncStages[7] = Stage("delete", "service-defaults")
    /\ ClearStages[1] = Stage("delete", "ingress-gateway")
    /\ ClearStages[2] = Stage("delete", "service-router")
    /\ ClearStages[3] = Stage("delete", "service-splitter")
    /\ ClearStages[4] = Stage("delete", "service-defaults")
BY DEF SyncStages, ClearStages

\* A stage works on entries, whatever was tracked.
LEMMA WorkTypes ==
    ASSUME TypeOK, NEW gw \in Snapshots, NEW o \in {"sync", "clear"}, NEW n
    PROVE  Work(o, gw, n) \subseteq Entries
BY ComputedTypes DEF Work, SyncWork, ClearWork, OfKind, TypeOK

\* An ingress entry names consolidated routes and TCP backends.
LEMMA IngressTypes ==
    ASSUME NEW gw \in Snapshots, NEW choice \in Choices(gw)
    PROVE  IngressServices(gw, choice) \in [Listeners -> SUBSET (Virtual \cup Backends)]
BY MaxRulesAssumption DEF IngressServices, Choices, Hosted, Virtual

\* A call of a well-typed stage leaves Consul well typed.
LEMMA CallTypes ==
    ASSUME TypeOK, NEW e \in todo, NEW applied \in BOOLEAN, NEW error \in BOOLEAN,
           Call(e, applied, error),
           Stages(op)[stage].verb = "set" => e \in Computed(target)
    PROVE  TypeOK'
<1>1. e \in Entries /\ target \in Snapshots
    BY DEF TypeOK
<1>2. live' \in SUBSET Entries /\ body' \in [Entries -> Seq(Rules)]
      /\ services' \in [Listeners -> SUBSET (Virtual \cup Backends)]
    <2>1. CASE ~applied
        BY <2>1 DEF Call, consulVars, TypeOK
    <2>2. CASE applied /\ Stages(op)[stage].verb = "set"
        <3>1. Body(target, e) \in Seq(Rules)
            BY <1>1, <2>2, ComputedTypes
        <3> QED BY <1>1, <2>2, <3>1 DEF Call, Apply, TypeOK
    <2>3. CASE applied /\ Stages(op)[stage].verb # "set"
        <3>1. <<>> \in Seq(Rules) /\ NoServices \in [Listeners -> SUBSET (Virtual \cup Backends)]
            BY DEF NoServices
        <3> QED BY <1>1, <2>3, <3>1 DEF Call, Apply, TypeOK
    <2> QED BY <2>1, <2>2, <2>3
<1> QED BY <1>2 DEF Call, memoryVars, TypeOK

----------------------------------------------------------------------------
(* The inductive invariant: what the stages passed so far have achieved. *)

\* The stage of Sync that writes entries of a kind, and the stage of Sync or
\* Clear that deletes them (Sync deletes no ingress entry).
SetIn(kind) ==
    CASE kind = "service-defaults" -> 1
      [] kind = "service-router" -> 2
      [] kind = "service-splitter" -> 3
      [] OTHER -> 4

DeletedIn(o, kind) ==
    LET before == IF o = "sync" THEN 4 ELSE 1
    IN CASE kind = "service-router" -> before + 1
         [] kind = "service-splitter" -> before + 2
         [] kind = "service-defaults" -> before + 3
         [] OTHER -> IF o = "sync" THEN 8 ELSE 1

\* Stage n is over as far as e is concerned, and without an error.
Passed(n, e) == n < stage \/ (n = stage /\ ~failed /\ e \notin todo)

\* Consul says of e what the gateway of the sync says.
Settled(e) ==
    /\ e \in live
    /\ body[e] = Body(target, e)
    /\ e = IngressEntry => services = wanted

TodoIsWork == op # "none" => todo \subseteq Work(op, target, stage)

\* The HTTP services of the new ingress entry have a router and defaults.
WantedIsComputed ==
    op = "sync" => \A i \in Listeners : \A v \in Virtual \cap wanted[i] :
        {Entry("service-router", v), Entry("service-defaults", v)} \subseteq Computed(target)

SetIsSettled ==
    op = "sync" => \A e \in Computed(target) : Passed(SetIn(e.kind), e) => Settled(e)

\* Clear takes the ingress entry away before anything else.
ClearHidesFirst ==
    /\ found => IngressEntry \in tracked
    /\ op = "clear" => found /\ (Passed(1, IngressEntry) => services = NoServices)

SyncedIsSettled ==
    result = "synced" => op = "none" /\ \A e \in Computed(target) : Settled(e)

LiveIsKnown ==
    live \subseteq tracked \cup suspect \cup (IF op = "sync" THEN Computed(target) ELSE {})

DeletedIsGone ==
    op # "none" => \A e \in tracked :
        (op = "sync" => e \notin Computed(target)) /\ Passed(DeletedIn(op, e.kind), e)
        => e \notin live

Publishing ==
    /\ TypeOK
    /\ TodoIsWork
    /\ WantedIsComputed
    /\ SetIsSettled
    /\ ClearHidesFirst
    /\ SyncedIsSettled
    /\ IngressIsBacked
    /\ LiveIsKnown
    /\ DeletedIsGone

----------------------------------------------------------------------------
(* Type correctness.  It rests on TodoIsWork: a body is computed only for   *)
(* what the gateway computes.                                               *)

\* What is known of an entry whose turn it is.
LEMMA TodoFacts ==
    ASSUME TypeOK, TodoIsWork, op # "none", NEW e \in todo
    PROVE  /\ op = "sync" /\ stage <= 4 =>
                  /\ Stages(op)[stage].verb = "set"
                  /\ e \in Computed(target)
                  /\ SetIn(e.kind) = stage
           /\ ~(op = "sync" /\ stage <= 4) =>
                  /\ Stages(op)[stage].verb = "delete"
                  /\ e \in tracked
                  /\ op = "sync" => e \notin Computed(target)
                  /\ DeletedIn(op, e.kind) = stage
<1>1. e \in Work(op, target, stage)
    BY DEF TodoIsWork
<1>2. CASE op = "sync"
    <2>1. stage \in {1, 2, 3, 4, 5, 6, 7}
        BY DEF TypeOK
    <2>2. e \in SyncWork(target, SyncStages[stage]) /\ Stages(op) = SyncStages
        BY <1>1, <1>2 DEF Work, Stages
    <2> QED BY <1>2, <2>1, <2>2, StageFacts DEF SyncWork, OfKind, Stage, SetIn, DeletedIn
<1>3. CASE op = "clear"
    <2>1. stage \in {1, 2, 3, 4}
        BY <1>3 DEF TypeOK
    <2>2. e \in ClearWork(ClearStages[stage]) /\ Stages(op) = ClearStages
        BY <1>1, <1>3 DEF Work, Stages
    <2> QED BY <1>3, <2>1, <2>2, StageFacts DEF ClearWork, OfKind, Stage, SetIn, DeletedIn
<1> QED BY <1>2, <1>3 DEF TypeOK

\* The stage a call starts with.
LEMMA FirstStage == 1 \in 1..7 /\ 1 \in 1..4
OBVIOUS

\* Every step keeps the types.
LEMMA TypedStep == TypeOK /\ TodoIsWork /\ [Next]_vars => TypeOK' /\ TodoIsWork'
<1> SUFFICES ASSUME TypeOK, TodoIsWork, [Next]_vars PROVE TypeOK' /\ TodoIsWork'
    OBVIOUS
<1>0. Computed(target) \subseteq Entries
    BY ComputedTypes DEF TypeOK
<1>1. ASSUME NEW gw \in Snapshots, NEW choice \in Choices(gw), SyncStarts(gw, choice)
      PROVE  TypeOK' /\ TodoIsWork'
    <2>0. Work("sync", gw, 1) \subseteq Entries
          /\ IngressServices(gw, choice) \in [Listeners -> SUBSET (Virtual \cup Backends)]
        BY WorkTypes, IngressTypes
    <2>1. TypeOK'
        BY <1>1, <2>0, FirstStage DEF SyncStarts, TypeOK, consulVars, memoryVars
    <2>2. TodoIsWork'
        BY <1>1 DEF SyncStarts, TodoIsWork, Work, SyncWork, memoryVars
    <2> QED BY <2>1, <2>2
<1>2. CASE ClearStarts
    <2>0. Work("clear", target, 1) \subseteq Entries
        BY WorkTypes DEF TypeOK
    <2>1. TypeOK'
        BY <1>2, <2>0, FirstStage DEF ClearStarts, TypeOK, consulVars, memoryVars
    <2>2. TodoIsWork'
        BY <1>2 DEF ClearStarts, TodoIsWork, Work, ClearWork, memoryVars
    <2> QED BY <2>1, <2>2
<1>3. ASSUME NEW e \in todo, NEW applied \in BOOLEAN, NEW error \in BOOLEAN, Call(e, applied, error)
      PROVE  TypeOK' /\ TodoIsWork'
    <2>1. Stages(op)[stage].verb = "set" => e \in Computed(target)
        BY <1>3, TodoFacts DEF Call
    <2>2. TypeOK'
        BY <1>3, <2>1, CallTypes
    <2>3. TodoIsWork'
        BY <1>3 DEF Call, TodoIsWork, Work, SyncWork, ClearWork, memoryVars
    <2> QED BY <2>2, <2>3
<1>4. CASE StageDone
    <2>1. op \in {"sync", "clear"} /\ stage + 1 \in 1..7 /\ (op = "clear" => stage + 1 \in 1..4)
        <3>1. op \in {"sync", "clear"} /\ stage \in 1..7 /\ (op = "clear" => stage \in 1..4)
            BY <1>4 DEF StageDone, TypeOK
        <3>2. (op = "sync" => stage < 7) /\ (op = "clear" => stage < 4)
            BY <1>4, StageFacts DEF StageDone, Stages
        <3> QED BY <3>1, <3>2
    <2>2. TypeOK'
        <3>1. Work(op, target, stage + 1) \subseteq Entries
            BY <2>1, WorkTypes DEF TypeOK
        <3> QED BY <1>4, <2>1, <3>1 DEF StageDone, TypeOK, consulVars, memoryVars
    <2>3. TodoIsWork'
        BY <1>4 DEF StageDone, TodoIsWork, Work, SyncWork, ClearWork, memoryVars
    <2> QED BY <2>2, <2>3
<1>5. CASE StageFailed
    BY <1>0, <1>5 DEF StageFailed, TypeOK, TodoIsWork, consulVars, memoryVars
<1>6. ASSUME NEW error \in BOOLEAN, SyncDone(error) PROVE TypeOK' /\ TodoIsWork'
    BY <1>0, <1>6 DEF SyncDone, TypeOK, TodoIsWork, consulVars
<1>7. CASE ClearDone
    BY <1>7 DEF ClearDone, TypeOK, TodoIsWork, consulVars
<1>8. CASE Crash
    BY <1>0, <1>8, FirstStage DEF Crash, TypeOK, TodoIsWork, consulVars
<1>9. CASE UNCHANGED vars
    BY <1>9 DEF vars, consulVars, memoryVars, callVars, TypeOK, TodoIsWork, Work, SyncWork, ClearWork
<1> QED BY <1>1, <1>2, <1>3, <1>4, <1>5, <1>6, <1>7, <1>8, <1>9 DEF Next

\* The first state is well typed, and nothing is under way.
LEMMA TypedInit == Init => TypeOK /\ TodoIsWork
<1>1. <<>> \in Seq(Rules)
    OBVIOUS
<1> QED BY <1>1, FirstStage DEF Init, TypeOK, TodoIsWork, NoServices

\* TypeOK is an invariant of the adapter.
THEOREM TypeCorrect == Spec => []TypeOK
<1>1. Spec => [](TypeOK /\ TodoIsWork)
    BY TypedInit, TypedStep, PTL DEF Spec
<1> QED BY <1>1, PTL

----------------------------------------------------------------------------
(* Publishing is inductive. *)

\* The kinds of entries and the stages they are handled in.
LEMMA KindFacts ==
    ASSUME NEW d \in Entries
    PROVE  /\ d = IngressEntry \/ d.kind \in {"service-defaults", "service-router", "service-splitter"}
           /\ d = IngressEntry => d.kind = "ingress-gateway"
           /\ SetIn(d.kind) \in {1, 2, 3, 4}
           /\ d # IngressEntry => SetIn(d.kind) # 4
           /\ DeletedIn("sync", d.kind) \in {5, 6, 7, 8}
           /\ d # IngressEntry => DeletedIn("sync", d.kind) # 8
           /\ DeletedIn("clear", d.kind) \in {1, 2, 3, 4}
           /\ d # IngressEntry => DeletedIn("clear", d.kind) # 1
<1>1. \/ d = IngressEntry /\ d.kind = "ingress-gateway"
      \/ d # IngressEntry /\ d.kind \in {"service-defaults", "service-router", "service-splitter"}
    BY DEF Entries, Kinds, IngressEntry, Entry
<1> QED BY <1>1 DEF SetIn, DeletedIn

\* Every entry has its turn: no stage leaves out an entry of its kind.
LEMMA WorkIsComplete ==
    ASSUME TypeOK, NEW gw \in Snapshots
    PROVE  /\ \A d \in Computed(gw) : d \in Work("sync", gw, SetIn(d.kind))
           /\ \A d \in tracked \ Computed(gw) : d \in Work("sync", gw, DeletedIn("sync", d.kind))
           /\ \A d \in tracked : d \in Work("clear", gw, DeletedIn("clear", d.kind))
<1>0. Computed(gw) \subseteq Entries /\ tracked \subseteq Entries /\ IngressEntry \in Computed(gw)
    BY ComputedTypes DEF TypeOK, Computed
<1>1. ASSUME NEW d \in Computed(gw) PROVE d \in Work("sync", gw, SetIn(d.kind))
    <2>1. SyncStages[SetIn(d.kind)] = Stage("set", d.kind)
        BY <1>0, <1>1, KindFacts, StageFacts DEF SetIn
    <2> QED BY <2>1 DEF Work, SyncWork, OfKind, Stage
<1>2. ASSUME NEW d \in tracked \ Computed(gw)
      PROVE  d \in Work("sync", gw, DeletedIn("sync", d.kind))
    <2>1. SyncStages[DeletedIn("sync", d.kind)] = Stage("delete", d.kind)
        BY <1>0, <1>2, KindFacts, StageFacts DEF DeletedIn
    <2> QED BY <2>1 DEF Work, SyncWork, OfKind, Stage
<1>3. ASSUME NEW d \in tracked PROVE d \in Work("clear", gw, DeletedIn("clear", d.kind))
    <2>1. ClearStages[DeletedIn("clear", d.kind)] = Stage("delete", d.kind)
        BY <1>0, <1>3, KindFacts, StageFacts DEF DeletedIn
    <2> QED BY <2>1 DEF Work, ClearWork, OfKind, Stage
<1> QED BY <1>1, <1>2, <1>3

\* What a new ingress entry names is backed by computed entries.
LEMMA IngressIsComputed ==
    ASSUME NEW gw \in Snapshots, NEW choice \in Choices(gw), NEW i \in Listeners,
           NEW v \in Virtual, v \in IngressServices(gw, choice)[i]
    PROVE  {Entry("service-router", v), Entry("service-defaults", v)} \subseteq Computed(gw)
<1>1. choice[i] \subseteq Backends
    BY DEF Choices
<1>2. PICK h \in Hosted(gw[i]) : v = <<h, 0>>
    BY <1>1, BackendsAssumption DEF IngressServices
<1>3. Entry("service-router", v) \in ComputedRouters(gw)
    BY <1>2 DEF ComputedRouters
<1>4. Entry("service-router", v).name = v
    BY DEF Entry
<1>5. Entry("service-defaults", v) \in ComputedDefaults(gw)
    BY <1>3, <1>4 DEF ComputedDefaults
<1> QED BY <1>3, <1>5 DEF Computed

\* A call that writes an entry.
LEMMA SetCallStep ==
    ASSUME Publishing, op = "sync", stage <= 4, TypeOK', TodoIsWork',
           NEW e \in todo, NEW applied \in BOOLEAN, NEW error \in BOOLEAN,
           Call(e, applied, error)
    PROVE  Publishing'
<1> USE DEF Publishing
<1>1. /\ e \in Computed(target) /\ SetIn(e.kind) = stage
      /\ Stages(op)[stage].verb = "set"
    BY TodoFacts
<1>2. /\ UNCHANGED <<found, tracked, op, target, wanted, stage, result, suspect>>
      /\ todo' = todo \ {e}
      /\ failed' = (failed \/ error)
      /\ applied \/ error
    BY DEF Call, memoryVars
<1>3. /\ e \in Entries /\ body \in [Entries -> Seq(Rules)] /\ stage \in {1, 2, 3, 4}
      /\ Computed(target) \subseteq Entries /\ IngressEntry \in Computed(target)
    BY ComputedTypes DEF TypeOK, Computed
<1>4. /\ live \subseteq live' /\ live' \subseteq live \cup {e}
      /\ \A d \in Entries : d # e => body'[d] = body[d]
      /\ e # IngressEntry => services' = services
      /\ services' \in {services, wanted}
      /\ applied => e \in live' /\ body'[e] = Body(target, e)
      /\ applied /\ e = IngressEntry => services' = wanted
    BY <1>1, <1>3 DEF Call, Apply, consulVars
<1>5. WantedIsComputed' /\ ClearHidesFirst' /\ SyncedIsSettled'
    BY <1>2 DEF WantedIsComputed, ClearHidesFirst, SyncedIsSettled
<1>6. SetIsSettled'
    <2> SUFFICES ASSUME NEW d \in Computed(target), Passed(SetIn(d.kind), d)'
                 PROVE  Settled(d)'
        BY <1>2 DEF SetIsSettled
    <2>1. CASE d = e
        BY <1>1, <1>2, <1>3, <1>4, <2>1 DEF Passed, Settled
    <2>2. CASE d # e
        <3>1. Passed(SetIn(d.kind), d)
            BY <1>2, <2>2 DEF Passed
        <3>2. Settled(d)
            BY <3>1 DEF SetIsSettled
        <3> QED BY <1>2, <1>3, <1>4, <2>2, <3>2 DEF Settled
    <2> QED BY <2>1, <2>2
<1>7. IngressIsBacked'
    <2>1. CASE e # IngressEntry
        BY <1>4, <2>1 DEF IngressIsBacked, Exposed
    <2>2. CASE e = IngressEntry
        <3>1. stage = 4
            BY <1>1, <2>2 DEF IngressEntry, Entry, SetIn
        <3>2. ASSUME NEW i \in Listeners, NEW v \in Virtual, v \in wanted[i]
              PROVE  Entry("service-router", v) \in live /\ Entry("service-defaults", v) \in live
            <4>1. {Entry("service-router", v), Entry("service-defaults", v)} \subseteq Computed(target)
                BY <3>2 DEF WantedIsComputed
            <4>2. /\ Passed(SetIn(Entry("service-router", v).kind), Entry("service-router", v))
                  /\ Passed(SetIn(Entry("service-defaults", v).kind), Entry("service-defaults", v))
                BY <3>1 DEF Passed, SetIn, Entry
            <4> QED BY <4>1, <4>2 DEF SetIsSettled, Settled
        <3> QED BY <1>4, <3>2 DEF IngressIsBacked, Exposed
    <2> QED BY <2>1, <2>2
<1>8. LiveIsKnown'
    BY <1>1, <1>2, <1>4 DEF LiveIsKnown
<1>9. DeletedIsGone'
    <2> SUFFICES ASSUME NEW d \in tracked, Passed(DeletedIn("sync", d.kind), d)' PROVE FALSE
        BY <1>2 DEF DeletedIsGone
    <2>1. DeletedIn("sync", d.kind) \in {5, 6, 7, 8}
        BY KindFacts DEF TypeOK
    <2> QED BY <1>2, <1>3, <2>1 DEF Passed
<1> QED BY <1>5, <1>6, <1>7, <1>8, <1>9

\* A call that deletes an entry.
LEMMA DeleteCallStep ==
    ASSUME Publishing, op # "none", ~(op = "sync" /\ stage <= 4), TypeOK', TodoIsWork',
           NEW e \in todo, NEW applied \in BOOLEAN, NEW error \in BOOLEAN,
           Call(e, applied, error)
    PROVE  Publishing'
<1> USE DEF Publishing
<1>1. /\ e \in tracked /\ DeletedIn(op, e.kind) = stage
      /\ op = "sync" => e \notin Computed(target)
      /\ Stages(op)[stage].verb = "delete"
    BY TodoFacts
<1>2. /\ UNCHANGED <<found, tracked, op, target, wanted, stage, result, suspect>>
      /\ todo' = todo \ {e}
      /\ failed' = (failed \/ error)
      /\ applied \/ error
    BY DEF Call, memoryVars
<1>3. /\ e \in Entries /\ body \in [Entries -> Seq(Rules)] /\ stage \in 1..7
      /\ Computed(target) \subseteq Entries /\ IngressEntry \in Computed(target)
      /\ op = "sync" \/ op = "clear"
      /\ op = "sync" => stage > 4
    BY ComputedTypes DEF TypeOK, Computed
<1>4. /\ live \ {e} \subseteq live' /\ live' \subseteq live
      /\ \A d \in Entries : d # e => body'[d] = body[d]
      /\ e # IngressEntry => services' = services
      /\ services' \in {services, NoServices}
      /\ applied => e \notin live'
      /\ applied /\ e = IngressEntry => services' = NoServices
    BY <1>1, <1>3 DEF Call, Apply, consulVars
<1>5. WantedIsComputed' /\ SyncedIsSettled'
    BY <1>2 DEF WantedIsComputed, SyncedIsSettled
<1>6. SetIsSettled'
    <2> SUFFICES ASSUME op = "sync", NEW d \in Computed(target) PROVE Settled(d)'
        BY <1>2 DEF SetIsSettled
    <2>1. Passed(SetIn(d.kind), d)
        <3>1. SetIn(d.kind) \in {1, 2, 3, 4}
            BY <1>3, KindFacts
        <3> QED BY <1>3, <3>1 DEF Passed
    <2>2. Settled(d)
        BY <2>1 DEF SetIsSettled
    <2>3. d # e /\ e # IngressEntry
        BY <1>1, <1>3
    <2> QED BY <1>2, <1>3, <1>4, <2>2, <2>3 DEF Settled
<1>7. ClearHidesFirst'
    <2> SUFFICES ASSUME op = "clear", Passed(1, IngressEntry)' PROVE services' = NoServices
        BY <1>2 DEF ClearHidesFirst
    <2>1. CASE Passed(1, IngressEntry)
        BY <1>4, <2>1 DEF ClearHidesFirst
    <2>2. CASE ~Passed(1, IngressEntry)
        <3>1. e = IngressEntry /\ applied
            BY <1>2, <2>2 DEF Passed
        <3> QED BY <1>4, <3>1
    <2> QED BY <2>1, <2>2
<1>8. IngressIsBacked'
    <2>0. Exposed' \subseteq Exposed
        BY <1>4 DEF Exposed, NoServices
    <2>1. CASE op = "sync"
        <3>1. services = wanted
            <4>1. SetIn(IngressEntry.kind) = 4
                BY DEF IngressEntry, Entry, SetIn
            <4> QED BY <1>3, <2>1, <4>1 DEF SetIsSettled, Passed, Settled
        <3>2. ASSUME NEW v \in Exposed
              PROVE  e \notin {Entry("service-router", v), Entry("service-defaults", v)}
            BY <1>1, <2>1, <3>1, <3>2 DEF WantedIsComputed, Exposed
        <3> QED BY <1>4, <2>0, <3>2 DEF IngressIsBacked
    <2>2. CASE op = "clear" /\ stage = 1
        <3>1. e = IngressEntry
            BY <1>1, <1>3, <2>2, KindFacts
        <3>2. \A v : e # Entry("service-router", v) /\ e # Entry("service-defaults", v)
            BY <3>1 DEF IngressEntry, Entry
        <3> QED BY <1>4, <2>0, <3>2 DEF IngressIsBacked
    <2>3. CASE op = "clear" /\ stage # 1
        <3>1. services = NoServices
            BY <1>3, <2>3 DEF ClearHidesFirst, Passed
        <3>2. Exposed = {}
            BY <3>1 DEF Exposed, NoServices
        <3> QED BY <2>0, <3>2 DEF IngressIsBacked
    <2> QED BY <1>3, <2>1, <2>2, <2>3
<1>9. LiveIsKnown'
    BY <1>2, <1>4 DEF LiveIsKnown
<1>10. DeletedIsGone'
    <2> SUFFICES ASSUME NEW d \in tracked, op = "sync" => d \notin Computed(target),
                        Passed(DeletedIn(op, d.kind), d)'
                 PROVE  d \notin live'
        BY <1>2 DEF DeletedIsGone
    <2>1. CASE d = e
        BY <1>1, <1>2, <1>3, <1>4, <2>1 DEF Passed
    <2>2. CASE d # e
        <3>1. Passed(DeletedIn(op, d.kind), d)
            BY <1>2, <2>2 DEF Passed
        <3> QED BY <1>4, <3>1 DEF DeletedIsGone
    <2> QED BY <2>1, <2>2
<1> QED BY <1>5, <1>6, <1>7, <1>8, <1>9, <1>10

\* Moving on to the next stage.
LEMMA StageDoneStep ==
    ASSUME Publishing, StageDone, TypeOK', TodoIsWork'
    PROVE  Publishing'
<1> USE DEF Publishing
<1>1. /\ UNCHANGED <<live, body, services, found, tracked, op, target, wanted, failed, result, suspect>>
      /\ op # "none" /\ todo = {} /\ ~failed
      /\ stage' = stage + 1
      /\ todo' = Work(op, target, stage + 1)
    BY DEF StageDone, consulVars, memoryVars
<1>2. stage \in Nat /\ stage >= 1 /\ target \in Snapshots /\ op \in {"sync", "clear"}
    BY <1>1 DEF TypeOK
<1>3. ASSUME NEW n \in Nat, NEW d, Passed(n, d)'
      PROVE  Passed(n, d) \/ (n = stage + 1 /\ d \notin Work(op, target, n))
    BY <1>1, <1>2, <1>3 DEF Passed
<1>4. WantedIsComputed' /\ SyncedIsSettled' /\ LiveIsKnown' /\ IngressIsBacked'
    BY <1>1 DEF WantedIsComputed, SyncedIsSettled, LiveIsKnown, IngressIsBacked, Exposed, Settled
<1>5. SetIsSettled'
    <2> SUFFICES ASSUME op = "sync", NEW d \in Computed(target), Passed(SetIn(d.kind), d)'
                 PROVE  Settled(d)'
        BY <1>1 DEF SetIsSettled
    <2>1. SetIn(d.kind) \in Nat /\ d \in Work(op, target, SetIn(d.kind))
        BY <1>2, ComputedTypes, KindFacts, WorkIsComplete
    <2>2. Passed(SetIn(d.kind), d)
        BY <1>3, <2>1
    <2> QED BY <1>1, <2>2 DEF SetIsSettled, Settled
<1>6. ClearHidesFirst'
    <2>1. Passed(1, IngressEntry)
        BY <1>1, <1>2 DEF Passed
    <2> QED BY <1>1, <2>1 DEF ClearHidesFirst
<1>7. DeletedIsGone'
    <2> SUFFICES ASSUME NEW d \in tracked, op = "sync" => d \notin Computed(target),
                        Passed(DeletedIn(op, d.kind), d)'
                 PROVE  d \notin live
        BY <1>1 DEF DeletedIsGone
    <2>1. DeletedIn(op, d.kind) \in Nat /\ d \in Work(op, target, DeletedIn(op, d.kind))
        <3>1. d \in Entries
            BY DEF TypeOK
        <3>2. DeletedIn("sync", d.kind) \in {5, 6, 7, 8} /\ DeletedIn("clear", d.kind) \in {1, 2, 3, 4}
            BY <3>1, KindFacts
        <3>3. /\ d \notin Computed(target) => d \in Work("sync", target, DeletedIn("sync", d.kind))
              /\ d \in Work("clear", target, DeletedIn("clear", d.kind))
            BY <1>2, WorkIsComplete
        <3>4. CASE op = "sync"
            BY <3>2, <3>3, <3>4
        <3>5. CASE op = "clear"
            BY <3>2, <3>3, <3>5
        <3> QED BY <1>2, <3>4, <3>5
    <2>2. Passed(DeletedIn(op, d.kind), d)
        BY <1>1, <1>2, <2>1 DEF Passed
    <2> QED BY <1>1, <2>2 DEF DeletedIsGone
<1> QED BY <1>4, <1>5, <1>6, <1>7

\* The end of a Sync: everything is written, and what is no longer computed is
\* gone.
LEMMA SyncDoneStep ==
    ASSUME Publishing, NEW error \in BOOLEAN, SyncDone(error), TypeOK', TodoIsWork'
    PROVE  Publishing'
<1> USE DEF Publishing
<1>1. /\ UNCHANGED <<live, body, services, target, wanted, suspect>>
      /\ op = "sync" /\ todo = {} /\ ~failed /\ stage = 7
      /\ op' = "none"
      /\ tracked' = Computed(target)
    BY StageFacts DEF SyncDone, consulVars
<1>2. Computed(target) \subseteq Entries /\ IngressEntry \in Computed(target)
      /\ tracked \subseteq Entries
    BY ComputedTypes DEF TypeOK, Computed
<1>3. \A d \in Computed(target) : Settled(d)
    <2> SUFFICES ASSUME NEW d \in Computed(target) PROVE Passed(SetIn(d.kind), d)
        BY <1>1 DEF SetIsSettled
    <2> QED BY <1>1, <1>2, KindFacts DEF Passed
<1>4. \A d \in tracked \ Computed(target) : d \notin live
    <2> SUFFICES ASSUME NEW d \in tracked \ Computed(target)
                 PROVE  Passed(DeletedIn("sync", d.kind), d)
        BY <1>1 DEF DeletedIsGone
    <2>1. DeletedIn("sync", d.kind) \in {5, 6, 7}
        BY <1>2, KindFacts
    <2> QED BY <1>1, <2>1 DEF Passed
<1>5. LiveIsKnown'
    BY <1>1, <1>4 DEF LiveIsKnown
<1>6. SyncedIsSettled' /\ IngressIsBacked' /\ ClearHidesFirst'
    BY <1>1, <1>2, <1>3 DEF SyncedIsSettled, Settled, IngressIsBacked, Exposed, ClearHidesFirst
<1> QED BY <1>1, <1>5, <1>6 DEF WantedIsComputed, SetIsSettled, DeletedIsGone

\* The end of a Clear: everything tracked is gone.
LEMMA ClearDoneStep ==
    ASSUME Publishing, ClearDone, TypeOK', TodoIsWork'
    PROVE  Publishing'
<1> USE DEF Publishing
<1>1. /\ UNCHANGED <<live, body, services, target, wanted, suspect>>
      /\ op = "clear" /\ todo = {} /\ ~failed /\ stage = 4
      /\ op' = "none" /\ found' = FALSE /\ result' = "cleared"
    BY StageFacts DEF ClearDone, consulVars
<1>2. \A d \in tracked : d \notin live
    <2> SUFFICES ASSUME NEW d \in tracked PROVE Passed(DeletedIn("clear", d.kind), d)
        BY <1>1 DEF DeletedIsGone
    <2>1. DeletedIn("clear", d.kind) \in {1, 2, 3, 4}
        BY KindFacts DEF TypeOK
    <2> QED BY <1>1, <2>1 DEF Passed
<1>3. LiveIsKnown' /\ IngressIsBacked'
    BY <1>1, <1>2 DEF LiveIsKnown, IngressIsBacked, Exposed
<1> QED BY <1>1, <1>3 DEF WantedIsComputed, SetIsSettled, DeletedIsGone, ClearHidesFirst,
                          SyncedIsSettled

\* Every step keeps the invariant.
LEMMA PublishingStep == Publishing /\ [Next]_vars => Publishing'
<1> SUFFICES ASSUME Publishing, [Next]_vars PROVE Publishing'
    OBVIOUS
<1> USE DEF Publishing
<1>0. TypeOK' /\ TodoIsWork'
    BY TypedStep
<1>1. ASSUME NEW gw \in Snapshots, NEW choice \in Choices(gw), SyncStarts(gw, choice)
      PROVE  Publishing'
    <2>1. /\ UNCHANGED <<live, body, services, found, tracked, suspect>>
          /\ op = "none" /\ op' = "sync" /\ target' = gw
          /\ wanted' = IngressServices(gw, choice)
          /\ stage' = 1 /\ todo' = Work("sync", gw, 1) /\ result' = "none"
        BY <1>1 DEF SyncStarts, consulVars, memoryVars
    <2>2. WantedIsComputed'
        BY <2>1, IngressIsComputed DEF WantedIsComputed
    <2>3. SetIsSettled'
        <3> SUFFICES ASSUME NEW d \in Computed(gw), Passed(SetIn(d.kind), d)' PROVE FALSE
            BY <2>1 DEF SetIsSettled
        <3>1. SetIn(d.kind) \in {1, 2, 3, 4} /\ d \in Work("sync", gw, SetIn(d.kind))
            BY ComputedTypes, KindFacts, WorkIsComplete
        <3> QED BY <2>1, <3>1 DEF Passed
    <2>4. DeletedIsGone'
        <3> SUFFICES ASSUME NEW d \in tracked, Passed(DeletedIn("sync", d.kind), d)' PROVE FALSE
            BY <2>1 DEF DeletedIsGone
        <3>1. DeletedIn("sync", d.kind) \in {5, 6, 7, 8}
            BY KindFacts DEF TypeOK
        <3> QED BY <2>1, <3>1 DEF Passed
    <2>5. LiveIsKnown' /\ IngressIsBacked' /\ ClearHidesFirst' /\ SyncedIsSettled'
        BY <2>1 DEF LiveIsKnown, IngressIsBacked, Exposed, ClearHidesFirst, SyncedIsSettled
    <2> QED BY <1>0, <2>2, <2>3, <2>4, <2>5
<1>2. CASE ClearStarts
    <2>1. /\ UNCHANGED <<live, body, services, found, tracked, target, wanted, suspect>>
          /\ op = "none" /\ result' \in {"none", "cleared"}
          /\ op' = IF found THEN "clear" ELSE "none"
          /\ found => stage' = 1 /\ todo' = Work("clear", target, 1)
        BY <1>2 DEF ClearStarts, consulVars, memoryVars
    <2>2. /\ IngressIsBacked' /\ LiveIsKnown' /\ SyncedIsSettled'
          /\ WantedIsComputed' /\ SetIsSettled'
        BY <2>1 DEF IngressIsBacked, Exposed, LiveIsKnown, SyncedIsSettled, WantedIsComputed,
                    SetIsSettled
    <2>3. ASSUME NEW d \in tracked, found PROVE ~Passed(DeletedIn("clear", d.kind), d)'
        <3>1. DeletedIn("clear", d.kind) \in {1, 2, 3, 4}
              /\ d \in Work("clear", target, DeletedIn("clear", d.kind))
            BY KindFacts, WorkIsComplete DEF TypeOK
        <3> QED BY <2>1, <2>3, <3>1 DEF Passed
    <2>4. DeletedIsGone'
        BY <2>1, <2>3 DEF DeletedIsGone
    <2>5. ClearHidesFirst'
        <3>1. DeletedIn("clear", IngressEntry.kind) = 1
            BY DEF DeletedIn, IngressEntry, Entry
        <3> QED BY <2>1, <2>3, <3>1 DEF ClearHidesFirst
    <2> QED BY <1>0, <2>2, <2>4, <2>5
<1>3. ASSUME NEW e \in todo, NEW applied \in BOOLEAN, NEW error \in BOOLEAN, Call(e, applied, error)
      PROVE  Publishing'
    <2>1. op # "none"
        BY <1>3 DEF Call
    <2> QED BY <1>0, <1>3, <2>1, SetCallStep, DeleteCallStep
<1>4. CASE StageDone
    BY <1>0, <1>4, StageDoneStep
<1>5. CASE StageFailed
    <2>1. LiveIsKnown'
        BY <1>5 DEF StageFailed, LiveIsKnown, consulVars, memoryVars
    <2> QED BY <1>0, <1>5, <2>1 DEF StageFailed, WantedIsComputed, SetIsSettled, ClearHidesFirst,
               SyncedIsSettled, IngressIsBacked, Exposed, DeletedIsGone, consulVars, memoryVars
<1>6. ASSUME NEW error \in BOOLEAN, SyncDone(error) PROVE Publishing'
    BY <1>0, <1>6, SyncDoneStep
<1>7. CASE ClearDone
    BY <1>0, <1>7, ClearDoneStep
<1>8. CASE Crash
    <2>1. LiveIsKnown'
        BY <1>8 DEF Crash, LiveIsKnown, consulVars
    <2> QED BY <1>0, <1>8, <2>1 DEF Crash, WantedIsComputed, SetIsSettled, ClearHidesFirst,
               SyncedIsSettled, IngressIsBacked, Exposed, DeletedIsGone, consulVars
<1>9. CASE UNCHANGED vars
    BY <1>0, <1>9 DEF vars, consulVars, memoryVars, callVars, WantedIsComputed, SetIsSettled,
       ClearHidesFirst, SyncedIsSettled, IngressIsBacked, Exposed, LiveIsKnown, DeletedIsGone,
       Passed, Settled
<1> QED BY <1>1, <1>2, <1>3, <1>4, <1>5, <1>6, <1>7, <1>8, <1>9 DEF Next

\* The invariant holds throughout.
LEMMA PublishingInvariant == Spec => []Publishing
<1>1. Init => Publishing
    <2>1. Init => Exposed = {}
        BY DEF Init, Exposed, NoServices
    <2> QED BY <2>1, TypedInit DEF Init, Publishing, WantedIsComputed, SetIsSettled,
               ClearHidesFirst, SyncedIsSettled, IngressIsBacked, LiveIsKnown, DeletedIsGone
<1> QED BY <1>1, PublishingStep, PTL DEF Spec

\* The ingress entry never names an HTTP service without its router and its
\* defaults, whatever call failed and wherever the controller crashed.
THEOREM IngressStaysBacked == Spec => []IngressIsBacked
<1>1. Publishing => IngressIsBacked
    BY DEF Publishing
<1> QED BY <1>1, PublishingInvariant, PTL

\* A Sync that reports success has published the gateway, entry by entry.
THEOREM SuccessMeansPublished == Spec => []SuccessIsPublished
<1>1. Publishing => SuccessIsPublished
    BY DEF Publishing, SyncedIsSettled, Settled, SuccessIsPublished, Computed
<1> QED BY <1>1, PublishingInvariant, PTL

\* Between calls, what is live is tracked or was left by a failure.
THEOREM OnlyFailuresLeakEntries == Spec => []OnlyFailuresLeak
<1>1. Publishing => OnlyFailuresLeak
    BY DEF Publishing, LiveIsKnown, OnlyFailuresLeak
<1> QED BY <1>1, PublishingInvariant, PTL

----------------------------------------------------------------------------
(* The order of the stages, as seen by traffic: what a new ingress entry    *)
(* names is complete, down to the splitters.                                *)

\* A split rule of the router that a hostname ends up with is split by a
\* computed splitter for that very rule: the last listener that has the
\* hostname is also the last that splits that position, if it splits it.
LEMMA SplitterOfRouter ==
    ASSUME NEW gw \in Snapshots, NEW v \in Virtual, Entry("service-router", v) \in Computed(gw),
           NEW n \in DOMAIN Body(gw, Entry("service-router", v)),
           Body(gw, Entry("service-router", v))[n] \in SplitRules
    PROVE  /\ Entry("service-splitter", <<v[1], n>>) \in Computed(gw)
           /\ Entry("service-defaults", <<v[1], n>>) \in Computed(gw)
           /\ Body(gw, Entry("service-splitter", <<v[1], n>>))
                  = <<Body(gw, Entry("service-router", v))[n]>>
<1> DEFINE router == Entry("service-router", v)
           h == v[1]
           w == Winner(gw, h)
           s == <<h, n>>
<1>1. h \in Hosts /\ \E k \in Listeners : h \in Hosted(gw[k])
    <2>1. router \in ComputedRouters(gw)
        BY DEF Computed, ComputedDefaults, ComputedSplitters, IngressEntry, Entry
    <2>2. PICK g \in Hosts : router = Entry("service-router", <<g, 0>>)
                             /\ \E k \in Listeners : g \in Hosted(gw[k])
        BY <2>1 DEF ComputedRouters, Hosted
    <2>3. v = <<g, 0>>
        BY <2>2 DEF Entry
    <2> QED BY <2>2, <2>3
<1>2. w \in Listeners /\ \A j \in Listeners : h \in Hosted(gw[j]) => j <= w
    BY <1>1, WinnerIsLast
<1>3. Body(gw, router) = gw[w].http[h]
    BY DEF Body, Entry
<1>4. n \in SplitsOf(gw[w], h)
    BY <1>3 DEF SplitsOf
<1>5. n \in 1..MaxRules /\ s \in Virtual
    <2>1. n \in 1..MaxRules
        BY <1>1, <1>2, <1>4, SnapshotTypes
    <2>2. n \in 0..MaxRules
        BY <2>1, MaxRulesAssumption
    <2> QED BY <1>1, <2>1, <2>2 DEF Virtual
<1>6. Entry("service-splitter", s) \in ComputedSplitters(gw)
    BY <1>2, <1>4, <1>5 DEF ComputedSplitters
<1>7. Entry("service-defaults", s) \in ComputedDefaults(gw)
    <2>1. Entry("service-splitter", s).name = s
        BY DEF Entry
    <2> QED BY <1>6, <2>1 DEF ComputedDefaults
<1>8. SplitWinner(gw, h, n) = w
    <2> DEFINE x == SplitWinner(gw, h, n)
    <2>1. x \in Listeners /\ n \in SplitsOf(gw[x], h) /\ w <= x
        BY <1>1, <1>2, <1>4, SplitWinnerIsLast
    <2>2. x <= w
        BY <1>1, <1>2, <2>1, SnapshotTypes
    <2> HIDE DEF x
    <2> QED BY <1>2, <2>1, <2>2, ListenersAssumption DEF Listeners, x
<1>9. Body(gw, Entry("service-splitter", s)) = <<gw[w].http[h][n]>>
    <2>1. Body(gw, Entry("service-splitter", s)) = <<gw[SplitWinner(gw, h, n)].http[h][n]>>
        BY DEF Body, Entry
    <2> QED BY <1>8, <2>1
<1> QED BY <1>3, <1>6, <1>7, <1>9 DEF Computed

\* Writing the ingress entry comes after everything it names.
LEMMA ExposureStep ==
    ASSUME Publishing, [Next]_vars, NEW v \in Exposed' \ Exposed
    PROVE  /\ {Entry("service-router", v), Entry("service-defaults", v)} \subseteq live
           /\ \A s \in Splitters(v) :
                  /\ {Entry("service-splitter", s), Entry("service-defaults", s)} \subseteq live
                  /\ body[Entry("service-splitter", s)] = <<body[Entry("service-router", v)][s[2]]>>
<1> USE DEF Publishing
<1>1. services' # services /\ services' # NoServices
    BY DEF Exposed, NoServices
<1>2. PICK e \in todo, applied \in BOOLEAN, error \in BOOLEAN : Call(e, applied, error)
    BY <1>1 DEF Next, SyncStarts, ClearStarts, StageDone, StageFailed, SyncDone, ClearDone, Crash,
                vars, consulVars
<1>3. op = "sync" /\ stage = 4 /\ services' = wanted
    <2>1. e = IngressEntry /\ Stages(op)[stage].verb = "set" /\ services' = wanted
        BY <1>1, <1>2 DEF Call, Apply, consulVars
    <2>2. op # "none"
        BY <1>2 DEF Call
    <2>3. op = "sync" /\ SetIn(e.kind) = stage
        BY <2>1, <2>2, TodoFacts
    <2> QED BY <2>1, <2>3 DEF SetIn, IngressEntry, Entry
<1>4. PICK i \in Listeners : v \in Virtual /\ v \in wanted[i]
    BY <1>3 DEF Exposed
<1>5. ASSUME NEW d \in Computed(target), d.kind \in Kinds PROVE d \in live /\ body[d] = Body(target, d)
    <2>1. SetIn(d.kind) \in {1, 2, 3}
        BY <1>5 DEF SetIn, Kinds
    <2>2. Passed(SetIn(d.kind), d)
        BY <1>3, <2>1 DEF Passed
    <2> QED BY <1>3, <2>2 DEF SetIsSettled, Settled
<1>6. {Entry("service-router", v), Entry("service-defaults", v)} \subseteq Computed(target)
    BY <1>3, <1>4 DEF WantedIsComputed
<1>7. \A x : /\ Entry("service-router", x).kind \in Kinds
             /\ Entry("service-splitter", x).kind \in Kinds
             /\ Entry("service-defaults", x).kind \in Kinds
    BY DEF Entry, Kinds
<1>8. ASSUME NEW s \in Splitters(v)
      PROVE  /\ {Entry("service-splitter", s), Entry("service-defaults", s)} \subseteq live
             /\ body[Entry("service-splitter", s)] = <<body[Entry("service-router", v)][s[2]]>>
    <2>1. body[Entry("service-router", v)] = Body(target, Entry("service-router", v))
        BY <1>5, <1>6, <1>7
    <2>2. PICK n \in DOMAIN Body(target, Entry("service-router", v)) :
              /\ s = <<v[1], n>>
              /\ Body(target, Entry("service-router", v))[n] \in SplitRules
        BY <2>1 DEF Splitters
    <2>3. target \in Snapshots
        BY DEF TypeOK
    <2>4. /\ Entry("service-splitter", s) \in Computed(target)
          /\ Entry("service-defaults", s) \in Computed(target)
          /\ Body(target, Entry("service-splitter", s))
                 = <<Body(target, Entry("service-router", v))[n]>>
        BY <1>4, <1>6, <2>2, <2>3, SplitterOfRouter
    <2>5. s[2] = n
        BY <2>2
    <2> QED BY <1>5, <1>7, <2>1, <2>4, <2>5
<1> QED BY <1>5, <1>6, <1>7, <1>8

\* The ingress entry starts to name an HTTP service only when its router, its
\* splitters and the defaults of both are in place and agree.
THEOREM ServicesAreCompleteWhenExposed == Spec => ExposedWhenComplete
<1>1. Publishing /\ [Next]_vars =>
          [\A v \in Exposed' \ Exposed :
              /\ {Entry("service-router", v), Entry("service-defaults", v)} \subseteq live
              /\ \A s \in Splitters(v) :
                     /\ {Entry("service-splitter", s), Entry("service-defaults", s)} \subseteq live
                     /\ body[Entry("service-splitter", s)]
                            = <<body[Entry("service-router", v)][s[2]]>>]_vars
    BY ExposureStep
<1> QED BY <1>1, PublishingInvariant, PTL DEF Spec, ExposedWhenComplete

----------------------------------------------------------------------------
(* The adapter implements its contract. *)

\* Nothing is tracked of a gateway that a.sync does not know.
TrackedIsFound == ~found => tracked = {}

LEMMA TrackedIsFoundInvariant == Spec => []TrackedIsFound
<1>1. Init => TrackedIsFound
    BY DEF Init, TrackedIsFound
<1>2. TrackedIsFound /\ [Next]_vars => TrackedIsFound'
    BY DEF TrackedIsFound, Next, vars, memoryVars, SyncStarts, ClearStarts, Call, StageDone,
           StageFailed, SyncDone, ClearDone, Crash
<1> QED BY <1>1, <1>2, PTL DEF Spec

\* The names of what is published and of what a gateway asks for.
LEMMA PublishedNames ==
    /\ Contract!NamesOf(Published) = live
    /\ \A gw, l : Contract!NamesOf(Rendering(gw, l)) = Computed(gw)
<1>1. \A e, r, l : Says(e, r, l)[1] = e
    BY DEF Says
<1> QED BY <1>1 DEF Contract!NamesOf, Published, Rendering

\* A write that takes effect replaces the entry of that name.
LEMMA WriteIsWrite ==
    ASSUME TypeOK, NEW e \in Entries, Apply(e, "set")
    PROVE  Published' = Contract!Without(e) \cup {Says(e, Body(target, e), wanted)}
<1>1. /\ live' = live \cup {e}
      /\ body' = [body EXCEPT ![e] = Body(target, e)]
      /\ services' = IF e = IngressEntry THEN wanted ELSE services
    BY DEF Apply
<1>2. body \in [Entries -> Seq(Rules)] /\ live \subseteq Entries
    BY DEF TypeOK
<1>3. body'[e] = Body(target, e) /\ \A d \in live \ {e} : body'[d] = body[d]
    BY <1>1, <1>2
<1>4. Says(e, body'[e], services') = Says(e, Body(target, e), wanted)
    BY <1>1, <1>3 DEF Says
<1>5. \A d \in live \ {e} : Says(d, body'[d], services') = Says(d, body[d], services)
    BY <1>1, <1>3 DEF Says
<1>6. Contract!Without(e) = {Says(d, body[d], services) : d \in live \ {e}}
    <2>1. \A d, r, l : Says(d, r, l)[1] = d
        BY DEF Says
    <2> QED BY <2>1 DEF Contract!Without, Published
<1>7. Published' = {Says(d, body'[d], services') : d \in live \cup {e}}
    BY <1>1 DEF Published
<1> QED BY <1>4, <1>5, <1>6, <1>7

\* A removal that takes effect removes the entry of that name and no other.
LEMMA RemovalIsRemove ==
    ASSUME TypeOK, NEW e \in Entries, Apply(e, "delete")
    PROVE  Published' = Contract!Without(e)
<1>1. /\ live' = live \ {e}
      /\ body' = [body EXCEPT ![e] = <<>>]
      /\ services' = IF e = IngressEntry THEN NoServices ELSE services
    BY DEF Apply
<1>2. body \in [Entries -> Seq(Rules)] /\ live \subseteq Entries
    BY DEF TypeOK
<1>3. \A d \in live \ {e} : body'[d] = body[d]
    BY <1>1, <1>2
<1>5. \A d \in live \ {e} : Says(d, body'[d], services') = Says(d, body[d], services)
    BY <1>1, <1>3 DEF Says
<1>6. Contract!Without(e) = {Says(d, body[d], services) : d \in live \ {e}}
    <2>1. \A d, r, l : Says(d, r, l)[1] = d
        BY DEF Says
    <2> QED BY <2>1 DEF Contract!Without, Published
<1>7. Published' = {Says(d, body'[d], services') : d \in live \ {e}}
    BY <1>1 DEF Published
<1> QED BY <1>5, <1>6, <1>7

\* One call of a stage is a write, a removal or, if it had no effect, nothing
\* that the contract sees.
LEMMA CallRefines ==
    ASSUME Publishing, NEW e \in todo, NEW applied \in BOOLEAN, NEW error \in BOOLEAN,
           Call(e, applied, error)
    PROVE  Contract!Next \/ UNCHANGED Contract!vars
<1> DEFINE goal == IF op = "sync" THEN Rendering(target, wanted) ELSE {}
<1>1. /\ TypeOK /\ op # "none" /\ e \in Entries
      /\ UNCHANGED <<tracked, op, target, wanted, result>>
    BY DEF Publishing, TypeOK, Call, memoryVars
<1>2. UNCHANGED <<tracked, op, goal, result>>
    BY <1>1 DEF Rendering
<1>3. CASE ~applied
    <2>1. UNCHANGED <<live, body, services>>
        BY <1>3 DEF Call, consulVars
    <2>2. UNCHANGED Published
        BY <2>1 DEF Published
    <2> QED BY <1>2, <2>2 DEF Contract!vars
<1>4. CASE applied /\ op = "sync" /\ stage <= 4
    <2>1. Apply(e, "set") /\ e \in Computed(target)
        BY <1>1, <1>4, TodoFacts DEF Publishing, Call
    <2>2. Published' = Contract!Without(e) \cup {Says(e, Body(target, e), wanted)}
        BY <1>1, <2>1, WriteIsWrite
    <2> DEFINE x == Says(e, Body(target, e), wanted)
    <2>3. x \in goal /\ x[1] = e
        BY <1>4, <2>1 DEF Rendering, Says
    <2>4. Contract!Write(x)
        BY <1>2, <1>4, <2>2, <2>3 DEF Contract!Write
    <2> QED BY <2>3, <2>4 DEF Contract!Next
<1>5. CASE applied /\ ~(op = "sync" /\ stage <= 4)
    <2>1. Apply(e, "delete") /\ e \in tracked /\ (op = "sync" => e \notin Computed(target))
        BY <1>1, <1>5, TodoFacts DEF Publishing, Call
    <2>2. Published' = Contract!Without(e)
        BY <1>1, <2>1, RemovalIsRemove
    <2>3. op = "sync" => e \notin Contract!NamesOf(goal)
        BY <2>1, PublishedNames
    <2>4. Contract!Remove(e)
        BY <1>1, <1>2, <2>2, <2>3 DEF Contract!Remove
    <2> QED BY <2>1, <2>4 DEF Contract!Next
<1> QED BY <1>3, <1>4, <1>5

\* What has been done when the last stage of a Sync or of a Clear is over.
LEMMA LastStage ==
    ASSUME Publishing, op # "none", todo = {}, ~failed, stage = Len(Stages(op))
    PROVE  /\ op = "sync" => \A d \in Computed(target) : Settled(d)
           /\ \A d \in tracked : (op = "sync" => d \notin Computed(target)) => d \notin live
<1> USE DEF Publishing
<1>1. op \in {"sync", "clear"} /\ stage = IF op = "sync" THEN 7 ELSE 4
    BY StageFacts DEF Stages, TypeOK
<1>2. Computed(target) \subseteq Entries /\ tracked \subseteq Entries
    BY ComputedTypes DEF TypeOK
<1>3. ASSUME op = "sync", NEW d \in Computed(target) PROVE Settled(d)
    <2>1. SetIn(d.kind) \in {1, 2, 3, 4}
        BY <1>2, KindFacts
    <2> QED BY <1>1, <1>3, <2>1 DEF SetIsSettled, Passed
<1>4. ASSUME NEW d \in tracked, op = "sync" => d \notin Computed(target) PROVE d \notin live
    <2>1. Passed(DeletedIn(op, d.kind), d)
        <3>1. CASE op = "sync"
            <4>1. d # IngressEntry
                BY <1>4, <3>1 DEF Computed
            <4>2. DeletedIn(op, d.kind) \in {5, 6, 7}
                BY <1>2, <3>1, <4>1, KindFacts
            <4> QED BY <1>1, <3>1, <4>2 DEF Passed
        <3>2. CASE op = "clear"
            <4>1. DeletedIn(op, d.kind) \in {1, 2, 3, 4}
                BY <1>2, <3>2, KindFacts
            <4> QED BY <1>1, <3>2, <4>1 DEF Passed
        <3> QED BY <1>1, <3>1, <3>2
    <2> QED BY <1>4, <2>1 DEF DeletedIsGone
<1> QED BY <1>3, <1>4

\* Every other step.
LEMMA StepRefines ==
    ASSUME Publishing, TrackedIsFound, [Next]_vars
    PROVE  Contract!Next \/ UNCHANGED Contract!vars
<1> DEFINE goal == IF op = "sync" THEN Rendering(target, wanted) ELSE {}
<1>0. UNCHANGED <<live, body, services>> => UNCHANGED Published
    BY DEF Published
<1>1. ASSUME NEW gw \in Snapshots, NEW choice \in Choices(gw), SyncStarts(gw, choice)
      PROVE  Contract!Next
    <2>1. /\ UNCHANGED <<live, body, services, tracked>>
          /\ op = "none" /\ op' = "sync" /\ result' = "none"
          /\ goal' = Rendering(gw, IngressServices(gw, choice))
        BY <1>1 DEF SyncStarts, consulVars, memoryVars, Rendering
    <2>2. Rendering(gw, IngressServices(gw, choice)) \in Renderings
        BY DEF Renderings
    <2>3. Contract!Sync(Rendering(gw, IngressServices(gw, choice)))
        BY <1>0, <2>1 DEF Contract!Sync
    <2> QED BY <2>2, <2>3 DEF Contract!Next
<1>2. CASE ClearStarts
    <2>1. /\ UNCHANGED <<live, body, services, tracked, target, wanted>>
          /\ op = "none" /\ op' # "sync"
          /\ \/ found /\ op' = "clear" /\ result' = "none"
             \/ ~found /\ op' = "none" /\ result' = "cleared"
        BY <1>2 DEF ClearStarts, consulVars, memoryVars
    <2>2. found <=> tracked # {}
        BY DEF Publishing, ClearHidesFirst, TrackedIsFound
    <2>3. Contract!Clear
        BY <1>0, <2>1, <2>2 DEF Contract!Clear
    <2> QED BY <2>3 DEF Contract!Next
<1>3. ASSUME NEW e \in todo, NEW applied \in BOOLEAN, NEW error \in BOOLEAN,
             Call(e, applied, error)
      PROVE  Contract!Next \/ UNCHANGED Contract!vars
    BY <1>3, CallRefines
<1>4. CASE StageDone
    <2>1. UNCHANGED <<live, body, services, tracked, op, target, wanted, result>>
        BY <1>4 DEF StageDone, consulVars, memoryVars
    <2>2. UNCHANGED goal
        BY <2>1 DEF Rendering
    <2> QED BY <1>0, <2>1, <2>2 DEF Contract!vars
<1>5. CASE StageFailed
    <2>1. /\ UNCHANGED <<live, body, services, tracked>>
          /\ op # "none" /\ op' = "none" /\ result' = "failed"
        BY <1>5 DEF StageFailed, consulVars, memoryVars
    <2>2. Contract!Failed
        BY <1>0, <2>1 DEF Contract!Failed
    <2> QED BY <2>2 DEF Contract!Next
<1>6. ASSUME NEW error \in BOOLEAN, SyncDone(error) PROVE Contract!Next
    <2>1. /\ UNCHANGED <<live, body, services>>
          /\ op = "sync" /\ op' = "none" /\ tracked' = Computed(target)
          /\ result' \in {"synced", "failed"}
        BY <1>6 DEF SyncDone, consulVars
    <2>2. /\ \A d \in Computed(target) : Settled(d)
          /\ \A d \in tracked : d \notin Computed(target) => d \notin live
        BY <1>6, <2>1, LastStage DEF SyncDone, Stages
    <2>3. goal \subseteq Published
        <3> SUFFICES ASSUME NEW d \in Computed(target)
                     PROVE  Says(d, Body(target, d), wanted) \in Published
            BY <2>1 DEF Rendering
        <3>1. d \in live /\ Says(d, Body(target, d), wanted) = Says(d, body[d], services)
            BY <2>2 DEF Settled, Says
        <3> QED BY <3>1 DEF Published
    <2>4. Contract!NamesOf(Published) = live /\ Contract!NamesOf(goal) = Computed(target)
        BY <2>1, PublishedNames
    <2>5. Contract!Synced
        BY <1>0, <2>1, <2>2, <2>3, <2>4 DEF Contract!Synced
    <2> QED BY <2>5 DEF Contract!Next
<1>7. CASE ClearDone
    <2>1. /\ UNCHANGED <<live, body, services>>
          /\ op = "clear" /\ op' = "none" /\ tracked' = {} /\ result' = "cleared"
        BY <1>7 DEF ClearDone, consulVars
    <2>2. \A d \in tracked : d \notin live
        BY <1>7, <2>1, LastStage DEF ClearDone, Stages
    <2>3. Contract!Cleared
        BY <1>0, <2>1, <2>2, PublishedNames DEF Contract!Cleared
    <2> QED BY <2>3 DEF Contract!Next
<1>8. CASE Crash
    <2>1. /\ UNCHANGED <<live, body, services>>
          /\ op' = "none" /\ tracked' = {} /\ result' = "none"
        BY <1>8 DEF Crash, consulVars
    <2>2. Contract!Crash
        BY <1>0, <2>1 DEF Contract!Crash
    <2> QED BY <2>2 DEF Contract!Next
<1>9. CASE UNCHANGED vars
    <2>1. UNCHANGED <<live, body, services, tracked, op, target, wanted, result>>
        BY <1>9 DEF vars, consulVars, memoryVars, callVars
    <2>2. UNCHANGED goal
        BY <2>1 DEF Rendering
    <2> QED BY <1>0, <2>1, <2>2 DEF Contract!vars
<1> QED BY <1>1, <1>2, <1>3, <1>4, <1>5, <1>6, <1>7, <1>8, <1>9 DEF Next

\* The adapter implements SyncContract: seen as a set of named entries, what
\* its stages, its partial failures and a crash do to Consul is what the
\* contract allows.
THEOREM AdapterImplementsContract == Spec => ImplementsContract
<1>1. Init => Contract!Init
    BY DEF Init, Contract!Init, Published
<1>2. Publishing /\ TrackedIsFound /\ [Next]_vars => [Contract!Next]_(Contract!vars)
    BY StepRefines
<1> QED BY <1>1, <1>2, PublishingInvariant, TrackedIsFoundInvariant, PTL
        DEF Spec, ImplementsContract, Contract!Spec
=============================================================================
