---------------------------- MODULE SyncContract ----------------------------
(***************************************************************************)
(* What the sync adapter promises of the config entries of one gateway     *)
(* (core.SyncAdapter, internal/core/interfaces.go), in terms of entries only: *)
(* no stages, no lists of pending calls.  An entry is a pair of its name   *)
(* and what it says.  SyncAdapter implements it.                           *)
(***************************************************************************)
CONSTANT Renderings     \* the sets of entries that Sync may be asked for

VARIABLES
    entries,    \* the entries of the gateway that Consul has
    known,      \* the names of the entries the adapter will remove
    call,       \* the call under way: "none", "sync" or "clear"
    goal,       \* the entries a Sync under way is to publish, or none
    outcome     \* how the last call ended

vars == <<entries, known, call, goal, outcome>>

NamesOf(set) == {x[1] : x \in set}
Without(name) == {x \in entries : x[1] # name}

Init ==
    /\ entries = {}
    /\ known = {}
    /\ call = "none"
    /\ goal = {}
    /\ outcome = "none"

Sync(rendering) ==
    /\ call = "none"
    /\ call' = "sync"
    /\ goal' = rendering
    /\ outcome' = "none"
    /\ UNCHANGED <<entries, known>>

\* A gateway of which nothing is known is cleared at once.
Clear ==
    /\ call = "none"
    /\ \/ known # {} /\ call' = "clear" /\ outcome' = "none"
       \/ known = {} /\ call' = "none" /\ outcome' = "cleared"
    /\ UNCHANGED <<entries, known, goal>>

\* A Sync writes entries of its goal and nothing else.
Write(x) ==
    /\ call = "sync"
    /\ entries' = Without(x[1]) \cup {x}
    /\ UNCHANGED <<known, call, goal, outcome>>

\* An entry is removed only if an earlier Sync published it and, in a Sync,
\* only if the new goal does without it.
Remove(name) ==
    /\ call # "none"
    /\ call = "sync" => name \notin NamesOf(goal)
    /\ entries' = Without(name)
    /\ UNCHANGED <<known, call, goal, outcome>>

\* All of the goal is there, and nothing that was known besides.  The call may
\* still report an error (of the intentions that follow).
Synced ==
    /\ call = "sync"
    /\ goal \subseteq entries
    /\ NamesOf(entries) \cap (known \ NamesOf(goal)) = {}
    /\ known' = NamesOf(goal)
    /\ call' = "none"
    /\ goal' = {}
    /\ outcome' \in {"synced", "failed"}
    /\ UNCHANGED entries

Cleared ==
    /\ call = "clear"
    /\ NamesOf(entries) \cap known = {}
    /\ known' = {}
    /\ call' = "none"
    /\ outcome' = "cleared"
    /\ UNCHANGED <<entries, goal>>

\* A call that fails leaves what is known as it was, so that a later one can
\* still remove it.
Failed ==
    /\ call # "none"
    /\ call' = "none"
    /\ goal' = {}
    /\ outcome' = "failed"
    /\ UNCHANGED <<entries, known>>

\* A crash forgets what is known, and removes nothing.
Crash ==
    /\ known' = {}
    /\ call' = "none"
    /\ goal' = {}
    /\ outcome' = "none"
    /\ UNCHANGED entries

Next ==
    \/ \E rendering \in Renderings : Sync(rendering)
    \/ Clear
    \/ \E x \in goal : Write(x)
    \/ \E name \in known : Remove(name)
    \/ Synced
    \/ Cleared
    \/ Failed
    \/ Crash

Spec == Init /\ [][Next]_vars
=============================================================================
