---------------------------- MODULE Registration ----------------------------
(***************************************************************************)
(* The registration of a gateway pod as a Consul service                   *)
(* (internal/consul/registration.go): a first registration with retries,   *)
(* a loop that checks it every 30 seconds and registers again when Consul  *)
(* has lost the service, a loop that renews the TTL check, and the         *)
(* deregistration.  A registration that the loop has sent is under way     *)
(* until Consul applies it, whether or not the loop still waits for it.    *)
(***************************************************************************)
EXTENDS Naturals

CONSTANTS
    Tries,          \* attempts of one registration or deregistration
    MaxOutages      \* bound: how often the TTL check expires

ASSUME RegistrationAssumption == Tries \in Nat \ {0} /\ MaxOutages \in Nat

VARIABLES
    registered,     \* Consul has the service
    passing,        \* its TTL check passes
    outages,        \* TTL expirations so far
    attempts,       \* failed attempts of the call under way
    loop,           \* the goroutine that keeps the registration
    underWay,       \* a registration it sent has not reached Consul yet
    atCancel        \* history: one was under way when Deregister cancelled

regVars == <<registered, passing, outages, attempts, loop, underWay, atCancel>>

LoopStates == {"none", "asleep", "sent", "stopped"}

RegTypeOK ==
    /\ registered \in BOOLEAN /\ passing \in BOOLEAN
    /\ outages \in 0..MaxOutages
    /\ attempts \in 0..Tries
    /\ loop \in LoopStates
    /\ underWay \in BOOLEAN /\ atCancel \in BOOLEAN

RegInit ==
    /\ registered = FALSE /\ passing = FALSE
    /\ outages = 0 /\ attempts = 0
    /\ loop = "none"
    /\ underWay = FALSE /\ atCancel = FALSE

----------------------------------------------------------------------------
(* register and Deregister: each attempt is one step of the caller.         *)

\* The registration succeeds and the loops start.
Register ==
    /\ registered' = TRUE /\ passing' = TRUE
    /\ attempts' = 0
    /\ loop' = "asleep"
    /\ UNCHANGED <<outages, underWay, atCancel>>

\* An attempt fails; its answer, or the request, was lost.
RegisterFails(applied) ==
    /\ attempts' = attempts + 1
    /\ registered' = (registered \/ applied)
    /\ passing' = (passing \/ applied)
    /\ UNCHANGED <<outages, loop, underWay, atCancel>>

\* Mutant of CancelLoop: the loops go on.
LeaveLoop ==
    /\ attempts' = 0
    /\ atCancel' = underWay
    /\ UNCHANGED <<registered, passing, outages, loop, underWay>>

\* Deregister first cancels the loops, without waiting for them.
CancelLoop ==
    /\ loop' = "stopped"
    /\ attempts' = 0
    /\ atCancel' = underWay
    /\ UNCHANGED <<registered, passing, outages, underWay>>

Deregister ==
    /\ registered' = FALSE /\ passing' = FALSE
    /\ UNCHANGED <<outages, attempts, loop, underWay, atCancel>>

DeregisterFails(applied) ==
    /\ attempts' = attempts + 1
    /\ registered' = (registered /\ ~applied)
    /\ passing' = (passing /\ ~applied)
    /\ UNCHANGED <<outages, loop, underWay, atCancel>>

----------------------------------------------------------------------------
(* The loops. *)

\* Mutant of ensureRegistration: a service that is not found is an error like
\* any other.
ensureRegistrationLogs ==
    /\ loop = "asleep" /\ ~registered
    /\ UNCHANGED regVars

\* ensureRegistration: only when Consul answers that it has no such service is
\* it registered again.
ensureRegistration ==
    /\ loop = "asleep" /\ ~registered
    /\ loop' = "sent"
    /\ underWay' = TRUE
    /\ UNCHANGED <<registered, passing, outages, attempts, atCancel>>

\* Consul applies the registration; if the loop still waits, it sleeps again.
Applied ==
    /\ underWay
    /\ registered' = TRUE /\ passing' = TRUE
    /\ underWay' = FALSE
    /\ loop' = IF loop = "sent" THEN "asleep" ELSE loop
    /\ UNCHANGED <<outages, attempts, atCancel>>

\* It is lost, and all retries with it; the next check comes in 30 seconds.
Lost ==
    /\ underWay
    /\ underWay' = FALSE
    /\ loop' = IF loop = "sent" THEN "asleep" ELSE loop
    /\ UNCHANGED <<registered, passing, outages, attempts, atCancel>>

updateTTL ==
    /\ loop \in {"asleep", "sent"} /\ registered
    /\ passing' = TRUE
    /\ UNCHANGED <<registered, outages, attempts, loop, underWay, atCancel>>

\* Consul: no renewal came in time, and later the critical service is dropped.
TTLExpires ==
    /\ registered /\ passing /\ outages < MaxOutages
    /\ passing' = FALSE
    /\ outages' = outages + 1
    /\ UNCHANGED <<registered, attempts, loop, underWay, atCancel>>

Reap ==
    /\ registered /\ ~passing
    /\ registered' = FALSE
    /\ UNCHANGED <<passing, outages, attempts, loop, underWay, atCancel>>
=============================================================================
