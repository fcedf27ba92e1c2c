-------------------------------- MODULE Exec --------------------------------
(***************************************************************************)
(* The exec command of a gateway pod (internal/commands/exec/exec.go):     *)
(* connect to Consul, register the gateway, render the configuration,      *)
(* start the certificate manager, wait for its files, run Envoy, and undo  *)
(* the registration on the way out.  RunExec, the certificate manager,     *)
(* Envoy and the registration loops run concurrently; an interrupt, or the *)
(* loss of the Consul servers, may come at any point.                      *)
(***************************************************************************)
EXTENDS CertManager, Registration

VARIABLES
    main,           \* where RunExec is
    cancelled,      \* ctx is done
    groupDone,      \* groupCtx is done
    envoy,          \* the Envoy process
    deregistered    \* the deregistration of the return path succeeded

execVars == <<main, cancelled, groupDone, envoy, deregistered>>
vars == <<certVars, regVars, execVars>>

MainStates == {"connect", "register", "render", "certs", "group", "deregister", "returned"}
EnvoyStates == {"none", "running", "failed", "exited", "killed"}

TypeOK ==
    /\ CertTypeOK /\ RegTypeOK
    /\ main \in MainStates
    /\ cancelled \in BOOLEAN /\ groupDone \in BOOLEAN /\ deregistered \in BOOLEAN
    /\ envoy \in EnvoyStates

Init ==
    /\ CertInit /\ RegInit
    /\ main = "connect"
    /\ cancelled = FALSE /\ groupDone = FALSE /\ deregistered = FALSE
    /\ envoy = "none"

Running == main # "returned"

----------------------------------------------------------------------------
(* RunExec. *)

\* client.Wait: the first connection is there, or the wait is over.
Connect(ok) ==
    /\ main = "connect"
    /\ main' = IF ok THEN "register" ELSE "returned"
    /\ UNCHANGED <<certVars, regVars, cancelled, groupDone, envoy, deregistered>>

\* RegisterGateway.  Its failure returns before Deregister is deferred.
RegisterGateway ==
    /\ main = "register" /\ ~cancelled
    /\ Register
    /\ main' = "render"
    /\ UNCHANGED <<certVars, cancelled, groupDone, envoy, deregistered>>

RegisterGatewayFails(applied) ==
    /\ main = "register" /\ attempts < Tries
    /\ RegisterFails(applied)
    /\ main' = IF cancelled \/ attempts + 1 = Tries THEN "returned" ELSE main
    /\ UNCHANGED <<certVars, cancelled, groupDone, envoy, deregistered>>

\* RenderSDSConfig and RenderBootstrap, and the start of Manage.
Render ==
    /\ main = "render"
    /\ main' = "certs"
    /\ manage' = "fetch"
    /\ UNCHANGED <<root, leaf, seenRoot, seenLeaf, ca, pair, file, writing, opened,
                   failed, signalled, written, regVars, cancelled, groupDone, envoy,
                   deregistered>>

\* The deferred function: the loops are cancelled, then the service is
\* deregistered in a context of its own.
BeginReturn ==
    /\ CancelLoop
    /\ main' = "deregister"

RenderFails ==
    /\ main = "render"
    /\ BeginReturn
    /\ UNCHANGED <<certVars, cancelled, groupDone, envoy, deregistered>>

\* WaitForWrite answers and Envoy starts.
WaitForWrite ==
    /\ main = "certs" /\ signalled
    /\ main' = "group"
    /\ envoy' = "running"
    /\ UNCHANGED <<certVars, regVars, cancelled, groupDone, deregistered>>

\* It times out, or ctx is done.
WaitForWriteFails ==
    /\ main = "certs"
    /\ BeginReturn
    /\ UNCHANGED <<certVars, cancelled, groupDone, envoy, deregistered>>

\* Mutant of GroupWait: the group is done when its context is.
GroupDone ==
    /\ main = "group" /\ groupDone
    /\ BeginReturn
    /\ UNCHANGED <<certVars, cancelled, groupDone, envoy, deregistered>>

\* group.Wait: both goroutines have returned.
GroupWait ==
    /\ main = "group"
    /\ envoy # "running" /\ manage \in {"stopped", "failed"}
    /\ BeginReturn
    /\ UNCHANGED <<certVars, cancelled, groupDone, envoy, deregistered>>

DeregisterGateway ==
    /\ main = "deregister"
    /\ Deregister
    /\ deregistered' = TRUE
    /\ main' = "returned"
    /\ UNCHANGED <<certVars, cancelled, groupDone, envoy>>

DeregisterGatewayFails(applied) ==
    /\ main = "deregister" /\ attempts < Tries
    /\ DeregisterFails(applied)
    /\ main' = IF attempts + 1 = Tries THEN "returned" ELSE main
    /\ UNCHANGED <<certVars, cancelled, groupDone, envoy, deregistered>>

RunExec ==
    \/ \E ok \in BOOLEAN : Connect(ok)
    \/ RegisterGateway
    \/ \E applied \in BOOLEAN : RegisterGatewayFails(applied)
    \/ Render \/ RenderFails
    \/ WaitForWrite \/ WaitForWriteFails
    \/ GroupWait
    \/ DeregisterGateway
    \/ \E applied \in BOOLEAN : DeregisterGatewayFails(applied)

----------------------------------------------------------------------------
(* The other goroutines and the processes. *)

\* An interrupt, or WatchServers gives up: cancel.
Interrupt ==
    /\ Running /\ ~cancelled
    /\ cancelled' = TRUE /\ groupDone' = TRUE
    /\ UNCHANGED <<certVars, regVars, main, envoy, deregistered>>

\* Manager.Run returns when the process ends: with its error, which ends the
\* group, with nil after a clean exit, and with nil when ctx was done.
EnvoyFails ==
    /\ envoy = "running" /\ ~cancelled
    /\ envoy' = "failed"
    /\ groupDone' = TRUE
    /\ UNCHANGED <<certVars, regVars, main, cancelled, deregistered>>

EnvoyExits ==
    /\ envoy = "running" /\ ~cancelled
    /\ envoy' = "exited"
    /\ UNCHANGED <<certVars, regVars, main, cancelled, groupDone, deregistered>>

EnvoyKilled ==
    /\ envoy = "running" /\ cancelled
    /\ envoy' = "killed"
    /\ UNCHANGED <<certVars, regVars, main, cancelled, groupDone, deregistered>>

\* Mutant of ManageReturns: Manage is given ctx and not groupCtx.
ManageReturnsOnCtx ==
    /\ Running /\ cancelled
    /\ StopWatches
    /\ UNCHANGED <<regVars, execVars>>

ManageReturns ==
    /\ Running /\ groupDone
    /\ StopWatches
    /\ UNCHANGED <<regVars, execVars>>

\* The error of Manage ends the group.
ManageFails ==
    /\ Running
    /\ FetchLeafFails
    /\ groupDone' = TRUE
    /\ UNCHANGED <<regVars, main, cancelled, envoy, deregistered>>

Certs == Running /\ CertStep /\ UNCHANGED <<regVars, execVars>>

CertFaults ==
    /\ Running
    /\ WriteFails \/ IgnoreResult \/ FetchLeafUnusable \/ RotateRoot \/ RotateLeaf
    /\ UNCHANGED <<regVars, execVars>>

\* The loops' calls carry a context below ctx: once it is done they send nothing.
Keep ==
    /\ Running /\ ~cancelled
    /\ ensureRegistration
    /\ UNCHANGED <<certVars, execVars>>

Renew ==
    /\ Running /\ ~cancelled
    /\ updateTTL
    /\ UNCHANGED <<certVars, execVars>>

\* Requests under way and Consul's clock go on without the process.
ConsulApplies == Applied /\ UNCHANGED <<certVars, execVars>>
ConsulForgets == (Lost \/ TTLExpires) /\ UNCHANGED <<certVars, execVars>>
ConsulReaps == Reap /\ UNCHANGED <<certVars, execVars>>

Next ==
    \/ RunExec
    \/ Interrupt
    \/ EnvoyFails \/ EnvoyExits \/ EnvoyKilled
    \/ ManageReturns \/ ManageFails
    \/ Certs \/ CertFaults
    \/ Keep \/ Renew
    \/ ConsulApplies \/ ConsulForgets \/ ConsulReaps

\* RunExec's calls return, after retries and timeouts; a killed Envoy ends; the
\* manager's goroutines and the loops are scheduled; a registration that is
\* sent again and again gets through.  Nothing obliges Envoy to end, a watch to
\* report, an interrupt to come.
Fairness ==
    /\ WF_vars(RunExec)
    /\ WF_vars(EnvoyKilled)
    /\ WF_vars(ManageReturns)
    /\ WF_vars(Certs)
    /\ WF_vars(Keep) /\ WF_vars(Renew)
    /\ SF_vars(ConsulApplies) /\ WF_vars(ConsulReaps)

Spec == Init /\ [][Next]_vars /\ Fairness

----------------------------------------------------------------------------
\* Envoy is never started without its files ("wait until we've written once
\* before booting envoy", exec.go), and RunExec never returns and leaves it
\* behind, whichever of the ways out it takes.
EnvoyWithinItsMeans ==
    /\ envoy # "none" => written = Files
    /\ envoy = "running" => main = "group"

\* Deregister cancels the loop and does not wait for it: after a deregistration
\* that succeeded the service is back only if a registration was already under
\* way when the loop was cancelled.
OnlyUnderWayReturns ==
    main = "returned" /\ deregistered /\ registered => atCancel

\* Whatever ends it (an interrupt, Envoy failing, the manager failing), RunExec
\* comes to its end although it waits for two goroutines.  A clean exit of
\* Envoy is not among the causes: it ends neither context.
AgentReturns ==
    (cancelled \/ envoy = "failed" \/ manage = "failed") ~> main = "returned"

\* While the gateway runs, a service that Consul has dropped comes back.
RunningIsRegistered ==
    main = "group" ~> (registered \/ main # "group")
=============================================================================
