------------------------------- MODULE Status -------------------------------
(***************************************************************************)
(* Status conditions (internal/k8s/reconciler/status).  A status type is a *)
(* struct of error fields, generated from a table; here it is that table,  *)
(* the fields in the order in which Condition looks at them, and a value   *)
(* of the type is the set of the fields that are not nil.  Messages and    *)
(* timestamps are left out.                                                *)
(***************************************************************************)
EXTENDS Sequences, SequencesExt

GatewayClassAccepted == <<"InvalidParameters", "Waiting">>

GatewayReady == <<"ListenersNotValid", "ListenersNotReady", "AddressNotAssigned">>
GatewayScheduled == <<"NotReconciled", "PodFailed", "Unknown", "NoResources">>
GatewayInSync == <<"SyncError">>

RouteAccepted ==
    <<"InvalidRouteKind", "ListenerNamespacePolicy", "ListenerHostnameMismatch", "BindError">>
RouteResolvedRefs ==
    <<"Errors", "ServiceNotFound", "ConsulServiceNotFound", "RefNotPermitted",
      "InvalidKind", "BackendNotFound">>

ListenerConflicted == <<"HostnameConflict", "ProtocolConflict", "RouteConflict">>
ListenerDetached ==
    <<"PortUnavailable", "UnsupportedExtension", "UnsupportedProtocol", "UnsupportedAddress">>
ListenerReady == <<"Invalid", "Pending">>
ListenerResolvedRefs == <<"InvalidCertificateRef", "InvalidRouteKinds", "RefNotPermitted">>

----------------------------------------------------------------------------
\* The reason of the base condition, when no field is set.
Fine == "fine"

\* Condition: the first field that is set gives the reason.
Condition(type, errs) ==
    LET set == SelectSeq(type, LAMBDA f : f \in errs)
    IN  IF set = <<>> THEN Fine ELSE Head(set)

HasError(type, errs) == errs \cap ToSet(type) # {}

\* MarshalJSON writes the fields of the type that are set under their names and
\* UnmarshalJSON reads them back; the types of the errors are lost.
Marshaled(type, errs) == errs \cap ToSet(type)

----------------------------------------------------------------------------
GatewayStatusFields ==
    [Scheduled |-> GatewayScheduled, Ready |-> GatewayReady, InSync |-> GatewayInSync]

ListenerStatusFields ==
    [Ready |-> ListenerReady, Conflicted |-> ListenerConflicted,
     Detached |-> ListenerDetached, ResolvedRefs |-> ListenerResolvedRefs]

RouteStatusFields == [ResolvedRefs |-> RouteResolvedRefs, Accepted |-> RouteAccepted]

\* The zero value of a status, its conditions and its copy in the store.
NoErrors(fields) == [c \in DOMAIN fields |-> {}]
Conditions(fields, s) == [c \in DOMAIN fields |-> Condition(fields[c], s[c])]
Copied(fields, s) == [c \in DOMAIN fields |-> Marshaled(fields[c], s[c])]

\* ListenerStatus.Valid: the required conditions; Ready is not one of them.
StatusValid(s) ==
    \A c \in {"Conflicted", "Detached", "ResolvedRefs"} :
        ~HasError(ListenerStatusFields[c], s[c])
=============================================================================
