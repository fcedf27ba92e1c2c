-------------------------- MODULE MCGatewayClasses --------------------------
(* Two contents of a configuration, and the empty one of a class without a    *)
(* reference.                                                                 *)
EXTENDS GatewayClasses

MCConfigs == {[pc |-> "config", content |-> 1], [pc |-> "config", content |-> 2]}
MCDefaultConfig == [pc |-> "config", content |-> 0]
=============================================================================
