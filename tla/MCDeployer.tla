----------------------------- MODULE MCDeployer -----------------------------
(* A configuration that needs every object, with limits on the instances,     *)
(* and one that needs few.                                                    *)
EXTENDS Deployer

Full ==
    [managed |-> TRUE, podSecurityPolicy |-> TRUE, scheme |-> "https", serviceType |-> "NodePort",
     default |-> 2, min |-> 1, max |-> 2]

Plain ==
    [managed |-> FALSE, podSecurityPolicy |-> FALSE, scheme |-> "http", serviceType |-> "none",
     default |-> NoCount, min |-> NoCount, max |-> NoCount]

MCConfigs == {Plain, Full}
=============================================================================
