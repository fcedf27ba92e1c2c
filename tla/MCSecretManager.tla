-------------------------- MODULE MCSecretManager --------------------------
(* Small instances of SecretManager: two streams of two Envoy nodes, which  *)
(* both use the secret a and may use b as well, but not c; a comes near its *)
(* expiry.                                                                  *)
EXTENDS SecretManager, TLC

CONSTANTS s1, s2, n1, n2, a, b, c

MCNodeOf == (s1 :> n1) @@ (s2 :> n2)
MCLists == {{}, {a}, {a, b}, {c}}
MCCertificates == {{a, b}}
=============================================================================
