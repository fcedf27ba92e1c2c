---------------------------- MODULE MCIntentions ----------------------------
(* Small instances of Intentions. *)
EXTENDS Intentions

CONSTANTS web, db, operator

\* Every chain leads to every target.
MCInitialChains == {[s \in Services |-> Targets]}
=============================================================================
