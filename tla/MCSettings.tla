----------------------------- MODULE MCSettings -----------------------------
(* Model-checking instance of Settings: a plugin's provider beside the two of *)
(* the server, as in its example of one, and one without an endpoint policy.   *)
EXTENDS Settings, TLC

MCSymmetry == Permutations(Clients)
=============================================================================
