--------------------------- MODULE MCSessionAdmin ---------------------------
(* Model-checking instance of SessionAdmin. *)
EXTENDS SessionAdmin, TLC

CONSTANTS c1, c2, x, y

MCCharacters == {c1, c2}
MCStartPresent == {c1, c2}
MCClients == {x, y}

\* The clients are interchangeable; the cast is not (c1 is controlled first).
MCSymmetry == Permutations(MCClients)
=============================================================================
