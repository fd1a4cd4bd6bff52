--------------------------- MODULE MCSessionLock ---------------------------
(* Model-checking instance of SessionLock. *)
EXTENDS SessionLock

CONSTANTS a, b, c

MCRequests == {a, b, c}

\* One more than the requests: a request can always be given a lock of its own.
MCLocks == 1..4
=============================================================================
