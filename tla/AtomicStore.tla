---------------------------- MODULE AtomicStore ----------------------------
(***************************************************************************)
(* What the session store promises its requests, however they interleave:  *)
(* every commit is made on top of the one before it, and a deleted session *)
(* never comes back.                                                       *)
(***************************************************************************)
EXTENDS Sequences

CONSTANTS Requests, Gone

VARIABLE store  \* who made each commit of the session, or Gone

Init == store = <<>>

Commit(r) == store # Gone /\ store' = Append(store, r)

Delete == store # Gone /\ store' = Gone

Next == Delete \/ \E r \in Requests : Commit(r)

Spec == Init /\ [][Next]_store
=============================================================================
