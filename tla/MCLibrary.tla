----------------------------- MODULE MCLibrary -----------------------------
(* Model-checking instance of Library: a cast of two, one of them a user's. *)
EXTENDS Library, TLC

MCNames == {"ana"}
MCBuiltIns == {"guard"}
MCIds == {"i", "j"}
MCShipped == "j" :> "guard"
\* The whole cast, and the guard twice.
MCLinks == {"i" :> "ana" @@ "j" :> "guard", "i" :> "guard" @@ "j" :> "guard"}
MCSymmetry == Permutations(Editors)

\* The session is read by no step, and the starts that will be refused for their
\* links are one.
Refused == Starting("reads") /\ ~LinksFit(start.links, IF start.reads = Nothing THEN start.cast ELSE start.reads)
MCView == <<presets, scenarios, clients, aux_lives, IF Refused THEN <<"refused">> ELSE <<start, aux_was>>>>
=============================================================================
