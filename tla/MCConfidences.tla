--------------------------- MODULE MCConfidences ---------------------------
(* Model-checking instance of Confidences. *)
EXTENDS Confidences

CONSTANTS human, bea, cas, code, hall, cell

MCCast == {human, bea, cas}
MCWalkers == {cas}
MCMoody == {bea, cas}
MCProposals == {{bea}, MCCast}
MCWords == {code}
MCPlaces == {hall, cell}
MCHearing == SUBSET MCPlaces

\* Nothing follows a state in which a word has escaped, and nothing is kept from
\* anyone once everyone was told: those states are one.  Nor does anything read the
\* time skip, an observation or the audience of the turn once the replies are done.
Replied == stage = "voice" \/ Cardinality(reply.done) = MaxReplies
AllTold == \A w \in Words : Cast \ {Controlled} \subseteq aux_told[w]
MCView ==
    IF aux_unguarded \/ AllTold THEN <<aux_unguarded>>
    ELSE <<scene, history, story, knows, moods, stage, aux_told, reply, beat.moods,
           IF Replied THEN {} ELSE beat.skip,
           IF Replied THEN Everyone ELSE turn,
           IF Replied /\ event.kind # "audible_speech" THEN NoEvent ELSE event>>
=============================================================================
