-------------------------- MODULE MCSessionHistory --------------------------
(* Model-checking instance of SessionHistory. *)
EXTENDS SessionHistory, PluginDelta

CONSTANTS s1, s2, p1, p2

MCScenes == {s1, s2}
MCPluginStates == {p1, p2}

Beat(spoke, told, ticks, scene, plugin) ==
    [spoke |-> spoke, told |-> told, scene_up |-> TRUE, ticks |-> ticks,
     scene |-> scene, plugin |-> plugin]

\* The player moves and the world answers; the player passes and the world goes
\* on; the world compresses time and leaves no record of it.
MCBeats == { Beat(TRUE, TRUE, 0, s2, p2), Beat(FALSE, TRUE, 0, s2, p1),
             Beat(FALSE, FALSE, 1, s1, p2) }

-----------------------------------------------------------------------------
(* plugin_state as trees of two levels, for the deltas of PluginDelta *)

CONSTANTS k1, k2, v1, v2

MCKeys == {k1, k2}
MCLeaves == {v1, v2}

\* A child of the root: absent, a leaf, or an object of leaves.
Children ==
    {<<>>} \cup {<<l>> : l \in MCLeaves}
           \cup {<<Dict, f>> : f \in UNION {[K -> MCLeaves] : K \in SUBSET MCKeys}}

TreeOf(c) ==
    LET top   == {<<k>> : k \in {k \in DOMAIN c : c[k] # <<>>}}
        below == UNION {{<<k, j>> : j \in DOMAIN c[k][2]} :
                            k \in {k \in DOMAIN c : Len(c[k]) = 2}}
    IN  [p \in {<<>>} \cup top \cup below |->
            IF p = <<>> THEN Dict
            ELSE IF Len(p) = 1 THEN c[p[1]][1] ELSE c[p[1]][2][p[2]]]

MCTrees == {TreeOf(c) : c \in [MCKeys -> Children]}

\* Without a change since, a restore gives the plugins' state back.
ASSUME RoundTrip ==
    \A before, after \in MCTrees :
        /\ IsTree(before)
        /\ Conflicts(after, Delta(before, after)) = {}
        /\ Inverted(after, Delta(before, after)) = before

Labels(t, p) == {t[q] : q \in {p} \cap DOMAIN t}
SmallTrees == {TreeOf(c) : c \in [{k1} -> Children]}

\* Whatever a plugin has written since, a restore leaves a tree, and each value
\* it leaves is one of now or one of before.
ASSUME RestoreMixes ==
    \A before, after, current \in SmallTrees :
        LET left == Inverted(current, Delta(before, after))
        IN  /\ IsTree(left)
            /\ \A p \in DOMAIN left : left[p] \in {Dict} \cup Labels(current, p)
                                                        \cup Labels(before, p)

\* A leaf written since where an object was: nothing is in conflict, the restore
\* goes on without a resolver, and the leaf is gone.
ASSUME RestoreMayOverwrite ==
    \E before, after, current \in SmallTrees :
        LET ops  == Delta(before, after)
            left == Inverted(current, ops)
        IN  /\ RestoreGoesOn(current, ops, {})
            /\ <<k1>> \in DOMAIN current /\ ObjectIn(after, <<k1>>)
            /\ current[<<k1>>] \in MCLeaves /\ ObjectIn(left, <<k1>>)
=============================================================================
