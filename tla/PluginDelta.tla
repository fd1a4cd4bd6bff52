------------------------------ MODULE PluginDelta ------------------------------
(***************************************************************************)
(* The change a compaction's plugins make to plugin_state, as the          *)
(* checkpoint stores it, and its inversion by restore_last_compaction.     *)
(*                                                                         *)
(* plugin_state is a JSON object.  A tree is here a function from the      *)
(* paths of its values to Dict, for an object, or to a leaf (a list is a   *)
(* leaf: the code compares it whole).  A subtree keeps the paths of the    *)
(* tree it was cut from; the empty function stands for "does not exist".   *)
(***************************************************************************)
EXTENDS Integers, SequencesExt

CONSTANTS
    Keys,       \* keys of the objects; a plugin's id is the first key of a path
    Leaves,     \* the values that are not objects
    Dict        \* ... and the label of those that are

ASSUME DictAssumption == Dict \notin Leaves

Paths == Seq(Keys)

\* The objects a path goes through.
Above(p) == {SubSeq(p, 1, n) : n \in 0..Len(p) - 1}

IsTree(t) ==
    /\ DOMAIN t \subseteq Paths
    /\ \A p \in DOMAIN t : t[p] \in Leaves \cup {Dict}
    /\ <<>> \in DOMAIN t /\ t[<<>>] = Dict
    /\ \A p \in DOMAIN t : \A above \in Above(p) : above \in DOMAIN t /\ t[above] = Dict

\* What a lookup of path p finds.
Lookup(t, p) == [q \in {q \in DOMAIN t : IsPrefix(p, q)} |-> t[q]]

-----------------------------------------------------------------------------
(* build_plugin_delta *)

\* The recursion goes down while both sides are objects, and stops at the first
\* path that one side lacks or where the two differ and one is not an object.
Differs(before, after, p) ==
    \/ p \in DOMAIN before /\ p \notin DOMAIN after
    \/ p \in DOMAIN after /\ p \notin DOMAIN before
    \/ p \in DOMAIN before /\ p \in DOMAIN after /\ before[p] # after[p]

ObjectIn(t, p) == p \in DOMAIN t /\ t[p] = Dict

Changed(before, after) ==
    { p \in DOMAIN before \cup DOMAIN after :
        /\ Differs(before, after, p)
        /\ \A above \in Above(p) : ObjectIn(before, above) /\ ObjectIn(after, above) }

\* Every operation of the delta: where, what was there, what is there now.
Delta(before, after) ==
    { [path |-> p, before |-> Lookup(before, p), after |-> Lookup(after, p)] :
        p \in Changed(before, after) }

-----------------------------------------------------------------------------
(* invert_plugin_delta *)

\* What is there now is no longer what the compaction left there.
Conflicts(current, ops) == {o \in ops : Lookup(current, o.path) # o.after}

PluginsInConflict(current, ops) == {o.path[1] : o \in Conflicts(current, ops)}

\* No path of a delta lies under another, so the order of the operations does
\* not matter.  Putting a value back makes an object of everything above it, a
\* leaf that has taken that place since included: the lookup of a path the
\* compaction removed finds nothing there, which is no conflict.
Inverted(current, ops) ==
    LET done   == ops \ Conflicts(current, ops)
        kept   == {q \in DOMAIN current : \A o \in done : ~IsPrefix(o.path, q)}
        given  == UNION {DOMAIN o.before : o \in done}
        opened == UNION {Above(o.path) : o \in done}
        Old(q) == (CHOOSE o \in done : q \in DOMAIN o.before).before[q]
    IN  [q \in kept \cup given \cup opened |->
            IF q \in given THEN Old(q) ELSE IF q \in opened THEN Dict ELSE current[q]]

\* restore_last_compaction goes on when every plugin in conflict has a resolver.
RestoreGoesOn(current, ops, Resolvers) == PluginsInConflict(current, ops) \subseteq Resolvers

=============================================================================
