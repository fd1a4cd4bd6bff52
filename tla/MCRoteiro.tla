----------------------------- MODULE MCRoteiro -----------------------------
(* Model-checking instance of Roteiro. *)
EXTENDS Roteiro

CONSTANTS actor, lamp, key

MCActors == {actor}
MCAnchors == {lamp, key}

Short == [id |-> 1, duration_ticks |-> 2]
Long == [id |-> 2, duration_ticks |-> 4]
Timeless == [id |-> 3, duration_ticks |-> 0]

Written(summary, act, duration) == [summary |-> summary, id |-> act.id, duration_ticks |-> duration]

\* One short act and no more; nothing usable, but the act is called completed; a
\* long act, one that is there already and a short one; an act that is there
\* already and one with no time.
MCReplies ==
    { [acts |-> <<Written("new", Short, 2)>>, completed |-> FALSE, budget |-> 1],
      [acts |-> <<Written("none", Short, 2)>>, completed |-> TRUE, budget |-> 3],
      [acts |-> <<Written("new", Long, 4), Written("repeated", Long, 4), Written("new", Short, 2)>>,
       completed |-> FALSE, budget |-> 3],
      [acts |-> <<Written("repeated", Short, 2), Written("new", Timeless, -1)>>,
       completed |-> TRUE, budget |-> 3] }

MCBeat(move, told, touched, ticks) ==
    [move |-> move, told |-> told, touched |-> touched, ticks |-> ticks]

\* The player speaks and is answered; the player speaks to no effect; the player
\* thinks, and time passes unseen; the world goes on; the scene alone changes.
MCBeats ==
    { MCBeat("spoken", "account", {actor, lamp}, 0),
      MCBeat("thought", "nothing", {}, 1),
      MCBeat("none", "account", {key}, 0),
      MCBeat("none", "nothing", {}, 1) }
=============================================================================
