---------------------------- MODULE MCWebClient ----------------------------
(* Model-checking instance of WebClient. *)
EXTENDS WebClient, TLC

CONSTANTS tavern, first, second

MCSlots == {first, second}
MCSymmetry == Permutations(MCSlots)

\* The log of a page that is behind is in no guard, and is drawn anew before the
\* page has caught up.  Of what the bubbles say no more counts there than whether
\* an answer has the history the session still has, and whether a compaction can
\* be taken back: states that differ in nothing else are one.
Turns(log) == [k \in DOMAIN log |-> log[k].turn]
MCServer(game) ==
    <<game.exists, Turns(game.history),
      IF game.evicted = <<>> THEN <<>>
      ELSE <<Turns(Last(game.evicted).told), Turns(Last(game.evicted).kept), Restorable(game)>> >>
MCReply(t) ==
    IF t.session \notin Sessions THEN <<>>
    ELSE <<t.reply.done, t.reply.depth, t.reply.compacted, Turns(t.reply.history),
           t.reply.history = server[t.session].history>>
MCTask(t) == <<t.kind, t.awaits, t.session, t.status, t.stopped, MCReply(t)>>

MCView ==
    IF aux_behind
    THEN <<[s \in Sessions |-> MCServer(server[s])], page, [i \in Slots |-> MCTask(tasks[i])], orphans, echo = NoEcho>>
    ELSE <<server, page, shown, echo, tasks, orphans>>

\* Operations cross on a page that is not behind (bound of this run).
Crossed == \A i \in Slots : tasks[i] # Idle
CrossesInView == Crossed' /\ ~Crossed => ~aux_behind
=============================================================================
