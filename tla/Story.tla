------------------------------- MODULE Story -------------------------------
(***************************************************************************)
(* What a session promises of its history, whatever is kept in the prompt  *)
(* window: a story is a sequence of records that grows by whole beats and  *)
(* is taken back by whole beats, the newest one first.  Nothing else that  *)
(* happens to a session - compacting, restoring, a failed save, a crash -  *)
(* changes the story.                                                      *)
(***************************************************************************)
EXTENDS Integers, Sequences

VARIABLE story  \* the records told so far; `tick` names the beat of each

Init == story = <<>>

\* A beat is told: its records share one clock value, later than any before.
Tell ==
    /\ Len(story') > Len(story)
    /\ SubSeq(story', 1, Len(story)) = story
    /\ \A i, j \in Len(story)+1..Len(story') : story'[i].tick = story'[j].tick
    /\ \A i \in 1..Len(story) : story[i].tick < story'[Len(story) + 1].tick

\* The newest beat is taken back, all of its records and no other.
TakeBack ==
    \E n \in 0..Len(story)-1 :
        /\ story' = SubSeq(story, 1, n)
        /\ \A i \in 1..Len(story) : i <= n <=> story[i].tick # story[Len(story)].tick

Next == Tell \/ TakeBack

Spec == Init /\ [][Next]_story
=============================================================================
