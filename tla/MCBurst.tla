------------------------------ MODULE MCBurst ------------------------------
(* Model-checking instance of Burst. *)
EXTENDS Burst

CONSTANTS human, npc, other, absent, thud

MCPresent == {human, npc, other}
MCCast == MCPresent \cup {absent}
MCTexts == {thud}
=============================================================================
