------------------------ MODULE SessionHistory_proofs ------------------------
(***************************************************************************)
(* Nothing played is lost, doubled or put out of order by compacting,      *)
(* undoing, restoring and crashing, and a restore gives the plugins their  *)
(* state back: for any retention window, beats and contents, and for any   *)
(* trees of plugin state.                                                  *)
(***************************************************************************)
EXTENDS SessionHistory, PluginDelta, SequenceTheorems, FiniteSetTheorems, WellFoundedInduction, TLAPS

-----------------------------------------------------------------------------
(* The checkpoint files *)

\* The checkpoint files are numbered without a gap, so the next number is one
\* more than how many there are, whatever the stack holds.
LEMMA NextIdIsFresh ==
    ASSUME files \in Seq(Checkpoint)
    PROVE  next_compaction_id = Len(files) + 1
<1>1. DOMAIN files = 1..Len(files) /\ Len(files) \in Nat
  BY LenProperties
<1>2. CASE Len(files) = 0
  BY <1>1, <1>2 DEF next_compaction_id
<1>3. CASE Len(files) # 0
  <2>1. \A n \in DOMAIN files :
          (\A m \in DOMAIN files : m <= n) <=> n = Len(files)
    BY <1>1, <1>3
  <2>2. (CHOOSE n \in DOMAIN files : \A m \in DOMAIN files : m <= n) = Len(files)
    BY <1>1, <1>3, <2>1
  <2>. QED  BY <1>1, <1>3, <2>2 DEF next_compaction_id
<1>. QED  BY <1>2, <1>3

\* Writing the next checkpoint appends to the files.
LEMMA WithFileAppends ==
    ASSUME files \in Seq(Checkpoint), NEW c \in Checkpoint
    PROVE  /\ WithFile(Len(files) + 1, c) \in Seq(Checkpoint)
           /\ Len(WithFile(Len(files) + 1, c)) = Len(files) + 1
           /\ WithFile(Len(files) + 1, c)[Len(files) + 1] = c
           /\ \A n \in 1..Len(files) : WithFile(Len(files) + 1, c)[n] = files[n]
<1>1. DOMAIN files = 1..Len(files) /\ Len(files) \in Nat
  BY LenProperties
<1>2. DOMAIN files \cup {Len(files) + 1} = 1..Len(files) + 1
  BY <1>1
<1>3. WithFile(Len(files) + 1, c)
        = [n \in 1..Len(files) + 1 |-> IF n = Len(files) + 1 THEN c ELSE files[n]]
  BY <1>2, Zenon DEF WithFile
<1>4. \A n \in 1..Len(files) : files[n] \in Checkpoint
  BY <1>1, ElementOfSeq
<1>. QED  BY <1>1, <1>3, <1>4

\* Unlinking the newest checkpoint leaves the ones before it.
LEMMA WithoutFileShortens ==
    ASSUME files \in Seq(Checkpoint), Len(files) > 0
    PROVE  /\ WithoutFile(Len(files)) \in Seq(Checkpoint)
           /\ Len(WithoutFile(Len(files))) = Len(files) - 1
           /\ \A n \in 1..Len(files) - 1 : WithoutFile(Len(files))[n] = files[n]
<1>1. DOMAIN files = 1..Len(files) /\ Len(files) \in Nat
  BY LenProperties
<1>2. DOMAIN files \ {Len(files)} = 1..Len(files) - 1
  BY <1>1
<1>3. WithoutFile(Len(files)) = [n \in 1..Len(files) - 1 |-> files[n]]
  BY <1>2, Zenon DEF WithoutFile
<1>4. \A n \in 1..Len(files) - 1 : files[n] \in Checkpoint
  BY <1>1, ElementOfSeq
<1>. QED  BY <1>1, <1>3, <1>4

-----------------------------------------------------------------------------
(* Helpers *)

\* The number of the next turn is a turn number.
LEMMA NextTurnType ==
    ASSUME NEW h \in Seq(TurnRecord)
    PROVE  next_turn_number(h) \in Nat
<1>1. CASE h = <<>>
  BY <1>1 DEF next_turn_number
<1>2. CASE h # <<>>
  <2>1. Len(h) \in 1..Len(h)
    BY <1>2, EmptySeq
  <2>2. h[Len(h)] \in TurnRecord
    BY <2>1, ElementOfSeq
  <2>. QED  BY <1>2, <2>2 DEF next_turn_number, Newest, TurnRecord
<1>. QED  BY <1>1, <1>2

\* The parent of a new checkpoint is a checkpoint number, or NoParent.
LEMMA ParentType ==
    ASSUME NEW s \in Seq(StackEntry)
    PROVE  ParentId(s) \in Nat
<1>1. CASE s = <<>>
  BY <1>1 DEF ParentId, NoParent
<1>2. CASE s # <<>>
  <2>1. Len(s) \in 1..Len(s)
    BY <1>2, EmptySeq
  <2>2. s[Len(s)] \in StackEntry
    BY <2>1, ElementOfSeq
  <2>. QED  BY <1>2, <2>2 DEF ParentId, Newest, StackEntry
<1>. QED  BY <1>1, <1>2

\* A GameState is made of well-typed parts.
LEMMA GameStateParts ==
    ASSUME NEW g \in GameState
    PROVE  /\ g.revision \in Nat /\ g.history \in Seq(TurnRecord) /\ g.summary \in SUBSET Nat
           /\ g.stack \in Seq(StackEntry) /\ g.tick \in Nat
           /\ g.scene \in Scenes /\ g.plugin \in PluginStates
BY DEF GameState

-----------------------------------------------------------------------------
(* Types *)

\* While a compaction is between its two writes, its checkpoint is the newest
\* file, and the entry it adds to the stack names that file.
DraftNamesNewestFile ==
    op.stage = "saving" =>
        /\ op.kind # "idle"
        /\ Len(files) > 0
        /\ draft.stack = Append(saved.stack, [id |-> Len(files),
                                              parent |-> ParentId(saved.stack)])

TypeInv == TypeOK /\ DraftNamesNewestFile

\* The state start_session creates is well typed.
LEMMA TypeInit == Init => TypeInv
<1>. SUFFICES ASSUME Init PROVE TypeInv
  OBVIOUS
<1>1. saved \in GameState
  BY ContentAssumption DEF Init, GameState
<1>2. op \in Operation /\ op.stage # "saving"
  BY DEF Init, Operation, Idle
<1>3. files \in Seq(Checkpoint) /\ aux_log \in Seq(TurnRecord)
      /\ aux_start \in Seq(Beginning) /\ Len(aux_start) = Len(aux_log) /\ aux_marks \in Seq(Mark)
  BY EmptySeq DEF Init
<1>4. draft \in GameState \cup {NoDraft}
  BY DEF Init
<1>. QED  BY <1>1, <1>2, <1>3, <1>4 DEF TypeInv, TypeOK, DraftNamesNewestFile

\* The records one beat adds: under one turn number and one clock, with what the
\* beat started from; the player's with the scene it started in.
OfOneBeat(added) ==
    \A i \in 1..Len(added) : /\ added[i].turn = next_turn_number(saved.history)
                             /\ added[i].tick = saved.tick
                             /\ added[i].plugin = saved.plugin
                             /\ added[i].by = "Player" => added[i].scene = saved.scene

\* A beat appends to the history and to the log the same well-formed records,
\* all of the turn after the newest one and of the clock the beat started from.
LEMMA BeatRecords ==
    ASSUME TypeInv, NEW beat \in Beats, NEW again \in BOOLEAN, CommitBeat(beat, again)
    PROVE  \E added \in Seq(TurnRecord) :
              /\ saved' = [saved EXCEPT !.history = saved.history \o added,
                                        !.tick = ClockAfter(saved.tick, beat),
                                        !.scene = beat.scene, !.plugin = beat.plugin,
                                        !.revision = saved.revision + 1]
              /\ aux_log' = aux_log \o added
              /\ aux_start' = aux_start \o
                    [i \in 1..Len(added) |-> [scene |-> saved.scene, plugin |-> saved.plugin,
                                              tick |-> saved.tick]]
              /\ OfOneBeat(added)
<1>. DEFINE step == next_turn_number(saved.history)
            Rec(by, scene) == [turn |-> step, by |-> by, scene |-> scene,
                               plugin |-> saved.plugin, tick |-> saved.tick]
            move == IF beat.spoke THEN <<Rec("Player", saved.scene)>> ELSE <<>>
            account == IF beat.told THEN <<Rec("world", beat.scene)>> ELSE <<>>
            added == move \o account
<1>1. saved \in GameState /\ saved.history \in Seq(TurnRecord)
  BY DEF TypeInv, TypeOK, GameState
<1>2. step \in Nat
  BY <1>1, NextTurnType
<1>3. beat.scene \in Scenes
  BY BeatAssumption
<1>4. saved.scene \in Scenes /\ saved.plugin \in PluginStates /\ saved.tick \in Nat
  BY <1>1 DEF GameState
<1>5. Rec("Player", saved.scene) \in TurnRecord /\ Rec("world", beat.scene) \in TurnRecord
  BY <1>2, <1>3, <1>4 DEF TurnRecord
<1>. DEFINE r1 == Rec("Player", saved.scene)
            r2 == Rec("world", beat.scene)
            OfBeat(r) == /\ r.turn = step /\ r.tick = saved.tick /\ r.plugin = saved.plugin
                         /\ r.by = "Player" => r.scene = saved.scene
<1>6. OfBeat(r1) /\ OfBeat(r2)
  OBVIOUS
<1>7. added \in Seq(TurnRecord) /\ \A i \in 1..Len(added) : OfBeat(added[i])
  <2>1. r1 \in TurnRecord /\ r2 \in TurnRecord
    BY <1>5
  <2>2. /\ added = move \o account
        /\ move = IF beat.spoke THEN <<r1>> ELSE <<>>
        /\ account = IF beat.told THEN <<r2>> ELSE <<>>
    OBVIOUS
  <2>. HIDE DEF r1, r2, move, account, added, OfBeat
  <2>3. /\ move \in Seq(TurnRecord) /\ Len(move) \in Nat
        /\ \A i \in 1..Len(move) : OfBeat(move[i])
    BY <1>6, <2>1, <2>2
  <2>4. /\ account \in Seq(TurnRecord) /\ Len(account) \in Nat
        /\ \A i \in 1..Len(account) : OfBeat(account[i])
    BY <1>6, <2>1, <2>2
  <2>5. /\ added \in Seq(TurnRecord) /\ Len(added) = Len(move) + Len(account)
        /\ \A i \in 1..Len(move) + Len(account) :
              added[i] = IF i <= Len(move) THEN move[i] ELSE account[i - Len(move)]
    BY <2>2, <2>3, <2>4, ConcatProperties
  <2>6. ASSUME NEW i \in 1..Len(added) PROVE OfBeat(added[i])
    <3>1. CASE i <= Len(move)
      <4>1. i \in 1..Len(move) /\ added[i] = move[i]
        BY <2>3, <2>4, <2>5, <3>1
      <4>. QED  BY <2>3, <4>1
    <3>2. CASE ~(i <= Len(move))
      <4>1. i - Len(move) \in 1..Len(account) /\ added[i] = account[i - Len(move)]
        BY <2>3, <2>4, <2>5, <3>2
      <4>. QED  BY <2>4, <4>1
    <3>. QED  BY <3>1, <3>2
  <2>. QED  BY <2>5, <2>6
<1>8. /\ saved' = [saved EXCEPT !.history = saved.history \o added,
                                !.tick = ClockAfter(saved.tick, beat),
                                !.scene = beat.scene, !.plugin = beat.plugin,
                                !.revision = saved.revision + 1]
      /\ aux_log' = aux_log \o added
      /\ aux_start' = aux_start \o
            [i \in 1..Len(added) |-> [scene |-> saved.scene, plugin |-> saved.plugin,
                                      tick |-> saved.tick]]
  BY Zenon DEF CommitBeat
<1>9. OfOneBeat(added)
  BY <1>7 DEF OfOneBeat
<1>. HIDE DEF added, step
<1>. QED  BY <1>7, <1>8, <1>9

\* A beat keeps the types.
LEMMA CommitType ==
    ASSUME TypeInv, NEW beat \in Beats, NEW again \in BOOLEAN, CommitBeat(beat, again)
    PROVE  TypeInv'
<1>. DEFINE start == [scene |-> saved.scene, plugin |-> saved.plugin, tick |-> saved.tick]
<1>0. PICK added \in Seq(TurnRecord) :
        /\ saved' = [saved EXCEPT !.history = saved.history \o added,
                                  !.tick = ClockAfter(saved.tick, beat),
                                  !.scene = beat.scene, !.plugin = beat.plugin,
                                  !.revision = saved.revision + 1]
        /\ aux_log' = aux_log \o added
        /\ aux_start' = aux_start \o [i \in 1..Len(added) |-> start]
  BY BeatRecords
<1>. DEFINE starts == [i \in 1..Len(added) |-> start]
<1>1. saved \in GameState /\ saved.history \in Seq(TurnRecord) /\ Len(added) \in Nat
  BY LenProperties DEF TypeInv, TypeOK, GameState
<1>3. beat.scene \in Scenes /\ beat.plugin \in PluginStates /\ beat.ticks \in Nat
  BY BeatAssumption
<1>4. saved.scene \in Scenes /\ saved.plugin \in PluginStates /\ saved.tick \in Nat
      /\ saved.revision \in Nat
  BY <1>1 DEF GameState
<1>8. start \in Beginning
  BY <1>4 DEF Beginning
<1>9. starts \in Seq(Beginning) /\ Len(starts) = Len(added)
  <2>. HIDE DEF start
  <2>. QED  BY <1>1, <1>8
<1>10. aux_start' = aux_start \o starts /\ files' = files /\ draft' = draft /\ aux_marks' = aux_marks
  BY <1>0 DEF CommitBeat
<1>. HIDE DEF starts, start
<1>11. saved.history \o added \in Seq(TurnRecord)
  BY <1>1, ConcatProperties
<1>12. ClockAfter(saved.tick, beat) \in Nat
  BY <1>3, <1>4 DEF ClockAfter
<1>13. saved' \in GameState
  <2>1. saved' = [revision |-> saved.revision + 1, history |-> saved.history \o added,
                  summary |-> saved.summary, stack |-> saved.stack,
                  tick |-> ClockAfter(saved.tick, beat),
                  scene |-> beat.scene, plugin |-> beat.plugin]
    BY <1>0, <1>1 DEF GameState
  <2>2. saved.summary \in SUBSET Nat /\ saved.stack \in Seq(StackEntry) /\ saved.revision + 1 \in Nat
    BY <1>1, GameStateParts
  <2>. QED  BY <1>3, <1>11, <1>12, <2>1, <2>2 DEF GameState
<1>14. /\ aux_log' \in Seq(TurnRecord) /\ aux_start' \in Seq(Beginning)
       /\ Len(aux_start') = Len(aux_log')
  <2>1. /\ aux_log \in Seq(TurnRecord) /\ aux_start \in Seq(Beginning)
        /\ Len(aux_start) = Len(aux_log)
    BY DEF TypeInv, TypeOK
  <2>2. aux_log \o added \in Seq(TurnRecord) /\ Len(aux_log \o added) = Len(aux_log) + Len(added)
    BY <2>1, ConcatProperties
  <2>3. /\ aux_start \o starts \in Seq(Beginning)
        /\ Len(aux_start \o starts) = Len(aux_start) + Len(starts)
    BY <2>1, <1>9, ConcatProperties
  <2>. QED  BY <1>0, <1>9, <1>10, <2>1, <2>2, <2>3
<1>15. op' \in Operation /\ op'.stage # "saving"
  <2>1. op \in Operation /\ op.beats \in Nat
    BY DEF TypeInv, TypeOK, Operation
  <2>2. /\ op.stage # "saving"
        /\ op' = IF again THEN [op EXCEPT !.stage = "beats", !.beats = op.beats + 1] ELSE Idle
    BY DEF CommitBeat
  <2>3. CASE again
    <3>1. op' = [kind |-> op.kind, stage |-> "beats", beats |-> op.beats + 1]
      BY <2>1, <2>2, <2>3 DEF Operation
    <3>. QED  BY <2>1, <3>1 DEF Operation
  <2>4. CASE ~again
    BY <2>2, <2>4 DEF Operation, Idle
  <2>. QED  BY <2>3, <2>4
<1>. QED  BY <1>10, <1>13, <1>14, <1>15 DEF TypeInv, TypeOK, DraftNamesNewestFile

\* Undo leaves a prefix of the history.
LEMMA UndoType ==
    ASSUME TypeInv, UndoTurn
    PROVE  TypeInv'
<1>1. saved \in GameState /\ saved.history \in Seq(TurnRecord) /\ Len(saved.history) \in Nat
  BY LenProperties DEF TypeInv, TypeOK, GameState
<1>2. PICK n \in 0..Len(saved.history)-1 :
        /\ saved' = [saved EXCEPT !.history = SubSeq(@, 1, n),
                                  !.scene = saved.history[n + 1].scene,
                                  !.plugin = saved.history[n + 1].plugin,
                                  !.tick = saved.history[n + 1].tick,
                                  !.revision = @ + 1]
        /\ LET left == Len(aux_log) - (Len(saved.history) - n)
           IN  /\ aux_log' = SubSeq(aux_log, 1, left)
               /\ aux_start' = SubSeq(aux_start, 1, left)
               /\ aux_marks' = [k \in DOMAIN aux_marks |->
                      [aux_marks[k] EXCEPT !.intact = @ /\ aux_marks[k].upto <= left]]
  BY Zenon DEF UndoTurn, RestorePoint
<1>. DEFINE left == Len(aux_log) - (Len(saved.history) - n)
<1>3. /\ aux_log \in Seq(TurnRecord) /\ aux_start \in Seq(Beginning)
      /\ Len(aux_log) \in Nat /\ Len(aux_start) = Len(aux_log)
      /\ aux_marks \in Seq(Mark) /\ DOMAIN aux_marks = 1..Len(aux_marks) /\ Len(aux_marks) \in Nat
  BY LenProperties DEF TypeInv, TypeOK
<1>4. left \in Int /\ left <= Len(aux_log)
  BY <1>1, <1>2, <1>3
<1>5. saved' \in GameState
  <2>1. saved.history[n + 1] \in TurnRecord
    BY <1>1, <1>2, ElementOfSeq
  <2>2. SubSeq(saved.history, 1, n) \in Seq(TurnRecord)
    BY <1>1, <1>2, ElementOfSeq, SubSeqProperties
  <2>3. saved' = [revision |-> saved.revision + 1, history |-> SubSeq(saved.history, 1, n),
                  summary |-> saved.summary, stack |-> saved.stack,
                  tick |-> saved.history[n + 1].tick,
                  scene |-> saved.history[n + 1].scene, plugin |-> saved.history[n + 1].plugin]
    BY <1>1, <1>2 DEF GameState
  <2>4. /\ saved.history[n + 1].tick \in Nat /\ saved.history[n + 1].scene \in Scenes
        /\ saved.history[n + 1].plugin \in PluginStates
    BY <2>1 DEF TurnRecord
  <2>5. saved.summary \in SUBSET Nat /\ saved.stack \in Seq(StackEntry) /\ saved.revision + 1 \in Nat
    BY <1>1, GameStateParts
  <2>. QED  BY <2>2, <2>3, <2>4, <2>5 DEF GameState
<1>6. /\ aux_log' \in Seq(TurnRecord) /\ aux_start' \in Seq(Beginning)
      /\ Len(aux_start') = Len(aux_log')
  <2>. HIDE DEF left
  <2>0. aux_log' = SubSeq(aux_log, 1, left) /\ aux_start' = SubSeq(aux_start, 1, left)
    BY <1>2 DEF left
  <2>1. \A i \in 1..left : aux_log[i] \in TurnRecord /\ aux_start[i] \in Beginning
    BY <1>3, <1>4, ElementOfSeq
  <2>2. /\ SubSeq(aux_log, 1, left) \in Seq(TurnRecord)
        /\ Len(SubSeq(aux_log, 1, left)) = IF 1 <= left THEN left - 1 + 1 ELSE 0
    BY <1>4, <2>1, SubSeqProperties
  <2>3. /\ SubSeq(aux_start, 1, left) \in Seq(Beginning)
        /\ Len(SubSeq(aux_start, 1, left)) = IF 1 <= left THEN left - 1 + 1 ELSE 0
    BY <1>4, <2>1, SubSeqProperties
  <2>. QED  BY <2>0, <2>2, <2>3
<1>7. aux_marks' \in Seq(Mark)
  <2>. HIDE DEF left
  <2>0. aux_marks' = [k \in 1..Len(aux_marks) |->
                         [aux_marks[k] EXCEPT !.intact = @ /\ aux_marks[k].upto <= left]]
    BY <1>2, <1>3 DEF left
  <2>1. \A k \in 1..Len(aux_marks) : aux_marks[k] \in Mark
    BY <1>3, ElementOfSeq
  <2>2. \A k \in 1..Len(aux_marks) :
           [aux_marks[k] EXCEPT !.intact = @ /\ aux_marks[k].upto <= left] \in Mark
    BY <2>1, <1>4 DEF Mark
  <2>. QED  BY <1>3, <2>0, <2>2
<1>8. files' = files /\ op' = op /\ draft' = draft /\ op.stage # "saving"
  BY DEF TypeInv, DraftNamesNewestFile, UndoTurn
<1>. QED  BY <1>5, <1>6, <1>7, <1>8 DEF TypeInv, TypeOK, DraftNamesNewestFile

\* What a compaction that evicts the first n records writes: the summary, the
\* checkpoint, and the state it saves next.
SummaryOf(n) ==
    saved.summary \cup {SubSeq(saved.history, 1, n)[i].tick :
                            i \in DOMAIN SubSeq(saved.history, 1, n)}

CheckpointOf(n, plugin) ==
    [parent |-> ParentId(saved.stack), max_turn |-> Newest(saved.history).turn,
     evicted |-> SubSeq(saved.history, 1, n),
     summary_before |-> saved.summary, summary_after |-> SummaryOf(n),
     history_after |-> SubSeq(saved.history, n + 1, Len(saved.history)),
     plugin_before |-> saved.plugin, plugin_after |-> plugin]

DraftOf(n, plugin, id) ==
    [revision |-> saved.revision + 1,
     history |-> SubSeq(saved.history, n + 1, Len(saved.history)),
     summary |-> SummaryOf(n),
     stack |-> Append(saved.stack, [id |-> id, parent |-> ParentId(saved.stack)]),
     tick |-> saved.tick, scene |-> saved.scene, plugin |-> plugin]

\* The cutoff is a turn of the history, so a compaction keeps at least one record.
LEMMA CheckpointWritten ==
    ASSUME TypeInv, NEW keep, NEW cutoff \in TurnNumbers(saved.history),
           NEW plugin \in PluginStates, WriteCheckpoint(keep, cutoff, plugin)
    PROVE  \E n \in 0..Len(saved.history)-1 :
              /\ Splits(saved.history, n, cutoff)
              /\ files' = WithFile(Len(files) + 1, CheckpointOf(n, plugin))
              /\ draft' = DraftOf(n, plugin, Len(files) + 1)
<1>1. saved.history \in Seq(TurnRecord) /\ Len(saved.history) \in Nat
      /\ DOMAIN saved.history = 1..Len(saved.history) /\ files \in Seq(Checkpoint)
  BY LenProperties DEF TypeInv, TypeOK, GameState
<1>2. next_compaction_id = Len(files) + 1
  BY <1>1, NextIdIsFresh
<1>3. PICK n \in 0..Len(saved.history) :
        /\ Splits(saved.history, n, cutoff)
        /\ files' = WithFile(Len(files) + 1, CheckpointOf(n, plugin))
        /\ draft' = [saved EXCEPT !.history = SubSeq(saved.history, n + 1, Len(saved.history)),
                                  !.summary = SummaryOf(n),
                                  !.plugin = plugin,
                                  !.stack = Append(@, [id |-> Len(files) + 1,
                                                       parent |-> ParentId(saved.stack)]),
                                  !.revision = @ + 1]
  BY <1>2, Zenon DEF WriteCheckpoint, CheckpointOf, SummaryOf
<1>4. n # Len(saved.history)
  <2>1. PICK i \in 1..Len(saved.history) : saved.history[i].turn = cutoff
    BY <1>1 DEF TurnNumbers
  <2>2. saved.history[i] \in TurnRecord
    BY <1>1, <2>1, ElementOfSeq
  <2>3. saved.history[i].turn \in Nat
    BY <2>2 DEF TurnRecord
  <2>. QED  BY <1>1, <1>3, <2>1, <2>3 DEF Splits
<1>5. draft' = DraftOf(n, plugin, Len(files) + 1)
  <2>. DEFINE kept == SubSeq(saved.history, n + 1, Len(saved.history))
              stack == Append(saved.stack, [id |-> Len(files) + 1, parent |-> ParentId(saved.stack)])
  <2>1. draft' = [saved EXCEPT !.history = kept, !.summary = SummaryOf(n), !.plugin = plugin,
                               !.stack = stack, !.revision = saved.revision + 1]
    BY <1>3, Zenon
  <2>2. saved \in GameState
    BY DEF TypeInv, TypeOK
  <2>. HIDE DEF kept, stack
  <2>3. draft' = [revision |-> saved.revision + 1, history |-> kept, summary |-> SummaryOf(n),
                  stack |-> stack, tick |-> saved.tick, scene |-> saved.scene, plugin |-> plugin]
    BY <2>1, <2>2 DEF GameState
  <2>. QED  BY <2>3 DEF DraftOf, kept, stack
<1>. QED  BY <1>1, <1>3, <1>4, <1>5

\* What _compact_loaded_game writes to backups/ is a checkpoint.
LEMMA NewCheckpointType ==
    ASSUME TypeInv, NEW n \in 0..Len(saved.history)-1, NEW plugin \in PluginStates
    PROVE  /\ CheckpointOf(n, plugin) \in Checkpoint
           /\ DraftOf(n, plugin, Len(files) + 1) \in GameState
           /\ DraftOf(n, plugin, Len(files) + 1).stack
                 = Append(saved.stack, [id |-> Len(files) + 1, parent |-> ParentId(saved.stack)])
<1>1. saved \in GameState /\ saved.history \in Seq(TurnRecord) /\ Len(saved.history) \in Nat
      /\ Len(files) \in Nat
  BY LenProperties DEF TypeInv, TypeOK, GameState
<1>2. /\ saved.summary \in SUBSET Nat /\ saved.stack \in Seq(StackEntry)
      /\ saved.tick \in Nat /\ saved.scene \in Scenes /\ saved.plugin \in PluginStates
      /\ saved.revision + 1 \in Nat
  BY <1>1, GameStateParts
<1>3. ParentId(saved.stack) \in Nat
  BY <1>2, ParentType
<1>4. \A i \in 1..Len(saved.history) : saved.history[i] \in TurnRecord
  BY <1>1, ElementOfSeq
<1>5. SubSeq(saved.history, 1, n) \in Seq(TurnRecord)
  BY <1>1, <1>4, SubSeqProperties
<1>6. SubSeq(saved.history, n + 1, Len(saved.history)) \in Seq(TurnRecord)
  BY <1>1, <1>4, SubSeqProperties
<1>7. SummaryOf(n) \in SUBSET Nat
  <2>. DEFINE e == SubSeq(saved.history, 1, n)
  <2>1. \A i \in DOMAIN e : e[i] \in TurnRecord
    <3>. HIDE DEF e
    <3>1. e \in Seq(TurnRecord)
      BY <1>5 DEF e
    <3>. QED  BY <3>1, LenProperties, ElementOfSeq
  <2>2. \A i \in DOMAIN e : e[i].tick \in Nat
    BY <2>1 DEF TurnRecord
  <2>. HIDE DEF e
  <2>3. SummaryOf(n) = saved.summary \cup {e[i].tick : i \in DOMAIN e}
    BY DEF SummaryOf, e
  <2>. QED  BY <1>2, <2>2, <2>3
<1>8. Newest(saved.history).turn \in Nat
  <2>1. Len(saved.history) \in 1..Len(saved.history)
    BY <1>1
  <2>2. Newest(saved.history) \in TurnRecord
    BY <1>4, <2>1 DEF Newest
  <2>. QED  BY <2>2 DEF TurnRecord
<1>9. CheckpointOf(n, plugin) \in Checkpoint
  BY <1>2, <1>3, <1>5, <1>6, <1>7, <1>8 DEF CheckpointOf, Checkpoint
<1>10. [id |-> Len(files) + 1, parent |-> ParentId(saved.stack)] \in StackEntry
  BY <1>1, <1>3 DEF StackEntry
<1>11. Append(saved.stack, [id |-> Len(files) + 1, parent |-> ParentId(saved.stack)])
          \in Seq(StackEntry)
  BY <1>2, <1>10
<1>. DEFINE kept == SubSeq(saved.history, n + 1, Len(saved.history))
            stack == Append(saved.stack, [id |-> Len(files) + 1, parent |-> ParentId(saved.stack)])
<1>12. DraftOf(n, plugin, Len(files) + 1)
         = [revision |-> saved.revision + 1, history |-> kept, summary |-> SummaryOf(n),
            stack |-> stack, tick |-> saved.tick, scene |-> saved.scene, plugin |-> plugin]
  BY DEF DraftOf
<1>13. kept \in Seq(TurnRecord) /\ stack \in Seq(StackEntry)
  BY <1>6, <1>11
<1>14. DraftOf(n, plugin, Len(files) + 1).stack = stack
  BY <1>12
<1>15. DraftOf(n, plugin, Len(files) + 1) \in GameState
  <2>. HIDE DEF kept, stack
  <2>. QED  BY <1>2, <1>7, <1>12, <1>13 DEF GameState
<1>. QED  BY <1>9, <1>14, <1>15

\* Both kinds of compaction write the next checkpoint and hold the draft.
LEMMA CheckpointType ==
    ASSUME TypeInv, NEW keep, NEW cutoff \in TurnNumbers(saved.history),
           NEW plugin \in PluginStates, WriteCheckpoint(keep, cutoff, plugin),
           op' \in Operation, op'.kind # "idle"
    PROVE  TypeInv'
<1>1. PICK n \in 0..Len(saved.history)-1 :
        /\ files' = WithFile(Len(files) + 1, CheckpointOf(n, plugin))
        /\ draft' = DraftOf(n, plugin, Len(files) + 1)
  BY CheckpointWritten
<1>2. /\ CheckpointOf(n, plugin) \in Checkpoint
      /\ DraftOf(n, plugin, Len(files) + 1) \in GameState
      /\ DraftOf(n, plugin, Len(files) + 1).stack
            = Append(saved.stack, [id |-> Len(files) + 1, parent |-> ParentId(saved.stack)])
  BY NewCheckpointType
<1>3. files \in Seq(Checkpoint) /\ Len(files) \in Nat
  BY LenProperties DEF TypeInv, TypeOK
<1>4. files' \in Seq(Checkpoint) /\ Len(files') = Len(files) + 1
  BY <1>1, <1>2, <1>3, WithFileAppends
<1>5. UNCHANGED <<saved, aux_log, aux_start, aux_marks>>
  BY DEF WriteCheckpoint, aux
<1>6. draft' \in GameState
      /\ draft'.stack = Append(saved'.stack, [id |-> Len(files'), parent |-> ParentId(saved'.stack)])
  BY <1>1, <1>2, <1>4, <1>5
<1>. QED  BY <1>3, <1>4, <1>5, <1>6 DEF TypeInv, TypeOK, DraftNamesNewestFile

\* Whoever held the lock during a compaction, what follows is an operation.
LEMMA AfterCompactionType ==
    ASSUME TypeInv
    PROVE  AfterCompaction \in Operation /\ AfterCompaction.stage # "saving"
<1>1. op \in Operation
  BY DEF TypeInv, TypeOK
<1>2. CASE op.kind = "turn"
  <2>1. AfterCompaction = [kind |-> op.kind, stage |-> "beats", beats |-> op.beats]
    BY <1>1, <1>2 DEF AfterCompaction, Operation
  <2>. QED  BY <1>1, <2>1 DEF Operation
<1>3. CASE op.kind # "turn"
  BY <1>3 DEF AfterCompaction, Operation, Idle
<1>. QED  BY <1>2, <1>3

\* Saving a compaction keeps the state well typed: the draft was.
LEMMA SaveType ==
    ASSUME TypeInv, SaveCompaction
    PROVE  TypeInv'
<1>1. saved' \in GameState
  BY DEF TypeInv, TypeOK, SaveCompaction
<1>2. op' \in Operation /\ op'.stage # "saving"
  BY AfterCompactionType DEF SaveCompaction
<1>3. aux_marks' \in Seq(Mark)
  <2>1. Len(aux_log) \in Nat /\ Len(saved.history) \in Nat
    BY LenProperties DEF TypeInv, TypeOK, GameState
  <2>2. [from |-> Len(aux_log) - Len(saved.history), upto |-> Len(aux_log), intact |-> TRUE] \in Mark
    BY <2>1 DEF Mark
  <2>. QED  BY <2>2 DEF SaveCompaction, TypeInv, TypeOK
<1>. QED  BY <1>1, <1>2, <1>3 DEF SaveCompaction, TypeInv, TypeOK, DraftNamesNewestFile

\* The file removed by a failed save is the newest one.
LEMMA FailedSaveRemovesNewest ==
    ASSUME TypeInv, SaveCompactionFails
    PROVE  /\ Newest(draft.stack).id = Len(files)
           /\ files' = WithoutFile(Len(files))
           /\ Len(files) > 0
<1>1. /\ Len(files) > 0
      /\ draft.stack = Append(saved.stack, [id |-> Len(files), parent |-> ParentId(saved.stack)])
  BY DEF TypeInv, DraftNamesNewestFile, SaveCompactionFails
<1>2. saved.stack \in Seq(StackEntry)
  BY DEF TypeInv, TypeOK, GameState
<1>3. Newest(draft.stack) = [id |-> Len(files), parent |-> ParentId(saved.stack)]
  BY <1>1, <1>2, AppendProperties DEF Newest
<1>. QED  BY <1>1, <1>3 DEF SaveCompactionFails

\* A failed save of a compaction, with its unlink, keeps the state well typed.
LEMMA SaveFailsType ==
    ASSUME TypeInv, SaveCompactionFails
    PROVE  TypeInv'
<1>1. op' \in Operation /\ op'.stage # "saving"
  BY AfterCompactionType DEF SaveCompactionFails
<1>2. files' \in Seq(Checkpoint)
  BY FailedSaveRemovesNewest, WithoutFileShortens DEF TypeInv, TypeOK
<1>. QED  BY <1>1, <1>2 DEF SaveCompactionFails, TypeInv, TypeOK, DraftNamesNewestFile, aux

\* A restored state: the evicted records, then the whole live history.
LEMMA RestoredHistory ==
    ASSUME TypeInv, RestoreLastCompaction
    PROVE  LET checkpoint == files[Newest(saved.stack).id]
           IN  /\ saved.stack # <<>>
               /\ Newest(saved.stack).id \in DOMAIN files
               /\ checkpoint \in Checkpoint
               /\ \E n \in 0..Len(saved.history), plugin \in PluginStates :
                    /\ RestoreAccepts(saved, n)
                    /\ saved' = [saved EXCEPT !.history = checkpoint.evicted \o saved.history,
                                              !.summary = checkpoint.summary_before,
                                              !.plugin = plugin,
                                              !.stack = SubSeq(saved.stack, 1, Len(saved.stack) - 1),
                                              !.revision = saved.revision + 1]
<1>. DEFINE checkpoint == files[Newest(saved.stack).id]
<1>1. PICK n \in 0..Len(saved.history) :
        /\ RestoreAccepts(saved, n)
        /\ \E plugin \in PluginAfterRestore(saved, checkpoint) :
              saved' = Restored(saved, n, checkpoint, plugin)
  BY Zenon DEF RestoreLastCompaction
<1>2. PICK plugin \in PluginAfterRestore(saved, checkpoint) :
        saved' = Restored(saved, n, checkpoint, plugin)
  BY <1>1
<1>3. saved.stack # <<>> /\ Newest(saved.stack).id \in DOMAIN files
  BY <1>1 DEF RestoreAccepts
<1>4. files \in Seq(Checkpoint) /\ saved.history \in Seq(TurnRecord)
      /\ Len(saved.history) \in Nat
  BY LenProperties DEF TypeInv, TypeOK, GameState
<1>5. checkpoint \in Checkpoint
  BY <1>3, <1>4, LenProperties, ElementOfSeq
<1>. HIDE DEF checkpoint
<1>6. plugin \in PluginStates
  BY <1>2, <1>5 DEF PluginAfterRestore, Checkpoint, TypeInv, TypeOK, GameState
<1>7. checkpoint.evicted \o SubSeq(saved.history, 1, n)
                         \o SubSeq(saved.history, n + 1, Len(saved.history))
        = checkpoint.evicted \o saved.history
  <2>1. SubSeq(saved.history, 1, n) \o SubSeq(saved.history, n + 1, Len(saved.history))
          = saved.history
    <3>1. SubSeq(saved.history, 1, n) \o SubSeq(saved.history, n + 1, Len(saved.history))
            = SubSeq(saved.history, 1, Len(saved.history))
      <4>1. 1 \in 1..Len(saved.history) + 1 /\ n \in 1-1..Len(saved.history)
            /\ Len(saved.history) \in n..Len(saved.history)
        BY <1>1, <1>4
      <4>. QED  BY <1>4, <4>1, ConcatAdjacentSubSeq
    <3>. QED  BY <1>4, <3>1, SubSeqFull
  <2>2. \A i \in 1..Len(saved.history) : saved.history[i] \in TurnRecord
    BY <1>4, ElementOfSeq
  <2>3. SubSeq(saved.history, 1, n) \in Seq(TurnRecord)
    BY <1>4, <2>2, SubSeqProperties
  <2>4. SubSeq(saved.history, n + 1, Len(saved.history)) \in Seq(TurnRecord)
    BY <1>4, <2>2, SubSeqProperties
  <2>5. checkpoint.evicted \in Seq(TurnRecord)
    BY <1>5 DEF Checkpoint
  <2>. DEFINE a == checkpoint.evicted
              b == SubSeq(saved.history, 1, n)
              c == SubSeq(saved.history, n + 1, Len(saved.history))
  <2>6. a \in Seq(TurnRecord) /\ b \in Seq(TurnRecord) /\ c \in Seq(TurnRecord)
    BY <2>3, <2>4, <2>5
  <2>. HIDE DEF a, b, c
  <2>7. (a \o b) \o c = a \o (b \o c)
    BY <2>6, ConcatAssociative
  <2>. QED  BY <2>1, <2>7 DEF a, b, c
<1>8. saved' = [saved EXCEPT !.history = checkpoint.evicted \o saved.history,
                             !.summary = checkpoint.summary_before,
                             !.plugin = plugin,
                             !.stack = SubSeq(saved.stack, 1, Len(saved.stack) - 1),
                             !.revision = saved.revision + 1]
  BY <1>2, <1>7 DEF Restored
<1>. QED  BY <1>1, <1>3, <1>5, <1>6, <1>8 DEF checkpoint

\* restore_last_compaction keeps the state well typed.
LEMMA RestoreType ==
    ASSUME TypeInv, RestoreLastCompaction
    PROVE  TypeInv'
<1>. DEFINE checkpoint == files[Newest(saved.stack).id]
<1>1. checkpoint \in Checkpoint /\ saved.stack # <<>>
  BY RestoredHistory
<1>2. PICK plugin \in PluginStates :
        saved' = [saved EXCEPT !.history = checkpoint.evicted \o saved.history,
                               !.summary = checkpoint.summary_before,
                               !.plugin = plugin,
                               !.stack = SubSeq(saved.stack, 1, Len(saved.stack) - 1),
                               !.revision = saved.revision + 1]
  BY RestoredHistory
<1>. HIDE DEF checkpoint
<1>3. saved \in GameState
  BY DEF TypeInv, TypeOK
<1>4. /\ saved.history \in Seq(TurnRecord) /\ saved.stack \in Seq(StackEntry)
      /\ saved.tick \in Nat /\ saved.scene \in Scenes /\ saved.revision + 1 \in Nat
      /\ Len(saved.stack) \in Nat
  BY <1>3, GameStateParts, LenProperties
<1>5. checkpoint.evicted \o saved.history \in Seq(TurnRecord) /\ checkpoint.summary_before \in SUBSET Nat
  BY <1>1, <1>4, ConcatProperties DEF Checkpoint
<1>6. SubSeq(saved.stack, 1, Len(saved.stack) - 1) \in Seq(StackEntry)
  BY <1>4, ElementOfSeq, SubSeqProperties
<1>7. saved' = [revision |-> saved.revision + 1, history |-> checkpoint.evicted \o saved.history,
                summary |-> checkpoint.summary_before,
                stack |-> SubSeq(saved.stack, 1, Len(saved.stack) - 1),
                tick |-> saved.tick, scene |-> saved.scene, plugin |-> plugin]
  BY <1>2, <1>3 DEF GameState
<1>8. saved' \in GameState
  BY <1>4, <1>5, <1>6, <1>7 DEF GameState
<1>9. aux_marks' \in Seq(Mark)
  <2>1. aux_marks \in Seq(Mark) /\ Len(aux_marks) \in Nat
    BY LenProperties DEF TypeInv, TypeOK
  <2>2. SubSeq(aux_marks, 1, Len(aux_marks) - 1) \in Seq(Mark)
    BY <2>1, ElementOfSeq, SubSeqProperties
  <2>. QED  BY <2>2 DEF RestoreLastCompaction
<1>10. /\ UNCHANGED <<files, op, draft, aux_log, aux_start>>
       /\ op.kind = "idle"
  BY DEF RestoreLastCompaction
<1>. QED  BY <1>8, <1>9, <1>10 DEF TypeInv, TypeOK, DraftNamesNewestFile

\* One step keeps the types.
LEMMA TypeStep ==
    ASSUME TypeInv, [Next]_vars
    PROVE  TypeInv'
<1>1. CASE BeginTurn
  BY <1>1 DEF BeginTurn, TypeInv, TypeOK, DraftNamesNewestFile, Operation, aux
<1>2. ASSUME NEW beat \in Beats, NEW again \in BOOLEAN, CommitBeat(beat, again)
      PROVE  TypeInv'
  BY <1>2, CommitType
<1>3. CASE AbandonTurn
  BY <1>3 DEF AbandonTurn, TypeInv, TypeOK, DraftNamesNewestFile, Operation, Idle, aux
<1>4. CASE UndoTurn
  BY <1>4, UndoType
<1>5. ASSUME NEW cutoff \in TurnNumbers(saved.history), NEW plugin \in PluginStates,
             CheckpointManual(cutoff, plugin)
      PROVE  TypeInv'
  <2>1. op' = [Idle EXCEPT !.kind = "compaction", !.stage = "saving"]
        /\ WriteCheckpoint(KeepRecent, cutoff, plugin)
    BY <1>5 DEF CheckpointManual
  <2>2. op' \in Operation /\ op'.kind # "idle"
    BY <2>1 DEF Idle, Operation
  <2>. QED  BY <2>1, <2>2, CheckpointType
<1>6. ASSUME NEW pressed \in BOOLEAN, NEW cutoff \in TurnNumbers(saved.history),
             NEW plugin \in PluginStates, CheckpointAutomatic(pressed, cutoff, plugin)
      PROVE  TypeInv'
  <2>1. PICK keep : WriteCheckpoint(keep, cutoff, plugin)
    BY <1>6 DEF CheckpointAutomatic
  <2>2. op' \in Operation /\ op'.kind # "idle"
    BY <1>6 DEF CheckpointAutomatic, Operation, TypeInv, TypeOK
  <2>. QED  BY <2>1, <2>2, CheckpointType
<1>7. CASE SaveCompaction
  BY <1>7, SaveType
<1>8. CASE SaveCompactionFails
  BY <1>8, SaveFailsType
<1>9. CASE RestoreLastCompaction
  BY <1>9, RestoreType
<1>10. CASE Crash
  BY <1>10 DEF Crash, TypeInv, TypeOK, DraftNamesNewestFile, Operation, Idle, aux
<1>11. CASE UNCHANGED vars
  BY <1>11 DEF vars, TypeInv, TypeOK, DraftNamesNewestFile
<1>. QED  BY <1>1, <1>2, <1>3, <1>4, <1>5, <1>6, <1>7, <1>8, <1>9, <1>10, <1>11 DEF Next

\* Every state of a session is well formed, and while a compaction saves, the
\* checkpoint it has just written is the newest file.
THEOREM TypeInvariant == Spec => []TypeInv
<1>. QED  BY TypeInit, TypeStep, PTL DEF Spec

\* state.json, the checkpoints and the operation in progress have their types.
THEOREM TypeCorrect == Spec => []TypeOK
<1>1. TypeInv => TypeOK
  BY DEF TypeInv
<1>. QED  BY <1>1, TypeInvariant, PTL

-----------------------------------------------------------------------------
(* Checkpoint files are immutable *)

\* No step rewrites or removes a checkpoint but the one whose save failed.
LEMMA ImmutableStep ==
    ASSUME TypeInv, [Next]_vars, NEW id \in DOMAIN files, ~InFlight(id)
    PROVE  id \in DOMAIN files' /\ files'[id] = files[id]
<1>0. files \in Seq(Checkpoint) /\ DOMAIN files = 1..Len(files) /\ Len(files) \in Nat
  BY LenProperties DEF TypeInv, TypeOK
<1>1. ASSUME NEW keep, NEW cutoff \in TurnNumbers(saved.history), NEW plugin \in PluginStates,
             WriteCheckpoint(keep, cutoff, plugin)
      PROVE  id \in DOMAIN files' /\ files'[id] = files[id]
  <2>1. PICK n \in 0..Len(saved.history)-1 :
          files' = WithFile(Len(files) + 1, CheckpointOf(n, plugin))
    BY <1>1, CheckpointWritten
  <2>2. CheckpointOf(n, plugin) \in Checkpoint
    BY NewCheckpointType
  <2>3. /\ files' \in Seq(Checkpoint) /\ Len(files') = Len(files) + 1
        /\ \A m \in 1..Len(files) : files'[m] = files[m]
    BY <1>0, <2>1, <2>2, WithFileAppends
  <2>. QED  BY <1>0, <2>3, LenProperties
<1>2. CASE SaveCompactionFails
  <2>1. id # Len(files)
    BY <1>2, FailedSaveRemovesNewest DEF InFlight, SaveCompactionFails
  <2>2. /\ files' \in Seq(Checkpoint) /\ Len(files') = Len(files) - 1
        /\ \A m \in 1..Len(files) - 1 : files'[m] = files[m]
    BY <1>0, <1>2, FailedSaveRemovesNewest, WithoutFileShortens
  <2>. QED  BY <1>0, <2>1, <2>2, LenProperties
<1>3. CASE files' = files
  BY <1>3
<1>. QED
  BY <1>1, <1>2, <1>3 DEF Next, vars, BeginTurn, CommitBeat, AbandonTurn, UndoTurn,
     CheckpointManual, CheckpointAutomatic, SaveCompaction, RestoreLastCompaction, Crash

\* No step rewrites or removes a checkpoint file, but a failed save its own.
THEOREM CheckpointsImmutable == Spec => CheckpointsAreImmutable
<1>1. TypeInv /\ [Next]_vars =>
        [\A id \in DOMAIN files : ~InFlight(id) =>
            id \in DOMAIN files' /\ files'[id] = files[id]]_vars
  BY ImmutableStep
<1>. QED  BY <1>1, TypeInvariant, PTL DEF Spec, CheckpointsAreImmutable

-----------------------------------------------------------------------------
(* The stack and the files *)

\* What a compaction between its two writes is about to save.
DraftIsCompaction ==
    op.stage = "saving" =>
        \E n \in 0..Len(saved.history)-1, plugin \in PluginStates :
            /\ \E cutoff \in TurnNumbers(saved.history) : Splits(saved.history, n, cutoff)
            /\ files[Len(files)] = CheckpointOf(n, plugin)
            /\ draft = DraftOf(n, plugin, Len(files))

\* The stack names files older than the one a compaction is saving.
StackIsOlder ==
    \A k \in 1..Len(saved.stack) :
        saved.stack[k].id < (IF op.stage = "saving" THEN Len(files) ELSE Len(files) + 1)

ChainInv == TypeInv /\ DraftIsCompaction /\ StackIsOlder /\ CheckpointChain

\* A new session has no checkpoint and nothing to chain.
LEMMA ChainInit == Init => ChainInv
<1>. SUFFICES ASSUME Init PROVE ChainInv
  OBVIOUS
<1>1. TypeInv
  BY TypeInit
<1>2. saved.stack = <<>> /\ Len(saved.stack) = 0 /\ op.stage # "saving"
  BY DEF Init, Idle
<1>. QED  BY <1>1, <1>2 DEF ChainInv, DraftIsCompaction, StackIsOlder, CheckpointChain

\* A step that leaves the stack alone and keeps its files keeps the chain.
LEMMA ChainKept ==
    ASSUME ChainInv, saved'.stack = saved.stack,
           \A k \in 1..Len(saved.stack) :
              /\ saved.stack[k].id \in DOMAIN files'
              /\ files'[saved.stack[k].id] = files[saved.stack[k].id]
    PROVE  CheckpointChain'
<1>. USE DEF ChainInv
<1>1. CheckpointChain
  OBVIOUS
<1>. QED  BY <1>1 DEF CheckpointChain

\* Writing the next checkpoint.
LEMMA ChainWrite ==
    ASSUME ChainInv, TypeInv', NEW keep, NEW cutoff \in TurnNumbers(saved.history),
           NEW plugin \in PluginStates, WriteCheckpoint(keep, cutoff, plugin),
           op.stage # "saving", op'.stage = "saving"
    PROVE  ChainInv'
<1>0. files \in Seq(Checkpoint) /\ DOMAIN files = 1..Len(files) /\ Len(files) \in Nat
  BY LenProperties DEF ChainInv, TypeInv, TypeOK
<1>1. PICK n \in 0..Len(saved.history)-1 :
        /\ Splits(saved.history, n, cutoff)
        /\ files' = WithFile(Len(files) + 1, CheckpointOf(n, plugin))
        /\ draft' = DraftOf(n, plugin, Len(files) + 1)
  BY CheckpointWritten DEF ChainInv
<1>2. CheckpointOf(n, plugin) \in Checkpoint
  BY NewCheckpointType DEF ChainInv
<1>3. /\ files' \in Seq(Checkpoint) /\ Len(files') = Len(files) + 1
      /\ files'[Len(files) + 1] = CheckpointOf(n, plugin)
      /\ \A m \in 1..Len(files) : files'[m] = files[m]
  BY <1>0, <1>1, <1>2, WithFileAppends
<1>4. saved' = saved
  BY DEF WriteCheckpoint
<1>5. DraftIsCompaction'
  <2>1. CheckpointOf(n, plugin)' = CheckpointOf(n, plugin)
    BY <1>4 DEF CheckpointOf, SummaryOf
  <2>2. files'[Len(files')] = CheckpointOf(n, plugin)'
    BY <1>3, <2>1
  <2>3. draft' = DraftOf(n, plugin, Len(files))'
    <3>1. DraftOf(n, plugin, Len(files) + 1) = DraftOf(n, plugin, Len(files))'
      BY <1>3, <1>4 DEF DraftOf, SummaryOf
    <3>. QED  BY <1>1, <3>1
  <2>4. \E c \in TurnNumbers(saved'.history) : Splits(saved'.history, n, c)
    BY <1>1, <1>4
  <2>. QED  BY <1>4, <2>2, <2>3, <2>4 DEF DraftIsCompaction
<1>6. StackIsOlder'
  <2>1. saved.stack \in Seq(StackEntry)
    BY DEF ChainInv, TypeInv, TypeOK, GameState
  <2>. QED  BY <1>3, <1>4 DEF ChainInv, StackIsOlder
<1>7. CheckpointChain'
  <2>1. \A k \in 1..Len(saved.stack) : saved.stack[k].id \in DOMAIN files
    BY DEF ChainInv, CheckpointChain
  <2>2. DOMAIN files' = 1..Len(files) + 1
    BY <1>3, LenProperties
  <2>3. \A k \in 1..Len(saved.stack) :
           /\ saved.stack[k].id \in DOMAIN files'
           /\ files'[saved.stack[k].id] = files[saved.stack[k].id]
    BY <1>0, <1>3, <2>1, <2>2
  <2>. QED  BY <1>4, <2>3, ChainKept
<1>. QED  BY <1>5, <1>6, <1>7 DEF ChainInv

\* The new entry is linked to the one below it.
LEMMA ChainSave ==
    ASSUME ChainInv, TypeInv', SaveCompaction
    PROVE  ChainInv'
<1>0. /\ files \in Seq(Checkpoint) /\ DOMAIN files = 1..Len(files) /\ Len(files) \in Nat
      /\ saved.stack \in Seq(StackEntry) /\ Len(saved.stack) \in Nat
      /\ op.stage = "saving" /\ files' = files /\ saved' = draft
  BY LenProperties DEF ChainInv, TypeInv, TypeOK, GameState, SaveCompaction
<1>1. op'.stage # "saving"
  BY AfterCompactionType DEF ChainInv, SaveCompaction
<1>. DEFINE entry == [id |-> Len(files), parent |-> ParentId(saved.stack)]
<1>2. saved'.stack = Append(saved.stack, entry) /\ Len(files) > 0
  BY <1>0 DEF ChainInv, TypeInv, DraftNamesNewestFile
<1>3. files[Len(files)].parent = ParentId(saved.stack)
  <2>1. PICK n, plugin : files[Len(files)] = CheckpointOf(n, plugin)
    BY <1>0 DEF ChainInv, DraftIsCompaction
  <2>. QED  BY <2>1 DEF CheckpointOf
<1>4. /\ Len(saved'.stack) = Len(saved.stack) + 1
      /\ saved'.stack[Len(saved.stack) + 1] = entry
      /\ \A k \in 1..Len(saved.stack) : saved'.stack[k] = saved.stack[k]
  BY <1>0, <1>2, AppendProperties
<1>5. \A k \in 1..Len(saved.stack) : saved.stack[k].id < Len(files)
  BY <1>0 DEF ChainInv, StackIsOlder
<1>6. StackIsOlder'
  <2>. SUFFICES ASSUME NEW k \in 1..Len(saved.stack) + 1
                PROVE  saved'.stack[k].id < Len(files) + 1
    BY <1>0, <1>1, <1>4 DEF StackIsOlder
  <2>1. CASE k \in 1..Len(saved.stack)
    <3>0. saved.stack[k] \in StackEntry
      BY <1>0, <2>1, ElementOfSeq
    <3>1. saved.stack[k].id \in Nat
      BY <3>0 DEF StackEntry
    <3>. QED  BY <1>0, <1>4, <1>5, <2>1, <3>1
  <2>2. CASE k = Len(saved.stack) + 1
    BY <1>0, <1>4, <2>2
  <2>. QED  BY <1>0, <2>1, <2>2
<1>7. CheckpointChain'
  <2>. SUFFICES ASSUME NEW k \in 1..Len(saved.stack) + 1
                PROVE  LET below == IF k = 1 THEN NoParent ELSE saved'.stack[k - 1].id
                       IN  /\ saved'.stack[k].id \in DOMAIN files
                           /\ saved'.stack[k].parent = below
                           /\ files[saved'.stack[k].id].parent = below
                           /\ below < saved'.stack[k].id
    BY <1>0, <1>4 DEF CheckpointChain
  <2>1. CASE k \in 1..Len(saved.stack)
    <3>1. saved'.stack[k] = saved.stack[k]
      BY <1>4, <2>1
    <3>2. k # 1 => saved'.stack[k - 1] = saved.stack[k - 1]
      BY <1>0, <1>4, <2>1
    <3>. QED  BY <2>1, <3>1, <3>2 DEF ChainInv, CheckpointChain
  <2>2. CASE k = Len(saved.stack) + 1
    <3>1. CASE k = 1
      <4>1. saved.stack = <<>>
        BY <1>0, <2>2, <3>1, EmptySeq
      <4>. QED  BY <1>0, <1>2, <1>3, <1>4, <2>2, <3>1, <4>1 DEF ParentId, NoParent
    <3>2. CASE k # 1
      <4>1. saved.stack # <<>> /\ k - 1 = Len(saved.stack) /\ k - 1 \in 1..Len(saved.stack)
        BY <1>0, <2>2, <3>2, EmptySeq
      <4>2. ParentId(saved.stack) = saved.stack[k - 1].id /\ saved'.stack[k - 1] = saved.stack[k - 1]
        BY <1>4, <4>1 DEF ParentId, Newest
      <4>3. saved.stack[k - 1].id < Len(files)
        BY <1>5, <4>1
      <4>. QED  BY <1>0, <1>2, <1>3, <1>4, <2>2, <3>2, <4>2, <4>3
    <3>. QED  BY <3>1, <3>2
  <2>. QED  BY <1>0, <2>1, <2>2
<1>. QED  BY <1>1, <1>6, <1>7 DEF ChainInv, DraftIsCompaction

\* Only the file of the failed compaction goes, and no entry names it.
LEMMA ChainSaveFails ==
    ASSUME ChainInv, TypeInv', SaveCompactionFails
    PROVE  ChainInv'
<1>0. /\ files \in Seq(Checkpoint) /\ DOMAIN files = 1..Len(files) /\ Len(files) \in Nat
      /\ saved.stack \in Seq(StackEntry) /\ op.stage = "saving" /\ saved' = saved
  BY LenProperties DEF ChainInv, TypeInv, TypeOK, GameState, SaveCompactionFails
<1>1. op'.stage # "saving"
  BY AfterCompactionType DEF ChainInv, SaveCompactionFails
<1>2. /\ files' \in Seq(Checkpoint) /\ Len(files') = Len(files) - 1
      /\ \A m \in 1..Len(files) - 1 : files'[m] = files[m]
  BY <1>0, FailedSaveRemovesNewest, WithoutFileShortens DEF ChainInv
<1>3. \A k \in 1..Len(saved.stack) :
         saved.stack[k].id < Len(files) /\ saved.stack[k].id \in DOMAIN files
  BY <1>0 DEF ChainInv, StackIsOlder, CheckpointChain
<1>4. \A k \in 1..Len(saved.stack) : saved.stack[k].id \in 1..Len(files) - 1
  BY <1>0, <1>3
<1>5. CheckpointChain'
  BY <1>0, <1>2, <1>4, ChainKept, LenProperties
<1>6. StackIsOlder'
  BY <1>0, <1>1, <1>2, <1>3 DEF StackIsOlder
<1>. QED  BY <1>1, <1>5, <1>6 DEF ChainInv, DraftIsCompaction

\* Popping the stack leaves a prefix of the chain.
LEMMA ChainRestore ==
    ASSUME ChainInv, TypeInv', RestoreLastCompaction
    PROVE  ChainInv'
<1>0. /\ files' = files /\ op' = op /\ op.kind = "idle"
      /\ saved.stack \in Seq(StackEntry) /\ Len(saved.stack) \in Nat
  BY LenProperties DEF ChainInv, TypeInv, TypeOK, GameState, RestoreLastCompaction
<1>1. op.stage # "saving"
  BY <1>0 DEF ChainInv, TypeInv, DraftNamesNewestFile
<1>2. saved.stack # <<>> /\ saved'.stack = SubSeq(saved.stack, 1, Len(saved.stack) - 1)
  <2>1. saved.stack # <<>>
    BY RestoredHistory DEF ChainInv
  <2>2. saved \in GameState
    BY DEF ChainInv, TypeInv, TypeOK
  <2>3. PICK h, m, p : saved' = [saved EXCEPT !.history = h, !.summary = m, !.plugin = p,
                                  !.stack = SubSeq(saved.stack, 1, Len(saved.stack) - 1),
                                  !.revision = saved.revision + 1]
    BY RestoredHistory DEF ChainInv
  <2>. QED  BY <2>1, <2>2, <2>3 DEF GameState
<1>3. /\ Len(saved'.stack) = Len(saved.stack) - 1
      /\ \A k \in 1..Len(saved.stack) - 1 : saved'.stack[k] = saved.stack[k]
  <2>1. Len(saved.stack) > 0
    BY <1>0, <1>2, EmptySeq
  <2>. QED  BY <1>0, <1>2, <2>1, ElementOfSeq, SubSeqProperties
<1>4. StackIsOlder'
  BY <1>0, <1>1, <1>3 DEF ChainInv, StackIsOlder
<1>5. CheckpointChain'
  <2>. SUFFICES ASSUME NEW k \in 1..Len(saved.stack) - 1
                PROVE  LET below == IF k = 1 THEN NoParent ELSE saved'.stack[k - 1].id
                       IN  /\ saved'.stack[k].id \in DOMAIN files
                           /\ saved'.stack[k].parent = below
                           /\ files[saved'.stack[k].id].parent = below
                           /\ below < saved'.stack[k].id
    BY <1>0, <1>3 DEF CheckpointChain
  <2>1. saved'.stack[k] = saved.stack[k] /\ (k # 1 => saved'.stack[k - 1] = saved.stack[k - 1])
    BY <1>0, <1>3
  <2>2. k \in 1..Len(saved.stack)
    BY <1>0
  <2>. QED  BY <2>1, <2>2 DEF ChainInv, CheckpointChain
<1>. QED  BY <1>0, <1>1, <1>4, <1>5 DEF ChainInv, DraftIsCompaction

\* A step that neither saves a compaction nor touches the files or the stack.
LEMMA ChainOther ==
    ASSUME ChainInv, TypeInv', op'.stage # "saving",
           saved'.stack = saved.stack, files' = files
    PROVE  ChainInv'
<1>0. files \in Seq(Checkpoint) /\ Len(files) \in Nat /\ saved.stack \in Seq(StackEntry)
  BY LenProperties DEF ChainInv, TypeInv, TypeOK, GameState
<1>1. CheckpointChain'
  BY ChainKept DEF ChainInv, CheckpointChain
<1>2. \A k \in 1..Len(saved.stack) : saved.stack[k].id \in Nat
  <2>1. \A k \in 1..Len(saved.stack) : saved.stack[k] \in StackEntry
    BY <1>0, ElementOfSeq
  <2>. QED  BY <2>1 DEF StackEntry
<1>3. StackIsOlder'
  BY <1>0, <1>2 DEF ChainInv, StackIsOlder
<1>. QED  BY <1>1, <1>3 DEF ChainInv, DraftIsCompaction

\* Every step keeps the stack, its files and the checkpoint in flight chained.
LEMMA ChainStep ==
    ASSUME ChainInv, [Next]_vars
    PROVE  ChainInv'
<1>0. TypeInv' /\ TypeInv
  BY TypeStep DEF ChainInv
<1>1. CASE BeginTurn
  BY <1>0, <1>1, ChainOther DEF BeginTurn
<1>2. ASSUME NEW beat \in Beats, NEW again \in BOOLEAN, CommitBeat(beat, again)
      PROVE  ChainInv'
  <2>1. files' = files /\ op'.stage # "saving"
    BY <1>2 DEF CommitBeat, Idle, ChainInv, TypeInv, TypeOK, Operation
  <2>2. saved \in GameState
    BY <1>0 DEF TypeInv, TypeOK
  <2>3. PICK added \in Seq(TurnRecord) :
          saved' = [saved EXCEPT !.history = saved.history \o added,
                                 !.tick = ClockAfter(saved.tick, beat),
                                 !.scene = beat.scene, !.plugin = beat.plugin,
                                 !.revision = saved.revision + 1]
    BY <1>0, <1>2, BeatRecords
  <2>4. saved'.stack = saved.stack
    BY <2>2, <2>3 DEF GameState
  <2>. QED  BY <1>0, <2>1, <2>4, ChainOther
<1>3. CASE AbandonTurn
  BY <1>0, <1>3, ChainOther DEF AbandonTurn, Idle
<1>4. CASE UndoTurn
  <2>1. files' = files /\ op' = op /\ op.stage # "saving"
    BY <1>0, <1>4 DEF UndoTurn, TypeInv, DraftNamesNewestFile
  <2>2. saved \in GameState
    BY <1>0 DEF TypeInv, TypeOK
  <2>3. PICK n \in 0..Len(saved.history)-1 :
          saved' = [saved EXCEPT !.history = SubSeq(@, 1, n),
                                 !.scene = RestorePoint(saved.history, n).scene,
                                 !.plugin = RestorePoint(saved.history, n).plugin,
                                 !.tick = RestorePoint(saved.history, n).tick,
                                 !.revision = @ + 1]
    BY <1>4, Zenon DEF UndoTurn
  <2>4. saved'.stack = saved.stack
    BY <2>2, <2>3 DEF GameState
  <2>. QED  BY <1>0, <2>1, <2>4, ChainOther
<1>5. ASSUME NEW cutoff \in TurnNumbers(saved.history), NEW plugin \in PluginStates,
             CheckpointManual(cutoff, plugin)
      PROVE  ChainInv'
  <2>1. op.stage # "saving"
    BY <1>0, <1>5 DEF CheckpointManual, TypeInv, DraftNamesNewestFile
  <2>2. op'.stage = "saving" /\ WriteCheckpoint(KeepRecent, cutoff, plugin)
    BY <1>5 DEF CheckpointManual, Idle
  <2>. QED  BY <1>0, <2>1, <2>2, ChainWrite
<1>6. ASSUME NEW pressed \in BOOLEAN, NEW cutoff \in TurnNumbers(saved.history),
             NEW plugin \in PluginStates, CheckpointAutomatic(pressed, cutoff, plugin)
      PROVE  ChainInv'
  <2>1. PICK keep : WriteCheckpoint(keep, cutoff, plugin)
    BY <1>6 DEF CheckpointAutomatic
  <2>2. op.stage # "saving" /\ op'.stage = "saving"
    BY <1>0, <1>6 DEF CheckpointAutomatic, TypeInv, TypeOK, Operation
  <2>. QED  BY <1>0, <2>1, <2>2, ChainWrite
<1>7. CASE SaveCompaction
  BY <1>0, <1>7, ChainSave
<1>8. CASE SaveCompactionFails
  BY <1>0, <1>8, ChainSaveFails
<1>9. CASE RestoreLastCompaction
  BY <1>0, <1>9, ChainRestore
<1>10. CASE Crash
  BY <1>0, <1>10, ChainOther DEF Crash, Idle
<1>11. CASE UNCHANGED vars
  <2>1. saved' = saved /\ files' = files /\ draft' = draft /\ op' = op
    BY <1>11 DEF vars
  <2>2. ASSUME NEW n, NEW plugin
        PROVE  /\ CheckpointOf(n, plugin)' = CheckpointOf(n, plugin)
               /\ DraftOf(n, plugin, Len(files))' = DraftOf(n, plugin, Len(files))
    BY <2>1 DEF CheckpointOf, DraftOf, SummaryOf
  <2>3. DraftIsCompaction'
    BY <2>1, <2>2 DEF ChainInv, DraftIsCompaction
  <2>4. StackIsOlder' /\ CheckpointChain'
    BY <2>1 DEF ChainInv, StackIsOlder, CheckpointChain
  <2>. QED  BY <1>0, <2>3, <2>4 DEF ChainInv
<1>. QED  BY <1>1, <1>2, <1>3, <1>4, <1>5, <1>6, <1>7, <1>8, <1>9, <1>10, <1>11 DEF Next

\* The chain holds together with what a compaction in progress is about to save.
THEOREM ChainInvariant == Spec => []ChainInv
<1>. QED  BY ChainInit, ChainStep, PTL DEF Spec

\* Every live compaction has its file, linked to the one below, for any mix of
\* saves, failed saves, crashes, undos and restores.
THEOREM CheckpointsChain == Spec => []CheckpointChain
<1>1. ChainInv => CheckpointChain
  BY DEF ChainInv
<1>. QED  BY <1>1, ChainInvariant, PTL

-----------------------------------------------------------------------------
(* Nothing is lost *)

\* For a state g, its files fs, the marks of its compactions and the log: how
\* many records of the log are no longer live, the file of the k-th compaction,
\* where what it evicted ends in the log, and the beats of the first m records.
Gone(g, log) == Len(log) - Len(g.history)
FileOf(g, fs, k) == fs[g.stack[k].id]
EndOf(g, fs, marks, k) == marks[k].from + Len(FileOf(g, fs, k).evicted)
Covered(log, m) == {log[i].tick : i \in 1..m}

\* The k-th compaction evicted a stretch of the log that begins where the one
\* below it ends, and found the summary covering everything before.
Covers(g, fs, marks, log, k) ==
    /\ marks[k].from \in Nat
    /\ marks[k].from = (IF k = 1 THEN 0 ELSE EndOf(g, fs, marks, k - 1))
    /\ \A j \in 1..k - 1 : EndOf(g, fs, marks, j) <= marks[k].from
    /\ EndOf(g, fs, marks, k) <= Gone(g, log)
    /\ \A i \in 1..Len(FileOf(g, fs, k).evicted) :
          FileOf(g, fs, k).evicted[i] = log[marks[k].from + i]
    /\ FileOf(g, fs, k).summary_before = Covered(log, marks[k].from)

\* NothingLost and SummaryCoversEvicted, record by record, with what each
\* compaction on the stack found before it.
Journal(g, fs, marks, log) ==
    /\ Gone(g, log) \in Nat
    /\ \A i \in 1..Len(g.history) : g.history[i] = log[Gone(g, log) + i]
    /\ Len(marks) = Len(g.stack)
    /\ Gone(g, log) = (IF Len(g.stack) = 0 THEN 0 ELSE EndOf(g, fs, marks, Len(g.stack)))
    /\ \A k \in 1..Len(g.stack) : Covers(g, fs, marks, log, k)
    /\ g.summary = Covered(log, Gone(g, log))

JournalInv == ChainInv /\ Journal(saved, files, aux_marks, aux_log)

\* Nothing was played in a new session, and nothing is evicted.
LEMMA JournalInit == Init => Journal(saved, files, aux_marks, aux_log)
<1>. SUFFICES ASSUME Init PROVE Journal(saved, files, aux_marks, aux_log)
  OBVIOUS
<1>1. /\ Len(saved.history) = 0 /\ Len(saved.stack) = 0 /\ Len(aux_log) = 0
      /\ Len(aux_marks) = 0 /\ saved.summary = {}
  BY DEF Init
<1>2. Gone(saved, aux_log) = 0
  BY <1>1 DEF Gone
<1>3. Covered(aux_log, 0) = {}
  BY DEF Covered
<1>. QED  BY <1>1, <1>2, <1>3 DEF Journal

\* Arithmetic: where a record of the live history stands in the whole log.
LEMMA Shifted ==
    ASSUME NEW from \in Nat, NEW len \in Nat, NEW gone \in Nat, from + len <= gone
    PROVE  \A i \in 1..len : from + i \in 1..gone
OBVIOUS

\* The clocks of an interval of the log, read through a function equal to it.
LEMMA SameTicks ==
    ASSUME NEW s, NEW t, NEW m, \A i \in 1..m : s[i] = t[i]
    PROVE  Covered(s, m) = Covered(t, m)
BY DEF Covered

\* A step that only adds to the log or takes from its live end keeps the journal.
LEMMA JournalKept ==
    ASSUME NEW g, NEW fs, NEW marks, NEW log, Journal(g, fs, marks, log),
           NEW g2, NEW fs2, NEW marks2, NEW log2,
           Len(g.stack) \in Nat,
           \A k \in 1..Len(g.stack) : Len(FileOf(g, fs, k).evicted) \in Nat,
           g2.stack = g.stack, g2.summary = g.summary,
           \A k \in 1..Len(g.stack) : fs2[g.stack[k].id] = fs[g.stack[k].id],
           Len(marks2) = Len(marks),
           \A k \in 1..Len(marks) : marks2[k].from = marks[k].from,
           Gone(g2, log2) = Gone(g, log),
           \A i \in 1..Gone(g, log) : log2[i] = log[i],
           \A i \in 1..Len(g2.history) : g2.history[i] = log2[Gone(g, log) + i]
    PROVE  Journal(g2, fs2, marks2, log2)
<1>1. Gone(g, log) \in Nat /\ Len(marks) = Len(g.stack)
  BY DEF Journal
<1>2. \A k \in 1..Len(g.stack) : /\ FileOf(g2, fs2, k) = FileOf(g, fs, k)
                                 /\ EndOf(g2, fs2, marks2, k) = EndOf(g, fs, marks, k)
  BY <1>1 DEF FileOf, EndOf
<1>3. ASSUME NEW m \in Nat, m <= Gone(g, log) PROVE Covered(log2, m) = Covered(log, m)
  <2>1. \A i \in 1..m : log2[i] = log[i]
    BY <1>1, <1>3
  <2>. QED  BY <2>1, SameTicks
<1>4. ASSUME NEW k \in 1..Len(g.stack) PROVE Covers(g2, fs2, marks2, log2, k)
  <2>1. Covers(g, fs, marks, log, k)
    BY DEF Journal
  <2>2. /\ marks2[k].from = marks[k].from /\ marks[k].from \in Nat
        /\ FileOf(g2, fs2, k) = FileOf(g, fs, k)
        /\ EndOf(g2, fs2, marks2, k) = EndOf(g, fs, marks, k)
    BY <1>1, <1>2, <2>1 DEF Covers
  <2>3. marks2[k].from = (IF k = 1 THEN 0 ELSE EndOf(g2, fs2, marks2, k - 1))
    <3>1. k # 1 => EndOf(g2, fs2, marks2, k - 1) = EndOf(g, fs, marks, k - 1)
      BY <1>2
    <3>. QED  BY <2>1, <2>2, <3>1 DEF Covers
  <2>4. /\ EndOf(g, fs, marks, k) <= Gone(g, log)
        /\ EndOf(g, fs, marks, k) = marks[k].from + Len(FileOf(g, fs, k).evicted)
    BY <2>1 DEF Covers, EndOf
  <2>5. \A i \in 1..Len(FileOf(g, fs, k).evicted) : log2[marks[k].from + i] = log[marks[k].from + i]
    <3>1. /\ marks[k].from \in Nat /\ Len(FileOf(g, fs, k).evicted) \in Nat
          /\ Gone(g, log) \in Nat
          /\ marks[k].from + Len(FileOf(g, fs, k).evicted) <= Gone(g, log)
      BY <1>1, <2>2, <2>4
    <3>. QED  BY <3>1, Shifted
  <2>6. Covered(log2, marks[k].from) = Covered(log, marks[k].from)
    BY <1>1, <1>3, <2>2, <2>4
  <2>7. \A j \in 1..k - 1 : EndOf(g2, fs2, marks2, j) <= marks2[k].from
    <3>1. \A j \in 1..k - 1 : j \in 1..Len(g.stack)
      OBVIOUS
    <3>. QED  BY <1>2, <2>1, <2>2, <3>1 DEF Covers
  <2>. QED  BY <1>1, <2>1, <2>2, <2>3, <2>4, <2>5, <2>6, <2>7 DEF Covers
<1>5. g2.summary = Covered(log2, Gone(g, log))
  BY <1>1, <1>3 DEF Journal
<1>6. Gone(g, log) = (IF Len(g.stack) = 0 THEN 0 ELSE EndOf(g2, fs2, marks2, Len(g.stack)))
  <2>1. Len(g.stack) # 0 => EndOf(g2, fs2, marks2, Len(g.stack)) = EndOf(g, fs, marks, Len(g.stack))
    BY <1>2
  <2>. QED  BY <2>1 DEF Journal
<1>. QED  BY <1>1, <1>4, <1>5, <1>6 DEF Journal

\* Each entry of the stack names a checkpoint.
LEMMA KeptFileType ==
    ASSUME ChainInv
    PROVE  /\ Len(saved.stack) \in Nat
           /\ \A k \in 1..Len(saved.stack) :
                /\ saved.stack[k].id \in 1..Len(files)
                /\ FileOf(saved, files, k) \in Checkpoint
                /\ FileOf(saved, files, k).evicted \in Seq(TurnRecord)
                /\ Len(FileOf(saved, files, k).evicted) \in Nat
<1>1. /\ files \in Seq(Checkpoint) /\ DOMAIN files = 1..Len(files)
      /\ saved.stack \in Seq(StackEntry)
  BY LenProperties DEF ChainInv, TypeInv, TypeOK, GameState
<1>2. ASSUME NEW k \in 1..Len(saved.stack)
      PROVE  /\ saved.stack[k].id \in 1..Len(files)
             /\ FileOf(saved, files, k) \in Checkpoint
             /\ FileOf(saved, files, k).evicted \in Seq(TurnRecord)
             /\ Len(FileOf(saved, files, k).evicted) \in Nat
  <2>1. saved.stack[k].id \in DOMAIN files
    BY DEF ChainInv, CheckpointChain
  <2>2. FileOf(saved, files, k) \in Checkpoint
    BY <1>1, <2>1, ElementOfSeq DEF FileOf
  <2>3. FileOf(saved, files, k).evicted \in Seq(TurnRecord)
    BY <2>2 DEF Checkpoint
  <2>. QED  BY <1>1, <2>1, <2>2, <2>3, LenProperties
<1>. QED  BY <1>1, <1>2, LenProperties

\* The live history and the log have the types the steps below rely on.
LEMMA JournalTypes ==
    ASSUME TypeInv
    PROVE  /\ saved \in GameState
           /\ saved.history \in Seq(TurnRecord) /\ Len(saved.history) \in Nat
           /\ aux_log \in Seq(TurnRecord) /\ Len(aux_log) \in Nat
           /\ aux_marks \in Seq(Mark) /\ Len(aux_marks) \in Nat
           /\ saved.stack \in Seq(StackEntry) /\ Len(saved.stack) \in Nat
           /\ files \in Seq(Checkpoint) /\ Len(files) \in Nat
           /\ Gone(saved, aux_log) = Len(aux_log) - Len(saved.history)
BY LenProperties DEF TypeInv, TypeOK, GameState, Gone

\* A beat adds the same records to the history and to the log.
LEMMA JournalCommit ==
    ASSUME JournalInv, NEW beat \in Beats, NEW again \in BOOLEAN,
           CommitBeat(beat, again)
    PROVE  Journal(saved', files', aux_marks', aux_log')
<1>0. TypeInv
  BY DEF JournalInv, ChainInv
<1>. USE JournalTypes, <1>0
<1>1. PICK added \in Seq(TurnRecord) :
        /\ saved' = [saved EXCEPT !.history = saved.history \o added,
                                  !.tick = ClockAfter(saved.tick, beat),
                                  !.scene = beat.scene, !.plugin = beat.plugin,
                                  !.revision = saved.revision + 1]
        /\ aux_log' = aux_log \o added
  BY BeatRecords
<1>2. /\ saved'.history = saved.history \o added /\ saved'.stack = saved.stack
      /\ saved'.summary = saved.summary
  BY <1>1 DEF GameState
<1>3. files' = files /\ aux_marks' = aux_marks
  BY DEF CommitBeat
<1>4. /\ Len(saved'.history) = Len(saved.history) + Len(added) /\ Len(added) \in Nat
      /\ \A i \in 1..Len(saved.history) + Len(added) :
            saved'.history[i] = IF i <= Len(saved.history) THEN saved.history[i]
                                ELSE added[i - Len(saved.history)]
  BY <1>2, ConcatProperties, LenProperties
<1>5. /\ Len(aux_log') = Len(aux_log) + Len(added)
      /\ \A i \in 1..Len(aux_log) + Len(added) :
            aux_log'[i] = IF i <= Len(aux_log) THEN aux_log[i] ELSE added[i - Len(aux_log)]
  BY <1>1, ConcatProperties, LenProperties
<1>6. Gone(saved', aux_log') = Gone(saved, aux_log)
  BY <1>4, <1>5 DEF Gone
<1>7. Gone(saved, aux_log) \in Nat /\ \A i \in 1..Len(saved.history) : saved.history[i] = aux_log[Gone(saved, aux_log) + i]
  BY DEF JournalInv, Journal
<1>8. \A i \in 1..Gone(saved, aux_log) : aux_log'[i] = aux_log[i]
  BY <1>5, <1>7
<1>9. ASSUME NEW i \in 1..Len(saved'.history)
      PROVE  saved'.history[i] = aux_log'[Gone(saved, aux_log) + i]
  <2>1. Gone(saved, aux_log) + i \in 1..Len(aux_log) + Len(added) /\ i \in 1..Len(saved.history) + Len(added)
    BY <1>4, <1>7
  <2>2. CASE i <= Len(saved.history)
    <3>1. Gone(saved, aux_log) + i <= Len(aux_log) /\ i \in 1..Len(saved.history)
      BY <2>1, <2>2
    <3>2. aux_log'[Gone(saved, aux_log) + i] = aux_log[Gone(saved, aux_log) + i]
      BY <1>5, <2>1, <3>1
    <3>3. saved'.history[i] = saved.history[i]
      BY <1>4, <2>1, <3>1
    <3>. QED  BY <1>7, <3>1, <3>2, <3>3
  <2>3. CASE ~(i <= Len(saved.history))
    <3>1. Gone(saved, aux_log) + i - Len(aux_log) = i - Len(saved.history) /\ ~(Gone(saved, aux_log) + i <= Len(aux_log))
      BY <2>1, <2>3
    <3>2. aux_log'[Gone(saved, aux_log) + i] = added[Gone(saved, aux_log) + i - Len(aux_log)]
      BY <1>5, <2>1, <3>1
    <3>. QED  BY <1>4, <2>1, <2>3, <3>1, <3>2
  <2>. QED  BY <2>2, <2>3
<1>. QED  BY <1>2, <1>3, <1>6, <1>8, <1>9, KeptFileType, JournalKept DEF JournalInv

\* Undo takes the same records off both.
LEMMA JournalUndo ==
    ASSUME JournalInv, UndoTurn
    PROVE  Journal(saved', files', aux_marks', aux_log')
<1>0. TypeInv
  BY DEF JournalInv, ChainInv
<1>. USE JournalTypes, <1>0
<1>1. PICK n \in 0..Len(saved.history)-1 :
        /\ saved' = [saved EXCEPT !.history = SubSeq(@, 1, n),
                                  !.scene = RestorePoint(saved.history, n).scene,
                                  !.plugin = RestorePoint(saved.history, n).plugin,
                                  !.tick = RestorePoint(saved.history, n).tick,
                                  !.revision = @ + 1]
        /\ LET left == Len(aux_log) - (Len(saved.history) - n)
           IN  /\ aux_log' = SubSeq(aux_log, 1, left)
               /\ aux_marks' = [k \in DOMAIN aux_marks |->
                      [aux_marks[k] EXCEPT !.intact = @ /\ aux_marks[k].upto <= left]]
  BY Zenon DEF UndoTurn
<1>. DEFINE left == Gone(saved, aux_log) + n
<1>2. Gone(saved, aux_log) \in Nat /\ \A i \in 1..Len(saved.history) : saved.history[i] = aux_log[Gone(saved, aux_log) + i]
  BY DEF JournalInv, Journal
<1>3. /\ left \in Nat /\ left <= Len(aux_log) /\ aux_log' = SubSeq(aux_log, 1, left)
      /\ n \in 0..Len(saved.history)
  <2>0. /\ Gone(saved, aux_log) = Len(aux_log) - Len(saved.history) /\ Gone(saved, aux_log) \in Nat
        /\ Len(aux_log) \in Nat /\ Len(saved.history) \in Nat
    BY <1>2
  <2>1. left = Len(aux_log) - (Len(saved.history) - n) /\ left \in Nat /\ left <= Len(aux_log)
        /\ n \in 0..Len(saved.history)
    BY <2>0
  <2>2. aux_log' = SubSeq(aux_log, 1, Len(aux_log) - (Len(saved.history) - n))
    BY <1>1
  <2>. HIDE DEF left
  <2>. QED  BY <2>1, <2>2
<1>. HIDE DEF left
<1>4. /\ saved'.history = SubSeq(saved.history, 1, n) /\ saved'.stack = saved.stack
      /\ saved'.summary = saved.summary
  BY <1>1 DEF GameState
<1>5. Len(saved'.history) = n /\ \A i \in 1..n : saved'.history[i] = saved.history[i]
  BY <1>3, <1>4, ElementOfSeq, SubSeqProperties
<1>6. Len(aux_log') = left /\ \A i \in 1..left : aux_log'[i] = aux_log[i]
  BY <1>3, ElementOfSeq, SubSeqProperties
<1>7. Gone(saved', aux_log') = Gone(saved, aux_log)
  BY <1>5, <1>6, <1>2 DEF Gone, left
<1>8. /\ Len(aux_marks') = Len(aux_marks)
      /\ \A k \in 1..Len(aux_marks) : aux_marks'[k].from = aux_marks[k].from
  <2>1. \A k \in 1..Len(aux_marks) : aux_marks[k] \in Mark
    BY ElementOfSeq
  <2>2. DOMAIN aux_marks = 1..Len(aux_marks)
    BY LenProperties
  <2>. DEFINE cut(k) == [aux_marks[k] EXCEPT !.intact =
                           @ /\ aux_marks[k].upto <= Len(aux_log) - (Len(saved.history) - n)]
  <2>3. \A k \in 1..Len(aux_marks) : cut(k).from = aux_marks[k].from
    BY <2>1 DEF Mark
  <2>4. aux_marks' = [k \in 1..Len(aux_marks) |-> cut(k)]
    BY <1>1, <2>2
  <2>. HIDE DEF cut
  <2>. QED  BY <2>3, <2>4
<1>9. files' = files
  BY DEF UndoTurn
<1>10. \A i \in 1..Gone(saved, aux_log) : aux_log'[i] = aux_log[i]
  BY <1>2, <1>3, <1>6 DEF left
<1>11. \A i \in 1..Len(saved'.history) : saved'.history[i] = aux_log'[Gone(saved, aux_log) + i]
  <2>1. ASSUME NEW i \in 1..n PROVE Gone(saved, aux_log) + i \in 1..left /\ i \in 1..Len(saved.history)
    <3>1. /\ Gone(saved, aux_log) \in Nat /\ n \in Nat /\ n <= Len(saved.history)
          /\ Len(saved.history) \in Nat
      BY <1>2
    <3>. QED  BY <3>1 DEF left
  <2>. QED  BY <1>2, <1>5, <1>6, <2>1
<1>. QED  BY <1>4, <1>7, <1>8, <1>9, <1>10, <1>11, KeptFileType, JournalKept DEF JournalInv

\* A step that leaves the session's state and the files of its stack alone.
LEMMA JournalIdle ==
    ASSUME JournalInv, UNCHANGED <<saved, aux>>,
           \A k \in 1..Len(saved.stack) : files'[saved.stack[k].id] = files[saved.stack[k].id]
    PROVE  Journal(saved', files', aux_marks', aux_log')
<1>1. /\ saved' = saved /\ aux_log' = aux_log /\ aux_marks' = aux_marks
  BY DEF aux
<1>2. Gone(saved', aux_log') = Gone(saved, aux_log)
  BY <1>1 DEF Gone
<1>3. \A i \in 1..Len(saved.history) : saved.history[i] = aux_log[Gone(saved, aux_log) + i]
  BY DEF JournalInv, Journal
<1>. QED  BY <1>1, <1>2, <1>3, KeptFileType, JournalKept DEF JournalInv

\* g2 and marks2 come from g and marks by moving the first n of the live records
\* to the checkpoint `new` of one more entry.
Pushed(g, fs, marks, n, g2, marks2, new) ==
    /\ Len(g2.history) = Len(g.history) - n
    /\ \A i \in 1..Len(g.history) - n : g2.history[i] = g.history[n + i]
    /\ Len(g2.stack) = Len(g.stack) + 1
    /\ \A k \in 1..Len(g.stack) : g2.stack[k] = g.stack[k]
    /\ new = FileOf(g2, fs, Len(g.stack) + 1)
    /\ Len(new.evicted) = n
    /\ \A i \in 1..n : new.evicted[i] = g.history[i]
    /\ new.summary_before = g.summary
    /\ g2.summary = g.summary \cup {new.evicted[i].tick : i \in 1..n}
    /\ Len(marks2) = Len(g.stack) + 1
    /\ \A k \in 1..Len(g.stack) : marks2[k] = marks[k]

\* ... and by giving the records of the newest entry, of checkpoint `top`, back.
Popped(g, marks, g2, marks2, top) ==
    /\ Len(g2.history) = Len(top.evicted) + Len(g.history)
    /\ \A i \in 1..Len(top.evicted) : g2.history[i] = top.evicted[i]
    /\ \A i \in 1..Len(g.history) : g2.history[Len(top.evicted) + i] = g.history[i]
    /\ g2.summary = top.summary_before
    /\ Len(g2.stack) = Len(g.stack) - 1
    /\ \A k \in 1..Len(g.stack) - 1 : g2.stack[k] = g.stack[k]
    /\ Len(marks2) = Len(g.stack) - 1
    /\ \A k \in 1..Len(g.stack) - 1 : marks2[k] = marks[k]

Sized(g, depth, live) == Len(g.stack) = depth /\ Len(g.history) = live

TopOf(g, fs, top, size) == FileOf(g, fs, Len(g.stack)) = top /\ Len(top.evicted) = size

FilesHaveLengths(g, fs) ==
    \A k \in 1..Len(g.stack) : Len(FileOf(g, fs, k).evicted) \in Nat

\* The n records of a sequence that stand in the log behind its first m.
Stretch(part, n, log, m) == \A i \in 1..n : part[i] = log[m + i]

\* The clocks of the first m beats, and those of the n that follow.
LEMMA CoveredGrows ==
    ASSUME NEW log, NEW m, m \in Nat, NEW n, n \in Nat, NEW part, Stretch(part, n, log, m)
    PROVE  \A t : t \in Covered(log, m + n) <=> t \in Covered(log, m) \/ t \in Covered(part, n)
<1>0. \A i \in 1..n : part[i] = log[m + i]
  BY DEF Stretch
<1>1. ASSUME NEW i \in 1..m PROVE log[i].tick \in Covered(log, m + n)
  <2>1. i \in 1..m + n
    OBVIOUS
  <2>. QED  BY <2>1 DEF Covered
<1>2. ASSUME NEW i \in 1..n PROVE part[i].tick \in Covered(log, m + n)
  <2>1. m + i \in 1..m + n
    OBVIOUS
  <2>. QED  BY <1>0, <2>1 DEF Covered
<1>3. ASSUME NEW i \in 1..m + n
      PROVE  log[i].tick \in Covered(log, m) \cup Covered(part, n)
  <2>1. CASE i <= m
    <3>1. i \in 1..m
      BY <2>1
    <3>. QED  BY <3>1 DEF Covered
  <2>2. CASE ~(i <= m)
    <3>1. i - m \in 1..n /\ m + (i - m) = i
      BY <2>2
    <3>2. part[i - m] = log[i]
      BY <1>0, <3>1
    <3>. QED  BY <3>1, <3>2 DEF Covered
  <2>. QED  BY <2>1, <2>2
<1>. QED  BY <1>1, <1>2, <1>3 DEF Covered

\* Saving a compaction moves the records it evicted from the live history to
\* the stretch of the new entry.
LEMMA JournalPush ==
    ASSUME NEW g, NEW fs, NEW marks, NEW log, Journal(g, fs, marks, log),
           NEW depth \in Nat, NEW live \in Nat, Sized(g, depth, live), Len(log) \in Nat,
           FilesHaveLengths(g, fs),
           NEW n \in Nat, n <= live,
           NEW g2, NEW marks2, NEW new, Pushed(g, fs, marks, n, g2, marks2, new),
           marks2[depth + 1].from = Gone(g, log)
    PROVE  Journal(g2, fs, marks2, log)
<1>. DEFINE gone == Gone(g, log)
<1>1. /\ gone \in Nat /\ Len(marks) = depth /\ gone = Len(log) - live
      /\ \A i \in 1..live : g.history[i] = log[gone + i]
      /\ g.summary = Covered(log, gone)
      /\ gone = (IF depth = 0 THEN 0 ELSE EndOf(g, fs, marks, depth))
  BY DEF Journal, Sized, Gone
<1>0. gone \in Nat /\ gone = Len(log) - live
  BY <1>1
<1>2. Gone(g2, log) = gone + n
  BY <1>0 DEF Gone, Pushed, Sized
<1>. HIDE DEF gone
<1>3. /\ \A k \in 1..depth : /\ FileOf(g2, fs, k) = FileOf(g, fs, k)
                             /\ EndOf(g2, fs, marks2, k) = EndOf(g, fs, marks, k)
      /\ new = FileOf(g2, fs, depth + 1) /\ new.summary_before = g.summary
      /\ Len(new.evicted) = n
      /\ marks2[depth + 1].from = gone
      /\ EndOf(g2, fs, marks2, depth + 1) = gone + n
      /\ \A k \in 1..depth : marks2[k] = marks[k]
  BY <1>1 DEF FileOf, EndOf, gone, Pushed, Sized
<1>4. \A k \in 1..depth : Covers(g, fs, marks, log, k)
  BY DEF Journal, Sized
<1>5. ASSUME NEW i \in 1..n PROVE new.evicted[i] = log[gone + i]
  <2>1. i \in 1..live
    OBVIOUS
  <2>2. new.evicted[i] = g.history[i]
    BY DEF Pushed, Sized
  <2>. QED  BY <1>1, <2>1, <2>2
<1>6. ASSUME NEW k \in 1..depth PROVE Covers(g2, fs, marks2, log, k)
  <2>1. Covers(g, fs, marks, log, k)
    BY <1>4
  <2>2. EndOf(g, fs, marks, k) \in Nat /\ EndOf(g, fs, marks, k) <= gone
    BY <2>1 DEF EndOf, Covers, gone, FilesHaveLengths, Sized
  <2>3. EndOf(g, fs, marks, k) <= Gone(g2, log)
    BY <1>0, <1>2, <2>2
  <2>4. k # 1 => EndOf(g2, fs, marks2, k - 1) = EndOf(g, fs, marks, k - 1)
    BY <1>3
  <2>5. \A j \in 1..k - 1 : EndOf(g2, fs, marks2, j) <= marks2[k].from
    <3>1. \A j \in 1..k - 1 : j \in 1..depth
      OBVIOUS
    <3>. QED  BY <1>3, <2>1, <3>1 DEF Covers
  <2>. QED  BY <1>3, <2>1, <2>3, <2>4, <2>5 DEF Covers
<1>7. Covers(g2, fs, marks2, log, depth + 1)
  <2>1. marks2[depth + 1].from = gone
    BY <1>3
  <2>2. gone = (IF depth + 1 = 1 THEN 0 ELSE EndOf(g2, fs, marks2, depth + 1 - 1))
    BY <1>1, <1>3
  <2>3. \A j \in 1..depth + 1 - 1 : EndOf(g2, fs, marks2, j) <= gone
    BY <1>3, <1>4 DEF Covers, gone
  <2>4. gone + n <= Gone(g2, log)
    BY <1>0, <1>2
  <2>5. g.summary = Covered(log, gone)
    BY <1>1
  <2>6. FileOf(g2, fs, depth + 1).summary_before = Covered(log, gone)
    BY <1>3, <2>5
  <2>7. \A i \in 1..Len(FileOf(g2, fs, depth + 1).evicted) :
           FileOf(g2, fs, depth + 1).evicted[i] = log[gone + i]
    BY <1>3, <1>5
  <2>8. EndOf(g2, fs, marks2, depth + 1) <= Gone(g2, log)
    BY <1>3, <2>4
  <2>. QED  BY <1>0, <2>1, <2>2, <2>3, <2>6, <2>7, <2>8 DEF Covers
<1>8. g2.summary = Covered(log, gone + n)
  <2>1. g2.summary = Covered(log, gone) \cup {new.evicted[i].tick : i \in 1..n}
    BY <1>1 DEF Pushed, Sized
  <2>. DEFINE part == new.evicted
  <2>2. Stretch(part, n, log, gone)
    BY <1>5 DEF Stretch
  <2>3. g2.summary = Covered(log, gone) \cup Covered(part, n)
    BY <2>1 DEF Covered
  <2>4. gone \in Nat
    BY <1>0
  <2>. HIDE DEF part
  <2>5. \A t : t \in Covered(log, gone + n) <=> t \in Covered(log, gone) \/ t \in Covered(part, n)
    BY <2>2, <2>4, CoveredGrows
  <2>. QED  BY <2>3, <2>5
<1>9. \A i \in 1..Len(g2.history) : g2.history[i] = log[gone + n + i]
  <2>. SUFFICES ASSUME NEW i \in 1..live - n PROVE g2.history[i] = log[gone + n + i]
    BY DEF Pushed, Sized
  <2>1. n + i \in 1..live /\ gone + (n + i) = gone + n + i
    BY <1>0
  <2>2. g.history[n + i] = log[gone + (n + i)]
    BY <1>1, <2>1
  <2>3. g2.history[i] = g.history[n + i]
    BY DEF Pushed, Sized
  <2>. QED  BY <2>1, <2>2, <2>3
<1>10. \A k \in 1..depth + 1 : Covers(g2, fs, marks2, log, k)
  BY <1>6, <1>7
<1>11. gone + n = (IF Len(g2.stack) = 0 THEN 0 ELSE EndOf(g2, fs, marks2, Len(g2.stack)))
  BY <1>3 DEF Pushed, Sized
<1>12. Len(g2.stack) = depth + 1 /\ Len(marks2) = depth + 1
  BY DEF Pushed, Sized
<1>13. Gone(g2, log) \in Nat
  BY <1>0, <1>2
<1>. QED  BY <1>2, <1>8, <1>9, <1>10, <1>11, <1>12, <1>13 DEF Journal, Sized

\* Restoring gives the newest stretch back to the live history.
LEMMA JournalPop ==
    ASSUME NEW g, NEW fs, NEW marks, NEW log, Journal(g, fs, marks, log),
           NEW depth \in Nat, depth > 0, NEW live \in Nat, Sized(g, depth, live), Len(log) \in Nat,
           NEW top, NEW size \in Nat, TopOf(g, fs, top, size),
           NEW g2, NEW marks2, Popped(g, marks, g2, marks2, top)
    PROVE  Journal(g2, fs, marks2, log)
<1>. DEFINE gone == Gone(g, log)
            from == marks[depth].from
<1>1. /\ gone \in Nat /\ gone = Len(log) - live
      /\ \A i \in 1..live : g.history[i] = log[gone + i]
      /\ gone = EndOf(g, fs, marks, depth) /\ Len(marks) = depth
      /\ \A k \in 1..depth : Covers(g, fs, marks, log, k)
  BY DEF Journal, Sized, Gone
<1>2. Covers(g, fs, marks, log, depth)
  BY <1>1
<1>3. /\ from \in Nat /\ gone = from + size
      /\ from = (IF depth = 1 THEN 0 ELSE EndOf(g, fs, marks, depth - 1))
      /\ \A j \in 1..depth - 1 : EndOf(g, fs, marks, j) <= from
      /\ \A i \in 1..size : top.evicted[i] = log[from + i]
      /\ g2.summary = Covered(log, from)
  BY <1>1, <1>2 DEF Covers, EndOf, Popped, Sized, TopOf
<1>0. /\ gone \in Nat /\ gone = Len(log) - live /\ from \in Nat /\ gone = from + size
      /\ from = (IF depth = 1 THEN 0 ELSE EndOf(g, fs, marks, depth - 1))
      /\ Len(g2.history) = size + live
  BY <1>1, <1>3 DEF Popped, Sized, TopOf
<1>. HIDE DEF gone, from
<1>4. Gone(g2, log) = from
  <2>1. Len(log) - (size + live) = from
    BY <1>0
  <2>. QED  BY <1>0, <2>1, Zenon DEF Gone
<1>5. \A k \in 1..depth - 1 : /\ FileOf(g2, fs, k) = FileOf(g, fs, k)
                              /\ EndOf(g2, fs, marks2, k) = EndOf(g, fs, marks, k)
                              /\ marks2[k] = marks[k]
  BY DEF FileOf, EndOf, Popped, Sized, TopOf
<1>6. ASSUME NEW k \in 1..depth - 1 PROVE Covers(g2, fs, marks2, log, k)
  <2>1. Covers(g, fs, marks, log, k)
    BY <1>1
  <2>2. EndOf(g, fs, marks, k) <= from
    BY <1>3
  <2>3. k # 1 => EndOf(g2, fs, marks2, k - 1) = EndOf(g, fs, marks, k - 1)
    BY <1>5
  <2>4. \A j \in 1..k - 1 : EndOf(g2, fs, marks2, j) = EndOf(g, fs, marks, j)
    BY <1>5
  <2>. QED  BY <1>4, <1>5, <2>1, <2>2, <2>3, <2>4 DEF Covers
<1>7. ASSUME NEW i \in 1..size + live PROVE g2.history[i] = log[from + i]
  <2>1. CASE i <= size
    <3>1. i \in 1..size
      BY <2>1
    <3>. QED  BY <1>3, <3>1 DEF Popped, Sized, TopOf
  <2>2. CASE ~(i <= size)
    <3>1. i - size \in 1..live /\ size + (i - size) = i /\ gone + (i - size) = from + i
      BY <1>0, <2>2
    <3>2. g2.history[size + (i - size)] = g.history[i - size]
      BY <3>1 DEF Popped, Sized, TopOf
    <3>3. g.history[i - size] = log[gone + (i - size)]
      BY <1>1, <3>1
    <3>. QED  BY <3>1, <3>2, <3>3
  <2>. QED  BY <2>1, <2>2
<1>8. from = (IF Len(g2.stack) = 0 THEN 0 ELSE EndOf(g2, fs, marks2, Len(g2.stack)))
  <2>1. depth # 1 => EndOf(g2, fs, marks2, depth - 1) = EndOf(g, fs, marks, depth - 1)
    <3>1. depth # 1 => depth - 1 \in 1..depth - 1
      OBVIOUS
    <3>. QED  BY <1>5, <3>1
  <2>2. Len(g2.stack) = depth - 1
    BY DEF Popped, Sized, TopOf
  <2>. QED  BY <1>0, <2>1, <2>2
<1>9. /\ Len(g2.stack) = depth - 1 /\ Len(marks2) = depth - 1
      /\ Len(g2.history) = size + live
  BY DEF Popped, Sized, TopOf
<1>. QED  BY <1>3, <1>4, <1>6, <1>7, <1>8, <1>9 DEF Journal, Sized

\* Saving a compaction moves the head of the live history to its checkpoint.
LEMMA JournalSave ==
    ASSUME JournalInv, SaveCompaction
    PROVE  Journal(saved', files', aux_marks', aux_log')
<1>0. TypeInv /\ ChainInv /\ op.stage = "saving" /\ Journal(saved, files, aux_marks, aux_log)
  BY DEF JournalInv, ChainInv, SaveCompaction
<1>1. PICK n \in 0..Len(saved.history)-1, plugin \in PluginStates :
        /\ files[Len(files)] = CheckpointOf(n, plugin)
        /\ draft = DraftOf(n, plugin, Len(files))
  BY <1>0 DEF ChainInv, DraftIsCompaction
<1>. DEFINE entry == [id |-> Len(files), parent |-> ParentId(saved.stack)]
            mark == [from |-> Len(aux_log) - Len(saved.history),
                     upto |-> Len(aux_log), intact |-> TRUE]
<1>2. /\ saved' = DraftOf(n, plugin, Len(files)) /\ files' = files /\ aux_log' = aux_log
      /\ aux_marks' = Append(aux_marks, mark)
  BY <1>1 DEF SaveCompaction
<1>3. /\ saved'.history = SubSeq(saved.history, n + 1, Len(saved.history))
      /\ saved'.summary = SummaryOf(n)
      /\ saved'.stack = Append(saved.stack, entry)
  BY <1>2 DEF DraftOf
<1>4. /\ files[entry.id].evicted = SubSeq(saved.history, 1, n)
      /\ files[entry.id].summary_before = saved.summary
  BY <1>1 DEF CheckpointOf
<1>5. /\ aux_marks \in Seq(Mark) /\ saved.stack \in Seq(StackEntry)
      /\ saved.history \in Seq(TurnRecord) /\ Len(saved.stack) \in Nat
      /\ Len(saved.history) \in Nat /\ Len(aux_log) \in Nat
      /\ \A k \in 1..Len(saved.stack) : Len(FileOf(saved, files, k).evicted) \in Nat
      /\ Len(aux_marks) = Len(saved.stack)
  BY <1>0, JournalTypes, KeptFileType DEF Journal
<1>6. mark.from = Gone(saved, aux_log) /\ entry.id = Len(files)
  BY DEF Gone
<1>. HIDE DEF entry, mark
<1>7. /\ Len(saved'.stack) = Len(saved.stack) + 1
      /\ saved'.stack[Len(saved.stack) + 1] = entry
      /\ \A k \in 1..Len(saved.stack) : saved'.stack[k] = saved.stack[k]
  BY <1>3, <1>5, AppendProperties
<1>8. /\ Len(aux_marks') = Len(saved.stack) + 1
      /\ aux_marks'[Len(saved.stack) + 1] = mark
      /\ \A k \in 1..Len(saved.stack) : aux_marks'[k] = aux_marks[k]
  BY <1>2, <1>5, AppendProperties
<1>9. \A i \in 1..Len(saved.history) : saved.history[i] \in TurnRecord
  BY <1>5, ElementOfSeq
<1>10. /\ Len(saved'.history) = Len(saved.history) - n
       /\ \A i \in 1..Len(saved.history) - n : saved'.history[i] = saved.history[n + i]
  <2>1. \A i \in n + 1..Len(saved.history) : saved.history[i] \in TurnRecord
    BY <1>9
  <2>2. /\ Len(saved'.history) = IF n + 1 <= Len(saved.history)
                                 THEN Len(saved.history) - (n + 1) + 1 ELSE 0
        /\ \A i \in 1..Len(saved.history) - (n + 1) + 1 :
              saved'.history[i] = saved.history[(n + 1) + i - 1]
    BY <1>3, <1>5, <2>1, SubSeqProperties
  <2>3. \A i \in 1..Len(saved.history) - n : (n + 1) + i - 1 = n + i
    BY <1>5
  <2>4. Len(saved.history) - (n + 1) + 1 = Len(saved.history) - n /\ n + 1 <= Len(saved.history)
    BY <1>5
  <2>. QED  BY <2>2, <2>3, <2>4
<1>. DEFINE new == files[Len(files)]
<1>11. /\ Len(new.evicted) = n
       /\ \A i \in 1..n : new.evicted[i] = saved.history[i]
       /\ DOMAIN new.evicted = 1..n
  <2>1. \A i \in 1..n : saved.history[i] \in TurnRecord
    BY <1>5, <1>9
  <2>2. /\ SubSeq(saved.history, 1, n) \in Seq(TurnRecord)
        /\ Len(SubSeq(saved.history, 1, n)) = IF 1 <= n THEN n - 1 + 1 ELSE 0
        /\ \A i \in 1..n - 1 + 1 : SubSeq(saved.history, 1, n)[i] = saved.history[1 + i - 1]
    BY <1>5, <2>1, SubSeqProperties
  <2>3. Len(SubSeq(saved.history, 1, n)) = n
        /\ \A i \in 1..n : SubSeq(saved.history, 1, n)[i] = saved.history[i]
    BY <2>2
  <2>4. DOMAIN SubSeq(saved.history, 1, n) = 1..n
    BY <2>2, <2>3, LenProperties
  <2>. QED  BY <1>4, <1>6, <2>3, <2>4
<1>12. saved'.summary = saved.summary \cup {new.evicted[i].tick : i \in 1..n}
  <2>1. new.evicted = SubSeq(saved.history, 1, n)
    BY <1>4, <1>6
  <2>2. saved'.summary = saved.summary \cup {new.evicted[i].tick : i \in DOMAIN new.evicted}
    BY <1>3, <2>1 DEF SummaryOf
  <2>. HIDE DEF new
  <2>. QED  BY <1>11, <2>2
<1>13. new = FileOf(saved', files, Len(saved.stack) + 1)
  BY <1>6, <1>7 DEF FileOf
<1>14. new.summary_before = saved.summary
  BY <1>4, <1>6
<1>15. n \in Nat /\ n <= Len(saved.history)
  BY <1>5
<1>. HIDE DEF new
<1>16. Pushed(saved, files, aux_marks, n, saved', aux_marks', new)
  BY <1>7, <1>8, <1>10, <1>11, <1>12, <1>13, <1>14 DEF Pushed
<1>17. aux_marks'[Len(saved.stack) + 1].from = Gone(saved, aux_log) /\ FilesHaveLengths(saved, files)
  BY <1>5, <1>6, <1>8 DEF FilesHaveLengths
<1>18. Journal(saved', files, aux_marks', aux_log)
  BY <1>0, <1>5, <1>15, <1>16, <1>17, JournalPush DEF Sized
<1>. QED  BY <1>2, <1>18

\* A restore puts the records of the newest checkpoint back in front.
LEMMA JournalRestore ==
    ASSUME JournalInv, RestoreLastCompaction
    PROVE  Journal(saved', files', aux_marks', aux_log')
<1>0. TypeInv /\ ChainInv /\ Journal(saved, files, aux_marks, aux_log)
  BY DEF JournalInv, ChainInv
<1>. DEFINE checkpoint == files[Newest(saved.stack).id]
<1>1. saved.stack # <<>>
  BY <1>0, RestoredHistory
<1>2. PICK plugin \in PluginStates :
        saved' = [saved EXCEPT !.history = checkpoint.evicted \o saved.history,
                               !.summary = checkpoint.summary_before,
                               !.plugin = plugin,
                               !.stack = SubSeq(saved.stack, 1, Len(saved.stack) - 1),
                               !.revision = saved.revision + 1]
  BY <1>0, RestoredHistory
<1>3. checkpoint = FileOf(saved, files, Len(saved.stack))
  BY DEF FileOf, Newest
<1>. HIDE DEF checkpoint
<1>4. /\ saved'.history = checkpoint.evicted \o saved.history
      /\ saved'.summary = checkpoint.summary_before
      /\ saved'.stack = SubSeq(saved.stack, 1, Len(saved.stack) - 1)
  BY <1>0, <1>2, JournalTypes DEF GameState
<1>5. /\ files' = files /\ aux_log' = aux_log
      /\ aux_marks' = SubSeq(aux_marks, 1, Len(aux_marks) - 1)
  BY DEF RestoreLastCompaction
<1>6. /\ aux_marks \in Seq(Mark) /\ saved.stack \in Seq(StackEntry)
      /\ saved.history \in Seq(TurnRecord)
      /\ Len(saved.stack) \in Nat \ {0} /\ Len(aux_marks) = Len(saved.stack)
      /\ Len(saved.history) \in Nat /\ Len(aux_log) \in Nat
  BY <1>0, <1>1, JournalTypes, EmptySeq DEF Journal
<1>7. checkpoint.evicted \in Seq(TurnRecord) /\ Len(checkpoint.evicted) \in Nat
  BY <1>0, <1>3, <1>6, KeptFileType
<1>8. /\ Len(saved'.stack) = Len(saved.stack) - 1
      /\ \A k \in 1..Len(saved.stack) - 1 : saved'.stack[k] = saved.stack[k]
  BY <1>4, <1>6, ElementOfSeq, SubSeqProperties
<1>9. /\ Len(aux_marks') = Len(saved.stack) - 1
      /\ \A k \in 1..Len(saved.stack) - 1 : aux_marks'[k] = aux_marks[k]
  BY <1>5, <1>6, ElementOfSeq, SubSeqProperties
<1>10. /\ Len(saved'.history) = Len(checkpoint.evicted) + Len(saved.history)
       /\ \A i \in 1..Len(checkpoint.evicted) + Len(saved.history) :
             saved'.history[i] = IF i <= Len(checkpoint.evicted) THEN checkpoint.evicted[i]
                                 ELSE saved.history[i - Len(checkpoint.evicted)]
  <2>. DEFINE e == checkpoint.evicted
              h == saved.history
  <2>1. saved'.history = e \o h /\ e \in Seq(TurnRecord) /\ h \in Seq(TurnRecord)
    BY <1>4, <1>6, <1>7
  <2>. HIDE DEF e, h
  <2>2. /\ Len(saved'.history) = Len(e) + Len(h)
        /\ \A i \in 1..Len(e) + Len(h) :
              saved'.history[i] = IF i <= Len(e) THEN e[i] ELSE h[i - Len(e)]
    BY <2>1, ConcatProperties
  <2>. QED  BY <2>2 DEF e, h
<1>11. /\ \A i \in 1..Len(checkpoint.evicted) : saved'.history[i] = checkpoint.evicted[i]
       /\ \A i \in 1..Len(saved.history) :
             saved'.history[Len(checkpoint.evicted) + i] = saved.history[i]
  <2>. DEFINE a == Len(checkpoint.evicted)
              b == Len(saved.history)
  <2>1. a \in Nat /\ b \in Nat
    BY <1>6, <1>7
  <2>. HIDE DEF a, b
  <2>2. ASSUME NEW i \in 1..a PROVE i \in 1..a + b /\ i <= a
    BY <2>1
  <2>4. \A i \in 1..a + b : saved'.history[i] = IF i <= a THEN checkpoint.evicted[i]
                                                 ELSE saved.history[i - a]
    BY <1>10 DEF a, b
  <2>5. \A i \in 1..a : saved'.history[i] = checkpoint.evicted[i]
    BY <2>2, <2>4
  <2>6. ASSUME NEW i \in 1..b PROVE saved'.history[a + i] = saved.history[i]
    <3>. DEFINE j == a + i
    <3>1. j \in 1..a + b /\ ~(j <= a) /\ j - a = i
      BY <2>1
    <3>. HIDE DEF j
    <3>2. saved'.history[j] = saved.history[j - a]
      BY <2>4, <3>1
    <3>. QED  BY <3>1, <3>2 DEF j
  <2>. QED  BY <2>5, <2>6 DEF a, b
<1>12. Popped(saved, aux_marks, saved', aux_marks', checkpoint)
  BY <1>4, <1>8, <1>9, <1>10, <1>11 DEF Popped
<1>13. Journal(saved', files, aux_marks', aux_log)
  BY <1>0, <1>3, <1>6, <1>7, <1>12, JournalPop DEF Sized, TopOf
<1>. QED  BY <1>5, <1>13

\* The files the stack names survive every step but the one that pops them.
LEMMA LiveFilesKept ==
    ASSUME ChainInv, [Next]_vars
    PROVE  \A k \in 1..Len(saved.stack) : files'[saved.stack[k].id] = files[saved.stack[k].id]
<1>. SUFFICES ASSUME NEW k \in 1..Len(saved.stack)
              PROVE  files'[saved.stack[k].id] = files[saved.stack[k].id]
  OBVIOUS
<1>1. saved.stack[k].id \in DOMAIN files
  BY DEF ChainInv, CheckpointChain
<1>2. CASE op.stage = "saving"
  <2>1. saved.stack[k].id < Len(files) /\ saved.stack[k].id \in 1..Len(files)
    BY <1>2, KeptFileType DEF ChainInv, StackIsOlder
  <2>2. Newest(draft.stack).id = Len(files)
    <3>1. draft.stack = Append(saved.stack, [id |-> Len(files), parent |-> ParentId(saved.stack)])
      BY <1>2 DEF ChainInv, TypeInv, DraftNamesNewestFile
    <3>2. saved.stack \in Seq(StackEntry)
      BY JournalTypes DEF ChainInv
    <3>3. Newest(draft.stack) = [id |-> Len(files), parent |-> ParentId(saved.stack)]
      BY <3>1, <3>2, AppendProperties DEF Newest
    <3>. QED  BY <3>3
  <2>3. Len(files) \in Nat
    BY JournalTypes DEF ChainInv
  <2>4. ~InFlight(saved.stack[k].id)
    BY <2>1, <2>2, <2>3 DEF InFlight
  <2>. QED  BY <1>1, <2>4, ImmutableStep DEF ChainInv
<1>3. CASE op.stage # "saving"
  <2>1. ~InFlight(saved.stack[k].id)
    BY <1>3 DEF InFlight
  <2>. QED  BY <1>1, <2>1, ImmutableStep DEF ChainInv
<1>. QED  BY <1>2, <1>3

\* Every step keeps live history and checkpoints together equal to the log.
LEMMA JournalStep ==
    ASSUME JournalInv, [Next]_vars
    PROVE  JournalInv'
<1>0. ChainInv /\ ChainInv'
  BY ChainStep DEF JournalInv
<1>. SUFFICES Journal(saved', files', aux_marks', aux_log')
  BY <1>0 DEF JournalInv
<1>1. CASE BeginTurn
  BY <1>0, <1>1, LiveFilesKept, JournalIdle DEF BeginTurn
<1>2. ASSUME NEW beat \in Beats, NEW again \in BOOLEAN, CommitBeat(beat, again)
      PROVE  Journal(saved', files', aux_marks', aux_log')
  BY <1>2, JournalCommit
<1>3. CASE AbandonTurn
  BY <1>0, <1>3, LiveFilesKept, JournalIdle DEF AbandonTurn
<1>4. CASE UndoTurn
  BY <1>4, JournalUndo
<1>5. ASSUME NEW cutoff, NEW plugin, CheckpointManual(cutoff, plugin)
      PROVE  Journal(saved', files', aux_marks', aux_log')
  BY <1>0, <1>5, LiveFilesKept, JournalIdle DEF CheckpointManual, WriteCheckpoint
<1>6. ASSUME NEW pressed, NEW cutoff, NEW plugin, CheckpointAutomatic(pressed, cutoff, plugin)
      PROVE  Journal(saved', files', aux_marks', aux_log')
  <2>1. UNCHANGED <<saved, aux>>
    BY <1>6 DEF CheckpointAutomatic, WriteCheckpoint
  <2>. QED  BY <1>0, <2>1, LiveFilesKept, JournalIdle
<1>7. CASE SaveCompaction
  BY <1>7, JournalSave
<1>8. CASE SaveCompactionFails
  BY <1>0, <1>8, LiveFilesKept, JournalIdle DEF SaveCompactionFails
<1>9. CASE RestoreLastCompaction
  BY <1>9, JournalRestore
<1>10. CASE Crash
  BY <1>0, <1>10, LiveFilesKept, JournalIdle DEF Crash
<1>11. CASE UNCHANGED vars
  BY <1>0, <1>11, LiveFilesKept, JournalIdle DEF vars, aux
<1>. QED  BY <1>1, <1>2, <1>3, <1>4, <1>5, <1>6, <1>7, <1>8, <1>9, <1>10, <1>11 DEF Next

\* The journal holds with the chain of checkpoints, in every state.
THEOREM JournalInvariant == Spec => []JournalInv
<1>1. Init => JournalInv
  BY ChainInit, JournalInit DEF JournalInv
<1>. QED  BY <1>1, JournalStep, PTL DEF Spec

\* What NothingLost says of the stretches, from their records.
LEMMA StretchIsSubSeq ==
    ASSUME NEW log \in Seq(TurnRecord), NEW from \in Nat, NEW part \in Seq(TurnRecord),
           from + Len(part) <= Len(log),
           \A i \in 1..Len(part) : part[i] = log[from + i]
    PROVE  part = SubSeq(log, from + 1, from + Len(part))
<1>1. Len(part) \in Nat /\ Len(log) \in Nat
  BY LenProperties
<1>2. \A i \in from + 1..from + Len(part) : log[i] \in TurnRecord
  BY <1>1, ElementOfSeq
<1>3. /\ SubSeq(log, from + 1, from + Len(part)) \in Seq(TurnRecord)
      /\ Len(SubSeq(log, from + 1, from + Len(part))) = Len(part)
      /\ \A i \in 1..Len(part) : SubSeq(log, from + 1, from + Len(part))[i] = log[from + i]
  BY <1>1, <1>2, SubSeqProperties
<1>. QED  BY <1>3, SeqEqual

\* Compaction, restore, undo, failed saves and crashes lose no record that was
\* committed and not undone.
THEOREM NothingIsLost == Spec => []NothingLost
<1>1. JournalInv => NothingLost
  <2>. SUFFICES ASSUME JournalInv PROVE NothingLost
    OBVIOUS
  <2>0. TypeInv /\ ChainInv /\ Journal(saved, files, aux_marks, aux_log)
    BY DEF JournalInv, ChainInv
  <2>1. /\ EvictedCount = Gone(saved, aux_log) /\ EvictedCount \in Nat
        /\ EvictedCount = Len(aux_log) - Len(saved.history)
    BY <2>0 DEF Journal, EvictedCount, Gone
  <2>2. saved.history = SubSeq(aux_log, EvictedCount + 1, Len(aux_log))
    <3>1. /\ saved.history \in Seq(TurnRecord) /\ aux_log \in Seq(TurnRecord)
          /\ EvictedCount + Len(saved.history) = Len(aux_log) /\ Len(aux_log) \in Nat
      BY <2>0, <2>1, JournalTypes
    <3>2. \A i \in 1..Len(saved.history) : saved.history[i] = aux_log[EvictedCount + i]
      BY <2>0, <2>1 DEF Journal
    <3>3. saved.history = SubSeq(aux_log, EvictedCount + 1, EvictedCount + Len(saved.history))
      <4>1. EvictedCount + Len(saved.history) <= Len(aux_log)
        BY <3>1
      <4>. QED  BY <2>1, <3>1, <3>2, <4>1, StretchIsSubSeq
    <3>. QED  BY <3>1, <3>3
  <2>3. ASSUME NEW k \in 1..Len(saved.stack)
        PROVE  LET Evicted(j) == files[saved.stack[j].id].evicted
                   E(j) == aux_marks[j].from + Len(Evicted(j))
               IN  /\ aux_marks[k].from = (IF k = 1 THEN 0 ELSE E(k - 1))
                   /\ Evicted(k) = SubSeq(aux_log, aux_marks[k].from + 1, E(k))
                   /\ k = Len(saved.stack) => E(k) = EvictedCount
    <3>1. Covers(saved, files, aux_marks, aux_log, k)
      BY <2>0 DEF Journal
    <3>2. k = Len(saved.stack) => EndOf(saved, files, aux_marks, k) = EvictedCount
      BY <2>0, <2>1 DEF Journal
    <3>3. FileOf(saved, files, k).evicted
            = SubSeq(aux_log, aux_marks[k].from + 1, EndOf(saved, files, aux_marks, k))
      <4>1. FileOf(saved, files, k).evicted \in Seq(TurnRecord)
            /\ Len(FileOf(saved, files, k).evicted) \in Nat
        BY <2>0, KeptFileType
      <4>2. aux_log \in Seq(TurnRecord) /\ Len(aux_log) \in Nat /\ Len(saved.history) \in Nat
        BY <2>0, JournalTypes
      <4>3. aux_marks[k].from + Len(FileOf(saved, files, k).evicted) <= Len(aux_log)
        BY <2>1, <3>1, <4>1, <4>2 DEF Covers, EndOf
      <4>4. FileOf(saved, files, k).evicted
              = SubSeq(aux_log, aux_marks[k].from + 1,
                       aux_marks[k].from + Len(FileOf(saved, files, k).evicted))
        BY <3>1, <4>1, <4>2, <4>3, StretchIsSubSeq DEF Covers
      <4>. QED  BY <4>4 DEF EndOf
    <3>. QED  BY <3>1, <3>2, <3>3 DEF Covers, FileOf, EndOf
  <2>4. /\ Len(aux_marks) = Len(saved.stack)
        /\ Len(saved.stack) = 0 => EvictedCount = 0
    BY <2>0, <2>1 DEF Journal
  <2>5. EvictedCount >= 0
    BY <2>1
  <2>. QED  BY <2>2, <2>3, <2>4, <2>5, Zenon DEF NothingLost
<1>. QED  BY <1>1, JournalInvariant, PTL

\* The summary covers exactly the beats that are no longer in the live history.
THEOREM SummaryIsExact == Spec => []SummaryCoversEvicted
<1>1. JournalInv => SummaryCoversEvicted
  BY DEF JournalInv, Journal, SummaryCoversEvicted, Covered, EvictedCount, Gone
<1>. QED  BY <1>1, JournalInvariant, PTL

-----------------------------------------------------------------------------
(* The order of the history, which every comparison of turn numbers relies on *)

SameBeat(a, b) == a.turn = b.turn /\ a.tick = b.tick
EarlierBeat(a, b) == a.turn < b.turn /\ a.tick < b.tick

\* A history at a clock: turn numbers and clock anchors grow together.
Ordered(h, tick) ==
    /\ \A i \in 1..Len(h) : h[i].tick < tick /\ h[i].turn >= 1
    /\ \A i, j \in 1..Len(h) : i < j => SameBeat(h[i], h[j]) \/ EarlierBeat(h[i], h[j])

\* A checkpoint took whole turns, at least one, and kept at least one, from a
\* history that was in order.
FileInOrder(c) ==
    /\ Len(c.evicted) > 0 /\ Len(c.history_after) > 0
    /\ \A i \in 1..Len(c.evicted) : c.evicted[i].turn >= 1
    /\ \A i, j \in 1..Len(c.evicted) : i < j =>
          SameBeat(c.evicted[i], c.evicted[j]) \/ EarlierBeat(c.evicted[i], c.evicted[j])
    /\ \A i \in 1..Len(c.evicted), j \in 1..Len(c.history_after) :
          EarlierBeat(c.evicted[i], c.history_after[j])
    /\ c.max_turn = c.history_after[Len(c.history_after)].turn
    /\ c.summary_after = c.summary_before \cup {c.evicted[i].tick : i \in 1..Len(c.evicted)}

FilesInOrder == \A id \in 1..Len(files) : FileInOrder(files[id])

OrderInv == JournalInv /\ Ordered(saved.history, saved.tick) /\ FilesInOrder

\* The turn and the clock of a record are numbers.
LEMMA RecordParts ==
    ASSUME NEW h \in Seq(TurnRecord)
    PROVE  /\ Len(h) \in Nat /\ DOMAIN h = 1..Len(h)
           /\ \A i \in 1..Len(h) : h[i] \in TurnRecord /\ h[i].turn \in Nat /\ h[i].tick \in Nat
<1>1. \A i \in 1..Len(h) : h[i] \in TurnRecord
  BY ElementOfSeq
<1>. QED  BY <1>1, LenProperties DEF TurnRecord

\* What is given out next is later than every turn of the history.
LEMMA NextTurnIsNew ==
    ASSUME NEW h \in Seq(TurnRecord), NEW tick, Ordered(h, tick)
    PROVE  /\ next_turn_number(h) \in Nat /\ next_turn_number(h) >= 1
           /\ \A i \in 1..Len(h) : h[i].turn < next_turn_number(h)
<1>1. Len(h) \in Nat
  BY RecordParts
<1>2. \A i \in 1..Len(h) : h[i].turn \in Nat
  BY RecordParts
<1>3. CASE h = <<>>
  BY <1>3 DEF next_turn_number
<1>4. CASE h # <<>>
  <2>1. Len(h) \in 1..Len(h)
    BY <1>1, <1>4, EmptySeq
  <2>2. next_turn_number(h) = h[Len(h)].turn + 1
    BY <1>4 DEF next_turn_number, Newest
  <2>3. \A i \in 1..Len(h) : h[i].turn <= h[Len(h)].turn
    <3>1. ASSUME NEW i \in 1..Len(h) PROVE h[i].turn <= h[Len(h)].turn
      <4>1. CASE i = Len(h)
        BY <1>2, <4>1
      <4>2. CASE i # Len(h)
        <5>1. i < Len(h)
          BY <1>1, <4>2
        <5>. QED  BY <1>2, <2>1, <5>1 DEF Ordered, SameBeat, EarlierBeat
      <4>. QED  BY <4>1, <4>2
    <3>. QED  BY <3>1
  <2>. QED  BY <1>2, <2>1, <2>2, <2>3
<1>. QED  BY <1>3, <1>4

\* Before there is a turn everything is in order.
LEMMA OrderInit == Init => Ordered(saved.history, saved.tick) /\ FilesInOrder
<1>. SUFFICES ASSUME Init PROVE Ordered(saved.history, saved.tick) /\ FilesInOrder
  OBVIOUS
<1>1. saved.history = <<>> /\ files = <<>>
  BY DEF Init
<1>2. Len(saved.history) = 0 /\ Len(files) = 0
  BY <1>1, EmptySeq
<1>. QED  BY <1>2 DEF Ordered, FilesInOrder

\* Records of one beat after a history in order leave it in order.
LEMMA OrderAppend ==
    ASSUME NEW h \in Seq(TurnRecord), NEW added \in Seq(TurnRecord),
           NEW tick \in Nat, NEW later \in Nat, tick < later, Ordered(h, tick),
           NEW turn \in Nat, turn >= 1, \A i \in 1..Len(h) : h[i].turn < turn,
           \A i \in 1..Len(added) : added[i].turn = turn /\ added[i].tick = tick
    PROVE  Ordered(h \o added, later)
<1>. DEFINE g == h \o added
<1>1. /\ Len(h) \in Nat /\ Len(added) \in Nat /\ Len(g) = Len(h) + Len(added)
      /\ \A i \in 1..Len(h) + Len(added) :
            g[i] = IF i <= Len(h) THEN h[i] ELSE added[i - Len(h)]
  BY ConcatProperties, LenProperties
<1>2. \A i \in 1..Len(h) : h[i].tick \in Nat /\ h[i].turn \in Nat
  BY RecordParts
<1>. HIDE DEF g
<1>3. \A i \in 1..Len(g) : \/ i \in 1..Len(h) /\ g[i] = h[i]
                           \/ i > Len(h) /\ g[i].turn = turn /\ g[i].tick = tick
  <2>. SUFFICES ASSUME NEW i \in 1..Len(g), ~(i <= Len(h))
                PROVE  i > Len(h) /\ g[i].turn = turn /\ g[i].tick = tick
    BY <1>1
  <2>1. i - Len(h) \in 1..Len(added) /\ i > Len(h)
    BY <1>1
  <2>2. g[i] = added[i - Len(h)]
    BY <1>1
  <2>. QED  BY <2>1, <2>2
<1>4. \A i \in 1..Len(h) : h[i].tick < tick /\ h[i].turn >= 1
  BY DEF Ordered
<1>5. \A i \in 1..Len(g) : g[i].tick < later /\ g[i].turn >= 1
  BY <1>2, <1>3, <1>4
<1>6. ASSUME NEW i \in 1..Len(g), NEW j \in 1..Len(g), i < j
      PROVE  SameBeat(g[i], g[j]) \/ EarlierBeat(g[i], g[j])
  <2>1. CASE j \in 1..Len(h) /\ g[j] = h[j]
    <3>1. i \in 1..Len(h) /\ g[i] = h[i]
      BY <1>1, <1>3, <1>6, <2>1
    <3>. QED  BY <1>6, <2>1, <3>1 DEF Ordered
  <2>2. CASE j > Len(h) /\ g[j].turn = turn /\ g[j].tick = tick
    <3>1. CASE i \in 1..Len(h) /\ g[i] = h[i]
      BY <1>4, <2>2, <3>1 DEF EarlierBeat
    <3>2. CASE g[i].turn = turn /\ g[i].tick = tick
      BY <2>2, <3>2 DEF SameBeat
    <3>. QED  BY <1>3, <3>1, <3>2
  <2>. QED  BY <1>3, <2>1, <2>2
<1>. QED  BY <1>5, <1>6 DEF Ordered, g

\* A beat comes after everything in the history, under the next turn number.
LEMMA OrderCommit ==
    ASSUME OrderInv, NEW beat \in Beats, NEW again \in BOOLEAN, CommitBeat(beat, again)
    PROVE  Ordered(saved'.history, saved'.tick)
<1>1. TypeInv /\ Ordered(saved.history, saved.tick) /\ saved \in GameState
  BY JournalTypes DEF OrderInv, JournalInv, ChainInv
<1>2. PICK added \in Seq(TurnRecord) :
        /\ saved' = [saved EXCEPT !.history = saved.history \o added,
                                  !.tick = ClockAfter(saved.tick, beat),
                                  !.scene = beat.scene, !.plugin = beat.plugin,
                                  !.revision = saved.revision + 1]
        /\ OfOneBeat(added)
  BY <1>1, BeatRecords
<1>3. /\ saved.history \in Seq(TurnRecord) /\ saved.tick \in Nat /\ beat.ticks \in Nat
  BY <1>1, BeatAssumption DEF GameState
<1>4. /\ saved'.history = saved.history \o added
      /\ saved'.tick > saved.tick /\ saved'.tick \in Nat
  BY <1>1, <1>2, <1>3 DEF GameState, ClockAfter
<1>. DEFINE turn == next_turn_number(saved.history)
<1>5. turn \in Nat /\ turn >= 1 /\ \A i \in 1..Len(saved.history) : saved.history[i].turn < turn
  BY <1>1, <1>3, NextTurnIsNew
<1>6. \A i \in 1..Len(added) : added[i].turn = turn /\ added[i].tick = saved.tick
  BY <1>2 DEF OfOneBeat
<1>. HIDE DEF turn
<1>7. Ordered(saved.history \o added, saved'.tick)
  BY <1>1, <1>3, <1>4, <1>5, <1>6, OrderAppend
<1>. QED  BY <1>4, <1>7

\* The first n records of a history in order are one, at the clock of the next one
\* when that begins another turn.
LEMMA OrderPrefix ==
    ASSUME NEW h \in Seq(TurnRecord), NEW tick \in Nat, Ordered(h, tick),
           NEW n \in 0..Len(h)-1, BeforeLastTurn(h, n)
    PROVE  Ordered(SubSeq(h, 1, n), h[n + 1].tick)
<1>. DEFINE g == SubSeq(h, 1, n)
<1>1. /\ Len(h) \in Nat /\ n \in Nat /\ n + 1 \in 1..Len(h)
      /\ \A i \in 1..Len(h) : h[i] \in TurnRecord /\ h[i].turn \in Nat /\ h[i].tick \in Nat
  BY RecordParts
<1>2. Len(g) = n /\ \A i \in 1..n : g[i] = h[i]
  BY <1>1, SubSeqProperties
<1>3. h[n + 1].turn = Newest(h).turn /\ (n > 0 => h[n].turn # Newest(h).turn)
  BY <1>1 DEF BeforeLastTurn
<1>. HIDE DEF g
<1>4. ASSUME NEW i \in 1..n PROVE h[i].tick < h[n + 1].tick
  <2>1. n \in 1..Len(h) /\ n < n + 1 /\ h[n].turn # h[n + 1].turn
    BY <1>1, <1>3
  <2>2. EarlierBeat(h[n], h[n + 1])
    BY <1>1, <2>1 DEF Ordered, SameBeat
  <2>3. h[i].tick <= h[n].tick
    <3>1. CASE i = n
      BY <1>1, <2>1, <3>1
    <3>2. CASE i # n
      <4>1. i \in 1..Len(h) /\ i < n
        BY <1>1, <3>2
      <4>2. SameBeat(h[i], h[n]) \/ EarlierBeat(h[i], h[n])
        BY <2>1, <4>1 DEF Ordered
      <4>. QED  BY <1>1, <2>1, <4>1, <4>2 DEF SameBeat, EarlierBeat
    <3>. QED  BY <3>1, <3>2
  <2>4. h[i].tick \in Nat /\ h[n].tick \in Nat /\ h[n + 1].tick \in Nat
    BY <1>1, <2>1
  <2>. QED  BY <2>2, <2>3, <2>4 DEF EarlierBeat
<1>5. \A i \in 1..n : i \in 1..Len(h)
  BY <1>1
<1>. QED  BY <1>2, <1>4, <1>5 DEF Ordered, g

\* What is left after the first n records is in order too.
LEMMA OrderSuffix ==
    ASSUME NEW h \in Seq(TurnRecord), NEW tick, Ordered(h, tick), NEW n \in 0..Len(h)
    PROVE  Ordered(SubSeq(h, n + 1, Len(h)), tick)
<1>. DEFINE g == SubSeq(h, n + 1, Len(h))
<1>1. /\ Len(h) \in Nat /\ n \in Nat /\ n <= Len(h)
      /\ \A i \in 1..Len(h) : h[i] \in TurnRecord
  BY RecordParts
<1>2. Len(g) = Len(h) - n /\ \A i \in 1..Len(h) - n : g[i] = h[n + i]
  <2>1. \A i \in n + 1..Len(h) : h[i] \in TurnRecord
    BY <1>1
  <2>2. /\ Len(g) = IF n + 1 <= Len(h) THEN Len(h) - (n + 1) + 1 ELSE 0
        /\ \A i \in 1..Len(h) - (n + 1) + 1 : g[i] = h[(n + 1) + i - 1]
    BY <1>1, <2>1, SubSeqProperties
  <2>. HIDE DEF g
  <2>3. \A i \in 1..Len(h) - n : (n + 1) + i - 1 = n + i
    BY <1>1
  <2>4. Len(h) - (n + 1) + 1 = Len(h) - n /\ (~(n + 1 <= Len(h)) => Len(h) - n = 0)
    BY <1>1
  <2>5. Len(g) = Len(h) - n
    BY <2>2, <2>4
  <2>. QED  BY <2>2, <2>3, <2>4, <2>5
<1>. HIDE DEF g
<1>3. ASSUME NEW i \in 1..Len(g) PROVE n + i \in 1..Len(h) /\ g[i] = h[n + i]
  BY <1>1, <1>2
<1>4. \A i \in 1..Len(g) : g[i].tick < tick /\ g[i].turn >= 1
  BY <1>3 DEF Ordered
<1>5. ASSUME NEW i \in 1..Len(g), NEW j \in 1..Len(g), i < j
      PROVE  SameBeat(g[i], g[j]) \/ EarlierBeat(g[i], g[j])
  <2>1. n + i < n + j
    BY <1>1, <1>2, <1>5
  <2>. QED  BY <1>3, <2>1 DEF Ordered
<1>. QED  BY <1>4, <1>5 DEF Ordered, g

\* A split by turn number takes whole beats.
LEMMA SplitIsClean ==
    ASSUME NEW h \in Seq(TurnRecord), NEW tick, Ordered(h, tick),
           NEW n \in 0..Len(h), NEW cutoff \in Nat, Splits(h, n, cutoff)
    PROVE  \A i \in 1..n, j \in n + 1..Len(h) : EarlierBeat(h[i], h[j])
<1>1. /\ Len(h) \in Nat /\ n \in Nat /\ DOMAIN h = 1..Len(h)
      /\ \A i \in 1..Len(h) : h[i].turn \in Nat
  BY RecordParts
<1>. SUFFICES ASSUME NEW i \in 1..n, NEW j \in n + 1..Len(h) PROVE EarlierBeat(h[i], h[j])
  OBVIOUS
<1>2. i \in 1..Len(h) /\ j \in 1..Len(h) /\ i < j /\ i <= n /\ ~(j <= n)
  BY <1>1
<1>3. h[i].turn < cutoff /\ ~(h[j].turn < cutoff)
  BY <1>1, <1>2 DEF Splits
<1>4. h[i].turn # h[j].turn
  BY <1>1, <1>2, <1>3
<1>. QED  BY <1>2, <1>4 DEF Ordered, SameBeat

\* The session's turn numbers are finitely many.
LEMMA TurnsAreFinite ==
    ASSUME NEW h \in Seq(TurnRecord), NEW tick, Ordered(h, tick)
    PROVE  Cardinality(TurnNumbers(h)) \in Nat /\ TurnNumbers(h) \in SUBSET Nat
<1>1. /\ DOMAIN h = 1..Len(h) /\ \A i \in 1..Len(h) : h[i].turn \in Nat
      /\ next_turn_number(h) \in Nat /\ \A i \in 1..Len(h) : h[i].turn < next_turn_number(h)
  BY RecordParts, NextTurnIsNew
<1>2. TurnNumbers(h) \in SUBSET Nat /\ \A t \in TurnNumbers(h) : t <= next_turn_number(h)
  BY <1>1 DEF TurnNumbers
<1>3. IsFiniteSet(TurnNumbers(h))
  BY <1>1, <1>2, FS_BoundedSetOfNaturals
<1>. QED  BY <1>2, <1>3, FS_CardinalityType

\* More turns than are kept: a compaction takes at least one record.
LEMMA SomethingIsEvicted ==
    ASSUME OrderInv, NEW keep, NEW cutoff \in TurnNumbers(saved.history), NEW plugin,
           WriteCheckpoint(keep, cutoff, plugin), Splits(saved.history, 0, cutoff)
    PROVE  FALSE
<1>. DEFINE h == saved.history
<1>1. h \in Seq(TurnRecord) /\ Ordered(h, saved.tick)
  BY JournalTypes DEF OrderInv, JournalInv, ChainInv
<1>2. DOMAIN h = 1..Len(h) /\ \A i \in 1..Len(h) : h[i].turn \in Nat
  BY <1>1, RecordParts
<1>3. Cardinality(TurnNumbers(h)) \in Nat /\ cutoff \in Nat
  BY <1>1, TurnsAreFinite
<1>4. {t \in TurnNumbers(h) : t >= cutoff} = TurnNumbers(h)
  BY <1>2, <1>3 DEF Splits, TurnNumbers
<1>5. Cardinality(TurnNumbers(h)) > keep /\ Cardinality({t \in TurnNumbers(h) : t >= cutoff}) = keep
  BY DEF WriteCheckpoint
<1>. QED  BY <1>3, <1>4, <1>5

\* What a compaction of at least one whole turn writes is a checkpoint in order.
LEMMA NewFileInOrder ==
    ASSUME OrderInv, NEW n \in 1..Len(saved.history)-1, NEW cutoff \in Nat,
           Splits(saved.history, n, cutoff), NEW plugin
    PROVE  FileInOrder(CheckpointOf(n, plugin))
<1>. DEFINE h == saved.history
            c == CheckpointOf(n, plugin)
            before == SubSeq(h, 1, n)
            after == SubSeq(h, n + 1, Len(h))
<1>1. h \in Seq(TurnRecord) /\ Ordered(h, saved.tick)
  BY JournalTypes DEF OrderInv, JournalInv, ChainInv
<1>2. /\ Len(h) \in Nat /\ n \in Nat /\ n \in 0..Len(h)
      /\ \A i \in 1..Len(h) : h[i] \in TurnRecord
  BY <1>1, RecordParts
<1>3. Len(before) = n /\ \A i \in 1..n : before[i] = h[i]
  BY <1>2, SubSeqProperties
<1>4. Len(after) = Len(h) - n /\ \A i \in 1..Len(h) - n : after[i] = h[n + i]
  <2>1. \A i \in n + 1..Len(h) : h[i] \in TurnRecord
    BY <1>2
  <2>2. /\ Len(after) = IF n + 1 <= Len(h) THEN Len(h) - (n + 1) + 1 ELSE 0
        /\ \A i \in 1..Len(h) - (n + 1) + 1 : after[i] = h[(n + 1) + i - 1]
    BY <1>2, <2>1, SubSeqProperties
  <2>. HIDE DEF after
  <2>3. /\ \A i \in 1..Len(h) - n : (n + 1) + i - 1 = n + i
        /\ Len(h) - (n + 1) + 1 = Len(h) - n /\ n + 1 <= Len(h)
    BY <1>2
  <2>. QED  BY <2>2, <2>3
<1>5. /\ c.evicted = before /\ c.history_after = after /\ c.max_turn = Newest(h).turn
      /\ c.summary_before = saved.summary /\ c.summary_after = SummaryOf(n)
  BY DEF CheckpointOf
<1>6. DOMAIN before = 1..n
  BY <1>2, <1>3, SubSeqProperties, LenProperties
<1>7. SummaryOf(n) = saved.summary \cup {before[i].tick : i \in 1..n}
  BY <1>6 DEF SummaryOf
<1>8. \A i \in 1..n, j \in n + 1..Len(h) : EarlierBeat(h[i], h[j])
  BY <1>1, <1>2, SplitIsClean
<1>. HIDE DEF c, before, after
<1>9. Len(before) > 0 /\ Len(after) > 0 /\ after[Len(after)] = Newest(h)
  <2>1. Len(h) - n \in 1..Len(h) - n /\ n + (Len(h) - n) = Len(h)
    BY <1>2
  <2>. QED  BY <1>2, <1>3, <1>4, <2>1 DEF Newest
<1>10. \A i \in 1..n : before[i].turn >= 1
  BY <1>1, <1>2, <1>3 DEF Ordered
<1>11. \A i, j \in 1..n : i < j => SameBeat(before[i], before[j]) \/ EarlierBeat(before[i], before[j])
  BY <1>1, <1>2, <1>3 DEF Ordered
<1>12. ASSUME NEW i \in 1..n, NEW j \in 1..Len(after) PROVE EarlierBeat(before[i], after[j])
  <2>1. n + j \in n + 1..Len(h) /\ after[j] = h[n + j]
    BY <1>2, <1>4
  <2>. QED  BY <1>3, <1>8, <2>1
<1>. QED  BY <1>3, <1>5, <1>7, <1>9, <1>10, <1>11, <1>12 DEF FileInOrder, c

\* The files in order stay so when a compaction writes the next one.
LEMMA FilesWritten ==
    ASSUME OrderInv, NEW keep, NEW cutoff \in TurnNumbers(saved.history),
           NEW plugin \in PluginStates, WriteCheckpoint(keep, cutoff, plugin)
    PROVE  FilesInOrder'
<1>1. TypeInv /\ saved.history \in Seq(TurnRecord) /\ Ordered(saved.history, saved.tick)
  BY JournalTypes DEF OrderInv, JournalInv, ChainInv
<1>2. PICK n \in 0..Len(saved.history)-1 :
        /\ Splits(saved.history, n, cutoff)
        /\ files' = WithFile(Len(files) + 1, CheckpointOf(n, plugin))
  BY <1>1, CheckpointWritten
<1>3. n # 0
  BY <1>2, SomethingIsEvicted
<1>4. CheckpointOf(n, plugin) \in Checkpoint
  BY <1>1, NewCheckpointType
<1>5. cutoff \in Nat /\ Len(saved.history) \in Nat
  BY <1>1, RecordParts, TurnsAreFinite
<1>6. FileInOrder(CheckpointOf(n, plugin))
  BY <1>2, <1>3, <1>5, NewFileInOrder
<1>7. files \in Seq(Checkpoint) /\ Len(files) \in Nat
  BY <1>1, JournalTypes
<1>. DEFINE c == CheckpointOf(n, plugin)
<1>. HIDE DEF c
<1>8. /\ Len(files') = Len(files) + 1 /\ files'[Len(files) + 1] = c
      /\ \A id \in 1..Len(files) : files'[id] = files[id]
  BY <1>2, <1>4, <1>7, WithFileAppends DEF c
<1>9. ASSUME NEW id \in 1..Len(files') PROVE FileInOrder(files'[id])
  <2>1. CASE id = Len(files) + 1
    BY <1>6, <1>8, <2>1 DEF c
  <2>2. CASE id # Len(files) + 1
    <3>1. id \in 1..Len(files)
      BY <1>7, <1>8, <2>2
    <3>. QED  BY <1>8, <3>1 DEF OrderInv, FilesInOrder
  <2>. QED  BY <2>1, <2>2
<1>. QED  BY <1>9 DEF FilesInOrder

\* A compaction saves the end of a history in order.
LEMMA OrderSave ==
    ASSUME OrderInv, SaveCompaction
    PROVE  Ordered(saved'.history, saved'.tick)
<1>1. ChainInv /\ saved.history \in Seq(TurnRecord) /\ Ordered(saved.history, saved.tick)
  BY JournalTypes DEF OrderInv, JournalInv, ChainInv
<1>2. PICK n \in 0..Len(saved.history)-1, plugin \in PluginStates :
        draft = DraftOf(n, plugin, Len(files))
  BY <1>1 DEF ChainInv, DraftIsCompaction, SaveCompaction
<1>3. /\ saved'.history = SubSeq(saved.history, n + 1, Len(saved.history))
      /\ saved'.tick = saved.tick
  BY <1>2 DEF SaveCompaction, DraftOf
<1>4. n \in 0..Len(saved.history)
  BY <1>1, RecordParts
<1>. QED  BY <1>1, <1>3, <1>4, OrderSuffix

\* The records a restore puts in front are earlier than what the compaction kept,
\* which the history still begins with.
LEMMA OrderRestore ==
    ASSUME OrderInv, RestoreLastCompaction
    PROVE  Ordered(saved'.history, saved'.tick)
<1>. DEFINE checkpoint == files[Newest(saved.stack).id]
<1>1. /\ TypeInv /\ saved.history \in Seq(TurnRecord) /\ Ordered(saved.history, saved.tick)
      /\ saved \in GameState /\ files \in Seq(Checkpoint)
  BY JournalTypes DEF OrderInv, JournalInv, ChainInv
<1>2. checkpoint \in Checkpoint /\ Newest(saved.stack).id \in DOMAIN files
  BY <1>1, RestoredHistory
<1>3. PICK n \in 0..Len(saved.history), plugin \in PluginStates :
        /\ RestoreAccepts(saved, n)
        /\ saved' = [saved EXCEPT !.history = checkpoint.evicted \o saved.history,
                                  !.summary = checkpoint.summary_before,
                                  !.plugin = plugin,
                                  !.stack = SubSeq(saved.stack, 1, Len(saved.stack) - 1),
                                  !.revision = saved.revision + 1]
  BY <1>1, RestoredHistory
<1>4. saved'.history = checkpoint.evicted \o saved.history /\ saved'.tick = saved.tick
  BY <1>1, <1>3 DEF GameState
<1>5. FileInOrder(checkpoint)
  BY <1>1, <1>2, LenProperties DEF OrderInv, FilesInOrder
<1>. DEFINE h == saved.history
            e == checkpoint.evicted
            kept == checkpoint.history_after
            g == e \o h
<1>6. SubSeq(h, 1, n) = kept
  BY <1>3 DEF RestoreAccepts
<1>7. e \in Seq(TurnRecord) /\ h \in Seq(TurnRecord)
  BY <1>1, <1>2 DEF Checkpoint
<1>. HIDE DEF checkpoint
<1>8. /\ Len(h) \in Nat /\ Len(e) \in Nat /\ n \in Nat /\ n <= Len(h)
      /\ \A i \in 1..Len(h) : h[i] \in TurnRecord /\ h[i].turn \in Nat /\ h[i].tick \in Nat
      /\ \A i \in 1..Len(e) : e[i].turn \in Nat /\ e[i].tick \in Nat
  BY <1>7, RecordParts
<1>9. Len(kept) = n /\ \A i \in 1..n : kept[i] = h[i]
  BY <1>6, <1>8, SubSeqProperties
<1>10. /\ Len(g) = Len(e) + Len(h)
       /\ \A i \in 1..Len(e) + Len(h) : g[i] = IF i <= Len(e) THEN e[i] ELSE h[i - Len(e)]
  BY <1>7, ConcatProperties
<1>. HIDE DEF h, e, kept, g
<1>11. n > 0
  BY <1>5, <1>9 DEF FileInOrder, kept
<1>12. \A i \in 1..Len(g) : \/ i \in 1..Len(e) /\ g[i] = e[i]
                            \/ i > Len(e) /\ i - Len(e) \in 1..Len(h) /\ g[i] = h[i - Len(e)]
  BY <1>8, <1>10
<1>13. ASSUME NEW i \in 1..Len(e), NEW j \in 1..Len(h) PROVE EarlierBeat(e[i], h[j])
  <2>1. EarlierBeat(e[i], h[1])
    <3>1. 1 \in 1..n
      BY <1>8, <1>11
    <3>2. EarlierBeat(e[i], kept[1])
      BY <1>5, <1>9, <3>1 DEF FileInOrder, e, kept
    <3>. QED  BY <1>9, <3>1, <3>2
  <2>2. CASE j = 1
    BY <2>1, <2>2
  <2>3. CASE j # 1
    <3>1. 1 \in 1..Len(h) /\ 1 < j
      BY <1>8, <2>3
    <3>2. SameBeat(h[1], h[j]) \/ EarlierBeat(h[1], h[j])
      BY <1>1, <3>1 DEF Ordered, h
    <3>3. /\ e[i].turn \in Nat /\ e[i].tick \in Nat /\ h[1].turn \in Nat /\ h[1].tick \in Nat
          /\ h[j].turn \in Nat /\ h[j].tick \in Nat
      BY <1>8, <3>1
    <3>. QED  BY <2>1, <3>2, <3>3 DEF SameBeat, EarlierBeat
  <2>. QED  BY <2>2, <2>3
<1>14. saved.tick \in Nat /\ \A i \in 1..Len(h) : h[i].tick < saved.tick /\ h[i].turn >= 1
  BY <1>1 DEF Ordered, h, GameState
<1>15. \A i \in 1..Len(e) : e[i].tick < saved.tick /\ e[i].turn >= 1
  <2>1. 1 \in 1..Len(h)
    BY <1>8, <1>11
  <2>2. \A i \in 1..Len(e) : e[i].turn >= 1
    BY <1>5 DEF FileInOrder, e
  <2>3. \A i \in 1..Len(e) : e[i].tick < h[1].tick
    BY <1>13, <2>1 DEF EarlierBeat
  <2>. QED  BY <1>8, <1>14, <2>1, <2>2, <2>3
<1>16. \A i \in 1..Len(g) : g[i].tick < saved.tick /\ g[i].turn >= 1
  BY <1>12, <1>14, <1>15
<1>17. ASSUME NEW i \in 1..Len(g), NEW j \in 1..Len(g), i < j
       PROVE  SameBeat(g[i], g[j]) \/ EarlierBeat(g[i], g[j])
  <2>1. CASE j \in 1..Len(e) /\ g[j] = e[j]
    <3>1. i \in 1..Len(e) /\ g[i] = e[i]
      BY <1>8, <1>12, <1>17, <2>1
    <3>. QED  BY <1>5, <1>17, <2>1, <3>1 DEF FileInOrder, e
  <2>2. CASE j > Len(e) /\ j - Len(e) \in 1..Len(h) /\ g[j] = h[j - Len(e)]
    <3>1. CASE i \in 1..Len(e) /\ g[i] = e[i]
      BY <1>13, <2>2, <3>1
    <3>2. CASE i > Len(e) /\ i - Len(e) \in 1..Len(h) /\ g[i] = h[i - Len(e)]
      <4>1. i - Len(e) < j - Len(e)
        BY <1>8, <1>17
      <4>. QED  BY <1>1, <2>2, <3>2, <4>1 DEF Ordered, h
    <3>. QED  BY <1>12, <3>1, <3>2
  <2>. QED  BY <1>12, <2>1, <2>2
<1>18. Ordered(g, saved.tick)
  BY <1>16, <1>17 DEF Ordered
<1>. QED  BY <1>4, <1>18 DEF g, e, h

\* An undo takes the last turn off and returns to the clock it started from.
LEMMA OrderUndo ==
    ASSUME OrderInv, UndoTurn
    PROVE  Ordered(saved'.history, saved'.tick)
<1>1. /\ saved.history \in Seq(TurnRecord) /\ Ordered(saved.history, saved.tick)
      /\ saved \in GameState /\ saved.tick \in Nat
  BY JournalTypes DEF OrderInv, JournalInv, ChainInv, GameState
<1>2. PICK n \in 0..Len(saved.history)-1 :
        /\ BeforeLastTurn(saved.history, n)
        /\ saved' = [saved EXCEPT !.history = SubSeq(@, 1, n),
                                  !.scene = RestorePoint(saved.history, n).scene,
                                  !.plugin = RestorePoint(saved.history, n).plugin,
                                  !.tick = RestorePoint(saved.history, n).tick,
                                  !.revision = @ + 1]
  BY Zenon DEF UndoTurn
<1>3. /\ saved'.history = SubSeq(saved.history, 1, n)
      /\ saved'.tick = saved.history[n + 1].tick
  BY <1>1, <1>2 DEF GameState, RestorePoint
<1>. QED  BY <1>1, <1>2, <1>3, OrderPrefix

\* Every step keeps the history and the checkpoints in order.
LEMMA OrderStep ==
    ASSUME OrderInv, [Next]_vars
    PROVE  OrderInv'
<1>0. JournalInv' /\ TypeInv
  BY JournalStep DEF OrderInv, JournalInv, ChainInv
<1>. SUFFICES Ordered(saved'.history, saved'.tick) /\ FilesInOrder'
  BY <1>0 DEF OrderInv
<1>. DEFINE Goal == Ordered(saved'.history, saved'.tick) /\ FilesInOrder'
<1>1. ASSUME UNCHANGED <<saved, files>> PROVE Goal
  BY <1>1 DEF OrderInv, FilesInOrder
<1>2. ASSUME UNCHANGED files PROVE FilesInOrder'
  BY <1>2 DEF OrderInv, FilesInOrder
<1>3. CASE BeginTurn
  BY <1>1, <1>3 DEF BeginTurn
<1>4. ASSUME NEW beat \in Beats, NEW again \in BOOLEAN, CommitBeat(beat, again) PROVE Goal
  <2>1. UNCHANGED files
    BY <1>4 DEF CommitBeat
  <2>. QED  BY <1>2, <1>4, <2>1, OrderCommit
<1>5. CASE AbandonTurn
  BY <1>1, <1>5 DEF AbandonTurn
<1>6. CASE UndoTurn
  <2>1. UNCHANGED files
    BY <1>6 DEF UndoTurn
  <2>. QED  BY <1>2, <1>6, <2>1, OrderUndo
<1>7. ASSUME NEW keep, NEW cutoff \in TurnNumbers(saved.history), NEW plugin \in PluginStates,
             WriteCheckpoint(keep, cutoff, plugin)
      PROVE  Goal
  <2>1. UNCHANGED saved
    BY <1>7 DEF WriteCheckpoint
  <2>. QED  BY <1>7, <2>1, FilesWritten DEF OrderInv
<1>8. ASSUME NEW cutoff \in TurnNumbers(saved.history), NEW plugin \in PluginStates,
             CheckpointManual(cutoff, plugin)
      PROVE  Goal
  <2>. HIDE DEF Goal
  <2>. QED  BY <1>7, <1>8 DEF CheckpointManual
<1>9. ASSUME NEW pressed \in BOOLEAN, NEW cutoff \in TurnNumbers(saved.history),
             NEW plugin \in PluginStates, CheckpointAutomatic(pressed, cutoff, plugin)
      PROVE  Goal
  <2>1. PICK keep : WriteCheckpoint(keep, cutoff, plugin)
    BY <1>9 DEF CheckpointAutomatic
  <2>. HIDE DEF Goal
  <2>. QED  BY <1>7, <2>1
<1>10. CASE SaveCompaction
  <2>1. UNCHANGED files
    BY <1>10 DEF SaveCompaction
  <2>. QED  BY <1>2, <1>10, <2>1, OrderSave
<1>11. CASE SaveCompactionFails
  <2>1. UNCHANGED saved
    BY <1>11 DEF SaveCompactionFails
  <2>2. files' = WithoutFile(Len(files)) /\ Len(files) > 0 /\ files \in Seq(Checkpoint)
    BY <1>0, <1>11, FailedSaveRemovesNewest, JournalTypes
  <2>3. /\ Len(files') = Len(files) - 1 /\ Len(files) \in Nat
        /\ \A id \in 1..Len(files) - 1 : files'[id] = files[id]
    BY <2>2, WithoutFileShortens, LenProperties
  <2>4. \A id \in 1..Len(files') : FileInOrder(files'[id])
    BY <2>3 DEF OrderInv, FilesInOrder
  <2>. QED  BY <2>1, <2>4 DEF OrderInv, FilesInOrder
<1>12. CASE RestoreLastCompaction
  <2>1. UNCHANGED files
    BY <1>12 DEF RestoreLastCompaction
  <2>. QED  BY <1>2, <1>12, <2>1, OrderRestore
<1>13. CASE Crash
  BY <1>1, <1>13 DEF Crash
<1>14. CASE UNCHANGED vars
  BY <1>1, <1>14 DEF vars
<1>. QED  BY <1>3, <1>4, <1>5, <1>6, <1>8, <1>9, <1>10, <1>11, <1>12, <1>13, <1>14 DEF Next

\* The live history and every checkpoint stay in order.
THEOREM OrderInvariant == Spec => []OrderInv
<1>1. Init => OrderInv
  BY ChainInit, JournalInit, OrderInit DEF OrderInv, JournalInv
<1>. QED  BY <1>1, OrderStep, PTL DEF Spec

\* Turn numbers are handed out from whatever is live, and still a history is in
\* turn order and in the order of its clock, before the clock shown now.
THEOREM InOrder == Spec => []HistoryInOrder
<1>1. OrderInv => HistoryInOrder
  <2>. SUFFICES ASSUME OrderInv PROVE HistoryInOrder
    OBVIOUS
  <2>1. Ordered(saved.history, saved.tick) /\ DOMAIN saved.history = 1..Len(saved.history)
    BY JournalTypes, RecordParts DEF OrderInv, JournalInv, ChainInv
  <2>. QED  BY <2>1 DEF HistoryInOrder, Ordered, SameBeat, EarlierBeat
<1>. QED  BY <1>1, OrderInvariant, PTL

-----------------------------------------------------------------------------
(* What the newest compaction kept is still there, unless it was undone *)

\* While no turn that the k-th compaction kept has been undone, they stand in the
\* log after what it evicted, and what follows them is another turn.
KeptMark(g, fs, marks, log, k) ==
    LET kept == FileOf(g, fs, k).history_after
        upto == marks[k].upto
    IN  marks[k].intact =>
          /\ upto <= Len(log)
          /\ EndOf(g, fs, marks, k) + Len(kept) = upto
          /\ \A i \in 1..Len(kept) : kept[i] = log[EndOf(g, fs, marks, k) + i]
          /\ upto < Len(log) => log[upto + 1].turn # FileOf(g, fs, k).max_turn

Kept(g, fs, marks, log) == \A k \in 1..Len(g.stack) : KeptMark(g, fs, marks, log, k)

RestoreInv == OrderInv /\ Kept(saved, files, aux_marks, aux_log)

\* The file of a compaction on the stack, and its stretch of the log.
LEMMA MarkTypes ==
    ASSUME OrderInv, NEW k \in 1..Len(saved.stack)
    PROVE  /\ EndOf(saved, files, aux_marks, k) \in Nat
           /\ FileOf(saved, files, k) \in Checkpoint /\ FileInOrder(FileOf(saved, files, k))
           /\ FileOf(saved, files, k).history_after \in Seq(TurnRecord)
           /\ Len(FileOf(saved, files, k).history_after) \in Nat \ {0}
           /\ aux_marks[k] \in Mark /\ aux_marks[k].upto \in Nat
<1>1. ChainInv /\ TypeInv /\ Journal(saved, files, aux_marks, aux_log)
  BY DEF OrderInv, JournalInv, ChainInv
<1>2. Covers(saved, files, aux_marks, aux_log, k) /\ k \in 1..Len(aux_marks)
  BY <1>1 DEF Journal
<1>3. /\ saved.stack[k].id \in 1..Len(files) /\ FileOf(saved, files, k) \in Checkpoint
      /\ Len(FileOf(saved, files, k).evicted) \in Nat
  BY <1>1, KeptFileType
<1>4. EndOf(saved, files, aux_marks, k) \in Nat
  BY <1>2, <1>3 DEF Covers, EndOf
<1>5. FileInOrder(FileOf(saved, files, k))
  BY <1>3 DEF OrderInv, FilesInOrder, FileOf
<1>6. FileOf(saved, files, k).history_after \in Seq(TurnRecord)
  BY <1>3 DEF Checkpoint
<1>7. Len(FileOf(saved, files, k).history_after) \in Nat \ {0}
  BY <1>5, <1>6, LenProperties DEF FileInOrder
<1>8. aux_marks[k] \in Mark
  BY <1>1, <1>2, JournalTypes, ElementOfSeq
<1>. QED  BY <1>3, <1>4, <1>5, <1>6, <1>7, <1>8 DEF Mark

\* A step that leaves the entry and its file alone, and the log up to where the
\* compaction found its end.
LEMMA MarkKept ==
    ASSUME NEW g, NEW fs, NEW marks, NEW log, NEW k, KeptMark(g, fs, marks, log, k),
           NEW g2, NEW fs2, NEW marks2, NEW log2,
           EndOf(g, fs, marks, k) \in Nat,
           Len(FileOf(g, fs, k).history_after) \in Nat, marks[k].upto \in Nat,
           FileOf(g2, fs2, k) = FileOf(g, fs, k),
           marks2[k].from = marks[k].from, marks2[k].upto = marks[k].upto,
           marks2[k].intact =>
             /\ marks[k].intact /\ marks[k].upto <= Len(log2)
             /\ \A i \in 1..marks[k].upto : log2[i] = log[i]
             /\ marks[k].upto < Len(log2) =>
                  log2[marks[k].upto + 1].turn # FileOf(g, fs, k).max_turn
    PROVE  KeptMark(g2, fs2, marks2, log2, k)
<1>. SUFFICES ASSUME marks2[k].intact PROVE KeptMark(g2, fs2, marks2, log2, k)
  BY DEF KeptMark
<1>. DEFINE kept == FileOf(g, fs, k).history_after
            end == EndOf(g, fs, marks, k)
            upto == marks[k].upto
<1>1. /\ upto <= Len(log2) /\ \A i \in 1..upto : log2[i] = log[i]
      /\ upto < Len(log2) => log2[upto + 1].turn # FileOf(g, fs, k).max_turn
      /\ end + Len(kept) = upto /\ \A i \in 1..Len(kept) : kept[i] = log[end + i]
  BY DEF KeptMark
<1>2. EndOf(g2, fs2, marks2, k) = end
  BY DEF EndOf
<1>3. end \in Nat /\ Len(kept) \in Nat /\ upto \in Nat
  OBVIOUS
<1>. HIDE DEF end, kept, upto
<1>4. ASSUME NEW i \in 1..Len(kept) PROVE kept[i] = log2[end + i]
  <2>1. end + i \in 1..upto
    BY <1>1, <1>3
  <2>. QED  BY <1>1, <2>1
<1>. QED  BY <1>1, <1>2, <1>4 DEF KeptMark, kept, upto

\* A step that leaves the session and the files of its stack alone.
LEMMA KeptIdle ==
    ASSUME RestoreInv, UNCHANGED <<saved, aux>>,
           \A k \in 1..Len(saved.stack) : files'[saved.stack[k].id] = files[saved.stack[k].id]
    PROVE  Kept(saved', files', aux_marks', aux_log')
<1>1. saved' = saved /\ aux_marks' = aux_marks /\ aux_log' = aux_log
  BY DEF aux
<1>2. ASSUME NEW k \in 1..Len(saved.stack)
      PROVE  KeptMark(saved', files', aux_marks', aux_log', k)
  <2>1. FileOf(saved', files', k) = FileOf(saved, files, k)
    BY <1>1 DEF FileOf
  <2>2. KeptMark(saved, files, aux_marks, aux_log, k)
    BY DEF RestoreInv, Kept
  <2>. QED  BY <1>1, <2>1, <2>2 DEF KeptMark, EndOf
<1>. QED  BY <1>1, <1>2 DEF Kept

\* The last record a compaction kept is of the last turn it kept, and that is not
\* the first turn of the session.
LEMMA LastKept ==
    ASSUME OrderInv, NEW k \in 1..Len(saved.stack),
           KeptMark(saved, files, aux_marks, aux_log, k), aux_marks[k].intact
    PROVE  /\ FileOf(saved, files, k).max_turn \in Nat /\ FileOf(saved, files, k).max_turn > 1
           /\ aux_log[aux_marks[k].upto].turn = FileOf(saved, files, k).max_turn
<1>. DEFINE c == FileOf(saved, files, k)
            e == c.evicted
            kept == c.history_after
<1>1. /\ FileInOrder(c) /\ e \in Seq(TurnRecord) /\ kept \in Seq(TurnRecord)
      /\ Len(kept) \in Nat \ {0} /\ EndOf(saved, files, aux_marks, k) \in Nat
      /\ aux_marks[k].upto \in Nat
  BY MarkTypes DEF Checkpoint
<1>2. /\ EndOf(saved, files, aux_marks, k) + Len(kept) = aux_marks[k].upto
      /\ \A i \in 1..Len(kept) : kept[i] = aux_log[EndOf(saved, files, aux_marks, k) + i]
  BY DEF KeptMark
<1>3. /\ Len(e) > 0 /\ c.max_turn = kept[Len(kept)].turn
      /\ \A i \in 1..Len(e) : e[i].turn >= 1
      /\ \A i \in 1..Len(e), j \in 1..Len(kept) : EarlierBeat(e[i], kept[j])
  BY <1>1 DEF FileInOrder
<1>. HIDE DEF c, e, kept
<1>4. Len(e) \in Nat /\ 1 \in 1..Len(e) /\ Len(kept) \in 1..Len(kept)
  BY <1>1, <1>3, RecordParts
<1>5. e[1].turn \in Nat /\ kept[Len(kept)].turn \in Nat
  BY <1>1, <1>4, RecordParts
<1>6. e[1].turn < kept[Len(kept)].turn
  BY <1>3, <1>4 DEF EarlierBeat
<1>7. kept[Len(kept)] = aux_log[aux_marks[k].upto]
  BY <1>2, <1>4
<1>. QED  BY <1>3, <1>4, <1>5, <1>6, <1>7 DEF c

\* A beat goes behind what every compaction kept, as another turn than the last.
LEMMA KeptCommit ==
    ASSUME RestoreInv, NEW beat \in Beats, NEW again \in BOOLEAN, CommitBeat(beat, again)
    PROVE  Kept(saved', files', aux_marks', aux_log')
<1>1. /\ OrderInv /\ TypeInv /\ Journal(saved, files, aux_marks, aux_log)
      /\ saved \in GameState /\ saved.history \in Seq(TurnRecord) /\ Len(saved.history) \in Nat
      /\ Ordered(saved.history, saved.tick)
      /\ aux_log \in Seq(TurnRecord) /\ Len(aux_log) \in Nat
      /\ Gone(saved, aux_log) = Len(aux_log) - Len(saved.history)
  BY JournalTypes DEF RestoreInv, OrderInv, JournalInv, ChainInv
<1>2. PICK added \in Seq(TurnRecord) :
        /\ saved' = [saved EXCEPT !.history = saved.history \o added,
                                  !.tick = ClockAfter(saved.tick, beat),
                                  !.scene = beat.scene, !.plugin = beat.plugin,
                                  !.revision = saved.revision + 1]
        /\ aux_log' = aux_log \o added
        /\ OfOneBeat(added)
  BY <1>1, BeatRecords
<1>3. saved'.stack = saved.stack /\ files' = files /\ aux_marks' = aux_marks
  BY <1>1, <1>2 DEF GameState, CommitBeat
<1>4. /\ Len(added) \in Nat /\ Len(aux_log') = Len(aux_log) + Len(added)
      /\ \A i \in 1..Len(aux_log) + Len(added) :
            aux_log'[i] = IF i <= Len(aux_log) THEN aux_log[i] ELSE added[i - Len(aux_log)]
  BY <1>1, <1>2, ConcatProperties, LenProperties
<1>5. \A i \in 1..Len(added) : added[i].turn = next_turn_number(saved.history)
  BY <1>2 DEF OfOneBeat
<1>6. ASSUME NEW k \in 1..Len(saved.stack)
      PROVE  KeptMark(saved', files', aux_marks', aux_log', k)
  <2>. DEFINE upto == aux_marks[k].upto
              max_turn == FileOf(saved, files, k).max_turn
  <2>1. /\ KeptMark(saved, files, aux_marks, aux_log, k)
        /\ FileOf(saved', files', k) = FileOf(saved, files, k)
        /\ upto \in Nat
    BY <1>1, <1>3, MarkTypes DEF RestoreInv, Kept, FileOf
  <2>2. ASSUME aux_marks[k].intact
        PROVE  /\ upto <= Len(aux_log') /\ \A i \in 1..upto : aux_log'[i] = aux_log[i]
               /\ upto < Len(aux_log') => aux_log'[upto + 1].turn # max_turn
    <3>1. upto <= Len(aux_log) /\ (upto < Len(aux_log) => aux_log[upto + 1].turn # max_turn)
      BY <2>1, <2>2 DEF KeptMark
    <3>2. max_turn \in Nat /\ max_turn > 1 /\ aux_log[upto].turn = max_turn
      BY <1>1, <2>1, <2>2, LastKept
    <3>. HIDE DEF upto, max_turn
    <3>3. upto <= Len(aux_log') /\ \A i \in 1..upto : aux_log'[i] = aux_log[i]
      BY <1>1, <1>4, <2>1, <3>1
    <3>4. CASE upto < Len(aux_log)
      BY <1>1, <1>4, <2>1, <3>1, <3>3, <3>4
    <3>5. CASE upto = Len(aux_log) /\ upto < Len(aux_log')
      <4>1. aux_log'[upto + 1].turn = next_turn_number(saved.history)
        <5>1. 1 \in 1..Len(added) /\ upto + 1 \in 1..Len(aux_log) + Len(added)
              /\ upto + 1 - Len(aux_log) = 1 /\ ~(upto + 1 <= Len(aux_log))
          BY <1>1, <1>4, <3>5
        <5>. QED  BY <1>4, <1>5, <5>1
      <4>2. next_turn_number(saved.history) = 1 \/ next_turn_number(saved.history) = max_turn + 1
        <5>1. CASE saved.history = <<>>
          BY <5>1 DEF next_turn_number
        <5>2. CASE saved.history # <<>>
          <6>1. Len(saved.history) \in 1..Len(saved.history)
            BY <1>1, <5>2, EmptySeq
          <6>2. Newest(saved.history) = aux_log[Len(aux_log)]
            <7>1. Gone(saved, aux_log) + Len(saved.history) = Len(aux_log)
              BY <1>1
            <7>. QED  BY <1>1, <6>1, <7>1 DEF Journal, Newest
          <6>3. Newest(saved.history).turn = max_turn
            BY <3>2, <3>5, <6>2
          <6>. QED  BY <5>2, <6>3 DEF next_turn_number
        <5>. QED  BY <5>1, <5>2
      <4>3. aux_log'[upto + 1].turn # max_turn
        BY <3>2, <4>1, <4>2
      <4>. QED  BY <3>3, <4>3
    <3>6. upto < Len(aux_log) \/ upto = Len(aux_log)
      BY <1>1, <2>1, <3>1
    <3>. QED  BY <3>3, <3>4, <3>5, <3>6
  <2>. QED  BY <1>1, <1>3, <2>1, <2>2, MarkTypes, MarkKept
<1>. QED  BY <1>3, <1>6 DEF Kept

\* An undo that reaches into what a compaction kept marks it as no longer intact.
LEMMA KeptUndo ==
    ASSUME RestoreInv, UndoTurn
    PROVE  Kept(saved', files', aux_marks', aux_log')
<1>1. /\ OrderInv /\ TypeInv /\ Journal(saved, files, aux_marks, aux_log)
      /\ saved \in GameState /\ Len(saved.history) \in Nat
      /\ aux_log \in Seq(TurnRecord) /\ Len(aux_log) \in Nat
      /\ aux_marks \in Seq(Mark) /\ Len(aux_marks) = Len(saved.stack)
      /\ Gone(saved, aux_log) \in Nat
      /\ Gone(saved, aux_log) = Len(aux_log) - Len(saved.history)
  BY JournalTypes DEF RestoreInv, OrderInv, JournalInv, ChainInv, Journal
<1>2. PICK n \in 0..Len(saved.history)-1 :
        /\ saved' = [saved EXCEPT !.history = SubSeq(@, 1, n),
                                  !.scene = RestorePoint(saved.history, n).scene,
                                  !.plugin = RestorePoint(saved.history, n).plugin,
                                  !.tick = RestorePoint(saved.history, n).tick,
                                  !.revision = @ + 1]
        /\ LET left == Len(aux_log) - (Len(saved.history) - n)
           IN  /\ aux_log' = SubSeq(aux_log, 1, left)
               /\ aux_marks' = [k \in DOMAIN aux_marks |->
                      [aux_marks[k] EXCEPT !.intact = @ /\ aux_marks[k].upto <= left]]
  BY Zenon DEF UndoTurn
<1>. DEFINE left == Len(aux_log) - (Len(saved.history) - n)
<1>3. left \in Nat /\ left <= Len(aux_log)
  BY <1>1
<1>4. aux_log' = SubSeq(aux_log, 1, left)
  BY <1>2
<1>5. saved'.stack = saved.stack /\ files' = files
  BY <1>1, <1>2 DEF GameState, UndoTurn
<1>6. ASSUME NEW k \in 1..Len(saved.stack)
      PROVE  aux_marks'[k] = [aux_marks[k] EXCEPT !.intact = @ /\ aux_marks[k].upto <= left]
  <2>1. k \in DOMAIN aux_marks
    BY <1>1, LenProperties
  <2>. QED  BY <1>2, <2>1
<1>. HIDE DEF left
<1>7. Len(aux_log') = left /\ \A i \in 1..left : aux_log'[i] = aux_log[i]
  BY <1>1, <1>3, <1>4, ElementOfSeq, SubSeqProperties
<1>8. ASSUME NEW k \in 1..Len(saved.stack)
      PROVE  KeptMark(saved', files', aux_marks', aux_log', k)
  <2>1. /\ aux_marks[k] \in Mark /\ aux_marks[k].upto \in Nat
        /\ EndOf(saved, files, aux_marks, k) \in Nat
        /\ Len(FileOf(saved, files, k).history_after) \in Nat
    BY <1>1, MarkTypes
  <2>2. /\ aux_marks'[k].from = aux_marks[k].from /\ aux_marks'[k].upto = aux_marks[k].upto
        /\ aux_marks'[k].intact => aux_marks[k].intact /\ aux_marks[k].upto <= left
    BY <1>6, <2>1 DEF Mark
  <2>3. KeptMark(saved, files, aux_marks, aux_log, k)
    BY DEF RestoreInv, Kept
  <2>4. FileOf(saved', files', k) = FileOf(saved, files, k)
    BY <1>5 DEF FileOf
  <2>5. ASSUME aux_marks'[k].intact
        PROVE  /\ aux_marks[k].intact /\ aux_marks[k].upto <= Len(aux_log')
               /\ \A i \in 1..aux_marks[k].upto : aux_log'[i] = aux_log[i]
               /\ aux_marks[k].upto < Len(aux_log') =>
                    aux_log'[aux_marks[k].upto + 1].turn # FileOf(saved, files, k).max_turn
    <3>1. aux_marks[k].intact /\ aux_marks[k].upto <= left
      BY <2>2, <2>5
    <3>2. \A i \in 1..aux_marks[k].upto : aux_log'[i] = aux_log[i]
      BY <1>3, <1>7, <2>1, <3>1
    <3>3. ASSUME aux_marks[k].upto < left
          PROVE  aux_log'[aux_marks[k].upto + 1].turn # FileOf(saved, files, k).max_turn
      <4>1. /\ aux_marks[k].upto + 1 \in 1..left /\ aux_marks[k].upto < Len(aux_log)
        BY <1>1, <1>3, <2>1, <3>3
      <4>2. aux_log[aux_marks[k].upto + 1].turn # FileOf(saved, files, k).max_turn
        BY <2>3, <3>1, <4>1 DEF KeptMark
      <4>. QED  BY <1>7, <4>1, <4>2
    <3>. QED  BY <1>7, <3>1, <3>2, <3>3
  <2>. QED  BY <2>1, <2>2, <2>3, <2>4, <2>5, MarkKept
<1>. QED  BY <1>5, <1>8 DEF Kept

\* A compaction keeps everything that is live from where its own stretch ends.
LEMMA KeptSave ==
    ASSUME RestoreInv, SaveCompaction
    PROVE  Kept(saved', files', aux_marks', aux_log')
<1>1. /\ OrderInv /\ ChainInv /\ op.stage = "saving"
      /\ Journal(saved, files, aux_marks, aux_log)
      /\ saved.history \in Seq(TurnRecord) /\ Len(saved.history) \in Nat
      /\ aux_log \in Seq(TurnRecord) /\ Len(aux_log) \in Nat
      /\ saved.stack \in Seq(StackEntry) /\ Len(saved.stack) \in Nat
      /\ aux_marks \in Seq(Mark) /\ Len(aux_marks) = Len(saved.stack)
      /\ Gone(saved, aux_log) \in Nat
      /\ Gone(saved, aux_log) = Len(aux_log) - Len(saved.history)
  BY JournalTypes DEF RestoreInv, OrderInv, JournalInv, ChainInv, SaveCompaction, Journal
<1>2. PICK n \in 0..Len(saved.history)-1, plugin \in PluginStates :
        /\ files[Len(files)] = CheckpointOf(n, plugin)
        /\ draft = DraftOf(n, plugin, Len(files))
  BY <1>1 DEF ChainInv, DraftIsCompaction
<1>. DEFINE entry == [id |-> Len(files), parent |-> ParentId(saved.stack)]
            mark == [from |-> Len(aux_log) - Len(saved.history),
                     upto |-> Len(aux_log), intact |-> TRUE]
            new == files[Len(files)]
            top == Len(saved.stack) + 1
<1>3. /\ saved'.stack = Append(saved.stack, entry)
      /\ aux_marks' = Append(aux_marks, mark)
      /\ files' = files /\ aux_log' = aux_log
  BY <1>2 DEF SaveCompaction, DraftOf
<1>4. /\ new.evicted = SubSeq(saved.history, 1, n)
      /\ new.history_after = SubSeq(saved.history, n + 1, Len(saved.history))
  BY <1>2 DEF CheckpointOf
<1>5. /\ Len(new.evicted) = n /\ Len(new.history_after) = Len(saved.history) - n
      /\ \A i \in 1..Len(saved.history) - n : new.history_after[i] = saved.history[n + i]
  <2>1. \A i \in 1..Len(saved.history) : saved.history[i] \in TurnRecord
    BY <1>1, ElementOfSeq
  <2>2. Len(SubSeq(saved.history, 1, n)) = n
    <3>1. \A i \in 1..n : saved.history[i] \in TurnRecord
      BY <1>1, <2>1
    <3>. QED  BY <1>1, <3>1, SubSeqProperties
  <2>3. /\ Len(SubSeq(saved.history, n + 1, Len(saved.history))) =
               IF n + 1 <= Len(saved.history) THEN Len(saved.history) - (n + 1) + 1 ELSE 0
        /\ \A i \in 1..Len(saved.history) - (n + 1) + 1 :
              SubSeq(saved.history, n + 1, Len(saved.history))[i] = saved.history[(n + 1) + i - 1]
    <3>1. \A i \in n + 1..Len(saved.history) : saved.history[i] \in TurnRecord
      BY <1>1, <2>1
    <3>. QED  BY <1>1, <3>1, SubSeqProperties
  <2>4. /\ \A i \in 1..Len(saved.history) - n : (n + 1) + i - 1 = n + i
        /\ Len(saved.history) - (n + 1) + 1 = Len(saved.history) - n /\ n + 1 <= Len(saved.history)
    BY <1>1
  <2>. QED  BY <1>4, <2>2, <2>3, <2>4
<1>6. mark.from = Gone(saved, aux_log) /\ mark.upto = Len(aux_log) /\ mark.intact
  BY <1>1
<1>7. entry.id = Len(files)
  OBVIOUS
<1>. HIDE DEF entry, mark, new
<1>8. /\ Len(saved'.stack) = top /\ saved'.stack[top] = entry
      /\ \A k \in 1..Len(saved.stack) : saved'.stack[k] = saved.stack[k]
  BY <1>1, <1>3, AppendProperties
<1>9. /\ aux_marks'[top] = mark /\ \A k \in 1..Len(saved.stack) : aux_marks'[k] = aux_marks[k]
  BY <1>1, <1>3, AppendProperties
<1>10. KeptMark(saved', files', aux_marks', aux_log', top)
  <2>1. FileOf(saved', files', top) = new
    BY <1>3, <1>7, <1>8 DEF FileOf, new
  <2>2. EndOf(saved', files', aux_marks', top) = Gone(saved, aux_log) + n
    BY <1>5, <1>6, <1>9, <2>1 DEF EndOf
  <2>3. Gone(saved, aux_log) + n + (Len(saved.history) - n) = Len(aux_log)
    BY <1>1
  <2>4. ASSUME NEW i \in 1..Len(saved.history) - n
        PROVE  new.history_after[i] = aux_log[Gone(saved, aux_log) + n + i]
    <3>1. n + i \in 1..Len(saved.history) /\ Gone(saved, aux_log) + (n + i) = Gone(saved, aux_log) + n + i
      BY <1>1
    <3>2. saved.history[n + i] = aux_log[Gone(saved, aux_log) + (n + i)]
      BY <1>1, <3>1 DEF Journal
    <3>. QED  BY <1>5, <3>1, <3>2
  <2>5. /\ aux_marks'[top].upto = Len(aux_log') /\ Len(aux_log') \in Nat
        /\ EndOf(saved', files', aux_marks', top) + Len(new.history_after) = Len(aux_log')
    BY <1>1, <1>3, <1>5, <1>6, <1>9, <2>2, <2>3
  <2>6. \A i \in 1..Len(new.history_after) :
           new.history_after[i] = aux_log'[EndOf(saved', files', aux_marks', top) + i]
    BY <1>3, <1>5, <2>2, <2>4
  <2>7. Len(aux_log') <= Len(aux_log') /\ ~(Len(aux_log') < Len(aux_log'))
    BY <2>5
  <2>. HIDE DEF top
  <2>. QED  BY <2>1, <2>5, <2>6, <2>7, Zenon DEF KeptMark
<1>11. ASSUME NEW k \in 1..Len(saved.stack)
       PROVE  KeptMark(saved', files', aux_marks', aux_log', k)
  <2>1. FileOf(saved', files', k) = FileOf(saved, files, k) /\ aux_marks'[k] = aux_marks[k]
    BY <1>3, <1>8, <1>9 DEF FileOf
  <2>2. KeptMark(saved, files, aux_marks, aux_log, k)
    BY DEF RestoreInv, Kept
  <2>. QED  BY <1>3, <2>1, <2>2 DEF KeptMark, EndOf
<1>12. \A k \in 1..Len(saved'.stack) : k = top \/ k \in 1..Len(saved.stack)
  BY <1>1, <1>8
<1>. QED  BY <1>10, <1>11, <1>12 DEF Kept

\* A restore takes the newest compaction and its mark away.
LEMMA KeptRestore ==
    ASSUME RestoreInv, RestoreLastCompaction
    PROVE  Kept(saved', files', aux_marks', aux_log')
<1>1. /\ TypeInv /\ saved \in GameState /\ saved.stack # <<>>
      /\ saved.stack \in Seq(StackEntry) /\ Len(saved.stack) \in Nat
      /\ aux_marks \in Seq(Mark) /\ Len(aux_marks) = Len(saved.stack)
  BY JournalTypes, RestoredHistory
     DEF RestoreInv, OrderInv, JournalInv, ChainInv, Journal
<1>2. saved'.stack = SubSeq(saved.stack, 1, Len(saved.stack) - 1)
  <2>1. PICK plugin \in PluginStates :
          saved' = [saved EXCEPT !.history = files[Newest(saved.stack).id].evicted \o saved.history,
                                 !.summary = files[Newest(saved.stack).id].summary_before,
                                 !.plugin = plugin,
                                 !.stack = SubSeq(saved.stack, 1, Len(saved.stack) - 1),
                                 !.revision = saved.revision + 1]
    BY <1>1, RestoredHistory
  <2>. QED  BY <1>1, <2>1 DEF GameState
<1>3. /\ files' = files /\ aux_log' = aux_log
      /\ aux_marks' = SubSeq(aux_marks, 1, Len(aux_marks) - 1)
  BY DEF RestoreLastCompaction
<1>4. Len(saved.stack) > 0
  BY <1>1, EmptySeq
<1>5. /\ Len(saved'.stack) = Len(saved.stack) - 1
      /\ \A k \in 1..Len(saved.stack) - 1 : saved'.stack[k] = saved.stack[k]
  BY <1>1, <1>2, <1>4, ElementOfSeq, SubSeqProperties
<1>6. \A k \in 1..Len(saved.stack) - 1 : aux_marks'[k] = aux_marks[k]
  BY <1>1, <1>3, <1>4, ElementOfSeq, SubSeqProperties
<1>7. ASSUME NEW k \in 1..Len(saved.stack) - 1
      PROVE  KeptMark(saved', files', aux_marks', aux_log', k)
  <2>1. FileOf(saved', files', k) = FileOf(saved, files, k) /\ aux_marks'[k] = aux_marks[k]
    BY <1>3, <1>5, <1>6 DEF FileOf
  <2>2. KeptMark(saved, files, aux_marks, aux_log, k)
    <3>1. k \in 1..Len(saved.stack)
      BY <1>1
    <3>. QED  BY <3>1 DEF RestoreInv, Kept
  <2>. QED  BY <1>3, <2>1, <2>2 DEF KeptMark, EndOf
<1>. QED  BY <1>5, <1>7 DEF Kept

\* Every step keeps what the compactions kept, or marks that it does not.
LEMMA RestoreStep ==
    ASSUME RestoreInv, [Next]_vars
    PROVE  RestoreInv'
<1>0. ChainInv /\ OrderInv'
  BY OrderStep DEF RestoreInv, OrderInv, JournalInv
<1>. SUFFICES Kept(saved', files', aux_marks', aux_log')
  BY <1>0 DEF RestoreInv
<1>1. ASSUME UNCHANGED <<saved, aux>> PROVE Kept(saved', files', aux_marks', aux_log')
  BY <1>0, <1>1, LiveFilesKept, KeptIdle
<1>2. CASE BeginTurn
  BY <1>1, <1>2 DEF BeginTurn
<1>3. ASSUME NEW beat \in Beats, NEW again \in BOOLEAN, CommitBeat(beat, again)
      PROVE  Kept(saved', files', aux_marks', aux_log')
  BY <1>3, KeptCommit
<1>4. CASE AbandonTurn
  BY <1>1, <1>4 DEF AbandonTurn
<1>5. CASE UndoTurn
  BY <1>5, KeptUndo
<1>6. ASSUME NEW cutoff, NEW plugin, CheckpointManual(cutoff, plugin)
      PROVE  Kept(saved', files', aux_marks', aux_log')
  <2>1. UNCHANGED <<saved, aux>>
    BY <1>6 DEF CheckpointManual, WriteCheckpoint
  <2>. QED  BY <1>1, <2>1
<1>7. ASSUME NEW pressed, NEW cutoff, NEW plugin, CheckpointAutomatic(pressed, cutoff, plugin)
      PROVE  Kept(saved', files', aux_marks', aux_log')
  <2>1. UNCHANGED <<saved, aux>>
    BY <1>7 DEF CheckpointAutomatic, WriteCheckpoint
  <2>. QED  BY <1>1, <2>1
<1>8. CASE SaveCompaction
  BY <1>8, KeptSave
<1>9. CASE SaveCompactionFails
  BY <1>1, <1>9 DEF SaveCompactionFails
<1>10. CASE RestoreLastCompaction
  BY <1>10, KeptRestore
<1>11. CASE Crash
  BY <1>1, <1>11 DEF Crash
<1>12. CASE UNCHANGED vars
  BY <1>1, <1>12 DEF vars, aux
<1>. QED  BY <1>2, <1>3, <1>4, <1>5, <1>6, <1>7, <1>8, <1>9, <1>10, <1>11, <1>12 DEF Next

\* The marks say rightly what of each compaction is still there.
THEOREM RestoreInvariant == Spec => []RestoreInv
<1>1. Init => RestoreInv
  <2>1. Init => OrderInv
    BY ChainInit, JournalInit, OrderInit DEF OrderInv, JournalInv
  <2>2. ASSUME Init PROVE Kept(saved, files, aux_marks, aux_log)
    <3>1. Len(saved.stack) = 0
      BY <2>2 DEF Init
    <3>. QED  BY <3>1 DEF Kept
  <2>. QED  BY <2>1, <2>2 DEF RestoreInv
<1>. QED  BY <1>1, RestoreStep, PTL DEF Spec

\* The number of live records that are not later than a turn, when a history in
\* order has n up to it and another turn follows.
LEMMA SplitAt ==
    ASSUME NEW h \in Seq(TurnRecord), NEW tick, Ordered(h, tick), NEW n \in 1..Len(h),
           n < Len(h) => h[n + 1].turn # h[n].turn
    PROVE  NotLater(h, n, h[n].turn)
<1>1. /\ Len(h) \in Nat /\ n \in Nat /\ DOMAIN h = 1..Len(h)
      /\ \A i \in 1..Len(h) : h[i].turn \in Nat /\ h[i].tick \in Nat
  BY RecordParts
<1>2. \A i, j \in 1..Len(h) : i < j => h[i].turn <= h[j].turn
  BY <1>1 DEF Ordered, SameBeat, EarlierBeat
<1>3. ASSUME NEW i \in 1..Len(h), i <= n PROVE h[i].turn < h[n].turn + 1
  <2>1. CASE i = n
    BY <1>1, <2>1
  <2>2. CASE i # n
    <3>1. i < n
      BY <1>1, <1>3, <2>2
    <3>2. h[i].turn <= h[n].turn
      BY <1>2, <3>1
    <3>. QED  BY <1>1, <3>2
  <2>. QED  BY <2>1, <2>2
<1>4. ASSUME NEW i \in 1..Len(h), ~(i <= n) PROVE ~(h[i].turn < h[n].turn + 1)
  <2>1. n + 1 \in 1..Len(h) /\ n < Len(h) /\ n < n + 1
    BY <1>1, <1>4
  <2>2. h[n].turn < h[n + 1].turn
    BY <1>1, <2>1 DEF Ordered, SameBeat, EarlierBeat
  <2>3. h[n + 1].turn <= h[i].turn
    <3>1. CASE i = n + 1
      BY <1>1, <2>1, <3>1
    <3>2. CASE i # n + 1
      <4>1. n + 1 < i
        BY <1>1, <1>4, <3>2
      <4>. QED  BY <1>2, <2>1, <4>1
    <3>. QED  BY <3>1, <3>2
  <2>. QED  BY <1>1, <2>1, <2>2, <2>3
<1>. QED  BY <1>1, <1>3, <1>4 DEF NotLater, Splits

\* While no turn that the newest compaction kept has been undone, its restore is
\* accepted, whatever was played, compacted or restored since.
THEOREM RestorePossible == Spec => []RestoreStaysPossible
<1>1. RestoreInv => RestoreStaysPossible
  <2>. DEFINE h == saved.history
              depth == Len(saved.stack)
              c == FileOf(saved, files, depth)
              kept == c.history_after
              n == Len(kept)
              gone == Gone(saved, aux_log)
              upto == aux_marks[depth].upto
  <2>. SUFFICES ASSUME RestoreInv, saved.stack # <<>>, Newest(aux_marks).intact
                PROVE  \E m \in 0..Len(h) : RestoreAccepts(saved, m)
    BY DEF RestoreStaysPossible
  <2>1. /\ OrderInv /\ ChainInv /\ TypeInv /\ Journal(saved, files, aux_marks, aux_log)
        /\ h \in Seq(TurnRecord) /\ Len(h) \in Nat /\ Ordered(h, saved.tick)
        /\ aux_log \in Seq(TurnRecord) /\ Len(aux_log) \in Nat
        /\ saved.stack \in Seq(StackEntry) /\ depth \in Nat /\ Len(aux_marks) = depth
        /\ gone \in Nat /\ gone = Len(aux_log) - Len(h)
    BY JournalTypes DEF RestoreInv, OrderInv, JournalInv, ChainInv, Journal
  <2>2. depth \in 1..Len(saved.stack) /\ depth # 0 /\ aux_marks[depth].intact
    BY <2>1, EmptySeq DEF Newest
  <2>3. /\ KeptMark(saved, files, aux_marks, aux_log, depth)
        /\ FileInOrder(c) /\ kept \in Seq(TurnRecord) /\ n \in Nat \ {0} /\ upto \in Nat
    BY <2>1, <2>2, MarkTypes DEF RestoreInv, Kept
  <2>4. EndOf(saved, files, aux_marks, depth) = gone
    BY <2>1, <2>2 DEF Journal
  <2>5. c = files[Newest(saved.stack).id] /\ Newest(saved.stack) = saved.stack[depth]
    BY DEF FileOf, Newest
  <2>6. c.max_turn = aux_log[upto].turn
    BY <2>1, <2>2, <2>3, LastKept
  <2>7. Covers(saved, files, aux_marks, aux_log, depth)
    BY <2>1, <2>2 DEF Journal
  <2>8. Len(c.evicted) \in Nat
    BY <2>1, <2>2, KeptFileType
  <2>9. CheckpointChain /\ DOMAIN files = 1..Len(files)
    BY <2>1, JournalTypes, LenProperties DEF ChainInv
  <2>. HIDE DEF h, c, kept, n, gone, upto, depth
  <2>10. /\ upto <= Len(aux_log) /\ gone + n = upto
         /\ \A i \in 1..n : kept[i] = aux_log[gone + i]
         /\ upto < Len(aux_log) => aux_log[upto + 1].turn # c.max_turn
    BY <2>2, <2>3, <2>4 DEF KeptMark, c, kept, n, upto
  <2>11. n \in 1..Len(h)
    BY <2>1, <2>3, <2>10
  <2>12. \A i \in 1..Len(h) : h[i] = aux_log[gone + i]
    BY <2>1 DEF Journal, h, gone
  <2>13. SubSeq(h, 1, n) = kept
    <3>1. /\ 0 \in Nat /\ 0 + n <= Len(h) /\ 0 + 1 = 1 /\ 0 + n = n
          /\ \A i \in 1..n : 0 + i \in 1..Len(h) /\ 0 + i = i
      BY <2>1, <2>3, <2>11
    <3>2. \A i \in 1..n : kept[i] = h[0 + i]
      BY <2>10, <2>12, <3>1
    <3>3. kept = SubSeq(h, 0 + 1, 0 + n)
      BY <2>1, <2>3, <3>1, <3>2, StretchIsSubSeq DEF n
    <3>. QED  BY <3>1, <3>3
  <2>14. NotLater(h, n, c.max_turn)
    <3>1. h[n].turn = c.max_turn
      BY <2>6, <2>10, <2>11, <2>12
    <3>2. n < Len(h) => h[n + 1].turn # h[n].turn
      <4>. SUFFICES ASSUME n < Len(h) PROVE h[n + 1].turn # h[n].turn
        OBVIOUS
      <4>1. n + 1 \in 1..Len(h) /\ gone + (n + 1) = upto + 1 /\ upto < Len(aux_log)
        <5>1. /\ n \in Nat /\ gone \in Nat /\ gone + n = upto
              /\ Len(h) \in Nat /\ Len(aux_log) \in Nat /\ gone = Len(aux_log) - Len(h)
          BY <2>1, <2>3, <2>10
        <5>. QED  BY <5>1
      <4>2. h[n + 1] = aux_log[upto + 1]
        BY <2>12, <4>1
      <4>. QED  BY <2>10, <3>1, <4>1, <4>2
    <3>3. NotLater(h, n, h[n].turn)
      BY <2>1, <2>11, <3>2, SplitAt
    <3>. QED  BY <3>1, <3>3
  <2>15. saved.summary = c.summary_after
    <3>. DEFINE e == c.evicted
                from == aux_marks[depth].from
    <3>1. /\ saved.summary = Covered(aux_log, gone) /\ gone = from + Len(e)
          /\ from \in Nat /\ \A i \in 1..Len(e) : e[i] = aux_log[from + i]
          /\ c.summary_before = Covered(aux_log, from)
      BY <2>1, <2>4, <2>7 DEF Journal, Covers, EndOf, c, gone
    <3>2. c.summary_after = c.summary_before \cup Covered(e, Len(e))
      BY <2>3 DEF FileInOrder, Covered
    <3>3. Stretch(e, Len(e), aux_log, from) /\ Len(e) \in Nat /\ from \in Nat
      BY <2>8, <3>1 DEF Stretch
    <3>. HIDE DEF e, from
    <3>4. \A t : t \in Covered(aux_log, from + Len(e)) <=>
                  t \in Covered(aux_log, from) \/ t \in Covered(e, Len(e))
      BY <3>3, CoveredGrows
    <3>5. saved.summary = Covered(aux_log, from + Len(e))
      BY <3>1
    <3>. QED  BY <3>1, <3>2, <3>4, <3>5
  <2>16. /\ saved.stack[depth].id \in DOMAIN files
         /\ c.parent = (IF depth > 1 THEN saved.stack[depth - 1].id ELSE NoParent)
    BY <2>1, <2>2, <2>5, <2>9 DEF CheckpointChain, depth
  <2>17. RestoreAccepts(saved, n)
    BY <2>5, <2>13, <2>14, <2>15, <2>16 DEF RestoreAccepts, h, kept, depth
  <2>18. n \in 0..Len(h)
    BY <2>11
  <2>. QED  BY <2>17, <2>18
<1>. QED  BY <1>1, RestoreInvariant, PTL

-----------------------------------------------------------------------------
(* What an undo returns to *)

\* The player's record of a turn is stamped with what the turn started from.
Stamps(log, start) ==
    \A i \in 1..Len(log) : log[i].by = "Player" =>
        /\ log[i].scene = start[i].scene
        /\ log[i].plugin = start[i].plugin
        /\ log[i].tick = start[i].tick

StampInv == JournalInv /\ Stamps(aux_log, aux_start)

\* A beat stamps what it adds with the state it started from.
LEMMA StampCommit ==
    ASSUME TypeInv, Stamps(aux_log, aux_start),
           NEW beat \in Beats, NEW again \in BOOLEAN, CommitBeat(beat, again)
    PROVE  Stamps(aux_log', aux_start') /\ ~(Len(aux_log') < Len(aux_log))
<1>. DEFINE start == [scene |-> saved.scene, plugin |-> saved.plugin, tick |-> saved.tick]
<1>1. /\ aux_log \in Seq(TurnRecord) /\ Len(aux_log) \in Nat
      /\ aux_start \in Seq(Beginning) /\ Len(aux_start) = Len(aux_log)
      /\ start \in Beginning
  BY LenProperties DEF TypeInv, TypeOK, GameState, Beginning
<1>2. PICK added \in Seq(TurnRecord) :
        /\ aux_log' = aux_log \o added
        /\ aux_start' = aux_start \o [i \in 1..Len(added) |-> start]
        /\ OfOneBeat(added)
  BY BeatRecords
<1>. DEFINE starts == [i \in 1..Len(added) |-> start]
<1>3. Len(added) \in Nat
  BY LenProperties
<1>4. start.scene = saved.scene /\ start.plugin = saved.plugin /\ start.tick = saved.tick
  OBVIOUS
<1>. HIDE DEF start
<1>5. starts \in Seq(Beginning) /\ Len(starts) = Len(added) /\ \A i \in 1..Len(added) : starts[i] = start
  BY <1>1, <1>3
<1>. HIDE DEF starts
<1>6. /\ Len(aux_log') = Len(aux_log) + Len(added)
      /\ \A i \in 1..Len(aux_log) + Len(added) :
            aux_log'[i] = IF i <= Len(aux_log) THEN aux_log[i] ELSE added[i - Len(aux_log)]
  BY <1>1, <1>2, ConcatProperties
<1>7. \A i \in 1..Len(aux_log) + Len(added) :
         aux_start'[i] = IF i <= Len(aux_log) THEN aux_start[i] ELSE starts[i - Len(aux_log)]
  <2>1. aux_start' = aux_start \o starts
    BY <1>2 DEF starts
  <2>. QED  BY <1>1, <1>5, <2>1, ConcatProperties
<1>8. ASSUME NEW i \in 1..Len(aux_log'), aux_log'[i].by = "Player"
      PROVE  /\ aux_log'[i].scene = aux_start'[i].scene
             /\ aux_log'[i].plugin = aux_start'[i].plugin
             /\ aux_log'[i].tick = aux_start'[i].tick
  <2>1. CASE i <= Len(aux_log)
    <3>1. i \in 1..Len(aux_log) /\ aux_log'[i] = aux_log[i] /\ aux_start'[i] = aux_start[i]
      BY <1>1, <1>6, <1>7, <2>1
    <3>. QED  BY <1>8, <3>1 DEF Stamps
  <2>2. CASE ~(i <= Len(aux_log))
    <3>. DEFINE j == i - Len(aux_log)
    <3>1. j \in 1..Len(added) /\ aux_log'[i] = added[j] /\ aux_start'[i] = starts[j]
      BY <1>1, <1>3, <1>6, <1>7, <2>2
    <3>. HIDE DEF j
    <3>2. aux_start'[i] = start
      BY <1>5, <3>1
    <3>. QED  BY <1>2, <1>4, <1>8, <3>1, <3>2 DEF OfOneBeat
  <2>. QED  BY <2>1, <2>2
<1>. QED  BY <1>1, <1>3, <1>6, <1>8 DEF Stamps

\* An undo takes whole records off, and returns to what the one popped last says.
LEMMA StampUndo ==
    ASSUME StampInv, UndoTurn
    PROVE  /\ Stamps(aux_log', aux_start')
           /\ aux_log[Len(aux_log') + 1].by = "Player" =>
                /\ saved'.scene = UndoneStart.scene
                /\ saved'.plugin = UndoneStart.plugin
                /\ saved'.tick = UndoneStart.tick
<1>1. /\ TypeInv /\ saved \in GameState /\ Len(saved.history) \in Nat
      /\ aux_log \in Seq(TurnRecord) /\ Len(aux_log) \in Nat
      /\ Gone(saved, aux_log) \in Nat /\ Gone(saved, aux_log) = Len(aux_log) - Len(saved.history)
      /\ \A i \in 1..Len(saved.history) : saved.history[i] = aux_log[Gone(saved, aux_log) + i]
  BY JournalTypes DEF StampInv, JournalInv, ChainInv, Journal
<1>2. aux_start \in Seq(Beginning) /\ Len(aux_start) = Len(aux_log)
  BY <1>1 DEF TypeInv, TypeOK
<1>3. PICK n \in 0..Len(saved.history)-1 :
        /\ saved' = [saved EXCEPT !.history = SubSeq(@, 1, n),
                                  !.scene = saved.history[n + 1].scene,
                                  !.plugin = saved.history[n + 1].plugin,
                                  !.tick = saved.history[n + 1].tick,
                                  !.revision = @ + 1]
        /\ LET left == Len(aux_log) - (Len(saved.history) - n)
           IN  /\ aux_log' = SubSeq(aux_log, 1, left)
               /\ aux_start' = SubSeq(aux_start, 1, left)
  BY Zenon DEF UndoTurn, RestorePoint
<1>. DEFINE left == Len(aux_log) - (Len(saved.history) - n)
<1>4. /\ left \in Nat /\ left < Len(aux_log) /\ n + 1 \in 1..Len(saved.history)
      /\ Gone(saved, aux_log) + (n + 1) = left + 1
  <2>. DEFINE all == Len(aux_log)
              kept == Len(saved.history)
              gone == Gone(saved, aux_log)
  <2>1. all \in Nat /\ kept \in Nat /\ gone \in Nat /\ gone = all - kept
    BY <1>1
  <2>2. n \in 0..kept-1 /\ left = all - (kept - n)
    OBVIOUS
  <2>. HIDE DEF all, kept, gone, left
  <2>3. /\ left \in Nat /\ left < all /\ n + 1 \in 1..kept
        /\ gone + (n + 1) = left + 1
    BY <2>1, <2>2
  <2>. QED  BY <2>3 DEF all, kept, gone
<1>5. aux_log' = SubSeq(aux_log, 1, left) /\ aux_start' = SubSeq(aux_start, 1, left)
  BY <1>3
<1>. HIDE DEF left
<1>6. /\ Len(aux_log') = left
      /\ \A i \in 1..left : aux_log'[i] = aux_log[i] /\ aux_start'[i] = aux_start[i]
  BY <1>1, <1>2, <1>4, <1>5, ElementOfSeq, SubSeqProperties
<1>7. saved.history[n + 1] = aux_log[left + 1] /\ left + 1 \in 1..Len(aux_log)
  <2>1. saved.history[n + 1] = aux_log[Gone(saved, aux_log) + (n + 1)]
    BY <1>1, <1>4
  <2>2. Gone(saved, aux_log) + (n + 1) = left + 1 /\ left \in Nat /\ left < Len(aux_log)
        /\ Len(aux_log) \in Nat
    BY <1>1, <1>4
  <2>3. left + 1 \in 1..Len(aux_log)
    BY <2>2
  <2>. QED  BY <2>1, <2>2, <2>3
<1>8. /\ saved'.scene = aux_log[left + 1].scene /\ saved'.plugin = aux_log[left + 1].plugin
      /\ saved'.tick = aux_log[left + 1].tick
  BY <1>1, <1>3, <1>7 DEF GameState
<1>9. Stamps(aux_log', aux_start')
  <2>1. \A i \in 1..left : i \in 1..Len(aux_log)
    BY <1>1, <1>4
  <2>. QED  BY <1>6, <2>1 DEF StampInv, Stamps
<1>. QED  BY <1>6, <1>7, <1>8, <1>9 DEF StampInv, Stamps, UndoneStart

\* Only an undo takes records off the log, and every step keeps the stamps.
LEMMA StampStep ==
    ASSUME StampInv, [Next]_vars
    PROVE  /\ StampInv'
           /\ UndoTurn \/ ~(Len(aux_log') < Len(aux_log))
<1>. DEFINE Goal == Stamps(aux_log', aux_start') /\ (UndoTurn \/ ~(Len(aux_log') < Len(aux_log)))
<1>0. JournalInv' /\ TypeInv /\ Len(aux_log) \in Nat
  BY JournalStep, JournalTypes DEF StampInv, JournalInv, ChainInv
<1>. SUFFICES Goal
  BY <1>0 DEF StampInv
<1>1. ASSUME UNCHANGED <<aux_log, aux_start>> PROVE Goal
  BY <1>0, <1>1 DEF StampInv
<1>2. CASE BeginTurn
  BY <1>1, <1>2 DEF BeginTurn, aux
<1>3. ASSUME NEW beat \in Beats, NEW again \in BOOLEAN, CommitBeat(beat, again) PROVE Goal
  BY <1>0, <1>3, StampCommit DEF StampInv
<1>4. CASE AbandonTurn
  BY <1>1, <1>4 DEF AbandonTurn, aux
<1>5. CASE UndoTurn
  BY <1>5, StampUndo
<1>6. ASSUME NEW cutoff, NEW plugin, CheckpointManual(cutoff, plugin) PROVE Goal
  <2>1. UNCHANGED aux
    BY <1>6 DEF CheckpointManual, WriteCheckpoint
  <2>. QED  BY <1>1, <2>1 DEF aux
<1>7. ASSUME NEW pressed, NEW cutoff, NEW plugin, CheckpointAutomatic(pressed, cutoff, plugin)
      PROVE  Goal
  <2>1. UNCHANGED aux
    BY <1>7 DEF CheckpointAutomatic, WriteCheckpoint
  <2>. QED  BY <1>1, <2>1 DEF aux
<1>8. CASE SaveCompaction
  BY <1>1, <1>8 DEF SaveCompaction
<1>9. CASE SaveCompactionFails
  BY <1>1, <1>9 DEF SaveCompactionFails, aux
<1>10. CASE RestoreLastCompaction
  BY <1>1, <1>10 DEF RestoreLastCompaction
<1>11. CASE Crash
  BY <1>1, <1>11 DEF Crash, aux
<1>12. CASE UNCHANGED vars
  BY <1>1, <1>12 DEF vars
<1>. HIDE DEF Goal
<1>. QED  BY <1>2, <1>3, <1>4, <1>5, <1>6, <1>7, <1>8, <1>9, <1>10, <1>11, <1>12 DEF Next

\* Undoing a turn the player opened returns to the scene, the plugins' state and
\* the clock it started from, whatever was compacted or restored in between.
THEOREM UndoReturns == Spec => UndoReturnsToTurnStart
<1>1. Init => StampInv
  <2>1. ASSUME Init PROVE Len(aux_log) = 0
    BY <2>1 DEF Init
  <2>. QED  BY <2>1, ChainInit, JournalInit DEF StampInv, JournalInv, Stamps
<1>2. StampInv /\ [Next]_vars => StampInv'
  BY StampStep
<1>3. StampInv /\ [Next]_vars =>
        [Len(aux_log') < Len(aux_log) /\ aux_log[Len(aux_log') + 1].by = "Player" =>
            /\ saved'.scene = UndoneStart.scene
            /\ saved'.plugin = UndoneStart.plugin
            /\ saved'.tick = UndoneStart.tick]_vars
  BY StampStep, StampUndo
<1>. QED  BY <1>1, <1>2, <1>3, PTL DEF Spec, UndoReturnsToTurnStart

-----------------------------------------------------------------------------
(* The log is a story *)

\* The records that were committed and not undone, as the story of Story: what
\* NothingIsLost finds again in the checkpoints and the live history.
Told == INSTANCE Story WITH story <- aux_log

\* A beat begins at position m + 1 of the log.
Border(log, m) == m > 0 /\ m < Len(log) => log[m].tick < log[m + 1].tick

\* The log is in the order of the clock, before the clock shown now.
LogInOrder(log, tick) ==
    /\ \A i \in 1..Len(log) : log[i].tick < tick
    /\ \A i, j \in 1..Len(log) : i <= j => log[i].tick <= log[j].tick

\* No compaction, and no restore of one, parts the records of a beat.
Borders(g, marks, log) ==
    /\ Border(log, Gone(g, log))
    /\ \A k \in 1..Len(g.stack) : Border(log, marks[k].from)

StoryInv ==
    /\ OrderInv
    /\ LogInOrder(aux_log, saved.tick)
    /\ Borders(saved, aux_marks, aux_log)

\* Where the live history and each compaction begin in the log.
LEMMA BorderTypes ==
    ASSUME OrderInv
    PROVE  /\ saved \in GameState /\ saved.tick \in Nat
           /\ aux_log \in Seq(TurnRecord) /\ Len(aux_log) \in Nat
           /\ \A i \in 1..Len(aux_log) : aux_log[i] \in TurnRecord /\ aux_log[i].tick \in Nat
           /\ saved.history \in Seq(TurnRecord) /\ Len(saved.history) \in Nat
           /\ Ordered(saved.history, saved.tick)
           /\ Gone(saved, aux_log) \in Nat
           /\ Gone(saved, aux_log) = Len(aux_log) - Len(saved.history)
           /\ \A i \in 1..Len(saved.history) : saved.history[i] = aux_log[Gone(saved, aux_log) + i]
           /\ Len(aux_marks) = Len(saved.stack)
           /\ \A k \in 1..Len(saved.stack) :
                 aux_marks[k].from \in Nat /\ aux_marks[k].from <= Gone(saved, aux_log)
<1>1. TypeInv /\ ChainInv /\ Journal(saved, files, aux_marks, aux_log)
  BY DEF OrderInv, JournalInv, ChainInv
<1>2. saved \in GameState /\ aux_log \in Seq(TurnRecord) /\ saved.tick \in Nat
  BY <1>1, JournalTypes DEF GameState
<1>3. ASSUME NEW k \in 1..Len(saved.stack)
      PROVE  aux_marks[k].from \in Nat /\ aux_marks[k].from <= Gone(saved, aux_log)
  <2>1. Covers(saved, files, aux_marks, aux_log, k) /\ Gone(saved, aux_log) \in Nat
    BY <1>1 DEF Journal
  <2>2. Len(FileOf(saved, files, k).evicted) \in Nat
    BY <1>1, KeptFileType
  <2>. QED  BY <2>1, <2>2 DEF Covers, EndOf
<1>. QED  BY <1>1, <1>2, <1>3, JournalTypes, RecordParts DEF OrderInv, Journal

\* A beat is told: it goes behind the whole log, one clock later than all of it.
LEMMA StoryCommit ==
    ASSUME StoryInv, NEW beat \in Beats, NEW again \in BOOLEAN, CommitBeat(beat, again)
    PROVE  /\ LogInOrder(aux_log', saved'.tick) /\ Borders(saved', aux_marks', aux_log')
           /\ Told!Tell \/ aux_log' = aux_log
<1>. DEFINE log == aux_log
            n == Len(aux_log)
            tick == saved.tick
<1>1. /\ OrderInv /\ TypeInv /\ saved \in GameState /\ tick \in Nat
      /\ log \in Seq(TurnRecord) /\ n \in Nat
      /\ \A i \in 1..n : log[i] \in TurnRecord /\ log[i].tick \in Nat
      /\ Gone(saved, log) \in Nat /\ Gone(saved, log) <= n
      /\ \A k \in 1..Len(saved.stack) : aux_marks[k].from \in Nat /\ aux_marks[k].from <= n
  <2>1. OrderInv /\ TypeInv
    BY DEF StoryInv, OrderInv, JournalInv, ChainInv
  <2>2. Gone(saved, log) \in Nat /\ Gone(saved, log) <= n
    BY <2>1, BorderTypes
  <2>3. \A k \in 1..Len(saved.stack) : aux_marks[k].from \in Nat /\ aux_marks[k].from <= n
    BY <2>1, <2>2, BorderTypes
  <2>. QED  BY <2>1, <2>2, <2>3, BorderTypes
<1>2. PICK added \in Seq(TurnRecord) :
        /\ saved' = [saved EXCEPT !.history = saved.history \o added,
                                  !.tick = ClockAfter(saved.tick, beat),
                                  !.scene = beat.scene, !.plugin = beat.plugin,
                                  !.revision = saved.revision + 1]
        /\ aux_log' = aux_log \o added
        /\ OfOneBeat(added)
  BY <1>1, BeatRecords
<1>3. /\ saved'.tick = ClockAfter(tick, beat) /\ saved'.stack = saved.stack
      /\ saved'.history = saved.history \o added /\ aux_marks' = aux_marks
  BY <1>1, <1>2 DEF GameState, CommitBeat
<1>4. saved'.tick \in Nat /\ tick < saved'.tick
  <2>1. beat.ticks \in Nat
    BY BeatAssumption
  <2>. QED  BY <1>1, <1>3, <2>1 DEF ClockAfter
<1>5. /\ Len(added) \in Nat /\ Len(aux_log') = n + Len(added)
      /\ \A i \in 1..n + Len(added) : aux_log'[i] = IF i <= n THEN log[i] ELSE added[i - n]
  BY <1>1, <1>2, ConcatProperties, LenProperties
<1>6. \A i \in 1..n : i \in 1..Len(aux_log') /\ aux_log'[i] = log[i] /\ log[i].tick \in Nat
                      /\ log[i].tick < tick
  BY <1>1, <1>5 DEF StoryInv, LogInOrder
<1>7. ASSUME NEW i \in 1..Len(aux_log'), ~(i <= n) PROVE aux_log'[i].tick = tick
  <2>1. i - n \in 1..Len(added) /\ aux_log'[i] = added[i - n]
    BY <1>1, <1>5, <1>7
  <2>. QED  BY <1>2, <2>1 DEF OfOneBeat
<1>8. Gone(saved', aux_log') = Gone(saved, aux_log)
  <2>1. Len(saved'.history) = Len(saved.history) + Len(added)
    BY <1>1, <1>3, ConcatProperties, BorderTypes
  <2>. QED  BY <1>1, <1>5, <2>1, BorderTypes DEF Gone
<1>9. \A i, j \in 1..n : i <= j => log[i].tick <= log[j].tick
  BY DEF StoryInv, LogInOrder
<1>. HIDE DEF log, n, tick
<1>10. LogInOrder(aux_log', saved'.tick)
  <2>1. \A i \in 1..Len(aux_log') : aux_log'[i].tick < saved'.tick
    <3>1. ASSUME NEW i \in 1..Len(aux_log') PROVE aux_log'[i].tick < saved'.tick
      <4>1. CASE i <= n
        <5>1. i \in 1..n
          BY <1>1, <4>1
        <5>2. aux_log'[i].tick \in Nat /\ aux_log'[i].tick < tick
          BY <1>6, <5>1
        <5>. QED  BY <1>1, <1>4, <5>2
      <4>2. CASE ~(i <= n)
        BY <1>4, <1>7, <4>2
      <4>. QED  BY <4>1, <4>2
    <3>. QED  BY <3>1
  <2>2. ASSUME NEW i \in 1..Len(aux_log'), NEW j \in 1..Len(aux_log'), i <= j
        PROVE  aux_log'[i].tick <= aux_log'[j].tick
    <3>1. CASE j <= n
      <4>1. i \in 1..n /\ j \in 1..n
        BY <1>1, <2>2, <3>1
      <4>. QED  BY <1>6, <1>9, <2>2, <4>1
    <3>2. CASE ~(j <= n) /\ i <= n
      <4>1. i \in 1..n
        BY <1>1, <3>2
      <4>. QED  BY <1>1, <1>6, <1>7, <3>2, <4>1
    <3>3. CASE ~(j <= n) /\ ~(i <= n)
      BY <1>1, <1>7, <3>3
    <3>. QED  BY <3>1, <3>2, <3>3
  <2>. QED  BY <2>1, <2>2 DEF LogInOrder
<1>11. ASSUME NEW m \in Nat, m <= n, Border(log, m) PROVE Border(aux_log', m)
  <2>. SUFFICES ASSUME m > 0, m < Len(aux_log')
                PROVE  aux_log'[m].tick < aux_log'[m + 1].tick
    BY DEF Border
  <2>1. m \in 1..n
    BY <1>1, <1>11
  <2>2. CASE m < n
    <3>1. m + 1 \in 1..n
      BY <1>1, <2>2
    <3>2. log[m].tick < log[m + 1].tick
      BY <1>11, <2>2 DEF Border, n, log
    <3>. QED  BY <1>6, <2>1, <3>1, <3>2
  <2>3. CASE m = n
    <3>1. m + 1 \in 1..Len(aux_log') /\ ~(m + 1 <= n)
      BY <1>1, <1>5, <2>3
    <3>. QED  BY <1>6, <1>7, <2>1, <3>1
  <2>. QED  BY <1>1, <1>11, <2>2, <2>3
<1>12. Borders(saved', aux_marks', aux_log')
  BY <1>1, <1>3, <1>8, <1>11 DEF StoryInv, Borders, log
<1>13. CASE Len(added) = 0
  <2>1. added = <<>>
    BY <1>13, EmptySeq
  <2>2. aux_log' = aux_log
    BY <1>1, <1>2, <2>1, ConcatEmptySeq DEF log
  <2>. QED  BY <1>10, <1>12, <2>2
<1>14. CASE Len(added) # 0
  <2>1. Len(aux_log') > Len(aux_log) /\ n + 1 \in 1..Len(aux_log') /\ ~(n + 1 <= n)
    BY <1>1, <1>5, <1>14 DEF n
  <2>2. SubSeq(aux_log', 1, Len(aux_log)) = aux_log
    <3>1. /\ 0 \in Nat /\ 0 + n <= Len(aux_log') /\ 0 + 1 = 1 /\ 0 + n = n
          /\ \A i \in 1..n : 0 + i = i
      BY <1>1, <1>5
    <3>2. aux_log' \in Seq(TurnRecord)
      BY <1>1, <1>2, ConcatProperties DEF log
    <3>3. \A i \in 1..n : log[i] = aux_log'[0 + i]
      BY <1>6, <3>1
    <3>4. log = SubSeq(aux_log', 0 + 1, 0 + n)
      BY <1>1, <3>1, <3>2, <3>3, StretchIsSubSeq DEF n, log
    <3>. QED  BY <3>1, <3>4 DEF n, log
  <2>3. \A i, j \in n + 1..Len(aux_log') : aux_log'[i].tick = aux_log'[j].tick
    <3>1. \A i \in n + 1..Len(aux_log') : i \in 1..Len(aux_log') /\ ~(i <= n)
      BY <1>1, <1>5
    <3>. QED  BY <1>7, <3>1
  <2>4. \A i \in 1..n : log[i].tick < aux_log'[n + 1].tick
    BY <1>6, <1>7, <2>1
  <2>5. Told!Tell
    BY <2>1, <2>2, <2>3, <2>4 DEF Told!Tell, log, n
  <2>. QED  BY <1>10, <1>12, <2>5
<1>. QED  BY <1>13, <1>14

\* The newest beat is taken back: the records an undo pops are those of one clock,
\* and no record of it is among those a compaction took.
LEMMA StoryUndo ==
    ASSUME StoryInv, UndoTurn
    PROVE  /\ LogInOrder(aux_log', saved'.tick) /\ Borders(saved', aux_marks', aux_log')
           /\ Told!TakeBack
<1>. DEFINE log == aux_log
            h == saved.history
            gone == Gone(saved, aux_log)
<1>1. /\ saved \in GameState
      /\ log \in Seq(TurnRecord) /\ Len(log) \in Nat
      /\ \A i \in 1..Len(log) : log[i] \in TurnRecord /\ log[i].tick \in Nat
      /\ h \in Seq(TurnRecord) /\ Len(h) \in Nat /\ Ordered(h, saved.tick)
      /\ gone \in Nat /\ gone = Len(log) - Len(h)
      /\ \A i \in 1..Len(h) : h[i] = log[gone + i]
      /\ Len(aux_marks) = Len(saved.stack)
      /\ \A k \in 1..Len(saved.stack) : aux_marks[k].from \in Nat /\ aux_marks[k].from <= gone
  BY BorderTypes DEF StoryInv
<1>2. PICK n \in 0..Len(h)-1 :
        /\ BeforeLastTurn(h, n)
        /\ saved' = [saved EXCEPT !.history = SubSeq(@, 1, n),
                                  !.scene = h[n + 1].scene, !.plugin = h[n + 1].plugin,
                                  !.tick = h[n + 1].tick, !.revision = @ + 1]
        /\ LET left == Len(aux_log) - (Len(saved.history) - n)
           IN  /\ aux_log' = SubSeq(aux_log, 1, left)
               /\ aux_marks' = [k \in DOMAIN aux_marks |->
                      [aux_marks[k] EXCEPT !.intact = @ /\ aux_marks[k].upto <= left]]
  BY Zenon DEF UndoTurn, RestorePoint
<1>. DEFINE left == Len(aux_log) - (Len(saved.history) - n)
<1>3. /\ left = gone + n /\ left \in Nat /\ left + 1 \in 1..Len(log)
      /\ n \in Nat /\ n + 1 \in 1..Len(h) /\ gone + (n + 1) = left + 1
      /\ Len(log) \in 1..Len(log) /\ Len(h) \in 1..Len(h) /\ gone + Len(h) = Len(log)
  BY <1>1
<1>4. /\ aux_log' = SubSeq(log, 1, left) /\ saved'.history = SubSeq(h, 1, n)
      /\ saved'.tick = h[n + 1].tick /\ saved'.stack = saved.stack
  BY <1>1, <1>2 DEF GameState
<1>5. \A k \in 1..Len(saved.stack) : aux_marks'[k].from = aux_marks[k].from
  <2>1. ASSUME NEW k \in 1..Len(saved.stack) PROVE aux_marks'[k].from = aux_marks[k].from
    <3>1. TypeInv /\ k \in 1..Len(aux_marks)
      BY <1>1 DEF StoryInv, OrderInv, JournalInv, ChainInv
    <3>2. aux_marks \in Seq(Mark) /\ k \in DOMAIN aux_marks /\ aux_marks[k] \in Mark
      BY <3>1, JournalTypes, LenProperties, ElementOfSeq
    <3>3. aux_marks'[k] = [aux_marks[k] EXCEPT !.intact = @ /\ aux_marks[k].upto <= left]
      BY <1>2, <3>2
    <3>. QED  BY <3>2, <3>3 DEF Mark
  <2>. QED  BY <2>1
<1>6. /\ \A i \in 1..Len(log) : log[i].tick < saved.tick
      /\ \A i, j \in 1..Len(log) : i <= j => log[i].tick <= log[j].tick
      /\ Border(log, gone) /\ \A k \in 1..Len(saved.stack) : Border(log, aux_marks[k].from)
  BY DEF StoryInv, LogInOrder, Borders
<1>. HIDE DEF left, log, h, gone
<1>7. h[n + 1] = log[left + 1] /\ h[Len(h)] = log[Len(log)]
  <2>1. h[n + 1] = log[gone + (n + 1)] /\ h[Len(h)] = log[gone + Len(h)]
    BY <1>1, <1>3
  <2>. QED  BY <1>3, <2>1
<1>8. Len(aux_log') = left /\ \A i \in 1..left : aux_log'[i] = log[i] /\ i \in 1..Len(log)
  <2>1. \A i \in 1..left : i \in 1..Len(log) /\ log[i] \in TurnRecord
    BY <1>1, <1>3
  <2>. QED  BY <1>3, <1>4, <2>1, SubSeqProperties
<1>9. Gone(saved', aux_log') = gone
  <2>1. Len(saved'.history) = n
    <3>1. \A i \in 1..n : h[i] \in TurnRecord
      BY <1>1, <1>3, RecordParts
    <3>. QED  BY <1>3, <1>4, <3>1, SubSeqProperties
  <2>. QED  BY <1>1, <1>3, <1>8, <2>1 DEF Gone
<1>10. ASSUME left > 0 PROVE log[left].tick < log[left + 1].tick
  <2>1. CASE n = 0
    <3>1. gone = left /\ left > 0 /\ left < Len(log)
      BY <1>1, <1>3, <1>10, <2>1
    <3>. QED  BY <1>6, <3>1 DEF Border
  <2>2. CASE n # 0
    <3>1. n \in 1..Len(h) /\ n > 0 /\ n < n + 1 /\ gone + n = left
      BY <1>1, <1>3, <2>2
    <3>2. h[n].turn # h[n + 1].turn
      <4>1. n + 1 \in n + 1..Len(h)
        BY <1>1, <1>3
      <4>. QED  BY <1>2, <3>1, <4>1 DEF BeforeLastTurn
    <3>3. EarlierBeat(h[n], h[n + 1])
      BY <1>1, <1>3, <3>1, <3>2 DEF Ordered, SameBeat
    <3>4. h[n] = log[left]
      BY <1>1, <3>1
    <3>. QED  BY <1>7, <3>3, <3>4 DEF EarlierBeat
  <2>. QED  BY <2>1, <2>2
<1>11. ASSUME NEW i \in 1..left PROVE log[i].tick < log[left + 1].tick /\ log[i].tick \in Nat
  <2>1. left \in 1..Len(log) /\ i \in 1..Len(log) /\ i <= left /\ left > 0
    BY <1>1, <1>3
  <2>2. log[i].tick <= log[left].tick /\ log[left].tick < log[left + 1].tick
    BY <1>6, <1>10, <2>1
  <2>3. log[i].tick \in Nat /\ log[left].tick \in Nat /\ log[left + 1].tick \in Nat
    BY <1>1, <1>3, <2>1
  <2>. QED  BY <2>2, <2>3
<1>12. LogInOrder(aux_log', saved'.tick)
  <2>1. saved'.tick = log[left + 1].tick
    BY <1>4, <1>7
  <2>. QED  BY <1>6, <1>8, <1>11, <2>1 DEF LogInOrder
<1>13. ASSUME NEW m \in Nat, m <= gone, Border(log, m) PROVE Border(aux_log', m)
  <2>. SUFFICES ASSUME m > 0, m < left PROVE aux_log'[m].tick < aux_log'[m + 1].tick
    BY <1>8 DEF Border
  <2>1. m \in 1..left /\ m + 1 \in 1..left /\ m < Len(log)
    BY <1>1, <1>3
  <2>. QED  BY <1>8, <1>13, <2>1 DEF Border
<1>14. Borders(saved', aux_marks', aux_log')
  BY <1>1, <1>4, <1>5, <1>6, <1>9, <1>13 DEF Borders
<1>15. ASSUME NEW i \in left + 1..Len(log) PROVE log[i].tick = log[Len(log)].tick
  <2>. DEFINE j == i - gone
  <2>1. j \in n + 1..Len(h) /\ j \in 1..Len(h) /\ gone + j = i
    BY <1>1, <1>3
  <2>. HIDE DEF j
  <2>2. h[j].turn = h[Len(h)].turn
    BY <1>2, <2>1 DEF BeforeLastTurn, Newest
  <2>3. SameBeat(h[j], h[Len(h)])
    <3>1. CASE j = Len(h)
      BY <3>1 DEF SameBeat
    <3>2. CASE j # Len(h)
      <4>1. j < Len(h)
        BY <1>1, <2>1, <3>2
      <4>2. h[j].turn \in Nat
        BY <1>1, <2>1, RecordParts
      <4>. QED  BY <1>1, <1>3, <2>1, <2>2, <4>1, <4>2 DEF Ordered, EarlierBeat
    <3>. QED  BY <3>1, <3>2
  <2>. QED  BY <1>1, <1>7, <2>1, <2>3 DEF SameBeat
<1>16. ASSUME NEW i \in 1..Len(log) PROVE i <= left <=> log[i].tick # log[Len(log)].tick
  <2>1. log[left + 1].tick = log[Len(log)].tick
    <3>1. left + 1 \in left + 1..Len(log)
      BY <1>1, <1>3
    <3>. QED  BY <1>15, <3>1
  <2>2. CASE i <= left
    <3>1. i \in 1..left
      BY <1>1, <1>3, <2>2
    <3>2. log[left + 1].tick \in Nat
      BY <1>1, <1>3
    <3>. QED  BY <1>11, <2>1, <2>2, <3>1, <3>2
  <2>3. CASE ~(i <= left)
    <3>1. i \in left + 1..Len(log)
      BY <1>1, <1>3, <2>3
    <3>. QED  BY <1>15, <2>3, <3>1
  <2>. QED  BY <2>2, <2>3
<1>17. left \in 0..Len(log)-1
  BY <1>1, <1>3
<1>18. Told!TakeBack
  BY <1>4, <1>16, <1>17 DEF Told!TakeBack, log
<1>. QED  BY <1>12, <1>14, <1>18

\* A compaction takes whole beats: a beat begins where the live history does.
LEMMA StorySave ==
    ASSUME StoryInv, SaveCompaction
    PROVE  /\ LogInOrder(aux_log', saved'.tick) /\ Borders(saved', aux_marks', aux_log')
           /\ aux_log' = aux_log
<1>. DEFINE h == saved.history
            gone == Gone(saved, aux_log)
            new == files[Len(files)]
<1>1. /\ OrderInv /\ ChainInv /\ op.stage = "saving"
      /\ Len(aux_log) \in Nat /\ h \in Seq(TurnRecord) /\ Len(h) \in Nat
      /\ gone \in Nat /\ gone = Len(aux_log) - Len(h)
      /\ \A i \in 1..Len(h) : h[i] = aux_log[gone + i]
      /\ \A i \in 1..Len(h) : h[i] \in TurnRecord
      /\ Len(aux_marks) = Len(saved.stack)
  BY BorderTypes, RecordParts DEF StoryInv, OrderInv, JournalInv, SaveCompaction
<1>2. /\ saved.stack \in Seq(StackEntry) /\ Len(saved.stack) \in Nat
      /\ aux_marks \in Seq(Mark) /\ files \in Seq(Checkpoint) /\ Len(files) \in Nat
  BY <1>1, JournalTypes DEF ChainInv
<1>3. PICK n \in 0..Len(h)-1, plugin \in PluginStates :
        /\ Len(files) > 0
        /\ files[Len(files)] = CheckpointOf(n, plugin)
        /\ draft = DraftOf(n, plugin, Len(files))
  BY <1>1 DEF ChainInv, DraftIsCompaction, TypeInv, DraftNamesNewestFile
<1>. DEFINE mark == [from |-> Len(aux_log) - Len(saved.history),
                     upto |-> Len(aux_log), intact |-> TRUE]
<1>4. /\ saved'.history = SubSeq(h, n + 1, Len(h)) /\ saved'.tick = saved.tick
      /\ saved'.stack = Append(saved.stack, [id |-> Len(files), parent |-> ParentId(saved.stack)])
      /\ aux_marks' = Append(aux_marks, mark) /\ aux_log' = aux_log
  BY <1>3 DEF SaveCompaction, DraftOf
<1>5. mark.from = gone
  BY <1>1
<1>6. /\ new.evicted = SubSeq(h, 1, n) /\ new.history_after = SubSeq(h, n + 1, Len(h))
      /\ FileInOrder(new)
  <2>1. Len(files) \in 1..Len(files)
    BY <1>2, <1>3
  <2>. QED  BY <1>1, <1>3, <2>1 DEF CheckpointOf, OrderInv, FilesInOrder
<1>. HIDE DEF mark, new
<1>7. /\ Len(new.evicted) = n /\ \A i \in 1..n : new.evicted[i] = h[i]
  <2>1. \A i \in 1..n : h[i] \in TurnRecord
    BY <1>1
  <2>. QED  BY <1>1, <1>6, <2>1, SubSeqProperties
<1>8. Len(saved'.history) = Len(h) - n /\ new.history_after[1] = h[n + 1]
      /\ Len(new.history_after) = Len(h) - n
  <2>1. \A i \in n + 1..Len(h) : h[i] \in TurnRecord
    BY <1>1
  <2>2. /\ Len(SubSeq(h, n + 1, Len(h))) = IF n + 1 <= Len(h) THEN Len(h) - (n + 1) + 1 ELSE 0
        /\ \A i \in 1..Len(h) - (n + 1) + 1 : SubSeq(h, n + 1, Len(h))[i] = h[(n + 1) + i - 1]
    BY <1>1, <2>1, SubSeqProperties
  <2>3. /\ n + 1 <= Len(h) /\ Len(h) - (n + 1) + 1 = Len(h) - n
        /\ 1 \in 1..Len(h) - (n + 1) + 1 /\ (n + 1) + 1 - 1 = n + 1
    BY <1>1
  <2>. QED  BY <1>4, <1>6, <2>2, <2>3
<1>. HIDE DEF h, gone
<1>9. Gone(saved', aux_log') = gone + n
  <2>1. Len(aux_log) - (Len(h) - n) = gone + n
    BY <1>1
  <2>. QED  BY <1>4, <1>8, <2>1 DEF Gone
<1>10. Border(aux_log, gone + n)
  <2>1. CASE n = 0
    BY <1>1, <2>1 DEF StoryInv, Borders, gone
  <2>2. CASE n # 0
    <3>1. /\ n \in 1..n /\ 1 \in 1..Len(h) - n /\ n \in 1..Len(h) /\ n + 1 \in 1..Len(h)
          /\ gone + (n + 1) = gone + n + 1
      BY <1>1, <2>2
    <3>2. EarlierBeat(new.evicted[n], new.history_after[1])
      BY <1>6, <1>7, <1>8, <3>1 DEF FileInOrder
    <3>3. h[n] = aux_log[gone + n] /\ h[n + 1] = aux_log[gone + n + 1]
      BY <1>1, <3>1
    <3>. QED  BY <1>7, <1>8, <3>1, <3>2, <3>3 DEF EarlierBeat, Border
  <2>. QED  BY <2>1, <2>2
<1>11. /\ Len(saved'.stack) = Len(saved.stack) + 1
       /\ aux_marks'[Len(saved.stack) + 1] = mark
       /\ \A k \in 1..Len(saved.stack) : aux_marks'[k] = aux_marks[k]
  BY <1>1, <1>2, <1>4, AppendProperties
<1>12. ASSUME NEW k \in 1..Len(saved.stack) + 1 PROVE Border(aux_log, aux_marks'[k].from)
  <2>1. CASE k = Len(saved.stack) + 1
    BY <1>5, <1>11, <2>1 DEF StoryInv, Borders, gone
  <2>2. CASE k # Len(saved.stack) + 1
    <3>1. k \in 1..Len(saved.stack)
      BY <1>2, <2>2
    <3>. QED  BY <1>11, <3>1 DEF StoryInv, Borders
  <2>. QED  BY <2>1, <2>2
<1>13. Borders(saved', aux_marks', aux_log')
  BY <1>4, <1>9, <1>10, <1>11, <1>12 DEF Borders
<1>. QED  BY <1>4, <1>13 DEF StoryInv

\* A restore moves the beginning of the live history back to the newest mark.
LEMMA StoryRestore ==
    ASSUME StoryInv, RestoreLastCompaction
    PROVE  /\ LogInOrder(aux_log', saved'.tick) /\ Borders(saved', aux_marks', aux_log')
           /\ aux_log' = aux_log
<1>. DEFINE depth == Len(saved.stack)
            checkpoint == files[Newest(saved.stack).id]
            h == saved.history
<1>1. /\ OrderInv /\ ChainInv /\ TypeInv /\ saved \in GameState
      /\ Journal(saved, files, aux_marks, aux_log)
      /\ Len(aux_log) \in Nat /\ h \in Seq(TurnRecord) /\ Len(h) \in Nat
      /\ Gone(saved, aux_log) = Len(aux_log) - Len(h)
      /\ Len(aux_marks) = depth
  BY BorderTypes DEF StoryInv, OrderInv, JournalInv, ChainInv
<1>2. /\ saved.stack \in Seq(StackEntry) /\ aux_marks \in Seq(Mark) /\ saved.stack # <<>>
      /\ depth \in Nat
  BY <1>1, JournalTypes, RestoredHistory
<1>3. PICK plugin \in PluginStates :
        saved' = [saved EXCEPT !.history = checkpoint.evicted \o saved.history,
                               !.summary = checkpoint.summary_before,
                               !.plugin = plugin,
                               !.stack = SubSeq(saved.stack, 1, Len(saved.stack) - 1),
                               !.revision = saved.revision + 1]
  BY <1>1, RestoredHistory
<1>4. /\ saved'.history = checkpoint.evicted \o h /\ saved'.tick = saved.tick
      /\ saved'.stack = SubSeq(saved.stack, 1, depth - 1)
      /\ aux_log' = aux_log /\ aux_marks' = SubSeq(aux_marks, 1, depth - 1)
  BY <1>1, <1>3 DEF GameState, RestoreLastCompaction
<1>5. depth \in 1..depth /\ checkpoint = FileOf(saved, files, depth)
  <2>1. depth # 0
    BY <1>2, EmptySeq
  <2>. QED  BY <1>2, <2>1 DEF FileOf, Newest
<1>6. checkpoint.evicted \in Seq(TurnRecord) /\ Len(checkpoint.evicted) \in Nat
  BY <1>1, <1>5, KeptFileType
<1>7. /\ aux_marks[depth].from \in Nat
      /\ Gone(saved, aux_log) = aux_marks[depth].from + Len(checkpoint.evicted)
  BY <1>1, <1>5 DEF Journal, Covers, EndOf
<1>. HIDE DEF checkpoint, h, depth
<1>8. Gone(saved', aux_log') = aux_marks[depth].from
  <2>1. Len(saved'.history) = Len(checkpoint.evicted) + Len(h)
    BY <1>1, <1>4, <1>6, ConcatProperties
  <2>2. Len(aux_log) - (Len(checkpoint.evicted) + Len(h)) = aux_marks[depth].from
    BY <1>1, <1>6, <1>7
  <2>. QED  BY <1>4, <2>1, <2>2 DEF Gone
<1>9. /\ Len(saved'.stack) = depth - 1
      /\ \A k \in 1..depth - 1 : aux_marks'[k] = aux_marks[k]
  <2>1. /\ \A k \in 1..depth - 1 : k \in 1..Len(saved.stack) /\ k \in 1..Len(aux_marks)
    BY <1>1, <1>2 DEF depth
  <2>2. /\ \A k \in 1..depth - 1 : saved.stack[k] \in StackEntry
        /\ \A k \in 1..depth - 1 : aux_marks[k] \in Mark
    BY <1>2, <2>1, ElementOfSeq
  <2>3. Len(saved'.stack) = depth - 1
    BY <1>2, <1>4, <1>5, <2>2, SubSeqProperties
  <2>4. \A k \in 1..depth - 1 : aux_marks'[k] = aux_marks[k]
    BY <1>2, <1>4, <1>5, <2>2, SubSeqProperties
  <2>. QED  BY <2>3, <2>4
<1>10. /\ Border(aux_log, aux_marks[depth].from)
       /\ \A k \in 1..depth - 1 : Border(aux_log, aux_marks[k].from)
  <2>1. \A k \in 1..depth - 1 : k \in 1..depth
    BY <1>2
  <2>. QED  BY <1>5, <2>1 DEF StoryInv, Borders, depth
<1>11. Borders(saved', aux_marks', aux_log')
  BY <1>4, <1>8, <1>9, <1>10 DEF Borders
<1>. QED  BY <1>4, <1>11 DEF StoryInv

\* Every step tells a beat, takes one back or leaves the story alone.
LEMMA StoryStep ==
    ASSUME StoryInv, [Next]_vars
    PROVE  StoryInv' /\ (Told!Next \/ aux_log' = aux_log)
<1>. DEFINE Goal == /\ LogInOrder(aux_log', saved'.tick) /\ Borders(saved', aux_marks', aux_log')
                    /\ Told!Next \/ aux_log' = aux_log
<1>0. OrderInv'
  BY OrderStep DEF StoryInv
<1>. SUFFICES Goal
  BY <1>0 DEF StoryInv
<1>1. ASSUME UNCHANGED <<saved, aux_log, aux_marks>> PROVE Goal
  BY <1>1 DEF StoryInv, LogInOrder, Borders, Border, Gone
<1>2. CASE BeginTurn
  BY <1>1, <1>2 DEF BeginTurn, aux
<1>3. ASSUME NEW beat \in Beats, NEW again \in BOOLEAN, CommitBeat(beat, again) PROVE Goal
  BY <1>3, StoryCommit DEF Told!Next
<1>4. CASE AbandonTurn
  BY <1>1, <1>4 DEF AbandonTurn, aux
<1>5. CASE UndoTurn
  BY <1>5, StoryUndo DEF Told!Next
<1>6. ASSUME NEW cutoff, NEW plugin, CheckpointManual(cutoff, plugin) PROVE Goal
  <2>1. UNCHANGED <<saved, aux>>
    BY <1>6 DEF CheckpointManual, WriteCheckpoint
  <2>. QED  BY <1>1, <2>1 DEF aux
<1>7. ASSUME NEW pressed, NEW cutoff, NEW plugin, CheckpointAutomatic(pressed, cutoff, plugin)
      PROVE  Goal
  <2>1. UNCHANGED <<saved, aux>>
    BY <1>7 DEF CheckpointAutomatic, WriteCheckpoint
  <2>. QED  BY <1>1, <2>1 DEF aux
<1>8. CASE SaveCompaction
  BY <1>8, StorySave
<1>9. CASE SaveCompactionFails
  BY <1>1, <1>9 DEF SaveCompactionFails, aux
<1>10. CASE RestoreLastCompaction
  BY <1>10, StoryRestore
<1>11. CASE Crash
  BY <1>1, <1>11 DEF Crash, aux
<1>12. CASE UNCHANGED vars
  BY <1>1, <1>12 DEF vars
<1>. HIDE DEF Goal
<1>. QED  BY <1>2, <1>3, <1>4, <1>5, <1>6, <1>7, <1>8, <1>9, <1>10, <1>11, <1>12 DEF Next

\* What is played and not undone is a story: it grows by whole beats and is taken
\* back by whole beats, and compacting, restoring, failing and crashing leave it.
THEOREM LogTellsAStory == Spec => Told!Spec
<1>1. Init => StoryInv
  <2>1. Init => OrderInv
    BY ChainInit, JournalInit, OrderInit DEF OrderInv, JournalInv
  <2>2. ASSUME Init PROVE Len(aux_log) = 0 /\ Len(saved.stack) = 0
    BY <2>2 DEF Init
  <2>. QED  BY <2>1, <2>2 DEF StoryInv, LogInOrder, Borders, Border, Gone
<1>2. StoryInv /\ [Next]_vars => StoryInv' /\ [Told!Next]_aux_log
  BY StoryStep
<1>3. Init => Told!Init
  BY DEF Init, Told!Init
<1>. QED  BY <1>1, <1>2, <1>3, PTL DEF Spec, Told!Spec

-----------------------------------------------------------------------------
(* The story that can be read off the files *)

\* A set of natural numbers has a least one.
LEMMA Least ==
    ASSUME NEW N \in SUBSET Nat, N # {}
    PROVE  \E n \in N : \A m \in N : n <= m
<1>1. PICK n \in N : \A m \in N : <<m, n>> \notin OpToRel(<, Nat)
  BY WFMin, NatLessThanWellFounded, Zenon
<1>2. ASSUME NEW m \in N  PROVE n <= m
  <2>1. n \in Nat /\ m \in Nat
    BY <1>1
  <2>2. m < n => <<m, n>> \in OpToRel(<, Nat)
    BY <2>1 DEF OpToRel
  <2>3. ~(m < n)
    BY <1>1, <2>2
  <2>. QED  BY <2>1, <2>3
<1>. QED  BY <1>2

\* How many records there are up to each of several sequences, if that is where
\* each of them ends.
LEMMA RecordsUpToIs ==
    ASSUME NEW m \in Nat, NEW parts, NEW end \in [0..m -> Nat], end[0] = 0, DOMAIN parts = 1..m,
           \A k \in 1..m : /\ Len(parts[k]) \in Nat /\ DOMAIN parts[k] = 1..Len(parts[k])
                           /\ end[k] = end[k - 1] + Len(parts[k])
    PROVE  \A k \in 0..m : RecordsUpTo(parts, k) = end[k]
<1>. DEFINE places(k) == UNION {{j} \X DOMAIN parts[j] : j \in 1..k}
            Counted(k) == IsFiniteSet(places(k)) /\ Cardinality(places(k)) = end[k]
<1>1. Counted(0)
  <2>1. places(0) = {}
    OBVIOUS
  <2>. QED  BY <2>1, FS_EmptySet
<1>2. ASSUME NEW k \in 1..m, Counted(k - 1) PROVE Counted(k)
  <2>1. PICK n \in Nat : n = Len(parts[k]) /\ DOMAIN parts[k] = 1..n
    OBVIOUS
  <2>2. PICK these : these = {k} \X (1..n)
    OBVIOUS
  <2>3. IsFiniteSet(these) /\ Cardinality(these) = n
    <3>1. PICK at : at = [i \in 1..n |-> <<k, i>>]
      OBVIOUS
    <3>2. at \in Bijection(1..n, these)
      <4>1. at \in [1..n -> these] /\ \A i, j \in 1..n : at[i] = at[j] => i = j
        BY <2>2, <3>1
      <4>2. \A q \in these : \E i \in 1..n : at[i] = q
        BY <2>2, <3>1
      <4>3. at \in Injection(1..n, these)
        BY <4>1 DEF Injection, IsInjective
      <4>4. at \in Surjection(1..n, these)
        BY <4>1, <4>2 DEF Surjection
      <4>. QED  BY <4>3, <4>4 DEF Bijection
    <3>3. ExistsBijection(1..n, these)
      BY <3>2 DEF ExistsBijection
    <3>4. IsFiniteSet(these)
      BY <3>3, FS_NatBijection
    <3>. QED  BY <3>3, <3>4, FS_CountingElements
  <2>4. PICK before : before = places(k - 1)
    OBVIOUS
  <2>5. places(k) = before \cup these
    <3>1. k - 1 \in Nat /\ \A j \in 1..k : j \in 1..(k - 1) \/ j = k
      OBVIOUS
    <3>2. \A j \in 1..(k - 1) : j \in 1..k
      OBVIOUS
    <3>3. {k} \X DOMAIN parts[k] = these
      BY <2>1, <2>2
    <3>4. ASSUME NEW q \in places(k) PROVE q \in before \cup these
      <4>1. PICK j \in 1..k : q \in {j} \X DOMAIN parts[j]
        OBVIOUS
      <4>2. CASE j = k
        BY <3>3, <4>1, <4>2
      <4>3. CASE j \in 1..(k - 1)
        BY <2>4, <4>1, <4>3
      <4>. QED  BY <3>1, <4>2, <4>3
    <3>5. these \subseteq places(k)
      <4>1. k \in 1..k
        OBVIOUS
      <4>. QED  BY <3>3, <4>1
    <3>6. ASSUME NEW q \in before PROVE q \in places(k)
      <4>1. PICK j \in 1..(k - 1) : q \in {j} \X DOMAIN parts[j]
        BY <2>4
      <4>. QED  BY <3>2, <4>1
    <3>. HIDE DEF places
    <3>. QED  BY <3>4, <3>5, <3>6
  <2>6. before \cap these = {}
    <3>1. ASSUME NEW q \in before PROVE q \notin these
      <4>1. PICK j \in 1..(k - 1) : q \in {j} \X DOMAIN parts[j]
        BY <2>4
      <4>2. q[1] = j /\ j # k
        BY <4>1
      <4>. QED  BY <2>2, <4>2
    <3>. QED  BY <3>1
  <2>7. IsFiniteSet(before) /\ Cardinality(before) = end[k - 1] /\ end[k - 1] \in Nat
    BY <1>2, <2>4
  <2>8. /\ IsFiniteSet(before \cup these)
        /\ Cardinality(before \cup these) = Cardinality(before) + Cardinality(these) - Cardinality(before \cap these)
    BY <2>3, <2>7, FS_Union
  <2>9. Cardinality({}) = 0
    BY FS_EmptySet
  <2>10. Cardinality(before \cup these) = end[k]
    <3>1. Cardinality(before \cap these) = 0
      BY <2>6, <2>9
    <3>2. Cardinality(before \cup these) = end[k - 1] + n
      BY <2>3, <2>7, <2>8, <3>1
    <3>3. end[k] = end[k - 1] + n
      BY <2>1
    <3>. QED  BY <3>2, <3>3
  <2>. QED  BY <2>5, <2>8, <2>10
<1>. HIDE DEF Counted
<1>3. \A k \in 0..m : Counted(k)
  <2>0. PICK N : N = {k \in 0..m : ~Counted(k)}
    OBVIOUS
  <2>1. N \in SUBSET Nat /\ N = {k \in 0..m : ~Counted(k)}
    BY <2>0
  <2>2. SUFFICES ASSUME N # {} PROVE FALSE
    BY <2>1
  <2>3. PICK k \in N : \A j \in N : k <= j
    BY <2>1, <2>2, Least
  <2>4. k \in 1..m /\ k - 1 \in 0..m /\ k - 1 \notin N
    BY <1>1, <2>1, <2>3
  <2>. QED  BY <1>2, <2>1, <2>3, <2>4
<1>. QED  BY <1>3 DEF Counted, RecordsUpTo

\* Each of m parts ends where `end` says, and holds what the log holds there.
Aligned(parts, end, log, m) ==
    \A k \in 1..m : /\ end[k] = end[k - 1] + Len(parts[k])
                    /\ \A n \in 1..Len(parts[k]) : parts[k][n] = log[end[k - 1] + n]

\* The first n records of a log.
UpTo(log, n) == [i \in 1..n |-> log[i]]

\* Where the parts of a log stand one behind the other, joined they are the log.
LEMMA JoinedIs ==
    ASSUME NEW S, NEW log \in Seq(S), NEW m \in Nat, NEW parts \in Seq(Seq(S)), Len(parts) = m,
           NEW end \in [0..m -> Nat], end[0] = 0, Aligned(parts, end, log, m)
    PROVE  Joined(parts) = UpTo(log, end[m])
<1>0. \A k \in 1..m : /\ end[k] = end[k - 1] + Len(parts[k])
                       /\ \A n \in 1..Len(parts[k]) : parts[k][n] = log[end[k - 1] + n]
  BY DEF Aligned
<1>1. /\ DOMAIN parts = 1..m
      /\ \A k \in 1..m : Len(parts[k]) \in Nat /\ DOMAIN parts[k] = 1..Len(parts[k])
  <2>1. DOMAIN parts = 1..m /\ \A k \in 1..m : parts[k] \in Seq(S)
    BY LenProperties
  <2>. QED  BY <2>1, LenProperties
<1>2. \A k \in 0..m : RecordsUpTo(parts, k) = end[k]
  <2>1. /\ DOMAIN parts = 1..m
        /\ \A k \in 1..m : /\ Len(parts[k]) \in Nat /\ DOMAIN parts[k] = 1..Len(parts[k])
                           /\ end[k] = end[k - 1] + Len(parts[k])
    BY <1>0, <1>1
  <2>. QED  BY ONLY m \in Nat, end \in [0..m -> Nat], end[0] = 0, <2>1, RecordsUpToIs
<1>3. PICK ends : ends = <<0>> \o [k \in 1..m |-> RecordsUpTo(parts, k)]
  OBVIOUS
<1>4. \A k \in 0..m : ends[k + 1] = end[k]
  <2>1. PICK counts : counts = [k \in 1..m |-> end[k]]
    OBVIOUS
  <2>2. [k \in 1..m |-> RecordsUpTo(parts, k)] = counts
    BY <1>2, <2>1
  <2>3. counts \in [1..m -> Nat]
    BY <2>1
  <2>4. counts \in Seq(Nat) /\ Len(counts) = m
    BY <2>3
  <2>5. <<0>> \in Seq(Nat) /\ Len(<<0>>) = 1 /\ <<0>>[1] = 0
    OBVIOUS
  <2>6. ends = <<0>> \o counts
    BY <1>3, <2>2
  <2>7. \A i \in 1..(1 + m) : ends[i] = IF i <= 1 THEN <<0>>[i] ELSE counts[i - 1]
    BY <2>4, <2>5, <2>6, ConcatProperties
  <2>8. SUFFICES ASSUME NEW k \in 0..m PROVE ends[k + 1] = end[k]
    OBVIOUS
  <2>9. k + 1 \in 1..(1 + m)
    OBVIOUS
  <2>10. CASE k = 0
    BY <2>5, <2>7, <2>9, <2>10
  <2>11. CASE k # 0
    <3>1. k \in 1..m /\ ~(k + 1 <= 1) /\ (k + 1) - 1 = k
      BY <2>11
    <3>2. ends[k + 1] = counts[(k + 1) - 1]
      BY <2>7, <2>9, <3>1
    <3>. QED  BY <2>1, <3>1, <3>2
  <2>. QED  BY <2>10, <2>11
<1>5. ASSUME NEW j \in 0..m, NEW k \in 0..m, j <= k PROVE end[j] <= end[k]
  <2>1. PICK N : N = {l \in 0..m : j <= l /\ ~(end[j] <= end[l])}
    OBVIOUS
  <2>2. N \in SUBSET Nat
    BY <2>1
  <2>3. SUFFICES ASSUME N # {} PROVE FALSE
    BY <1>5, <2>1
  <2>4. PICK l \in N : \A i \in N : l <= i
    BY <2>2, <2>3, Least
  <2>5. l \in 0..m /\ j <= l /\ ~(end[j] <= end[l])
    BY <2>1, <2>4
  <2>6. j # l
    BY <2>5
  <2>7. l \in 1..m /\ l - 1 \in 0..m /\ j <= l - 1 /\ ~(l <= l - 1)
    BY <2>5, <2>6
  <2>8. end[j] <= end[l - 1]
    BY <2>1, <2>4, <2>7
  <2>9. end[l] = end[l - 1] + Len(parts[l]) /\ Len(parts[l]) \in Nat
    BY <1>0, <1>1, <2>7
  <2>. QED  BY <2>5, <2>7, <2>8, <2>9
<1>6. ASSUME NEW i \in 1..end[m]
      PROVE  \E k \in 1..m : end[k - 1] < i /\ i <= end[k]
  <2>1. PICK N : N = {l \in 0..m : i <= end[l]}
    OBVIOUS
  <2>2. N \in SUBSET Nat /\ m \in N
    BY <2>1
  <2>3. PICK l \in N : \A j \in N : l <= j
    BY <2>2, Least
  <2>4. l \in 1..m
    BY <1>6, <2>1, <2>3
  <2>5. l - 1 \in 0..m /\ l - 1 \notin N
    BY <2>3, <2>4
  <2>6. end[l - 1] < i
    BY <1>6, <2>1, <2>5
  <2>. QED  BY <2>1, <2>3, <2>4, <2>6
<1>7. ASSUME NEW i \in 1..end[m], NEW k \in 1..m, end[k - 1] < i, i <= end[k],
             NEW j \in 1..m, end[j - 1] < i, i <= end[j]
      PROVE  j = k
  <2>1. ASSUME NEW a \in 1..m, NEW b \in 1..m, a < b, i <= end[a], end[b - 1] < i PROVE FALSE
    <3>1. a \in 0..m /\ b - 1 \in 0..m /\ a <= b - 1
      BY <2>1
    <3>2. end[a] <= end[b - 1]
      BY <1>5, <3>1
    <3>. QED  BY <2>1, <3>1, <3>2
  <2>. QED  BY <1>7, <2>1
<1>8. ASSUME NEW i \in 1..end[m]
      PROVE  LET k == CHOOSE k \in 1..m : ends[k] < i /\ i <= ends[k + 1]
             IN  parts[k][i - ends[k]] = log[i]
  <2>1. PICK k \in 1..m : end[k - 1] < i /\ i <= end[k]
    BY <1>6
  <2>2. \A j \in 1..m : ends[j] = end[j - 1] /\ ends[j + 1] = end[j]
    <3>1. \A j \in 1..m : j \in 0..m /\ j - 1 \in 0..m /\ (j - 1) + 1 = j
      OBVIOUS
    <3>. QED  BY <1>4, <3>1
  <2>3. ends[k] < i /\ i <= ends[k + 1]
    BY <2>1, <2>2
  <2>4. \A j \in 1..m : ends[j] < i /\ i <= ends[j + 1] => j = k
    BY <1>7, <2>1, <2>2
  <2>5. (CHOOSE j \in 1..m : ends[j] < i /\ i <= ends[j + 1]) = k
    BY <2>3, <2>4
  <2>6. PICK n \in 1..Len(parts[k]) : n = i - end[k - 1] /\ end[k - 1] + n = i
    <3>1. end[k] = end[k - 1] + Len(parts[k]) /\ Len(parts[k]) \in Nat /\ end[k - 1] \in Nat
      <4>1. k - 1 \in 0..m
        OBVIOUS
      <4>. QED  BY <1>0, <1>1, <4>1
    <3>2. i - end[k - 1] \in 1..Len(parts[k]) /\ end[k - 1] + (i - end[k - 1]) = i
      BY <2>1, <3>1
    <3>. QED  BY <3>2
  <2>7. parts[k][n] = log[i]
    BY <1>0, <2>6
  <2>. QED  BY <2>2, <2>5, <2>6, <2>7
<1>9. m \in 0..m
  OBVIOUS
<1>10. ends[m + 1] = end[m]
  BY <1>4, <1>9
<1>. QED  BY <1>3, <1>8, <1>10 DEF Joined, UpTo

\* What can be read off the files is what was played and not undone.
LEMMA FilesHoldTheLog ==
    ASSUME JournalInv
    PROVE  Reconstructed = aux_log
<1>0. ChainInv /\ TypeInv /\ Journal(saved, files, aux_marks, aux_log)
  BY DEF JournalInv, ChainInv
<1>1. PICK depth \in Nat : depth = Len(saved.stack)
  BY <1>0, JournalTypes
<1>2. PICK gone \in Nat : gone = Gone(saved, aux_log) /\ gone = Len(aux_log) - Len(saved.history)
  BY <1>0, JournalTypes DEF Journal
<1>3. PICK parts : parts = Evictions
  OBVIOUS
<1>4. /\ \A k \in 1..depth : parts[k] = FileOf(saved, files, k).evicted
      /\ parts \in Seq(Seq(TurnRecord)) /\ Len(parts) = depth
  <2>1. parts = [k \in 1..depth |-> FileOf(saved, files, k).evicted]
    BY <1>1, <1>3 DEF Evictions, FileOf
  <2>2. \A k \in 1..depth : FileOf(saved, files, k).evicted \in Seq(TurnRecord)
    BY <1>0, <1>1, KeptFileType
  <2>3. parts \in [1..depth -> Seq(TurnRecord)]
    BY <2>1, <2>2
  <2>. QED  BY <2>1, <2>3
<1>5. PICK end : end = [k \in 0..depth |-> IF k = 0 THEN 0 ELSE EndOf(saved, files, aux_marks, k)]
  OBVIOUS
<1>6. ASSUME NEW k \in 1..depth
      PROVE  /\ Covers(saved, files, aux_marks, aux_log, k)
             /\ Len(parts[k]) \in Nat
             /\ end[k] = aux_marks[k].from + Len(parts[k])
             /\ aux_marks[k].from \in Nat
             /\ end[k - 1] = aux_marks[k].from
  <2>1. Covers(saved, files, aux_marks, aux_log, k)
    BY <1>0, <1>1 DEF Journal
  <2>2. Len(parts[k]) \in Nat
    BY <1>0, <1>1, <1>4, KeptFileType
  <2>3. end[k] = aux_marks[k].from + Len(parts[k])
    BY <1>4, <1>5 DEF EndOf
  <2>4. aux_marks[k].from \in Nat
    BY <2>1 DEF Covers
  <2>5. end[k - 1] = aux_marks[k].from
    <3>1. aux_marks[k].from = IF k = 1 THEN 0 ELSE EndOf(saved, files, aux_marks, k - 1)
      BY <2>1 DEF Covers
    <3>2. k - 1 \in 0..depth /\ (k = 1 <=> k - 1 = 0)
      OBVIOUS
    <3>. QED  BY <1>5, <3>1, <3>2
  <2>. QED  BY <2>1, <2>2, <2>3, <2>4, <2>5
<1>7. /\ end \in [0..depth -> Nat] /\ end[0] = 0
      /\ \A k \in 1..depth : /\ end[k] = end[k - 1] + Len(parts[k])
                             /\ \A n \in 1..Len(parts[k]) : parts[k][n] = aux_log[end[k - 1] + n]
  <2>1. end[0] = 0
    BY <1>5
  <2>2. \A k \in 0..depth : end[k] \in Nat
    <3>1. SUFFICES ASSUME NEW k \in 0..depth PROVE end[k] \in Nat
      OBVIOUS
    <3>2. CASE k = 0
      BY <2>1, <3>2
    <3>3. CASE k \in 1..depth
      BY <1>6, <3>3
    <3>. QED  BY <3>2, <3>3
  <2>3. end \in [0..depth -> Nat]
    BY <1>5, <2>2
  <2>4. ASSUME NEW k \in 1..depth, NEW n \in 1..Len(parts[k])
        PROVE  parts[k][n] = aux_log[end[k - 1] + n]
    <3>1. Covers(saved, files, aux_marks, aux_log, k) /\ end[k - 1] = aux_marks[k].from
      BY <1>6
    <3>2. parts[k] = FileOf(saved, files, k).evicted
      BY <1>4
    <3>3. n \in 1..Len(FileOf(saved, files, k).evicted)
      BY <2>4, <3>2
    <3>4. FileOf(saved, files, k).evicted[n] = aux_log[aux_marks[k].from + n]
      BY <3>1, <3>3 DEF Covers
    <3>. QED  BY <3>1, <3>2, <3>4
  <2>. QED  BY <1>6, <2>1, <2>3, <2>4
<1>8. end[depth] = gone
  <2>1. gone = IF depth = 0 THEN 0 ELSE EndOf(saved, files, aux_marks, depth)
    BY <1>0, <1>1, <1>2 DEF Journal
  <2>. QED  BY <1>5, <2>1
<1>9. aux_log \in Seq(TurnRecord) /\ saved.history \in Seq(TurnRecord)
      /\ Len(aux_log) \in Nat /\ Len(saved.history) \in Nat
  BY <1>0, JournalTypes
<1>10. Joined(parts) = [i \in 1..gone |-> aux_log[i]]
  <2>1. PICK R, log : R = TurnRecord /\ log = aux_log
    OBVIOUS
  <2>2. /\ log \in Seq(R) /\ parts \in Seq(Seq(R)) /\ Len(parts) = depth /\ depth \in Nat
        /\ end \in [0..depth -> Nat] /\ end[0] = 0
    BY <1>4, <1>7, <1>9, <2>1
  <2>3. \A k \in 1..depth : /\ end[k] = end[k - 1] + Len(parts[k])
                             /\ \A n \in 1..Len(parts[k]) : parts[k][n] = log[end[k - 1] + n]
    BY <1>7, <2>1
  <2>4. Joined(parts) = UpTo(log, end[depth])
    <3>1. Aligned(parts, end, log, depth)
      BY <2>3 DEF Aligned
    <3>. QED  BY ONLY <2>2, <3>1, JoinedIs
  <2>. QED  BY <1>8, <2>1, <2>4 DEF UpTo
<1>11. /\ Joined(parts) \in Seq(TurnRecord) /\ Len(Joined(parts)) = gone
       /\ \A i \in 1..gone : Joined(parts)[i] = aux_log[i]
  <2>1. \A i \in 1..gone : aux_log[i] \in TurnRecord
    BY <1>2, <1>9, ElementOfSeq
  <2>2. Joined(parts) \in [1..gone -> TurnRecord]
    BY <1>10, <2>1
  <2>. QED  BY <1>10, <2>2
<1>12. PICK told : told = Joined(parts) \o saved.history
  OBVIOUS
<1>13. /\ told \in Seq(TurnRecord) /\ Len(told) = Len(aux_log)
       /\ \A i \in 1..Len(aux_log) : told[i] = IF i <= gone THEN Joined(parts)[i] ELSE saved.history[i - gone]
  <2>1. gone + Len(saved.history) = Len(aux_log)
    BY <1>2, <1>9
  <2>2. /\ told \in Seq(TurnRecord) /\ Len(told) = Len(Joined(parts)) + Len(saved.history)
        /\ \A i \in 1..Len(Joined(parts)) + Len(saved.history) :
             told[i] = IF i <= Len(Joined(parts)) THEN Joined(parts)[i]
                       ELSE saved.history[i - Len(Joined(parts))]
    BY <1>9, <1>11, <1>12, ConcatProperties
  <2>. QED  BY <1>11, <2>1, <2>2
<1>14. ASSUME NEW i \in 1..Len(aux_log) PROVE told[i] = aux_log[i]
  <2>1. CASE i <= gone
    BY <1>11, <1>13, <2>1
  <2>2. CASE ~(i <= gone)
    <3>1. PICK n \in 1..Len(saved.history) : n = i - gone /\ gone + n = i
      <4>1. i - gone \in 1..Len(saved.history) /\ gone + (i - gone) = i
        <5>1. PICK nlog, nlive \in Nat : nlog = Len(aux_log) /\ nlive = Len(saved.history)
          BY <1>9
        <5>2. gone = nlog - nlive /\ i \in 1..nlog
          BY <1>2, <5>1
        <5>3. i - gone \in 1..nlive
          BY ONLY <2>2, <5>2, gone \in Nat, nlive \in Nat, nlog \in Nat
        <5>4. gone + (i - gone) = i
          BY ONLY <5>2, gone \in Nat, nlog \in Nat
        <5>5. i - gone \in 1..Len(saved.history)
          BY <5>1, <5>3, Zenon
        <5>. QED  BY <5>4, <5>5, Zenon
      <4>. QED  BY <4>1
    <3>2. saved.history[n] = aux_log[gone + n]
      BY <1>0, <1>2 DEF Journal
    <3>. QED  BY <1>13, <2>2, <3>1, <3>2
  <2>. QED  BY <2>1, <2>2
<1>15. told = aux_log
  BY <1>9, <1>13, <1>14, SeqEqual
<1>. QED  BY <1>3, <1>12, <1>15 DEF Reconstructed

\* The session implements Story: what its state and its checkpoints hold grows by
\* whole beats and is taken back by whole beats, newest first; compacting,
\* restoring, failing and crashing do not change it.
THEOREM StoryIsKept == Spec => ImplementsStory
<1>. DEFINE Same == Reconstructed = aux_log
<1>1. Spec => []Same
  BY FilesHoldTheLog, JournalInvariant, PTL
<1>2. Same /\ Told!Init => Promise!Init
  BY DEF Told!Init, Promise!Init
<1>3. Same /\ Same' /\ [Told!Next]_aux_log => [Promise!Next]_Reconstructed
  <2>1. SUFFICES ASSUME Same, Same', [Told!Next]_aux_log PROVE [Promise!Next]_Reconstructed
    OBVIOUS
  <2>. HIDE DEF Same
  <2>2. Reconstructed = aux_log /\ Reconstructed' = aux_log'
    BY <2>1 DEF Same
  <2>3. CASE Told!Tell
    BY <2>2, <2>3, Zenon DEF Told!Tell, Promise!Tell, Promise!Next
  <2>4. CASE Told!TakeBack
    BY <2>2, <2>4, Zenon DEF Told!TakeBack, Promise!TakeBack, Promise!Next
  <2>5. CASE UNCHANGED aux_log
    BY <2>2, <2>5
  <2>. QED  BY <2>1, <2>3, <2>4, <2>5 DEF Told!Next
<1>. QED  BY <1>1, <1>2, <1>3, LogTellsAStory, PTL DEF ImplementsStory, Promise!Spec, Told!Spec

-----------------------------------------------------------------------------
(* The state of the plugins a compaction changes *)

\* A path of a tree is cut by its prefixes, each of them a path.
LEMMA Cut ==
    ASSUME NEW q \in Paths, NEW n \in 0..Len(q)
    PROVE  /\ SubSeq(q, 1, n) \in Paths
           /\ Len(SubSeq(q, 1, n)) = n
           /\ \A m \in 0..n : SubSeq(SubSeq(q, 1, n), 1, m) = SubSeq(q, 1, m)
           /\ IsPrefix(SubSeq(q, 1, n), q)
<1>. USE DEF Paths
<1>1. Len(q) \in Nat /\ n \in Nat
  OBVIOUS
<1>2. SubSeq(q, 1, n) \in Seq(Keys) /\ Len(SubSeq(q, 1, n)) = n
  BY <1>1
<1>3. ASSUME NEW m \in 0..n
      PROVE  SubSeq(SubSeq(q, 1, n), 1, m) = SubSeq(q, 1, m)
  BY <1>1, <1>2, <1>3
<1>4. IsPrefix(SubSeq(q, 1, n), q)
  BY <1>1, <1>2, <1>3 DEF IsPrefix
<1>. QED  BY <1>2, <1>3, <1>4

\* A difference shows at the place of the delta nearest to the root: where no
\* operation lies at or above a path, the two trees agree on it.
LEMMA AgreeElsewhere ==
    ASSUME NEW before, NEW after, IsTree(before), IsTree(after),
           NEW q \in DOMAIN before \cup DOMAIN after,
           \A p \in Changed(before, after) : ~IsPrefix(p, q)
    PROVE  q \in DOMAIN before /\ q \in DOMAIN after /\ before[q] = after[q]
<1>1. q \in Paths /\ Len(q) \in Nat /\ SubSeq(q, 1, Len(q)) = q
  BY DEF IsTree, Paths
<1>2. SUFFICES ASSUME Differs(before, after, q)  PROVE FALSE
  BY DEF Differs
<1>. DEFINE N == {n \in 0..Len(q) : Differs(before, after, SubSeq(q, 1, n))}
<1>3. N \in SUBSET Nat /\ N # {}
  <2>1. Len(q) \in 0..Len(q) /\ Differs(before, after, SubSeq(q, 1, Len(q)))
    <3>1. Len(q) \in 0..Len(q)
      BY <1>1
    <3>2. Differs(before, after, SubSeq(q, 1, Len(q)))
      BY <1>1, <1>2, Zenon
    <3>. QED  BY <3>1, <3>2
  <2>2. N \subseteq 0..Len(q) /\ 0..Len(q) \subseteq Nat
    BY <1>1
  <2>. QED  BY <2>1, <2>2
<1>4. PICK n \in N : \A m \in N : n <= m
  <2>. HIDE DEF N
  <2>1. PICK n \in N : \A m \in N : <<m, n>> \notin OpToRel(<, Nat)
    BY <1>3, WFMin, NatLessThanWellFounded, Zenon
  <2>2. ASSUME NEW m \in N  PROVE n <= m
    <3>1. n \in Nat /\ m \in Nat
      BY <1>3, <2>1
    <3>2. m < n => <<m, n>> \in OpToRel(<, Nat)
      BY <3>1 DEF OpToRel
    <3>3. ~(m < n)
      BY <2>1, <3>2
    <3>. QED  BY <3>1, <3>3
  <2>. QED  BY <2>2
<1>. DEFINE p == SubSeq(q, 1, n)
<1>5. n \in 0..Len(q) /\ Differs(before, after, p)
  BY <1>4
<1>6. /\ p \in Paths /\ Len(p) = n /\ IsPrefix(p, q)
      /\ \A m \in 0..n : SubSeq(p, 1, m) = SubSeq(q, 1, m)
  BY <1>1, <1>5, Cut
<1>7. p \in DOMAIN before \cup DOMAIN after
  BY <1>5 DEF Differs
<1>8. ASSUME NEW above \in Above(p)
      PROVE  ObjectIn(before, above) /\ ObjectIn(after, above)
  <2>1. ObjectIn(before, above) \/ ObjectIn(after, above)
    BY <1>7, <1>8 DEF IsTree, ObjectIn
  <2>2. ~Differs(before, after, above)
    <3>1. PICK m \in 0..Len(p) - 1 : above = SubSeq(p, 1, m)
      BY <1>8 DEF Above
    <3>2. m \in 0..Len(q) /\ m \in 0..n /\ m < n
      BY <1>1, <1>5, <1>6
    <3>3. m \notin N /\ above = SubSeq(q, 1, m)
      BY <1>4, <1>6, <3>1, <3>2
    <3>. QED  BY <3>2, <3>3
  <2>. QED  BY <2>1, <2>2 DEF Differs, ObjectIn
<1>9. p \in Changed(before, after)
  BY <1>5, <1>7, <1>8 DEF Changed
<1>. QED  BY <1>6, <1>9

\* While nothing has touched the plugins' state since the compaction, no
\* operation of its delta is in conflict and restoring it leaves exactly the
\* state of before (invert_plugin_delta after build_plugin_delta).
THEOREM RestoreGivesBack ==
    ASSUME NEW before, NEW after, IsTree(before), IsTree(after),
           before = [q \in DOMAIN before |-> before[q]]
    PROVE  /\ Conflicts(after, Delta(before, after)) = {}
           /\ Inverted(after, Delta(before, after)) = before
<1>. DEFINE ops == Delta(before, after)
            changed == Changed(before, after)
            kept == {q \in DOMAIN after : \A o \in ops : ~IsPrefix(o.path, q)}
            given == UNION {DOMAIN o.before : o \in ops}
            opened == UNION {Above(o.path) : o \in ops}
            Old(q) == (CHOOSE o \in ops : q \in DOMAIN o.before).before[q]
<1>1. Conflicts(after, ops) = {}
  BY DEF Conflicts, Delta
<1>2. ASSUME NEW o \in ops
      PROVE  /\ o.path \in changed /\ o.path \in Paths
             /\ DOMAIN o.before = {q \in DOMAIN before : IsPrefix(o.path, q)}
             /\ \A q \in DOMAIN o.before : o.before[q] = before[q]
  <2>1. PICK p \in changed : /\ o.path = p
                             /\ o.before = Lookup(before, p)
    BY <1>2 DEF Delta
  <2>2. p \in Paths
    BY <2>1 DEF Changed, IsTree
  <2>. QED  BY <2>1, <2>2 DEF Lookup
<1>3. ASSUME NEW p \in changed
      PROVE  \E o \in ops : o.path = p
  <2>. DEFINE o == [path |-> p, before |-> Lookup(before, p), after |-> Lookup(after, p)]
  <2>1. o \in ops /\ o.path = p
    BY <1>3 DEF Delta
  <2>. QED  BY <2>1
<1>4. ASSUME NEW q \in kept
      PROVE  q \in DOMAIN before /\ after[q] = before[q]
  <2>1. \A p \in changed : ~IsPrefix(p, q)
    BY <1>3, <1>4
  <2>. QED  BY <1>4, <2>1, AgreeElsewhere
<1>5. ASSUME NEW q \in given
      PROVE  q \in DOMAIN before /\ Old(q) = before[q]
  <2>1. \E o \in ops : q \in DOMAIN o.before
    BY <1>5
  <2>2. PICK o \in ops : q \in DOMAIN o.before /\ Old(q) = o.before[q]
    BY <2>1
  <2>. QED  BY <1>2, <2>2
<1>6. ASSUME NEW q \in opened
      PROVE  q \in DOMAIN before /\ before[q] = Dict
  <2>1. PICK o \in ops : q \in Above(o.path)
    BY <1>6
  <2>. QED  BY <1>2, <2>1 DEF Changed, ObjectIn
<1>7. ASSUME NEW q \in DOMAIN before
      PROVE  q \in kept \cup given
  <2>1. CASE \E o \in ops : IsPrefix(o.path, q)
    BY <1>2, <1>7, <2>1
  <2>2. CASE \A o \in ops : ~IsPrefix(o.path, q)
    <3>1. \A p \in changed : ~IsPrefix(p, q)
      BY <1>3, <2>2
    <3>2. q \in DOMAIN after
      BY <1>7, <3>1, AgreeElsewhere
    <3>. QED  BY <2>2, <3>2
  <2>. QED  BY <2>1, <2>2
<1>8. kept \cup given \cup opened = DOMAIN before
  BY <1>4, <1>5, <1>6, <1>7
<1>9. Inverted(after, ops) =
        [q \in kept \cup given \cup opened |->
            IF q \in given THEN Old(q) ELSE IF q \in opened THEN Dict ELSE after[q]]
  BY <1>1 DEF Inverted
<1>10. ASSUME NEW q \in DOMAIN before
       PROVE  (IF q \in given THEN Old(q) ELSE IF q \in opened THEN Dict ELSE after[q])
                = before[q]
  BY <1>4, <1>5, <1>6, <1>7
<1>. HIDE DEF kept, given, opened, Old, ops
<1>11. Inverted(after, ops) = [q \in DOMAIN before |-> before[q]]
  BY <1>8, <1>9, <1>10
<1>. QED  BY <1>1, <1>11 DEF ops
=============================================================================
