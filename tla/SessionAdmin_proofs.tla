------------------------ MODULE SessionAdmin_proofs ------------------------
(***************************************************************************)
(* No edit replaces what its author has not seen, and undoing presence      *)
(* edits walks back through lists that stood: for any cast, any clients and *)
(* any number of commits.  The second part is about a client, the browser   *)
(* page (WebClient): what it shows is the session's history, for any        *)
(* sessions and any number of operations in flight.                         *)
(***************************************************************************)
EXTENDS SessionAdmin, WebClient, SequenceTheorems, FiniteSetTheorems, TLAPS

\* A revision stands for one state: who has read the newest has read this one.
RevisionsIdentify ==
    \A client \in Clients :
        /\ view[client].revision <= saved.revision
        /\ view[client].revision = saved.revision => view[client] = saved

AdminInv == TypeOK /\ RevisionsIdentify /\ EditsReplaceWhatTheySaw /\ PresenceUndoWalksBack

\* What there is below the newest, and the newest.
LEMMA Shorter ==
    ASSUME NEW S, NEW s \in Seq(S), s # <<>>
    PROVE  /\ Older(s) \in Seq(S) /\ Len(Older(s)) = Len(s) - 1
           /\ \A i \in 1..Len(s) - 1 : Older(s)[i] = s[i]
           /\ Newest(s) \in S
<1>1. Len(s) \in Nat \ {0} /\ 1..Len(s) - 1 \subseteq 1..Len(s)
  BY EmptySeq, LenProperties
<1>2. Older(s) = SubSeq(s, 1, Len(s) - 1)
  BY DEF Older
<1>3. Older(s) \in Seq(S) /\ Len(Older(s)) = Len(s) - 1
  <2>1. \A i \in 1..Len(s) - 1 : s[i] \in S
    BY <1>1
  <2>2. Older(s) = [i \in 1..Len(s) - 1 |-> s[i]]
    BY <1>1, <1>2
  <2>. QED  BY <1>1, <2>1, <2>2
<1>4. \A i \in 1..Len(s) - 1 : Older(s)[i] = s[i]
  BY <1>1, <1>2
<1>5. Newest(s) \in S
  BY <1>1 DEF Newest
<1>. QED  BY <1>3, <1>4, <1>5

\* A commit, field by field.
Commits(present, controlled, sheet, turns, stack) ==
    saved' = [saved EXCEPT !.revision = saved.revision + 1, !.present = present,
                           !.controlled = controlled, !.sheet = sheet,
                           !.turns = turns, !.presence_edit_stack = stack]

LEMMA Committed ==
    ASSUME saved \in GameState, NEW present \in SUBSET Characters, NEW controlled \in Characters,
           NEW sheet \in Sheets, NEW turns \in Seq(SUBSET Characters),
           NEW stack \in Seq(PresenceEditEntry),
           Commits(present, controlled, sheet, turns, stack)
    PROVE  /\ saved' \in GameState
           /\ saved'.revision = saved.revision + 1
           /\ saved'.present = present
           /\ saved'.presence_edit_stack = stack
<1>1. saved.revision + 1 \in Nat
  BY DEF GameState
<1>2. saved' = [revision |-> saved.revision + 1, present |-> present,
                controlled |-> controlled, sheet |-> sheet, turns |-> turns,
                presence_edit_stack |-> stack]
  BY DEF Commits, GameState
<1>. QED  BY <1>1, <1>2 DEF GameState

\* What a field of the saved state is.
Fields ==
    /\ saved \in GameState /\ saved.present \in SUBSET Characters
    /\ saved.controlled \in Characters /\ saved.sheet \in Sheets
    /\ saved.turns \in Seq(SUBSET Characters)
    /\ saved.presence_edit_stack \in Seq(PresenceEditEntry)

LEMMA TheFields == AdminInv => Fields
  BY DEF AdminInv, TypeOK, GameState, Fields

-----------------------------------------------------------------------------
LEMMA AdminInit == Init => AdminInv
<1>. SUFFICES ASSUME Init  PROVE AdminInv
  OBVIOUS
<1>1. saved \in GameState /\ saved.presence_edit_stack = <<>>
  BY StartAssumption DEF Init, GameState
<1>2. TypeOK
  BY <1>1 DEF Init, TypeOK
<1>3. RevisionsIdentify
  BY <1>1 DEF Init, RevisionsIdentify, GameState
<1>. QED  BY <1>1, <1>2, <1>3 DEF Init, AdminInv, EditsReplaceWhatTheySaw, PresenceUndoWalksBack

LEMMA GetStateKeeps ==
    ASSUME AdminInv, NEW client \in Clients, GetState(client)
    PROVE  AdminInv'
<1>1. TypeOK'
  BY DEF AdminInv, TypeOK, GetState
<1>2. RevisionsIdentify'
  BY DEF AdminInv, TypeOK, RevisionsIdentify, GetState, GameState
<1>. QED  BY <1>1, <1>2 DEF AdminInv, GetState, EditsReplaceWhatTheySaw, PresenceUndoWalksBack

\* A commit makes every view an old one.
LEMMA CommitOutdates ==
    ASSUME AdminInv, saved'.revision = saved.revision + 1, UNCHANGED view
    PROVE  RevisionsIdentify'
  BY DEF AdminInv, TypeOK, RevisionsIdentify, GameState

\* What changes the presence but not the stack breaks off the walk back.
LEMMA BreaksKeep ==
    ASSUME AdminInv, NEW present, Breaks(present), saved' \in GameState,
           saved'.present = present,
           saved'.presence_edit_stack = saved.presence_edit_stack
    PROVE  /\ PresenceUndoWalksBack'
           /\ aux_broken' \in 0..Len(saved'.presence_edit_stack)
<1>1. saved.presence_edit_stack \in Seq(PresenceEditEntry)
  BY DEF AdminInv, TypeOK, GameState
<1>2. CASE present = saved.present
  BY <1>2 DEF Breaks, AdminInv, TypeOK, PresenceUndoWalksBack
<1>3. CASE present # saved.present
  BY <1>1, <1>3 DEF Breaks, PresenceUndoWalksBack
<1>. QED  BY <1>2, <1>3

LEMMA TurnKeeps ==
    ASSUME AdminInv, NEW present \in SUBSET Characters, Turn(present)
    PROVE  AdminInv'
<1>1. /\ saved' \in GameState /\ saved'.revision = saved.revision + 1
      /\ saved'.present = present
      /\ saved'.presence_edit_stack = saved.presence_edit_stack
  <2>1. Fields /\ Append(saved.turns, saved.present) \in Seq(SUBSET Characters)
    BY TheFields DEF Fields
  <2>2. Commits(present, saved.controlled, saved.sheet, Append(saved.turns, saved.present),
              saved.presence_edit_stack)
    BY <2>1 DEF Turn, Fields, Commits, GameState
  <2>. QED
    <3>. DEFINE turns == Append(saved.turns, saved.present)
    <3>1. turns \in Seq(SUBSET Characters)
      BY <2>1
    <3>2. Commits(present, saved.controlled, saved.sheet, turns, saved.presence_edit_stack)
      BY <2>2
    <3>. HIDE DEF turns
    <3>. QED  BY <2>1, <3>1, <3>2, Committed DEF Fields
<1>2. RevisionsIdentify'
  BY <1>1, CommitOutdates DEF Turn
<1>3. PresenceUndoWalksBack' /\ aux_broken' \in 0..Len(saved'.presence_edit_stack)
  BY <1>1, BreaksKeep DEF Turn
<1>. QED  BY <1>1, <1>2, <1>3 DEF AdminInv, TypeOK, Turn, EditsReplaceWhatTheySaw

LEMMA UndoTurnKeeps ==
    ASSUME AdminInv, UndoTurn
    PROVE  AdminInv'
<1>1. saved \in GameState /\ saved.turns \in Seq(SUBSET Characters) /\ saved.turns # <<>>
  BY DEF AdminInv, TypeOK, UndoTurn, GameState
<1>2. Older(saved.turns) \in Seq(SUBSET Characters) /\ Newest(saved.turns) \in SUBSET Characters
  BY <1>1, Shorter
<1>3. /\ saved' \in GameState /\ saved'.revision = saved.revision + 1
      /\ saved'.present = Newest(saved.turns)
      /\ saved'.presence_edit_stack = saved.presence_edit_stack
  <2>1. Commits(Newest(saved.turns), saved.controlled, saved.sheet, Older(saved.turns),
              saved.presence_edit_stack)
    BY <1>1 DEF UndoTurn, RevisionAfterUndo, Commits, GameState
  <2>. QED  BY <1>2, <2>1, TheFields, Committed DEF Fields
<1>4. RevisionsIdentify'
  BY <1>3, CommitOutdates DEF UndoTurn
<1>5. PresenceUndoWalksBack' /\ aux_broken' \in 0..Len(saved'.presence_edit_stack)
  BY <1>3, BreaksKeep DEF UndoTurn
<1>. QED  BY <1>3, <1>4, <1>5 DEF AdminInv, TypeOK, UndoTurn, EditsReplaceWhatTheySaw

LEMMA UpdateKeeps ==
    ASSUME AdminInv, NEW client \in Clients, NEW present \in SUBSET Characters,
           NEW controlled \in Characters, NEW sheet \in Sheets,
           update_session_setup(client, present, controlled, sheet)
    PROVE  AdminInv'
<1>1. saved \in GameState /\ view[client] \in GameState
  BY DEF AdminInv, TypeOK
<1>2. /\ saved' \in GameState /\ saved'.revision = saved.revision + 1
      /\ saved'.present = present
      /\ saved'.presence_edit_stack = saved.presence_edit_stack
  <2>1. Commits(present, controlled, sheet, saved.turns,
              saved.presence_edit_stack)
    BY <1>1 DEF update_session_setup, Commits, GameState
  <2>. QED  BY <2>1, TheFields, Committed DEF Fields
<1>3. RevisionsIdentify'
  BY <1>2, CommitOutdates DEF update_session_setup
<1>4. PresenceUndoWalksBack' /\ aux_broken' \in 0..Len(saved'.presence_edit_stack)
  BY <1>2, BreaksKeep DEF update_session_setup
<1>5. aux_edit' = [seen |-> view[client], replaced |-> saved] /\ view[client] = saved
  BY DEF AdminInv, RevisionsIdentify, update_session_setup, Edited, UpToDate
<1>6. TypeOK'
  BY <1>1, <1>2, <1>4, <1>5 DEF AdminInv, TypeOK, update_session_setup
<1>7. EditsReplaceWhatTheySaw'
  BY <1>5 DEF EditsReplaceWhatTheySaw
<1>. QED  BY <1>3, <1>4, <1>6, <1>7 DEF AdminInv

\* An edit begins where the newest one left off, if nothing came between.
LEMMA SetPresenceKeeps ==
    ASSUME AdminInv, NEW client \in Clients, NEW present \in SUBSET Characters,
           set_presence(client, present)
    PROVE  AdminInv'
<1>. DEFINE stack == saved.presence_edit_stack
            entry == [before |-> saved.present, after |-> present]
<1>1. /\ saved \in GameState /\ view[client] \in GameState
      /\ stack \in Seq(PresenceEditEntry) /\ aux_broken \in 0..Len(stack)
  BY DEF AdminInv, TypeOK, GameState
<1>2. entry \in PresenceEditEntry
  BY <1>1 DEF PresenceEditEntry, GameState
<1>3. /\ Append(stack, entry) \in Seq(PresenceEditEntry)
      /\ Len(Append(stack, entry)) = Len(stack) + 1
      /\ \A i \in 1..Len(stack) : Append(stack, entry)[i] = stack[i]
      /\ Append(stack, entry)[Len(stack) + 1] = entry
  BY <1>1, <1>2, AppendProperties
<1>4. /\ Commits(present, saved.controlled, saved.sheet, saved.turns,
              Append(stack, entry))
      /\ aux_broken' = aux_broken /\ view' = view
  BY <1>1 DEF set_presence, EditEntry, Commits, GameState
<1>5. /\ saved' \in GameState /\ saved'.revision = saved.revision + 1
      /\ saved'.present = present
      /\ saved'.presence_edit_stack = Append(stack, entry)
  BY <1>3, <1>4, TheFields, Committed DEF Fields
<1>6. RevisionsIdentify'
  BY <1>4, <1>5, CommitOutdates
<1>7. aux_edit' = [seen |-> view[client], replaced |-> saved] /\ view[client] = saved
  BY DEF AdminInv, RevisionsIdentify, set_presence, Edited, UpToDate
<1>8. TypeOK'
  BY <1>1, <1>3, <1>4, <1>5, <1>7 DEF AdminInv, TypeOK
<1>9. EditsReplaceWhatTheySaw'
  BY <1>7 DEF EditsReplaceWhatTheySaw
<1>10. PresenceUndoWalksBack'
  <2>1. SUFFICES ASSUME NEW k \in aux_broken + 1..Len(stack) + 1
                 PROVE  Append(stack, entry)[k].after =
                          (IF k = Len(stack) + 1 THEN present ELSE Append(stack, entry)[k + 1].before)
    BY <1>3, <1>4, <1>5 DEF PresenceUndoWalksBack
  <2>2. CASE k = Len(stack) + 1
    BY <1>3, <2>2
  <2>3. CASE k = Len(stack)
    <3>1. k \in aux_broken + 1..Len(stack) /\ k \in 1..Len(stack)
      BY <1>1, <2>3
    <3>2. stack[k].after = saved.present
      BY <2>3, <3>1 DEF AdminInv, PresenceUndoWalksBack
    <3>. QED  BY <1>1, <1>3, <2>3, <3>1, <3>2
  <2>4. CASE k < Len(stack)
    <3>1. k \in aux_broken + 1..Len(stack) /\ k \in 1..Len(stack) /\ k + 1 \in 1..Len(stack)
      BY <1>1, <2>4
    <3>2. stack[k].after = stack[k + 1].before
      BY <2>4, <3>1 DEF AdminInv, PresenceUndoWalksBack
    <3>. QED  BY <1>1, <1>3, <2>4, <3>1, <3>2
  <2>. QED  BY <1>1, <2>2, <2>3, <2>4
<1>. QED  BY <1>6, <1>8, <1>9, <1>10 DEF AdminInv

LEMMA UndoEditKeeps ==
    ASSUME AdminInv, undo_last_presence_edit
    PROVE  AdminInv'
<1>. DEFINE stack == saved.presence_edit_stack
<1>1. /\ saved \in GameState /\ stack # <<>>
      /\ stack \in Seq(PresenceEditEntry) /\ aux_broken \in 0..Len(stack)
  BY DEF AdminInv, TypeOK, GameState, undo_last_presence_edit
<1>2. /\ Older(stack) \in Seq(PresenceEditEntry) /\ Len(Older(stack)) = Len(stack) - 1
      /\ \A i \in 1..Len(stack) - 1 : Older(stack)[i] = stack[i]
      /\ Newest(stack) \in PresenceEditEntry /\ Newest(stack) = stack[Len(stack)]
  BY <1>1, Shorter DEF Newest
<1>3. /\ Commits(Newest(stack).before, saved.controlled, saved.sheet, saved.turns,
              Older(stack))
      /\ aux_broken' = IF Len(stack) - 1 < aux_broken THEN Len(stack) - 1 ELSE aux_broken
      /\ view' = view /\ aux_edit' = aux_edit
  BY <1>1 DEF undo_last_presence_edit, WithoutNewestEdit, Commits, GameState
<1>4. /\ saved' \in GameState /\ saved'.revision = saved.revision + 1
      /\ saved'.present = Newest(stack).before
      /\ saved'.presence_edit_stack = Older(stack)
  <2>1. Newest(stack).before \in SUBSET Characters
    BY <1>2 DEF PresenceEditEntry
  <2>. QED  BY <1>2, <1>3, <2>1, TheFields, Committed DEF Fields
<1>5. RevisionsIdentify'
  BY <1>3, <1>4, CommitOutdates
<1>6. TypeOK'
  BY <1>1, <1>2, <1>3, <1>4 DEF AdminInv, TypeOK
<1>7. PresenceUndoWalksBack'
  <2>1. SUFFICES ASSUME NEW k \in aux_broken' + 1..Len(stack) - 1
                 PROVE  Older(stack)[k].after =
                          (IF k = Len(stack) - 1 THEN Newest(stack).before ELSE Older(stack)[k + 1].before)
    BY <1>2, <1>4 DEF PresenceUndoWalksBack
  <2>2. k \in aux_broken + 1..Len(stack) /\ k # Len(stack) /\ k \in 1..Len(stack) - 1
    BY <1>1, <1>3
  <2>3. stack[k].after = stack[k + 1].before
    BY <2>2 DEF AdminInv, PresenceUndoWalksBack
  <2>. QED  BY <1>1, <1>2, <2>2, <2>3
<1>. QED  BY <1>3, <1>5, <1>6, <1>7 DEF AdminInv, EditsReplaceWhatTheySaw

LEMMA AdminStep == AdminInv /\ [Next]_vars => AdminInv'
<1>. SUFFICES ASSUME AdminInv, [Next]_vars  PROVE AdminInv'
  OBVIOUS
<1>1. ASSUME NEW client \in Clients, GetState(client)  PROVE AdminInv'
  BY <1>1, GetStateKeeps
<1>2. ASSUME NEW present \in SUBSET Characters, Turn(present)  PROVE AdminInv'
  BY <1>2, TurnKeeps
<1>3. CASE UndoTurn
  BY <1>3, UndoTurnKeeps
<1>4. ASSUME NEW client \in Clients, NEW present \in SUBSET Characters, set_presence(client, present)
      PROVE  AdminInv'
  BY <1>4, SetPresenceKeeps
<1>5. ASSUME NEW client \in Clients, NEW present \in SUBSET Characters,
             NEW controlled \in Characters, NEW sheet \in Sheets,
             update_session_setup(client, present, controlled, sheet)
      PROVE  AdminInv'
  BY <1>5, UpdateKeeps
<1>6. CASE undo_last_presence_edit
  BY <1>6, UndoEditKeeps
<1>7. CASE UNCHANGED vars
  BY <1>7 DEF vars, AdminInv, TypeOK, RevisionsIdentify, EditsReplaceWhatTheySaw, PresenceUndoWalksBack
<1>. QED  BY <1>1, <1>2, <1>3, <1>4, <1>5, <1>6, <1>7 DEF Next

\* The invariant holds throughout: a revision names one state, for every reader.
THEOREM AdminInvariant == Spec => []AdminInv
  BY AdminInit, AdminStep, PTL DEF Spec

\* The state has its types.
THEOREM AdminTypes == Spec => []TypeOK
<1>1. AdminInv => TypeOK
  BY DEF AdminInv
<1>. QED  BY <1>1, AdminInvariant, PTL

\* expected_revision: of any number of clients, none replaces a state it has not
\* seen, whatever turns, undos and other edits were committed meanwhile.
THEOREM NoLostEdit == Spec => []EditsReplaceWhatTheySaw
<1>1. AdminInv => EditsReplaceWhatTheySaw
  BY DEF AdminInv
<1>. QED  BY <1>1, AdminInvariant, PTL

\* The stack of presence edits is undone through lists that stood, however deep it
\* is and wherever something else came between.
THEOREM UndoWalksBack == Spec => []PresenceUndoWalksBack
<1>1. AdminInv => PresenceUndoWalksBack
  BY DEF AdminInv
<1>. QED  BY <1>1, AdminInvariant, PTL

-----------------------------------------------------------------------------
(* The page: the types of its state *)

Texts == {"typed", "input", "nothing", "narration", "reply", "deed", "line"}
Bubbles == [session : Sessions \cup {None}, turn : Nat, text : Texts]
Logs == Seq(Bubbles)
Games == [exists : BOOLEAN, history : Logs, evicted : Seq([told : Logs, kept : Logs])]
Replies == [done : BOOLEAN, history : Logs, depth : Nat, input : Bubbles, beats : Logs,
            whole : BOOLEAN, compacted : BOOLEAN]
Requests == [kind : Kinds, session : Sessions]
Tasks == [kind : Kinds \cup {None}, awaits : {None, "answer", "reload", "recover", "avatars"},
          session : Sessions \cup {None}, status : {None, "waiting", "done", "error"},
          reply : Replies, stopped : BOOLEAN]
Pages == [session : Sessions \cup {None}, depth : Nat, can_undo : BOOLEAN, failed : BOOLEAN,
          inputs : BOOLEAN, busy : BOOLEAN, locked : BOOLEAN,
          stop : Slots \cup {None}, stop_compaction : Slots \cup {None}]

\* What is asked is asked of a session.
TaskInv(t) ==
    /\ t \in Tasks
    /\ t.status = "waiting" => t.session \in Sessions /\ t.kind \in Kinds
    /\ t.awaits = "avatars" => t.status = "done"

PageTypeInv ==
    /\ server \in [Sessions -> Games] /\ page \in Pages /\ shown \in Logs /\ echo \in Int
    /\ tasks \in [Slots -> Tasks] /\ orphans \subseteq Requests /\ aux_behind \in BOOLEAN
    /\ \A i \in Slots : TaskInv(tasks[i])

LEMMA NoneIsNoSession == None \notin Sessions
BY SessionsAssumption DEF None

\* A history parts in its last turn and what was told before it.
LEMMA HistoryParts ==
    ASSUME NEW h \in Logs, h # <<>>
    PROVE  Before(h) \in Logs /\ Latest(h) \in Logs
<1>1. Len(h) \in Nat /\ DOMAIN h = 1..Len(h) /\ \A i \in 1..Len(h) : h[i] \in Bubbles
  BY LenProperties DEF Logs
<1>2. LastTurn(h) \in SUBSET (1..Len(h))
  BY <1>1 DEF LastTurn
<1>3. IsFiniteSet(1..Len(h)) /\ Cardinality(1..Len(h)) = Len(h)
  BY <1>1, FS_Interval
<1>4. Cardinality(LastTurn(h)) \in Nat /\ Cardinality(LastTurn(h)) <= Len(h)
  BY <1>2, <1>3, FS_Subset, FS_CardinalityType
<1>5. PICK n \in 0..Len(h) : n = Len(h) - Cardinality(LastTurn(h))
  <2>1. PICK m \in Nat : m = Cardinality(LastTurn(h)) /\ m <= Len(h)
    BY <1>4
  <2>. QED  BY <1>1, <2>1
<1>6. Before(h) = SubSeq(h, 1, n)
  BY <1>5 DEF Before
<1>7. Before(h) \in Logs
  BY <1>1, <1>6, SubSeqProperties DEF Logs
<1>8. Latest(h) \in Logs
  <2>1. Len(Before(h)) \in Nat
    BY <1>7, LenProperties DEF Logs
  <2>2. PICK m \in Nat : m = Len(Before(h)) + 1 /\ m >= 1
    BY <2>1
  <2>3. \A i \in m..Len(h) : h[i] \in Bubbles
    BY <1>1, <2>2
  <2>4. SubSeq(h, m, Len(h)) \in Seq(Bubbles)
    BY <1>1, <2>2, <2>3, SubSeqProperties
  <2>. QED  BY <2>2, <2>4 DEF Latest, Logs
<1>. QED  BY <1>7, <1>8

LEMMA GameType ==
    ASSUME NEW game \in Games
    PROVE  /\ game.exists \in BOOLEAN /\ game.history \in Logs
           /\ game.evicted \in Seq([told : Logs, kept : Logs]) /\ Len(game.evicted) \in Nat
           /\ NextTurn(game) \in Nat
<1>1. /\ game.exists \in BOOLEAN /\ game.history \in Logs
      /\ game.evicted \in Seq([told : Logs, kept : Logs])
  BY DEF Games
<1>2. Len(game.evicted) \in Nat
  BY <1>1
<1>3. NextTurn(game) \in Nat
  <2>1. CASE game.history = <<>>
    BY <2>1 DEF NextTurn
  <2>2. CASE game.history # <<>>
    <3>1. Len(game.history) \in DOMAIN game.history /\ game.history \in [DOMAIN game.history -> Bubbles]
      BY <1>1, <2>2 DEF Logs
    <3>2. game.history[Len(game.history)] \in Bubbles
      BY <3>1
    <3>. QED  BY <2>2, <3>2 DEF NextTurn, Last, Bubbles
  <2>. QED  BY <2>1, <2>2
<1>. QED  BY <1>1, <1>2, <1>3

LEMMA SimpleTypes ==
    /\ NewSession \in Games /\ NoSession \in Games /\ NoReply \in Replies /\ Done \in Replies
    /\ NoReply.done = FALSE /\ Done.done = TRUE /\ NoReply.compacted = FALSE
    /\ Idle \in Tasks /\ Idle.status = None /\ Idle.awaits = None /\ Idle.kind = None
<1>1. <<>> \in Logs /\ <<>> \in Seq([told : Logs, kept : Logs]) /\ Len(<<>>) \in Nat
  BY DEF Logs
<1>2. NewSession \in Games /\ NoSession \in Games
  BY <1>1 DEF NewSession, NoSession, Games
<1>3. NoSession.history = <<>> /\ NoSession.evicted = <<>>
  BY DEF NoSession
<1>4. Bubble(None, 0, "nothing") \in Bubbles
  BY DEF Bubble, Bubbles, Texts
<1>5. NoReply \in Replies /\ Done \in Replies /\ NoReply.done = FALSE /\ Done.done = TRUE /\ NoReply.compacted = FALSE
  BY <1>1, <1>3, <1>4 DEF NoReply, Done, Reply, Replies
<1>6. Idle \in Tasks /\ Idle.status = None /\ Idle.awaits = None /\ Idle.kind = None
  BY <1>5 DEF Idle, Tasks, None
<1>. QED  BY <1>2, <1>5, <1>6

LEMMA ReplyType ==
    ASSUME NEW done \in BOOLEAN, NEW game \in Games
    PROVE  Reply(done, game) \in Replies /\ Reply(done, game).done = done
<1>1. game.history \in Logs /\ Len(game.evicted) \in Nat /\ <<>> \in Logs
  BY GameType DEF Logs
<1>2. Bubble(None, 0, "nothing") \in Bubbles
  BY DEF Bubble, Bubbles, Texts
<1>. QED  BY <1>1, <1>2 DEF Reply, Replies

LEMMA CompactedType ==
    ASSUME NEW game \in Games, Compactable(game)
    PROVE  Compacted(game) \in Games
<1>1. Before(game.history) \in Logs /\ Latest(game.history) \in Logs
  BY GameType, HistoryParts DEF Compactable
<1>2. PICK e : e = [told |-> Before(game.history), kept |-> Latest(game.history)]
  OBVIOUS
<1>3. e \in [told : Logs, kept : Logs]
  BY <1>1, <1>2
<1>4. Append(game.evicted, e) \in Seq([told : Logs, kept : Logs])
  BY <1>3, GameType, AppendProperties
<1>5. Compacted(game) = [game EXCEPT !.history = Latest(game.history), !.evicted = Append(game.evicted, e)]
  BY <1>2 DEF Compacted
<1>. QED  BY <1>1, <1>4, <1>5 DEF Games

LEMMA ShortenedType ==
    ASSUME NEW game \in Games, NEW g \in Shortened(game)
    PROVE  g \in Games
BY CompactedType DEF Shortened

LEMMA InputType ==
    ASSUME NEW s \in Sessions, NEW n \in Nat, NEW hint \in BOOLEAN
    PROVE  Input(s, n, hint) \in Bubbles
<1>1. PICK text \in Texts : text = IF hint THEN "nothing" ELSE "input"
  BY DEF Texts
<1>2. Input(s, n, hint) = [session |-> s, turn |-> n, text |-> text]
  BY <1>1 DEF Input, Bubble
<1>. QED  BY <1>2 DEF Bubbles

\* A beat: what is recorded of it and what is answered agree if it is whole.
IsBeat(b) ==
    b.recorded \in Logs /\ b.answered \in Logs /\ b.whole \in BOOLEAN /\ (b.whole => b.recorded = b.answered)

LEMMA BubbleTypes ==
    ASSUME NEW s \in Sessions, NEW n \in Nat, NEW log \in Logs, NEW text \in Texts
    PROVE  Bubble(s, n, text) \in Bubbles /\ <<Bubble(s, n, text)>> \in Logs /\ Append(log, Bubble(s, n, text)) \in Logs
<1>1. PICK b \in Bubbles : b = Bubble(s, n, text)
  BY DEF Bubble, Bubbles
<1>2. <<b>> \in Logs /\ Append(log, b) \in Logs
  BY AppendProperties DEF Logs
<1>. QED  BY <1>1, <1>2

LEMMA EchoType ==
    ASSUME NEW s \in Sessions, NEW log \in Logs
    PROVE  Echo(s) \in Bubbles /\ Append(log, Echo(s)) \in Logs
<1>1. "typed" \in Texts
  BY DEF Texts
<1>. QED  BY <1>1, BubbleTypes DEF Echo

LEMMA DrawnType ==
    ASSUME NEW s \in Sessions, NEW n \in Nat, NEW texts \in Seq(Texts)
    PROVE  Drawn(s, n, texts) \in Logs
<1>1. Len(texts) \in Nat /\ DOMAIN texts = 1..Len(texts) /\ \A k \in 1..Len(texts) : texts[k] \in Texts
  BY LenProperties
<1>2. \A k \in 1..Len(texts) : Bubble(s, n, texts[k]) \in Bubbles
  BY <1>1 DEF Bubble, Bubbles
<1>3. Drawn(s, n, texts) \in [1..Len(texts) -> Bubbles]
  BY <1>1, <1>2 DEF Drawn
<1>. QED  BY <1>1, <1>3 DEF Logs

LEMMA BeatType ==
    ASSUME NEW s \in Sessions, NEW n \in Nat, NEW shape \in Shapes
    PROVE  IsBeat(Beat(s, n, shape))
<1>1. shape \in {"dropped", "narrated", "spoken", "replied", "acted", "silent", "voiced", "revoiced"}
  BY ShapesAssumption DEF AsRecorded
<1>2. PICK f, g : f = AsRecorded[shape] /\ g = AsAnswered[shape]
  OBVIOUS
<1>3. f \in Seq(Texts)
  <2>1. CASE shape = "dropped"
    BY <1>2, <2>1 DEF AsRecorded, Texts
  <2>2. CASE shape = "narrated"
    BY <1>2, <2>2 DEF AsRecorded, Texts
  <2>3. CASE shape = "spoken"
    BY <1>2, <2>3 DEF AsRecorded, Texts
  <2>4. CASE shape = "replied"
    BY <1>2, <2>4 DEF AsRecorded, Texts
  <2>5. CASE shape = "acted"
    BY <1>2, <2>5 DEF AsRecorded, Texts
  <2>6. CASE shape = "silent"
    BY <1>2, <2>6 DEF AsRecorded, Texts
  <2>7. CASE shape = "voiced"
    BY <1>2, <2>7 DEF AsRecorded, Texts
  <2>8. CASE shape = "revoiced"
    BY <1>2, <2>8 DEF AsRecorded, Texts
  <2>. QED  BY <1>1, <2>1, <2>2, <2>3, <2>4, <2>5, <2>6, <2>7, <2>8
<1>4. g \in Seq(Texts)
  <2>1. CASE shape = "dropped"
    BY <1>2, <2>1 DEF AsAnswered, Texts
  <2>2. CASE shape = "narrated"
    BY <1>2, <2>2 DEF AsAnswered, Texts
  <2>3. CASE shape = "spoken"
    BY <1>2, <2>3 DEF AsAnswered, Texts
  <2>4. CASE shape = "replied"
    BY <1>2, <2>4 DEF AsAnswered, Texts
  <2>5. CASE shape = "acted"
    BY <1>2, <2>5 DEF AsAnswered, Texts
  <2>6. CASE shape = "silent"
    BY <1>2, <2>6 DEF AsAnswered, Texts
  <2>7. CASE shape = "voiced"
    BY <1>2, <2>7 DEF AsAnswered, Texts
  <2>8. CASE shape = "revoiced"
    BY <1>2, <2>8 DEF AsAnswered, Texts
  <2>. QED  BY <1>1, <2>1, <2>2, <2>3, <2>4, <2>5, <2>6, <2>7, <2>8
<1>5. ASSUME shape \in {"dropped", "narrated", "spoken", "replied"}
      PROVE  f = g
  <2>1. CASE shape = "dropped"
    BY <1>2, <2>1 DEF AsRecorded, AsAnswered
  <2>2. CASE shape = "narrated"
    BY <1>2, <2>2 DEF AsRecorded, AsAnswered
  <2>3. CASE shape = "spoken"
    BY <1>2, <2>3 DEF AsRecorded, AsAnswered
  <2>4. CASE shape = "replied"
    BY <1>2, <2>4 DEF AsRecorded, AsAnswered
  <2>. QED  BY <1>5, <2>1, <2>2, <2>3, <2>4
<1>7. PICK b : b = Beat(s, n, shape)
  OBVIOUS
<1>8. b.recorded = Drawn(s, n, f) /\ b.answered = Drawn(s, n, g)
  BY <1>2, <1>7 DEF Beat
<1>6. b.whole \in BOOLEAN /\ (b.whole => f = g)
  <2>1. PICK plain : plain = {"dropped", "narrated", "spoken", "replied"}
    OBVIOUS
  <2>2. b.whole = (shape \in plain)
    BY <1>7, <2>1 DEF Beat
  <2>3. shape \in plain => f = g
    BY <1>5, <2>1
  <2>4. b.whole \in BOOLEAN
    <3>1. \A A : (shape \in A) \in BOOLEAN
      OBVIOUS
    <3>. QED  BY <2>2, <3>1
  <2>5. b.whole => shape \in plain
    BY <2>2, Zenon
  <2>. QED  BY <2>3, <2>4, <2>5, Zenon
<1>9. Drawn(s, n, f) \in Logs /\ Drawn(s, n, g) \in Logs
  BY <1>3, <1>4, DrawnType
<1>. QED  BY <1>6, <1>7, <1>8, <1>9 DEF IsBeat

LEMMA WrittenType ==
    ASSUME NEW s \in Sessions, NEW n \in Nat, NEW beat \in Written(s, n)
    PROVE  IsBeat(beat)
BY BeatType DEF Written

LEMMA PassedType ==
    ASSUME NEW s \in Sessions, NEW n \in Nat, NEW g, NEW beat \in Passed(g, s, n)
    PROVE  IsBeat(beat)
<1>1. CASE beat \in Written(s, n)
  BY <1>1, WrittenType
<1>2. CASE beat \notin Written(s, n)
  <2>1. PICK x \in Shapes, y \in Shapes : beat = Then(Beat(s, n, x), Beat(s, n + 1, y))
    BY <1>2 DEF Passed
  <2>2. PICK a, b : a = Beat(s, n, x) /\ b = Beat(s, n + 1, y) /\ IsBeat(a) /\ IsBeat(b)
    BY BeatType
  <2>3. /\ beat.recorded = a.recorded \o b.recorded /\ beat.answered = a.answered \o b.answered
        /\ beat.whole = (a.whole /\ b.whole)
    BY <2>1, <2>2 DEF Then
  <2>4. a.recorded \o b.recorded \in Logs /\ a.answered \o b.answered \in Logs
    BY <2>2, ConcatProperties DEF IsBeat, Logs
  <2>. QED  BY <2>2, <2>3, <2>4 DEF IsBeat
<1>. QED  BY <1>1, <1>2

LEMMA ToldType ==
    ASSUME NEW game \in Games, NEW bubbles \in Logs
    PROVE  Told(game, bubbles) \in Games /\ Told(game, bubbles).history = game.history \o bubbles
<1>1. game.history \o bubbles \in Logs
  BY GameType, ConcatProperties DEF Logs
<1>. QED  BY <1>1 DEF Told, Games

\* The answer of a turn says what was told, if the history was not rewritten.
TurnSays(o, game, input, given, beat, all) ==
    /\ o[1] \in Games /\ o[2] \in Replies /\ o[2].input = input /\ o[2].beats = beat.answered
    /\ o[2].whole = all.whole
    /\ ~o[2].compacted => o[1].history = game.history \o (given \o beat.recorded)

LEMMA TurnOutcomeType ==
    ASSUME NEW game \in Games, NEW g \in Shortened(game), NEW input \in Bubbles, NEW given \in Logs,
           NEW beat, IsBeat(beat), NEW all, all.whole \in BOOLEAN
    PROVE  TurnSays(TurnOutcome(game, g, input, given, beat, all.whole), game, input, given, beat, all)
<1>1. g \in Games /\ given \o beat.recorded \in Logs
  BY ShortenedType, ConcatProperties DEF IsBeat, Logs
<1>2. PICK told : told = Told(g, given \o beat.recorded) /\ told \in Games /\ told.history = g.history \o (given \o beat.recorded)
  BY <1>1, ToldType
<1>3. PICK r \in Replies : r = Reply(TRUE, NoSession)
  BY SimpleTypes, ReplyType
<1>4. PICK reply : reply = TurnReply(input, beat.answered, all.whole, g # game)
  OBVIOUS
<1>5. /\ reply \in Replies /\ reply.input = input /\ reply.beats = beat.answered /\ reply.whole = all.whole
      /\ reply.compacted = (g # game)
  BY <1>3, <1>4 DEF TurnReply, Replies, IsBeat
<1>6. PICK o : o = TurnOutcome(game, g, input, given, beat, all.whole)
  OBVIOUS
<1>7. o[1] = told /\ o[2] = reply
  BY <1>2, <1>4, <1>6 DEF TurnOutcome
<1>. QED  BY <1>2, <1>5, <1>6, <1>7 DEF TurnSays

\* What a page can know from an answer of what it does not read again.
Answer(kind, game, o) ==
    /\ o[1] \in Games /\ o[2] \in Replies
    /\ kind = "send" /\ ~o[2].compacted /\ o[2].whole => o[1].history = Append(game.history, o[2].input) \o o[2].beats
    /\ kind = "skip" /\ ~o[2].compacted /\ o[2].whole => o[1].history = game.history \o o[2].beats
    /\ kind \in {"undo", "compact", "restore"} /\ ~o[2].done => o[1] = game
    /\ kind \in {"load", "state"} => o[1] = game

LEMMA OutcomesAnswer ==
    ASSUME server \in [Sessions -> Games], NEW s \in Sessions, NEW kind, NEW o \in Outcomes(kind, s)
    PROVE  Answer(kind, server[s], o)
<1>1. PICK game \in Games : game = server[s]
  OBVIOUS
<1>2. PICK n \in Nat : n = NextTurn(game)
  BY GameType
<1>3. game.history \in Logs /\ NoSession \in Games /\ NewSession \in Games /\ NoReply \in Replies /\ Done \in Replies
  BY GameType, SimpleTypes
<1>4. NoReply.done = FALSE /\ Done.done = TRUE /\ <<>> \in Logs
  BY SimpleTypes DEF Logs
<1>5. CASE kind = "send"
  <2>0. o \in SendOutcomes(game, s, n)
    BY <1>1, <1>2, <1>5 DEF Outcomes
  <2>1. PICK g \in Shortened(game), hint \in BOOLEAN, beat \in Written(s, n) :
           o = TurnOutcome(game, g, Input(s, n, hint), InputRecord(s, n, hint), beat, beat.whole /\ ~hint)
    BY <2>0 DEF SendOutcomes
  <2>2. PICK input \in Bubbles : input = Input(s, n, hint)
    BY InputType
  <2>3. PICK given : given = InputRecord(s, n, hint)
    OBVIOUS
  <2>4. given \in Logs /\ (~hint => given = <<input>>)
    BY <2>2, <2>3 DEF InputRecord, Logs
  <2>5. PICK all : all.whole = (beat.whole /\ ~hint)
    <3>1. [whole |-> beat.whole /\ ~hint].whole = (beat.whole /\ ~hint)
      OBVIOUS
    <3>. QED  BY <3>1
  <2>6. IsBeat(beat)
    BY WrittenType
  <2>7. /\ o[1] \in Games /\ o[2] \in Replies /\ o[2].input = input /\ o[2].beats = beat.answered
        /\ o[2].whole = all.whole
        /\ ~o[2].compacted => o[1].history = game.history \o (given \o beat.recorded)
    <3>1. o = TurnOutcome(game, g, input, given, beat, all.whole)
      BY <2>1, <2>2, <2>3, <2>5
    <3>2. given \in Logs /\ all.whole \in BOOLEAN
      BY <2>4, <2>5
    <3>3. TurnSays(TurnOutcome(game, g, input, given, beat, all.whole), game, input, given, beat, all)
      BY <2>6, <3>2, TurnOutcomeType
    <3>. QED  BY <3>1, <3>3 DEF TurnSays
  <2>8. ASSUME all.whole
        PROVE  game.history \o (given \o beat.recorded) = Append(game.history, input) \o beat.answered
    <3>1. given = <<input>> /\ beat.recorded = beat.answered /\ beat.answered \in Logs
      BY <2>4, <2>5, <2>6, <2>8 DEF IsBeat
    <3>2. game.history \o (<<input>> \o beat.answered) = (game.history \o <<input>>) \o beat.answered
      <4>1. PICK a, b, c : a = game.history /\ b = <<input>> /\ c = beat.answered
        OBVIOUS
      <4>2. a \in Seq(Bubbles) /\ b \in Seq(Bubbles) /\ c \in Seq(Bubbles)
        BY <1>3, <2>4, <3>1, <4>1 DEF Logs
      <4>3. a \o (b \o c) = (a \o b) \o c
        BY <4>2, ConcatAssociative
      <4>. QED  BY <4>1, <4>3
    <3>3. Append(game.history, input) = game.history \o <<input>>
      BY <1>3, AppendIsConcat DEF Logs
    <3>. QED  BY <3>1, <3>2, <3>3
  <2>. QED  BY <1>1, <1>5, <2>7, <2>8 DEF Answer
<1>6. CASE kind = "skip"
  <2>0. o \in SkipOutcomes(game, s, n)
    BY <1>1, <1>2, <1>6 DEF Outcomes
  <2>1. PICK g \in Shortened(game) :
           \E beat \in Passed(g, s, n) : o = TurnOutcome(game, g, Input(s, n, TRUE), <<>>, beat, beat.whole)
    BY <2>0 DEF SkipOutcomes
  <2>2. PICK beat \in Passed(g, s, n) : o = TurnOutcome(game, g, Input(s, n, TRUE), <<>>, beat, beat.whole)
    BY <2>1
  <2>3. IsBeat(beat) /\ beat.whole \in BOOLEAN
    BY PassedType DEF IsBeat
  <2>4. /\ o[1] \in Games /\ o[2] \in Replies /\ o[2].beats = beat.answered /\ o[2].whole = beat.whole
        /\ ~o[2].compacted => o[1].history = game.history \o (<<>> \o beat.recorded)
    <3>1. PICK input \in Bubbles : input = Input(s, n, TRUE)
      BY InputType
    <3>2. PICK given \in Logs : given = <<>>
      BY <1>4
    <3>3. o = TurnOutcome(game, g, input, given, beat, beat.whole)
      BY <2>2, <3>1, <3>2
    <3>4. TurnSays(TurnOutcome(game, g, input, given, beat, beat.whole), game, input, given, beat, beat)
      BY <2>3, TurnOutcomeType
    <3>. QED  BY <3>2, <3>3, <3>4 DEF TurnSays
  <2>5. <<>> \o beat.recorded = beat.recorded
    BY <2>3, ConcatEmptySeq DEF IsBeat, Logs
  <2>. QED  BY <1>1, <1>6, <2>3, <2>4, <2>5 DEF Answer, IsBeat
<1>7. CASE kind = "undo"
  <2>1. \/ o = <<game, NoReply>>
        \/ game.history # <<>> /\ o = <<Undone(game), Reply(TRUE, Undone(game))>>
    BY <1>1, <1>7 DEF Outcomes
  <2>2. CASE o = <<game, NoReply>>
    BY <1>1, <1>3, <1>7, <2>2 DEF Answer
  <2>3. CASE game.history # <<>> /\ o = <<Undone(game), Reply(TRUE, Undone(game))>>
    <3>1. Undone(game) \in Games
      BY <1>3, <2>3, HistoryParts DEF Undone, Games
    <3>2. Reply(TRUE, Undone(game)) \in Replies /\ Reply(TRUE, Undone(game)).done = TRUE
      BY <3>1, ReplyType
    <3>. QED  BY <1>7, <2>3, <3>1, <3>2 DEF Answer
  <2>. QED  BY <2>1, <2>2, <2>3
<1>8. CASE kind = "compact"
  <2>1. \/ o = <<game, NoReply>>
        \/ Compactable(game) /\ o = <<Compacted(game), Done>>
    BY <1>1, <1>8 DEF Outcomes
  <2>2. CASE o = <<game, NoReply>>
    BY <1>1, <1>3, <1>8, <2>2 DEF Answer
  <2>3. CASE Compactable(game) /\ o = <<Compacted(game), Done>>
    BY <1>3, <1>4, <1>8, <2>3, CompactedType DEF Answer
  <2>. QED  BY <2>1, <2>2, <2>3
<1>9. CASE kind = "restore"
  <2>1. \/ o = <<game, NoReply>>
        \/ game.evicted # <<>> /\ o = <<Restored(game), Done>>
    BY <1>1, <1>9 DEF Outcomes
  <2>2. CASE o = <<game, NoReply>>
    BY <1>1, <1>3, <1>9, <2>2 DEF Answer
  <2>3. CASE game.evicted # <<>> /\ o = <<Restored(game), Done>>
    <3>1. PICK evicted : evicted = game.evicted /\ evicted \in Seq([told : Logs, kept : Logs]) /\ evicted # <<>>
      BY <2>3, GameType
    <3>2. Len(evicted) \in Nat \ {0} /\ evicted \in [1..Len(evicted) -> [told : Logs, kept : Logs]]
      BY <3>1, EmptySeq, LenProperties
    <3>3. Last(evicted) \in [told : Logs, kept : Logs]
      BY <3>2 DEF Last
    <3>4. Front(evicted) \in Seq([told : Logs, kept : Logs])
      BY <3>2, SubSeqProperties DEF Front
    <3>5. Last(evicted).told \o game.history \in Logs
      BY <1>3, <3>3, ConcatProperties DEF Logs
    <3>6. Restored(game) = [game EXCEPT !.history = Last(evicted).told \o game.history, !.evicted = Front(evicted)]
      BY <3>1 DEF Restored
    <3>7. Restored(game) \in Games
      BY <3>4, <3>5, <3>6 DEF Games
    <3>. QED  BY <1>3, <1>4, <1>9, <2>3, <3>7 DEF Answer
  <2>. QED  BY <2>1, <2>2, <2>3
<1>10. CASE kind = "start"
  <2>1. o = <<NewSession, Done>>
    BY <1>1, <1>10 DEF Outcomes
  <2>. QED  BY <1>3, <1>10, <2>1 DEF Answer
<1>11. CASE kind = "delete"
  <2>1. o = <<NoSession, Done>>
    BY <1>1, <1>11 DEF Outcomes
  <2>. QED  BY <1>3, <1>11, <2>1 DEF Answer
<1>12. CASE kind \notin {"send", "skip", "undo", "compact", "restore", "start", "delete"}
  <2>1. o = <<game, Reply(TRUE, game)>>
    BY <1>1, <1>12 DEF Outcomes
  <2>2. Reply(TRUE, game) \in Replies
    BY ReplyType
  <2>. QED  BY <1>1, <1>12, <2>1, <2>2 DEF Answer
<1>. QED  BY <1>5, <1>6, <1>7, <1>8, <1>9, <1>10, <1>11, <1>12

\* What a request that fails leaves behind; only a turn leaves something.
LEMMA UnfinishedType ==
    ASSUME server \in [Sessions -> Games], NEW s \in Sessions, NEW kind, NEW left \in Unfinished(kind, s)
    PROVE  left \in Games /\ (kind \notin {"send", "skip"} => left = server[s])
<1>1. PICK game \in Games : game = server[s]
  OBVIOUS
<1>2. PICK n \in Nat : n = NextTurn(game)
  BY GameType
<1>3. CASE left = game
  BY <1>1, <1>3
<1>4. CASE kind \in {"send", "skip"} /\ left \in Shortened(game)
  BY <1>4, ShortenedType
<1>5. CASE kind = "skip" /\ \E g \in Shortened(game), beat \in Written(s, n) : left = Told(g, beat.recorded)
  <2>1. PICK g \in Shortened(game), beat \in Written(s, n) : left = Told(g, beat.recorded)
    BY <1>5
  <2>2. g \in Games /\ beat.recorded \in Logs
    BY ShortenedType, WrittenType DEF IsBeat
  <2>. QED  BY <1>5, <2>1, <2>2, ToldType
<1>. QED  BY <1>1, <1>2, <1>3, <1>4, <1>5 DEF Unfinished

-----------------------------------------------------------------------------
(* The page's types *)

TasksInv == tasks \in [Slots -> Tasks] /\ \A i \in Slots : TaskInv(tasks[i])

LEMMA TaskChanges ==
    ASSUME TasksInv, NEW i \in Slots, NEW t, TaskInv(t), tasks' = [tasks EXCEPT ![i] = t]
    PROVE  TasksInv'
<1>1. t \in Tasks
  BY DEF TaskInv
<1>2. tasks' \in [Slots -> Tasks]
  BY <1>1 DEF TasksInv
<1>3. ASSUME NEW k \in Slots
      PROVE  TaskInv(tasks'[k])
  <2>1. CASE k = i
    BY <2>1 DEF TasksInv
  <2>2. CASE k # i
    BY <2>2 DEF TasksInv
  <2>. QED  BY <2>1, <2>2
<1>4. \A k \in Slots : TaskInv(tasks[k])'
  BY <1>3 DEF TaskInv
<1>. QED  BY <1>2, <1>4 DEF TasksInv

LEMMA CallType ==
    ASSUME NEW kind \in Kinds, NEW s \in Sessions
    PROVE  /\ TaskInv(Call(kind, s)) /\ Call(kind, s).kind = kind /\ Call(kind, s).awaits = "answer"
           /\ Call(kind, s).session = s /\ Call(kind, s).status = "waiting" /\ Call(kind, s) # Idle
<1>1. PICK idle : idle = Idle
  OBVIOUS
<1>2. PICK t : t = Call(kind, s)
  OBVIOUS
<1>3. t = [idle EXCEPT !.kind = kind, !.awaits = "answer", !.session = s, !.status = "waiting"]
  BY <1>1, <1>2 DEF Call
<1>4. idle \in Tasks /\ idle.status = None
  BY <1>1, SimpleTypes
<1>5. t \in Tasks /\ t.kind = kind /\ t.awaits = "answer" /\ t.session = s /\ t.status = "waiting"
  BY <1>3, <1>4 DEF Tasks
<1>6. TaskInv(t)
  BY <1>5 DEF TaskInv
<1>. QED  BY <1>1, <1>2, <1>4, <1>5, <1>6 DEF None

LEMMA IdleType == TaskInv(Idle)
BY SimpleTypes DEF TaskInv, None

LEMMA AbortedType ==
    ASSUME TasksInv, NEW j \in Slots \cup {None}
    PROVE  TaskInv(Aborted(j).task) /\ Aborted(j).left \subseteq Requests
<1>1. CASE j # None /\ tasks[j].awaits = "answer" /\ tasks[j].status \in {"waiting", "done"}
  <2>1. PICK t : t = tasks[j] /\ TaskInv(t)
    BY <1>1 DEF TasksInv
  <2>2. PICK q : q = [t EXCEPT !.status = "error", !.stopped = TRUE, !.reply = NoReply]
    OBVIOUS
  <2>3. q \in Tasks /\ q.status = "error" /\ q.awaits = "answer"
    BY <1>1, <2>1, <2>2, SimpleTypes DEF TaskInv, Tasks
  <2>4. TaskInv(q)
    BY <2>3 DEF TaskInv
  <2>5. Aborted(j).task = q
    BY <1>1, <2>1, <2>2 DEF Aborted
  <2>6. Aborted(j).left = IF t.status = "waiting" THEN {[kind |-> t.kind, session |-> t.session]} ELSE {}
    BY <1>1, <2>1 DEF Aborted
  <2>7. Aborted(j).left \subseteq Requests
    BY <2>1, <2>6 DEF TaskInv, Requests
  <2>. QED  BY <2>4, <2>5, <2>7
<1>2. CASE ~(j # None /\ tasks[j].awaits = "answer" /\ tasks[j].status \in {"waiting", "done"})
  <2>1. Aborted(j) = [task |-> IF j = None THEN Idle ELSE tasks[j], left |-> {}]
    BY <1>2 DEF Aborted
  <2>. QED  BY <2>1, IdleType DEF TasksInv
<1>. QED  BY <1>1, <1>2

LEMMA ServerTypes ==
    ASSUME PageTypeInv, NEW i \in Slots, Server(i) \/ OrphanServed
    PROVE  PageTypeInv'
<1>1. TasksInv
  BY DEF PageTypeInv, TasksInv
<1>2. CASE Serve(i)
  <2>1. tasks[i].session \in Sessions /\ tasks[i].kind \in Kinds /\ tasks[i] \in Tasks /\ TaskInv(tasks[i])
    BY <1>2 DEF Serve, PageTypeInv, TaskInv
  <2>2. PICK s, kind : s \in Sessions /\ s = tasks[i].session /\ kind = Asked(i)
    BY <2>1
  <2>3. PICK o \in Outcomes(kind, s) :
           /\ server' = [server EXCEPT ![s] = o[1]]
           /\ tasks' = [tasks EXCEPT ![i].status = "done", ![i].reply = o[2]]
    BY <1>2, <2>2 DEF Serve
  <2>4. Answer(kind, server[s], o)
    BY <2>2, OutcomesAnswer DEF PageTypeInv
  <2>5. PICK q, r : q = o[1] /\ r = o[2] /\ q \in Games /\ r \in Replies
    BY <2>4 DEF Answer
  <2>6. PICK t : t = [tasks[i] EXCEPT !.status = "done", !.reply = r]
    OBVIOUS
  <2>7. tasks' = [tasks EXCEPT ![i] = t]
    BY <1>1, <2>3, <2>5, <2>6 DEF TasksInv
  <2>8. t \in Tasks /\ t.status = "done" /\ t.reply = r /\ t.kind = tasks[i].kind /\ t.awaits = tasks[i].awaits
    BY <2>1, <2>5, <2>6 DEF Tasks
  <2>10. TaskInv(t)
    BY <2>8 DEF TaskInv
  <2>11. TasksInv'
    BY <1>1, <2>7, <2>10, TaskChanges
  <2>12. server' \in [Sessions -> Games]
    BY <2>3, <2>5 DEF PageTypeInv
  <2>. QED  BY <1>2, <2>11, <2>12 DEF PageTypeInv, TasksInv, Serve
<1>3. ASSUME NEW t, t \in Tasks, t.status = "error", t.awaits # "avatars", tasks' = [tasks EXCEPT ![i] = t]
      PROVE  TasksInv'
  <2>1. TaskInv(t)
    BY <1>3 DEF TaskInv
  <2>. QED  BY <1>1, <1>3, <2>1, TaskChanges
<1>4. CASE ServeFails(i)
  <2>1. PICK t : t = [tasks[i] EXCEPT !.status = "error"]
    OBVIOUS
  <2>2. tasks[i] \in Tasks /\ TaskInv(tasks[i]) /\ tasks[i].status = "waiting" /\ tasks[i].session \in Sessions
    BY <1>4 DEF ServeFails, PageTypeInv, TaskInv
  <2>3. t \in Tasks /\ t.status = "error" /\ t.awaits # "avatars"
    BY <2>1, <2>2 DEF Tasks, TaskInv
  <2>4. tasks' = [tasks EXCEPT ![i] = t]
    BY <1>1, <1>4, <2>1 DEF ServeFails, TasksInv
  <2>5. server' \in [Sessions -> Games]
    <3>1. PICK s, kind : s \in Sessions /\ s = tasks[i].session /\ kind = Asked(i)
      BY <2>2
    <3>2. PICK left \in Unfinished(kind, s) : server' = [server EXCEPT ![s] = left]
      BY <1>4, <3>1 DEF ServeFails
    <3>3. left \in Games
      BY <3>1, UnfinishedType DEF PageTypeInv
    <3>. QED  BY <3>2, <3>3 DEF PageTypeInv
  <2>. QED  BY <1>3, <1>4, <2>3, <2>4, <2>5 DEF PageTypeInv, TasksInv, ServeFails
<1>5. CASE AnswerLost(i)
  <2>1. PICK t : t = [tasks[i] EXCEPT !.status = "error", !.reply = NoReply]
    OBVIOUS
  <2>2. tasks[i] \in Tasks /\ tasks[i].awaits # "avatars"
    BY <1>5 DEF AnswerLost, PageTypeInv
  <2>3. t \in Tasks /\ t.status = "error" /\ t.awaits # "avatars"
    BY <2>1, <2>2, SimpleTypes DEF Tasks
  <2>4. tasks' = [tasks EXCEPT ![i] = t]
    BY <1>1, <1>5, <2>1 DEF AnswerLost, TasksInv
  <2>. QED  BY <1>3, <1>5, <2>3, <2>4 DEF PageTypeInv, TasksInv, AnswerLost
<1>6. CASE OrphanServed
  <2>1. PICK r \in Requests :
           /\ orphans' \subseteq Requests /\ UNCHANGED <<page, shown, echo, tasks>> /\ aux_behind' \in BOOLEAN
           /\ \E left \in {o[1] : o \in Outcomes(r.kind, r.session)} \cup Unfinished(r.kind, r.session) :
                server' = [server EXCEPT ![r.session] = left]
    BY <1>6 DEF OrphanServed, PageTypeInv
  <2>2. PICK s, kind : s \in Sessions /\ s = r.session /\ kind = r.kind
    BY <2>1 DEF Requests
  <2>3. PICK left \in {o[1] : o \in Outcomes(kind, s)} \cup Unfinished(kind, s) : server' = [server EXCEPT ![s] = left]
    BY <2>1, <2>2
  <2>4. left \in Games
    <3>1. CASE left \in Unfinished(kind, s)
      BY <2>2, <3>1, UnfinishedType, Zenon DEF PageTypeInv
    <3>2. CASE left \notin Unfinished(kind, s)
      <4>1. PICK o \in Outcomes(kind, s) : left = o[1]
        BY <2>3, <3>2
      <4>2. Answer(kind, server[s], o)
        BY <2>2, OutcomesAnswer, Zenon DEF PageTypeInv
      <4>. QED  BY <4>1, <4>2 DEF Answer
    <3>. QED  BY <3>1, <3>2
  <2>5. server' \in [Sessions -> Games]
    BY <2>3, <2>4 DEF PageTypeInv
  <2>. QED  BY <2>1, <2>5 DEF PageTypeInv, TaskInv
<1>. QED  BY <1>2, <1>4, <1>5, <1>6 DEF Server

LEMMA ReaderTypes ==
    ASSUME PageTypeInv, NEW i \in Slots, Reader(i) \/ stopTurn
    PROVE  PageTypeInv'
<1>1. TasksInv
  BY DEF PageTypeInv, TasksInv
<1>2. ASSUME NEW kind \in Kinds, NEW s \in Sessions, tasks' = [tasks EXCEPT ![i] = Call(kind, s)]
      PROVE  TasksInv'
  BY <1>1, <1>2, CallType, TaskChanges
<1>3. page.session # None => page.session \in Sessions
  BY DEF PageTypeInv, Pages
<1>4. page \in Pages /\ Kinds = {"send", "skip", "undo", "load", "start", "delete", "compact", "restore"}
  BY DEF PageTypeInv, Kinds
<1>5. ASSUME TasksInv', page' \in Pages, UNCHANGED <<server, shown, echo, orphans>>, aux_behind' \in BOOLEAN
      PROVE  PageTypeInv'
  BY <1>5 DEF PageTypeInv, TasksInv
<1>6. CASE sendTurn(i)
  <2>1. PICK s \in Sessions : s = page.session
    BY <1>3, <1>6 DEF sendTurn
  <2>2. TasksInv' /\ aux_behind' \in BOOLEAN
    BY <1>2, <1>4, <1>6, <2>1 DEF sendTurn, Begin
  <2>3. page' \in Pages
    BY <1>4, <1>6 DEF sendTurn, Pages
  <2>4. shown' \in Logs
    BY <1>6, <2>1, EchoType DEF sendTurn, PageTypeInv
  <2>5. echo' \in Int
    BY <1>6, <2>4, LenProperties DEF sendTurn, Logs
  <2>. QED  BY <1>6, <2>2, <2>3, <2>4, <2>5 DEF PageTypeInv, TasksInv, sendTurn, Begin
<1>7. CASE retryTurn(i)
  <2>1. TasksInv' /\ aux_behind' \in BOOLEAN
    BY <1>2, <1>3, <1>4, <1>7 DEF retryTurn
  <2>2. page' \in Pages
    BY <1>4, <1>7 DEF retryTurn, Pages
  <2>. QED  BY <1>5, <1>7, <2>1, <2>2 DEF retryTurn
<1>8. CASE skipTurn(i)
  <2>1. TasksInv' /\ aux_behind' \in BOOLEAN
    BY <1>2, <1>3, <1>4, <1>8 DEF skipTurn, Begin
  <2>2. page' \in Pages
    BY <1>4, <1>8 DEF skipTurn, Pages
  <2>. QED  BY <1>5, <1>8, <2>1, <2>2 DEF skipTurn, Begin
<1>9. CASE undoLastTurn(i)
  <2>1. TasksInv' /\ aux_behind' \in BOOLEAN
    BY <1>2, <1>3, <1>4, <1>9 DEF undoLastTurn, Begin
  <2>2. page' \in Pages
    BY <1>4, <1>9 DEF undoLastTurn, Pages
  <2>. QED  BY <1>5, <1>9, <2>1, <2>2 DEF undoLastTurn, Begin
<1>10. CASE compactSession(i)
  <2>1. TasksInv' /\ aux_behind' \in BOOLEAN
    BY <1>2, <1>3, <1>4, <1>10 DEF compactSession, Begin
  <2>2. page' \in Pages
    BY <1>4, <1>10 DEF compactSession, Pages
  <2>. QED  BY <1>5, <1>10, <2>1, <2>2 DEF compactSession, Begin
<1>11. CASE restoreCompaction(i)
  <2>1. TasksInv' /\ aux_behind' \in BOOLEAN
    BY <1>2, <1>3, <1>4, <1>11 DEF restoreCompaction, Begin
  <2>2. page' \in Pages
    BY <1>4, <1>11 DEF restoreCompaction, Pages
  <2>. QED  BY <1>5, <1>11, <2>1, <2>2 DEF restoreCompaction, Begin
<1>12. ASSUME NEW s \in Sessions, deleteSession(i, s)
       PROVE  PageTypeInv'
  <2>1. TasksInv' /\ aux_behind' \in BOOLEAN
    BY <1>2, <1>4, <1>12 DEF deleteSession, Begin
  <2>. QED  BY <1>4, <1>5, <1>12, <2>1 DEF deleteSession, Begin
<1>13. ASSUME NEW kind \in Kinds, NEW s \in Sessions, NEW j \in Slots \cup {None},
              tasks' = [k \in Slots |-> IF k = i THEN Call(kind, s)
                                        ELSE IF k = j THEN Aborted(j).task ELSE tasks[k]]
       PROVE  TasksInv'
  <2>1. TaskInv(Call(kind, s)) /\ TaskInv(Aborted(j).task)
    BY <1>1, CallType, AbortedType
  <2>2. \A k \in Slots : TaskInv(tasks'[k])
    BY <1>1, <1>13, <2>1 DEF TasksInv
  <2>3. \A k \in Slots : tasks'[k] \in Tasks
    BY <2>2 DEF TaskInv
  <2>4. tasks' \in [Slots -> Tasks]
    BY <1>13, <2>3
  <2>5. \A k \in Slots : TaskInv(tasks[k])'
    BY <2>2 DEF TaskInv
  <2>. QED  BY <2>4, <2>5 DEF TasksInv
<1>14. ASSUME NEW s \in Sessions, loadSession(i, s)
       PROVE  PageTypeInv'
  <2>1. PICK j \in Slots \cup {None} : j = page.stop_compaction
    BY <1>4 DEF Pages
  <2>2. TasksInv'
    BY <1>4, <1>13, <1>14, <2>1 DEF loadSession
  <2>3. orphans' \subseteq Requests
    BY <1>1, <1>14, <2>1, AbortedType DEF loadSession, PageTypeInv
  <2>4. aux_behind' \in BOOLEAN /\ UNCHANGED <<server, page, shown, echo>>
    BY <1>14 DEF loadSession
  <2>. QED  BY <2>2, <2>3, <2>4 DEF PageTypeInv, TasksInv
<1>15. ASSUME NEW s \in Sessions, startSession(i, s)
       PROVE  PageTypeInv'
  <2>1. PICK j \in Slots \cup {None} : j = page.stop_compaction
    BY <1>4 DEF Pages
  <2>2. TasksInv'
    BY <1>4, <1>13, <1>15, <2>1 DEF startSession
  <2>3. orphans' \subseteq Requests
    BY <1>1, <1>15, <2>1, AbortedType DEF startSession, PageTypeInv
  <2>4. page' \in Pages
    <3>1. page' = [page EXCEPT !.busy = TRUE]
      BY <1>15 DEF startSession
    <3>. QED  BY <1>4, <3>1 DEF Pages
  <2>5. aux_behind' \in BOOLEAN /\ UNCHANGED server /\ shown' = <<>> /\ echo' \in Int
    BY <1>15 DEF startSession, NoEcho, Detached
  <2>. QED  BY <2>2, <2>3, <2>4, <2>5 DEF PageTypeInv, TasksInv, Logs
<1>16. CASE stopTurn
  <2>1. PICK j \in Slots : j = page.stop
    BY <1>4, <1>16 DEF stopTurn, Pages
  <2>2. TaskInv(Aborted(j).task) /\ Aborted(j).left \subseteq Requests
    BY <1>1, AbortedType
  <2>3. TasksInv'
    BY <1>1, <1>16, <2>1, <2>2, TaskChanges DEF stopTurn
  <2>. QED  BY <1>16, <2>1, <2>2, <2>3 DEF PageTypeInv, TasksInv, stopTurn
<1>. QED  BY <1>6, <1>7, <1>8, <1>9, <1>10, <1>11, <1>12, <1>14, <1>15, <1>16 DEF Reader

LEMMA EffectiveInputTypes ==
    ASSUME NEW log \in Logs, NEW b \in Bubbles, echo \in Int
    PROVE  WithEffectiveInput(log, b).log \in Logs /\ WithEffectiveInput(log, b).at \in Int
<1>1. Append(log, b) \in Logs /\ Len(log) \in Nat
  BY AppendProperties, LenProperties DEF Logs
<1>2. ReplaceAt(log, echo, b) \in Logs
  <2>1. log \in [1..Len(log) -> Bubbles]
    BY LenProperties DEF Logs
  <2>2. [log EXCEPT ![echo] = b] \in [1..Len(log) -> Bubbles]
    BY <2>1
  <2>. QED  BY <1>1, <2>2 DEF ReplaceAt, Logs
<1>. QED  BY <1>1, <1>2 DEF WithEffectiveInput, NoEcho, Detached

\* A task that reads the state asks for the session the page is in.
LEMMA ReadsType ==
    ASSUME PageTypeInv, NEW i \in Slots, tasks[i].kind \in Kinds,
           NEW awaits \in {"reload", "recover"}, Reads(i, awaits)
    PROVE  \E t : /\ tasks' = [tasks EXCEPT ![i] = t] /\ TaskInv(t)
                  /\ t.kind = tasks[i].kind /\ t.awaits = awaits /\ t.session = page.session
<1>1. PICK q : q = tasks[i] /\ q \in Tasks /\ q.kind \in Kinds
  BY DEF PageTypeInv
<1>2. PICK s, status : /\ s = page.session /\ s \in Sessions \cup {None}
                       /\ status = IF s = None THEN "error" ELSE "waiting"
  BY DEF PageTypeInv, Pages
<1>3. PICK t : t = [q EXCEPT !.awaits = awaits, !.session = s, !.reply = NoReply, !.status = status]
  OBVIOUS
<1>4. /\ t \in Tasks /\ t.kind = q.kind /\ t.awaits = awaits /\ t.session = s /\ t.status = status
  BY <1>1, <1>2, <1>3, SimpleTypes DEF Tasks
<1>5. TaskInv(t)
  BY <1>1, <1>2, <1>4 DEF TaskInv
<1>6. tasks' = [tasks EXCEPT ![i] = t]
  BY <1>1, <1>2, <1>3 DEF Reads, PageTypeInv
<1>. QED  BY <1>1, <1>2, <1>4, <1>5, <1>6

LEMMA ContinuesTypes ==
    ASSUME PageTypeInv, NEW i \in Slots, Continues(i)
    PROVE  PageTypeInv'
<1>1. TasksInv /\ page \in Pages /\ tasks[i] \in Tasks /\ TaskInv(tasks[i]) /\ shown \in Logs /\ echo \in Int
  BY DEF PageTypeInv, TasksInv
<1>2. Ends(i) => TasksInv'
  BY <1>1, IdleType, TaskChanges DEF Ends
<1>3. PICK r : r = tasks[i].reply /\ r \in Replies
  BY <1>1 DEF Tasks
<1>4. r.history \in Logs /\ r.depth \in Nat /\ r.beats \in Logs /\ r.input \in Bubbles /\ r.whole \in BOOLEAN
  BY <1>3 DEF Replies
<1>5. ASSUME TasksInv', page' \in Pages, shown' \in Logs, echo' \in Int, aux_behind' \in BOOLEAN,
             UNCHANGED <<server, orphans>>
      PROVE  PageTypeInv'
  BY <1>5 DEF PageTypeInv, TasksInv
<1>6. renderHistory(i, r) => shown' \in Logs /\ echo' \in Int /\ aux_behind' \in BOOLEAN
  BY <1>1, <1>4 DEF renderHistory, Behind, NoEcho, Detached
<1>7. ASSUME NEW p \in Pages
      PROVE  /\ Ingested(p, r) \in Pages /\ Released(i, p) \in Pages
             /\ \A failed \in BOOLEAN : AfterTurn(p, failed) \in Pages
             /\ \A can_undo \in BOOLEAN : [p EXCEPT !.can_undo = can_undo] \in Pages
             /\ [p EXCEPT !.busy = FALSE] \in Pages
  <2>1. Ingested(p, r) \in Pages
    BY <1>4 DEF Ingested, Pages
  <2>2. Released(i, p) \in Pages
    BY DEF Released, Pages
  <2>3. \A failed \in BOOLEAN : AfterTurn(p, failed) \in Pages
    BY DEF AfterTurn, Pages
  <2>4. \A can_undo \in BOOLEAN : [p EXCEPT !.can_undo = can_undo] \in Pages
    BY DEF Pages
  <2>5. [p EXCEPT !.busy = FALSE] \in Pages
    BY DEF Pages
  <2>. QED  BY <2>1, <2>2, <2>3, <2>4, <2>5
<1>8. aux_behind \in BOOLEAN /\ tasks[i].stopped \in BOOLEAN
  BY <1>1 DEF PageTypeInv, Tasks
<1>9. CASE TurnAnswered(i)
  <2>1. page' \in Pages
    BY <1>1, <1>7, <1>9 DEF TurnAnswered
  <2>2. TasksInv'
    BY <1>2, <1>9 DEF TurnAnswered
  <2>3. PICK told : /\ told = IF tasks[i].kind = "skip" THEN [log |-> shown, at |-> echo]
                              ELSE WithEffectiveInput(shown, r.input)
                    /\ shown' = told.log \o r.beats /\ echo' = told.at /\ aux_behind' = (aux_behind \/ ~r.whole)
    BY <1>3, <1>9 DEF TurnAnswered
  <2>4. told.log \in Logs /\ told.at \in Int
    <3>1. CASE tasks[i].kind = "skip"
      BY <1>1, <2>3, <3>1
    <3>2. CASE tasks[i].kind # "skip"
      BY <1>1, <1>4, <2>3, <3>2, EffectiveInputTypes
    <3>. QED  BY <3>1, <3>2
  <2>5. shown' \in Logs /\ echo' \in Int
    BY <1>4, <2>3, <2>4, ConcatProperties DEF Logs
  <2>. QED  BY <1>4, <1>5, <1>8, <1>9, <2>1, <2>2, <2>3, <2>5 DEF TurnAnswered
<1>10. ASSUME NEW awaits \in {"reload", "recover"}, Reads(i, awaits), tasks[i].kind \in Kinds
       PROVE  TasksInv'
  BY <1>1, <1>10, ReadsType, TaskChanges
<1>11. CASE HistoryRewritten(i)
  <2>1. tasks[i].kind \in Kinds
    BY <1>11 DEF HistoryRewritten, Answered, Kinds
  <2>2. TasksInv'
    BY <1>10, <1>11, <2>1 DEF HistoryRewritten
  <2>. QED  BY <1>1, <1>5, <1>8, <1>11, <2>2 DEF HistoryRewritten
<1>12. CASE TurnFailed(i)
  <2>1. tasks[i].kind \in Kinds
    BY <1>12 DEF TurnFailed, Failed, Kinds
  <2>2. TasksInv'
    BY <1>10, <1>12, <2>1 DEF TurnFailed
  <2>. QED  BY <1>1, <1>5, <1>8, <1>12, <2>2 DEF TurnFailed
<1>13. CASE reloadView(i)
  <2>1. PICK turn : turn = (tasks[i].kind \in {"send", "skip"})
    OBVIOUS
  <2>2. turn \in BOOLEAN
    BY <2>1
  <2>3. PICK p : p = [Ingested(page, r) EXCEPT !.can_undo = turn \/ r.history # <<>>]
    OBVIOUS
  <2>4. p \in Pages
    BY <1>1, <1>7, <2>2, <2>3
  <2>5. page' = IF turn THEN AfterTurn(p, FALSE) ELSE Released(i, p)
    BY <1>3, <1>13, <2>1, <2>3 DEF reloadView
  <2>6. page' \in Pages
    BY <1>7, <2>4, <2>5
  <2>7. shown' = r.history /\ echo' \in Int /\ aux_behind' \in BOOLEAN
    BY <1>1, <1>3, <1>13 DEF reloadView, Behind, NoEcho, Detached
  <2>. QED  BY <1>2, <1>4, <1>5, <1>13, <2>6, <2>7 DEF reloadView
<1>14. CASE Recovered(i)
  <2>1. page' \in Pages
    BY <1>1, <1>3, <1>7, <1>8, <1>14 DEF Recovered
  <2>2. shown' \in Logs /\ echo' \in Int /\ aux_behind' \in BOOLEAN
    BY <1>1, <1>3, <1>6, <1>14 DEF Recovered
  <2>. QED  BY <1>2, <1>5, <1>14, <2>1, <2>2 DEF Recovered
<1>15. CASE PassFailed(i)
  <2>1. page' \in Pages
    BY <1>1, <1>7, <1>8, <1>15 DEF PassFailed
  <2>. QED  BY <1>1, <1>2, <1>5, <1>15, <2>1 DEF PassFailed
<1>16. CASE UndoAnswered(i)
  <2>1. PICK p \in Pages : p = Ingested(page, r)
    BY <1>1, <1>7
  <2>2. page' = [p EXCEPT !.failed = FALSE, !.can_undo = r.history # <<>>, !.busy = FALSE]
    BY <1>3, <1>16, <2>1 DEF UndoAnswered
  <2>3. page' \in Pages
    BY <2>1, <2>2 DEF Pages
  <2>. QED  BY <1>2, <1>3, <1>5, <1>6, <1>16, <2>3 DEF UndoAnswered
<1>17. CASE NothingDone(i)
  <2>1. page' \in Pages /\ aux_behind' \in BOOLEAN
    BY <1>1, <1>7, <1>8, <1>17 DEF NothingDone
  <2>. QED  BY <1>1, <1>2, <1>5, <1>17, <2>1 DEF NothingDone
<1>18. CASE SessionOpened(i)
  <2>1. PICK p \in Pages : p = Ingested(page, r)
    BY <1>1, <1>7
  <2>2. page' = [p EXCEPT !.session = tasks[i].session, !.inputs = FALSE,
                          !.failed = FALSE, !.can_undo = r.history # <<>>]
    BY <1>3, <1>18, <2>1 DEF SessionOpened
  <2>3. page' \in Pages
    <3>1. tasks[i].session \in Sessions \cup {None}
      BY <1>1 DEF Tasks
    <3>. QED  BY <2>1, <2>2, <3>1 DEF Pages
  <2>4. PICK q : q = tasks[i] /\ q \in Tasks /\ q.status = "done" /\ q.kind \in {"load", "start"}
    BY <1>1, <1>18 DEF SessionOpened, Answered
  <2>5. PICK t : t = [q EXCEPT !.awaits = "avatars"]
    OBVIOUS
  <2>6. t \in Tasks /\ t.status = "done" /\ t.awaits = "avatars"
    BY <2>4, <2>5 DEF Tasks
  <2>7. TaskInv(t)
    BY <2>6 DEF TaskInv
  <2>8. tasks' = [tasks EXCEPT ![i] = t]
    BY <1>18, <2>4, <2>5 DEF SessionOpened
  <2>9. TasksInv'
    BY <1>1, <2>7, <2>8, TaskChanges
  <2>. QED  BY <1>1, <1>5, <1>8, <1>18, <2>3, <2>9 DEF SessionOpened, NoEcho
<1>19. CASE AvatarsLoaded(i)
  <2>1. page' \in Pages
    BY <1>1, <1>7, <1>19 DEF AvatarsLoaded
  <2>. QED  BY <1>2, <1>3, <1>5, <1>6, <1>19, <2>1 DEF AvatarsLoaded
<1>20. CASE OpenFailed(i)
  <2>1. page' \in Pages /\ aux_behind' \in BOOLEAN
    BY <1>1, <1>7, <1>8, <1>20 DEF OpenFailed
  <2>. QED  BY <1>1, <1>2, <1>5, <1>20, <2>1 DEF OpenFailed
<1>21. CASE SessionDeleted(i)
  <2>1. CASE tasks[i].session = page.session
    <3>1. page' = [page EXCEPT !.session = None, !.depth = 0]
      BY <1>21, <2>1 DEF SessionDeleted
    <3>2. page' \in Pages
      BY <1>1, <3>1 DEF Pages
    <3>3. shown' = <<>> /\ echo' = IF echo = NoEcho THEN NoEcho ELSE Detached
      BY <1>21, <2>1 DEF SessionDeleted
    <3>4. shown' \in Logs /\ echo' \in Int
      BY <3>3 DEF Logs, NoEcho, Detached
    <3>. QED  BY <1>2, <1>5, <1>8, <1>21, <3>2, <3>4 DEF SessionDeleted
  <2>2. CASE tasks[i].session # page.session
    BY <1>1, <1>2, <1>5, <1>8, <1>21, <2>2 DEF SessionDeleted
  <2>. QED  BY <2>1, <2>2
<1>. QED  BY <1>9, <1>11, <1>12, <1>13, <1>14, <1>15, <1>16, <1>17, <1>18, <1>19, <1>20, <1>21 DEF Continues

-----------------------------------------------------------------------------
(* What the page shows *)

\* The log as it was, the turn as it was typed below it.
Echoed(log) ==
    \/ echo = Detached /\ shown = log
    \/ echo = Len(log) + 1 /\ shown = Append(log, Echo(page.session))

\* How far what is shown may be from the history while an operation is under way.
SendInStep(t) ==
    t.kind = "send" /\ t.awaits = "answer" =>
       /\ t.status = "waiting" => Echoed(server[page.session].history)
       /\ t.status = "done" /\ ~t.reply.compacted /\ t.reply.whole =>
            \E log \in Logs :
               Echoed(log) /\ server[page.session].history = Append(log, t.reply.input) \o t.reply.beats

SkipInStep(t) ==
    t.kind = "skip" /\ t.awaits = "answer" =>
       /\ t.status = "waiting" => shown = server[page.session].history
       /\ t.status = "done" /\ ~t.reply.compacted /\ t.reply.whole =>
            server[page.session].history = shown \o t.reply.beats

RewritingInStep(t) ==
    t.kind \in {"undo", "compact", "restore"} /\ t.awaits = "answer" =>
       (t.status = "waiting" \/ (t.status = "done" /\ ~t.reply.done) => shown = server[page.session].history)

OpeningInStep(t) ==
    /\ t.kind = "load" /\ t.awaits # "avatars" => shown = server[page.session].history
    /\ t.kind = "delete" /\ (t.status = "waiting" \/ (t.status = "done" /\ t.session # page.session)) =>
          shown = server[page.session].history

InStep(t) ==
    /\ t.kind \in {"send", "skip", "undo", "compact", "restore"} => t.session = page.session
    /\ SendInStep(t) /\ SkipInStep(t) /\ RewritingInStep(t) /\ OpeningInStep(t)

InView ==
    /\ \A i, j \in Slots : tasks[i] # Idle /\ tasks[j] # Idle => i = j
    /\ page.failed => echo \in {NoEcho, Detached}
    /\ \A i \in Slots : tasks[i].kind # "start"
    /\ page.session # None =>
         /\ (\A i \in Slots : tasks[i] = Idle) => shown = server[page.session].history
         /\ \A i \in Slots : InStep(tasks[i])

ViewInv == ~aux_behind => InView

\* A page where nothing is under way shows the history.
LEMMA NothingUnderWay ==
    ASSUME \A k \in Slots : tasks'[k] = Idle,
           page'.failed => echo' \in {NoEcho, Detached},
           page'.session # None => shown' = server'[page'.session].history
    PROVE  InView'
<1>1. PICK idle : idle = Idle /\ idle.kind = None
  BY SimpleTypes
<1>2. \A k \in Slots : tasks'[k] = idle
  BY <1>1
<1>3. \A k \in Slots : InStep(tasks[k])'
  BY <1>1, <1>2 DEF InStep, SendInStep, SkipInStep, RewritingInStep, OpeningInStep, None
<1>. QED  BY <1>1, <1>2, <1>3 DEF InView, None

\* A page where one operation is under way is in step with it.
LEMMA OneUnderWay ==
    ASSUME tasks \in [Slots -> Tasks], NEW i \in Slots, NEW t, t # Idle, t.kind # "start",
           tasks' = [tasks EXCEPT ![i] = t], \A k \in Slots \ {i} : tasks[k] = Idle,
           page'.failed => echo' \in {NoEcho, Detached},
           page'.session # None => InStep(t)'
    PROVE  InView'
<1>1. PICK idle : idle = Idle /\ idle.kind = None
  BY SimpleTypes
<1>2. tasks'[i] = t /\ \A k \in Slots \ {i} : tasks'[k] = idle
  BY <1>1
<1>3. ASSUME NEW k \in Slots, page'.session # None
      PROVE  InStep(tasks[k])'
  <2>1. CASE k = i
    BY <1>2, <1>3, <2>1 DEF InStep, SendInStep, SkipInStep, RewritingInStep, OpeningInStep
  <2>2. CASE k # i
    <3>1. tasks'[k] = idle
      BY <1>2, <2>2
    <3>. QED  BY <1>1, <3>1 DEF InStep, SendInStep, SkipInStep, RewritingInStep, OpeningInStep, None
  <2>. QED  BY <2>1, <2>2
<1>4. \A j, k \in Slots : tasks'[j] # Idle /\ tasks'[k] # Idle => j = k
  BY <1>1, <1>2
<1>5. \A k \in Slots : tasks'[k].kind # "start"
  BY <1>1, <1>2 DEF None
<1>6. ~ \A k \in Slots : tasks'[k] = Idle
  BY <1>2
<1>. QED  BY <1>3, <1>4, <1>5, <1>6 DEF InView

\* Nothing else is under way beside a task that acts.
LEMMA OthersAreIdle ==
    ASSUME InView, NEW i \in Slots, tasks[i].status # None \/ tasks[i].kind # None
    PROVE  tasks[i] # Idle /\ \A k \in Slots \ {i} : tasks[k] = Idle
<1>1. tasks[i] # Idle
  BY SimpleTypes
<1>. QED  BY <1>1 DEF InView

LEMMA InViewUnchanged ==
    ASSUME InView, UNCHANGED <<server, page, shown, echo, tasks>>
    PROVE  InView'
BY DEF InView, InStep, SendInStep, SkipInStep, RewritingInStep, OpeningInStep, Echoed

\* What the server does to the session on the page it does to what the page is in step with.
LEMMA ServerInView ==
    ASSUME PageTypeInv, InView, NEW i \in Slots, Server(i) \/ OrphanServed, ~aux_behind'
    PROVE  InView'
<1>1. tasks \in [Slots -> Tasks] /\ TaskInv(tasks[i]) /\ tasks[i] \in Tasks
  BY DEF PageTypeInv
<1>2. page.session # None => page.session \in Sessions
  BY DEF PageTypeInv, Pages
<1>3. page.failed => echo \in {NoEcho, Detached}
  BY DEF InView
<1>4. PICK q : q = tasks[i] /\ q \in Tasks /\ TaskInv(q) /\ q.kind # "start" /\ (page.session # None => InStep(q))
  BY <1>1 DEF InView
<1>5. CASE Serve(i)
  <2>1. q.status = "waiting" /\ q.session \in Sessions /\ q.awaits # "avatars"
    BY <1>4, <1>5 DEF Serve, TaskInv
  <2>2. PICK s, kind : s \in Sessions /\ s = q.session /\ kind = Asked(i)
    BY <2>1
  <2>3. PICK o \in Outcomes(kind, s) :
           /\ server' = [server EXCEPT ![s] = o[1]]
           /\ tasks' = [tasks EXCEPT ![i].status = "done", ![i].reply = o[2]]
    BY <1>4, <1>5, <2>2 DEF Serve
  <2>4. PICK game : game = server[s] /\ Answer(kind, game, o)
    BY <2>2, OutcomesAnswer DEF PageTypeInv
  <2>5. PICK left, reply : left = o[1] /\ reply = o[2]
    OBVIOUS
  <2>6. PICK t : t = [q EXCEPT !.status = "done", !.reply = reply]
    OBVIOUS
  <2>7. tasks' = [tasks EXCEPT ![i] = t]
    BY <1>1, <1>4, <2>3, <2>5, <2>6
  <2>8. /\ t.status = "done" /\ t.reply = reply /\ t.kind = q.kind /\ t.awaits = q.awaits
        /\ t.session = q.session /\ t # Idle
    BY <1>4, <2>6, SimpleTypes DEF Tasks, None
  <2>9. q # Idle /\ \A k \in Slots \ {i} : tasks[k] = Idle
    BY <1>4, <2>1, OthersAreIdle DEF None
  <2>10. UNCHANGED <<page, shown, echo>>
    BY <1>5 DEF Serve
  <2>11. ASSUME page.session # None
         PROVE  InStep(t)'
    <3>1. InStep(q) /\ page.session \in Sessions
      BY <1>2, <1>4, <2>11
    <3>2. PICK h, u : h = server[page.session].history /\ u = server'[page.session].history
      OBVIOUS
    <3>3. kind = IF q.awaits \in {"reload", "recover"} THEN "state" ELSE q.kind
      BY <1>4, <2>2 DEF Asked
    <3>4. page.session # s => u = h
      BY <2>3, <3>1, <3>2
    <3>5. page.session = s => game.history = h /\ u = left.history
      BY <2>3, <2>4, <2>5, <3>1, <3>2 DEF PageTypeInv
    <3>6. left = game => u = h
      BY <3>4, <3>5
    <3>7. t.kind \in {"send", "skip", "undo", "compact", "restore"} => t.session = page'.session /\ page.session = s
      BY <2>2, <2>8, <2>10, <3>1 DEF InStep
    <3>8. SendInStep(t)'
      <4>1. SUFFICES ASSUME t.kind = "send", t.awaits = "answer", ~reply.compacted, reply.whole
                     PROVE  \E log \in Logs : Echoed(log)' /\ u = Append(log, reply.input) \o reply.beats
        BY <2>8, <2>10, <3>2 DEF SendInStep
      <4>2. Echoed(h)
        BY <2>1, <2>8, <3>1, <3>2, <4>1 DEF InStep, SendInStep
      <4>3. Echoed(h)'
        BY <2>10, <4>2 DEF Echoed
      <4>4. kind = "send"
        BY <2>8, <3>3, <4>1
      <4>5. u = Append(h, reply.input) \o reply.beats
        BY <2>4, <2>5, <3>5, <3>7, <4>1, <4>4 DEF Answer
      <4>6. h \in Logs
        BY <3>1, <3>2, GameType DEF PageTypeInv
      <4>. QED  BY <4>3, <4>5, <4>6
    <3>9. SkipInStep(t)'
      <4>1. SUFFICES ASSUME t.kind = "skip", t.awaits = "answer", ~reply.compacted, reply.whole
                     PROVE  u = shown \o reply.beats
        BY <2>8, <2>10, <3>2 DEF SkipInStep
      <4>2. shown = h
        BY <2>1, <2>8, <3>1, <3>2, <4>1 DEF InStep, SkipInStep
      <4>. QED  BY <2>4, <2>5, <2>8, <3>3, <3>5, <3>7, <4>1, <4>2 DEF Answer
    <3>10. RewritingInStep(t)'
      <4>1. SUFFICES ASSUME t.kind \in {"undo", "compact", "restore"}, t.awaits = "answer", ~reply.done
                     PROVE  shown = u
        BY <2>8, <2>10, <3>2 DEF RewritingInStep
      <4>2. shown = h
        BY <2>1, <2>8, <3>1, <3>2, <4>1 DEF InStep, RewritingInStep
      <4>. QED  BY <2>4, <2>5, <2>8, <3>3, <3>6, <4>1, <4>2 DEF Answer
    <3>11. OpeningInStep(t)'
      <4>1. CASE t.kind = "load" /\ t.awaits # "avatars"
        <5>1. shown = h
          BY <2>8, <3>1, <3>2, <4>1 DEF InStep, OpeningInStep
        <5>2. kind \in {"load", "state"}
          BY <2>8, <3>3, <4>1
        <5>. QED  BY <2>4, <2>5, <2>10, <3>2, <3>6, <4>1, <5>1, <5>2 DEF Answer, OpeningInStep
      <4>2. CASE t.kind = "delete" /\ t.session # page.session
        <5>1. shown = h
          BY <2>1, <2>8, <3>1, <3>2, <4>2 DEF InStep, OpeningInStep
        <5>. QED  BY <2>2, <2>8, <2>10, <3>2, <3>4, <4>2, <5>1 DEF OpeningInStep
      <4>. QED  BY <2>8, <2>10, <4>1, <4>2 DEF OpeningInStep
    <3>. QED  BY <3>7, <3>8, <3>9, <3>10, <3>11 DEF InStep
  <2>. QED  BY <1>1, <1>3, <1>4, <2>7, <2>8, <2>9, <2>10, <2>11, OneUnderWay
<1>6. ASSUME NEW t, t.status = "error", t.kind = q.kind, t.awaits = q.awaits, t.session = q.session,
             q.status # None, tasks' = [tasks EXCEPT ![i] = t], UNCHANGED <<page, shown, echo>>,
             t.kind = "load" => UNCHANGED server
      PROVE  InView'
  <2>1. \A k \in Slots \ {i} : tasks[k] = Idle
    BY <1>4, <1>6, OthersAreIdle
  <2>2. t # Idle
    BY <1>6, SimpleTypes DEF None
  <2>3. ASSUME page.session # None
        PROVE  InStep(t)'
    <3>1. InStep(q)
      BY <1>4, <2>3
    <3>2. OpeningInStep(t)'
      BY <1>6, <3>1 DEF InStep, OpeningInStep
    <3>3. SendInStep(t)' /\ SkipInStep(t)' /\ RewritingInStep(t)'
      BY <1>6 DEF SendInStep, SkipInStep, RewritingInStep
    <3>. QED  BY <1>6, <3>1, <3>2, <3>3 DEF InStep
  <2>. QED  BY <1>1, <1>3, <1>4, <1>6, <2>1, <2>2, <2>3, OneUnderWay
<1>7. CASE ServeFails(i)
  <2>1. PICK t : t = [q EXCEPT !.status = "error"]
    OBVIOUS
  <2>2. t.status = "error" /\ t.kind = q.kind /\ t.awaits = q.awaits /\ t.session = q.session
    BY <1>4, <2>1 DEF Tasks
  <2>3. tasks' = [tasks EXCEPT ![i] = t] /\ UNCHANGED <<page, shown, echo>> /\ q.status = "waiting"
    BY <1>1, <1>4, <1>7, <2>1 DEF ServeFails
  <2>4. q.kind = "load" => UNCHANGED server
    <3>1. PICK s, kind : s \in Sessions /\ s = q.session /\ kind = Asked(i)
      BY <1>4, <2>3 DEF TaskInv
    <3>2. PICK left \in Unfinished(kind, s) : server' = [server EXCEPT ![s] = left]
      BY <1>4, <1>7, <3>1 DEF ServeFails
    <3>3. q.kind = "load" => left = server[s]
      BY <1>4, <3>1, UnfinishedType DEF Asked, PageTypeInv
    <3>. QED  BY <3>1, <3>2, <3>3 DEF PageTypeInv
  <2>. QED  BY <1>6, <2>2, <2>3, <2>4 DEF None
<1>8. CASE AnswerLost(i)
  <2>1. PICK t : t = [q EXCEPT !.status = "error", !.reply = NoReply]
    OBVIOUS
  <2>2. t.status = "error" /\ t.kind = q.kind /\ t.awaits = q.awaits /\ t.session = q.session
    BY <1>4, <2>1 DEF Tasks
  <2>3. tasks' = [tasks EXCEPT ![i] = t] /\ UNCHANGED <<server, page, shown, echo>> /\ q.status = "done"
    BY <1>1, <1>4, <1>8, <2>1 DEF AnswerLost
  <2>. QED  BY <1>6, <2>2, <2>3 DEF None
<1>9. CASE OrphanServed
  <2>1. server' = server /\ UNCHANGED <<page, shown, echo, tasks>>
    BY <1>9 DEF OrphanServed
  <2>. QED  BY <2>1, InViewUnchanged
<1>. QED  BY <1>5, <1>7, <1>8, <1>9 DEF Server

\* An operation that begins alone begins in step.
LEMMA ReaderInView ==
    ASSUME PageTypeInv, ViewInv, NEW i \in Slots, Reader(i) \/ stopTurn, ~aux_behind'
    PROVE  InView'
<1>1. tasks \in [Slots -> Tasks] /\ page \in Pages /\ shown \in Logs /\ TasksInv
  BY DEF PageTypeInv, TasksInv
<1>2. page.session # None => page.session \in Sessions
  BY <1>1 DEF Pages
<1>3. ASSUME NEW kind \in Kinds \ {"start"}, NEW s \in Sessions, Free = Slots, ~aux_behind,
             tasks' = [tasks EXCEPT ![i] = Call(kind, s)], UNCHANGED <<server, shown, echo>>,
             page'.failed => page.failed, page'.session = page.session,
             kind \notin {"load", "delete"} => s = page.session, kind # "send"
      PROVE  InView'
  <2>1. InView /\ \A k \in Slots : tasks[k] = Idle
    BY <1>3 DEF ViewInv, Free
  <2>2. PICK t : t = Call(kind, s) /\ t.kind = kind /\ t.session = s /\ t.status = "waiting" /\ t # Idle
    BY CallType
  <2>3. page'.failed => echo' \in {NoEcho, Detached}
    BY <1>3, <2>1 DEF InView
  <2>4. ASSUME page'.session # None
        PROVE  InStep(t)'
    <3>1. shown' = server'[page'.session].history
      BY <1>3, <2>1, <2>4 DEF InView
    <3>2. SkipInStep(t)' /\ RewritingInStep(t)' /\ OpeningInStep(t)' /\ SendInStep(t)'
      BY <1>3, <2>2, <3>1 DEF SkipInStep, RewritingInStep, OpeningInStep, SendInStep
    <3>. QED  BY <1>3, <2>2, <3>2 DEF InStep
  <2>. QED  BY <1>1, <1>3, <2>1, <2>2, <2>3, <2>4, OneUnderWay
<1>4. ASSUME NEW s \in Sessions, s = page.session, Free = Slots, ~aux_behind,
             tasks' = [tasks EXCEPT ![i] = Call("send", s)], UNCHANGED server,
             ~page'.failed, page'.session = page.session,
             shown = server[s].history => Echoed(server[s].history)'
      PROVE  InView'
  <2>1. InView /\ \A k \in Slots : tasks[k] = Idle
    BY <1>4 DEF ViewInv, Free
  <2>2. PICK t : t = Call("send", s) /\ t.kind = "send" /\ t.session = s /\ t.status = "waiting" /\ t # Idle
    BY CallType DEF Kinds
  <2>3. shown = server[s].history
    BY <1>2, <1>4, <2>1, NoneIsNoSession DEF InView
  <2>4. InStep(t)'
    BY <1>4, <2>2, <2>3 DEF InStep, SendInStep, SkipInStep, RewritingInStep, OpeningInStep
  <2>. QED  BY <1>1, <1>4, <2>1, <2>2, <2>4, OneUnderWay
<1>5. Kinds \ {"start"} = {"send", "skip", "undo", "load", "delete", "compact", "restore"}
  BY DEF Kinds
<1>6. CASE sendTurn(i)
  <2>1. PICK s \in Sessions : s = page.session
    BY <1>2, <1>6 DEF sendTurn
  <2>2. /\ Free = Slots /\ ~aux_behind /\ tasks' = [tasks EXCEPT ![i] = Call("send", s)] /\ UNCHANGED server
        /\ shown' = Append(shown, Echo(s)) /\ echo' = Len(shown')
        /\ page' = [page EXCEPT !.inputs = TRUE, !.busy = TRUE, !.failed = FALSE, !.stop = i]
    BY <1>6, <2>1 DEF sendTurn, Begin
  <2>3. ~page'.failed /\ page'.session = page.session
    BY <1>1, <2>2 DEF Pages
  <2>4. PICK b \in Bubbles : b = Echo(s)
    BY <1>1, <2>1, EchoType
  <2>5. echo' = Len(shown) + 1
    BY <1>1, <2>2, <2>4, AppendProperties DEF Logs
  <2>6. shown = server[s].history => Echoed(server[s].history)'
    BY <2>1, <2>2, <2>3, <2>5 DEF Echoed, Echo, Bubble
  <2>. QED  BY <1>4, <2>1, <2>2, <2>3, <2>6
<1>7. CASE retryTurn(i)
  <2>1. PICK s \in Sessions : s = page.session
    BY <1>2, <1>7 DEF retryTurn
  <2>2. /\ Free = Slots /\ ~aux_behind /\ tasks' = [tasks EXCEPT ![i] = Call("send", s)] /\ UNCHANGED server
        /\ UNCHANGED <<shown, echo>> /\ echo # NoEcho /\ page.failed
        /\ page' = [page EXCEPT !.busy = TRUE, !.failed = FALSE, !.stop = i]
    BY <1>7, <2>1 DEF retryTurn
  <2>3. ~page'.failed /\ page'.session = page.session
    BY <1>1, <2>2 DEF Pages
  <2>4. echo = Detached
    BY <2>2 DEF ViewInv, InView
  <2>5. shown = server[s].history => Echoed(server[s].history)'
    BY <2>2, <2>4 DEF Echoed
  <2>. QED  BY <1>4, <2>1, <2>2, <2>3, <2>5
<1>8. CASE skipTurn(i)
  <2>1. PICK s \in Sessions : s = page.session
    BY <1>2, <1>8 DEF skipTurn
  <2>2. page'.failed => page.failed /\ page'.session = page.session
    BY <1>1, <1>8 DEF skipTurn, Pages
  <2>3. page'.session = page.session
    BY <1>1, <1>8 DEF skipTurn, Pages
  <2>. QED  BY <1>3, <1>5, <1>8, <2>1, <2>2, <2>3 DEF skipTurn, Begin
<1>9. CASE undoLastTurn(i)
  <2>1. PICK s \in Sessions : s = page.session
    BY <1>2, <1>9 DEF undoLastTurn
  <2>2. page'.failed => page.failed
    BY <1>1, <1>9 DEF undoLastTurn, Pages
  <2>3. page'.session = page.session
    BY <1>1, <1>9 DEF undoLastTurn, Pages
  <2>. QED  BY <1>3, <1>5, <1>9, <2>1, <2>2, <2>3 DEF undoLastTurn, Begin
<1>10. CASE compactSession(i)
  <2>1. PICK s \in Sessions : s = page.session
    BY <1>2, <1>10 DEF compactSession
  <2>2. page'.failed => page.failed
    BY <1>1, <1>10 DEF compactSession, Pages
  <2>3. page'.session = page.session
    BY <1>1, <1>10 DEF compactSession, Pages
  <2>. QED  BY <1>3, <1>5, <1>10, <2>1, <2>2, <2>3 DEF compactSession, Begin
<1>11. CASE restoreCompaction(i)
  <2>1. PICK s \in Sessions : s = page.session
    BY <1>2, <1>11 DEF restoreCompaction
  <2>2. page'.failed => page.failed
    BY <1>1, <1>11 DEF restoreCompaction, Pages
  <2>3. page'.session = page.session
    BY <1>1, <1>11 DEF restoreCompaction, Pages
  <2>. QED  BY <1>3, <1>5, <1>11, <2>1, <2>2, <2>3 DEF restoreCompaction, Begin
<1>12. ASSUME NEW s \in Sessions, deleteSession(i, s)
       PROVE  InView'
  BY <1>3, <1>5, <1>12 DEF deleteSession, Begin
<1>13. ASSUME NEW s \in Sessions, loadSession(i, s)
       PROVE  InView'
  <2>1. PICK j \in Slots \cup {None} : j = page.stop_compaction
    BY <1>1 DEF Pages
  <2>2. /\ tasks' = [k \in Slots |-> IF k = i THEN Call("load", s)
                                     ELSE IF k = j THEN Aborted(j).task ELSE tasks[k]]
        /\ Free = Slots /\ ~aux_behind /\ UNCHANGED <<server, page, shown, echo>>
    BY <1>13, <2>1 DEF loadSession
  <2>3. \A k \in Slots : tasks[k] = Idle
    BY <2>2 DEF Free
  <2>4. Aborted(j).task = Idle
    BY <2>1, <2>3, SimpleTypes DEF Aborted, None
  <2>5. tasks' = [tasks EXCEPT ![i] = Call("load", s)]
    BY <1>1, <2>2, <2>3, <2>4
  <2>. QED  BY <1>3, <1>5, <2>2, <2>5
<1>14. ASSUME NEW s \in Sessions, startSession(i, s)
       PROVE  InView'
  BY <1>14 DEF startSession
<1>15. CASE stopTurn
  <2>1. PICK j \in Slots : j = page.stop
    BY <1>1, <1>15 DEF stopTurn, Pages
  <2>2. PICK q : q = tasks[j] /\ q \in Tasks
    BY <1>1
  <2>3. q.awaits = "answer" /\ q.status \in {"waiting", "done"}
    <3>1. Aborted(j).task.stopped /\ ~q.stopped
      BY <1>15, <2>1, <2>2 DEF stopTurn
    <3>2. j # None
      BY <1>15, <2>1 DEF stopTurn
    <3>. QED  BY <2>2, <3>1, <3>2 DEF Aborted
  <2>4. PICK t : t = [q EXCEPT !.status = "error", !.stopped = TRUE, !.reply = NoReply]
    OBVIOUS
  <2>5. j # None /\ tasks' = [tasks EXCEPT ![j] = t]
    BY <1>15, <2>1, <2>2, <2>3, <2>4 DEF stopTurn, Aborted
  <2>6. t.status = "error" /\ t.kind = q.kind /\ t.awaits = q.awaits /\ t.session = q.session
    BY <2>2, <2>4 DEF Tasks
  <2>7. UNCHANGED <<server, page, shown, echo>> /\ InView
    BY <1>15 DEF stopTurn, ViewInv
  <2>8. \A k \in Slots \ {j} : tasks[k] = Idle
    BY <2>2, <2>3, <2>7, OthersAreIdle DEF None
  <2>9. t # Idle /\ t.kind # "start"
    BY <2>2, <2>6, <2>7, SimpleTypes DEF InView, None
  <2>10. ASSUME page.session # None
         PROVE  InStep(t)'
    <3>1. InStep(q)
      BY <2>2, <2>7, <2>10 DEF InView
    <3>. QED  BY <2>6, <2>7, <3>1 DEF InStep, SendInStep, SkipInStep, RewritingInStep, OpeningInStep
  <2>11. page.failed => echo \in {NoEcho, Detached}
    BY <2>7 DEF InView
  <2>. QED  BY <1>1, <2>5, <2>7, <2>8, <2>9, <2>10, <2>11, OneUnderWay
<1>. QED  BY <1>6, <1>7, <1>8, <1>9, <1>10, <1>11, <1>12, <1>13, <1>14, <1>15 DEF Reader

\* The bubbles of a turn's answer complete what is shown: the effective input is
\* where the turn was echoed.
LEMMA EchoIsReplaced ==
    ASSUME NEW log \in Logs, NEW b \in Bubbles, Echoed(log), shown \in Logs, page.session \in Sessions
    PROVE  WithEffectiveInput(shown, b).log = Append(log, b)
<1>1. CASE echo = Detached /\ shown = log
  BY <1>1 DEF WithEffectiveInput, NoEcho, Detached
<1>2. CASE echo = Len(log) + 1 /\ shown = Append(log, Echo(page.session))
  <2>1. PICK e \in Bubbles : e = Echo(page.session)
    BY EchoType
  <2>2. PICK n \in Nat : n = Len(log)
    BY LenProperties DEF Logs
  <2>3. echo = n + 1 /\ echo # NoEcho /\ echo # Detached
    BY <1>2, <2>2 DEF NoEcho, Detached
  <2>4. WithEffectiveInput(shown, b).log = [shown EXCEPT ![n + 1] = b]
    BY <2>3 DEF WithEffectiveInput, ReplaceAt
  <2>5. Append(log, e) \in Seq(Bubbles) /\ Append(log, b) \in Seq(Bubbles)
    BY AppendProperties DEF Logs
  <2>6. [Append(log, e) EXCEPT ![n + 1] = b] = Append(log, b)
    <3>1. PICK f, g : f = Append(log, e) /\ g = Append(log, b)
      OBVIOUS
    <3>2. /\ f \in Seq(Bubbles) /\ g \in Seq(Bubbles) /\ Len(f) = n + 1 /\ Len(g) = n + 1
          /\ \A k \in 1..n : f[k] = log[k] /\ g[k] = log[k]
          /\ g[n + 1] = b
      BY <2>1, <2>2, <3>1, AppendProperties DEF Logs
    <3>3. f \in [1..(n + 1) -> Bubbles] /\ g \in [1..(n + 1) -> Bubbles]
      BY <3>2, LenProperties
    <3>4. \A k \in 1..(n + 1) : [f EXCEPT ![n + 1] = b][k] = g[k]
      BY <3>2, <3>3
    <3>. QED  BY <3>1, <3>3, <3>4
  <2>. QED  BY <1>2, <2>1, <2>4, <2>6
<1>. QED  BY <1>1, <1>2 DEF Echoed

\* What an operation goes on to do leaves the page in step, or showing the history.
LEMMA ContinuesInView ==
    ASSUME PageTypeInv, ViewInv, NEW i \in Slots, Continues(i), ~aux_behind'
    PROVE  InView'
<1>1. tasks \in [Slots -> Tasks] /\ page \in Pages /\ shown \in Logs /\ server \in [Sessions -> Games]
  BY DEF PageTypeInv
<1>2. page.session # None => page.session \in Sessions
  BY <1>1 DEF Pages
<1>3. PICK q : q = tasks[i] /\ q \in Tasks /\ TaskInv(q)
  BY DEF PageTypeInv
<1>4. PICK r : r = q.reply /\ r \in Replies
  BY <1>3 DEF Tasks
<1>5. ASSUME Ends(i), \A k \in Slots \ {i} : tasks[k] = Idle,
             page'.failed => echo' \in {NoEcho, Detached},
             page'.session # None => shown' = server'[page'.session].history
      PROVE  InView'
  <2>1. \A k \in Slots : tasks'[k] = Idle
    BY <1>1, <1>5 DEF Ends
  <2>. QED  BY <1>5, <2>1, NothingUnderWay
<1>6. ASSUME Ends(i), renderHistory(i, r), page'.session = page.session, UNCHANGED server
      PROVE  InView'
  <2>1. Free = Slots \ {i} /\ shown' = r.history /\ r.history = server[page.session].history
    BY <1>6 DEF renderHistory, Behind
  <2>2. \A k \in Slots \ {i} : tasks[k] = Idle
    BY <2>1 DEF Free
  <2>3. echo' \in {NoEcho, Detached}
    BY <1>6 DEF renderHistory
  <2>. QED  BY <1>5, <1>6, <2>1, <2>2, <2>3
<1>7. ASSUME ~aux_behind, q.kind # None
      PROVE  InView /\ (\A k \in Slots \ {i} : tasks[k] = Idle) /\ (page.session # None => InStep(q))
             /\ q.kind # "start" /\ (page.failed => echo \in {NoEcho, Detached})
  BY <1>3, <1>7, OthersAreIdle DEF ViewInv, InView
<1>8. CASE TurnAnswered(i)
  <2>1. /\ q.kind \in {"send", "skip"} /\ q.awaits = "answer" /\ q.status = "done"
        /\ ~r.compacted /\ r.whole /\ ~aux_behind
    BY <1>3, <1>4, <1>8 DEF TurnAnswered, Answered
  <2>2. (\A k \in Slots \ {i} : tasks[k] = Idle) /\ (page.session # None => InStep(q))
    BY <1>7, <2>1 DEF None
  <2>3. Ends(i) /\ UNCHANGED server
    BY <1>8 DEF TurnAnswered
  <2>4. page' = [AfterTurn(page, FALSE) EXCEPT !.can_undo = TRUE]
    BY <1>8 DEF TurnAnswered
  <2>5. ~page'.failed /\ page'.session = page.session
    BY <1>1, <2>4 DEF AfterTurn, Pages
  <2>6. ASSUME page.session # None
        PROVE  shown' = server[page.session].history
    <3>1. InStep(q) /\ page.session \in Sessions
      BY <1>2, <2>2, <2>6
    <3>2. CASE q.kind = "skip"
      <4>1. shown' = shown \o r.beats
        BY <1>3, <1>4, <1>8, <3>2 DEF TurnAnswered
      <4>. QED  BY <1>4, <2>1, <3>1, <3>2, <4>1 DEF InStep, SkipInStep
    <3>3. CASE q.kind = "send"
      <4>1. PICK b \in Bubbles : b = r.input
        BY <1>4 DEF Replies
      <4>2. PICK log \in Logs : Echoed(log) /\ server[page.session].history = Append(log, b) \o r.beats
        BY <1>4, <2>1, <3>1, <3>3, <4>1 DEF InStep, SendInStep
      <4>4. WithEffectiveInput(shown, b).log = Append(log, b)
        BY <1>1, <3>1, <4>2, EchoIsReplaced
      <4>5. shown' = WithEffectiveInput(shown, b).log \o r.beats
        BY <1>3, <1>4, <1>8, <3>3, <4>1 DEF TurnAnswered
      <4>. QED  BY <4>2, <4>4, <4>5
    <3>. QED  BY <2>1, <3>2, <3>3
  <2>. QED  BY <1>5, <2>2, <2>3, <2>5, <2>6
<1>9. ASSUME NEW awaits \in {"reload", "recover"}, Reads(i, awaits), q.kind \in {"send", "skip", "compact", "restore"},
             UNCHANGED <<server, page, shown, echo, aux_behind>>
      PROVE  InView'
  <2>1. (\A k \in Slots \ {i} : tasks[k] = Idle) /\ (page.failed => echo \in {NoEcho, Detached})
    BY <1>7, <1>9 DEF None
  <2>2. tasks[i].kind \in Kinds
    BY <1>3, <1>9 DEF Kinds
  <2>3. PICK t : /\ tasks' = [tasks EXCEPT ![i] = t]
                 /\ t.kind = q.kind /\ t.awaits = awaits /\ t.session = page.session
    BY <1>3, <1>9, <2>2, ReadsType
  <2>4. t # Idle /\ t.kind # "start"
    BY <1>9, <2>3, SimpleTypes DEF None
  <2>5. InStep(t)'
    BY <1>9, <2>3 DEF InStep, SendInStep, SkipInStep, RewritingInStep, OpeningInStep
  <2>. QED  BY <1>1, <1>9, <2>1, <2>3, <2>4, <2>5, OneUnderWay
<1>10. CASE HistoryRewritten(i)
  BY <1>3, <1>9, <1>10 DEF HistoryRewritten, Answered
<1>11. CASE TurnFailed(i)
  BY <1>3, <1>9, <1>11 DEF TurnFailed, Failed
<1>12. CASE reloadView(i)
  <2>1. Ends(i) /\ UNCHANGED server /\ shown' = r.history /\ echo' \in {NoEcho, Detached}
    BY <1>3, <1>4, <1>12 DEF reloadView
  <2>2. aux_behind' = Behind(i, r, page.session)
    BY <1>3, <1>4, <1>12 DEF reloadView
  <2>3. Free = Slots \ {i} /\ r.history = server[page.session].history
    BY <2>2 DEF Behind
  <2>4. \A k \in Slots \ {i} : tasks[k] = Idle
    BY <2>3 DEF Free
  <2>5. page'.session = page.session
    <3>1. PICK p : p = [Ingested(page, r) EXCEPT !.can_undo = (q.kind \in {"send", "skip"}) \/ r.history # <<>>]
      OBVIOUS
    <3>2. page' = IF q.kind \in {"send", "skip"} THEN AfterTurn(p, FALSE) ELSE Released(i, p)
      BY <1>3, <1>4, <1>12, <3>1 DEF reloadView
    <3>3. p.session = page.session /\ DOMAIN p = DOMAIN page
      BY <1>1, <3>1 DEF Ingested, Pages
    <3>. QED  BY <1>1, <3>2, <3>3 DEF AfterTurn, Released, Pages
  <2>. QED  BY <1>5, <2>1, <2>3, <2>4, <2>5
<1>13. CASE Recovered(i)
  <2>1. q.status = "done" /\ Ends(i) /\ UNCHANGED server /\ renderHistory(i, r)
    BY <1>3, <1>4, <1>13 DEF Recovered
  <2>2. page' = AfterTurn(Ingested(page, r), ~q.stopped)
    BY <1>3, <1>4, <1>13, <2>1 DEF Recovered
  <2>3. page'.session = page.session
    BY <1>1, <2>2 DEF AfterTurn, Ingested, Pages
  <2>. QED  BY <1>6, <2>1, <2>3
<1>14. CASE PassFailed(i)
  BY <1>14 DEF PassFailed
<1>15. CASE UndoAnswered(i)
  <2>1. Ends(i) /\ UNCHANGED server /\ renderHistory(i, r)
    BY <1>3, <1>4, <1>15 DEF UndoAnswered
  <2>2. page' = [Ingested(page, r) EXCEPT !.failed = FALSE, !.can_undo = r.history # <<>>, !.busy = FALSE]
    BY <1>3, <1>4, <1>15 DEF UndoAnswered
  <2>3. page'.session = page.session
    BY <1>1, <2>2 DEF Ingested, Pages
  <2>. QED  BY <1>6, <2>1, <2>3
<1>16. CASE NothingDone(i)
  <2>1. q.kind \in {"undo", "compact", "restore"} /\ q.awaits = "answer" /\ q.status = "done" /\ ~r.done /\ ~aux_behind
    BY <1>3, <1>4, <1>16 DEF NothingDone, Answered, Failed
  <2>2. /\ \A k \in Slots \ {i} : tasks[k] = Idle
        /\ (page.session # None => InStep(q)) /\ (page.failed => echo \in {NoEcho, Detached})
    BY <1>7, <2>1 DEF None
  <2>3. Ends(i) /\ UNCHANGED <<server, shown, echo>> /\ page' = Released(i, page)
    BY <1>16 DEF NothingDone
  <2>4. page'.session = page.session /\ page'.failed = page.failed
    BY <1>1, <2>3 DEF Released, Pages
  <2>5. page.session # None => shown = server[page.session].history
    BY <1>4, <2>1, <2>2 DEF InStep, RewritingInStep
  <2>. QED  BY <1>5, <2>2, <2>3, <2>4, <2>5
<1>17. CASE SessionOpened(i)
  <2>1. q.kind \in {"load", "start"} /\ q.status = "done" /\ q.awaits = "answer" /\ ~aux_behind
    BY <1>3, <1>17 DEF SessionOpened, Answered
  <2>2. (\A k \in Slots \ {i} : tasks[k] = Idle) /\ q.kind = "load"
    BY <1>7, <2>1 DEF None
  <2>3. PICK t : t = [q EXCEPT !.awaits = "avatars"]
    OBVIOUS
  <2>4. t.kind = "load" /\ t.awaits = "avatars" /\ t # Idle
    BY <1>3, <2>2, <2>3, SimpleTypes DEF Tasks, None
  <2>5. tasks' = [tasks EXCEPT ![i] = t] /\ UNCHANGED <<server, shown>> /\ echo' = NoEcho
    BY <1>3, <1>17, <2>3 DEF SessionOpened
  <2>6. InStep(t)'
    BY <2>4 DEF InStep, SendInStep, SkipInStep, RewritingInStep, OpeningInStep
  <2>. QED  BY <1>1, <2>2, <2>4, <2>5, <2>6, OneUnderWay
<1>18. CASE AvatarsLoaded(i)
  <2>1. Ends(i) /\ UNCHANGED server /\ renderHistory(i, r)
    BY <1>3, <1>4, <1>18 DEF AvatarsLoaded
  <2>2. page'.session = page.session
    BY <1>1, <1>18 DEF AvatarsLoaded, Pages
  <2>. QED  BY <1>6, <2>1, <2>2
<1>19. CASE OpenFailed(i)
  <2>1. q.kind \in {"load", "start"} /\ q.status = "error" /\ ~aux_behind
    BY <1>3, <1>19 DEF OpenFailed, Failed
  <2>2. /\ \A k \in Slots \ {i} : tasks[k] = Idle
        /\ (page.session # None => InStep(q)) /\ (page.failed => echo \in {NoEcho, Detached}) /\ q.kind = "load"
    BY <1>7, <2>1 DEF None
  <2>3. Ends(i) /\ UNCHANGED <<server, shown, echo>> /\ page' = page
    BY <1>3, <1>19, <2>2 DEF OpenFailed
  <2>4. page.session # None => shown = server[page.session].history
    BY <1>3, <2>1, <2>2 DEF InStep, OpeningInStep, TaskInv
  <2>. QED  BY <1>5, <2>2, <2>3, <2>4
<1>20. CASE SessionDeleted(i)
  <2>1. q.kind = "delete" /\ q.status = "done" /\ ~aux_behind
    BY <1>3, <1>20 DEF SessionDeleted, Answered
  <2>2. /\ \A k \in Slots \ {i} : tasks[k] = Idle
        /\ (page.session # None => InStep(q)) /\ (page.failed => echo \in {NoEcho, Detached})
    BY <1>7, <2>1 DEF None
  <2>3. Ends(i) /\ UNCHANGED server
    BY <1>20 DEF SessionDeleted
  <2>4. CASE q.session = page.session
    <3>1. page' = [page EXCEPT !.session = None, !.depth = 0] /\ echo' = IF echo = NoEcho THEN NoEcho ELSE Detached
      BY <1>3, <1>20, <2>4 DEF SessionDeleted
    <3>2. page'.session = None /\ echo' \in {NoEcho, Detached}
      BY <1>1, <3>1 DEF Pages
    <3>. QED  BY <1>5, <2>2, <2>3, <3>2
  <2>5. CASE q.session # page.session
    <3>1. UNCHANGED <<page, shown, echo>>
      BY <1>3, <1>20, <2>5 DEF SessionDeleted
    <3>2. page.session # None => shown = server[page.session].history
      BY <2>1, <2>2, <2>5 DEF InStep, OpeningInStep
    <3>. QED  BY <1>5, <2>2, <2>3, <3>1, <3>2
  <2>. QED  BY <2>4, <2>5
<1>. QED  BY <1>8, <1>10, <1>11, <1>12, <1>13, <1>14, <1>15, <1>16, <1>17, <1>18, <1>19, <1>20 DEF Continues

LEMMA PageNextView == PageTypeInv /\ ViewInv /\ [PageNext]_pageVars => (PageTypeInv /\ ViewInv)'
<1>. SUFFICES ASSUME PageTypeInv, ViewInv, [PageNext]_pageVars
              PROVE  PageTypeInv' /\ ViewInv'
  OBVIOUS
<1>1. PICK s : s \in Slots
  BY SlotsAssumption
<1>2. CASE UNCHANGED pageVars
  <2>1. PageTypeInv'
    BY <1>2 DEF pageVars, PageTypeInv, TaskInv
  <2>2. ViewInv'
    BY <1>2, InViewUnchanged DEF pageVars, ViewInv
  <2>. QED  BY <2>1, <2>2
<1>3. ASSUME NEW i \in Slots, Server(i) \/ OrphanServed
      PROVE  PageTypeInv' /\ ViewInv'
  <2>1. aux_behind => aux_behind'
    BY <1>3 DEF Server, OrphanServed, Serve, ServeFails, AnswerLost
  <2>. QED  BY <1>3, <2>1, ServerTypes, ServerInView DEF ViewInv
<1>4. ASSUME NEW i \in Slots, Reader(i) \/ stopTurn
      PROVE  PageTypeInv' /\ ViewInv'
  BY <1>4, ReaderTypes, ReaderInView DEF ViewInv
<1>5. ASSUME NEW i \in Slots, Continues(i)
      PROVE  PageTypeInv' /\ ViewInv'
  BY <1>5, ContinuesTypes, ContinuesInView DEF ViewInv
<1>. QED  BY <1>1, <1>2, <1>3, <1>4, <1>5 DEF PageNext

LEMMA PageInitView == PageInit => PageTypeInv /\ ViewInv
<1>. SUFFICES ASSUME PageInit
              PROVE  PageTypeInv /\ ViewInv
  OBVIOUS
<1>1. tasks = [i \in Slots |-> Idle] /\ TaskInv(Idle) /\ Idle \in Tasks /\ Idle.kind = None
  BY IdleType, SimpleTypes DEF PageInit
<1>2. server \in [Sessions -> Games] /\ shown \in Logs /\ echo \in Int /\ orphans \subseteq Requests /\ aux_behind \in BOOLEAN
  <2>1. server \in [Sessions -> Games]
    BY SimpleTypes DEF PageInit
  <2>2. shown \in Logs
    BY DEF PageInit, Logs
  <2>3. echo \in Int
    BY DEF PageInit, NoEcho
  <2>4. orphans \subseteq Requests /\ aux_behind \in BOOLEAN
    BY DEF PageInit
  <2>. QED  BY <2>1, <2>2, <2>3, <2>4
<1>3. page \in Pages /\ page.session = None /\ ~page.failed
  BY DEF PageInit, Pages
<1>4. PageTypeInv
  BY <1>1, <1>2, <1>3 DEF PageTypeInv
<1>5. InView
  BY <1>1, <1>3 DEF InView, None
<1>. QED  BY <1>4, <1>5 DEF ViewInv

\* What the page shows is the session's live history, bubble for bubble, once the
\* page is quiet and nothing happened that it is not told of: of any sessions, any
\* number of operations in flight and histories of any length.
THEOREM PageShowsTheStory == PageSpec => []ShownIsTheStory
<1>1. PageTypeInv /\ ViewInv => ShownIsTheStory
  BY DEF ViewInv, InView, ShownIsTheStory, Quiet, Free
<1>. QED  BY <1>1, PageInitView, PageNextView, PTL DEF PageSpec
=============================================================================
