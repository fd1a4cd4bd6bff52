---------------------------- MODULE SessionAdmin ----------------------------
(***************************************************************************)
(* Administration of one session beside its turns: presence edits with     *)
(* their undo stack, and the replacement of the session's setup.           *)
(*                                                                         *)
(* An edit is computed by a client from the state it last read, and names  *)
(* the revision it read.  Turns and turn undos name none.  Each operation  *)
(* runs under the session lock and saves once, so it is one step here; a   *)
(* client whose answer is lost is one that does not read the state again.  *)
(* Of the scene only the presence is kept.  Compaction and restore move    *)
(* the old end of `turns` and change no presence: they are left out.       *)
(***************************************************************************)
EXTENDS Integers, Sequences

CONSTANTS
    Characters,     \* the cast; it never changes once the session exists
    Sheets,         \* what else the setup holds beside the scene: sheets, directives, sources
    Clients,        \* browsers and tools looking at the session
    StartPresent, StartControlled, StartSheet,
    MaxRevision     \* bound: no commit beyond this revision

ASSUME StartAssumption ==
    /\ StartPresent \subseteq Characters
    /\ StartControlled \in StartPresent
    /\ StartSheet \in Sheets
ASSUME RevisionAssumption == MaxRevision \in Nat

VARIABLES
    saved,      \* state.json
    view        \* what each client last read of it

\* Ghosts: the code has none of these.
VARIABLES
    aux_edit,   \* what the author of the last accepted edit saw and replaced
    aux_broken  \* how many edits of the stack something else has come after

vars == <<saved, view, aux_edit, aux_broken>>

-----------------------------------------------------------------------------
(* Types *)

PresenceEditEntry == [before: SUBSET Characters, after: SUBSET Characters]

\* present_characters keeps the canonical order and ends with "Player", so it is
\* a set; `turns` has, for each turn still in the history, the presence that its
\* oldest record snapshots.
GameState == [revision: Nat, present: SUBSET Characters, controlled: Characters,
              sheet: Sheets, turns: Seq(SUBSET Characters),
              presence_edit_stack: Seq(PresenceEditEntry)]

TypeOK ==
    /\ saved \in GameState
    /\ view \in [Clients -> GameState]
    /\ aux_edit \in [seen: GameState, replaced: GameState]
    /\ aux_broken \in 0..Len(saved.presence_edit_stack)

-----------------------------------------------------------------------------
(* Helpers *)

Newest(s) == s[Len(s)]
Older(s) == SubSeq(s, 1, Len(s) - 1)

\* The candidate lists the contract lets through, all of known characters.
validate_present_characters(present, controlled) == controlled \in present

\* Mutant: any revision not newer than the session's will do.
UpToDate_notNewer(client) == view[client].revision <= saved.revision

UpToDate(client) == view[client].revision = saved.revision

\* Mutant: the list is assigned before it is remembered.
EditEntry_afterwards(before, after) == [before |-> after, after |-> after]

EditEntry(before, after) == [before |-> before, after |-> after]

\* Mutant: the entry is popped when it is read, and again when it is used.
WithoutNewestEdit_twice(stack) == SubSeq(stack, 1, Len(stack) - 2)

WithoutNewestEdit(stack) == Older(stack)

\* Whatever changes the presence without going through the stack.
Breaks(present) ==
    aux_broken' = IF present = saved.present THEN aux_broken
                  ELSE Len(saved.presence_edit_stack)

Edited(client) == aux_edit' = [seen |-> view[client], replaced |-> saved]

MayCommit == saved.revision < MaxRevision

-----------------------------------------------------------------------------
Init ==
    /\ saved = [revision |-> 0, present |-> StartPresent,
                controlled |-> StartControlled, sheet |-> StartSheet,
                turns |-> <<>>, presence_edit_stack |-> <<>>]
    /\ view = [client \in Clients |-> saved]
    /\ aux_edit = [seen |-> saved, replaced |-> saved]
    /\ aux_broken = 0

\* get_state, and the state most operations answer with.
GetState(client) ==
    /\ view' = [view EXCEPT ![client] = saved]
    /\ UNCHANGED <<saved, aux_edit, aux_broken>>

\* A committed beat.  The runner never changes who is present; a plugin may, at
\* narrator.result, after the records were appended.
Turn(present) ==
    /\ MayCommit
    /\ \/ present = saved.present
       \/ validate_present_characters(present, saved.controlled)
    /\ saved' = [saved EXCEPT !.turns = Append(@, saved.present),
                              !.present = present,
                              !.revision = @ + 1]
    /\ Breaks(present)
    /\ UNCHANGED <<view, aux_edit>>

\* Mutant: an undo is not a new revision.
RevisionAfterUndo_same == saved.revision

RevisionAfterUndo == saved.revision + 1

\* The scene is restored as the turn's records have it, whatever was edited
\* since; the cast, the setup and the edit stack stay.
UndoTurn ==
    /\ MayCommit
    /\ saved.turns # <<>>
    /\ saved' = [saved EXCEPT !.turns = Older(@),
                              !.present = Newest(saved.turns),
                              !.revision = RevisionAfterUndo]
    /\ Breaks(Newest(saved.turns))
    /\ UNCHANGED <<view, aux_edit>>

\* An edit that changes nothing is remembered like any other.
set_presence(client, present) ==
    /\ MayCommit
    /\ UpToDate(client)
    /\ validate_present_characters(present, saved.controlled)
    /\ saved' = [saved EXCEPT !.present = present,
                    !.presence_edit_stack = Append(@, EditEntry(saved.present, present)),
                    !.revision = @ + 1]
    /\ Edited(client)
    /\ UNCHANGED <<view, aux_broken>>

\* The client sends the whole setup; nothing is saved when nothing changed.
update_session_setup(client, present, controlled, sheet) ==
    /\ MayCommit
    /\ UpToDate(client)
    /\ validate_present_characters(present, controlled)
    /\ <<present, controlled, sheet>> # <<saved.present, saved.controlled, saved.sheet>>
    /\ saved' = [saved EXCEPT !.present = present, !.controlled = controlled,
                              !.sheet = sheet, !.revision = @ + 1]
    /\ Breaks(present)
    /\ Edited(client)
    /\ UNCHANGED view

\* The newest edit only, and only while its result still stands.
undo_last_presence_edit ==
    /\ MayCommit
    /\ saved.presence_edit_stack # <<>>
    /\ LET entry == Newest(saved.presence_edit_stack)
           depth == Len(saved.presence_edit_stack) - 1
       IN  /\ saved.present = entry.after
           /\ validate_present_characters(entry.before, saved.controlled)
           /\ saved' = [saved EXCEPT !.present = entry.before,
                                     !.presence_edit_stack = WithoutNewestEdit(@),
                                     !.revision = @ + 1]
           /\ aux_broken' = IF depth < aux_broken THEN depth ELSE aux_broken
    /\ UNCHANGED <<view, aux_edit>>

Next ==
    \/ \E client \in Clients : GetState(client)
    \/ \E present \in SUBSET Characters : Turn(present)
    \/ UndoTurn
    \/ \E client \in Clients, present \in SUBSET Characters : set_presence(client, present)
    \/ \E client \in Clients, present \in SUBSET Characters, controlled \in Characters,
          sheet \in Sheets : update_session_setup(client, present, controlled, sheet)
    \/ undo_last_presence_edit

Spec == Init /\ [][Next]_vars

-----------------------------------------------------------------------------
(* Properties *)

\* No edit overwrites a commit its author has not seen: what an accepted edit
\* replaced is the very state the client had read, whoever committed what, undos
\* included, in between.
EditsReplaceWhatTheySaw == aux_edit.seen = aux_edit.replaced

\* Undoing presence edits walks back through the lists that were there: above the
\* edits something else came after, each result is what the next edit started
\* from, and the newest result is what stands.
PresenceUndoWalksBack ==
    LET stack == saved.presence_edit_stack IN
    \A k \in aux_broken + 1..Len(stack) :
        stack[k].after = (IF k = Len(stack) THEN saved.present ELSE stack[k + 1].before)
=============================================================================
