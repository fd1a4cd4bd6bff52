------------------------------ MODULE WebClient ------------------------------
(* The browser page (src/static): its view of one session, the operations the  *)
(* reader starts, and what their answers do to the view.  Each operation is a   *)
(* coroutine: it runs from one await to the next, and between two of them any   *)
(* other may run.  The server is what its answers show: SessionHistory is the   *)
(* detailed model of a session.                                                  *)
EXTENDS Integers, Sequences, FiniteSets, SequencesExt

CONSTANTS
    Sessions,       \* ids of sessions
    Slots,          \* operations in flight at once (model bound)
    Shapes,         \* what a beat may be made of (see AsRecorded)
    MaxTurn,        \* the last turn of a session (model bound)
    MaxLive,        \* turns of a live history (model bound)
    MaxDepth        \* compactions not restored (model bound)

ASSUME SessionsAssumption == IsFiniteSet(Sessions) /\ Sessions # {} /\ "none" \notin Sessions
ASSUME SlotsAssumption == IsFiniteSet(Slots) /\ Slots # {}
ASSUME BoundsAssumption == {MaxTurn, MaxLive, MaxDepth} \subseteq Nat

None == "none"
NoEcho == -1        \* lastEchoMessage is null
Detached == 0       \* lastEchoMessage is no longer in the log

VARIABLES
    server,     \* [exists, history, evicted] of each session
    page,       \* the app's state object and its controls
    shown,      \* the bubbles of the chat log
    echo,       \* lastEchoMessage: its place in the log, Detached or NoEcho
    tasks,      \* the operation in each slot
    orphans,    \* requests still at the server that nobody waits for
    aux_behind  \* something the page is not told of has happened since it last read the session

pageVars == <<server, page, shown, echo, tasks, orphans, aux_behind>>

-----------------------------------------------------------------------------
(* Data *)

\* A bubble of some turn; turn 0 is the player's text as typed.  Its badges are left out.
Bubble(s, n, text) == [session |-> s, turn |-> n, text |-> text]
Echo(s) == Bubble(s, 0, "typed")
Drawn(s, n, texts) == [k \in DOMAIN texts |-> Bubble(s, n, texts[k])]

\* A history is what is drawn of it: a bubble for each narration, and one for all
\* that a speaker said, thought and did in a row in one turn, where a second line
\* takes the place of the first.  A beat narrates, or not; a character may reply, with
\* a deed, or with nothing at all, which makes no record; and the Director may give
\* a line to another character, or to the one who has replied.  A beat that leaves
\* no trace is dropped.  Further replies and lines draw bubbles in the same way.
AsRecorded ==
    [dropped  |-> <<>>,
     narrated |-> <<"narration">>,
     spoken   |-> <<"reply">>,
     replied  |-> <<"narration", "reply">>,
     acted    |-> <<"narration", "deed">>,
     silent   |-> <<"narration">>,
     voiced   |-> <<"narration", "reply", "line">>,
     revoiced |-> <<"narration", "line">>]
\* What is drawn of its answer, which has the narration and of each reply the
\* speech and the thought.
AsAnswered ==
    [dropped  |-> <<>>,
     narrated |-> <<"narration">>,
     spoken   |-> <<"reply">>,
     replied  |-> <<"narration", "reply">>,
     acted    |-> <<"narration", "reply">>,
     silent   |-> <<"narration", "nothing">>,
     voiced   |-> <<"narration", "reply">>,
     revoiced |-> <<"narration", "reply">>]

ASSUME ShapesAssumption == Shapes \subseteq DOMAIN AsRecorded

NewSession == [exists |-> TRUE, history |-> <<>>, evicted |-> <<>>]
NoSession == [exists |-> FALSE, history |-> <<>>, evicted |-> <<>>]

\* What an answer carries: whether the operation did anything, and the state it
\* returns if any; of a turn its effective input, the bubbles of its beats, whether
\* they are all there is, and whether the history was compacted on the way.
Reply(done, game) ==
    [done |-> done, history |-> game.history, depth |-> Len(game.evicted),
     input |-> Bubble(None, 0, "nothing"), beats |-> <<>>, whole |-> TRUE, compacted |-> FALSE]
TurnReply(input, beats, whole, compacted) ==
    [Reply(TRUE, NoSession) EXCEPT !.input = input, !.beats = beats, !.whole = whole, !.compacted = compacted]
NoReply == Reply(FALSE, NoSession)
Done == Reply(TRUE, NoSession)

Kinds == {"send", "skip", "undo", "load", "start", "delete", "compact", "restore"}

\* awaits: "answer" of its own request, "reload" and "recover" of the state,
\* "avatars" of pictures.  status: what has become of the request it awaits.
Idle == [kind |-> None, awaits |-> None, session |-> None, status |-> None,
         reply |-> NoReply, stopped |-> FALSE]
Call(kind, s) == [Idle EXCEPT !.kind = kind, !.awaits = "answer", !.session = s, !.status = "waiting"]

Free == {i \in Slots : tasks[i] = Idle}

\* An operation begins when nothing is under way, or during a compaction, which
\* leaves the fields, the gestures and the list of sessions live (model bound:
\* the popups and the list are live during a turn too).
MayBegin(i) == i \in Free /\ \A j \in Slots \ Free : tasks[j].kind = "compact"
Quiet == Free = Slots /\ orphans = {}

-----------------------------------------------------------------------------
(* The server: what each request does to its session *)

NextTurn(game) == IF game.history = <<>> THEN 1 ELSE Last(game.history).turn + 1

\* A history has room for so many turns more (model bound).
HasRoom(game, turns) ==
    /\ NextTurn(game) + turns <= MaxTurn + 1
    /\ Cardinality({game.history[k].turn : k \in DOMAIN game.history}) + turns <= MaxLive

\* A history is its last turn and what was told before it.
LastTurn(history) == {k \in DOMAIN history : history[k].turn = Last(history).turn}
Before(history) == SubSeq(history, 1, Len(history) - Cardinality(LastTurn(history)))
Latest(history) == SubSeq(history, Len(Before(history)) + 1, Len(history))

Undone(game) == [game EXCEPT !.history = Before(@)]

\* A compaction keeps the last turn, and what it evicts beside what it kept.
Compactable(game) == game.history # <<>> /\ Before(game.history) # <<>> /\ Len(game.evicted) < MaxDepth
Compacted(game) ==
    [game EXCEPT !.history = Latest(@),
                 !.evicted = Append(@, [told |-> Before(game.history), kept |-> Latest(game.history)])]

\* It is taken back as long as what it kept is there.
Restorable(game) == IsPrefix(Last(game.evicted).kept, game.history)
Restored(game) == [game EXCEPT !.history = Last(game.evicted).told \o @, !.evicted = Front(@)]

Told(game, bubbles) == [game EXCEPT !.history = @ \o bubbles]

\* A beat as it is recorded and as it is answered; it is whole if they agree.
Beat(s, n, shape) ==
    [recorded |-> Drawn(s, n, AsRecorded[shape]), answered |-> Drawn(s, n, AsAnswered[shape]),
     whole |-> shape \in {"dropped", "narrated", "spoken", "replied"}]
Then(a, b) ==
    [recorded |-> a.recorded \o b.recorded, answered |-> a.answered \o b.answered,
     whole |-> a.whole /\ b.whole]

\* What a written turn may tell, and a pass of at most two beats (model bound):
\* after a beat that is dropped no other comes.
Written(s, n) == {Beat(s, n, a) : a \in Shapes}
Passed(g, s, n) ==
    Written(s, n) \cup IF ~HasRoom(g, 2) THEN {}
                      ELSE {Then(Beat(s, n, a), Beat(s, n + 1, b)) : a \in Shapes \ {"dropped"}, b \in Shapes}

\* The effective input: of a turn with no more than a hint for the Director it is
\* empty, and nothing of it is recorded.
Input(s, n, hint) == Bubble(s, n, IF hint THEN "nothing" ELSE "input")
InputRecord(s, n, hint) == IF hint THEN <<>> ELSE <<Input(s, n, hint)>>

\* A turn may have the history compacted before anything of it is told.
Shortened(game) == {game} \cup IF Compactable(game) THEN {Compacted(game)} ELSE {}

\* A turn told to a history, shortened or not, and its answer: of a written turn,
\* and of a pass.
TurnOutcome(game, g, input, given, beat, whole) ==
    <<Told(g, given \o beat.recorded), TurnReply(input, beat.answered, whole, g # game)>>
SendOutcomes(game, s, n) ==
    {TurnOutcome(game, g, Input(s, n, hint), InputRecord(s, n, hint), beat, beat.whole /\ ~hint) :
       g \in {h \in Shortened(game) : HasRoom(h, 1)}, hint \in BOOLEAN, beat \in Written(s, n)}
SkipOutcomes(game, s, n) ==
    UNION {{TurnOutcome(game, g, Input(s, n, TRUE), <<>>, beat, beat.whole) : beat \in Passed(g, s, n)} :
             g \in {h \in Shortened(game) : HasRoom(h, 1)}}

\* What a request of some kind may leave behind and answer.
Outcomes(kind, s) ==
    LET game == server[s]
    IN  CASE ~game.exists /\ kind # "start" -> {}
          [] kind = "send" -> SendOutcomes(game, s, NextTurn(game))
          [] kind = "skip" -> SkipOutcomes(game, s, NextTurn(game))
          [] kind = "undo" ->
               IF game.history = <<>> THEN {<<game, NoReply>>}
               ELSE {<<Undone(game), Reply(TRUE, Undone(game))>>}
          [] kind = "compact" ->
               IF Compactable(game) THEN {<<Compacted(game), Done>>} ELSE {<<game, NoReply>>}
          [] kind = "restore" ->
               IF game.evicted = <<>> THEN {<<game, NoReply>>}
               ELSE IF Restorable(game) THEN {<<Restored(game), Done>>} ELSE {}
          [] kind = "start" -> IF game.exists THEN {} ELSE {<<NewSession, Done>>}
          [] kind = "delete" -> {<<NoSession, Done>>}
          [] OTHER -> {<<game, Reply(TRUE, game)>>}

\* What a request that fails may leave behind: of a turn its compaction, and of a
\* pass the beat before the one that failed.
Unfinished(kind, s) ==
    LET game == server[s]
    IN  CASE ~game.exists -> {game}
          [] kind = "send" -> Shortened(game)
          [] kind = "skip" ->
               Shortened(game) \cup {Told(g, beat.recorded) : g \in {h \in Shortened(game) : HasRoom(h, 2)},
                                                             beat \in Written(s, NextTurn(game))}
          [] OTHER -> {game}

\* The request a task waits for: reading the state, or its own.
Asked(i) == IF tasks[i].awaits \in {"reload", "recover"} THEN "state" ELSE tasks[i].kind

\* The server does what it is asked and answers.
Serve(i) ==
    /\ tasks[i].status = "waiting"
    /\ \E o \in Outcomes(Asked(i), tasks[i].session) :
         /\ server' = [server EXCEPT ![tasks[i].session] = o[1]]
         /\ tasks' = [tasks EXCEPT ![i].status = "done", ![i].reply = o[2]]
    /\ UNCHANGED <<page, shown, echo, orphans, aux_behind>>

\* The server fails the request, and may have saved a part of it.
ServeFails(i) ==
    /\ tasks[i].status = "waiting"
    /\ tasks' = [tasks EXCEPT ![i].status = "error"]
    /\ \E game \in Unfinished(Asked(i), tasks[i].session) :
         server' = [server EXCEPT ![tasks[i].session] = game]
    /\ UNCHANGED <<page, shown, echo, orphans, aux_behind>>

\* The answer is lost on its way.
AnswerLost(i) ==
    /\ tasks[i].status = "done" /\ tasks[i].awaits # "avatars"
    /\ tasks' = [tasks EXCEPT ![i].status = "error", ![i].reply = NoReply]
    /\ UNCHANGED <<server, page, shown, echo, orphans, aux_behind>>

\* A request that was stopped goes on at the server, or ends there.
OrphanServed ==
    \E r \in orphans :
      /\ orphans' = orphans \ {r}
      /\ \E game \in {o[1] : o \in Outcomes(r.kind, r.session)} \cup Unfinished(r.kind, r.session) :
           server' = [server EXCEPT ![r.session] = game]
      /\ aux_behind' = (aux_behind \/ server' # server)
      /\ UNCHANGED <<page, shown, echo, tasks>>

-----------------------------------------------------------------------------
(* The reader starts an operation *)

\* It takes a free slot.  One begun while others are in flight may cross them.
Begin(i, kind, s) ==
    /\ MayBegin(i)
    /\ tasks' = [tasks EXCEPT ![i] = Call(kind, s)]
    /\ aux_behind' = (aux_behind \/ Free # Slots)
    /\ UNCHANGED server

\* Writing is for an idle page; the turn is echoed as it was typed.
sendTurn(i) ==
    /\ page.session # None /\ ~page.busy
    /\ Begin(i, "send", page.session)
    /\ page' = [page EXCEPT !.inputs = TRUE, !.busy = TRUE, !.failed = FALSE, !.stop = i]
    /\ shown' = Append(shown, Echo(page.session)) /\ echo' = Len(shown')
    /\ UNCHANGED orphans

\* The last written turn is sent once more, under the echo it already has; it
\* may have been answered, and its echo forgotten, before a pass failed.
retryTurn(i) ==
    /\ page.session # None /\ page.failed /\ page.inputs
    /\ MayBegin(i)
    /\ tasks' = [tasks EXCEPT ![i] = Call("send", page.session)]
    /\ aux_behind' = (aux_behind \/ Free # Slots \/ echo = NoEcho)
    /\ UNCHANGED server
    /\ page' = [page EXCEPT !.busy = TRUE, !.failed = FALSE, !.stop = i]
    /\ UNCHANGED <<shown, echo, orphans>>

skipTurn(i) ==
    /\ page.session # None
    /\ Begin(i, "skip", page.session)
    /\ page' = [page EXCEPT !.busy = TRUE, !.failed = FALSE, !.stop = i]
    /\ UNCHANGED <<shown, echo, orphans>>

undoLastTurn(i) ==
    /\ page.session # None /\ page.can_undo
    /\ Begin(i, "undo", page.session)
    /\ page' = [page EXCEPT !.busy = TRUE]
    /\ UNCHANGED <<shown, echo, orphans>>

\* The turn controls are locked for as long, but not the fields and the gestures.
compactSession(i) ==
    /\ page.session # None
    /\ Begin(i, "compact", page.session)
    /\ page' = [page EXCEPT !.locked = TRUE, !.stop_compaction = i]
    /\ UNCHANGED <<shown, echo, orphans>>

restoreCompaction(i) ==
    /\ page.session # None /\ page.depth > 0
    /\ Begin(i, "restore", page.session)
    /\ page' = [page EXCEPT !.busy = TRUE]
    /\ UNCHANGED <<shown, echo, orphans>>

\* A request is given up: its task gets an error, the server may still finish it.
Aborted(j) ==
    IF j # None /\ tasks[j].awaits = "answer" /\ tasks[j].status \in {"waiting", "done"}
    THEN [task |-> [tasks[j] EXCEPT !.status = "error", !.stopped = TRUE, !.reply = NoReply],
          left |-> IF tasks[j].status = "waiting"
                   THEN {[kind |-> tasks[j].kind, session |-> tasks[j].session]} ELSE {}]
    ELSE [task |-> IF j = None THEN Idle ELSE tasks[j], left |-> {}]

\* Opening a session gives up a compaction in progress.
loadSession(i, s) ==
    LET j == page.stop_compaction
    IN  /\ MayBegin(i) /\ server[s].exists
        /\ tasks' = [k \in Slots |-> IF k = i THEN Call("load", s)
                                     ELSE IF k = j THEN Aborted(j).task ELSE tasks[k]]
        /\ orphans' = orphans \cup Aborted(j).left
        /\ aux_behind' = (aux_behind \/ Free # Slots)
        /\ UNCHANGED <<server, page, shown, echo>>

startSession(i, s) ==
    LET j == page.stop_compaction
    IN  /\ MayBegin(i) /\ ~server[s].exists
        /\ tasks' = [k \in Slots |-> IF k = i THEN Call("start", s)
                                     ELSE IF k = j THEN Aborted(j).task ELSE tasks[k]]
        /\ orphans' = orphans \cup Aborted(j).left
        /\ page' = [page EXCEPT !.busy = TRUE]
        /\ shown' = <<>> /\ echo' = IF echo = NoEcho THEN NoEcho ELSE Detached
        /\ aux_behind' = TRUE
        /\ UNCHANGED server

deleteSession(i, s) ==
    /\ server[s].exists
    /\ Begin(i, "delete", s)
    /\ UNCHANGED <<page, shown, echo, orphans>>

\* The stop button gives the newest turn up.
stopTurn ==
    /\ page.stop # None /\ Aborted(page.stop).task.stopped /\ ~tasks[page.stop].stopped
    /\ orphans = {}     \* model bound
    /\ tasks' = [tasks EXCEPT ![page.stop] = Aborted(page.stop).task]
    /\ orphans' = orphans \cup Aborted(page.stop).left
    /\ UNCHANGED <<server, page, shown, echo, aux_behind>>

-----------------------------------------------------------------------------
(* An operation goes on *)

Ends(i) == tasks' = [tasks EXCEPT ![i] = Idle]
\* It asks for the state of the session the page is in by now.
Reads(i, awaits) ==
    tasks' = [tasks EXCEPT ![i].awaits = awaits, ![i].session = page.session, ![i].reply = NoReply,
                           ![i].status = IF page.session = None THEN "error" ELSE "waiting"]

Answered(i, kinds, awaits) ==
    tasks[i].kind \in kinds /\ tasks[i].awaits = awaits /\ tasks[i].status = "done"
Failed(i, kinds) == tasks[i].kind \in kinds /\ tasks[i].status = "error"

\* A page drawn from a state has caught up if the state is still its session's,
\* and nothing else is under way.
Behind(i, reply, s) ==
    Free # Slots \ {i} \/ orphans # {} \/ s = None \/ reply.history # server[s].history

\* The log is drawn anew from a state.
renderHistory(i, reply) ==
    /\ shown' = reply.history
    /\ echo' = IF echo = NoEcho THEN NoEcho ELSE Detached
    /\ aux_behind' = Behind(i, reply, page.session)

\* The page as a turn leaves it.
AfterTurn(p, failed) == [p EXCEPT !.failed = failed, !.busy = FALSE, !.stop = None]

\* Mutant: the effective input is a bubble of its own.
WithEffectiveInput_added(s, input) == [log |-> Append(s, input), at |-> Len(s) + 1]

\* The bubble of the effective input takes the echo's place; if the echo is no
\* longer in the log it comes last.
WithEffectiveInput(s, input) ==
    CASE echo = NoEcho -> [log |-> s, at |-> NoEcho]
      [] echo = Detached -> [log |-> Append(s, input), at |-> Len(s) + 1]
      [] OTHER -> [log |-> ReplaceAt(s, echo, input), at |-> echo]

\* A turn is answered: its bubbles are added to what is shown, unless its
\* compaction rewrote the history.
TurnAnswered(i) ==
    /\ Answered(i, {"send", "skip"}, "answer") /\ ~tasks[i].reply.compacted
    /\ LET r == tasks[i].reply
           told == IF tasks[i].kind = "skip" THEN [log |-> shown, at |-> echo]
                   ELSE WithEffectiveInput(shown, r.input)
       IN  /\ shown' = told.log \o r.beats /\ echo' = told.at
           /\ aux_behind' = (aux_behind \/ ~r.whole)
    /\ page' = [AfterTurn(page, FALSE) EXCEPT !.can_undo = TRUE]
    /\ Ends(i)
    /\ UNCHANGED <<server, orphans>>

\* The history was rewritten: the view is read again.
HistoryRewritten(i) ==
    /\ \/ Answered(i, {"send", "skip"}, "answer") /\ tasks[i].reply.compacted
       \/ Answered(i, {"compact", "restore"}, "answer") /\ tasks[i].reply.done
    /\ Reads(i, "reload")
    /\ UNCHANGED <<server, page, shown, echo, orphans, aux_behind>>

Ingested(p, reply) == [p EXCEPT !.depth = reply.depth]
\* The page as the end of a long operation leaves it.
Released(i, p) ==
    IF tasks[i].kind = "compact" THEN [p EXCEPT !.locked = FALSE, !.stop_compaction = None]
    ELSE [p EXCEPT !.busy = FALSE]

reloadView(i) ==
    /\ Answered(i, {"send", "skip", "compact", "restore"}, "reload")
    /\ LET r == tasks[i].reply
           turn == tasks[i].kind \in {"send", "skip"}
           p == [Ingested(page, r) EXCEPT !.can_undo = turn \/ r.history # <<>>]
       IN  /\ page' = IF turn THEN AfterTurn(p, FALSE) ELSE Released(i, p)
           /\ shown' = r.history
           /\ echo' = IF tasks[i].kind = "send" \/ echo = NoEcho THEN NoEcho ELSE Detached
           /\ aux_behind' = Behind(i, r, page.session)
    /\ Ends(i)
    /\ UNCHANGED <<server, orphans>>

\* A written turn failed or was stopped, who knows how far it got: read the state.
TurnFailed(i) ==
    /\ Failed(i, {"send"}) /\ tasks[i].awaits \in {"answer", "reload"}
    /\ Reads(i, "recover")
    /\ UNCHANGED <<server, page, shown, echo, orphans, aux_behind>>

\* ... and draw it, if it could be read.
Recovered(i) ==
    /\ tasks[i].awaits = "recover" /\ tasks[i].status \in {"done", "error"}
    /\ \/ /\ tasks[i].status = "done"
          /\ page' = AfterTurn(Ingested(page, tasks[i].reply), ~tasks[i].stopped)
          /\ renderHistory(i, tasks[i].reply)
       \/ /\ tasks[i].status = "error"
          /\ page' = AfterTurn(page, ~tasks[i].stopped)
          /\ aux_behind' = TRUE
          /\ UNCHANGED <<shown, echo>>
    /\ Ends(i)
    /\ UNCHANGED <<server, orphans>>

\* A pass that failed or was stopped is not looked into.
PassFailed(i) ==
    /\ Failed(i, {"skip"})
    /\ page' = AfterTurn(page, ~tasks[i].stopped)
    /\ aux_behind' = TRUE
    /\ Ends(i)
    /\ UNCHANGED <<server, shown, echo, orphans>>

\* Undo brings the state it left: the log is drawn from it.
UndoAnswered(i) ==
    /\ Answered(i, {"undo"}, "answer") /\ tasks[i].reply.done
    /\ LET r == tasks[i].reply IN
       /\ page' = [Ingested(page, r) EXCEPT !.failed = FALSE, !.can_undo = r.history # <<>>, !.busy = FALSE]
       /\ renderHistory(i, r)
    /\ Ends(i)
    /\ UNCHANGED <<server, orphans>>

\* Nothing was done, or it failed.
NothingDone(i) ==
    /\ \/ Answered(i, {"undo", "compact", "restore"}, "answer") /\ ~tasks[i].reply.done
       \/ Failed(i, {"undo", "compact", "restore"})
    /\ page' = Released(i, page)
    /\ aux_behind' = (aux_behind \/ tasks[i].status = "error")
    /\ Ends(i)
    /\ UNCHANGED <<server, shown, echo, orphans>>

\* The session is opened; its pictures are fetched before its log is drawn.
SessionOpened(i) ==
    /\ Answered(i, {"load", "start"}, "answer")
    /\ LET r == tasks[i].reply IN
       page' = [Ingested(page, r) EXCEPT !.session = tasks[i].session, !.inputs = FALSE,
                                         !.failed = FALSE, !.can_undo = r.history # <<>>]
    /\ echo' = NoEcho
    /\ tasks' = [tasks EXCEPT ![i].awaits = "avatars"]
    /\ UNCHANGED <<server, shown, orphans, aux_behind>>

AvatarsLoaded(i) ==
    /\ Answered(i, {"load", "start"}, "avatars")
    /\ page' = IF tasks[i].kind = "start" THEN [page EXCEPT !.busy = FALSE] ELSE page
    /\ renderHistory(i, tasks[i].reply)
    /\ Ends(i)
    /\ UNCHANGED <<server, orphans>>

OpenFailed(i) ==
    /\ Failed(i, {"load", "start", "delete"})
    /\ page' = IF tasks[i].kind = "start" THEN [page EXCEPT !.busy = FALSE] ELSE page
    /\ aux_behind' = (aux_behind \/ tasks[i].kind = "delete")
    /\ Ends(i)
    /\ UNCHANGED <<server, shown, echo, orphans>>

\* The session on the page is gone: the page is empty.
SessionDeleted(i) ==
    /\ Answered(i, {"delete"}, "answer")
    /\ IF tasks[i].session = page.session
       THEN /\ page' = [page EXCEPT !.session = None, !.depth = 0]
            /\ shown' = <<>> /\ echo' = IF echo = NoEcho THEN NoEcho ELSE Detached
       ELSE UNCHANGED <<page, shown, echo>>
    /\ Ends(i)
    /\ UNCHANGED <<server, orphans, aux_behind>>

-----------------------------------------------------------------------------
(* The specification *)

PageInit ==
    /\ server = [s \in Sessions |-> NoSession]
    /\ page = [session |-> None, depth |-> 0, can_undo |-> FALSE, failed |-> FALSE, inputs |-> FALSE,
               busy |-> FALSE, locked |-> FALSE, stop |-> None, stop_compaction |-> None]
    /\ shown = <<>> /\ echo = NoEcho
    /\ tasks = [i \in Slots |-> Idle]
    /\ orphans = {}
    /\ aux_behind = FALSE

Reader(i) ==
    \/ sendTurn(i) \/ retryTurn(i) \/ skipTurn(i) \/ undoLastTurn(i)
    \/ compactSession(i) \/ restoreCompaction(i)
    \/ \E s \in Sessions : loadSession(i, s) \/ startSession(i, s) \/ deleteSession(i, s)

Server(i) == Serve(i) \/ ServeFails(i) \/ AnswerLost(i)

Continues(i) ==
    \/ TurnAnswered(i) \/ HistoryRewritten(i) \/ reloadView(i) \/ TurnFailed(i) \/ Recovered(i)
    \/ PassFailed(i) \/ UndoAnswered(i) \/ NothingDone(i) \/ SessionOpened(i) \/ AvatarsLoaded(i)
    \/ OpenFailed(i) \/ SessionDeleted(i)

PageNext == OrphanServed \/ stopTurn \/ \E i \in Slots : Reader(i) \/ Server(i) \/ Continues(i)

PageSpec == PageInit /\ [][PageNext]_pageVars

-----------------------------------------------------------------------------
(* Properties *)

\* What the page shows is what the session's live history draws, bubble for bubble,
\* whatever failed, was sent again, undone, compacted or restored, unless something
\* happened that the code does not tell the page of (aux_behind): operations that
\* crossed, an answer lost or a request stopped that is not followed by a reading of
\* the state, beats saved by a pass that failed, and a turn whose answer is not all
\* there is: of a hint only, or with a deed, a line the Director gave, or a reply of
\* nothing, which the records and the answer do not have alike.
ShownIsTheStory ==
    Quiet /\ ~aux_behind /\ page.session # None => shown = server[page.session].history
=============================================================================
