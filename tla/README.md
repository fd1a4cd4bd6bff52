# A verification of Alex Tavern

Alex Tavern plays multi-character role-play stories: a FastAPI server keeps one
directory for each session, every turn runs a pipeline of language-model calls
(Director, characters, prose renderer) over it, plugins hook into all of it, and
a browser page shows it. What makes it interesting to verify is not the text but
the bookkeeping around it: the history is compacted, undone and restored; what a
character may know depends on where everyone stood when it was said; act
deadlines run on a clock of their own; packages, pointers and an environment are
swapped while others read them; and nearly all of it is read, held across
minutes of awaiting and written back, and may stop between two writes.

The modules model that bookkeeping as `src/` has it. TLC checks them on small
instances. TLAPS proves every property of every run but one, which is about
liveness, and with them the inversion of plugin deltas and the order of versions, for
every value of the constants.
Paths are those of the repository with its `src/src/` package.

## 1. Inventory

| Component (source) | State it keeps | Operations | Interacts with | Module |
|---|---|---|---|---|
| **Session history** (`runner.py`, `store/sessions.py`, `compaction.py`, `store/jsonfile.py`) | `GameState` in `state.json`: history, revision, summary, compaction stack, clock, scene, plugin state; checkpoint files in `backups/` | turn, `undo_turn`, `compact_session`, automatic compaction, `restore_last_compaction` | everything: each operation loads, mutates a private copy, saves | `SessionHistory`, `PluginDelta` |
| **Session administration** (`runner.py`, `models.py`) | presence, `presence_edit_stack`, cast sheets, controlled character, revision | `set_presence`, `undo_last_presence_edit`, `update_session_setup`, `get_state` | turn and undo change the same scene | `SessionAdmin` |
| **Session lock and handlers** (`store/locks.py`, `main.py`) | weak registry of `asyncio.Lock`s | one lock per request, for its whole duration | wraps all of the above | `SessionLock` |
| **Turn pipeline** (`runner.py`, `agents/narrator.py`) | per-burst state, speaker queue, stop reason | `player_turn` and its stages | perception, prose, roteiro, watcher, hooks | `Burst` |
| **Roteiro** (`roteiro.py`), drive, watcher | acts, act index and start, rolling beat, cooldown, replan counters; quiet and refractory counters | compile, evaluate, replan, act deadline; hint, intervention | narrative clock, history, undo | `Roteiro`, `Burst` |
| **Perception, zones, whisper guard** (`perception.py`, `confidentiality.py`, agents) | zones and positions in the scene, audiences in the records | who witnesses an event, redaction, retries | narration, replies, facts, compaction | `Perception`, `Confidences` |
| **Perspective memory** (`agents/perspective.py`) | a ledger per character: people, digest, summary, two cursors | initialize, update identity, capture, revise; projection | history, undo, compaction | `PerspectiveMemory` |
| **Plugin hooks, commands** (`plugins/hooks.py`, `runtime.py`, `commands.py`, `sdk.py`), **LLM client** (`llm/client.py`) | registrations, disabled plugins, commands | boot, register, filter, action, layered call, dispatch, retry | every stage of a turn | `PluginHost` |
| **Plugin packages** (`plugins/store.py`, `manifest.py`, `experiences.py`, `hub.py`, `runtime_bootstrap.py`) | catalog, cache, pointers, environment, first-boot marker | install, remove, switch, update, Experience, sync, rebuild | boot | `PluginStore`, `Versions` |
| **Configuration** (`config.py`, `main.py`, `llm/adapters/`) | `config.json`, the process's copy, the runner's provider | load, show, merge, save | boot, plugins | `Settings` |
| **Presets, scenarios** (`store/presets.py`, `store/scenarios.py`) | JSON records with revisions | create, update, delete, list | setup of new sessions | `Library` |
| **Web page** (`static/app.js`, `composer.js`, `transcript.js`, `compaction-ui.js`) | log, optimistic bubble, busy flags | send, pass, stop, retry, undo, compact, restore, open, delete | every handler of the server | `WebClient` |
| Dispositions, prompt contracts, debug log, security, Android shell and tools | little or none of the session's | | | see section 7 |

What each has to get right, and where it is hard:

- *History.* Nothing played is lost or doubled while it moves between the live
  window and the checkpoints; the summary tells exactly what the window no
  longer does; undo returns to where the undone beat started; a file and
  `state.json` are two writes with a crash between them. Hard: long legal
  sequences (compact, play, undo, restore), since turn numbers are recomputed
  from whatever is live.
- *Administration.* An edit may only replace what its author saw. Hard: undo
  brings old contents back, so only the revision tells states apart, and
  presence undo compares contents.
- *Lock.* One request inside, nobody stuck. Hard: the registry forgets locks;
  waiters are cancelled, also just after they were woken.
- *Turn pipeline.* A burst stops where a beat gives a reason to, and says why;
  the watcher disrupts only what stands still. Hard: counters reset in one beat
  and read in a later one, with beats that fail or leave nothing in between.
- *Roteiro.* Deadlines fire once and in time, beats end, played acts stay. Hard:
  three clocks (player actions, narrated turns, ticks) that undo and compaction
  move independently.
- *Perception and memory.* A confidence reaches those it was confided to; a
  ledger holds what its owner perceived and was not undone, once, and names
  nobody it was not told of. Hard: the guards work from records and a scene that
  change between the decision, the replies and the commit.
- *Plugins.* An active release is in the cache; an offered update is taken; the
  first boot is marked done only when it is; a hook can always be ordered; a
  call fails only with its model. Hard: the environment is rebuilt outside the
  lock, and the process may die between two renames.
- *Settings and library.* The server runs on what its file says, keys outlive
  forms without keys, nobody replaces what he has not read. Hard: forms, copies
  and confirmations are old by the time they are used.
- *Page.* The log shows the session's history. Hard: an optimistic bubble, lost
  answers, and operations that rewrite the history under it.

`PROJECT.json` lists the components one by one and the hazards at their lines.

## 2. Modules

| Module | What it is |
|---|---|
| `Story` | abstract: a story grows and is taken back by whole beats |
| `SessionHistory` | history, compaction, restore, crash |
| `PluginDelta` | the change of plugin state a checkpoint keeps, and its inversion |
| `SessionHistory_proofs` | theorems about both |
| `SessionAdmin`, `SessionAdmin_proofs` | presence and setup edits beside turns and undo; the theorems about both clients of a session, this one and the page |
| `AtomicStore` | abstract: commits made one on top of the other, deletion is final |
| `SessionLock`, `SessionLock_proofs` | requests, the weak registry, `asyncio.Lock`; the theorems, and those about the memory kept under the lock |
| `Burst`, `Burst_proofs` | one request after another, beat by beat |
| `Roteiro`, `Roteiro_proofs` | acts, beats and the narrative clock |
| `Perception` | zones, audiences and the sets of words the guards keep; no state |
| `Confidences`, `Confidences_proofs` | `Perception` composed with the order of a turn |
| `PerspectiveMemory` | a ledger under turns, undo, compaction and restore |
| `PluginHost` | boot, hooks, layered model calls, slash commands |
| `PluginStore`, `PluginStore_proofs` | packages, pointers, environment, hub, first boot; the theorems about them, about `Versions` and about `PluginHost` |
| `Versions` | semantic versions and constraints |
| `Settings`, `Settings_proofs` | the configuration, its file, its readers and writers, boots; the theorems about it and about `Library` |
| `Library` | presets, scenarios and the start of a session from them |
| `WebClient` | the page's transcript against the server |
| `MC...` | the instance of each for TLC |

`SessionHistory` and `SessionAdmin` assume what `SessionLock` checks: that an
operation has the session to itself from load to save; so do `Burst`, `Roteiro`,
`Confidences` and `PerspectiveMemory`, which model what happens inside one turn
after another. `WebClient` takes a server whose answers are those
`SessionHistory` allows. Definitions named `X_something` just before `X` are
variations of `X` a plausible bug would make; nothing uses them, they are kept to
try the properties on.

### SessionHistory

A step is one *durable* write. `saved` is `state.json`, `files` the checkpoints
by number, `op` the operation that holds the lock, `draft` the compacted state
between its checkpoint's write and its own. Work in memory between two writes
has no state: dying or failing before the next write is `Crash` and
`AbandonTurn`.

- `BeginTurn`, `CommitBeat`, `AbandonTurn` are `player_turn`: automatic
  compaction may come first (`CheckpointAutomatic`), then one or more beats, each
  its own turn number. A beat is a member of `Beats`: whether the player spoke,
  whether it left records, what it did to clock, scene and plugin state.
- `UndoTurn` pops the newest turn number's records and restores what they
  snapshot.
- `CheckpointManual`, `SaveCompaction`, `SaveCompactionFails` are
  `_compact_loaded_game`; the failed save removes its checkpoint.
- `RestoreLastCompaction` checks the journal and splices the evicted records
  back. `RestoreAccepts` is the journal's check; the conflicts of plugin state that
  may refuse a restore too are `PluginDelta`'s.

Plugins filter what a compaction and an undo are about to save
(`compaction.before_commit`, `undo.before_commit`) and may replace all of it. The
model has them change plugin state in a compaction, nothing else: that they leave
history, summary, scene and clock as they are is assumed. One that does not takes
`NothingLost` and `SummaryCoversEvicted` with it.

Record contents are abstract: a record is its turn number, author, and the three
things it snapshots, grouped by *when* a beat changes them (scene: before the
narration is appended; plugin state: at commit; clock: anchored at the beat's
start). The ghosts `aux_log`, `aux_start`, `aux_marks` remember every record
committed and not undone, the state its beat began in, and each compaction's
place. `Reconstructed` is what can be read off the durable state alone: what the
compactions on the stack evicted, one behind the other, and the live history.

`PluginDelta` is the part of a checkpoint that is data: `plugin_state` is a tree
of JSON objects, here a function from paths to labels; `Delta` is
`build_plugin_state_delta`, `Conflicts` and `Inverted` what
`restore_last_compaction` makes of it.

### SessionAdmin

Each operation is one step that saves once. A client acts on the state it last
read (`view`), which can be arbitrarily old. Plugins may change the presence in
a turn. Compaction changes no presence and is left out.

### SessionLock

A step is what a task does between two awaits. Requests arrive, look the lock up,
enter or queue; the lock is released, failed out of, or its waiters are
cancelled. `asyncio.Lock` is external: modelled as CPython has it, with its
wake-up of the first waiter on release, on cancellation of a woken waiter, and
no hand-over. A lock object nobody refers to is collected from the registry at
any time. What a session *contains* is who made each commit.

### Roteiro

A committed beat is one step: maintenance of the direction (`_maintain_roteiro`,
with `evaluate_roteiro` and `replan_roteiro`) on the history as the player's
input left it, then the beat, the clock and the save. What the models write is
chosen from `Replies` and `Beats`. Anchors that the history's words match are
among those the beat that said them touches. Ghosts: since when the current act
is current, the turns told in the current beat, the acts whose deadline passed, and
whether the window has lost turns of that beat. A record carries the ghosts its turn
started from, as it carries the direction.

What an answer of the architect is made of is in `_validate_acts`,
`_validate_beat`, `Selected` and `Spliced`: acts without a summary are left out,
durations and budgets clamped, acts that restate a kept one dropped.

### Burst

`PlayerTurn` to `Reply` are the stages of `player_turn`: the input, the hint
(player, drive, invitation, act event, watcher), the Director's beat (routing as
`narrate` normalizes it, new events, time skips), the queue, the commit and why
the burst stops. `game` is the request's copy of the watcher's counters, `saved`
the file's; a failure goes back to `saved`. Texts are a few constants. `aux_beats`
keeps the beats as they were, `aux_still` counts how long the scene has stood.

### Perception and Confidences

`Perception` has no state: `can_perceive`, audiences, `_open_new_zones`,
`_apply_canon`, and each function of `confidentiality.py` as a set of guardable
words. `Confidences` puts a turn around it: the human speaks or whispers
(`PlayerMove`), the Director decides on the scene as it was (`DirectorBeat`),
characters answer words their prompts have ever shown them (`RunSpeaker`,
`CharacterAnswer`, with the retries and repairs of `act`), the Director's lines
are recorded and the moods it wrote come into force (`CommitBeat`), and the history
is compacted (`Compact`). Both the Director and the characters are adversaries here:
they may say any word they have been shown. What the Director writes is an event,
facts with their keys, movements and links, the summary of a time skip, and moods;
`beat` holds the last two until they are used. A character's prompt shows it the
records it heard, what is rendered of the event and the time skip, and its mood.
`aux_told` is whom the human let in; `aux_unguarded` becomes true where a word takes
a path that the code guards nowhere, and the model ends there:

- an answer whose second attempt has movement in the wrong field is repaired and
  recorded as it is, and an action intent is never guarded (`act`);
- a line the Director gives to someone who was not let in (they "say" it);
- a mood with a word its owner was not told (`narrator.py` 802-807 normalizes moods and
  redacts nothing, `character.py` 288 shows them);
- a word in the *key* of a fact: only values are redacted (`narrator.py` 795-800),
  and a key is public knowledge to every other guard from then on;
- a word found in thoughts only in the summary of a time skip, which
  `_apply_time_skip` adds to the events after they were redacted;
- a whisper evicted by a compaction: the guards read live history only.

### PerspectiveMemory

One viewer, one stranger. The ledger is prepared when a beat is rendered and again
before the viewer speaks (`_ensure_perspective`: initialize, learn names, capture,
condense), and put back from a snapshot by undo. Its cursors are turns and places in a
turn, as in the code; `Records` are the records of some places, in order. The second
half of the module is what a prompt then calls the stranger, in three places with two
different fallbacks.

### PluginHost

`BootTurn` loads or refuses the next plugin in dependency order; its setup registers
filters, actions, wrappers and commands one by one, each with the manifest's order or
one of its own, and may fail at any of them. (A plugin may keep its context and register
later, disabled or not: not modelled.) The
handlers of a hook are ordered by `before` and `after`, then by priority, with Kahn's
algorithm: `Orders` are the results it may have, and `ordered` is one; a handler that
closes a cycle is refused. `Begin` starts a call of a hook with the handlers there are
then; a wrapper's call is a stack of frames, one for each layer and the model at the
bottom, so that a layer may call what it wraps several times, return without, raise, and
be replaced by a second call of the rest (`FellBack`). Two sessions call at once, which
is what lets a plugin be disabled under a running call.

### PluginStore and Versions

A step is what happens between two effects on disk. `op` is where each request's
thread is; the lock covers what `_lock` covers. `disk[r]` is how much of a release
is left, since a removal may die half way. `Crash` loses threads and lock, keeps
disk. `Boot` and `ApplyDefault` are the first boot, with the hub's sync and the
default Experience applied step by step. `Versions` is `SemanticVersion`,
`compare_versions` and `satisfies_version`.

### Settings, Library

`Settings` has `config.json`, `stored` (the process's copy) and `running` (what the
runner calls): a save replaces them one after the other. Clients read a form
without keys, edit it and send it whole. Boots differ in the plugins that
register providers, and read the file before those have. A merge wants both the
file it starts from and the one it makes to be valid. `Library` has clients that list,
open, edit, save with the revision they read, confirm and delete, and one start of a
session at a time. A request brings a cast of its own, as the page always does, or takes
a scenario's (`load_scenario`), whose presets are read one by one (`ReadPreset`); its
links are its own or, when it brings none, the scenario's, whichever cast it has. The
links have to fit the cast (`AsksLinks`) and are then looked up one by one
(`ChecksLink`). `aux_was` is what each preset was at any moment of the start.

### WebClient

Each operation of the page is a coroutine in a slot: it sends, and continues when its
answer, an error or nothing comes. The log `shown` is what the page has drawn, `echo`
the optimistic bubble. `orphans` are requests whose page stopped waiting: the server
serves them all the same. A second operation begins only where the page's controls let
it. Turn numbers start again where the live history ends, as `_next_turn_number` has it,
and a compaction is kept as what it told and what it left (`Restorable` while that still
stands). An automatic compaction comes before anything of its turn (`Shortened`).

A history is what `renderHistory` draws of it, one bubble for all that a speaker said in
a row in a turn. A turn's answer is not the same: `AsRecorded` and `AsAnswered` give both
for each shape a beat may have - dropped, narrated, with a reply, a deed, an empty reply,
or a line the Director gives to another or to the one who replied. A turn with only a
hint for the Director echoes a bubble that nothing records (`InputRecord`). `aux_behind`
says something has happened of which the code never tells the page, such turns among it.

## 3. Runs

| Run | Shows | Bounds |
|---|---|---|
| `session_history` | history in order; nothing lost; summary exact; checkpoints chain, are immutable, and can be restored as long as what they kept is intact; undo of a player's turn returns to its start; the whole implements `Story` | 2 scenes, 2 plugin states, 3 kinds of beat, window of 1 turn, 2 checkpoint files, 8 revisions, clock 4: two nested compactions, an orphaned or failed one, undo through and play after them, and a restore. 193,418 states |
| `session_admin` | no edit replaces a state its author did not see; presence undo walks back through lists that stood | 2 clients, 2 characters, 2 sheets, 5 revisions: two edits, a turn and its undo, and a competing edit in any order. 693,137 states |
| `roteiro` | an act's deadline passes once; no act is current longer than its duration and what one beat adds; no beat outstays the turn ceiling while the window holds all of it; played acts stay | caps of 2, patience, cooldown and act threshold of 1, skips of up to 1, bursts of 2, acts of 0, 2 and 4 ticks, four answers of the architect, clock 7, 3 live turns: every replan action, both outcomes of a terminal deadline, undo and compaction. 747,833 states |
| `session_lock` | at most one request inside; commits are atomic and deletion final (`AtomicStore`); everyone waiting gets in or leaves | 3 requests, each serving any number in turn, 4 lock objects, 2 commits: a holder and two waiters is the smallest queue in which a wake-up can be lost to a cancellation. 42,868 states |
| `burst` | a burst stops where and for the reason it says; the watcher disrupts only a scene that has stood still | bursts of up to 3 beats, 2 speakers in a queue, the player's character, two others and one who is absent, quiet threshold 1, refractory 2, one text besides the summary: requests go on without end, so disruptions follow one another and failures discard counters at any point. 98,274 states |
| `confidences` | a whispered word reaches nobody it was not told to, but over the paths named above | three characters, one word, two places, one of the three walking between them, any links of one zone, both others' moods rewritten, two replies in a turn, no turn begun with more than two records that hold the word: the walker is let in or kept out, near or away, and every guard meets the word from the prompt, a mood, a fact, a time skip and an event. 1,365,278 states, of which those where everyone was told, or the word has escaped, are one each |
| `perspective_memory` | a ledger remembers only what its owner perceived and was not undone, nothing twice; a stranger is named only after a line has | 4 records, a digest of 3 that is condensed at 2 with a tail of 1: two condensations, an undo that puts a condensed ledger back, a compaction and its restore. 2,483,271 states |
| `plugin_host` | a hook always has an order; a layered call fails only with its model; a disabled plugin has nothing registered | four plugins, three with a layer each, a dependency, one that requires itself, an order constraint against a priority, and names that collide; two callers, three attempts at the model, layers that call the rest up to twice. 507,102 states |
| `plugin_store` | an active release stays in the cache; an update that is offered is taken; the first boot's marker stands only for completed work | two threads, a plugin with a prerelease and its release and another plugin, requirements that differ, two catalogues, a default Experience and one that may be applied. 1,771,090 states |
| `settings` | the server runs on what its file says, keys outlive blank forms, only a plugin's provider can keep it from coming up | two clients, two built-in providers and two of plugins; one of each requires a key, the other plugin's has no endpoint policy; one key. 1,046,957 states |
| `library` | nobody replaces what he has not read; a session links its own cast to presets that were there, and has the whole of a scenario's cast | two clients, one name of their own and the built-in one, two in the cast, lives and revisions up to 3 together, starts with and without a cast and links of the request's own, links that use a preset twice. 2,040,698 states; the session made is in none of them, and the starts that will be refused for their links are one |
| `web_client` | the page shows the session's history wherever the code can know of it | one session, two operations at once, turn numbers up to 3, a live history of two turns, one compaction deep, beats with a reply and beats with a line besides that is not answered: every pair of operations and answers in either order. Two operations begin to cross only on a page that is not behind, and of one that is the run keeps what its bubbles say only where a guard reads it (`MCView`). 1,524,699 states |

Bounds are guards named after what they bound. The runs of the history, the
roteiro, `Confidences`, the memory and the page come to rest at theirs, so they do
not check for deadlock; the others do. Smaller limits than the code's (a window
of 1 instead of 200, caps of 2 instead of 3) only make the same events happen
earlier: each is a constant of its module. Symmetric clients, threads, callers
and slots are declared so where the run has no liveness property.

`MCSessionHistory` also evaluates three facts about `PluginDelta` over all its small
trees: `RoundTrip` (what `RestoreGivesBack` proves in general), and `RestoreMixes` and
`RestoreMayOverwrite`, which say what a restore makes of changes made since.

Every property has a mutant in `PROJECT.json`, a plausible bug in the code modelled
that breaks it in the same run.

### Where the code departs from what is said of it

Met while modelling; the properties state what does hold beside them.

History and turns:
- `models.py:399` and `README.md:426` say undo never rewinds the narrative clock;
  `undo_turn` sets it back to the popped record's anchor.
- Undoing a passed turn keeps the scene changes of the beat itself: the narration
  record's snapshot is taken after `_apply_canon` (runner.py 1553-1565).
- A beat that leaves no record loses its turn number to the next one.
- Undo may restore a presence in which the controlled character is missing.
- The ceiling on a beat's turns counts retained turns, so compaction and undo, or a
  window shorter than the cap, let a beat stay longer. An act written after the
  clock stopped inherits that clock's start and ends early.
- The Director may give lines to the player's character
  (`_persist_audible_speech`), which the documentation excludes.
- `capture_memory` never captures the lines of a turn that follow the viewer's own
  capture in it.
- A restore replaces, without a conflict and without asking the resolver, a value
  that a plugin has written since below a path the compaction changed
  (`RestoreMayOverwrite`).
- Disposition feedback and the watcher cannot be switched on by a stored
  configuration: `resolve_active_config` drops their keys. Only a `Runner` built in
  code has them.

- The comments at `narrator.py` 783-800 say nothing found in thoughts only surfaces as an
  event, and that a fact gets the same redaction: a time skip's summary becomes an event
  afterwards, and a fact's key is kept as written.

Plugins and settings:
- `switch_activation` prepares an environment under the lock, but the rebuilds of
  deactivation, uninstallation and Experiences run outside it, so a pointer can be
  written over another environment than the one prepared. A crash between the two
  renames of a swap leaves none, and booting does not rebuild it.
- The inventory compares a release with the highest-hashed build of the newest
  version, `update_curated` with the lowest-hashed: a "candidate_available" release
  can be refused. `OfferedUpdateIsTaken` holds for what the page offers.
- A wrapper above a failing model is disabled with it, or for a cancellation, and
  its fallback may call the model up to twice for each layer.
- A disabled plugin's handlers may run in calls and commands begun earlier, and may
  register again; plugins load although one they depend on did not.
- A configuration whose active provider comes from a plugin keeps the server from
  coming up, although `runtime_bootstrap` promises the contrary; and any save drops
  the section, key included, of a provider not registered at that moment.
- Of two pages that save the whole configuration, the last one wins.

Library and page:
- A preset deleted and made again starts at revision 1, so an old revision can pass
  for a new one. A confirmed replacement without an image keeps an avatar its author
  may not have seen. A session's cast can mix revisions of a preset, or link one
  deleted after it was checked.
- A start whose request brings its own cast and no links takes those of the scenario it
  names; one with both may leave members of the cast linked to nothing, or leave out some
  of the scenario's.
- The confirmation of a replacement is asked before the preset is read again, and what is
  read is shown to nobody (`setup.js` 573-577).
- The answer to a turn has neither the lines the Director gives nor deeds, and has
  replies that were empty; the echo of a hint stays as a blank bubble. The page shows all
  that differently after it has read the session again.
- "Try again" after a failed pass sends the last *written* turn again; an answer that
  comes after another session was opened is drawn into that one; a failed reload
  after a compacted turn marks a committed turn as failed; undo and skip stay within
  reach of the mouse while an operation runs.

## 4. Fairness

Only `SessionLock` has a liveness property, and its fairness is weak: a task that
can run again does (`Resume`, `Unwind`: the event loop), and a request inside
returns or fails (`Finish \/ Fail`): model calls have timeouts, retries, bursts
and speaker queues are bounded. Nothing makes a request arrive, be cancelled,
or save, and nothing makes the collector run. The remaining modules have safety
properties only: nothing of theirs is started by anything but a request, and what
ends a request are the bounds they have as guards.

## 5. Proofs

TLAPS proves, for every value of the constants that their assumptions allow and
without the bounds playing a part:

| Module | Theorem | States |
|---|---|---|
| `SessionHistory_proofs` | `TypeCorrect` | `TypeOK` |
| | `CheckpointsImmutable` | `CheckpointsAreImmutable` |
| | `CheckpointsChain` | `CheckpointChain` |
| | `NothingIsLost` | `NothingLost` |
| | `SummaryIsExact` | `SummaryCoversEvicted` |
| | `InOrder` | `HistoryInOrder` |
| | `RestorePossible` | `RestoreStaysPossible` |
| | `UndoReturns` | `UndoReturnsToTurnStart` |
| | `StoryIsKept` | `ImplementsStory` |
| | `LogTellsAStory` | the same of the log of what was played and not undone |
| | `RestoreGivesBack` | a restore gives the plugins their state back (`PluginDelta`) |
| `SessionAdmin_proofs` | `AdminTypes` | `TypeOK` |
| | `NoLostEdit` | `EditsReplaceWhatTheySaw` |
| | `UndoWalksBack` | `PresenceUndoWalksBack` |
| | `PageShowsTheStory` | `ShownIsTheStory` of `WebClient` |
| `SessionLock_proofs` | `LockTypes` | `TypeOK` |
| | `MutualExclusion` | `OneInside` |
| | `NoWakeUpLost` | `WakeUpNotLost` |
| | `StoreIsAtomic` | `ImplementsAtomicStore` |
| | `RemembersOnlyTheStory` | `OnlyTheStoryIsRemembered` of `PerspectiveMemory` |
| | `RemembersEachLineOnce` | `NothingRememberedTwice` of `PerspectiveMemory` |
| | `StrangersStayStrangers` | `StrangerUntilNamed` of `PerspectiveMemory` |
| `Burst_proofs` | `BurstStops` | `StopsWhereItSays` |
| | `DisruptionIsEarned` | `EarnedDisruption` |
| `Roteiro_proofs` | `RoteiroTypes` | `TypeOK` |
| | `DeadlinesAreOver` | `FiredActsAreOver` |
| | `NoDeadlineIsPutOff` | `WorldNeverWaits` |
| | `BeatsEnd` | `BeatTurnCeiling` |
| | `PlayedStays` | `PlayedActsStay` |
| `Confidences_proofs` | `ConfidencesAreKept` | `ConfidenceKept` |
| `PluginStore_proofs` | `NoDanglingPointer` | `ActiveIsInstalled` |
| | `NoOfferRefused` | `OfferedUpdateIsTaken` |
| | `MarkerIsEarned` | `MarkerMeansReady` |
| | `PrecedenceIsAnOrder`, `ConstraintsLeaveNoGap` | versions are totally ordered, constraints leave no gap (`Versions`) |
| | `WhoIsDisabledHasNothing` | `TypeOK` of `PluginHost` |
| | `HooksCanBeCalled` | `HooksHaveAnOrder` of `PluginHost` |
| | `OnlyTheModelFails` | `FailureIsTheModels` of `PluginHost` |
| `Settings_proofs` | `SettingsTypeOK` | `TypeOK` |
| | `ServerRunsOnItsFile` | `RunsOnItsFile` |
| | `ServerComesUpAgain` | `ComesUpAgain` |
| | `NoKeyIsLost` | `KeysAreKept` |
| | `NobodyReplacesUnread` | `ReplacesWhatWasRead` of `Library` |
| | `SessionsHaveTheirCast` | `CastIsWhole` of `Library` |

A module of proofs that serves two components extends both; they share no variable, and
each has its part of the module. The theorems named `...Invariant` are the inductive
invariants these are read off.

### Assumptions

All are about constants, stand in the modules that declare them, and are evaluated
by TLC in every run. Windows, caps, bursts and thresholds are numbers, at least 1
where nothing would be done otherwise (`KeepAssumption`, `ShrinkAssumption`,
`BurstAssumption`, `CapAssumption`, `BeatAssumption` and `WatcherAssumption` of
`Burst`); starting contents are contents (`ContentAssumption`, `StartAssumption`);
beats and answers have the fields the code validates (`BeatAssumption`,
`ReplyAssumption`); the human's character is in the cast, and `"Player"` is no
character's identifier, as `models.py` rejects (`CastAssumption`,
`PerceptionAssumption`, `WalkersAssumption`); a catalog is finite and its releases
have parsed versions, an Experience is one that was parsed (`StoreAssumption`); the
first configuration names a provider that needs no key (`SettingsAssumption`); user
presets and built-in ones have different names and links name presets (`LibraryAssumption`); activated plugins
differ, and what a manifest requires wrongly it requires (`HostAssumption`); a ledger's
limits are numbers, its digest may hold something (`MemoryAssumption`); the page's
sessions and its operations at once are finitely many (`SessionsAssumption`,
`SlotsAssumption`), its beats of the shapes there are (`ShapesAssumption`).
The others say that a value that stands for nothing is not a value
(`NoRoteiroAssumption`, `NameAssumption`, `LockAssumption`, `DictAssumption`), or
that a bound is a number.

### The arguments

Hardly any of the properties is inductive by itself. What makes it so, module by module:

*History.* Five layers, each inductive relative to the one before it:

1. `TypeInv`: while a compaction is between its writes its checkpoint is the newest
   file and its draft's stack names it. Without that, a failed save could remove
   somebody else's file; from it immutability follows step by step.
2. `ChainInv`: the draft *is* the compaction of the saved state, and the live stack
   names only files older than the pending one. Numbers come from the files present,
   which crashed compactions leave too, so the order of the stack has to be argued
   from the numbers' growth.
3. `JournalInv`: every live checkpoint holds one contiguous stretch of the log, where
   the one below ends, and found the summary covering all before it. `NothingLost`
   and `SummaryCoversEvicted` are its two halves.
4. `OrderInv`: the log, evicted stretches included, is in order of turns and ticks,
   and every stretch ends where a turn does. It has to speak of what is evicted,
   because a restore puts it before the live history again.
5. `RestoreInv`: what each intact compaction kept still stands in the log behind its
   stretch, and what follows it is of another turn: splitting the live history by
   turn number then finds what was kept.

`StampInv` (a player's record says what its turn started from) gives
`UndoReturns`; `StoryInv` (nothing parts the records of a beat: not a compaction,
not a restore of one) shows that each step of the log is a step of `Story` or none.
`JournalInv` places the stretches one behind the other, which makes what can be read
off the files equal to the log (`FilesHoldTheLog`) and the refinement one of the files
(`StoryIsKept`). `Joined` counts places instead of recursing, so that this can be
proved: the end of a part is the number of places before it (`RecordsUpToIs`).
`RestoreGivesBack`: an operation of the delta lies at the place nearest to the root
where the trees differ, so operations do not lie below one another, and every path
outside them is common to both (`AgreeElsewhere`, by the least prefix on which they
differ).

*Administration.* `RevisionsIdentify`: a view of a revision is the state of that
revision. Undo brings contents back, so equal contents do not make an edit safe; an
equal revision does.

*Lock.* Whoever waits or is inside refers to the registry's lock (`Referred`), the
lock is held when somebody is inside (`Held`), the queue is the waiters in line
(`InLine`), and when the lock is free the first of them was woken (`FirstIsWoken`).
A request can then not find a second lock, whatever the collector does, and a
cancellation passes the wake-up on. `UpToDate`: whoever is inside has read what the
last commit wrote, which makes each commit a step of `AtomicStore`.

*Burst.* While beats are played none has settled anything, fewer were played than the
budget, and the streak is 1 exactly when the last one brought no reply: so a beat
"gives a reason to stop" in the ghost exactly when the code's streak reaches 2
(`Decides`). The watcher's saved counters never run ahead of the beats the scene has
stood still, and silence is only tolerated after the threshold; a request's own copy
agrees with the saved one, or with 0 after a disruption.

*Roteiro.* Everything said of the direction must be said of every direction an undo
may bring back: `DirectionsSound`, `ClockOrder` and `BeatsCounted` speak of the
current state and of the stamp of each turn in the history alike. `BeatsEnd` is stated
while the window holds all of the beat's turns, which the ghost `cut` tells: beyond it
the code does not count them either (section 3).

*Confidences.* While no word has taken an unguarded path: prompts, public records,
facts and moods, written or in force, show a word only to those let in (`ShownToTold`); a word anybody can read and
that is kept from someone stands in a live whisper that one did not hear
(`KeptByAWhisper`), which is what lets the guards on what a listener is shown hold it
back; and in one by the human that each confidant did hear (`ConfidedByAWhisper`),
which is what lets the guard on what a confidant says hold it back too. The last is
not implied by the one before: a whisper of the Director would not do.

*Packages.* `StoreInv`: the lock brackets its steps, and while a thread is switching
to a release that release is in the cache, while it is removing one no pointer has it
(`LockHeld`, `ReleaseStands`), although any thread may die at any step. `BootInv`: no
request is served before the first boot is over. `NoOfferRefused` needs that a finite
set of builds has a newest one, which needs that precedence is an order.

*Settings.* A save is three assignments; `SavesInProgress` says which of them are made
at each of its steps, `FileSound` and `OnItsWay` what may be in the file and in the
hands of a client, `Up` what the server runs on between saves. `ServerComesUpAgain`
excepts what the code does not hold: an active provider that a plugin registers, and
a plugin's adapter without an endpoint policy.

*Library.* `Held`: what an editor holds of a preset is no newer than the preset, and
is the preset when it is of the same life and revision. A deleted preset starts again
at revision 1, so the revision alone would not do. `StartInv`: a start that reads its
cast has read members of the scenario's, each as its preset was at a moment since it
began, and all of them once its links are looked up; these fit its cast, and each that
was looked up was there. Not that the presets are of one moment, nor that anybody in a
request's own cast is linked.

*Plugin host.* `RegistryInv`: registrations and slash names belong to plugins that are
loaded and not disabled, or to the one whose setup is running. That hooks keep their
order needs no induction over what the algorithm computes: handlers have an order
exactly when no set of them is stuck, each waiting for another of the set (`TakesAll`,
`NoneStuck`, by least counterexamples on numbers), and that stays so when handlers are
taken away (`FewerInOrder`), which is what disabling a plugin under a running call does.
`CallInv`: the frames of a layered call are of its layers or of the model below them,
so a call that raised through all of them did so from the model's last attempt.

*Page.* `ViewInv`: while the page is not behind, at most one operation is under way
and the page is in step with it (`InStep`), which says for each kind and each await
what the log is then: the history, the history and the optimistic bubble, the history
without what the answer will add, or whatever the reload will replace. A turn's answer
adds to the log what the server added to the history only because the bubble stands
last, because the answer says whether a compaction came before, and if all its beats are
whole (`OutcomesAnswer`): recorded and answered alike. The theorem has no view and no
bound, and any shapes.

*Memory.* `Tells`: every ledger that is or may come back - the current one, and the
snapshot in every record, live or evicted - is `Sound` at its record: what it remembers
was perceived and is older than the record (`Justified`), it is there once (`Tidy`), and
the cursor has passed it (`HasRead`), so that no capture takes it again. Identifiers and
turns ascend over the evicted records and the live ones together (`StoryOrdered`), and a
compaction that may be restored kept something no earlier than what it evicted
(`KeptInOrder`): restoring splices in order, after undo and play as well.

### Only model-checked

- Liveness (`EveryRequestAnswered`): the prover has no support for fairness and
  `ENABLED`.
- `RoundTrip` and the two facts beside it are evaluated over small trees only; of the
  first, `RestoreGivesBack` is the general form.

## 6. Plan

The modules planned are built, and the theorems planned are proved.

Left to model: the compaction's progress queue (64 entries, the oldest dropped, one
terminal event), a second session of the page, and dispositions should they become
reachable.

## 7. Not modelled

- Dispositions and their feedback: no stored configuration reaches them.
- Prompt texts, suggestions, openings and the alignment texts of prompt contracts:
  they change no state a property here is about.
- An act's world event is staged only when no other hint came first, as on every
  opening pass: `Burst` has the hint, `Roteiro` the act, and nothing composes them.
- Fork writes only to a new session, `list_sessions` only reads, outside the lock.
  A fork or a deletion that fails midway leaves a directory without a state, which
  the listing skips.
- The debug log, the supervisor's signals, HTTP security and the token: no story
  state. Of the LLM client, its retries and adapters `Settings` has the configuration
  and `PluginHost` the layered call.
- The page's setup, plugin and preset dialogs; of the page, `WebClient` has the play
  screen.
- The compaction's progress stream beside its two outcomes.
- The Android shell, the MCP server, the benchmark and acceptance tools, the build.
