------------------------------ MODULE Library ------------------------------
(***************************************************************************)
(* The library a session is started from: character presets, with a         *)
(* revision each, the scenarios that link them, and the clients that open,   *)
(* save and delete them.  A session is started with a cast of the request's   *)
(* own or with a scenario's, whose presets are read one by one, while other  *)
(* clients' requests go on.                                                  *)
(***************************************************************************)
EXTENDS Integers, Functions

CONSTANTS
    Editors,
    Names, BuiltIns,    \* the presets users save, and the ones that ship
    Scenarios,
    Ids,                \* the names characters have in a cast
    Shipped,            \* the built-in scenario's links: presets by id
    Links,              \* the links a user's scenario or a request may have
    Characters,
    Images, Avatars,    \* what a client may choose, and those that are avatars
    MaxAge,             \* bound: times a preset is made anew and saved since
    None

ASSUME LibraryAssumption ==
    /\ Names \cap BuiltIns = {} /\ Avatars \subseteq Images
    /\ \A links \in Links \cup {Shipped} :
         DOMAIN links \subseteq Ids /\ links \in [DOMAIN links -> Names \cup BuiltIns]
    /\ None \notin Names \cup BuiltIns \cup Images
    /\ None \notin [character : Characters \cup BuiltIns, avatar : Images \cup {None}, revision : Nat]
    /\ MaxAge \in Nat

VARIABLES
    presets,    \* the user's preset files, a built-in's or None
    scenarios,  \* the user's scenario files
    clients,    \* what each client has open and where its saving is
    start,      \* the start of a session in progress, or None (bound: one at a time)
    session,    \* the session it made, or None
    aux_lives,  \* how often each preset was made
    aux_was     \* what each preset was at one time or another of the start

libraryVars == <<presets, scenarios, clients, start, session, aux_lives, aux_was>>

AllNames == Names \cup BuiltIns
Nothing == [id \in {} |-> None]

\* What a client has read of a preset, in which of its lives.
Unseen == [preset |-> None, life |-> 0]

\* card: the preset the editor's was opened as; target and image: the name in its
\* field and the image chosen, of a save that was refused; again: what was fetched
\* for a confirmed one.
NoCard == [name |-> None, seen |-> Unseen]
Fresh == [card |-> NoCard, listed |-> [n \in Names |-> Unseen], step |-> "closed",
          target |-> None, image |-> None, again |-> Unseen]

\* A built-in preset is one revision for ever.
BuiltInPreset(n) == [character |-> n, avatar |-> None, revision |-> 1]
load_preset(n) == IF n \in BuiltIns THEN BuiltInPreset(n) ELSE presets[n]

Seen(n) == [preset |-> load_preset(n), life |-> IF n \in Names THEN aux_lives[n] ELSE 1]

-----------------------------------------------------------------------------
(* A client's presets *)

AtRest(c) == clients[c].step \in {"closed", "open"}

list_presets(c) ==
    /\ AtRest(c)
    /\ clients' = [clients EXCEPT ![c].listed = [n \in Names |-> IF presets[n] = None THEN Unseen ELSE Seen(n)]]
    /\ UNCHANGED <<presets, scenarios, start, session, aux_lives>>

\* A preset, built-in or not, or a new draft is opened.
OpensCard(c) ==
    /\ AtRest(c)
    /\ \/ \E n \in AllNames :
            /\ load_preset(n) # None
            /\ clients' = [clients EXCEPT ![c].step = "open", ![c].card = [name |-> n, seen |-> Seen(n)]]
       \/ clients' = [clients EXCEPT ![c].step = "open", ![c].card = NoCard]
    /\ UNCHANGED <<presets, scenarios, start, session, aux_lives>>

\* An image is checked down to its size before anything is saved.
ValidAvatar(image) == image \in Avatars \cup {None}

\* save_preset's guards: a replacement has to be meant, and of the revision there is.
Accepted(n, revision, replace) ==
    /\ n \notin BuiltIns
    /\ IF presets[n] # None THEN replace /\ revision = presets[n].revision
                            ELSE ~replace /\ revision = 0

\* Mutant: a replacement keeps the revision of what it replaces.
Saved_sameRevision(n, character, avatar) ==
    IF presets[n] = None
    THEN [character |-> character, avatar |-> avatar, revision |-> 1]
    ELSE [character |-> character, revision |-> presets[n].revision,
          avatar |-> IF avatar = None THEN presets[n].avatar ELSE avatar]

\* A save without an image keeps the one there is.
Saved(n, character, avatar) ==
    IF presets[n] = None
    THEN [character |-> character, avatar |-> avatar, revision |-> 1]
    ELSE [character |-> character, revision |-> presets[n].revision + 1,
          avatar |-> IF avatar = None THEN presets[n].avatar ELSE avatar]

\* The save is made; the card is that preset's now and the list is read again.
Kept(c, n, image) ==
    LET life == aux_lives[n] + IF presets[n] = None THEN 1 ELSE 0
    IN  \E character \in Characters :
          LET value == Saved(n, character, image)
          IN  /\ life + value.revision <= MaxAge
              /\ presets' = [presets EXCEPT ![n] = value]
              /\ aux_lives' = [aux_lives EXCEPT ![n] = life]
              /\ clients' = [clients EXCEPT ![c] =
                     [card |-> [name |-> n, seen |-> [preset |-> value, life |-> life]],
                      listed |-> [clients[c].listed EXCEPT ![n] = [preset |-> value, life |-> life]],
                      step |-> "open", target |-> None, image |-> None, again |-> Unseen]]

\* The card is saved under the name in its field, with the image chosen or none, as
\* a replacement when it was opened under that name; it may be refused.
save_preset(c) ==
    LET card == clients[c].card
    IN  /\ clients[c].step = "open"
        /\ \E n \in AllNames, image \in Images \cup {None} :
             LET replace == card.name = n
                 revision == IF replace THEN card.seen.preset.revision ELSE 0
             IN  \/ Accepted(n, revision, replace) /\ ValidAvatar(image) /\ Kept(c, n, image)
                 \/ /\ ~Accepted(n, revision, replace) /\ (ValidAvatar(image) \/ n \in BuiltIns)
                    /\ clients' = [clients EXCEPT ![c].step = "refused", ![c].target = n, ![c].image = image]
                    /\ UNCHANGED <<presets, aux_lives>>
        /\ UNCHANGED <<scenarios, start, session>>

\* Replace it all the same?  No, or the preset is fetched once more, for its
\* revision: the client is not shown what it replaces ...
ReadsAgain(c) ==
    LET n == clients[c].target
    IN  /\ clients[c].step = "refused"
        /\ \/ clients' = [clients EXCEPT ![c].step = "open", ![c].target = None, ![c].image = None]
           \/ /\ load_preset(n) # None
              /\ clients' = [clients EXCEPT ![c].step = "confirmed", ![c].again = Seen(n)]
        /\ UNCHANGED <<presets, scenarios, start, session, aux_lives>>

\* ... and replaced, if it is still that.
SavesAgain(c) ==
    LET n == clients[c].target
        accepted == Accepted(n, clients[c].again.preset.revision, TRUE)
    IN  /\ clients[c].step = "confirmed"
        /\ \/ accepted /\ Kept(c, n, clients[c].image)
           \/ /\ ~accepted
              /\ clients' = [clients EXCEPT ![c].step = "open", ![c].target = None, ![c].image = None,
                                            ![c].again = Unseen]
              /\ UNCHANGED <<presets, aux_lives>>
        /\ UNCHANGED <<scenarios, start, session>>

\* A preset is deleted at the revision the list showed.
delete_preset(c, n) ==
    LET listed == clients[c].listed[n].preset
    IN  /\ AtRest(c) /\ listed # None
        /\ presets[n] # None /\ listed.revision = presets[n].revision
        /\ presets' = [presets EXCEPT ![n] = None]
        /\ clients' = [clients EXCEPT ![c] = [Fresh EXCEPT !.listed = [clients[c].listed EXCEPT ![n] = Unseen]]]
        /\ UNCHANGED <<scenarios, start, session, aux_lives>>

-----------------------------------------------------------------------------
(* Scenarios and the sessions started from them *)

\* The last save wins; that no preset is linked twice is asked, not whether they
\* exist.  (Bound: between starts, which read a scenario once, when they begin.)
put_scenario(s) ==
    /\ start = None
    /\ \E links \in Links : IsInjective(links) /\ scenarios' = [scenarios EXCEPT ![s] = links]
    /\ UNCHANGED <<presets, clients, start, session, aux_lives>>

delete_scenario(s) ==
    /\ start = None
    /\ scenarios[s] # None
    /\ scenarios' = [scenarios EXCEPT ![s] = None]
    /\ UNCHANGED <<presets, clients, start, session, aux_lives>>

\* The links of the scenario a request names: a user's, the one that ships, or none.
Named == {Shipped, Nothing} \cup ({scenarios[s] : s \in Scenarios} \ {None})

\* Without characters of its own a request has those of its scenario, of the one
\* that ships when it names none; its links are its own or, without any, the
\* scenario's, whoever its characters are.
load_scenario ==
    /\ start = None
    /\ \E scenario \in Named, own \in UNION {[ids -> Characters] : ids \in SUBSET Ids},
          links \in Links \cup {Nothing} :
         /\ own = Nothing => scenario # Nothing
         /\ start' = [reads |-> IF own = Nothing THEN scenario ELSE Nothing, cast |-> own, step |-> "reads",
                      links |-> IF links = Nothing THEN scenario ELSE links, checked |-> {}]
    /\ session' = None
    /\ UNCHANGED <<presets, scenarios, clients, aux_lives>>

Starting(step) == start # None /\ start.step = step

\* The characters still to be read.
Unread == DOMAIN start.reads \ DOMAIN start.cast

\* start_session reads the presets of the cast one by one, and fails at the first
\* that is not there.
ReadPreset ==
    /\ Starting("reads")
    /\ \E id \in Unread :
         LET preset == load_preset(start.reads[id])
         IN  start' = IF preset = None THEN None
                      ELSE [start EXCEPT !.cast = [i \in DOMAIN @ \cup {id} |-> IF i = id THEN preset.character ELSE @[i]]]
    /\ UNCHANGED <<presets, scenarios, clients, session, aux_lives>>

\* Mutant: a link to somebody who is not in the cast passes.
LinksFit_anybody(links, cast) == IsInjective(links)

\* Runner.start_session wants links of its characters, each to a preset of its own ...
LinksFit(links, cast) == DOMAIN links \subseteq DOMAIN cast /\ IsInjective(links)

AsksLinks ==
    /\ Starting("reads") /\ Unread = {}
    /\ start' = IF LinksFit(start.links, start.cast) THEN [start EXCEPT !.step = "checks"] ELSE None
    /\ UNCHANGED <<presets, scenarios, clients, session, aux_lives>>

\* ... asks of one after the other whether it is there ...
ChecksLink ==
    /\ Starting("checks")
    /\ \E id \in DOMAIN start.links \ start.checked :
         start' = IF load_preset(start.links[id]) = None THEN None
                  ELSE [start EXCEPT !.checked = @ \cup {id}]
    /\ UNCHANGED <<presets, scenarios, clients, session, aux_lives>>

\* ... and saves the session.
SavesSession ==
    /\ Starting("checks") /\ start.checked = DOMAIN start.links
    /\ session' = [links |-> start.links, cast |-> start.cast]
    /\ start' = None
    /\ UNCHANGED <<presets, scenarios, clients, aux_lives>>

-----------------------------------------------------------------------------

LibraryInit ==
    /\ presets = [n \in Names |-> None] /\ scenarios = [s \in Scenarios |-> None]
    /\ clients = [c \in Editors |-> Fresh]
    /\ start = None /\ session = None
    /\ aux_lives = [n \in Names |-> 0] /\ aux_was = {}

Edits(c) ==
    \/ list_presets(c) \/ OpensCard(c) \/ save_preset(c) \/ ReadsAgain(c) \/ SavesAgain(c)
    \/ \E n \in Names : delete_preset(c, n)

\* Each preset there is, as it is.
Now == {[name |-> n, character |-> load_preset(n).character] : n \in {m \in AllNames : load_preset(m) # None}}

Remembers == aux_was' = IF start' = None THEN {} ELSE aux_was \cup Now'

LibraryNext ==
    \/ \E c \in Editors : Edits(c) /\ Remembers
    \/ \E s \in Scenarios : (put_scenario(s) \/ delete_scenario(s)) /\ Remembers
    \/ load_scenario /\ Remembers
    \/ ReadPreset /\ Remembers
    \/ AsksLinks /\ Remembers
    \/ ChecksLink /\ Remembers
    \/ SavesSession /\ Remembers

LibrarySpec == LibraryInit /\ [][LibraryNext]_libraryVars

-----------------------------------------------------------------------------
(* Properties *)

\* Who replaces or deletes a preset has read what is lost by it, in the card, in
\* the list or, fetched and not shown to anybody, for a confirmed save: a revision
\* stands for its contents.  Not across a deletion: a preset made anew starts at
\* revision 1 again, and a card or a list of its former life is accepted.
ReplacesWhatWasRead ==
    [][\A n \in Names : presets[n] # None /\ presets'[n] # presets[n] =>
         \E c \in Editors :
           LET read == IF presets'[n] = None THEN clients[c].listed[n]
                       ELSE IF clients[c].step = "confirmed" THEN clients[c].again ELSE clients[c].card.seen
           IN  clients'[c] # clients[c] /\ (read.life = aux_lives[n] => read.preset = presets[n])]_libraryVars

\* A session that is made links no one outside its cast, no preset twice and only
\* presets that were there at some moment of its start.  A cast that was read is the
\* whole of its scenario's, each character as its preset was at some such moment,
\* though presets are read one by one and may be saved, deleted or made anew between
\* two reads.  Not that the cast is of one moment; and somebody in a cast of the
\* request's own may be linked to nothing.
CastIsWhole ==
    [][session = None /\ session' # None =>
         LET links == session'.links
             cast == session'.cast
         IN  /\ DOMAIN links \subseteq DOMAIN cast /\ IsInjective(links)
             /\ \A id \in DOMAIN links : \E was \in aux_was : was.name = links[id]
             /\ start.reads # Nothing =>
                  /\ DOMAIN cast = DOMAIN start.reads
                  /\ \A id \in DOMAIN cast : [name |-> start.reads[id], character |-> cast[id]] \in aux_was]_libraryVars
=============================================================================
