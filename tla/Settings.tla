------------------------------ MODULE Settings ------------------------------
(***************************************************************************)
(* The LLM configuration: config.json, what the server process made of it   *)
(* when it came up, and the clients that read it, edit what they read and    *)
(* save the whole of it back, over restarts and crashes of the server, with  *)
(* plugins that register providers of their own while the server boots.      *)
(***************************************************************************)
EXTENDS FiniteSets

CONSTANTS
    Clients,
    BuiltIn, Plugged,  \* providers: the server's own, and the plugins'
    Initial,           \* DEFAULT_CONFIG's active provider
    Secretive,         \* those that require a key when active
    Lax,               \* plugin adapters that have no endpoint policy
    Tuned,             \* bound: the providers whose address a client edits
    Keys,
    Absent, NoKey

ASSUME SettingsAssumption ==
    /\ Initial \in BuiltIn \ Secretive
    /\ BuiltIn \cap Plugged = {} /\ Secretive \subseteq BuiltIn \cup Plugged /\ Lax \subseteq Plugged
    /\ Tuned \subseteq BuiltIn \cup Plugged
    /\ NoKey \notin Keys

VARIABLES
    file,        \* config.json, or Absent
    proc,        \* the server process: "off", "prepared", "plugged", "up" or "refused"
    registered,  \* _ADAPTERS
    enabled,     \* the providers whose plugins the next boot activates
    stored,      \* runtime.stored_config
    running,     \* the provider runtime.runner calls, with its settings and key
    lock,        \* runtime.config_lock
    op           \* what each client has read, what it saves, and how far that is

vars == <<file, proc, registered, enabled, stored, running, lock, op>>

Providers == BuiltIn \cup Plugged
Free == "free"

\* A provider's section: where it is reached, which stands for all that is tuned
\* in it, and its key.  "foreign" is a target its policy refuses.
Section == [base : {"default", "own", "foreign"}, key : Keys \cup {NoKey}]
Default == [base |-> "default", key |-> NoKey]
Config == [active : Providers, sections : UNION {[S -> Section] : S \in SUBSET Providers}]
Resolution == [provider : Providers, section : Section]

ASSUME NameAssumption ==
    Free \notin Clients /\ Absent \notin Config /\ Absent \notin Resolution

SectionOf(c, p) == IF p \in DOMAIN c.sections THEN c.sections[p] ELSE Default

\* What validate_config makes of c: a section for every registered provider and
\* for no other.
Canonical(c) == [c EXCEPT !.sections = [p \in registered |-> SectionOf(c, p)]]

\* A provider is reached at its own hosts, or at home: never anywhere else.
Allowed(p, section) == p \notin Lax /\ section.base # "foreign"

Valid(c) ==
    /\ c.active \in registered
    /\ \A p \in registered : Allowed(p, SectionOf(c, p))
    /\ c.active \in Secretive => SectionOf(c, c.active).key # NoKey

\* resolve_active_config
Resolved(c) == [provider |-> c.active, section |-> SectionOf(c, c.active)]

\* public_config: what a client gets to see has no keys.
Public(c) == [active |-> c.active,
              sections |-> [p \in registered |-> [SectionOf(c, p) EXCEPT !.key = NoKey]]]

\* DEFAULT_CONFIG, made when the module is imported: no plugin has registered yet.
DefaultConfig == [active |-> Initial, sections |-> [p \in BuiltIn |-> Default]]

Idle == [step |-> "idle", seen |-> Absent, sent |-> Absent]
At(c, step) == op[c].step = step

\* A server that is up has read a configuration, and only a put in progress
\* holds the lock.
TypeOK ==
    /\ file \in Config \cup {Absent} /\ stored \in Config \cup {Absent}
    /\ proc \in {"off", "prepared", "plugged", "up", "refused"}
    /\ BuiltIn \subseteq registered /\ registered \subseteq Providers
    /\ enabled \subseteq Plugged
    /\ proc = "up" => file # Absent /\ stored # Absent /\ running # Absent
    /\ \A c \in Clients : op[c].step \in {"idle", "sent", "written", "switched"}
    /\ \A c \in Clients : lock = c <=> op[c].step \in {"written", "switched"}

-----------------------------------------------------------------------------
(* The server comes up *)

\* What a dead process had under way, and the lock it held, are gone; what the
\* clients have read is still on their screens.
Off ==
    /\ proc' = "off" /\ registered' = BuiltIn /\ stored' = Absent /\ running' = Absent
    /\ lock' = Free
    /\ op' = [c \in Clients |-> [Idle EXCEPT !.seen = op[c].seen]]

\* load_config: the defaults are written where there is no file.  A file that
\* does not validate takes the process down with it.
load_config ==
    /\ proc = "off"
    /\ \/ /\ file = Absent
          /\ file' = DefaultConfig /\ stored' = DefaultConfig /\ proc' = "prepared"
       \/ /\ file # Absent /\ Valid(file)
          /\ stored' = Canonical(file) /\ proc' = "prepared"
          /\ UNCHANGED file
       \/ /\ file # Absent /\ ~Valid(file)
          /\ proc' = "refused"
          /\ UNCHANGED <<file, stored>>
    /\ UNCHANGED <<registered, enabled, running, lock, op>>

\* plugins.boot: the adapters of the enabled plugins, of those that load.
PluginsBoot ==
    /\ proc = "prepared"
    /\ \E loaded \in SUBSET enabled : registered' = BuiltIn \cup loaded
    /\ proc' = "plugged"
    /\ UNCHANGED <<file, enabled, stored, running, lock, op>>

\* The configuration is resolved once the plugins have registered.
ComesUp ==
    /\ proc = "plugged"
    /\ IF Valid(stored) THEN proc' = "up" /\ running' = Resolved(stored)
                        ELSE proc' = "refused" /\ UNCHANGED running
    /\ UNCHANGED <<file, registered, enabled, stored, lock, op>>

\* The supervisor replaces the process when a client asks for it, once the
\* requests in progress are through.
Restart == proc = "up" /\ (\A c \in Clients : At(c, "idle")) /\ Off /\ UNCHANGED <<file, enabled>>

\* It ends with a process that ended by itself, and is started again by hand.
Crash == proc # "off" /\ Off /\ UNCHANGED <<file, enabled>>

\* A plugin with a provider is activated or deactivated, for the next boot.
ActivatePlugin(p) ==
    /\ proc = "up"
    /\ enabled' = (enabled \ {p}) \cup ({p} \ enabled)
    /\ UNCHANGED <<file, proc, registered, stored, running, lock, op>>

-----------------------------------------------------------------------------
(* A client reads, edits and saves *)

get_runtime_config(c) ==
    /\ proc = "up" /\ At(c, "idle")
    /\ op' = [op EXCEPT ![c].seen = Public(stored)]
    /\ UNCHANGED <<file, proc, registered, enabled, stored, running, lock>>

\* The form is what was read, with another provider chosen or one of its
\* sections edited; the fields of the keys are blank unless one is typed.
Submits(c) ==
    /\ proc = "up" /\ At(c, "idle") /\ op[c].seen # Absent
    /\ \E p \in DOMAIN op[c].seen.sections :
       \E key \in IF p \in Secretive THEN Keys \cup {NoKey} ELSE {NoKey},
          base \in {op[c].seen.sections[p].base} \cup IF p \in Tuned THEN {"own", "foreign"} ELSE {},
          active \in {op[c].seen.active, p} :
         op' = [op EXCEPT ![c].step = "sent",
                          ![c].sent = [active |-> active,
                                       sections |-> [op[c].seen.sections EXCEPT ![p] = [base |-> base, key |-> key]]]]
    /\ UNCHANGED <<file, proc, registered, enabled, stored, running, lock>>

\* A blank key of a provider the update names stands for the key in the file.
Merged(sent, current) ==
    [sent EXCEPT !.sections = [p \in DOMAIN @ |->
        IF p \in registered /\ @[p].key = NoKey
        THEN [@[p] EXCEPT !.key = SectionOf(current, p).key]
        ELSE @[p]]]

\* Mutant: the keys are taken from the configuration the server booted with.
merge_config_update_fromLive(c) ==
    LET merged == Merged(op[c].sent, stored)
    IN  /\ At(c, "sent") /\ lock = Free
        /\ IF Valid(merged)
           THEN /\ file' = Canonical(merged)
                /\ lock' = c /\ op' = [op EXCEPT ![c].step = "written", ![c].sent = file']
           ELSE /\ op' = [op EXCEPT ![c].step = "idle", ![c].sent = Absent]
                /\ UNCHANGED <<file, lock>>
        /\ UNCHANGED <<proc, registered, enabled, stored, running>>

\* Mutant: what was submitted is saved as it is.
merge_config_update_unvalidated(c) ==
    /\ At(c, "sent") /\ lock = Free
    /\ file' = Canonical(Merged(op[c].sent, file))
    /\ lock' = c /\ op' = [op EXCEPT ![c].step = "written", ![c].sent = file']
    /\ UNCHANGED <<proc, registered, enabled, stored, running>>

\* The file is read and validated, merged and replaced, or the update is refused.
merge_config_update(c) ==
    LET merged == Merged(op[c].sent, file)
    IN  /\ At(c, "sent") /\ lock = Free
        /\ IF Valid(file) /\ Valid(merged)
           THEN /\ file' = Canonical(merged)
                /\ lock' = c /\ op' = [op EXCEPT ![c].step = "written", ![c].sent = file']
           ELSE /\ op' = [op EXCEPT ![c].step = "idle", ![c].sent = Absent]
                /\ UNCHANGED <<file, lock>>
        /\ UNCHANGED <<proc, registered, enabled, stored, running>>

\* Mutant: the lock is given back before the runner is replaced.
SwitchStored_unlocked(c) ==
    /\ At(c, "written")
    /\ stored' = op[c].sent
    /\ lock' = Free
    /\ op' = [op EXCEPT ![c].step = "switched"]
    /\ UNCHANGED <<file, proc, registered, enabled, running>>

\* What was saved becomes what the next read sees.
SwitchStored(c) ==
    /\ At(c, "written")
    /\ stored' = op[c].sent
    /\ op' = [op EXCEPT ![c].step = "switched"]
    /\ UNCHANGED <<file, proc, registered, enabled, running, lock>>

\* The next turn calls it, and the client is told.
SwitchRunner(c) ==
    /\ At(c, "switched")
    /\ running' = Resolved(op[c].sent)
    /\ lock' = Free
    /\ op' = [op EXCEPT ![c] = [Idle EXCEPT !.seen = Public(op[c].sent)]]
    /\ UNCHANGED <<file, proc, registered, enabled, stored>>

-----------------------------------------------------------------------------

Init ==
    /\ file = Absent /\ proc = "off" /\ registered = BuiltIn /\ enabled = {}
    /\ stored = Absent /\ running = Absent
    /\ lock = Free /\ op = [c \in Clients |-> Idle]

Client(c) ==
    \/ get_runtime_config(c) \/ Submits(c)
    \/ merge_config_update(c) \/ SwitchStored(c) \/ SwitchRunner(c)

Next ==
    \/ load_config \/ PluginsBoot \/ ComesUp \/ Restart \/ Crash
    \/ \E p \in Plugged : ActivatePlugin(p)
    \/ \E c \in Clients : Client(c)

Spec == Init /\ [][Next]_vars

-----------------------------------------------------------------------------
(* Properties *)

\* Between saves the server calls the provider that the file says, where the
\* file says and with its key, and shows the server's own providers as the file
\* has them: put_runtime_config replaces file, configuration and runner one after
\* the other, crossed by other saves, crashes and boots with other plugins.
RunsOnItsFile ==
    proc = "up" /\ lock = Free =>
        /\ running = Resolved(file)
        /\ stored.active = file.active
        /\ \A p \in BuiltIn : SectionOf(stored, p) = SectionOf(file, p)

\* The key a file holds for a provider the server knows goes only when a client
\* types another one or leaves the provider out of its form, however old that form
\* is and whatever the server was booted with: merge_config_update fills blanks.
KeysAreKept ==
    [][\A p \in registered :
         LET key(f) == IF f = Absent THEN NoKey ELSE SectionOf(f, p).key
         IN  key(file) \notin {NoKey, key(file')} =>
               \E c \in Clients : /\ At(c, "sent")
                                  /\ \/ p \notin DOMAIN op[c].sent.sections
                                     \/ op[c].sent.sections[p].key \in Keys \cap {key(file')}]_vars

\* Whatever was saved, whenever the process died: only a plugin's provider can
\* keep the server from coming up again, by being the active one, which is read
\* before plugins have registered, or by having no endpoint policy.
ComesUpAgain ==
    proc = "refused" => file.active \in Plugged \/ registered \cap Lax # {}
=============================================================================
