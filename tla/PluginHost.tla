----------------------------- MODULE PluginHost -----------------------------
(***************************************************************************)
(* The plugins of a running process: the boot that loads the active ones in  *)
(* dependency order, what their setup registers, and the calls the runner    *)
(* makes through them: filters, actions, the layers around a model call, and *)
(* the slash commands.  Several sessions call at once; a handler that raises *)
(* has its plugin disabled until the next boot, whoever was calling it.      *)
(***************************************************************************)
EXTENDS Integers, Sequences, FiniteSets

CONSTANTS
    Activated,       \* the active plugins, a sequence of ids in activation order
    Manifest,     \* of each id: [requires, wrong, priority, before, after]
    Setup,        \* of each id: the sequence of what its setup registers
    Names,        \* the slash names plugins ask for
    Builtin,      \* BUILTIN_COMMAND_NAMES
    Callers,      \* the sessions with a call in progress
    Attempts,     \* retries + 1
    MaxNext       \* bound: how often a wrapper calls what it wraps

Kinds == {"filter", "action", "wrapper"}

\* What a registration says of its own order: some of these, or nothing.
Ordered(order) ==
    /\ "priority" \in DOMAIN order => order["priority"] \in Int
    /\ "before" \in DOMAIN order => order["before"] \subseteq Nat
    /\ "after" \in DOMAIN order => order["after"] \subseteq Nat

Plugins == {Activated[k] : k \in DOMAIN Activated}

ASSUME HostAssumption ==
    /\ Activated \in Seq(Nat \ {0}) /\ \A i, j \in DOMAIN Activated : Activated[i] = Activated[j] => i = j
    /\ \A p \in Plugins :
         /\ Manifest[p].requires \subseteq Nat /\ Manifest[p].wrong \subseteq Manifest[p].requires
         /\ Manifest[p].priority \in Int /\ Manifest[p].before \subseteq Nat /\ Manifest[p].after \subseteq Nat
         /\ Setup[p] \in Seq({Setup[p][k] : k \in DOMAIN Setup[p]})
         /\ \A k \in DOMAIN Setup[p] :
              /\ Setup[p][k].kind \in Kinds \cup {"command"}
              /\ Setup[p][k].kind \in Kinds => Ordered(Setup[p][k].order)
    /\ Builtin \subseteq Names
    /\ Attempts \in Nat \ {0} /\ MaxNext \in Nat

VARIABLES
    manifests,      \* the active plugins whose manifest could be read
    pending,        \* those not yet loaded or given up
    loaded,
    disabled,       \* disabled_for_boot
    setup,          \* the plugin whose setup is running, and how much of it has
    registrations,  \* _registrations and _contributions
    owners,         \* _owners: who has each slash name, aliases included
    commands,       \* _commands: who answers to each slash name
    call,           \* what each session is calling
    log             \* of each session, whether its log holds an input without its result

hostVars == <<manifests, pending, loaded, disabled, setup, registrations, owners, commands, call, log>>
booted == <<manifests, pending, loaded, setup>>
registry == <<disabled, registrations, owners, commands>>

Nobody == 0
Core == -1
NoSetup == [plugin |-> Nobody, k |-> 0]
NoCall == [kind |-> "none", rest |-> <<>>, plugin |-> Nobody,
           stack |-> <<>>, signal |-> "none", answer |-> "none"]

TypeOK ==
    /\ loaded \cup disabled \cup pending = Plugins
    /\ pending \subseteq manifests /\ loaded \subseteq manifests
    /\ pending \cap (loaded \cup disabled) = {}
    /\ setup = NoSetup \/ setup.plugin \in pending
    /\ \A r \in registrations : r.plugin \in (loaded \ disabled) \cup {setup.plugin}
    /\ \A n \in Names : owners[n] \in (loaded \ disabled) \cup {setup.plugin, Core, Nobody}
    /\ \A n \in Names : commands[n] \in {owners[n], Nobody} \ {Core}
    /\ \A c \in Callers : call[c].stack # <<>> => call[c].kind = "wrapper"
    /\ \A c \in Callers : log[c] <=> call[c].kind = "command" /\ call[c].signal # "none"

-----------------------------------------------------------------------------
(* The order of a hook *)

Hook(regs, kind) == {r \in regs : r.kind = kind}

\* By before and after.
Precedes(m, r) == r.plugin \in m.before \/ m.plugin \in r.after

\* By priority, then id, then the order of registration.
Sooner(m, r) ==
    \/ m.priority > r.priority
    \/ m.priority = r.priority
       /\ \/ m.plugin < r.plugin
          \/ m.plugin = r.plugin /\ m.n <= r.n

\* Kahn's algorithm: those all of whose predecessors are done ...
Takeable(nodes, done) == {r \in nodes \ done : \A m \in nodes : Precedes(m, r) => m \in done}

\* ... are taken one by one, the soonest first, as long as there are any.
Taken(nodes, order, k) ==
    LET ready == Takeable(nodes, {order[i] : i \in 1..k - 1})
    IN  order[k] \in ready /\ \A m \in ready : Sooner(order[k], m)

\* The orders of all of them: one, or on a cycle none.
Orders(nodes) ==
    {order \in [1..Cardinality(nodes) -> nodes] : \A k \in 1..Cardinality(nodes) : Taken(nodes, order, k)}

Cyclic(regs, kind) == Orders(Hook(regs, kind)) = {}

ordered(kind) == CHOOSE order \in Orders(Hook(registrations, kind)) : TRUE

-----------------------------------------------------------------------------
(* Setup and boot *)

Later(p) == {Activated[k] : k \in {j \in DOMAIN Activated : \E i \in 1..j - 1 : Activated[i] = p}}

\* In the order it asks for itself or else the manifest's, where before is every
\* plugin activated later too.
Registration(p, k) ==
    LET order == Setup[p][k].order
        Or(field, value) == IF field \in DOMAIN order THEN order[field] ELSE value
    IN  [plugin |-> p, kind |-> Setup[p][k].kind, n |-> k,
         priority |-> Or("priority", Manifest[p].priority),
         before |-> Or("before", Manifest[p].before \cup Later(p)),
         after |-> Or("after", Manifest[p].after)]

\* Mutant: a registration that closes a cycle stays.
Registered_kept(regs, r) == regs \cup {r}

\* The one that closes a cycle is taken back.
Registered(regs, r) == IF Cyclic(regs \cup {r}, r.kind) THEN regs ELSE regs \cup {r}

\* The descriptor follows the schema, and its results are in a namespace of its own.
WellFormed(ask, p) == ask.schema = 2 /\ ask.result_kind \in {Core, p}

\* A command takes its name and its aliases, or raises.
CommandRegistered(p, ask) ==
    LET names == {ask.name} \cup ask.aliases
    IN  IF ~WellFormed(ask, p) \/ (\E n \in names : owners[n] # Nobody)
        THEN UNCHANGED <<owners, commands>>
        ELSE /\ owners' = [n \in Names |-> IF n \in names THEN p ELSE owners[n]]
             /\ commands' = [commands EXCEPT ![ask.name] = p]

\* Mutant: only what a setup that failed had registered is removed.
Without_registered(regs, p) == IF p \in loaded THEN regs ELSE {r \in regs : r.plugin # p}

Without(regs, p) == {r \in regs : r.plugin # p}

Freed(names, p) == [n \in Names |-> IF names[n] = p THEN Nobody ELSE names[n]]

\* What p has registered is removed.
disable_for_boot(p) ==
    /\ disabled' = disabled \cup {p}
    /\ registrations' = Without(registrations, p)
    /\ owners' = Freed(owners, p)
    /\ commands' = Freed(commands, p)

\* The next thing a setup asks for.  What raises may be caught by the plugin.  What a
\* plugin registers later, through a context it kept, is left out.
Asks ==
    /\ setup # NoSetup /\ setup.k < Len(Setup[setup.plugin])
    /\ LET k == setup.k + 1
           ask == Setup[setup.plugin][k]
       IN  \/ /\ ask.kind = "command"
              /\ CommandRegistered(setup.plugin, ask)
              /\ UNCHANGED registrations
           \/ /\ ask.kind # "command"
              /\ registrations' = Registered(registrations, Registration(setup.plugin, k))
              /\ UNCHANGED <<owners, commands>>
    /\ setup' = [setup EXCEPT !.k = @ + 1]
    /\ UNCHANGED <<manifests, pending, loaded, disabled, call, log>>

\* The setup runs to its end, or raises after some of it.
Load ==
    /\ setup # NoSetup
    /\ \/ /\ setup.k = Len(Setup[setup.plugin])
          /\ loaded' = loaded \cup {setup.plugin}
          /\ UNCHANGED registry
       \/ /\ disable_for_boot(setup.plugin)
          /\ UNCHANGED loaded
    /\ pending' = pending \ {setup.plugin}
    /\ setup' = NoSetup
    /\ UNCHANGED <<manifests, call, log>>

Refused(p) ==
    \/ Manifest[p].requires \ manifests # {}
    \/ Manifest[p].wrong \cap manifests # {}

\* The first plugin that can be decided on: refused, or set up once what it
\* requires is not pending.
TurnOf(p) == Refused(p) \/ Manifest[p].requires \cap pending = {}

BootTurn ==
    /\ setup = NoSetup
    /\ \E p \in pending :
         /\ TurnOf(p) /\ \A q \in pending : TurnOf(q) => p <= q
         /\ IF Refused(p)
            THEN pending' = pending \ {p} /\ disable_for_boot(p) /\ UNCHANGED setup
            ELSE setup' = [plugin |-> p, k |-> 0] /\ UNCHANGED <<pending, registry>>
    /\ UNCHANGED <<manifests, loaded, call, log>>

\* None can: those left require one another.  They have registered nothing yet.
GivesUp ==
    /\ setup = NoSetup
    /\ pending # {} /\ \A p \in pending : ~TurnOf(p)
    /\ pending' = {}
    /\ disabled' = disabled \cup pending
    /\ UNCHANGED <<manifests, loaded, setup, registrations, owners, commands, call, log>>

-----------------------------------------------------------------------------
(* Filters and actions *)

\* The layer i of a call, or what all of them wrap.
Frame(layers, i) == [layer |-> i, mode |-> IF i <= Len(layers) THEN "handler" ELSE "model", n |-> IF i <= Len(layers) THEN 0 ELSE 1]

\* The handlers are those registered when the call begins.
Begin(c) ==
    /\ pending = {} /\ call[c].kind = "none"
    /\ \E kind \in {"filter", "strict_filter", "action", "wrapper"} :
          LET called == ordered(IF kind = "strict_filter" THEN "filter" ELSE kind)
          IN  call' = [call EXCEPT ![c] = [NoCall EXCEPT !.kind = kind, !.rest = called,
                                             !.stack = IF kind = "wrapper" THEN <<Frame(called, 1)>> ELSE <<>>]]
    /\ UNCHANGED <<booted, registry, log>>

\* The first handler has had its turn.
Passed(k) == [k EXCEPT !.rest = Tail(@)]

\* filter, filter_strict, action.
HandlerReturns(c) ==
    /\ call[c].kind \in {"filter", "strict_filter", "action"} /\ call[c].rest # <<>>
    /\ call' = [call EXCEPT ![c] = Passed(@)]
    /\ UNCHANGED <<booted, registry, log>>

\* A strict filter raises with it.
HandlerRaises(c) ==
    /\ call[c].kind \in {"filter", "strict_filter", "action"} /\ call[c].rest # <<>>
    /\ disable_for_boot(Head(call[c].rest).plugin)
    /\ call' = [call EXCEPT ![c] = IF @.kind = "strict_filter" THEN NoCall ELSE Passed(@)]
    /\ UNCHANGED <<booted, log>>

-----------------------------------------------------------------------------
(* The layers around a model call *)

\* The top frame returns or raises to the nearest layer whose handler is running:
\* a layer that fell back only hands the result on.
Running(stack) == {j \in 1..Len(stack) - 1 : stack[j].mode = "handler"}

Nearest(stack) == IF Running(stack) = {} THEN 0
                  ELSE CHOOSE j \in Running(stack) : \A i \in Running(stack) : i <= j

Returned(k, signal) == [k EXCEPT !.stack = SubSeq(@, 1, Nearest(@)), !.signal = signal]

Top(c) == call[c].stack[Len(call[c].stack)]

InLayer(c) == call[c].stack # <<>> /\ Top(c).mode = "handler"

InModel(c) == call[c].stack # <<>> /\ Top(c).mode = "model"

\* A frame for what is below the top one.
Deeper(k) == [k EXCEPT !.stack = Append(@, Frame(k.rest, @[Len(@)].layer + 1)), !.signal = "none"]

\* The top frame tries once more.
Again(k) == [k EXCEPT !.stack[Len(k.stack)].n = @ + 1]

CallsNext(c) ==
    /\ InLayer(c) /\ Top(c).n < MaxNext
    /\ call' = [call EXCEPT ![c] = Deeper(Again(@))]
    /\ UNCHANGED <<booted, registry, log>>

\* With what it wraps called or not, failed or not.
LayerReturns(c) ==
    /\ InLayer(c)
    /\ call' = [call EXCEPT ![c] = Returned(@, "ok")]
    /\ UNCHANGED <<booted, registry, log>>

\* Mutant: an error goes through the layer.
FellBack_not(k) == Returned(k, "raise")

\* What it wraps is called again, without it.
FellBack(k) == Deeper([k EXCEPT !.stack[Len(k.stack)].mode = "fallback"])

\* An error of its own, one of what it wraps, or the request's cancellation: the
\* layer does not tell them apart.
LayerRaises(c) ==
    /\ InLayer(c)
    /\ disable_for_boot(call[c].rest[Top(c).layer].plugin)
    /\ call' = [call EXCEPT ![c] = FellBack(@)]
    /\ UNCHANGED <<booted, log>>

ModelAnswers(c) ==
    /\ InModel(c)
    /\ call' = [call EXCEPT ![c] = Returned([@ EXCEPT !.answer = "ok"], "ok")]
    /\ UNCHANGED <<booted, registry, log>>

\* chat_completion_json: a transient failure is tried again.
ModelRetried(c) ==
    /\ InModel(c) /\ Top(c).n < Attempts
    /\ call' = [call EXCEPT ![c] = Again(@)]
    /\ UNCHANGED <<booted, registry, log>>

\* The last attempt failed, the error is definitive, or the request was cancelled.
ModelFails(c) ==
    /\ InModel(c)
    /\ call' = [call EXCEPT ![c] = Returned([@ EXCEPT !.answer = "failed"], "raise")]
    /\ UNCHANGED <<booted, registry, log>>

\* The runner has its result.
End(c) ==
    /\ call[c].kind \notin {"none", "command"} /\ call[c].stack = <<>>
    /\ call[c].kind = "wrapper" \/ call[c].rest = <<>>
    /\ call' = [call EXCEPT ![c] = NoCall]
    /\ UNCHANGED <<booted, registry, log>>

-----------------------------------------------------------------------------
(* Slash commands *)

\* The command is looked up before the session's lock is taken: by the time it
\* runs its plugin may be disabled.
execute_command(c) ==
    /\ pending = {} /\ call[c].kind = "none"
    /\ \E n \in Names :
         /\ commands[n] # Nobody
         /\ call' = [call EXCEPT ![c] = [NoCall EXCEPT !.kind = "command", !.plugin = commands[n]]]
    /\ UNCHANGED <<booted, registry, log>>

\* The session is locked and read: what is asked is logged; or there is no session.
CommandBegins(c) ==
    /\ call[c].kind = "command" /\ call[c].signal = "none"
    /\ \/ /\ call' = [call EXCEPT ![c].signal = "logged"]
          /\ log' = [log EXCEPT ![c] = TRUE]
       \/ /\ call' = [call EXCEPT ![c] = NoCall]
          /\ UNCHANGED log
    /\ UNCHANGED <<booted, registry>>

\* The input is what the descriptor asks for, and the handler gets it.
CommandRuns(c) ==
    /\ call[c].kind = "command" /\ call[c].signal = "logged"
    /\ call' = [call EXCEPT ![c].signal = "running"]
    /\ UNCHANGED <<booted, registry, log>>

\* The input is refused; or the handler answers, raises, returns no object or is
\* cancelled, and its plugin is not disabled for it.  A result is logged.
CommandEnds(c) ==
    /\ call[c].kind = "command" /\ call[c].signal \in {"logged", "running"}
    /\ call' = [call EXCEPT ![c] = NoCall]
    /\ log' = [log EXCEPT ![c] = FALSE]
    /\ UNCHANGED <<booted, registry>>

-----------------------------------------------------------------------------
HostInit ==
    /\ manifests \in SUBSET Plugins
    /\ pending = manifests
    /\ loaded = {}
    /\ disabled = Plugins \ manifests
    /\ setup = NoSetup
    /\ registrations = {}
    /\ owners = [n \in Names |-> IF n \in Builtin THEN Core ELSE Nobody]
    /\ commands = [n \in Names |-> Nobody]
    /\ call = [c \in Callers |-> NoCall]
    /\ log = [c \in Callers |-> FALSE]

HostNext ==
    \/ BootTurn \/ GivesUp \/ Asks \/ Load
    \/ \E c \in Callers :
        \/ Begin(c) \/ HandlerReturns(c) \/ HandlerRaises(c) \/ End(c)
        \/ CallsNext(c) \/ LayerReturns(c) \/ LayerRaises(c)
        \/ ModelAnswers(c) \/ ModelRetried(c) \/ ModelFails(c)
        \/ execute_command(c) \/ CommandBegins(c) \/ CommandRuns(c) \/ CommandEnds(c)

HostSpec == HostInit /\ [][HostNext]_hostVars

-----------------------------------------------------------------------------
(* Properties *)

\* A hook can always be called: no order of setups, of registrations refused and
\* of plugins disabled leaves handlers whose before and after form a cycle, which
\* would fail every turn (ordered).
HooksHaveAnOrder == \A kind \in Kinds : ~Cyclic(registrations, kind)

\* "... and continues clean": a model call that fails through its layers failed
\* because the model did, last of all; no plugin's error reaches the turn
\* (call_wrapped).
FailureIsTheModels ==
    \A c \in Callers :
        call[c].kind = "wrapper" /\ call[c].stack = <<>> /\ call[c].signal = "raise" => call[c].answer = "failed"
=============================================================================
