--------------------------- MODULE Settings_proofs ---------------------------
(***************************************************************************)
(* Theorems about the LLM configuration, for every set of clients, of      *)
(* providers and of keys, and whichever of the providers are active,       *)
(* require a key or have no endpoint policy; and, in its second part, about *)
(* the library of presets and scenarios, for any number of each and of those *)
(* who edit them.  The two components share nothing but this module.         *)
(***************************************************************************)
EXTENDS Settings, Library, TLAPS

-----------------------------------------------------------------------------
(* The inductive invariant *)

Op == [step : {"idle", "sent", "written", "switched"},
       seen : Config \cup {Absent}, sent : Config \cup {Absent}]

SettingsTypes ==
    /\ file \in Config \cup {Absent} /\ stored \in Config \cup {Absent}
    /\ proc \in {"off", "prepared", "plugged", "up", "refused"}
    /\ BuiltIn \subseteq registered /\ registered \subseteq Providers
    /\ enabled \subseteq Plugged
    /\ lock \in Clients \cup {Free}
    /\ op \in [Clients -> Op]

\* Only a server that is up has requests in progress, and its lock is held from
\* the replacement of the file to that of the runner.
SavesInProgress ==
    \A c \in Clients :
        /\ ~At(c, "idle") => proc = "up" /\ op[c].sent \in Config
        /\ lock = c <=> At(c, "written") \/ At(c, "switched")
        /\ At(c, "written") \/ At(c, "switched") => op[c].sent = file
        /\ At(c, "switched") => stored = file

\* The server's own providers are as the file has them.
Shows(config) ==
    /\ config.active = file.active
    /\ \A p \in BuiltIn : SectionOf(config, p) = SectionOf(file, p)

\* What was saved was valid for more providers than the server's own: those are
\* reached where they may be, and the active one has the key it requires.
FileSound ==
    file # Absent =>
        /\ \A p \in BuiltIn : Allowed(p, SectionOf(file, p))
        /\ file.active \in Secretive => SectionOf(file, file.active).key # NoKey

\* A server that is on its way up has read what it needs to know of its own
\* providers, one of which is the active one, and nothing of a plugin's.
OnItsWay ==
    proc \in {"prepared", "plugged"} =>
        /\ file # Absent /\ stored # Absent
        /\ Shows(stored)
        /\ file.active \in BuiltIn /\ DOMAIN stored.sections = BuiltIn

Up ==
    proc = "up" =>
        /\ file # Absent /\ stored # Absent /\ running # Absent
        /\ lock = Free => running = Resolved(file) /\ Shows(stored)

FreshlyOff == proc \in {"off", "prepared"} => registered = BuiltIn

SettingsInv ==
    /\ SettingsTypes /\ SavesInProgress /\ FileSound /\ OnItsWay /\ Up /\ FreshlyOff
    /\ ComesUpAgain

-----------------------------------------------------------------------------
(* Configurations *)

LEMMA SectionsType ==
  ASSUME NEW S \in SUBSET Providers, NEW f \in [S -> Section]
  PROVE  f \in UNION {[T -> Section] : T \in SUBSET Providers}
OBVIOUS

LEMMA ConfigFacts ==
  ASSUME NEW c \in Config
  PROVE  /\ c.active \in Providers
         /\ DOMAIN c.sections \subseteq Providers
         /\ c.sections \in [DOMAIN c.sections -> Section]
         /\ \A p : SectionOf(c, p) \in Section
         /\ c # Absent
<1>1. c.active \in Providers /\ c.sections \in UNION {[T -> Section] : T \in SUBSET Providers}
  BY DEF Config
<1>2. PICK T \in SUBSET Providers : c.sections \in [T -> Section] BY <1>1
<1>3. Default \in Section BY DEF Default, Section
<1>4. \A p : SectionOf(c, p) \in Section BY <1>2, <1>3 DEF SectionOf
<1> QED BY <1>1, <1>2, <1>4, NameAssumption

ConfigOf(active, sections) == [active |-> active, sections |-> sections]

LEMMA ConfigType ==
  ASSUME NEW active \in Providers, NEW S \in SUBSET Providers, NEW f \in [S -> Section]
  PROVE  ConfigOf(active, f) \in Config
BY SectionsType DEF ConfigOf, Config

LEMMA CanonicalFacts ==
  ASSUME NEW c \in Config, registered \subseteq Providers
  PROVE  /\ Canonical(c) \in Config
         /\ Canonical(c).active = c.active
         /\ DOMAIN Canonical(c).sections = registered
         /\ \A p \in registered : SectionOf(Canonical(c), p) = SectionOf(c, p)
<1> DEFINE f == [p \in registered |-> SectionOf(c, p)]
<1>1. f \in [registered -> Section] BY ConfigFacts
<1>2. Canonical(c) = [c EXCEPT !.sections = f] BY DEF Canonical
<1>3. Canonical(c).active = c.active /\ Canonical(c).sections = f
  BY <1>2 DEF Config
<1>4. Canonical(c) \in Config
  <2>1. c.active \in Providers BY ConfigFacts
  <2>2. Canonical(c) = ConfigOf(c.active, f) BY <1>2 DEF Config, ConfigOf
  <2> HIDE DEF f
  <2> QED BY <1>1, <2>1, <2>2, ConfigType
<1>5. \A p \in registered : SectionOf(Canonical(c), p) = SectionOf(c, p)
  BY <1>3 DEF SectionOf
<1> QED BY <1>3, <1>4, <1>5

LEMMA MergedFacts ==
  ASSUME NEW sent \in Config, NEW current \in Config
  PROVE  /\ Merged(sent, current) \in Config
         /\ Merged(sent, current).active = sent.active
         /\ DOMAIN Merged(sent, current).sections = DOMAIN sent.sections
         /\ \A p \in DOMAIN sent.sections \cap registered :
               SectionOf(Merged(sent, current), p).key =
                  IF sent.sections[p].key = NoKey THEN SectionOf(current, p).key ELSE sent.sections[p].key
<1> DEFINE S == DOMAIN sent.sections
           f == [p \in S |-> IF p \in registered /\ sent.sections[p].key = NoKey
                             THEN [sent.sections[p] EXCEPT !.key = SectionOf(current, p).key]
                             ELSE sent.sections[p]]
<1>1. /\ sent.active \in Providers /\ S \subseteq Providers
      /\ \A p \in S : sent.sections[p] \in Section
      /\ \A p : SectionOf(current, p) \in Section
  BY ConfigFacts
<1>2. \A p \in S : f[p] \in Section BY <1>1 DEF Section
<1>3. f \in [S -> Section] BY <1>2
<1>4. Merged(sent, current) = [sent EXCEPT !.sections = f] BY DEF Merged
<1> HIDE DEF S
<1>5. Merged(sent, current).active = sent.active /\ Merged(sent, current).sections = f
  BY <1>4 DEF Config
<1>6. \A p \in S \cap registered :
         f[p].key = IF sent.sections[p].key = NoKey THEN SectionOf(current, p).key ELSE sent.sections[p].key
  BY <1>1 DEF Section
<1>7. Merged(sent, current) = ConfigOf(sent.active, f) BY <1>4 DEF Config, ConfigOf
<1>8. DOMAIN f = S OBVIOUS
<1> HIDE DEF f
<1>9. Merged(sent, current) \in Config BY <1>1, <1>3, <1>7, ConfigType
<1>10. \A p \in S : SectionOf(Merged(sent, current), p) = f[p]
  BY <1>5, <1>8 DEF SectionOf
<1> QED BY <1>5, <1>6, <1>8, <1>9, <1>10 DEF S

LEMMA PublicType ==
  ASSUME NEW c \in Config, registered \subseteq Providers
  PROVE  Public(c) \in Config
<1> DEFINE f == [p \in registered |-> [SectionOf(c, p) EXCEPT !.key = NoKey]]
<1>1. c.active \in Providers /\ \A p : SectionOf(c, p) \in Section BY ConfigFacts
<1>2. \A p \in registered : [SectionOf(c, p) EXCEPT !.key = NoKey] \in Section BY <1>1 DEF Section
<1>3. f \in [registered -> Section] BY <1>2
<1>4. Public(c) = ConfigOf(c.active, f) BY DEF Public, ConfigOf
<1> HIDE DEF f
<1> QED BY <1>1, <1>3, <1>4, ConfigType

LEMMA ResolvedType ==
  ASSUME NEW c \in Config
  PROVE  Resolved(c) \in Resolution /\ Resolved(c) # Absent
<1>1. c.active \in Providers /\ SectionOf(c, c.active) \in Section BY ConfigFacts
<1>2. Resolved(c) \in Resolution BY <1>1 DEF Resolved, Resolution
<1> QED BY <1>2, NameAssumption

LEMMA DefaultFacts ==
  /\ DefaultConfig \in Config /\ DefaultConfig.active = Initial
  /\ DOMAIN DefaultConfig.sections = BuiltIn
  /\ \A p : SectionOf(DefaultConfig, p) = Default
  /\ Initial \in BuiltIn \ Secretive
<1> DEFINE f == [p \in BuiltIn |-> Default]
<1>1. Default \in Section BY DEF Default, Section
<1>2. f \in [BuiltIn -> Section] /\ BuiltIn \in SUBSET Providers BY <1>1 DEF Providers
<1>3. Initial \in BuiltIn \ Secretive /\ Initial \in Providers BY SettingsAssumption DEF Providers
<1>4. DefaultConfig = ConfigOf(Initial, f) BY DEF DefaultConfig, ConfigOf
<1>5. DefaultConfig.active = Initial /\ DefaultConfig.sections = f BY DEF DefaultConfig
<1>6. \A p : SectionOf(DefaultConfig, p) = Default BY <1>5 DEF SectionOf
<1>7. DefaultConfig \in Config
  <2> HIDE DEF f
  <2> QED BY <1>2, <1>3, <1>4, ConfigType
<1> QED BY <1>3, <1>5, <1>6, <1>7

-----------------------------------------------------------------------------
(* The server comes up *)

LEMMA OffKeeps ==
  ASSUME SettingsInv, Off, UNCHANGED <<file, enabled>>
  PROVE  SettingsInv'
<1>1. /\ proc' = "off" /\ registered' = BuiltIn /\ stored' = Absent /\ running' = Absent
      /\ lock' = Free /\ file' = file /\ enabled' = enabled
      /\ op' = [c \in Clients |-> [Idle EXCEPT !.seen = op[c].seen]]
  BY DEF Off
<1>2. SettingsTypes /\ FileSound BY DEF SettingsInv
<1>3. \A c \in Clients : /\ op'[c] = [step |-> "idle", seen |-> op[c].seen, sent |-> Absent]
                         /\ op[c].seen \in Config \cup {Absent}
  BY <1>1, <1>2 DEF Idle, SettingsTypes, Op
<1>4. op' \in [Clients -> Op]
  <2>1. \A seen \in Config \cup {Absent} : [step |-> "idle", seen |-> seen, sent |-> Absent] \in Op
    BY DEF Op
  <2>2. \A c \in Clients : op'[c] \in Op BY <1>3, <2>1
  <2> QED BY <1>1, <2>2
<1>5. SettingsTypes'
  BY <1>1, <1>2, <1>4 DEF SettingsTypes, Providers
<1>6. SavesInProgress'
  BY <1>1, <1>3, NameAssumption DEF SavesInProgress, At
<1>7. FileSound' BY <1>1, <1>2 DEF FileSound, SectionOf, Allowed
<1>8. OnItsWay' /\ Up' /\ FreshlyOff' /\ ComesUpAgain'
  BY <1>1 DEF OnItsWay, Up, FreshlyOff, ComesUpAgain
<1> QED BY <1>5, <1>6, <1>7, <1>8 DEF SettingsInv

LEMMA LoadKeeps ==
  ASSUME SettingsInv, load_config
  PROVE  SettingsInv'
<1>1. /\ proc = "off" /\ UNCHANGED <<registered, enabled, running, lock, op>>
      /\ SettingsTypes /\ SavesInProgress /\ FileSound /\ registered = BuiltIn
  BY DEF load_config, SettingsInv, FreshlyOff
<1>2. /\ file \in Config \cup {Absent} /\ registered \subseteq Providers /\ BuiltIn \subseteq Providers
  BY <1>1 DEF SettingsTypes, Providers
<1>3. \A c \in Clients : At(c, "idle") /\ lock # c
  BY <1>1 DEF SavesInProgress, At
<1>4. SavesInProgress'
  BY <1>1, <1>3 DEF SavesInProgress, At
<1>5. CASE file = Absent /\ file' = DefaultConfig /\ stored' = DefaultConfig /\ proc' = "prepared"
  <2>1. DefaultConfig # Absent BY DefaultFacts, ConfigFacts
  <2>2. SettingsTypes' BY <1>1, <1>5, DefaultFacts DEF SettingsTypes
  <2>3. \A p \in BuiltIn : Allowed(p, Default)
    BY SettingsAssumption DEF Allowed, Default
  <2>4. FileSound' BY <1>5, <2>3, DefaultFacts DEF FileSound
  <2>5. OnItsWay' BY <1>5, <2>1, DefaultFacts DEF OnItsWay, Shows
  <2>6. Up' /\ FreshlyOff' /\ ComesUpAgain'
    BY <1>1, <1>5 DEF Up, FreshlyOff, ComesUpAgain
  <2> QED BY <1>4, <2>2, <2>4, <2>5, <2>6 DEF SettingsInv
<1>6. CASE file # Absent /\ Valid(file) /\ stored' = Canonical(file) /\ proc' = "prepared" /\ file' = file
  <2>1. file \in Config BY <1>2, <1>6
  <2>2. /\ Canonical(file) \in Config /\ Canonical(file).active = file.active
        /\ DOMAIN Canonical(file).sections = registered
        /\ \A p \in registered : SectionOf(Canonical(file), p) = SectionOf(file, p)
    BY <1>2, <2>1, CanonicalFacts
  <2>3. Canonical(file) # Absent BY <2>2, ConfigFacts
  <2>4. file.active \in BuiltIn BY <1>1, <1>6 DEF Valid
  <2>5. SettingsTypes' BY <1>1, <1>6, <2>2 DEF SettingsTypes
  <2>6. FileSound' BY <1>1, <1>6 DEF FileSound, SectionOf, Allowed
  <2>7. OnItsWay' BY <1>1, <1>6, <2>2, <2>3, <2>4 DEF OnItsWay, Shows
  <2>8. Up' /\ FreshlyOff' /\ ComesUpAgain'
    BY <1>1, <1>6 DEF Up, FreshlyOff, ComesUpAgain
  <2> QED BY <1>4, <2>5, <2>6, <2>7, <2>8 DEF SettingsInv
<1>7. CASE file # Absent /\ ~Valid(file) /\ proc' = "refused" /\ file' = file /\ stored' = stored
  <2>1. file \in Config BY <1>2, <1>7
  <2>2. file.active \in BuiltIn \cup Plugged BY <2>1, ConfigFacts DEF Providers
  <2>3. file.active \notin BuiltIn
    BY <1>1, <1>7 DEF Valid, FileSound
  <2>4. ComesUpAgain' BY <1>7, <2>2, <2>3 DEF ComesUpAgain
  <2>5. SettingsTypes' BY <1>1, <1>7 DEF SettingsTypes
  <2>6. FileSound' BY <1>1, <1>7 DEF FileSound, SectionOf, Allowed
  <2>7. OnItsWay' /\ Up' /\ FreshlyOff' BY <1>7 DEF OnItsWay, Up, FreshlyOff
  <2> QED BY <1>4, <2>4, <2>5, <2>6, <2>7 DEF SettingsInv
<1> QED BY <1>5, <1>6, <1>7 DEF load_config

LEMMA PluginsKeep ==
  ASSUME SettingsInv, PluginsBoot
  PROVE  SettingsInv'
<1>1. /\ proc = "prepared" /\ proc' = "plugged"
      /\ UNCHANGED <<file, enabled, stored, running, lock, op>>
      /\ SettingsTypes /\ SavesInProgress /\ FileSound /\ OnItsWay
  BY DEF PluginsBoot, SettingsInv
<1>2. PICK loaded \in SUBSET enabled : registered' = BuiltIn \cup loaded BY DEF PluginsBoot
<1>3. SettingsTypes' BY <1>1, <1>2 DEF SettingsTypes, Providers
<1>4. \A c \in Clients : At(c, "idle") /\ lock # c
  BY <1>1 DEF SavesInProgress, At
<1>5. SavesInProgress' BY <1>1, <1>4 DEF SavesInProgress, At
<1>6. FileSound' BY <1>1 DEF FileSound, SectionOf, Allowed
<1>7. OnItsWay' BY <1>1 DEF OnItsWay, Shows, SectionOf
<1>8. Up' /\ FreshlyOff' /\ ComesUpAgain' BY <1>1 DEF Up, FreshlyOff, ComesUpAgain
<1> QED BY <1>3, <1>5, <1>6, <1>7, <1>8 DEF SettingsInv

LEMMA ComesUpKeeps ==
  ASSUME SettingsInv, ComesUp
  PROVE  SettingsInv'
<1>1. /\ proc = "plugged" /\ UNCHANGED <<file, registered, enabled, stored, lock, op>>
      /\ SettingsTypes /\ SavesInProgress /\ FileSound /\ OnItsWay
  BY DEF ComesUp, SettingsInv
<1>2. /\ file # Absent /\ stored # Absent /\ Shows(stored)
      /\ file.active \in BuiltIn /\ DOMAIN stored.sections = BuiltIn
  BY <1>1 DEF OnItsWay
<1>3. stored \in Config /\ BuiltIn \subseteq registered BY <1>1, <1>2 DEF SettingsTypes
<1>4. proc' \in {"up", "refused"} BY DEF ComesUp
<1>5. SettingsTypes' BY <1>1, <1>4 DEF SettingsTypes
<1>6. \A c \in Clients : At(c, "idle") /\ lock # c
  BY <1>1 DEF SavesInProgress, At
<1>7. SavesInProgress' BY <1>1, <1>6 DEF SavesInProgress, At
<1>8. FileSound' BY <1>1 DEF FileSound, SectionOf, Allowed
<1>9. OnItsWay' /\ FreshlyOff' BY <1>4 DEF OnItsWay, FreshlyOff
<1>10. CASE Valid(stored)
  <2>1. proc' = "up" /\ running' = Resolved(stored) BY <1>10 DEF ComesUp
  <2>2. Resolved(stored) # Absent BY <1>3, ResolvedType
  <2>3. Resolved(stored) = Resolved(file) BY <1>2 DEF Resolved, Shows
  <2>4. Shows(stored)' BY <1>1, <1>2 DEF Shows, SectionOf
  <2>5. Up'
    <3>1. Resolved(file)' = Resolved(file) BY <1>1 DEF Resolved, SectionOf
    <3> QED BY <1>1, <1>2, <2>1, <2>2, <2>3, <2>4, <3>1 DEF Up
  <2>6. ComesUpAgain' BY <2>1 DEF ComesUpAgain
  <2> QED BY <1>5, <1>7, <1>8, <1>9, <2>5, <2>6 DEF SettingsInv
<1>11. CASE ~Valid(stored)
  <2>1. proc' = "refused" /\ running' = running BY <1>11 DEF ComesUp
  <2>2. stored.active \in registered BY <1>2, <1>3 DEF Shows
  <2>3. \A p \in BuiltIn : Allowed(p, SectionOf(stored, p))
    BY <1>1, <1>2 DEF FileSound, Shows
  <2>4. stored.active \in Secretive => SectionOf(stored, stored.active).key # NoKey
    BY <1>1, <1>2 DEF FileSound, Shows
  <2>5. PICK p \in registered : ~Allowed(p, SectionOf(stored, p))
    BY <1>11, <2>2, <2>4 DEF Valid
  <2>6. p \notin BuiltIn BY <2>3, <2>5
  <2>7. SectionOf(stored, p) = Default BY <1>2, <2>6 DEF SectionOf
  <2>8. p \in Lax BY <2>5, <2>7 DEF Allowed, Default
  <2>9. ComesUpAgain' BY <1>1, <2>8 DEF ComesUpAgain
  <2>10. Up' BY <2>1 DEF Up
  <2> QED BY <1>5, <1>7, <1>8, <1>9, <2>9, <2>10 DEF SettingsInv
<1> QED BY <1>10, <1>11

LEMMA ActivateKeeps ==
  ASSUME SettingsInv, NEW p \in Plugged, ActivatePlugin(p)
  PROVE  SettingsInv'
<1>1. /\ UNCHANGED <<file, proc, registered, stored, running, lock, op>>
      /\ enabled' = (enabled \ {p}) \cup ({p} \ enabled)
  BY DEF ActivatePlugin
<1>2. SettingsTypes' BY <1>1 DEF SettingsInv, SettingsTypes
<1>3. SavesInProgress' /\ FileSound' /\ OnItsWay' /\ Up' /\ FreshlyOff' /\ ComesUpAgain'
  BY <1>1 DEF SettingsInv, SavesInProgress, FileSound, OnItsWay, Up, FreshlyOff, ComesUpAgain,
              At, Shows, SectionOf, Allowed, Resolved
<1> QED BY <1>2, <1>3 DEF SettingsInv

-----------------------------------------------------------------------------
(* A client reads, edits and saves *)

\* What a step of one client leaves alone of the others.
Only(c) == \A d \in Clients \ {c} : op'[d] = op[d]

LEMMA ReadKeeps ==
  ASSUME SettingsInv, NEW c \in Clients, get_runtime_config(c)
  PROVE  SettingsInv'
<1>1. /\ proc = "up" /\ At(c, "idle")
      /\ op' = [op EXCEPT ![c].seen = Public(stored)]
      /\ UNCHANGED <<file, proc, registered, enabled, stored, running, lock>>
      /\ SettingsTypes /\ SavesInProgress /\ Up
  BY DEF get_runtime_config, SettingsInv
<1>2. op[c] \in Op /\ op \in [Clients -> Op] BY <1>1 DEF SettingsTypes
<1>3. Public(stored) \in Config
  BY <1>1, PublicType DEF SettingsTypes, Up
<1>4. op'[c] \in Op /\ op'[c].step = op[c].step /\ op'[c].sent = op[c].sent /\ Only(c)
  BY <1>1, <1>2, <1>3 DEF Op, Only
<1>5. op' \in [Clients -> Op] BY <1>1, <1>2, <1>4 DEF Only
<1>6. SettingsTypes' BY <1>1, <1>5 DEF SettingsTypes
<1>7. SavesInProgress'
  BY <1>1, <1>4 DEF SavesInProgress, At, Only
<1>8. FileSound' /\ OnItsWay' /\ Up' /\ FreshlyOff' /\ ComesUpAgain'
  BY <1>1 DEF SettingsInv, FileSound, OnItsWay, Up, FreshlyOff, ComesUpAgain,
              Shows, SectionOf, Allowed, Resolved
<1> QED BY <1>6, <1>7, <1>8 DEF SettingsInv

LEMMA SubmitKeeps ==
  ASSUME SettingsInv, NEW c \in Clients, Submits(c)
  PROVE  SettingsInv'
<1>1. /\ proc = "up" /\ At(c, "idle") /\ op[c].seen # Absent
      /\ UNCHANGED <<file, proc, registered, enabled, stored, running, lock>>
      /\ SettingsTypes /\ SavesInProgress
  BY DEF Submits, SettingsInv
<1>2. op[c] \in Op /\ op \in [Clients -> Op] BY <1>1 DEF SettingsTypes
<1> DEFINE seen == op[c].seen
           S == DOMAIN seen.sections
<1>3. seen \in Config BY <1>1, <1>2 DEF Op
<1>4. /\ seen.active \in Providers /\ S \subseteq Providers /\ seen.sections \in [S -> Section]
  BY <1>3, ConfigFacts
<1>5. PICK p \in S :
        \E key \in IF p \in Secretive THEN Keys \cup {NoKey} ELSE {NoKey},
           base \in {seen.sections[p].base} \cup IF p \in Tuned THEN {"own", "foreign"} ELSE {},
           active \in {seen.active, p} :
          op' = [op EXCEPT ![c].step = "sent",
                           ![c].sent = [active |-> active,
                                        sections |-> [seen.sections EXCEPT ![p] = [base |-> base, key |-> key]]]]
  BY DEF Submits
<1>6. PICK key \in IF p \in Secretive THEN Keys \cup {NoKey} ELSE {NoKey},
           base \in {seen.sections[p].base} \cup IF p \in Tuned THEN {"own", "foreign"} ELSE {},
           active \in {seen.active, p} :
        op' = [op EXCEPT ![c].step = "sent",
                         ![c].sent = [active |-> active,
                                      sections |-> [seen.sections EXCEPT ![p] = [base |-> base, key |-> key]]]]
  BY <1>5
<1> DEFINE f == [seen.sections EXCEPT ![p] = [base |-> base, key |-> key]]
<1>7. [base |-> base, key |-> key] \in Section
  <2>1. seen.sections[p].base \in {"default", "own", "foreign"} BY <1>4 DEF Section
  <2>2. key \in Keys \cup {NoKey} BY <1>6
  <2>3. base \in {"default", "own", "foreign"} BY <1>6, <2>1
  <2> QED BY <2>2, <2>3 DEF Section
<1>8. f \in [S -> Section] BY <1>4, <1>7
<1>9. ConfigOf(active, f) \in Config
  <2>1. active \in Providers BY <1>4, <1>5, <1>6
  <2> HIDE DEF f, S
  <2> QED BY <1>4, <1>8, <2>1, ConfigType
<1>10. op' = [op EXCEPT ![c].step = "sent", ![c].sent = ConfigOf(active, f)]
  BY <1>6 DEF ConfigOf
<1> HIDE DEF f, S, seen
<1>11. op'[c] \in Op /\ op'[c].step = "sent" /\ op'[c].sent \in Config /\ Only(c)
  BY <1>2, <1>9, <1>10 DEF Op, Only
<1>12. op' \in [Clients -> Op] BY <1>2, <1>10, <1>11 DEF Only
<1>13. SettingsTypes' BY <1>1, <1>12 DEF SettingsTypes
<1>14. SavesInProgress'
  BY <1>1, <1>11 DEF SavesInProgress, At, Only
<1>15. FileSound' /\ OnItsWay' /\ Up' /\ FreshlyOff' /\ ComesUpAgain'
  BY <1>1 DEF SettingsInv, FileSound, OnItsWay, Up, FreshlyOff, ComesUpAgain,
              Shows, SectionOf, Allowed, Resolved
<1> QED BY <1>13, <1>14, <1>15 DEF SettingsInv

LEMMA SaveKeeps ==
  ASSUME SettingsInv, NEW c \in Clients, merge_config_update(c)
  PROVE  SettingsInv'
<1> DEFINE merged == Merged(op[c].sent, file)
<1>1. /\ At(c, "sent") /\ lock = Free
      /\ UNCHANGED <<proc, registered, enabled, stored, running>>
      /\ SettingsTypes /\ SavesInProgress /\ Up
  BY DEF merge_config_update, SettingsInv
<1>2. op[c] \in Op /\ op \in [Clients -> Op] BY <1>1 DEF SettingsTypes
<1>3. proc = "up" /\ op[c].sent \in Config /\ file \in Config
  BY <1>1 DEF SavesInProgress, At, Up, SettingsTypes
<1>4. merged \in Config BY <1>3, MergedFacts
<1> HIDE DEF merged
<1>5. \A d \in Clients : ~At(d, "written") /\ ~At(d, "switched")
  BY <1>1, NameAssumption DEF SavesInProgress
<1>6. CASE Valid(file) /\ Valid(merged)
  <2>1. /\ file' = Canonical(merged) /\ lock' = c
        /\ op' = [op EXCEPT ![c].step = "written", ![c].sent = file']
    BY <1>6 DEF merge_config_update, merged
  <2>2. /\ file' \in Config /\ file'.active = merged.active
        /\ \A p \in registered : SectionOf(file', p) = SectionOf(merged, p)
        /\ BuiltIn \subseteq registered
    BY <1>1, <1>4, <2>1, CanonicalFacts DEF SettingsTypes
  <2>3. op'[c] \in Op /\ op'[c].step = "written" /\ op'[c].sent = file' /\ Only(c)
    BY <1>2, <2>1, <2>2 DEF Op, Only
  <2>4. op' \in [Clients -> Op] BY <1>2, <2>1, <2>3 DEF Only
  <2>5. SettingsTypes' BY <1>1, <2>1, <2>2, <2>4 DEF SettingsTypes
  <2>6. SavesInProgress'
    BY <1>1, <1>3, <1>5, <2>1, <2>2, <2>3, NameAssumption DEF SavesInProgress, At, Only
  <2>7. FileSound'
    BY <1>6, <2>2 DEF FileSound, Valid
  <2>8. file' # Absent BY <2>2, ConfigFacts
  <2>9. lock' # Free BY <2>1, NameAssumption
  <2>10. OnItsWay' /\ Up' /\ FreshlyOff' /\ ComesUpAgain'
    BY <1>1, <1>3, <2>8, <2>9 DEF OnItsWay, Up, FreshlyOff, ComesUpAgain
  <2> QED BY <2>5, <2>6, <2>7, <2>10 DEF SettingsInv
<1>7. CASE ~(Valid(file) /\ Valid(merged))
  <2>1. /\ file' = file /\ lock' = lock
        /\ op' = [op EXCEPT ![c].step = "idle", ![c].sent = Absent]
    BY <1>7 DEF merge_config_update, merged
  <2>2. op'[c] \in Op /\ op'[c].step = "idle" /\ Only(c)
    BY <1>2, <2>1 DEF Op, Only
  <2>3. op' \in [Clients -> Op] BY <1>2, <2>1, <2>2 DEF Only
  <2>4. SettingsTypes' BY <1>1, <2>1, <2>3 DEF SettingsTypes
  <2>5. SavesInProgress'
    BY <1>1, <1>5, <2>1, <2>2, NameAssumption DEF SavesInProgress, At, Only
  <2>6. FileSound' /\ OnItsWay' /\ Up' /\ FreshlyOff' /\ ComesUpAgain'
    BY <1>1, <2>1 DEF SettingsInv, FileSound, OnItsWay, Up, FreshlyOff, ComesUpAgain,
                      Shows, SectionOf, Allowed, Resolved
  <2> QED BY <2>4, <2>5, <2>6 DEF SettingsInv
<1> QED BY <1>6, <1>7

LEMMA StoredKeeps ==
  ASSUME SettingsInv, NEW c \in Clients, SwitchStored(c)
  PROVE  SettingsInv'
<1>1. /\ At(c, "written") /\ stored' = op[c].sent
      /\ op' = [op EXCEPT ![c].step = "switched"]
      /\ UNCHANGED <<file, proc, registered, enabled, running, lock>>
      /\ SettingsTypes /\ SavesInProgress /\ Up
  BY DEF SwitchStored, SettingsInv
<1>2. op[c] \in Op /\ op \in [Clients -> Op] BY <1>1 DEF SettingsTypes
<1>3. proc = "up" /\ op[c].sent \in Config /\ op[c].sent = file /\ lock = c
  BY <1>1 DEF SavesInProgress, At
<1>4. op'[c] \in Op /\ op'[c].step = "switched" /\ op'[c].sent = op[c].sent /\ Only(c)
  BY <1>1, <1>2 DEF Op, Only
<1>5. op' \in [Clients -> Op] BY <1>1, <1>2, <1>4 DEF Only
<1>6. SettingsTypes' BY <1>1, <1>3, <1>5 DEF SettingsTypes
<1>7. SavesInProgress' BY <1>1, <1>3, <1>4 DEF SavesInProgress, At, Only
<1>8. lock # Free /\ stored' # Absent BY <1>1, <1>3, ConfigFacts, NameAssumption
<1>9. FileSound' /\ OnItsWay' /\ Up' /\ FreshlyOff' /\ ComesUpAgain'
  BY <1>1, <1>3, <1>8 DEF SettingsInv, FileSound, OnItsWay, Up, FreshlyOff, ComesUpAgain,
                          SectionOf, Allowed
<1> QED BY <1>6, <1>7, <1>9 DEF SettingsInv

LEMMA RunnerKeeps ==
  ASSUME SettingsInv, NEW c \in Clients, SwitchRunner(c)
  PROVE  SettingsInv'
<1>1. /\ At(c, "switched") /\ running' = Resolved(op[c].sent) /\ lock' = Free
      /\ op' = [op EXCEPT ![c] = [Idle EXCEPT !.seen = Public(op[c].sent)]]
      /\ UNCHANGED <<file, proc, registered, enabled, stored>>
      /\ SettingsTypes /\ SavesInProgress /\ Up
  BY DEF SwitchRunner, SettingsInv
<1>2. op \in [Clients -> Op] BY <1>1 DEF SettingsTypes
<1>3. proc = "up" /\ op[c].sent \in Config /\ op[c].sent = file /\ stored = file /\ lock = c
  BY <1>1 DEF SavesInProgress, At
<1>4. Public(op[c].sent) \in Config BY <1>1, <1>3, PublicType DEF SettingsTypes
<1>5. op'[c] = [step |-> "idle", seen |-> Public(op[c].sent), sent |-> Absent] /\ Only(c)
  BY <1>1, <1>2 DEF Idle, Only
<1>6. op'[c] \in Op /\ op'[c].step = "idle" BY <1>4, <1>5 DEF Op
<1>7. op' \in [Clients -> Op] BY <1>1, <1>2, <1>5, <1>6 DEF Only
<1>8. SettingsTypes' BY <1>1, <1>7 DEF SettingsTypes
<1>9. SavesInProgress'
  BY <1>1, <1>3, <1>5, <1>6, NameAssumption DEF SavesInProgress, At, Only
<1>10. FileSound' /\ OnItsWay' /\ FreshlyOff' /\ ComesUpAgain'
  BY <1>1, <1>3 DEF SettingsInv, FileSound, OnItsWay, FreshlyOff, ComesUpAgain, SectionOf, Allowed
<1>11. Up'
  <2>1. Resolved(op[c].sent) # Absent /\ file # Absent BY <1>3, ResolvedType, ConfigFacts
  <2>2. running' = Resolved(file)' BY <1>1, <1>3 DEF Resolved, SectionOf
  <2>3. Shows(stored)' BY <1>1, <1>3 DEF Shows, SectionOf
  <2> QED BY <1>1, <1>3, <2>1, <2>2, <2>3 DEF Up
<1> QED BY <1>8, <1>9, <1>10, <1>11 DEF SettingsInv

-----------------------------------------------------------------------------
(* The theorems *)

LEMMA SettingsInit ==
  ASSUME Init
  PROVE  SettingsInv
<1>1. /\ file = Absent /\ proc = "off" /\ registered = BuiltIn /\ enabled = {}
      /\ stored = Absent /\ running = Absent
      /\ lock = Free /\ op = [c \in Clients |-> Idle]
  BY DEF Init
<1>2. Idle \in Op BY DEF Idle, Op
<1>3. SettingsTypes BY <1>1, <1>2 DEF SettingsTypes, Providers
<1>4. SavesInProgress BY <1>1, NameAssumption DEF SavesInProgress, At, Idle
<1>5. FileSound /\ OnItsWay /\ Up /\ FreshlyOff /\ ComesUpAgain
  BY <1>1 DEF FileSound, OnItsWay, Up, FreshlyOff, ComesUpAgain
<1> QED BY <1>3, <1>4, <1>5 DEF SettingsInv

\* The inductive invariant: the lock brackets every save, what a save has replaced
\* so far agrees with the file, and a file that was saved can be booted from.
THEOREM SettingsInvariant == Spec => []SettingsInv
<1>1. Init => SettingsInv BY SettingsInit
<1>2. SettingsInv /\ [Next]_vars => SettingsInv'
  <2> SUFFICES ASSUME SettingsInv, [Next]_vars PROVE SettingsInv' OBVIOUS
  <2>1. CASE load_config BY <2>1, LoadKeeps
  <2>2. CASE PluginsBoot BY <2>2, PluginsKeep
  <2>3. CASE ComesUp BY <2>3, ComesUpKeeps
  <2>4. CASE Restart BY <2>4, OffKeeps DEF Restart
  <2>5. CASE Crash BY <2>5, OffKeeps DEF Crash
  <2>6. ASSUME NEW p \in Plugged, ActivatePlugin(p) PROVE SettingsInv' BY <2>6, ActivateKeeps
  <2>7. ASSUME NEW c \in Clients, Client(c) PROVE SettingsInv'
    BY <2>7, ReadKeeps, SubmitKeeps, SaveKeeps, StoredKeeps, RunnerKeeps DEF Client
  <2>8. CASE UNCHANGED vars
    BY <2>8 DEF vars, SettingsInv, SettingsTypes, SavesInProgress, FileSound, OnItsWay, Up,
                FreshlyOff, ComesUpAgain, At, Shows, SectionOf, Allowed, Resolved
  <2> QED BY <2>1, <2>2, <2>3, <2>4, <2>5, <2>6, <2>7, <2>8 DEF Next
<1> QED BY <1>1, <1>2, PTL DEF Spec

\* A server that is up has a configuration and a runner, and the lock is held
\* exactly while a save is between its file and its runner.
THEOREM SettingsTypeOK == Spec => []TypeOK
<1>1. SettingsInv => TypeOK
  <2> SUFFICES ASSUME SettingsInv PROVE TypeOK OBVIOUS
  <2>1. SettingsTypes /\ SavesInProgress /\ Up BY DEF SettingsInv
  <2>2. \A c \in Clients : op[c].step \in {"idle", "sent", "written", "switched"}
    BY <2>1 DEF SettingsTypes, Op
  <2>3. \A c \in Clients : lock = c <=> op[c].step \in {"written", "switched"}
    BY <2>1 DEF SavesInProgress, At
  <2> QED BY <2>1, <2>2, <2>3 DEF SettingsTypes, Up, TypeOK
<1> QED BY <1>1, SettingsInvariant, PTL

\* Whatever the clients save one across the other and wherever the process dies:
\* with no save in progress, the server runs on its file.
THEOREM ServerRunsOnItsFile == Spec => []RunsOnItsFile
<1>1. SettingsInv => RunsOnItsFile
  BY DEF SettingsInv, Up, Shows, RunsOnItsFile
<1> QED BY <1>1, SettingsInvariant, PTL

\* A file the server wrote keeps it from coming up only by way of a plugin.
THEOREM ServerComesUpAgain == Spec => []ComesUpAgain
<1>1. SettingsInv => ComesUpAgain BY DEF SettingsInv
<1> QED BY <1>1, SettingsInvariant, PTL

Key(f, p) == IF f = Absent THEN NoKey ELSE SectionOf(f, p).key

LEMMA SaveKeepsKeys ==
  ASSUME SettingsInv, NEW c \in Clients, merge_config_update(c),
         NEW p \in registered, Key(file, p) # NoKey, Key(file, p) # Key(file', p)
  PROVE  /\ At(c, "sent")
         /\ \/ p \notin DOMAIN op[c].sent.sections
            \/ op[c].sent.sections[p].key \in Keys \cap {Key(file', p)}
<1> DEFINE sent == op[c].sent
           merged == Merged(sent, file)
<1>1. At(c, "sent") /\ SettingsTypes /\ SavesInProgress /\ Up
  BY DEF merge_config_update, SettingsInv
<1>2. sent \in Config /\ file \in Config
  BY <1>1 DEF SavesInProgress, At, Up, SettingsTypes
<1>3. /\ merged \in Config
      /\ \A q \in DOMAIN sent.sections \cap registered :
            SectionOf(merged, q).key =
               IF sent.sections[q].key = NoKey THEN SectionOf(file, q).key ELSE sent.sections[q].key
  BY <1>2, MergedFacts
<1>4. file' = Canonical(merged)
  <2>1. Key(file, p) # Key(file, p) => FALSE OBVIOUS
  <2>2. file' # file BY <2>1
  <2> QED BY <2>2 DEF merge_config_update
<1> HIDE DEF merged
<1>5. file' \in Config /\ SectionOf(file', p) = SectionOf(merged, p)
  BY <1>1, <1>3, <1>4, CanonicalFacts DEF SettingsTypes
<1>6. Key(file, p) = SectionOf(file, p).key /\ Key(file', p) = SectionOf(file', p).key
  BY <1>2, <1>5, ConfigFacts DEF Key
<1>7. ASSUME p \in DOMAIN sent.sections
      PROVE  sent.sections[p].key \in Keys \cap {Key(file', p)}
  <2>1. sent.sections[p].key \in Keys \cup {NoKey} BY <1>2, <1>7, ConfigFacts DEF Section
  <2>2. SectionOf(merged, p).key =
           IF sent.sections[p].key = NoKey THEN SectionOf(file, p).key ELSE sent.sections[p].key
    BY <1>3, <1>7
  <2>3. sent.sections[p].key # NoKey BY <1>5, <1>6, <2>2
  <2> QED BY <1>5, <1>6, <2>1, <2>2, <2>3
<1> QED BY <1>1, <1>7

\* No save loses the key of a provider the server knows, unless its client typed
\* another one or left the provider out.
THEOREM NoKeyIsLost == Spec => KeysAreKept
<1> DEFINE NoneLost ==
      \A p \in registered :
         Key(file, p) \notin {NoKey, Key(file', p)} =>
            \E c \in Clients : /\ At(c, "sent")
                               /\ \/ p \notin DOMAIN op[c].sent.sections
                                  \/ op[c].sent.sections[p].key \in Keys \cap {Key(file', p)}
<1>1. SettingsInv /\ [Next]_vars => [NoneLost]_vars
  <2> SUFFICES ASSUME SettingsInv, Next, NEW p \in registered,
                      Key(file, p) # NoKey, Key(file, p) # Key(file', p)
               PROVE  \E c \in Clients :
                         /\ At(c, "sent")
                         /\ \/ p \notin DOMAIN op[c].sent.sections
                            \/ op[c].sent.sections[p].key \in Keys \cap {Key(file', p)}
    OBVIOUS
  <2>1. file' # file
    <3>1. Key(file, p) # Key(file, p) => FALSE OBVIOUS
    <3> QED BY <3>1
  <2>2. ~load_config
    <3>1. load_config => file = Absent BY <2>1 DEF load_config
    <3> QED BY <3>1 DEF Key
  <2>3. PICK c \in Clients : merge_config_update(c)
    BY <2>1, <2>2 DEF Next, Client, PluginsBoot, ComesUp, Restart, Crash, ActivatePlugin,
                      get_runtime_config, Submits, SwitchStored, SwitchRunner
  <2> QED BY <2>3, SaveKeepsKeys
<1>2. NoneLost <=> \A p \in registered :
         LET key(f) == IF f = Absent THEN NoKey ELSE SectionOf(f, p).key
         IN  key(file) \notin {NoKey, key(file')} =>
               \E c \in Clients : /\ At(c, "sent")
                                  /\ \/ p \notin DOMAIN op[c].sent.sections
                                     \/ op[c].sent.sections[p].key \in Keys \cap {key(file')}
  BY DEF Key
<1> HIDE DEF NoneLost
<1> QED BY <1>1, <1>2, SettingsInvariant, PTL DEF Spec, KeysAreKept

-----------------------------------------------------------------------------
(* The library: its types, what its editors hold, and the start of a session *)

Preset == [character : Characters \cup BuiltIns, avatar : Images \cup {None}, revision : Nat]

SeenPreset == [preset : Preset \cup {None}, life : Nat]

Card == [name : AllNames \cup {None}, seen : SeenPreset]

ClientState == [card : Card, listed : [Names -> SeenPreset], step : {"closed", "open", "refused", "confirmed"},
                target : AllNames \cup {None}, image : Images \cup {None}, again : SeenPreset]

LibraryTypes ==
    /\ presets \in [Names -> Preset \cup {None}]
    /\ aux_lives \in [Names -> Nat]
    /\ clients \in [Editors -> ClientState]

\* What a client has read of a preset is no newer than the preset, and is the
\* preset when it is of its life and of its revision.
Held(n, seen) ==
    /\ seen.life <= aux_lives[n]
    /\ seen.preset # None /\ presets[n] # None /\ seen.life = aux_lives[n] =>
          /\ seen.preset.revision <= presets[n].revision
          /\ seen.preset.revision = presets[n].revision => seen.preset = presets[n]

\* Whatever a client may replace or delete a preset by, it has read.
CardHeld(c) ==
    clients[c].card.name \in Names =>
        clients[c].card.seen.preset # None /\ Held(clients[c].card.name, clients[c].card.seen)
ListHeld(c) == \A n \in Names : Held(n, clients[c].listed[n])
AgainHeld(c) ==
    clients[c].step \in {"refused", "confirmed"} =>
        /\ clients[c].target \in AllNames
        /\ clients[c].step = "confirmed" /\ clients[c].target \in Names =>
              clients[c].again.preset # None /\ Held(clients[c].target, clients[c].again)

EditorsInv == \A c \in Editors : CardHeld(c) /\ ListHeld(c) /\ AgainHeld(c)

\* Links and what is read are presets by id; whoever was read is what his preset was,
\* and a link that was asked for was there.
Linked(links) == links \in [DOMAIN links -> AllNames]

CastRead ==
    start.reads # Nothing =>
        /\ DOMAIN start.cast \subseteq DOMAIN start.reads
        /\ \A id \in DOMAIN start.cast : [name |-> start.reads[id], character |-> start.cast[id]] \in aux_was

LinksChecked ==
    IF start.step # "checks" THEN start.checked = {} ELSE
        /\ LinksFit(start.links, start.cast) /\ DOMAIN start.reads \subseteq DOMAIN start.cast
        /\ start.checked \subseteq DOMAIN start.links
        /\ \A id \in start.checked : \E was \in aux_was : was.name = start.links[id]

StartInv ==
    start # None =>
        /\ start = [reads |-> start.reads, cast |-> start.cast, step |-> start.step,
                    links |-> start.links, checked |-> start.checked]
        /\ Linked(start.reads) /\ Linked(start.links)
        /\ CastRead /\ LinksChecked

ScenariosInv == scenarios \in [Scenarios -> Links \cup {None}]

LEMMA SeenTypes ==
    ASSUME LibraryTypes, NEW n \in AllNames
    PROVE  /\ load_preset(n) \in Preset \cup {None}
           /\ load_preset(n) # None => Seen(n) \in SeenPreset
           /\ Seen(n).preset = load_preset(n)
           /\ n \in Names => /\ load_preset(n) = presets[n] /\ Seen(n).life = aux_lives[n]
                             /\ Held(n, Seen(n))
<1>1. n \in BuiltIns => BuiltInPreset(n) \in Preset
  BY DEF BuiltInPreset, Preset
<1>2. n \in Names => n \notin BuiltIns
  BY LibraryAssumption
<1>3. n \in Names => aux_lives[n] \in Nat /\ presets[n] \in Preset \cup {None}
  BY DEF LibraryTypes
<1>4. n \notin BuiltIns => n \in Names
  BY DEF AllNames
<1>5. load_preset(n) \in Preset \cup {None}
  BY <1>1, <1>3, <1>4 DEF load_preset
<1>6. load_preset(n) # None => Seen(n) \in SeenPreset
  BY <1>5, <1>3, <1>4 DEF Seen, SeenPreset
<1>7. ASSUME n \in Names
      PROVE  load_preset(n) = presets[n] /\ Seen(n).life = aux_lives[n] /\ Held(n, Seen(n))
  <2>1. load_preset(n) = presets[n] /\ Seen(n).life = aux_lives[n] /\ Seen(n).preset = presets[n]
    BY <1>7, <1>2 DEF load_preset, Seen
  <2>2. presets[n] # None => presets[n].revision \in Nat
    BY <1>7, <1>3 DEF Preset
  <2>. QED  BY <1>3, <1>7, <2>1, <2>2 DEF Held
<1>. QED  BY <1>5, <1>6, <1>7 DEF Seen

\* A preset saved is one, and newer than the one it replaces.
LEMMA SavedTypes ==
    ASSUME LibraryTypes, NEW n \in Names, NEW character \in Characters,
           NEW avatar \in Images \cup {None}
    PROVE  /\ Saved(n, character, avatar) \in Preset
           /\ Saved(n, character, avatar) # None
           /\ presets[n] # None => Saved(n, character, avatar).revision = presets[n].revision + 1
<1>1. presets[n] # None => /\ presets[n].revision \in Nat
                           /\ presets[n].avatar \in Images \cup {None}
  BY DEF LibraryTypes, Preset
<1>2. Saved(n, character, avatar) \in Preset
  BY <1>1 DEF Saved, Preset
<1>3. None \notin Preset
  BY LibraryAssumption DEF Preset
<1>. QED  BY <1>2, <1>3 DEF Saved

\* A save that is made, spelled out: the preset, its life, and the client who made it.
LEMMA KeptIs ==
    ASSUME LibraryTypes, NEW c \in Editors, NEW n \in Names,
           NEW image \in Images \cup {None}, Kept(c, n, image)
    PROVE  \E value \in Preset, life \in Nat :
             /\ value # None
             /\ IF presets[n] = None THEN life = aux_lives[n] + 1
                ELSE life = aux_lives[n] /\ value.revision = presets[n].revision + 1
             /\ presets' = [presets EXCEPT ![n] = value]
             /\ aux_lives' = [aux_lives EXCEPT ![n] = life]
             /\ clients' = [clients EXCEPT ![c] =
                  [card |-> [name |-> n, seen |-> [preset |-> value, life |-> life]],
                   listed |-> [clients[c].listed EXCEPT ![n] = [preset |-> value, life |-> life]],
                   step |-> "open", target |-> None, image |-> None, again |-> Unseen]]
<1> DEFINE lf == aux_lives[n] + IF presets[n] = None THEN 1 ELSE 0
<1>1. aux_lives[n] \in Nat
  BY DEF LibraryTypes
<1>2. PICK character \in Characters :
          LET value == Saved(n, character, image)
          IN  /\ presets' = [presets EXCEPT ![n] = value]
              /\ aux_lives' = [aux_lives EXCEPT ![n] = lf]
              /\ clients' = [clients EXCEPT ![c] =
                     [card |-> [name |-> n, seen |-> [preset |-> value, life |-> lf]],
                      listed |-> [clients[c].listed EXCEPT ![n] = [preset |-> value, life |-> lf]],
                      step |-> "open", target |-> None, image |-> None, again |-> Unseen]]
  BY Zenon DEF Kept
<1> DEFINE v == Saved(n, character, image)
<1>3. v \in Preset /\ v # None /\ (presets[n] # None => v.revision = presets[n].revision + 1)
  BY <1>1, SavedTypes
<1>4. lf \in Nat /\ (presets[n] = None => lf = aux_lives[n] + 1) /\ (presets[n] # None => lf = aux_lives[n])
  BY <1>1
<1>6. clients' = [clients EXCEPT ![c] =
                  [card |-> [name |-> n, seen |-> [preset |-> v, life |-> lf]],
                   listed |-> [clients[c].listed EXCEPT ![n] = [preset |-> v, life |-> lf]],
                   step |-> "open", target |-> None, image |-> None, again |-> Unseen]]
  BY <1>2
<1>7. presets' = [presets EXCEPT ![n] = v] /\ aux_lives' = [aux_lives EXCEPT ![n] = lf]
  BY <1>2
<1> HIDE DEF v, lf
<1>. QED  BY <1>3, <1>4, <1>6, <1>7

\* What a client holds stays held while what there is only becomes newer.
HeldStays == \A n \in Names, seen \in SeenPreset : Held(n, seen) => Held(n, seen)'

\* One client changes, and holds what it then has.
LEMMA OneClientChanges ==
    ASSUME LibraryTypes, EditorsInv, HeldStays, NEW c \in Editors, NEW client \in ClientState,
           clients' = [clients EXCEPT ![c] = client],
           client.card.name \in Names =>
              client.card.seen.preset # None /\ Held(client.card.name, client.card.seen)',
           \A n \in Names : Held(n, client.listed[n])',
           client.step \in {"refused", "confirmed"} =>
              /\ client.target \in AllNames
              /\ client.step = "confirmed" /\ client.target \in Names =>
                    client.again.preset # None /\ Held(client.target, client.again)'
    PROVE  EditorsInv' /\ clients' \in [Editors -> ClientState]
<1>1. clients' \in [Editors -> ClientState]
  BY DEF LibraryTypes
<1>2. ASSUME NEW d \in Editors
      PROVE  CardHeld(d)' /\ ListHeld(d)' /\ AgainHeld(d)'
  <2>1. CASE d = c
    <3>1. clients'[d] = client
      BY <2>1 DEF LibraryTypes
    <3>2. CardHeld(d)'
      BY <3>1 DEF CardHeld, Held
    <3>3. ListHeld(d)'
      BY <3>1 DEF ListHeld, Held
    <3>4. AgainHeld(d)'
      BY <3>1 DEF AgainHeld, Held
    <3>. QED  BY <3>2, <3>3, <3>4
  <2>2. CASE d # c
    <3>1. clients'[d] = clients[d]
      BY <2>2 DEF LibraryTypes
    <3>2. clients[d] \in ClientState /\ CardHeld(d) /\ ListHeld(d) /\ AgainHeld(d)
      BY DEF LibraryTypes, EditorsInv
    <3>3. /\ clients[d].card.seen \in SeenPreset /\ clients[d].again \in SeenPreset
          /\ \A n \in Names : clients[d].listed[n] \in SeenPreset
      BY <3>2 DEF ClientState, Card
    <3>4. CardHeld(d)'
      <4>1. clients[d].card.name \in Names =>
              clients[d].card.seen.preset # None /\ Held(clients[d].card.name, clients[d].card.seen)
        BY <3>2 DEF CardHeld
      <4>2. \A n \in Names : Held(n, clients[d].card.seen) => Held(n, clients[d].card.seen)'
        <5>1. \A s \in SeenPreset, n \in Names : Held(n, s) => Held(n, s)'
          BY DEF HeldStays
        <5>2. PICK s \in SeenPreset : s = clients[d].card.seen
          BY <3>3
        <5>3. s = clients'[d].card.seen
          BY <5>2, <3>1
        <5>. QED  BY <5>1, <5>2, <5>3, <3>1 DEF Held
      <4>. QED  BY <3>1, <4>1, <4>2 DEF CardHeld, Held
    <3>5. ListHeld(d)'
      <4>1. ASSUME NEW n \in Names
            PROVE  Held(n, clients[d].listed[n])'
        <5>1. PICK s \in SeenPreset : s = clients[d].listed[n]
          BY <3>3
        <5>2. Held(n, s)'
          BY <5>1, <3>2 DEF HeldStays, ListHeld
        <5>. QED  BY <5>1, <5>2, <3>1 DEF Held
      <4>. QED  BY <4>1 DEF ListHeld
    <3>6. AgainHeld(d)'
      <4>1. ASSUME NEW n \in Names, Held(n, clients[d].again)
            PROVE  Held(n, clients[d].again)'
        <5>1. PICK s \in SeenPreset : s = clients[d].again
          BY <3>3
        <5>2. Held(n, s)'
          BY <5>1, <4>1 DEF HeldStays
        <5>. QED  BY <5>1, <5>2, <3>1 DEF Held
      <4>. QED  BY <3>1, <3>2, <4>1 DEF AgainHeld, Held
    <3>. QED  BY <3>4, <3>5, <3>6
  <2>. QED  BY <2>1, <2>2
<1>. QED  BY <1>1, <1>2 DEF EditorsInv

LEMMA UnchangedHeld ==
    ASSUME UNCHANGED <<presets, aux_lives>>
    PROVE  HeldStays
BY DEF HeldStays, Held

\* A new life begins, or the preset is gone, or it has a newer revision.
LEMMA NewerHeld ==
    ASSUME LibraryTypes, NEW n \in Names, NEW value \in Preset \cup {None}, NEW life \in Nat,
           presets' = [presets EXCEPT ![n] = value], aux_lives' = [aux_lives EXCEPT ![n] = life],
           \/ life > aux_lives[n]
           \/ life = aux_lives[n] /\ value = None
           \/ /\ life = aux_lives[n] /\ presets[n] # None
              /\ value # None /\ value.revision = presets[n].revision + 1
    PROVE  HeldStays
<1> SUFFICES ASSUME NEW m \in Names, NEW seen \in SeenPreset, Held(m, seen)
             PROVE  Held(m, seen)'
  BY DEF HeldStays
<1>1. aux_lives[m] \in Nat /\ seen.life \in Nat
  BY DEF LibraryTypes, SeenPreset
<1>2. CASE m # n
  <2>1. presets'[m] = presets[m] /\ aux_lives'[m] = aux_lives[m]
    BY <1>2 DEF LibraryTypes
  <2>. QED  BY <2>1 DEF Held
<1>3. CASE m = n
  <2>1. presets'[m] = value /\ aux_lives'[m] = life
    BY <1>3 DEF LibraryTypes
  <2>2. presets[m] # None => presets[m].revision \in Nat
    BY DEF LibraryTypes, Preset
  <2>3. seen.preset # None => seen.preset.revision \in Nat
    BY DEF SeenPreset, Preset
  <2>4. CASE life > aux_lives[n]
    BY <1>1, <1>3, <2>1, <2>4 DEF Held
  <2>5. CASE life = aux_lives[n] /\ value = None
    BY <1>1, <1>3, <2>1, <2>5 DEF Held
  <2>6. CASE /\ life = aux_lives[n] /\ presets[n] # None
             /\ value # None /\ value.revision = presets[n].revision + 1
    BY <1>1, <1>3, <2>1, <2>2, <2>3, <2>6 DEF Held
  <2>. QED  BY <2>4, <2>5, <2>6
<1>. QED  BY <1>2, <1>3

LEMMA KeptHolds ==
    ASSUME LibraryTypes, EditorsInv, NEW c \in Editors, NEW n \in Names,
           NEW image \in Images \cup {None}, Kept(c, n, image)
    PROVE  LibraryTypes' /\ EditorsInv'
<1>1. PICK value \in Preset, life \in Nat :
             /\ value # None
             /\ IF presets[n] = None THEN life = aux_lives[n] + 1
                ELSE life = aux_lives[n] /\ value.revision = presets[n].revision + 1
             /\ presets' = [presets EXCEPT ![n] = value]
             /\ aux_lives' = [aux_lives EXCEPT ![n] = life]
             /\ clients' = [clients EXCEPT ![c] =
                  [card |-> [name |-> n, seen |-> [preset |-> value, life |-> life]],
                   listed |-> [clients[c].listed EXCEPT ![n] = [preset |-> value, life |-> life]],
                   step |-> "open", target |-> None, image |-> None, again |-> Unseen]]
  BY KeptIs
<1>2. PICK held \in SeenPreset : held = [preset |-> value, life |-> life]
  BY DEF SeenPreset
<1>3. Unseen \in SeenPreset
  BY DEF Unseen, SeenPreset
<1>4. clients[c].listed \in [Names -> SeenPreset]
  BY DEF LibraryTypes, ClientState
<1>5. PICK listed \in [Names -> SeenPreset] : listed = [clients[c].listed EXCEPT ![n] = held]
  BY <1>4
<1>6. PICK card \in Card : card = [name |-> n, seen |-> held]
  BY DEF Card, AllNames
<1>7. PICK client \in ClientState :
         client = [card |-> card, listed |-> listed, step |-> "open", target |-> None, image |-> None, again |-> Unseen]
  BY <1>3 DEF ClientState
<1>8. clients' = [clients EXCEPT ![c] = client]
  BY <1>1, <1>2, <1>5, <1>6, <1>7
<1>9. aux_lives[n] \in Nat
  BY DEF LibraryTypes
<1>10. HeldStays
  <2>1. \/ life > aux_lives[n]
        \/ /\ life = aux_lives[n] /\ presets[n] # None
           /\ value # None /\ value.revision = presets[n].revision + 1
    BY <1>1, <1>9
  <2>. QED  BY <1>1, <2>1, NewerHeld
<1>11. presets'[n] = value /\ aux_lives'[n] = life
  BY <1>1 DEF LibraryTypes
<1>12. Held(n, held)'
  BY <1>11, <1>2 DEF Held, Preset
<1>13. \A m \in Names : Held(m, listed[m])'
  <2>1. ASSUME NEW m \in Names, m # n
        PROVE  Held(m, listed[m])'
    <3>1. PICK s \in SeenPreset : s = clients[c].listed[m]
      BY <1>4
    <3>2. Held(m, s)
      BY <3>1 DEF EditorsInv, ListHeld
    <3>3. Held(m, s)'
      BY <3>2, <1>10 DEF HeldStays
    <3>4. listed[m] = s
      BY <1>4, <1>5, <2>1, <3>1
    <3>. QED  BY <3>3, <3>4
  <2>2. listed[n] = held
    BY <1>4, <1>5
  <2>. QED  BY <2>1, <2>2, <1>12
<1>14. EditorsInv' /\ clients' \in [Editors -> ClientState]
  <2>1. client.card.name = n /\ client.card.seen = held /\ held.preset # None
        /\ client.listed = listed /\ client.step = "open"
    BY <1>1, <1>2, <1>6, <1>7
  <2>2. Held(client.card.name, client.card.seen)'
    BY <2>1, <1>12
  <2>3. \A m \in Names : Held(m, client.listed[m])'
    BY <2>1, <1>13
  <2>. QED  BY <1>8, <1>10, <2>1, <2>2, <2>3, OneClientChanges
<1>15. presets' \in [Names -> Preset \cup {None}] /\ aux_lives' \in [Names -> Nat]
  BY <1>1 DEF LibraryTypes
<1>. QED  BY <1>14, <1>15 DEF LibraryTypes

\* A client whose presets nobody touches: what it holds when it holds something else.
LEMMA OneClientReads ==
    ASSUME LibraryTypes, EditorsInv, UNCHANGED <<presets, aux_lives>>, NEW c \in Editors,
           NEW client \in ClientState, clients' = [clients EXCEPT ![c] = client],
           client.card.name \in Names =>
              client.card.seen.preset # None /\ Held(client.card.name, client.card.seen),
           \A n \in Names : Held(n, client.listed[n]),
           client.step \in {"refused", "confirmed"} =>
              /\ client.target \in AllNames
              /\ client.step = "confirmed" /\ client.target \in Names =>
                    client.again.preset # None /\ Held(client.target, client.again)
    PROVE  LibraryTypes' /\ EditorsInv'
<1>1. \A n, seen : Held(n, seen)' <=> Held(n, seen)
  BY DEF Held
<1>2. HeldStays
  BY UnchangedHeld
<1>3. EditorsInv' /\ clients' \in [Editors -> ClientState]
  BY <1>1, <1>2, OneClientChanges
<1>. QED  BY <1>3 DEF LibraryTypes

\* What a client holds now.
LEMMA Holds ==
    ASSUME LibraryTypes, EditorsInv, NEW c \in Editors
    PROVE  /\ clients[c] \in ClientState
           /\ clients[c].card.name \in Names =>
                clients[c].card.seen.preset # None /\ Held(clients[c].card.name, clients[c].card.seen)
           /\ \A n \in Names : Held(n, clients[c].listed[n])
           /\ clients[c].step \in {"refused", "confirmed"} =>
                /\ clients[c].target \in AllNames
                /\ clients[c].step = "confirmed" /\ clients[c].target \in Names =>
                      clients[c].again.preset # None /\ Held(clients[c].target, clients[c].again)
BY DEF LibraryTypes, EditorsInv, CardHeld, ListHeld, AgainHeld

LEMMA UnseenHeld ==
    ASSUME LibraryTypes
    PROVE  Unseen \in SeenPreset /\ \A n \in Names : Held(n, Unseen)
BY DEF Unseen, SeenPreset, Held, LibraryTypes

LEMMA ListHolds ==
    ASSUME LibraryTypes, EditorsInv, NEW c \in Editors, list_presets(c)
    PROVE  LibraryTypes' /\ EditorsInv'
<1> DEFINE list == [n \in Names |-> IF presets[n] = None THEN Unseen ELSE Seen(n)]
<1>1. \A n \in Names : list[n] \in SeenPreset /\ Held(n, list[n])
  <2>1. ASSUME NEW n \in Names, presets[n] # None
        PROVE  Seen(n) \in SeenPreset /\ Held(n, Seen(n))
    BY <2>1, SeenTypes DEF AllNames
  <2>. QED  BY <2>1, UnseenHeld
<1>2. list \in [Names -> SeenPreset]
  BY <1>1
<1>3. clients' = [clients EXCEPT ![c].listed = list] /\ UNCHANGED <<presets, aux_lives>> /\ AtRest(c)
  BY DEF list_presets
<1> HIDE DEF list
<1>4. PICK client \in ClientState : client = [clients[c] EXCEPT !.listed = list]
  BY <1>2, Holds DEF ClientState
<1>5. client.card = clients[c].card /\ client.listed = list /\ client.step = clients[c].step
  BY <1>4, Holds DEF ClientState
<1>6. clients' = [clients EXCEPT ![c] = client]
  BY <1>3, <1>4
<1>7. client.step \notin {"refused", "confirmed"}
  BY <1>3, <1>5 DEF AtRest
<1>8. client.card.name \in Names =>
         client.card.seen.preset # None /\ Held(client.card.name, client.card.seen)
  BY <1>5, Holds
<1>9. \A n \in Names : Held(n, client.listed[n])
  BY <1>1, <1>5
<1>. QED  BY <1>3, <1>6, <1>7, <1>8, <1>9, OneClientReads

LEMMA OpensHolds ==
    ASSUME LibraryTypes, EditorsInv, NEW c \in Editors, OpensCard(c)
    PROVE  LibraryTypes' /\ EditorsInv'
<1>1. PICK card \in Card :
        /\ clients' = [clients EXCEPT ![c].step = "open", ![c].card = card]
        /\ card.name \in Names => card.seen.preset # None /\ Held(card.name, card.seen)
  <2>1. CASE \E n \in AllNames :
              /\ load_preset(n) # None
              /\ clients' = [clients EXCEPT ![c].step = "open", ![c].card = [name |-> n, seen |-> Seen(n)]]
    <3>1. PICK n \in AllNames :
              /\ load_preset(n) # None
              /\ clients' = [clients EXCEPT ![c].step = "open", ![c].card = [name |-> n, seen |-> Seen(n)]]
      BY <2>1
    <3>2. PICK seen \in SeenPreset : seen = Seen(n)
      BY <3>1, SeenTypes
    <3>3. PICK card \in Card : card = [name |-> n, seen |-> seen]
      BY DEF Card
    <3>4. n \in Names => seen.preset # None /\ Held(n, seen)
      BY <3>1, <3>2, SeenTypes
    <3>. QED  BY <3>1, <3>2, <3>3, <3>4
  <2>2. CASE clients' = [clients EXCEPT ![c].step = "open", ![c].card = NoCard]
    <3>1. NoCard \in Card
      BY UnseenHeld DEF NoCard, Card
    <3>2. NoCard.name \notin Names
      BY LibraryAssumption DEF NoCard
    <3>. QED  BY <2>2, <3>1, <3>2
  <2>. QED  BY <2>1, <2>2 DEF OpensCard
<1>2. UNCHANGED <<presets, aux_lives>>
  BY DEF OpensCard
<1>3. PICK client \in ClientState : client = [clients[c] EXCEPT !.step = "open", !.card = card]
  BY Holds DEF ClientState
<1>4. client.card = card /\ client.listed = clients[c].listed /\ client.step = "open"
  BY <1>3, Holds DEF ClientState
<1>5. clients' = [clients EXCEPT ![c] = client]
  BY <1>1, <1>3
<1>. QED  BY <1>1, <1>2, <1>4, <1>5, Holds, OneClientReads

\* Only a user's preset is saved over.
LEMMA AcceptedName ==
    ASSUME NEW n \in AllNames, NEW revision, NEW replace, Accepted(n, revision, replace)
    PROVE  n \in Names
BY DEF Accepted, AllNames

LEMMA SaveHolds ==
    ASSUME LibraryTypes, EditorsInv, NEW c \in Editors, save_preset(c)
    PROVE  LibraryTypes' /\ EditorsInv'
<1>1. PICK n \in AllNames, image \in Images \cup {None} :
        \/ n \in Names /\ Kept(c, n, image)
        \/ /\ clients' = [clients EXCEPT ![c].step = "refused", ![c].target = n, ![c].image = image]
           /\ UNCHANGED <<presets, aux_lives>>
  BY AcceptedName DEF save_preset
<1>2. CASE n \in Names /\ Kept(c, n, image)
  BY <1>2, KeptHolds
<1>3. CASE /\ clients' = [clients EXCEPT ![c].step = "refused", ![c].target = n, ![c].image = image]
           /\ UNCHANGED <<presets, aux_lives>>
  <2>1. PICK client \in ClientState : client = [clients[c] EXCEPT !.step = "refused", !.target = n, !.image = image]
    BY Holds DEF ClientState
  <2>2. /\ client.card = clients[c].card /\ client.listed = clients[c].listed
        /\ client.step = "refused" /\ client.target = n
    BY <2>1, Holds DEF ClientState
  <2>3. clients' = [clients EXCEPT ![c] = client]
    BY <1>3, <2>1
  <2>4. /\ client.card.name \in Names =>
              client.card.seen.preset # None /\ Held(client.card.name, client.card.seen)
        /\ \A m \in Names : Held(m, client.listed[m])
    BY <2>2, Holds
  <2>. QED  BY <1>3, <2>2, <2>3, <2>4, OneClientReads
<1>. QED  BY <1>1, <1>2, <1>3

LEMMA ReadsAgainHolds ==
    ASSUME LibraryTypes, EditorsInv, NEW c \in Editors, ReadsAgain(c)
    PROVE  LibraryTypes' /\ EditorsInv'
<1>1. UNCHANGED <<presets, aux_lives>> /\ clients[c].step = "refused" /\ clients[c].target \in AllNames
  BY Holds DEF ReadsAgain
<1>2. CASE clients' = [clients EXCEPT ![c].step = "open", ![c].target = None, ![c].image = None]
  <2>1. PICK client \in ClientState :
           client = [clients[c] EXCEPT !.step = "open", !.target = None, !.image = None]
    BY Holds DEF ClientState
  <2>2. client.card = clients[c].card /\ client.listed = clients[c].listed /\ client.step = "open"
    BY <2>1, Holds DEF ClientState
  <2>3. clients' = [clients EXCEPT ![c] = client]
    BY <1>2, <2>1
  <2>4. /\ client.card.name \in Names =>
              client.card.seen.preset # None /\ Held(client.card.name, client.card.seen)
        /\ \A m \in Names : Held(m, client.listed[m])
    BY <2>2, Holds
  <2>. QED  BY <1>1, <2>2, <2>3, <2>4, OneClientReads
<1>3. CASE /\ load_preset(clients[c].target) # None
           /\ clients' = [clients EXCEPT ![c].step = "confirmed", ![c].again = Seen(clients[c].target)]
  <2>1. PICK n \in AllNames : n = clients[c].target
    BY <1>1
  <2>2. PICK seen \in SeenPreset : seen = Seen(n)
    BY <1>3, <2>1, SeenTypes
  <2>3. n \in Names => seen.preset # None /\ Held(n, seen)
    BY <1>3, <2>1, <2>2, SeenTypes
  <2>4. PICK client \in ClientState : client = [clients[c] EXCEPT !.step = "confirmed", !.again = seen]
    BY Holds DEF ClientState
  <2>5. /\ client.card = clients[c].card /\ client.listed = clients[c].listed
        /\ client.step = "confirmed" /\ client.target = n /\ client.again = seen
    BY <2>1, <2>4, Holds DEF ClientState
  <2>6. clients' = [clients EXCEPT ![c] = client]
    BY <1>3, <2>1, <2>2, <2>4
  <2>. QED  BY <1>1, <2>3, <2>5, <2>6, Holds, OneClientReads
<1>. QED  BY <1>2, <1>3 DEF ReadsAgain

LEMMA SavesAgainHolds ==
    ASSUME LibraryTypes, EditorsInv, NEW c \in Editors, SavesAgain(c)
    PROVE  LibraryTypes' /\ EditorsInv'
<1>1. clients[c].step = "confirmed" /\ clients[c].target \in AllNames
  BY Holds DEF SavesAgain
<1>2. CASE /\ Accepted(clients[c].target, clients[c].again.preset.revision, TRUE)
           /\ Kept(c, clients[c].target, clients[c].image)
  <2>1. clients[c].target \in Names
    BY <1>1, <1>2, AcceptedName
  <2>2. PICK image \in Images \cup {None} : image = clients[c].image
    BY Holds DEF ClientState
  <2>3. Kept(c, clients[c].target, image)
    BY <1>2, <2>2
  <2>. QED  BY <2>1, <2>3, KeptHolds
<1>3. CASE /\ clients' = [clients EXCEPT ![c].step = "open", ![c].target = None, ![c].image = None,
                                              ![c].again = Unseen]
           /\ UNCHANGED <<presets, aux_lives>>
  <2>1. PICK client \in ClientState :
           client = [clients[c] EXCEPT !.step = "open", !.target = None, !.image = None, !.again = Unseen]
    BY Holds, UnseenHeld DEF ClientState
  <2>2. client.card = clients[c].card /\ client.listed = clients[c].listed /\ client.step = "open"
    BY <2>1, Holds DEF ClientState
  <2>3. clients' = [clients EXCEPT ![c] = client]
    BY <1>3, <2>1
  <2>4. /\ client.card.name \in Names =>
              client.card.seen.preset # None /\ Held(client.card.name, client.card.seen)
        /\ \A m \in Names : Held(m, client.listed[m])
    BY <2>2, Holds
  <2>. QED  BY <1>3, <2>2, <2>3, <2>4, OneClientReads
<1>. QED  BY <1>2, <1>3 DEF SavesAgain

LEMMA DeleteHolds ==
    ASSUME LibraryTypes, EditorsInv, NEW c \in Editors, NEW n \in Names,
           delete_preset(c, n)
    PROVE  LibraryTypes' /\ EditorsInv'
<1>1. /\ presets' = [presets EXCEPT ![n] = None] /\ aux_lives' = aux_lives
      /\ clients' = [clients EXCEPT ![c] = [Fresh EXCEPT !.listed = [clients[c].listed EXCEPT ![n] = Unseen]]]
  BY DEF delete_preset
<1>2. PICK life \in Nat : life = aux_lives[n]
  BY DEF LibraryTypes
<1>3. aux_lives' = [aux_lives EXCEPT ![n] = life]
  BY <1>1, <1>2 DEF LibraryTypes
<1>4. HeldStays
  BY <1>1, <1>2, <1>3, NewerHeld
<1>5. clients[c].listed \in [Names -> SeenPreset] /\ Unseen \in SeenPreset
  BY Holds, UnseenHeld DEF ClientState
<1>6. PICK listed \in [Names -> SeenPreset] : listed = [clients[c].listed EXCEPT ![n] = Unseen]
  BY <1>5
<1>7. PICK client \in ClientState : client = [Fresh EXCEPT !.listed = listed]
  BY <1>5 DEF Fresh, NoCard, ClientState, Card
<1>8. client.card.name \notin Names /\ client.listed = listed /\ client.step = "closed"
  BY <1>7, LibraryAssumption DEF Fresh, NoCard
<1>9. \A m \in Names : Held(m, listed[m])'
  <2>1. \A m \in Names : Held(m, listed[m])
    BY <1>5, <1>6, Holds, UnseenHeld
  <2>2. ASSUME NEW m \in Names
        PROVE  Held(m, listed[m])'
    <3>1. PICK s \in SeenPreset : s = listed[m]
      BY <1>6
    <3>2. Held(m, s)'
      BY <2>1, <3>1, <1>4 DEF HeldStays
    <3>. QED  BY <3>1, <3>2
  <2>. QED  BY <2>2
<1>10. clients' = [clients EXCEPT ![c] = client]
  BY <1>1, <1>6, <1>7
<1>11. EditorsInv' /\ clients' \in [Editors -> ClientState]
  BY <1>4, <1>8, <1>9, <1>10, OneClientChanges
<1>. QED  BY <1>1, <1>11 DEF LibraryTypes

\* The steps that start a session touch no preset and no client.
Starts ==
    \/ \E s \in Scenarios : put_scenario(s) \/ delete_scenario(s)
    \/ load_scenario \/ ReadPreset \/ AsksLinks \/ ChecksLink \/ SavesSession

LEMMA StartsTouchNoClient ==
    ASSUME Starts
    PROVE  UNCHANGED <<presets, clients, aux_lives>>
BY DEF Starts, put_scenario, delete_scenario, load_scenario, ReadPreset, AsksLinks, ChecksLink, SavesSession

LEMMA EditorsStep ==
    LibraryTypes /\ EditorsInv /\ [LibraryNext]_libraryVars => LibraryTypes' /\ EditorsInv'
<1> SUFFICES ASSUME LibraryTypes, EditorsInv, [LibraryNext]_libraryVars
             PROVE  LibraryTypes' /\ EditorsInv'
  OBVIOUS
<1>1. ASSUME NEW c \in Editors, Edits(c)
      PROVE  LibraryTypes' /\ EditorsInv'
  BY <1>1, ListHolds, OpensHolds, SaveHolds, ReadsAgainHolds, SavesAgainHolds, DeleteHolds DEF Edits
<1>2. ASSUME UNCHANGED <<presets, clients, aux_lives>>
      PROVE  LibraryTypes' /\ EditorsInv'
  BY <1>2 DEF LibraryTypes, EditorsInv, CardHeld, ListHeld, AgainHeld, Held
<1>. QED  BY <1>1, <1>2, StartsTouchNoClient DEF LibraryNext, Starts, libraryVars

LEMMA EditorsInit ==
    LibraryInit => LibraryTypes /\ EditorsInv
<1> SUFFICES ASSUME LibraryInit
             PROVE  LibraryTypes /\ EditorsInv
  OBVIOUS
<1>1. Unseen \in SeenPreset /\ NoCard \in Card
  BY DEF Unseen, SeenPreset, NoCard, Card
<1>2. Fresh \in ClientState
  BY <1>1 DEF Fresh, ClientState
<1>3. LibraryTypes
  BY <1>2 DEF LibraryInit, LibraryTypes
<1>4. \A c \in Editors : clients[c] = Fresh
  BY DEF LibraryInit
<1>5. Fresh.card.name \notin Names /\ Fresh.step = "closed" /\ \A n \in Names : Fresh.listed[n] = Unseen
  BY LibraryAssumption DEF Fresh, NoCard
<1>6. EditorsInv
  BY <1>3, <1>4, <1>5, UnseenHeld DEF EditorsInv, CardHeld, ListHeld, AgainHeld
<1>. QED  BY <1>3, <1>6

\* Every replacement is of what the client who makes it has read.
Replacements(n) ==
    presets[n] # None /\ presets'[n] # presets[n] =>
         \E c \in Editors :
           LET read == IF presets'[n] = None THEN clients[c].listed[n]
                       ELSE IF clients[c].step = "confirmed" THEN clients[c].again ELSE clients[c].card.seen
           IN  clients'[c] # clients[c] /\ (read.life = aux_lives[n] => read.preset = presets[n])

\* What was held of a preset in this life of it, at its revision, is the preset.
LEMMA HeldIsIt ==
    ASSUME NEW n, NEW seen, Held(n, seen), seen.preset # None, presets[n] # None,
           seen.preset.revision = presets[n].revision
    PROVE  seen.life = aux_lives[n] => seen.preset = presets[n]
BY DEF Held

LEMMA KeptReplaces ==
    ASSUME LibraryTypes, EditorsInv, NEW c \in Editors, NEW m \in Names,
           NEW image \in Images \cup {None}, Kept(c, m, image),
           clients[c].step \in {"open", "confirmed"},
           presets[m] # None =>
              LET read == IF clients[c].step = "confirmed" THEN clients[c].again ELSE clients[c].card.seen
              IN  /\ read.preset # None /\ Held(m, read)
                  /\ read.preset.revision = presets[m].revision
                  /\ clients[c].step = "open" => clients[c].card.name = m,
           NEW n \in Names
    PROVE  Replacements(n)
<1> SUFFICES ASSUME presets[n] # None, presets'[n] # presets[n]
             PROVE  \E d \in Editors :
           LET read == IF presets'[n] = None THEN clients[d].listed[n]
                       ELSE IF clients[d].step = "confirmed" THEN clients[d].again ELSE clients[d].card.seen
           IN  clients'[d] # clients[d] /\ (read.life = aux_lives[n] => read.preset = presets[n])
  BY DEF Replacements
<1>1. PICK value \in Preset, life \in Nat :
             /\ value # None
             /\ IF presets[m] = None THEN life = aux_lives[m] + 1
                ELSE life = aux_lives[m] /\ value.revision = presets[m].revision + 1
             /\ presets' = [presets EXCEPT ![m] = value]
             /\ aux_lives' = [aux_lives EXCEPT ![m] = life]
             /\ clients' = [clients EXCEPT ![c] =
                  [card |-> [name |-> m, seen |-> [preset |-> value, life |-> life]],
                   listed |-> [clients[c].listed EXCEPT ![m] = [preset |-> value, life |-> life]],
                   step |-> "open", target |-> None, image |-> None, again |-> Unseen]]
  BY KeptIs
<1>2. m = n
  BY <1>1 DEF LibraryTypes
<1>3. presets'[n] # None
  BY <1>1, <1>2 DEF LibraryTypes
<1>4. clients'[c].step = "open" /\ clients'[c].card.seen.preset = value
  BY <1>1 DEF LibraryTypes
<1>5. presets[n].revision \in Nat /\ value.revision = presets[n].revision + 1
  BY <1>1, <1>2 DEF LibraryTypes, Preset
<1>6. clients'[c] # clients[c]
  <2>1. CASE clients[c].step = "confirmed"
    BY <1>4, <2>1
  <2>2. CASE clients[c].step = "open"
    <3>1. clients[c].card.seen.preset.revision = presets[n].revision
      BY <1>2, <2>2
    <3>. QED  BY <1>4, <1>5, <3>1
  <2>. QED  BY <2>1, <2>2
<1> DEFINE read == IF clients[c].step = "confirmed" THEN clients[c].again ELSE clients[c].card.seen
<1>7. read.life = aux_lives[n] => read.preset = presets[n]
  <2>1. read.preset # None /\ Held(n, read) /\ read.preset.revision = presets[n].revision
    BY <1>2
  <2>. QED  BY <2>1, HeldIsIt
<1>. QED  BY <1>3, <1>6, <1>7

LEMMA ClientReplaces ==
    ASSUME LibraryTypes, EditorsInv, NEW c \in Editors, Edits(c), NEW n \in Names
    PROVE  Replacements(n)
<1>1. ASSUME presets' = presets
      PROVE  Replacements(n)
  BY <1>1 DEF Replacements
<1>2. CASE save_preset(c)
  <2>1. PICK m \in AllNames, image \in Images \cup {None} :
          \/ /\ Accepted(m, IF clients[c].card.name = m THEN clients[c].card.seen.preset.revision ELSE 0,
                         clients[c].card.name = m)
             /\ Kept(c, m, image)
          \/ presets' = presets
    BY <1>2 DEF save_preset
  <2>2. CASE /\ Accepted(m, IF clients[c].card.name = m THEN clients[c].card.seen.preset.revision ELSE 0,
                         clients[c].card.name = m)
             /\ Kept(c, m, image)
    <3>1. m \in Names /\ clients[c].step = "open"
      BY <1>2, <2>2, AcceptedName DEF save_preset
    <3>2. presets[m] # None =>
            clients[c].card.name = m /\ clients[c].card.seen.preset.revision = presets[m].revision
      BY <2>2 DEF Accepted
    <3>3. presets[m] # None =>
            clients[c].card.seen.preset # None /\ Held(m, clients[c].card.seen)
      BY <3>1, <3>2, Holds
    <3>. QED  BY <2>2, <3>1, <3>2, <3>3, KeptReplaces
  <2>. QED  BY <1>1, <2>1, <2>2
<1>3. CASE SavesAgain(c)
  <2>1. CASE /\ Accepted(clients[c].target, clients[c].again.preset.revision, TRUE)
             /\ Kept(c, clients[c].target, clients[c].image)
    <3>1. clients[c].target \in Names /\ clients[c].step = "confirmed"
      BY <1>3, <2>1, Holds, AcceptedName DEF SavesAgain
    <3>2. presets[clients[c].target] # None =>
            clients[c].again.preset.revision = presets[clients[c].target].revision
      BY <2>1 DEF Accepted
    <3>3. clients[c].again.preset # None /\ Held(clients[c].target, clients[c].again)
      BY <3>1, Holds
    <3>4. PICK image \in Images \cup {None} : image = clients[c].image
      BY Holds DEF ClientState
    <3>5. Kept(c, clients[c].target, image)
      BY <2>1, <3>4
    <3>. QED  BY <3>1, <3>2, <3>3, <3>5, KeptReplaces
  <2>. QED  BY <1>1, <1>3, <2>1 DEF SavesAgain
<1>4. ASSUME NEW m \in Names, delete_preset(c, m)
      PROVE  Replacements(n)
  <2>1. /\ clients[c].listed[m].preset # None /\ presets[m] # None
        /\ clients[c].listed[m].preset.revision = presets[m].revision
        /\ presets' = [presets EXCEPT ![m] = None]
        /\ clients' = [clients EXCEPT ![c] = [Fresh EXCEPT !.listed = [clients[c].listed EXCEPT ![m] = Unseen]]]
    BY <1>4 DEF delete_preset
  <2>2. n # m => presets'[n] = presets[n]
    BY <2>1 DEF LibraryTypes
  <2>3. CASE n = m
    <3>1. clients'[c].listed[n] = Unseen /\ presets'[n] = None
      BY <2>1, <2>3, Holds DEF LibraryTypes, ClientState, Fresh
    <3>2. clients'[c] # clients[c]
      <4>1. clients'[c].listed[n].preset = None
        BY <3>1 DEF Unseen
      <4>. QED  BY <2>1, <2>3, <4>1
    <3>3. clients[c].listed[n].life = aux_lives[n] => clients[c].listed[n].preset = presets[n]
      BY <2>1, <2>3, Holds, HeldIsIt
    <3>. QED  BY <3>1, <3>2, <3>3 DEF Replacements
  <2>. QED  BY <2>2, <2>3 DEF Replacements
<1>. QED  BY <1>1, <1>2, <1>3, <1>4 DEF Edits, list_presets, OpensCard, ReadsAgain

\* Who replaces or deletes a preset has read what is lost by it, in the preset's
\* present life: a confirmation counts for what was read before it, whatever the
\* other clients did meanwhile.
THEOREM NobodyReplacesUnread ==
    LibrarySpec => ReplacesWhatWasRead
<1>1. LibraryInit => LibraryTypes /\ EditorsInv
  BY EditorsInit
<1>2. LibraryTypes /\ EditorsInv /\ [LibraryNext]_libraryVars => (LibraryTypes /\ EditorsInv)'
  BY EditorsStep
<1>3. LibraryTypes /\ EditorsInv /\ [LibraryNext]_libraryVars => [\A n \in Names : Replacements(n)]_libraryVars
  <2> SUFFICES ASSUME LibraryTypes, EditorsInv, LibraryNext, NEW n \in Names
               PROVE  Replacements(n)
    OBVIOUS
  <2>1. ASSUME NEW c \in Editors, Edits(c)
        PROVE  Replacements(n)
    BY <2>1, ClientReplaces
  <2>2. ASSUME UNCHANGED presets
        PROVE  Replacements(n)
    BY <2>2 DEF Replacements
  <2>. QED  BY <2>1, <2>2, StartsTouchNoClient DEF LibraryNext, Starts
<1>. QED  BY <1>1, <1>2, <1>3, PTL DEF LibrarySpec, ReplacesWhatWasRead, Replacements

\* A preset that is there is remembered as it is.
LEMMA ThereIsRemembered ==
    ASSUME NEW n \in AllNames, load_preset(n) # None, UNCHANGED presets, Remembers, start' # None
    PROVE  /\ [name |-> n, character |-> load_preset(n).character] \in aux_was'
           /\ aux_was \subseteq aux_was'
<1>1. load_preset(n)' = load_preset(n)
  BY DEF load_preset
<1>2. [name |-> n, character |-> load_preset(n)'.character] \in Now'
  BY <1>1 DEF Now
<1>. QED  BY <1>1, <1>2 DEF Remembers

\* A start that goes on unchanged, or with more remembered, stays what it is.
LEMMA StartStays ==
    ASSUME StartInv, UNCHANGED start, Remembers
    PROVE  StartInv'
<1>1. start # None => aux_was \subseteq aux_was'
  BY DEF Remembers
<1>2. ASSUME start # None
      PROVE  CastRead' /\ LinksChecked'
  <2>1. CastRead /\ LinksChecked
    BY <1>2 DEF StartInv
  <2>2. CastRead'
    BY <1>1, <1>2, <2>1 DEF CastRead
  <2>3. LinksChecked'
    BY <1>1, <1>2, <2>1 DEF LinksChecked
  <2>. QED  BY <2>2, <2>3
<1>. QED  BY <1>2 DEF StartInv

LEMMA LoadStarts ==
    ASSUME ScenariosInv, load_scenario
    PROVE  StartInv'
<1>1. \A links \in Links \cup {Shipped, Nothing} : Linked(links)
  <2>1. Linked(Nothing)
    BY DEF Linked, Nothing
  <2>. QED  BY <2>1, LibraryAssumption DEF Linked, AllNames
<1>2. PICK scenario \in Named, own \in UNION {[ids -> Characters] : ids \in SUBSET Ids},
           links \in Links \cup {Nothing} :
         start' = [reads |-> IF own = Nothing THEN scenario ELSE Nothing, cast |-> own, step |-> "reads",
                   links |-> IF links = Nothing THEN scenario ELSE links, checked |-> {}]
  BY DEF load_scenario
<1>3. scenario \in Links \cup {Shipped, Nothing}
  BY DEF Named, ScenariosInv
<1>4. PICK reads : reads = (IF own = Nothing THEN scenario ELSE Nothing)
  OBVIOUS
<1>5. PICK linked : linked = (IF links = Nothing THEN scenario ELSE links)
  OBVIOUS
<1>6. Linked(reads) /\ Linked(linked)
  BY <1>1, <1>3, <1>4, <1>5
<1>7. start' = [reads |-> reads, cast |-> own, step |-> "reads", links |-> linked, checked |-> {}]
  BY <1>2, <1>4, <1>5
<1>8. reads # Nothing => own = Nothing
  BY <1>4
<1>9. DOMAIN Nothing = {}
  BY DEF Nothing
<1>10. CastRead'
  BY <1>7, <1>8, <1>9 DEF CastRead
<1>11. LinksChecked'
  BY <1>7 DEF LinksChecked
<1>. QED  BY <1>6, <1>7, <1>10, <1>11 DEF StartInv, Linked

LEMMA ReadGoesOn ==
    ASSUME StartInv, ReadPreset, Remembers
    PROVE  StartInv'
<1> SUFFICES ASSUME start' # None
             PROVE  StartInv'
  BY DEF StartInv
<1>1. start # None /\ start.step = "reads" /\ UNCHANGED presets
  BY DEF ReadPreset, Starting
<1>2. PICK id \in Unread :
         start' = IF load_preset(start.reads[id]) = None THEN None
                  ELSE [start EXCEPT !.cast = [i \in DOMAIN start.cast \cup {id} |->
                           IF i = id THEN load_preset(start.reads[id]).character ELSE start.cast[i]]]
  BY DEF ReadPreset
<1>3. CASE load_preset(start.reads[id]) = None
  BY <1>2, <1>3 DEF StartInv
<1>4. CASE load_preset(start.reads[id]) # None
  <2>1. PICK character : character = load_preset(start.reads[id]).character
    OBVIOUS
  <2>2. PICK cast : cast = [i \in DOMAIN start.cast \cup {id} |-> IF i = id THEN character ELSE start.cast[i]]
    OBVIOUS
  <2>3. start' = [start EXCEPT !.cast = cast]
    BY <1>2, <1>4, <2>1, <2>2
  <2>4. /\ start = [reads |-> start.reads, cast |-> start.cast, step |-> start.step,
                    links |-> start.links, checked |-> start.checked]
        /\ Linked(start.reads) /\ Linked(start.links) /\ CastRead
    BY <1>1 DEF StartInv
  <2>5. start' = [reads |-> start.reads, cast |-> cast, step |-> "reads",
                  links |-> start.links, checked |-> start.checked]
    BY <1>1, <2>3, <2>4
  <2>7. start.reads[id] \in AllNames /\ id \in DOMAIN start.reads
    BY <2>4 DEF Linked, Unread
  <2>8. /\ [name |-> start.reads[id], character |-> character] \in aux_was'
        /\ aux_was \subseteq aux_was'
    BY <1>1, <1>4, <2>1, <2>7, ThereIsRemembered
  <2>9. CastRead'
    <3>1. start.reads # Nothing
      BY <2>7 DEF Nothing
    <3>2. DOMAIN cast = DOMAIN start.cast \cup {id}
      BY <2>2
    <3>3. ASSUME NEW i \in DOMAIN cast
          PROVE  [name |-> start.reads[i], character |-> cast[i]] \in aux_was'
      <4>1. CASE i = id
        BY <2>2, <2>8, <3>3, <4>1
      <4>2. CASE i # id
        <5>1. i \in DOMAIN start.cast /\ cast[i] = start.cast[i]
          BY <2>2, <3>2, <3>3, <4>2
        <5>. QED  BY <2>4, <2>8, <3>1, <5>1 DEF CastRead
      <4>. QED  BY <4>1, <4>2
    <3>4. DOMAIN cast \subseteq DOMAIN start.reads
      BY <2>4, <2>7, <3>1, <3>2 DEF CastRead
    <3>5. start'.reads = start.reads /\ start'.cast = cast
      BY <2>5
    <3>. QED  BY <3>3, <3>4, <3>5 DEF CastRead
  <2>10. LinksChecked'
    BY <1>1, <2>5 DEF LinksChecked, StartInv
  <2>. QED  BY <2>4, <2>5, <2>9, <2>10 DEF StartInv, Linked
<1>. QED  BY <1>3, <1>4

LEMMA AskingGoesOn ==
    ASSUME StartInv, AsksLinks, Remembers
    PROVE  StartInv'
<1> SUFFICES ASSUME start' # None
             PROVE  StartInv'
  BY DEF StartInv
<1>1. /\ start # None /\ start.step = "reads" /\ Unread = {}
      /\ LinksFit(start.links, start.cast) /\ start' = [start EXCEPT !.step = "checks"]
  BY DEF AsksLinks, Starting
<1>2. /\ start = [reads |-> start.reads, cast |-> start.cast, step |-> start.step,
                  links |-> start.links, checked |-> start.checked]
      /\ Linked(start.reads) /\ Linked(start.links) /\ CastRead
  BY <1>1 DEF StartInv
<1>3. start' = [reads |-> start.reads, cast |-> start.cast, step |-> "checks",
                links |-> start.links, checked |-> start.checked]
  BY <1>1, <1>2
<1>4. aux_was \subseteq aux_was'
  BY DEF Remembers
<1>5. CastRead'
  BY <1>2, <1>3, <1>4 DEF CastRead
<1>6. start.checked = {}
  BY <1>1 DEF StartInv, LinksChecked
<1>7. LinksChecked'
  BY <1>1, <1>3, <1>6 DEF LinksChecked, Unread
<1>. QED  BY <1>2, <1>3, <1>5, <1>7 DEF StartInv, Linked

LEMMA CheckingGoesOn ==
    ASSUME StartInv, ChecksLink, Remembers
    PROVE  StartInv'
<1> SUFFICES ASSUME start' # None
             PROVE  StartInv'
  BY DEF StartInv
<1>1. start # None /\ start.step = "checks" /\ UNCHANGED presets
  BY DEF ChecksLink, Starting
<1>2. PICK id \in DOMAIN start.links :
         load_preset(start.links[id]) # None /\ start' = [start EXCEPT !.checked = @ \cup {id}]
  BY DEF ChecksLink
<1>3. /\ start = [reads |-> start.reads, cast |-> start.cast, step |-> start.step,
                  links |-> start.links, checked |-> start.checked]
      /\ Linked(start.reads) /\ Linked(start.links) /\ CastRead /\ LinksChecked
  BY <1>1 DEF StartInv
<1>4. start' = [reads |-> start.reads, cast |-> start.cast, step |-> "checks",
                links |-> start.links, checked |-> start.checked \cup {id}]
  BY <1>1, <1>2, <1>3
<1>5. start.links[id] \in AllNames
  BY <1>2, <1>3 DEF Linked
<1>6. /\ [name |-> start.links[id], character |-> load_preset(start.links[id]).character] \in aux_was'
      /\ aux_was \subseteq aux_was'
  BY <1>1, <1>2, <1>5, ThereIsRemembered
<1>7. CastRead'
  BY <1>3, <1>4, <1>6 DEF CastRead
<1>8. \A i \in start.checked \cup {id} : \E was \in aux_was' : was.name = start.links[i]
  <2>1. \E was \in aux_was' : was.name = start.links[id]
    BY <1>6
  <2>2. \A i \in start.checked : \E was \in aux_was' : was.name = start.links[i]
    BY <1>1, <1>3, <1>6 DEF LinksChecked
  <2>. QED  BY <2>1, <2>2
<1>9. LinksChecked'
  <2>1. /\ LinksFit(start.links, start.cast) /\ DOMAIN start.reads \subseteq DOMAIN start.cast
        /\ start.checked \cup {id} \subseteq DOMAIN start.links
    BY <1>1, <1>2, <1>3 DEF LinksChecked
  <2>. QED  BY <1>4, <1>8, <2>1 DEF LinksChecked
<1>. QED  BY <1>3, <1>4, <1>7, <1>9 DEF StartInv, Linked

LEMMA StartsStep ==
    ScenariosInv /\ StartInv /\ [LibraryNext]_libraryVars => ScenariosInv' /\ StartInv'
<1> SUFFICES ASSUME ScenariosInv, StartInv, [LibraryNext]_libraryVars
             PROVE  ScenariosInv' /\ StartInv'
  OBVIOUS
<1>1. CASE UNCHANGED libraryVars
  BY <1>1 DEF libraryVars, ScenariosInv, StartInv, CastRead, LinksChecked
<1>2. ASSUME NEW c \in Editors, Edits(c), Remembers
      PROVE  ScenariosInv' /\ StartInv'
  <2>1. UNCHANGED <<scenarios, start>>
    BY <1>2 DEF Edits, list_presets, OpensCard, save_preset, ReadsAgain, SavesAgain, delete_preset
  <2>. QED  BY <1>2, <2>1, StartStays DEF ScenariosInv
<1>3. ASSUME NEW s \in Scenarios, put_scenario(s) \/ delete_scenario(s), Remembers
      PROVE  ScenariosInv' /\ StartInv'
  <2>1. ScenariosInv'
    BY <1>3 DEF ScenariosInv, put_scenario, delete_scenario
  <2>2. UNCHANGED start
    BY <1>3 DEF put_scenario, delete_scenario
  <2>. QED  BY <1>3, <2>1, <2>2, StartStays
<1>4. UNCHANGED scenarios => ScenariosInv'
  BY DEF ScenariosInv
<1>5. CASE load_scenario
  BY <1>4, <1>5, LoadStarts DEF load_scenario
<1>6. CASE ReadPreset /\ Remembers
  BY <1>4, <1>6, ReadGoesOn DEF ReadPreset
<1>7. CASE AsksLinks /\ Remembers
  BY <1>4, <1>7, AskingGoesOn DEF AsksLinks
<1>8. CASE ChecksLink /\ Remembers
  BY <1>4, <1>8, CheckingGoesOn DEF ChecksLink
<1>9. CASE SavesSession
  BY <1>4, <1>9 DEF SavesSession, StartInv
<1>. QED  BY <1>1, <1>2, <1>3, <1>5, <1>6, <1>7, <1>8, <1>9 DEF LibraryNext

\* What a step that makes a session makes of its start.
MadeWhole ==
    session = None /\ session' # None =>
         LET links == session'.links
             cast == session'.cast
         IN  /\ DOMAIN links \subseteq DOMAIN cast /\ IsInjective(links)
             /\ \A id \in DOMAIN links : \E was \in aux_was : was.name = links[id]
             /\ start.reads # Nothing =>
                  /\ DOMAIN cast = DOMAIN start.reads
                  /\ \A id \in DOMAIN cast : [name |-> start.reads[id], character |-> cast[id]] \in aux_was

LEMMA SessionIsMadeWhole ==
    ASSUME StartInv, LibraryNext
    PROVE  MadeWhole
<1>1. ASSUME UNCHANGED session
      PROVE  MadeWhole
  BY <1>1 DEF MadeWhole
<1>2. ASSUME NEW c \in Editors, Edits(c)
      PROVE  UNCHANGED session
  BY <1>2 DEF Edits, list_presets, OpensCard, save_preset, ReadsAgain, SavesAgain, delete_preset
<1>3. CASE SavesSession
  <2>1. /\ start # None /\ start.step = "checks" /\ start.checked = DOMAIN start.links
        /\ session' = [links |-> start.links, cast |-> start.cast]
    BY <1>3 DEF SavesSession, Starting
  <2>2. CastRead /\ LinksChecked
    BY <2>1 DEF StartInv
  <2>3. session'.links = start.links /\ session'.cast = start.cast
    BY <2>1
  <2>4. /\ DOMAIN start.links \subseteq DOMAIN start.cast /\ IsInjective(start.links)
        /\ \A id \in DOMAIN start.links : \E was \in aux_was : was.name = start.links[id]
    BY <2>1, <2>2 DEF LinksChecked, LinksFit
  <2>5. start.reads # Nothing =>
            /\ DOMAIN start.cast = DOMAIN start.reads
            /\ \A id \in DOMAIN start.cast : [name |-> start.reads[id], character |-> start.cast[id]] \in aux_was
    BY <2>1, <2>2 DEF CastRead, LinksChecked
  <2>. QED  BY <2>3, <2>4, <2>5 DEF MadeWhole
<1>5. ASSUME NEW s \in Scenarios, put_scenario(s) \/ delete_scenario(s)
      PROVE  UNCHANGED session
  BY <1>5 DEF put_scenario, delete_scenario
<1>6. ReadPreset \/ AsksLinks \/ ChecksLink => UNCHANGED session
  BY DEF ReadPreset, AsksLinks, ChecksLink
<1>7. load_scenario => session' = None
  BY DEF load_scenario
<1>. QED  BY <1>1, <1>2, <1>3, <1>5, <1>6, <1>7 DEF LibraryNext, MadeWhole

\* A session that is made links only its own cast, no preset twice and only presets
\* that were there at some moment of its start; and a cast that was read is the whole
\* of its scenario's, each character as its preset was at some such moment, though
\* any preset may be saved, deleted or made anew between two reads.
THEOREM SessionsHaveTheirCast ==
    LibrarySpec => CastIsWhole
<1>1. LibraryInit => ScenariosInv /\ StartInv
  BY DEF LibraryInit, ScenariosInv, StartInv
<1>2. ScenariosInv /\ StartInv /\ [LibraryNext]_libraryVars => (ScenariosInv /\ StartInv)'
  BY StartsStep
<1>3. ScenariosInv /\ StartInv /\ [LibraryNext]_libraryVars => [MadeWhole]_libraryVars
  BY SessionIsMadeWhole
<1>. QED  BY <1>1, <1>2, <1>3, PTL DEF LibrarySpec, CastIsWhole, MadeWhole
=============================================================================
