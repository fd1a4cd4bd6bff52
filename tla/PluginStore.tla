---------------------------- MODULE PluginStore ----------------------------
(***************************************************************************)
(* The plugin packages on disk: the synced catalog, the cache of installed  *)
(* releases, the activation pointers and the Python environment built for   *)
(* the active ones, changed by requests that run on threads of their own.   *)
(* The store's lock covers a change of the pointers or of the cache; the     *)
(* environment is rebuilt outside it by every request but a switch.  The     *)
(* process may die between any two steps.                                   *)
(***************************************************************************)
EXTENDS Integers, Sequences, FiniteSets, Functions, Versions

CONSTANTS
    Threads,
    Releases,     \* records: what a ZIP holds, [id, version, build]
    Needs,        \* the Python requirements of each release
    Catalogs,     \* what the hub may publish
    Experiences,  \* sequences of sets: for each plugin, the releases that will do
    Default       \* DEFAULT_EXPERIENCE_ID: the one the first boot applies

Ids == {r.id : r \in Releases}

\* parse_experience: each of its plugins is named once, with a version or without.
ParsedExperience(e) ==
    /\ e \in Seq(SUBSET Releases)
    /\ \A k \in DOMAIN e : \E i \in Ids : e[k] \subseteq {r \in Releases : r.id = i}
    /\ \A k, n \in DOMAIN e : k # n => {r.id : r \in e[k]} \cap {r.id : r \in e[n]} = {}

\* A snapshot is taken over whole or not at all: no release of it comes twice.
ValidatedSnapshot(c) ==
    /\ c \subseteq Releases
    /\ \A r, s \in c : r.id = s.id /\ r.version = s.version => r = s

ASSUME StoreAssumption ==
    /\ \A r \in Releases : r.version \in SemanticVersion /\ r.build \in Nat
    /\ \A c \in Catalogs : IsFiniteSet(c)
    /\ \A e \in Experiences \cup {Default} : ParsedExperience(e)

VARIABLES
    catalog,   \* the releases of the hub's snapshot, empty while it is being replaced
    disk,      \* what is left of each release in the cache
    pointer,   \* the active release of each plugin
    env,       \* the requirements the environment holds, or Missing
    lock,      \* _lock
    op,        \* what each thread is at
    boot,      \* "off", then "running" until requests are served: "up"
    marker     \* bootstrap.json is there

vars == <<catalog, disk, pointer, env, lock, op, boot, marker>>

None == [id |-> "none"]
Missing == {"missing"}
Free == "free"

ASSUME NameAssumption == Free \notin Threads /\ None \notin Releases

Nothing == [i \in Ids |-> None]

NoOp == [kind |-> "none", step |-> "idle", release |-> None, previous |-> Nothing,
         built |-> {}, lacking |-> <<>>, rest |-> <<>>, before |-> {}, boot |-> FALSE]

At(t, step) == op[t].step = step

-----------------------------------------------------------------------------
(* What is installed and active *)

\* A tree that was being removed when the process died may still look like a
\* package (its manifest and entry points are there) or not.
Validates(r) == disk[r] \in {"whole", "torn, looks whole"}

installed_plugins == {r \in Releases : Validates(r)}

\* The newest of the releases of a plugin and, of its builds, the last by hash.
Newest(rs) == CHOOSE r \in rs : \A s \in rs :
                Less(s.version, r.version) \/ (Same(s.version, r.version) /\ s.build <= r.build)

Active == {i \in Ids : pointer[i] # None}

\* The requirements of the releases a set of pointers names.
Requirements(p) == UNION {Needs[p[i]] : i \in {j \in Ids : p[j] # None}}

\* Requests come once the process is up.
Idle(t) == boot = "up" /\ At(t, "idle")

Rebuilding(o) == [NoOp EXCEPT !.kind = "rebuild", !.step = "rebuild", !.boot = o.boot]

\* Mutant: the first boot leaves its mark when its work was tried.
Marked_tried(t, done) == marker \/ op[t].boot

\* The work of the first boot leaves its mark when all of it was done, and the
\* process comes up whether it was or not.
Marked(t, done) == IF op[t].boot THEN marker \/ done ELSE marker

Ends(t, done) ==
    /\ op' = [op EXCEPT ![t] = NoOp]
    /\ boot' = IF op[t].boot THEN "up" ELSE boot
    /\ marker' = Marked(t, done)

Becomes(t, o) == op' = [op EXCEPT ![t] = o] /\ UNCHANGED <<boot, marker>>

Goes(t, step) == Becomes(t, [op[t] EXCEPT !.step = step])

Release(t) == lock' = IF lock = t THEN Free ELSE lock

-----------------------------------------------------------------------------
(* Packages *)

\* A directory that is there is taken for the package.
Installed(r) == [disk EXCEPT ![r] = IF @ = "absent" THEN "whole" ELSE @]

\* An upload, or a release of the catalog.
install_zip(t) ==
    /\ Idle(t) /\ lock = Free
    /\ \E r \in Releases : disk' = Installed(r)
    /\ UNCHANGED <<catalog, pointer, env, lock, op, boot, marker>>

\* The pointer goes first, then the tree.
uninstall(t) ==
    /\ Idle(t) /\ lock = Free
    /\ \E r \in installed_plugins :
          Becomes(t, [NoOp EXCEPT !.kind = "uninstall", !.step = "unlink", !.release = r])
    /\ lock' = t
    /\ UNCHANGED <<catalog, disk, pointer, env>>

UnlinkPointer(t) ==
    /\ At(t, "unlink")
    /\ pointer' = [pointer EXCEPT ![op[t].release.id] = IF @ = op[t].release THEN None ELSE @]
    /\ Becomes(t, [op[t] EXCEPT !.step = "remove", !.kind = IF pointer' # pointer THEN "deactivate" ELSE @])
    /\ UNCHANGED <<catalog, disk, env, lock>>

\* The environment is rebuilt, without the lock, if the release was active.
RemoveTree(t) ==
    /\ At(t, "remove")
    /\ disk' = [disk EXCEPT ![op[t].release] = "absent"]
    /\ lock' = Free
    /\ Becomes(t, IF op[t].kind = "deactivate" THEN Rebuilding(op[t]) ELSE NoOp)
    /\ UNCHANGED <<catalog, pointer, env>>

-----------------------------------------------------------------------------
(* The environment *)

\* rebuild_environment() of the active set, as it is read here.
rebuild_environment(t) ==
    /\ At(t, "rebuild") /\ lock = Free
    /\ Becomes(t, [op[t] EXCEPT !.step = "build", !.previous = pointer, !.built = Requirements(pointer)])
    /\ UNCHANGED <<catalog, disk, pointer, env, lock>>

\* After the environment: a switch writes its pointer, a switch that failed has
\* put the environment back and ends, every other request ends.
AfterEnv(t) ==
    IF op[t].kind \in {"switch", "update"} THEN Goes(t, "switch") /\ UNCHANGED lock
    ELSE Ends(t, TRUE) /\ Release(t)

\* Built in a directory of its own, unless it is the one that is there.
BuildEnv(t) ==
    /\ At(t, "build")
    /\ IF env = op[t].built THEN AfterEnv(t)
       ELSE Goes(t, "swap out") /\ UNCHANGED lock
    /\ UNCHANGED <<catalog, disk, pointer, env>>

\* uv fails: the request does.
BuildFails(t) ==
    /\ At(t, "build") /\ env # op[t].built /\ op[t].built # {}
    /\ Ends(t, FALSE) /\ Release(t)
    /\ UNCHANGED <<catalog, disk, pointer, env>>

SwapOut(t) ==
    /\ At(t, "swap out")
    /\ env' = Missing
    /\ Goes(t, "swap in")
    /\ UNCHANGED <<catalog, disk, pointer, lock>>

\* A directory cannot take the place of another thread's.
SwapIn(t) ==
    /\ At(t, "swap in")
    /\ IF env = Missing THEN env' = op[t].built /\ AfterEnv(t)
       ELSE UNCHANGED env /\ Ends(t, FALSE) /\ Release(t)
    /\ UNCHANGED <<catalog, disk, pointer>>

-----------------------------------------------------------------------------
(* Activation *)

\* The environment of the proposed set first, then the pointer.
Switch(t, kind, r) ==
    /\ lock' = t
    /\ Becomes(t, [NoOp EXCEPT !.kind = kind, !.step = "build", !.release = r, !.previous = pointer,
                                !.built = Requirements([pointer EXCEPT ![r.id] = r])])

\* A release named, or the newest.
switch_activation(t) ==
    /\ Idle(t) /\ lock = Free
    /\ \E r \in installed_plugins : Switch(t, "switch", r)
    /\ UNCHANGED <<catalog, disk, pointer, env>>

Cached(i) == {r \in installed_plugins : r.id = i}

\* What an update is compared with: the active release or else the newest and,
\* of its builds, the first by hash.
FirstNewest(rs) == CHOOSE r \in rs : \A s \in rs :
                     Less(s.version, r.version) \/ (Same(s.version, r.version) /\ r.build <= s.build)

Reference(i) == IF pointer[i] \in Cached(i) THEN pointer[i] ELSE FirstNewest(Cached(i))

\* Mutant: compared with whatever is in the cache.
Accepts_overall(r) ==
    /\ Cached(r.id) # {}
    /\ \A s \in Cached(r.id) : Greater(r.version, s.version)

\* Neither a downgrade, nor another build of the same version.
Accepts(r) ==
    /\ Cached(r.id) # {}
    /\ \/ Greater(r.version, Reference(r.id).version)
       \/ Same(r.version, Reference(r.id).version) /\ r.build = Reference(r.id).build

\* Installed if it is not, and switched to, under one lock.
update_curated(t) ==
    /\ Idle(t) /\ lock = Free
    /\ \E r \in catalog :
        /\ Accepts(r)
        /\ disk' = Installed(r)
        /\ disk'[r] # "torn"
        /\ Switch(t, "update", r)
    /\ UNCHANGED <<catalog, pointer, env>>

SwitchPointer(t) ==
    /\ At(t, "switch")
    /\ pointer' = [pointer EXCEPT ![op[t].release.id] = op[t].release]
    /\ Ends(t, TRUE) /\ Release(t)
    /\ UNCHANGED <<catalog, disk, env>>

\* The pointer cannot be written: the environment goes back.
SwitchFails(t) ==
    /\ At(t, "switch")
    /\ Becomes(t, [op[t] EXCEPT !.kind = "back out", !.step = "build", !.built = Requirements(op[t].previous)])
    /\ UNCHANGED <<catalog, disk, pointer, env, lock>>

deactivate(t) ==
    /\ Idle(t) /\ lock = Free
    /\ \E i \in Active : pointer' = [pointer EXCEPT ![i] = None]
    /\ Becomes(t, Rebuilding(op[t]))
    /\ UNCHANGED <<catalog, disk, env, lock>>

-----------------------------------------------------------------------------
(* What a client is shown: plugin_inventory *)

Offered(i) == {r \in catalog : r.id = i}

\* The active release, or else the newest and, of its builds, the last by hash.
Shown(i) == IF pointer[i] \in Cached(i) THEN pointer[i] ELSE Newest(Cached(i))

plugin_state(i) ==
    IF Offered(i) = {} THEN "current"
    ELSE IF Cached(i) = {} THEN "not_installed"
    ELSE LET candidate == Newest(Offered(i))
             relation  == compare_versions(candidate.version, Shown(i).version)
         IN  CASE relation = 0 /\ candidate.build # Shown(i).build -> "release_conflict"
               [] relation > 0 -> "update_available"
               [] relation < 0 -> "catalog_older"
               [] relation = 0 /\ candidate = pointer[i] -> "current"
               [] OTHER -> "candidate_available"

-----------------------------------------------------------------------------
(* Experiences *)

\* What the Experience lacks is found first.
Applying(e) == [NoOp EXCEPT !.kind = "experience", !.step = "install", !.rest = e,
                  !.lacking = SelectSeq(e, LAMBDA wanted : wanted \cap installed_plugins = {})]

activate_experience(t) ==
    /\ Idle(t) /\ lock = Free
    /\ \A u \in Threads : op[u].kind # "experience"
    /\ \E e \in Experiences : Becomes(t, Applying(e))
    /\ UNCHANGED <<catalog, disk, pointer, env, lock>>

\* Then installed from the catalog, one by one; the request fails at the first
\* one the catalog does not have.
install_curated(t) ==
    /\ At(t, "install") /\ lock = Free
    /\ IF op[t].lacking = <<>> THEN Goes(t, "others") /\ UNCHANGED disk
       ELSE LET matches == Head(op[t].lacking) \cap catalog
            IN  IF matches = {} THEN Ends(t, FALSE) /\ UNCHANGED disk
                ELSE /\ \E r \in matches : disk' = Installed(r)
                     /\ Becomes(t, [op[t] EXCEPT !.lacking = Tail(@)])
    /\ UNCHANGED <<catalog, pointer, env, lock>>

\* The plugins it does not name are deactivated one by one.
DeactivateOthers(t) ==
    /\ At(t, "others") /\ lock = Free
    /\ LET desired == {r.id : r \in UNION Range(op[t].rest)}
           others == Active \ desired
       IN  IF others # {}
           THEN \E i \in others : pointer' = [pointer EXCEPT ![i] = None] /\ UNCHANGED <<op, boot, marker>>
           ELSE Goes(t, "activate") /\ UNCHANGED pointer
    /\ UNCHANGED <<catalog, disk, env, lock>>

\* Mutant: what was there or was installed when the Experience began is activated.
Selected_unchecked(wanted) == wanted

Selected(wanted) == wanted \cap installed_plugins

\* Then its own are activated one by one, the newest that is still installed.
activate(t) ==
    /\ At(t, "activate") /\ lock = Free
    /\ IF op[t].rest = <<>> THEN Becomes(t, Rebuilding(op[t])) /\ UNCHANGED pointer
       ELSE LET found == Selected(Head(op[t].rest))
            IN  IF found = {} THEN Ends(t, FALSE) /\ UNCHANGED pointer
                ELSE LET r == Newest(found)
                     IN  /\ pointer' = [pointer EXCEPT ![r.id] = r]
                         /\ Becomes(t, [op[t] EXCEPT !.rest = Tail(@)])
    /\ UNCHANGED <<catalog, disk, env, lock>>

-----------------------------------------------------------------------------
(* The hub and the process *)

\* _locked_hub: one thread or process at a time syncs.
HubFree == \A u \in Threads : op[u].kind # "sync"

\* The snapshot is moved away and the new one moved in: there is none between,
\* nor after a death between.
Syncing(o) == [o EXCEPT !.kind = "sync", !.step = "publish", !.before = catalog]

sync_hub(t) ==
    /\ \/ Idle(t) /\ Becomes(t, Syncing(NoOp))
       \/ At(t, "sync") /\ Becomes(t, Syncing(op[t]))
    /\ HubFree
    /\ catalog' = {}
    /\ UNCHANGED <<disk, pointer, env, lock>>

PublishSnapshot(t) ==
    /\ At(t, "publish")
    /\ catalog' \in {c \in Catalogs : ValidatedSnapshot(c)}
    /\ Goes(t, "save")
    /\ UNCHANGED <<disk, pointer, env, lock>>

\* If its Experiences cannot be written the one before comes back.
SaveExperiences(t) ==
    /\ At(t, "save")
    /\ catalog' \in {catalog, op[t].before}
    /\ IF op[t].boot THEN Goes(t, "synced") ELSE Ends(t, TRUE)
    /\ UNCHANGED <<disk, pointer, env, lock>>

SyncFails(t) ==
    /\ At(t, "sync")
    /\ Goes(t, "synced")
    /\ UNCHANGED <<catalog, disk, pointer, env, lock>>

-----------------------------------------------------------------------------
(* The process *)

\* The first boot, until one has gone through, syncs the hub and applies the
\* default Experience before requests are served.
Boot(t) ==
    /\ boot = "off"
    /\ IF marker THEN boot' = "up" /\ UNCHANGED op
       ELSE boot' = "running" /\ op' = [op EXCEPT ![t] = [NoOp EXCEPT !.kind = "boot", !.step = "sync", !.boot = TRUE]]
    /\ UNCHANGED <<catalog, disk, pointer, env, lock, marker>>

\* ensure_hub_synced: without a new snapshot the one there is will do, if there
\* is one and the Experience was saved with it.
ApplyDefault(t) ==
    /\ At(t, "synced")
    /\ \/ Ends(t, FALSE)
       \/ catalog # {} /\ Becomes(t, [Applying(Default) EXCEPT !.boot = TRUE])
    /\ UNCHANGED <<catalog, disk, pointer, env, lock>>

\* A tree that was being removed is left in part.
Crash ==
    /\ boot' = "off"
    /\ boot # "off"
    /\ op' = [t \in Threads |-> NoOp]
    /\ lock' = Free
    /\ LET removing == {op[t].release : t \in {u \in Threads : At(u, "remove")}}
       IN  disk' \in {[r \in Releases |-> IF r \in removing THEN left ELSE disk[r]] :
                        left \in {"whole", "torn", "torn, looks whole"}}
    /\ UNCHANGED <<catalog, pointer, env, marker>>

-----------------------------------------------------------------------------
Init ==
    /\ catalog = {}
    /\ disk = [r \in Releases |-> "absent"]
    /\ pointer = [i \in Ids |-> None]
    /\ env = Missing
    /\ lock = Free
    /\ op = [t \in Threads |-> NoOp]
    /\ boot = "off" /\ marker = FALSE

Next ==
    \/ \E t \in Threads :
        \/ install_zip(t) \/ uninstall(t) \/ UnlinkPointer(t) \/ RemoveTree(t)
        \/ rebuild_environment(t) \/ BuildEnv(t) \/ BuildFails(t) \/ SwapOut(t) \/ SwapIn(t)
        \/ switch_activation(t) \/ update_curated(t) \/ SwitchPointer(t) \/ SwitchFails(t)
        \/ deactivate(t) \/ activate_experience(t) \/ install_curated(t) \/ DeactivateOthers(t) \/ activate(t)
        \/ sync_hub(t) \/ PublishSnapshot(t) \/ SaveExperiences(t) \/ SyncFails(t)
        \/ Boot(t) \/ ApplyDefault(t)
    \/ Crash

Spec == Init /\ [][Next]_vars

-----------------------------------------------------------------------------
(* Properties *)

\* An active release is in the cache: no order of requests, and no death between
\* their steps, leaves a pointer to a package that is gone or does not validate.
ActiveIsInstalled == \A i \in Active : pointer[i] \in installed_plugins

\* An update the client is offered, the server takes, as long as nothing has
\* changed in between: the inventory and update_curated compare the same
\* releases, whichever are cached, active, torn or in the catalog.
OfferedUpdateIsTaken ==
    \A i \in Ids : plugin_state(i) = "update_available" => Accepts(Newest(Offered(i)))

\* The marker records that the default Experience was installed: when it is
\* written, whatever failed or died in this boot or an earlier one, each of its
\* plugins is active and the environment is the active set's
\* (prepare_runtime_config).
MarkerMeansReady ==
    [][marker' # marker =>
          /\ \A k \in DOMAIN Default : \E i \in Active : pointer[i] \in Default[k]
          /\ env' = Requirements(pointer)]_vars
=============================================================================
