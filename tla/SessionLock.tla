---------------------------- MODULE SessionLock ----------------------------
(***************************************************************************)
(* The requests of one session and the lock they share.                    *)
(*                                                                         *)
(* A request loads the session, awaits models and plugins, and saves from  *)
(* its own copy, once for each beat: nothing but the lock keeps another    *)
(* request from saving in between.  The lock is looked up in a registry    *)
(* that holds it only weakly, so which object it is depends on who still   *)
(* refers to it.  A step is what a task does between two awaits.           *)
(*                                                                         *)
(* asyncio.Lock is modelled as its documentation and CPython have it: a    *)
(* released lock is not handed over, its first waiter is woken and takes   *)
(* it when it next runs.                                                   *)
(***************************************************************************)
EXTENDS Integers, Sequences, SequencesExt

CONSTANTS
    Requests,   \* request slots: each serves one request after another
    Locks,      \* lock objects
    NoLock,
    Gone,       \* the session's directory does not exist
    MaxCommits  \* bound: no save beyond this many commits

ASSUME LockAssumption == Locks # {} /\ NoLock \notin Locks
ASSUME BoundAssumption == MaxCommits \in Nat

VARIABLES
    registry,   \* the lock the registry holds for the session
    locked,     \* of each lock object, whether it is held
    waiters,    \* ... and who waits for it, first come first
    status,     \* of each request, where it is
    kind,       \* ... what it does
    lock_of,    \* ... and the lock object it refers to
    copy,       \* ... and what it last loaded or saved
    store       \* state.json: who made each commit, or Gone

lockvars == <<registry, locked, waiters>>
vars == <<registry, locked, waiters, status, kind, lock_of, copy, store>>

-----------------------------------------------------------------------------
(* Types *)

Kinds == {"turn", "delete", "read"}

\* queued: its future is pending; woken: it is done, and the lock can be taken;
\* cancelled: it is cancelled; interrupted: cancelled after it was woken.
Waiting == {"queued", "woken", "cancelled", "interrupted"}
Status == {"idle", "inside"} \cup Waiting

Content == Seq(Requests) \cup {Gone}

TypeOK ==
    /\ registry \in Locks \cup {NoLock}
    /\ locked \in [Locks -> BOOLEAN]
    /\ waiters \in [Locks -> Seq(Requests)]
    /\ status \in [Requests -> Status]
    /\ kind \in [Requests -> Kinds \cup {"none"}]
    /\ lock_of \in [Requests -> Locks \cup {NoLock}]
    /\ \A r \in Requests : lock_of[r] = NoLock <=> status[r] = "idle"
    /\ copy \in [Requests -> Content]
    /\ store \in Content

-----------------------------------------------------------------------------
(* The registry *)

Referenced(l) == \E r \in Requests : lock_of[r] = l

\* Every request of a session runs inside its lock.
\* Mutant: a session is deleted at once.
TakesLock_notDelete(what) == what # "delete"

TakesLock(what) == what \in Kinds

NewLock == CHOOSE l \in Locks : ~Referenced(l) /\ l # registry

\* Mutant: a lock nobody holds is forgotten, waiters or not.
session_lock_ifHeld == IF registry # NoLock /\ locked[registry] THEN registry ELSE NewLock

session_lock == IF registry # NoLock THEN registry ELSE NewLock

\* The registry's reference is weak: a lock nobody refers to is collected.
Collect ==
    /\ registry # NoLock
    /\ ~Referenced(registry)
    /\ registry' = NoLock
    /\ UNCHANGED <<locked, waiters, status, kind, lock_of, copy, store>>

-----------------------------------------------------------------------------
(* asyncio.Lock *)

\* Who is woken when l is free: its first waiter, unless that one's future is
\* already done; then it is woken by that one, when it unwinds.
Woken(l, queue, at) ==
    IF queue # <<>> /\ at[Head(queue)] = "queued"
    THEN [at EXCEPT ![Head(queue)] = "woken"] ELSE at

MayAcquire(l) ==
    ~locked[l] /\ \A i \in DOMAIN waiters[l] : status[waiters[l][i]] = "cancelled"

\* A request holds the lock and loads the session, with no await in between.
Enter(r, l) ==
    /\ locked' = [locked EXCEPT ![l] = TRUE]
    /\ copy' = [copy EXCEPT ![r] = store]

\* The waiter runs again and takes the lock.
Resume(r) ==
    /\ status[r] = "woken"
    /\ waiters' = [waiters EXCEPT ![lock_of[r]] = RemoveFirst(@, r)]
    /\ Enter(r, lock_of[r])
    /\ status' = [status EXCEPT ![r] = "inside"]
    /\ UNCHANGED <<registry, kind, lock_of, store>>

\* A cancelled waiter runs again: it leaves, and wakes the next if it may.
Unwind(r) ==
    /\ status[r] \in {"cancelled", "interrupted"}
    /\ LET l == lock_of[r]
           queue == RemoveFirst(waiters[l], r)
           left == [status EXCEPT ![r] = "idle"]
       IN  /\ waiters' = [waiters EXCEPT ![l] = queue]
           /\ status' = IF locked[l] THEN left ELSE Woken(l, queue, left)
    /\ lock_of' = [lock_of EXCEPT ![r] = NoLock]
    /\ kind' = [kind EXCEPT ![r] = "none"]
    /\ UNCHANGED <<registry, locked, copy, store>>

\* Mutant: the finished request keeps its lock object.
LockAfter_kept(r) == lock_of

LockAfter(r) == [lock_of EXCEPT ![r] = NoLock]

\* The request leaves the lock, and drops its copy of the session.
Release(r, held) ==
    LET l == lock_of[r]
        left == [status EXCEPT ![r] = "idle"]
    IN  /\ locked' = [locked EXCEPT ![l] = held]
        /\ status' = IF held THEN left ELSE Woken(l, waiters[l], left)
        /\ lock_of' = LockAfter(r)
        /\ kind' = [kind EXCEPT ![r] = "none"]
        /\ copy' = [copy EXCEPT ![r] = <<>>]

-----------------------------------------------------------------------------
Init ==
    /\ registry = NoLock
    /\ locked = [l \in Locks |-> FALSE]
    /\ waiters = [l \in Locks |-> <<>>]
    /\ status = [r \in Requests |-> "idle"]
    /\ kind = [r \in Requests |-> "none"]
    /\ lock_of = [r \in Requests |-> NoLock]
    /\ copy = [r \in Requests |-> <<>>]
    /\ store = <<>>

\* A request arrives: it enters at once or waits its turn.
Arrive(r, what) ==
    /\ status[r] = "idle"
    /\ kind' = [kind EXCEPT ![r] = what]
    /\ LET l == session_lock IN
        /\ registry' = l
        /\ lock_of' = [lock_of EXCEPT ![r] = l]
        /\ IF MayAcquire(l) \/ ~TakesLock(what)
           THEN /\ Enter(r, l)
                /\ status' = [status EXCEPT ![r] = "inside"]
                /\ UNCHANGED waiters
           ELSE /\ waiters' = [waiters EXCEPT ![l] = Append(@, r)]
                /\ status' = [status EXCEPT ![r] = "queued"]
                            /\ UNCHANGED <<locked, copy>>
    /\ UNCHANGED store

\* A turn saves a beat, from its own copy; saving creates the directory it needs.
Save(r) ==
    /\ status[r] = "inside" /\ kind[r] = "turn"
    /\ copy[r] # Gone
    /\ Len(copy[r]) < MaxCommits
    /\ store' = Append(copy[r], r)
    /\ copy' = [copy EXCEPT ![r] = Append(@, r)]
    /\ UNCHANGED <<lockvars, status, kind, lock_of>>

\* The request has done what it does and returns; a deletion does it all at once.
Finish(r) ==
    /\ status[r] = "inside"
    /\ store' = IF kind[r] = "delete" THEN Gone ELSE store
    /\ Release(r, FALSE)
    /\ UNCHANGED <<registry, waiters>>

\* Mutant: only a request that returns releases the lock.
HeldAfterError_held == TRUE

HeldAfterError == FALSE

\* A model, a plugin or a write fails, or the request is cancelled inside: the
\* exception leaves the lock's block.
Fail(r) ==
    /\ status[r] = "inside" /\ kind[r] = "turn"
    /\ Release(r, HeldAfterError)
    /\ UNCHANGED <<registry, waiters, store>>

\* A waiting request is cancelled: its client left, or the server is stopping.
Cancel(r) ==
    /\ status[r] \in {"queued", "woken"}
    /\ status' = [status EXCEPT ![r] = IF @ = "queued" THEN "cancelled" ELSE "interrupted"]
    /\ UNCHANGED <<lockvars, kind, lock_of, copy, store>>

Next ==
    \/ Collect
    \/ \E r \in Requests, what \in Kinds : Arrive(r, what)
    \/ \E r \in Requests :
          Resume(r) \/ Unwind(r) \/ Save(r) \/ Finish(r) \/ Fail(r) \/ Cancel(r)

\* The event loop runs every task that can run, and what a request awaits ends:
\* model calls time out and are retried a fixed number of times, and bursts, queues
\* and retries are bounded.  Nothing makes a request arrive, or be cancelled.
Fairness ==
    \A r \in Requests : WF_vars(Resume(r)) /\ WF_vars(Unwind(r)) /\ WF_vars(Finish(r) \/ Fail(r))

Spec == Init /\ [][Next]_vars /\ Fairness

-----------------------------------------------------------------------------
(* Properties *)

\* "The canonical transaction boundary": no two requests are inside at once,
\* whichever lock objects came and went and whoever was cancelled in the queue.
OneInside ==
    \A r, s \in Requests : status[r] = "inside" /\ status[s] = "inside" => r = s

\* The store is atomic: each save extends the newest one, and no save brings a
\* deleted session back.
Atomic == INSTANCE AtomicStore
ImplementsAtomicStore == Atomic!Spec

\* Nobody waits for ever: neither an error inside the lock nor cancellations at
\* any point of the queue lose the wake-up of those behind.
EveryRequestAnswered ==
    \A r \in Requests : status[r] \in Waiting ~> status[r] \in {"inside", "idle"}
=============================================================================
