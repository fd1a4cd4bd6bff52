------------------------- MODULE SessionLock_proofs -------------------------
(***************************************************************************)
(* The lock admits one request at a time, its queue loses no wake-up, and   *)
(* the store behaves as AtomicStore promises: for any number of requests    *)
(* and lock objects.                                                        *)
(*                                                                          *)
(* The second part is about one thing a turn writes under that lock, the    *)
(* ledger of a character (PerspectiveMemory): it remembers each line of the *)
(* story once and nothing else, for any bounds of the memory and any number *)
(* of records.                                                              *)
(***************************************************************************)
EXTENDS SessionLock, PerspectiveMemory, SequenceTheorems, FiniteSetTheorems, WellFoundedInduction, TLAPS

Distinct(queue) == \A i, j \in 1..Len(queue) : queue[i] = queue[j] => i = j

\* A waiter that leaves a queue leaves the order of the others as it was.
LEMMA Left ==
    ASSUME NEW queue \in Seq(Requests), Distinct(queue), NEW k \in 1..Len(queue)
    PROVE  LET left == RemoveFirst(queue, queue[k])
           IN  /\ left \in Seq(Requests)
               /\ Len(left) = Len(queue) - 1
               /\ \A i \in 1..Len(queue) - 1 : left[i] = IF i < k THEN queue[i] ELSE queue[i + 1]
<1>. DEFINE at == {i \in 1..Len(queue) : queue[i] = queue[k]}
<1>1. at = {k}
  BY DEF Distinct
<1>2. SelectInSeq(queue, LAMBDA v : v = queue[k]) = k
  <2>1. SelectInSeq(queue, LAMBDA v : v = queue[k]) = Min(at)
    BY <1>1 DEF SelectInSeq
  <2>2. Min({k}) = k
    BY DEF Min
  <2>. QED  BY <1>1, <2>1, <2>2
<1>3. RemoveFirst(queue, queue[k]) = SubSeq(queue, 1, k - 1) \o SubSeq(queue, k + 1, Len(queue))
  BY <1>2 DEF RemoveFirst, RemoveAt
<1>. DEFINE before == SubSeq(queue, 1, k - 1)
            after == SubSeq(queue, k + 1, Len(queue))
<1>4. /\ before \in Seq(Requests) /\ Len(before) = k - 1
      /\ \A i \in 1..k - 1 : before[i] = queue[i]
  OBVIOUS
<1>5. /\ after \in Seq(Requests) /\ Len(after) = Len(queue) - k
      /\ \A i \in 1..Len(queue) - k : after[i] = queue[k + i]
  OBVIOUS
<1>. HIDE DEF before, after
<1>6. /\ before \o after \in Seq(Requests)
      /\ Len(before \o after) = Len(queue) - 1
      /\ \A i \in 1..Len(queue) - 1 :
            (before \o after)[i] = IF i <= Len(before) THEN before[i] ELSE after[i - Len(before)]
  <2>1. Len(before) \in Nat /\ Len(after) \in Nat /\ Len(before) + Len(after) = Len(queue) - 1
    BY <1>4, <1>5
  <2>2. /\ before \o after \in Seq(Requests)
        /\ Len(before \o after) = Len(before) + Len(after)
        /\ \A i \in 1..Len(before) + Len(after) :
              (before \o after)[i] = IF i <= Len(before) THEN before[i] ELSE after[i - Len(before)]
    BY <1>4, <1>5, ConcatProperties
  <2>. QED  BY <2>1, <2>2
<1>7. ASSUME NEW i \in 1..Len(queue) - 1
      PROVE  (before \o after)[i] = IF i < k THEN queue[i] ELSE queue[i + 1]
  <2>1. i < k => i \in 1..k - 1 /\ i <= Len(before)
    BY <1>4
  <2>2. ~(i < k) => /\ ~(i <= Len(before)) /\ i - Len(before) \in 1..Len(queue) - k
                    /\ k + (i - Len(before)) = i + 1
    BY <1>4
  <2>. QED  BY <1>4, <1>5, <1>6, <2>1, <2>2
<1>. QED  BY <1>3, <1>6, <1>7 DEF before, after

-----------------------------------------------------------------------------
(* The invariant *)

\* Whoever refers to a lock refers to the one the registry has, which is
\* collected only when nobody does.
Referred == \A r \in Requests : lock_of[r] # NoLock => lock_of[r] = registry

\* A lock is held exactly while a request is inside with it.
Held ==
    /\ \A r \in Requests : status[r] = "inside" => locked[lock_of[r]]
    /\ \A l \in Locks : locked[l] => \E r \in Requests : status[r] = "inside" /\ lock_of[r] = l

\* The queue of a lock is whoever waits for it, each of them once.
InLine ==
    /\ \A r \in Requests : status[r] \in Waiting =>
          \E i \in 1..Len(waiters[lock_of[r]]) : waiters[lock_of[r]][i] = r
    /\ \A l \in Locks : \A i \in 1..Len(waiters[l]) :
          status[waiters[l][i]] \in Waiting /\ lock_of[waiters[l][i]] = l
    /\ \A l \in Locks : Distinct(waiters[l])

\* Only the first waiter of a lock that is free has been woken.
FirstIsWoken ==
    \A l \in Locks : \A i \in 1..Len(waiters[l]) :
        status[waiters[l][i]] \in {"woken", "interrupted"} => i = 1 /\ ~locked[l]

\* No wake-up is lost: the first waiter of a free lock has been woken, or has been
\* cancelled and will wake the next.
WakeUpNotLost ==
    \A l \in Locks : waiters[l] # <<>> /\ ~locked[l] => status[waiters[l][1]] # "queued"

\* Nobody saves behind the back of who is inside.
UpToDate == \A r \in Requests : status[r] = "inside" => copy[r] = store

LockInv ==
    TypeOK /\ Referred /\ Held /\ OneInside /\ InLine /\ FirstIsWoken /\ WakeUpNotLost /\ UpToDate

\* A request finds the lock that all the others refer to.
LEMMA TheLock ==
    ASSUME LockInv
    PROVE  /\ session_lock \in Locks
           /\ \A r \in Requests : lock_of[r] # NoLock => lock_of[r] = session_lock
           /\ \A r \in Requests : status[r] # "idle" => lock_of[r] \in Locks
<1>1. CASE registry # NoLock
  BY <1>1 DEF LockInv, TypeOK, Referred, session_lock
<1>2. CASE registry = NoLock
  <2>1. \A r \in Requests : lock_of[r] = NoLock
    BY <1>2 DEF LockInv, Referred
  <2>2. \E l \in Locks : ~Referenced(l) /\ l # registry
    BY <1>2, <2>1, LockAssumption DEF Referenced
  <2>3. session_lock \in Locks
    BY <1>2, <2>2 DEF session_lock, NewLock
  <2>. QED  BY <2>1, <2>3 DEF LockInv, TypeOK
<1>. QED  BY <1>1, <1>2

\* A request that arrives and enters: the lock is free and only cancelled waiters
\* are in its queue.
LEMMA ArriveInside ==
    ASSUME LockInv, NEW r \in Requests, NEW what \in Kinds, Arrive(r, what),
           MayAcquire(session_lock)
    PROVE  LockInv'
<1>. DEFINE l == session_lock
<1>1. /\ l \in Locks
      /\ \A s \in Requests : lock_of[s] # NoLock => lock_of[s] = l
      /\ \A s \in Requests : status[s] # "idle" => lock_of[s] \in Locks
  BY TheLock
<1>2. /\ status[r] = "idle"
      /\ kind' = [kind EXCEPT ![r] = what]
      /\ registry' = l
      /\ lock_of' = [lock_of EXCEPT ![r] = l]
      /\ locked' = [locked EXCEPT ![l] = TRUE]
      /\ copy' = [copy EXCEPT ![r] = store]
      /\ status' = [status EXCEPT ![r] = "inside"]
      /\ UNCHANGED <<waiters, store>>
  BY DEF Arrive, Enter, TakesLock
<1>3. ~locked[l] /\ \A i \in 1..Len(waiters[l]) : status[waiters[l][i]] = "cancelled"
  BY <1>1 DEF MayAcquire, LockInv, TypeOK
<1>4. \A s \in Requests : status[s] # "inside"
  BY <1>1, <1>3, LockAssumption DEF LockInv, Held
<1>. HIDE DEF l
<1>5. TypeOK'
  BY <1>1, <1>2, LockAssumption DEF LockInv, TypeOK, Status, Waiting
<1>6. Referred' /\ OneInside' /\ UpToDate'
  BY <1>1, <1>2, <1>4 DEF LockInv, TypeOK, Referred, OneInside, UpToDate
<1>7. Held'
  BY <1>1, <1>2, <1>4 DEF LockInv, TypeOK, Held
<1>8. InLine'
  BY <1>1, <1>2 DEF LockInv, TypeOK, InLine, Waiting
<1>9. FirstIsWoken' /\ WakeUpNotLost'
  BY <1>1, <1>2, <1>3 DEF LockInv, TypeOK, InLine, FirstIsWoken, WakeUpNotLost, Waiting
<1>. QED  BY <1>5, <1>6, <1>7, <1>8, <1>9 DEF LockInv

\* A request that arrives and waits is the last in line, and no wake-up is owed to
\* it: if the lock is free somebody before it is on the way.
LEMMA ArriveQueued ==
    ASSUME LockInv, NEW r \in Requests, NEW what \in Kinds, Arrive(r, what),
           ~MayAcquire(session_lock)
    PROVE  LockInv'
<1>. DEFINE l == session_lock
            queue == waiters[l]
<1>1. /\ l \in Locks
      /\ \A s \in Requests : lock_of[s] # NoLock => lock_of[s] = l
      /\ \A s \in Requests : status[s] # "idle" => lock_of[s] \in Locks
  BY TheLock
<1>2. /\ status[r] = "idle"
      /\ kind' = [kind EXCEPT ![r] = what]
      /\ registry' = l
      /\ lock_of' = [lock_of EXCEPT ![r] = l]
      /\ waiters' = [waiters EXCEPT ![l] = Append(@, r)]
      /\ status' = [status EXCEPT ![r] = "queued"]
      /\ UNCHANGED <<locked, copy, store>>
  BY DEF Arrive, Enter, TakesLock
<1>3. ~locked[l] => \E i \in 1..Len(queue) : status[queue[i]] # "cancelled"
  BY <1>1 DEF MayAcquire, LockInv, TypeOK
<1>. HIDE DEF l
<1>4. queue \in Seq(Requests)
  BY <1>1 DEF LockInv, TypeOK
<1>5. /\ waiters'[l] \in Seq(Requests)
      /\ Len(waiters'[l]) = Len(queue) + 1
      /\ \A i \in 1..Len(queue) : waiters'[l][i] = queue[i]
      /\ waiters'[l][Len(queue) + 1] = r
      /\ \A k \in Locks \ {l} : waiters'[k] = waiters[k]
  BY <1>1, <1>2, <1>4, AppendProperties DEF LockInv, TypeOK
<1>6. TypeOK'
  BY <1>1, <1>2, <1>4, LockAssumption DEF LockInv, TypeOK, Status, Waiting
<1>7. Referred' /\ OneInside' /\ UpToDate'
  BY <1>1, <1>2 DEF LockInv, TypeOK, Referred, OneInside, UpToDate
<1>8. Held'
  BY <1>1, <1>2 DEF LockInv, TypeOK, Held
<1>9. InLine'
  <2>1. \A i \in 1..Len(queue) : queue[i] # r
    BY <1>1, <1>2 DEF LockInv, InLine, Waiting
  <2>2. ASSUME NEW s \in Requests, status'[s] \in Waiting
        PROVE  \E i \in 1..Len(waiters'[lock_of'[s]]) : waiters'[lock_of'[s]][i] = s
    <3>1. CASE s = r
      <4>1. lock_of'[s] = l /\ Len(queue) + 1 \in 1..Len(waiters'[l])
        BY <1>1, <1>2, <1>4, <1>5, <3>1 DEF LockInv, TypeOK
      <4>. QED  BY <1>5, <3>1, <4>1
    <3>2. CASE s # r
      <4>1. lock_of'[s] = l /\ \E i \in 1..Len(queue) : queue[i] = s
        BY <1>1, <1>2, <2>2, <3>2 DEF LockInv, TypeOK, InLine, Waiting
      <4>. QED  BY <1>4, <1>5, <4>1
    <3>. QED  BY <3>1, <3>2
  <2>3. ASSUME NEW k \in Locks, NEW i \in 1..Len(waiters'[k])
        PROVE  status'[waiters'[k][i]] \in Waiting /\ lock_of'[waiters'[k][i]] = k
    BY <1>1, <1>2, <1>4, <1>5, <2>1, <2>3 DEF LockInv, TypeOK, InLine, Waiting
  <2>4. ASSUME NEW k \in Locks  PROVE Distinct(waiters'[k])
    BY <1>1, <1>2, <1>4, <1>5, <2>1, <2>4 DEF LockInv, TypeOK, InLine, Distinct
  <2>. QED  BY <2>2, <2>3, <2>4 DEF InLine
<1>10. FirstIsWoken'
  BY <1>1, <1>2, <1>4, <1>5 DEF LockInv, TypeOK, InLine, FirstIsWoken, Waiting
<1>11. WakeUpNotLost'
  BY <1>1, <1>2, <1>3, <1>4, <1>5 DEF LockInv, TypeOK, InLine, WakeUpNotLost, Waiting
<1>. QED  BY <1>6, <1>7, <1>8, <1>9, <1>10, <1>11 DEF LockInv

\* The lock is collected only while nobody refers to it.
LEMMA CollectKeeps ==
    ASSUME LockInv, Collect
    PROVE  LockInv'
<1>1. \A r \in Requests : lock_of[r] = NoLock
  BY DEF LockInv, Referred, Collect, Referenced
<1>2. TypeOK' /\ Referred' /\ Held' /\ OneInside' /\ UpToDate'
  BY <1>1 DEF LockInv, TypeOK, Referred, Held, OneInside, UpToDate, Collect
<1>3. InLine' /\ FirstIsWoken' /\ WakeUpNotLost'
  BY DEF LockInv, InLine, FirstIsWoken, WakeUpNotLost, Collect
<1>. QED  BY <1>2, <1>3 DEF LockInv

\* No other lock has a line.
LEMMA OneLine ==
    ASSUME LockInv, NEW l \in Locks,
           \A s \in Requests : lock_of[s] # NoLock => lock_of[s] = l
    PROVE  \A m \in Locks \ {l} : waiters[m] = <<>>
<1>1. SUFFICES ASSUME NEW m \in Locks \ {l}, waiters[m] # <<>>  PROVE FALSE
  OBVIOUS
<1>2. waiters[m] \in Seq(Requests) /\ 1 \in 1..Len(waiters[m]) /\ waiters[m][1] \in Requests
  BY <1>1 DEF LockInv, TypeOK
<1>3. lock_of[waiters[m][1]] = m
  BY <1>2 DEF LockInv, InLine
<1>. QED  BY <1>1, <1>2, <1>3, LockAssumption

\* The woken waiter is the first in line of a free lock; it enters, and leaves the
\* line as it was behind it.
LEMMA ResumeKeeps ==
    ASSUME LockInv, NEW r \in Requests, Resume(r)
    PROVE  LockInv'
<1>. DEFINE l == lock_of[r]
            queue == waiters[l]
            left == RemoveFirst(queue, r)
<1>1. /\ l \in Locks
      /\ \A s \in Requests : lock_of[s] # NoLock => lock_of[s] = l
      /\ queue \in Seq(Requests) /\ Distinct(queue)
  BY LockAssumption DEF LockInv, TypeOK, Referred, InLine, Resume
<1>2. /\ status[r] = "woken"
      /\ waiters' = [waiters EXCEPT ![l] = left]
      /\ locked' = [locked EXCEPT ![l] = TRUE]
      /\ copy' = [copy EXCEPT ![r] = store]
      /\ status' = [status EXCEPT ![r] = "inside"]
      /\ UNCHANGED <<registry, kind, lock_of, store>>
  BY <1>1 DEF Resume, Enter, LockInv, TypeOK
<1>3. 1 \in 1..Len(queue) /\ queue[1] = r /\ ~locked[l]
  BY <1>1, <1>2 DEF LockInv, InLine, FirstIsWoken, Waiting
<1>4. /\ left \in Seq(Requests) /\ Len(left) = Len(queue) - 1
      /\ \A i \in 1..Len(queue) - 1 : left[i] = queue[i + 1]
  BY <1>1, <1>3, Left
<1>5. \A s \in Requests : status[s] # "inside"
  BY <1>1, <1>3 DEF LockInv, TypeOK, Held
<1>6. /\ \A i \in 1..Len(left) : left[i] # r /\ status[left[i]] \in {"queued", "cancelled"}
                                /\ lock_of[left[i]] = l
      /\ Distinct(left)
  <2>1. ASSUME NEW i \in 1..Len(left)
        PROVE  /\ left[i] # r /\ status[left[i]] \in {"queued", "cancelled"}
               /\ lock_of[left[i]] = l
    <3>1. i + 1 \in 1..Len(queue) /\ left[i] = queue[i + 1] /\ i + 1 # 1
      BY <1>1, <1>4
    <3>. HIDE DEF left, queue
    <3>2. queue[i + 1] # queue[1]
      BY <1>1, <1>3, <3>1 DEF Distinct
    <3>. QED  BY <1>1, <1>3, <3>1, <3>2 DEF LockInv, InLine, FirstIsWoken, Waiting, queue
  <2>2. Distinct(left)
    <3>1. SUFFICES ASSUME NEW i \in 1..Len(left), NEW j \in 1..Len(left), left[i] = left[j]
                   PROVE  i = j
      BY DEF Distinct
    <3>2. i + 1 \in 1..Len(queue) /\ j + 1 \in 1..Len(queue) /\ queue[i + 1] = queue[j + 1]
      BY <1>1, <1>4, <3>1
    <3>. HIDE DEF left, queue
    <3>. QED  BY <1>1, <3>2 DEF Distinct
  <2>. QED  BY <2>1, <2>2
<1>. HIDE DEF left
<1>7. TypeOK'
  BY <1>1, <1>2, <1>4 DEF LockInv, TypeOK, Status, Waiting
<1>8. Referred' /\ OneInside' /\ UpToDate' /\ Held'
  BY <1>1, <1>2, <1>5 DEF LockInv, TypeOK, Referred, OneInside, UpToDate, Held
<1>9. InLine'
  <2>1. ASSUME NEW s \in Requests, status'[s] \in Waiting
        PROVE  \E i \in 1..Len(waiters'[lock_of'[s]]) : waiters'[lock_of'[s]][i] = s
    <3>1. s # r /\ lock_of'[s] = l /\ waiters'[l] = left
      BY <1>1, <1>2, <2>1 DEF LockInv, TypeOK, Waiting
    <3>2. PICK i \in 1..Len(queue) : queue[i] = s
      BY <1>1, <1>2, <2>1, <3>1 DEF LockInv, TypeOK, InLine, Waiting
    <3>3. i # 1
      BY <1>3, <3>1, <3>2
    <3>4. PICK n \in Nat : n = Len(queue)
      BY <1>1, LenProperties
    <3>5. i - 1 \in 1..n - 1 /\ (i - 1) + 1 = i
      BY <3>3, <3>4
    <3>6. i - 1 \in 1..Len(left) /\ left[i - 1] = s
      BY <1>4, <3>2, <3>4, <3>5
    <3>. QED  BY <3>1, <3>6
  <2>2. ASSUME NEW k \in Locks, NEW i \in 1..Len(waiters'[k])
        PROVE  status'[waiters'[k][i]] \in Waiting /\ lock_of'[waiters'[k][i]] = k
    BY <1>1, <1>2, <1>4, <1>6, <2>2 DEF LockInv, TypeOK, InLine, Waiting
  <2>3. ASSUME NEW k \in Locks  PROVE Distinct(waiters'[k])
    BY <1>1, <1>2, <1>6, <2>3 DEF LockInv, TypeOK, InLine
  <2>. QED  BY <2>1, <2>2, <2>3 DEF InLine
<1>10. FirstIsWoken' /\ WakeUpNotLost'
  <2>1. \A m \in Locks \ {l} : waiters'[m] = <<>>
    BY <1>1, <1>2, OneLine DEF LockInv, TypeOK
  <2>2. waiters'[l] = left /\ locked'[l]
    BY <1>1, <1>2 DEF LockInv, TypeOK
  <2>3. \A i \in 1..Len(left) : status'[left[i]] \notin {"woken", "interrupted"}
    <3>1. \A i \in 1..Len(left) : left[i] \in Requests
      BY <1>4
    <3>. QED  BY <1>2, <1>6, <3>1 DEF LockInv, TypeOK
  <2>. QED  BY <2>1, <2>2, <2>3 DEF FirstIsWoken, WakeUpNotLost
<1>. QED  BY <1>7, <1>8, <1>9, <1>10 DEF LockInv

\* A cancelled waiter leaves the line; if the lock is free, whoever is first now
\* has been woken before or is woken by it.
LEMMA UnwindKeeps ==
    ASSUME LockInv, NEW r \in Requests, Unwind(r)
    PROVE  LockInv'
<1>. DEFINE l == lock_of[r]
            queue == waiters[l]
            left == RemoveFirst(queue, r)
            at == [status EXCEPT ![r] = "idle"]
<1>1. /\ l \in Locks
      /\ \A s \in Requests : lock_of[s] # NoLock => lock_of[s] = l
      /\ queue \in Seq(Requests) /\ Distinct(queue)
  BY LockAssumption DEF LockInv, TypeOK, Referred, InLine, Unwind
<1>2. /\ status[r] \in {"cancelled", "interrupted"}
      /\ waiters' = [waiters EXCEPT ![l] = left]
      /\ status' = IF locked[l] THEN at ELSE Woken(l, left, at)
      /\ lock_of' = [lock_of EXCEPT ![r] = NoLock]
      /\ kind' = [kind EXCEPT ![r] = "none"]
      /\ UNCHANGED <<registry, locked, copy, store>>
  BY DEF Unwind
<1>3. PICK k \in 1..Len(queue) : queue[k] = r
  BY <1>1, <1>2 DEF LockInv, InLine, Waiting
<1>4. /\ left \in Seq(Requests) /\ Len(left) = Len(queue) - 1
      /\ \A i \in 1..Len(queue) - 1 : left[i] = IF i < k THEN queue[i] ELSE queue[i + 1]
  BY <1>1, <1>3, Left
<1>5. /\ \A i \in 1..Len(left) : left[i] # r /\ status[left[i]] \in Waiting /\ lock_of[left[i]] = l
      /\ Distinct(left)
  <2>. DEFINE was(i) == IF i < k THEN i ELSE i + 1
  <2>1. \A i \in 1..Len(left) : was(i) \in 1..Len(queue) /\ was(i) # k /\ left[i] = queue[was(i)]
    BY <1>1, <1>4
  <2>2. \A i, j \in 1..Len(left) : was(i) = was(j) => i = j
    OBVIOUS
  <2>. HIDE DEF left, queue, was
  <2>3. \A i \in 1..Len(left) : left[i] # r
    BY <1>1, <1>3, <2>1 DEF Distinct
  <2>4. \A i \in 1..Len(left) : status[left[i]] \in Waiting /\ lock_of[left[i]] = l
    BY <1>1, <2>1 DEF LockInv, InLine, queue
  <2>5. Distinct(left)
    <3>1. SUFFICES ASSUME NEW i \in 1..Len(left), NEW j \in 1..Len(left), left[i] = left[j]
                   PROVE  i = j
      BY DEF Distinct
    <3>2. PICK a, b : a = was(i) /\ b = was(j)
      OBVIOUS
    <3>3. a \in 1..Len(queue) /\ b \in 1..Len(queue) /\ queue[a] = queue[b]
      BY <2>1, <3>1, <3>2
    <3>4. a = b
      BY <1>1, <3>3 DEF Distinct
    <3>. QED  BY <2>2, <3>2, <3>4
  <2>. QED  BY <2>3, <2>4, <2>5
<1>6. \A i \in 1..Len(left) : status[left[i]] \in {"woken", "interrupted"} => i = 1 /\ ~locked[l]
  <2>1. ASSUME NEW i \in 1..Len(left), status[left[i]] \in {"woken", "interrupted"}
        PROVE  i = 1 /\ ~locked[l]
    <3>. DEFINE was == IF i < k THEN i ELSE i + 1
    <3>1. was \in 1..Len(queue) /\ left[i] = queue[was] /\ (was = 1 => i = 1)
      BY <1>1, <1>4
    <3>. HIDE DEF left, was
    <3>. QED  BY <1>1, <2>1, <3>1 DEF LockInv, FirstIsWoken
  <2>. QED  BY <2>1
<1>. DEFINE wakes == ~locked[l] /\ left # <<>> /\ status[left[1]] = "queued"
<1>7. /\ wakes => left[1] \in Requests /\ left[1] # r
      /\ status' = IF wakes THEN [at EXCEPT ![left[1]] = "woken"] ELSE at
  <2>1. left # <<>> => Head(left) = left[1] /\ left[1] \in Requests /\ left[1] # r
    BY <1>4, <1>5
  <2>. QED  BY <1>2, <2>1 DEF Woken, LockInv, TypeOK
<1>. HIDE DEF left
<1>8. /\ status'[r] = "idle"
      /\ \A s \in Requests \ {r} : status'[s] = IF wakes /\ s = left[1] THEN "woken" ELSE status[s]
  BY <1>7 DEF LockInv, TypeOK
<1>9. TypeOK'
  <2>1. status' \in [Requests -> Status]
    BY <1>7 DEF LockInv, TypeOK, Status, Waiting
  <2>2. \A s \in Requests : lock_of'[s] = NoLock <=> status'[s] = "idle"
    BY <1>1, <1>2, <1>8 DEF LockInv, TypeOK
  <2>. QED  BY <1>1, <1>2, <1>4, <2>1, <2>2 DEF LockInv, TypeOK
<1>. HIDE DEF wakes
<1>10. \A s \in Requests : status'[s] = "inside" <=> status[s] = "inside"
  <2>1. wakes => status[left[1]] = "queued"
    BY DEF wakes
  <2>2. status[r] # "inside" /\ status'[r] # "inside"
    BY <1>2, <1>8
  <2>3. ASSUME NEW s \in Requests \ {r}
        PROVE  status'[s] = "inside" <=> status[s] = "inside"
    <3>1. CASE wakes /\ s = left[1]
      BY <1>8, <2>1, <3>1
    <3>2. CASE ~(wakes /\ s = left[1])
      BY <1>8, <3>2
    <3>. QED  BY <3>1, <3>2
  <2>. QED  BY <2>2, <2>3
<1>11. Referred' /\ OneInside' /\ UpToDate' /\ Held'
  <2>1. Referred'
    BY <1>2 DEF LockInv, TypeOK, Referred
  <2>2. OneInside' /\ UpToDate'
    BY <1>2, <1>10 DEF LockInv, OneInside, UpToDate
  <2>3. \A s \in Requests : status[s] = "inside" => lock_of'[s] = lock_of[s]
    BY <1>2 DEF LockInv, TypeOK
  <2>4. Held'
    <3>1. \A s \in Requests : status'[s] = "inside" => locked'[lock_of'[s]]
      BY <1>2, <1>10, <2>3 DEF LockInv, Held
    <3>2. ASSUME NEW m \in Locks, locked'[m]
          PROVE  \E s \in Requests : status'[s] = "inside" /\ lock_of'[s] = m
      <4>1. PICK s \in Requests : status[s] = "inside" /\ lock_of[s] = m
        BY <1>2, <3>2 DEF LockInv, Held
      <4>. QED  BY <1>10, <2>3, <4>1
    <3>. QED  BY <3>1, <3>2 DEF Held
  <2>. QED  BY <2>1, <2>2, <2>4
<1>12. InLine'
  <2>1. ASSUME NEW s \in Requests, status'[s] \in Waiting
        PROVE  \E i \in 1..Len(waiters'[lock_of'[s]]) : waiters'[lock_of'[s]][i] = s
    <3>1. s # r /\ status[s] \in Waiting
      BY <1>8, <2>1 DEF wakes, Waiting
    <3>2. lock_of[s] = l /\ lock_of'[s] = l /\ waiters'[l] = left
      BY <1>1, <1>2, <3>1 DEF LockInv, TypeOK, Waiting
    <3>3. PICK i \in 1..Len(queue) : queue[i] = s
      BY <1>1, <3>1, <3>2 DEF LockInv, InLine
    <3>4. \E j \in 1..Len(left) : left[j] = s
      <4>1. CASE i < k
        BY <1>1, <1>3, <1>4, <3>3, <4>1
      <4>2. CASE i > k
        <5>1. i - 1 \in 1..Len(left) /\ left[i - 1] = queue[(i - 1) + 1] /\ (i - 1) + 1 = i
          BY <1>1, <1>3, <1>4, <3>3, <4>2
        <5>. QED  BY <3>3, <5>1
      <4>. QED  BY <1>1, <1>3, <3>1, <3>3, <4>1, <4>2
    <3>. QED  BY <3>2, <3>4
  <2>2. ASSUME NEW m \in Locks, NEW i \in 1..Len(waiters'[m])
        PROVE  status'[waiters'[m][i]] \in Waiting /\ lock_of'[waiters'[m][i]] = m
    <3>1. CASE m = l
      <4>1. left[i] \in Requests /\ left[i] # r /\ status[left[i]] \in Waiting /\ lock_of[left[i]] = l
            /\ waiters'[m][i] = left[i]
        BY <1>1, <1>2, <1>4, <1>5, <2>2, <3>1 DEF LockInv, TypeOK
      <4>. QED  BY <1>2, <1>8, <3>1, <4>1 DEF Waiting, LockInv, TypeOK
    <3>2. CASE m # l
      BY <1>1, <1>2, <2>2, <3>2 DEF LockInv, TypeOK, InLine, Waiting
    <3>. QED  BY <3>1, <3>2
  <2>3. ASSUME NEW m \in Locks  PROVE Distinct(waiters'[m])
    BY <1>1, <1>2, <1>5, <2>3 DEF LockInv, TypeOK, InLine
  <2>. QED  BY <2>1, <2>2, <2>3 DEF InLine
<1>13. \A m \in Locks \ {l} : waiters'[m] = waiters[m] /\ waiters[m] = <<>>
  BY <1>1, <1>2, OneLine DEF LockInv, TypeOK
<1>14. waiters'[l] = left
  BY <1>1, <1>2 DEF LockInv, TypeOK
<1>15. FirstIsWoken'
  <2>1. ASSUME NEW i \in 1..Len(left), status'[left[i]] \in {"woken", "interrupted"}
        PROVE  i = 1 /\ ~locked[l]
    <3>1. left[i] \in Requests \ {r}
      BY <1>4, <1>5
    <3>2. CASE wakes /\ left[i] = left[1]
      <4>1. 1 \in 1..Len(left) /\ ~locked[l]
        BY <1>4, <2>1, <3>2 DEF wakes
      <4>. QED  BY <1>5, <3>2, <4>1 DEF Distinct
    <3>3. CASE ~(wakes /\ left[i] = left[1])
      BY <1>6, <1>8, <2>1, <3>1, <3>3
    <3>. QED  BY <3>2, <3>3
  <2>2. SUFFICES ASSUME NEW m \in Locks, NEW i \in 1..Len(waiters'[m]),
                        status'[waiters'[m][i]] \in {"woken", "interrupted"}
                 PROVE  i = 1 /\ ~locked'[m]
    BY DEF FirstIsWoken
  <2>3. m = l
    BY <1>13, <2>2
  <2>. QED  BY <1>2, <1>14, <2>1, <2>2, <2>3
<1>16. WakeUpNotLost'
  <2>1. ASSUME left # <<>>, ~locked[l]  PROVE status'[left[1]] # "queued"
    <3>1. left[1] \in Requests \ {r}
      BY <1>4, <1>5, <2>1
    <3>. QED  BY <1>8, <2>1, <3>1 DEF wakes
  <2>. QED  BY <1>2, <1>13, <1>14, <2>1 DEF WakeUpNotLost
<1>. QED  BY <1>9, <1>11, <1>12, <1>15, <1>16 DEF LockInv

\* A request that leaves the lock wakes the first in line, if that one has not been
\* cancelled; whatever it did to the store, nobody else was inside.
LEMMA ReleaseKeeps ==
    ASSUME LockInv, NEW r \in Requests, status[r] = "inside", Release(r, FALSE),
           UNCHANGED <<registry, waiters>>, store' \in Content
    PROVE  LockInv'
<1>. DEFINE l == lock_of[r]
            queue == waiters[l]
            at == [status EXCEPT ![r] = "idle"]
            wakes == queue # <<>> /\ status[queue[1]] = "queued"
<1>1. /\ l \in Locks
      /\ \A s \in Requests : lock_of[s] # NoLock => lock_of[s] = l
      /\ queue \in Seq(Requests)
  BY LockAssumption DEF LockInv, TypeOK, Referred
<1>2. /\ locked' = [locked EXCEPT ![l] = FALSE]
      /\ status' = Woken(l, queue, at)
      /\ lock_of' = [lock_of EXCEPT ![r] = NoLock]
      /\ kind' = [kind EXCEPT ![r] = "none"]
      /\ copy' = [copy EXCEPT ![r] = <<>>]
      /\ UNCHANGED <<registry, waiters>>
  BY DEF Release, LockAfter
<1>3. /\ locked[l]
      /\ \A s \in Requests \ {r} : status[s] # "inside"
  BY DEF LockInv, OneInside, Held
<1>4. \A i \in 1..Len(queue) : /\ queue[i] \in Requests \ {r}
                               /\ status[queue[i]] \in {"queued", "cancelled"}
                               /\ lock_of[queue[i]] = l
  BY <1>1, <1>3 DEF LockInv, InLine, FirstIsWoken, Waiting
<1>5. /\ status'[r] = "idle"
      /\ \A s \in Requests \ {r} : status'[s] = IF wakes /\ s = queue[1] THEN "woken" ELSE status[s]
  <2>1. queue # <<>> => 1 \in 1..Len(queue) /\ Head(queue) = queue[1]
    BY <1>1
  <2>2. queue # <<>> => at[Head(queue)] = status[queue[1]] /\ queue[1] \in Requests \ {r}
    BY <1>4, <2>1 DEF LockInv, TypeOK
  <2>3. status' = IF wakes THEN [at EXCEPT ![queue[1]] = "woken"] ELSE at
    BY <1>2, <2>1, <2>2 DEF Woken
  <2>. QED  BY <2>2, <2>3 DEF LockInv, TypeOK
<1>6. /\ \A s \in Requests : status'[s] # "inside"
      /\ \A s \in Requests : status'[s] \in Waiting <=> status[s] \in Waiting
      /\ \A s \in Requests \ {r} : status'[s] = "idle" <=> status[s] = "idle"
      /\ \A s \in Requests \ {r} : lock_of'[s] = lock_of[s]
      /\ lock_of'[r] = NoLock
      /\ \A m \in Locks : ~locked'[m]
  <2>1. ASSUME NEW m \in Locks  PROVE ~locked'[m]
    <3>1. locked[m] => m = l
      BY <1>1, <1>3, LockAssumption DEF LockInv, Held
    <3>. QED  BY <1>1, <1>2, <3>1 DEF LockInv, TypeOK
  <2>2. ASSUME NEW s \in Requests \ {r}
        PROVE  /\ status'[s] # "inside"
               /\ status'[s] \in Waiting <=> status[s] \in Waiting
               /\ status'[s] = "idle" <=> status[s] = "idle"
    <3>1. CASE wakes /\ s = queue[1]
      BY <1>5, <3>1 DEF Waiting
    <3>2. CASE ~(wakes /\ s = queue[1])
      BY <1>3, <1>5, <3>2
    <3>. QED  BY <3>1, <3>2
  <2>3. status[r] \notin Waiting /\ status'[r] \notin Waiting /\ status'[r] # "inside"
    BY <1>5 DEF Waiting
  <2>4. lock_of'[r] = NoLock /\ \A s \in Requests \ {r} : lock_of'[s] = lock_of[s]
    BY <1>2 DEF LockInv, TypeOK
  <2>. QED  BY <2>1, <2>2, <2>3, <2>4
<1>7. \A m \in Locks \ {l} : waiters'[m] = <<>>
  BY <1>1, <1>2, OneLine
<1>8. TypeOK'
  <2>1. \A s \in Requests : lock_of'[s] = NoLock <=> status'[s] = "idle"
    BY <1>5, <1>6 DEF LockInv, TypeOK
  <2>2. status' \in [Requests -> Status]
    BY <1>2 DEF LockInv, TypeOK, Status, Waiting, Woken
  <2>3. copy' \in [Requests -> Content] /\ locked' \in [Locks -> BOOLEAN]
        /\ kind' \in [Requests -> Kinds \cup {"none"}] /\ lock_of' \in [Requests -> Locks \cup {NoLock}]
    BY <1>2 DEF LockInv, TypeOK, Content
  <2>. QED  BY <1>2, <2>1, <2>2, <2>3 DEF LockInv, TypeOK
<1>9. Referred' /\ Held' /\ OneInside' /\ UpToDate'
  BY <1>2, <1>6 DEF LockInv, TypeOK, Referred, Held, OneInside, UpToDate
<1>10. InLine'
  <2>1. ASSUME NEW s \in Requests, status'[s] \in Waiting
        PROVE  \E i \in 1..Len(waiters'[lock_of'[s]]) : waiters'[lock_of'[s]][i] = s
    <3>1. status[s] \in Waiting /\ s # r /\ lock_of'[s] = lock_of[s]
      BY <1>6, <2>1 DEF Waiting
    <3>. QED  BY <1>2, <3>1 DEF LockInv, InLine
  <2>2. ASSUME NEW m \in Locks, NEW i \in 1..Len(waiters'[m])
        PROVE  status'[waiters'[m][i]] \in Waiting /\ lock_of'[waiters'[m][i]] = m
    <3>1. m = l /\ waiters'[m] = queue
      BY <1>2, <1>7, <2>2
    <3>2. status[queue[i]] \in Waiting /\ queue[i] \in Requests \ {r} /\ lock_of[queue[i]] = l
      BY <1>4, <2>2, <3>1 DEF Waiting
    <3>. QED  BY <1>6, <3>1, <3>2
  <2>. QED  BY <1>2, <2>1, <2>2 DEF LockInv, InLine
<1>. HIDE DEF queue, wakes
<1>11. FirstIsWoken'
  <2>1. SUFFICES ASSUME NEW m \in Locks, NEW i \in 1..Len(waiters'[m]),
                        status'[waiters'[m][i]] \in {"woken", "interrupted"}
                 PROVE  i = 1
    BY <1>6 DEF FirstIsWoken
  <2>2. m = l /\ i \in 1..Len(queue) /\ waiters'[m][i] = queue[i]
    BY <1>2, <1>7, <2>1 DEF queue
  <2>3. queue[i] = queue[1]
    BY <1>4, <1>5, <2>1, <2>2
  <2>4. 1 \in 1..Len(queue) /\ Distinct(queue)
    BY <1>1, <2>2 DEF LockInv, InLine, queue
  <2>. QED  BY <2>2, <2>3, <2>4 DEF Distinct
<1>12. WakeUpNotLost'
  <2>1. SUFFICES ASSUME queue # <<>>  PROVE status'[queue[1]] # "queued"
    BY <1>2, <1>7 DEF WakeUpNotLost, queue
  <2>2. 1 \in 1..Len(queue)
    BY <1>1, <2>1
  <2>. QED  BY <1>4, <1>5, <2>1, <2>2 DEF wakes
<1>. QED  BY <1>8, <1>9, <1>10, <1>11, <1>12 DEF LockInv

LEMMA FinishKeeps ==
    ASSUME LockInv, NEW r \in Requests, Finish(r)
    PROVE  LockInv'
<1>1. store' \in Content
  BY DEF Finish, LockInv, TypeOK, Content
<1>. QED  BY <1>1, ReleaseKeeps DEF Finish

LEMMA FailKeeps ==
    ASSUME LockInv, NEW r \in Requests, Fail(r)
    PROVE  LockInv'
<1>1. store' \in Content
  BY DEF Fail, LockInv, TypeOK
<1>. QED  BY <1>1, ReleaseKeeps DEF Fail, HeldAfterError

\* A save is the holder's, and its copy stays the newest.
LEMMA SaveKeeps ==
    ASSUME LockInv, NEW r \in Requests, Save(r)
    PROVE  LockInv'
<1>1. copy[r] \in Seq(Requests) /\ Append(copy[r], r) \in Content
  BY DEF LockInv, TypeOK, Content, Save
<1>2. TypeOK' /\ Referred' /\ Held' /\ OneInside'
  BY <1>1 DEF LockInv, TypeOK, Referred, Held, OneInside, Save, lockvars
<1>3. InLine' /\ FirstIsWoken' /\ WakeUpNotLost'
  BY DEF LockInv, InLine, FirstIsWoken, WakeUpNotLost, Save, lockvars
<1>4. UpToDate'
  BY <1>1 DEF LockInv, TypeOK, OneInside, UpToDate, Save
<1>. QED  BY <1>2, <1>3, <1>4 DEF LockInv

\* A cancelled waiter stays in line, and a wake-up it had stays its own.
LEMMA CancelKeeps ==
    ASSUME LockInv, NEW r \in Requests, Cancel(r)
    PROVE  LockInv'
<1>1. /\ status[r] \in {"queued", "woken"}
      /\ status'[r] = IF status[r] = "queued" THEN "cancelled" ELSE "interrupted"
      /\ \A s \in Requests \ {r} : status'[s] = status[s]
      /\ UNCHANGED <<registry, locked, waiters, kind, lock_of, copy, store>>
  BY DEF LockInv, TypeOK, Cancel, lockvars
<1>2. TypeOK'
  BY <1>1 DEF LockInv, TypeOK, Cancel, Status, Waiting
<1>3. Referred' /\ Held' /\ OneInside' /\ UpToDate'
  BY <1>1 DEF LockInv, Referred, Held, OneInside, UpToDate
<1>4. \A m \in Locks : \A i \in 1..Len(waiters[m]) : waiters[m][i] \in Requests
  BY DEF LockInv, TypeOK
<1>5. InLine'
  BY <1>1, <1>4 DEF LockInv, InLine, Waiting
<1>6. FirstIsWoken'
  BY <1>1, <1>4 DEF LockInv, FirstIsWoken
<1>7. WakeUpNotLost'
  BY <1>1, <1>4 DEF LockInv, TypeOK, WakeUpNotLost
<1>. QED  BY <1>2, <1>3, <1>5, <1>6, <1>7 DEF LockInv

-----------------------------------------------------------------------------
LEMMA LockInit == Init => LockInv
<1>. SUFFICES ASSUME Init  PROVE LockInv
  OBVIOUS
<1>1. TypeOK
  BY DEF Init, TypeOK, Status, Content
<1>2. \A l \in Locks : waiters[l] = <<>>
  BY DEF Init
<1>. QED  BY <1>1, <1>2 DEF Init, LockInv, Referred, Held, OneInside, InLine, FirstIsWoken,
                             WakeUpNotLost, UpToDate, Waiting, Distinct

LEMMA LockStep == LockInv /\ [Next]_vars => LockInv'
<1>. SUFFICES ASSUME LockInv, [Next]_vars  PROVE LockInv'
  OBVIOUS
<1>1. CASE Collect
  BY <1>1, CollectKeeps
<1>2. ASSUME NEW r \in Requests, NEW what \in Kinds, Arrive(r, what)  PROVE LockInv'
  BY <1>2, ArriveInside, ArriveQueued
<1>3. ASSUME NEW r \in Requests, Resume(r)  PROVE LockInv'
  BY <1>3, ResumeKeeps
<1>4. ASSUME NEW r \in Requests, Unwind(r)  PROVE LockInv'
  BY <1>4, UnwindKeeps
<1>5. ASSUME NEW r \in Requests, Save(r)  PROVE LockInv'
  BY <1>5, SaveKeeps
<1>6. ASSUME NEW r \in Requests, Finish(r)  PROVE LockInv'
  BY <1>6, FinishKeeps
<1>7. ASSUME NEW r \in Requests, Fail(r)  PROVE LockInv'
  BY <1>7, FailKeeps
<1>8. ASSUME NEW r \in Requests, Cancel(r)  PROVE LockInv'
  BY <1>8, CancelKeeps
<1>9. CASE UNCHANGED vars
  BY <1>9 DEF vars, LockInv, TypeOK, Referred, Held, OneInside, InLine, FirstIsWoken,
              WakeUpNotLost, UpToDate, Distinct
<1>. QED  BY <1>1, <1>2, <1>3, <1>4, <1>5, <1>6, <1>7, <1>8, <1>9 DEF Next

\* The invariant holds throughout: who refers to a lock, who holds it and who waits
\* for it agree, across collections of the lock and cancellations in its queue.
THEOREM LockInvariant == Spec => []LockInv
  BY LockInit, LockStep, PTL DEF Spec

\* The state has its types.
THEOREM LockTypes == Spec => []TypeOK
<1>1. LockInv => TypeOK
  BY DEF LockInv
<1>. QED  BY <1>1, LockInvariant, PTL

\* session_lock is a transaction boundary: of any number of requests, and whichever
\* lock objects came and went in the weak registry, at most one is inside.
THEOREM MutualExclusion == Spec => []OneInside
<1>1. LockInv => OneInside
  BY DEF LockInv
<1>. QED  BY <1>1, LockInvariant, PTL

\* Whoever is next in line for a free lock has been woken, or is about to leave and
\* wakes the next: the queue never stands with nobody on the way.
THEOREM NoWakeUpLost == Spec => []WakeUpNotLost
<1>1. LockInv => WakeUpNotLost
  BY DEF LockInv
<1>. QED  BY <1>1, LockInvariant, PTL

\* A step of the requests is a commit on top of the newest one, the deletion of the
\* session, or nothing to the store.
LEMMA StoreStep == LockInv /\ [Next]_vars => [Atomic!Next]_store
<1>. SUFFICES ASSUME LockInv, [Next]_vars  PROVE Atomic!Next \/ UNCHANGED store
  OBVIOUS
<1>1. ASSUME NEW r \in Requests, Save(r)  PROVE Atomic!Next
  <2>1. copy[r] = store /\ store # Gone /\ store' = Append(store, r)
    BY <1>1 DEF Save, LockInv, UpToDate
  <2>. QED  BY <2>1 DEF Atomic!Next, Atomic!Commit
<1>2. ASSUME NEW r \in Requests, Finish(r)  PROVE Atomic!Next \/ UNCHANGED store
  BY <1>2 DEF Finish, Atomic!Next, Atomic!Delete
<1>3. CASE Collect
  BY <1>3 DEF Collect
<1>4. ASSUME NEW r \in Requests, NEW what \in Kinds, Arrive(r, what)  PROVE UNCHANGED store
  BY <1>4 DEF Arrive
<1>5. ASSUME NEW r \in Requests, Resume(r) \/ Unwind(r) \/ Fail(r) \/ Cancel(r)
      PROVE  UNCHANGED store
  BY <1>5 DEF Resume, Unwind, Fail, Cancel
<1>. QED  BY <1>1, <1>2, <1>3, <1>4, <1>5 DEF Next, vars

\* The store behaves atomically though every request works on a copy of its own:
\* each commit extends the newest, and a deleted session stays deleted.
THEOREM StoreIsAtomic == Spec => ImplementsAtomicStore
<1>1. Init => Atomic!Init
  BY DEF Init, Atomic!Init
<1>. QED  BY <1>1, StoreStep, LockInvariant, PTL DEF Spec, ImplementsAtomicStore, Atomic!Spec

-----------------------------------------------------------------------------
(* Least numbers *)

\* A set of natural numbers has a least one.
LEMMA Least ==
    ASSUME NEW N \in SUBSET Nat, N # {}
    PROVE  \E n \in N : \A m \in N : n <= m
<1>1. PICK n \in N : \A m \in N : <<m, n>> \notin OpToRel(<, Nat)
  BY WFMin, NatLessThanWellFounded, Zenon
<1>2. ASSUME NEW m \in N  PROVE n <= m
  <2>1. n \in Nat /\ m \in Nat
    BY <1>1
  <2>2. m < n => <<m, n>> \in OpToRel(<, Nat)
    BY <2>1 DEF OpToRel
  <2>3. ~(m < n)
    BY <1>1, <2>2
  <2>. QED  BY <2>1, <2>3
<1>. QED  BY <1>2

-----------------------------------------------------------------------------
(* Positions, first to last *)

Increasing(at, n) == \A j, k \in 1..n : j < k => at[j] < at[k]

LEMMA PositionsAreFinite ==
    ASSUME NEW n \in Nat, NEW P \in SUBSET (1..n)
    PROVE  IsFiniteSet(P) /\ Cardinality(P) \in Nat
<1>1. IsFiniteSet(1..n)
  BY FS_Interval
<1>. QED  BY <1>1, FS_Subset, FS_CardinalityType

\* Any positions can be put in order.
LEMMA SomeOrder ==
    ASSUME NEW n \in Nat, NEW P \in SUBSET (1..n)
    PROVE  \E at \in [1..Cardinality(P) -> P] : Increasing(at, Cardinality(P))
<1>. DEFINE Ordered(m) == \A Q \in SUBSET (1..m) :
              \E at \in [1..Cardinality(Q) -> Q] : Increasing(at, Cardinality(Q))
<1>1. Ordered(0)
  <2>1. ASSUME NEW Q \in SUBSET (1..0)
        PROVE  \E at \in [1..Cardinality(Q) -> Q] : Increasing(at, Cardinality(Q))
    <3>1. Q = {}
      OBVIOUS
    <3>2. Cardinality(Q) = 0
      BY <3>1, FS_EmptySet
    <3>3. [k \in 1..0 |-> k] \in [1..0 -> Q] /\ Increasing([k \in 1..0 |-> k], 0)
      BY DEF Increasing
    <3>. QED  BY <3>2, <3>3
  <2>. QED  BY <2>1
<1>2. ASSUME NEW m \in Nat, Ordered(m)
      PROVE  Ordered(m + 1)
  <2>1. SUFFICES ASSUME NEW Q \in SUBSET (1..(m + 1)), m + 1 \in Q
                 PROVE  \E at \in [1..Cardinality(Q) -> Q] : Increasing(at, Cardinality(Q))
    <3>1. ASSUME NEW Q \in SUBSET (1..(m + 1)), m + 1 \notin Q
          PROVE  Q \in SUBSET (1..m)
      BY <3>1
    <3>. QED  BY <1>2, <3>1
  <2>2. PICK R \in SUBSET (1..m) : R = Q \ {m + 1}
    <3>1. \A i \in 1..(m + 1) : i # m + 1 => i \in 1..m
      OBVIOUS
    <3>2. Q \ {m + 1} \subseteq 1..m
      BY <3>1
    <3>. QED  BY <3>2
  <2>3. PICK c \in Nat : c = Cardinality(R) /\ Cardinality(Q) = c + 1
    <3>. m + 1 \in Nat
      OBVIOUS
    <3>1. IsFiniteSet(Q) /\ Cardinality(Q) \in Nat /\ Cardinality(R) \in Nat
      BY PositionsAreFinite
    <3>2. Cardinality(R) = Cardinality(Q) - 1
      BY <2>1, <2>2, <3>1, FS_RemoveElement
    <3>. QED  BY <3>1, <3>2
  <2>4. PICK before \in [1..c -> R] : Increasing(before, c)
    BY <1>2, <2>3
  <2>5. PICK at : at = [k \in 1..(c + 1) |-> IF k <= c THEN before[k] ELSE m + 1]
    OBVIOUS
  <2>6. at \in [1..(c + 1) -> Q]
    BY <2>1, <2>2, <2>4, <2>5
  <2>7. Increasing(at, c + 1)
    <3>1. SUFFICES ASSUME NEW j \in 1..(c + 1), NEW k \in 1..(c + 1), j < k
                   PROVE  at[j] < at[k]
      BY DEF Increasing
    <3>2. j \in 1..c /\ at[j] = before[j] /\ before[j] \in 1..m
      <4>1. j \in 1..c
        BY <3>1
      <4>2. before[j] \in R
        BY <4>1
      <4>3. j <= c /\ at[j] = before[j]
        BY <2>5, <4>1
      <4>4. before[j] \in 1..m
        BY <4>2
      <4>. QED  BY <4>1, <4>3, <4>4
    <3>3. CASE k <= c
      <4>1. k \in 1..c /\ at[k] = before[k]
        BY <2>5, <3>3
      <4>. QED  BY <2>4, <3>1, <3>2, <4>1 DEF Increasing
    <3>4. CASE ~(k <= c)
      <4>1. at[k] = m + 1
        BY <2>5, <3>4
      <4>. QED  BY <3>2, <4>1
    <3>. QED  BY <3>3, <3>4
  <2>. QED  BY <2>3, <2>6, <2>7
<1>. HIDE DEF Ordered
<1>3. Ordered(n)
  <2>1. PICK N \in SUBSET Nat : N = {m \in Nat : ~Ordered(m)}
    OBVIOUS
  <2>2. SUFFICES ASSUME N # {} PROVE FALSE
    BY <2>1
  <2>3. PICK m \in N : \A k \in N : m <= k
    BY <2>2, Least
  <2>4. m \in Nat \ {0} /\ m - 1 \in Nat /\ m - 1 \notin N
    BY <1>1, <2>1, <2>3
  <2>5. Ordered(m - 1)
    BY <2>1, <2>4
  <2>6. Ordered((m - 1) + 1)
    BY <1>2, <2>4, <2>5
  <2>7. (m - 1) + 1 = m
    BY <2>4
  <2>8. Ordered(m)
    BY <2>6, <2>7
  <2>. QED  BY <2>1, <2>3, <2>8
<1>. QED  BY <1>3 DEF Ordered

LEMMA InOrderIs ==
    ASSUME NEW n \in Nat, NEW P \in SUBSET (1..n)
    PROVE  /\ InOrder(P) \in [1..Cardinality(P) -> P] /\ Increasing(InOrder(P), Cardinality(P))
           /\ \A i \in P : \E k \in 1..Cardinality(P) : InOrder(P)[k] = i
<1>1. PICK c \in Nat : c = Cardinality(P)
  BY PositionsAreFinite
<1>2. PICK at : at = InOrder(P) /\ at \in [1..c -> P] /\ Increasing(at, c)
  BY <1>1, SomeOrder DEF InOrder, Increasing
<1>3. \A j, k \in 1..c : at[j] = at[k] => j = k
  <2>1. SUFFICES ASSUME NEW j \in 1..c, NEW k \in 1..c, at[j] = at[k]
                 PROVE  j = k
    OBVIOUS
  <2>2. at[j] \in 1..n /\ at[k] \in 1..n
    <3>1. at[j] \in P /\ at[k] \in P
      BY <1>2
    <3>. QED  BY <3>1
  <2>. QED  BY <1>2, <2>1, <2>2 DEF Increasing
<1>4. at \in Injection(1..c, P)
  BY <1>2, <1>3 DEF Injection, IsInjective
<1>5. IsFiniteSet(P) /\ Cardinality(1..c) = c
  <2>1. Cardinality(1..c) = c
    BY FS_Interval
  <2>. QED  BY <2>1, PositionsAreFinite
<1>6. at \in Surjection(1..c, P)
  BY <1>1, <1>4, <1>5, FS_Injection
<1>. QED  BY <1>1, <1>2, <1>6 DEF Surjection

-----------------------------------------------------------------------------
(* Ledgers and records *)

Ledgers == [exists : BOOLEAN, processed : Nat, through : Nat, recent : Seq(Nat), summary : SUBSET Nat,
            knows : BOOLEAN]
StoryRecords == [id : Nat, turn : Nat, type : {"line", "narration", "thought"}, own : BOOLEAN, heard : BOOLEAN,
               names : BOOLEAN, snapshot : Ledgers]
Histories == Seq(StoryRecords)

\* Of a history: its records are in the order of their ids, and their turns ascend.
Ascends(h) == \A i, j \in 1..Len(h) : i < j => h[i].id < h[j].id /\ h[i].turn <= h[j].turn

\* No line is in a ledger twice, and a ledger not compiled yet is empty.
Tidy(l) ==
    /\ l \in Ledgers /\ (~l.exists => l = NoLedger)
    /\ Distinct(l.recent) /\ ToSet(l.recent) \cap l.summary = {}

\* The cursor has passed what is remembered.
HasRead(l, rec) == rec.id \in Remembered(l) => rec.turn <= l.through

LEMMA TheRecords ==
    ASSUME history \in Histories, NEW P \in SUBSET (1..Len(history))
    PROVE  \E c \in Nat : \E at \in [1..c -> P] :
              /\ Increasing(at, c) /\ \A i \in P : \E k \in 1..c : at[k] = i
              /\ Records(P) = [k \in 1..c |-> history[at[k]]] /\ Records(P) \in Histories /\ Len(Records(P)) = c
<1>1. Len(history) \in Nat /\ \A i \in 1..Len(history) : history[i] \in StoryRecords
  BY LenProperties DEF Histories
<1>2. PICK c \in Nat : c = Cardinality(P)
  BY <1>1, PositionsAreFinite
<1>3. PICK at : at = InOrder(P)
  OBVIOUS
<1>4. at \in [1..c -> P] /\ Increasing(at, c) /\ \A i \in P : \E k \in 1..c : at[k] = i
  BY <1>1, <1>2, <1>3, InOrderIs
<1>5. Records(P) = [k \in 1..c |-> history[at[k]]]
  BY <1>2, <1>3 DEF Records
<1>6. \A k \in 1..c : history[at[k]] \in StoryRecords
  <2>1. SUFFICES ASSUME NEW k \in 1..c PROVE history[at[k]] \in StoryRecords
    OBVIOUS
  <2>2. at[k] \in P
    BY <1>4
  <2>. QED  BY <1>1, <2>2
<1>7. Records(P) \in Histories /\ Len(Records(P)) = c
  <2>1. PICK rs : rs = [k \in 1..c |-> history[at[k]]]
    OBVIOUS
  <2>2. rs \in [1..c -> StoryRecords]
    BY <1>6, <2>1
  <2>3. rs \in Seq(StoryRecords) /\ Len(rs) = c
    BY <2>2
  <2>. QED  BY <1>5, <2>1, <2>3 DEF Histories
<1>. QED  BY <1>4, <1>5, <1>7

\* What a cursor becomes.
LEMMA LatestIs ==
    ASSUME NEW cursor \in Nat, NEW records \in Histories
    PROVE  /\ Latest(cursor, records) \in Nat /\ Latest(cursor, records) >= cursor
           /\ records # <<>> => Latest(cursor, records) >= records[Len(records)].turn
<1>1. CASE records = <<>>
  BY <1>1 DEF Latest
<1>2. CASE records # <<>>
  <2>1. Len(records) \in 1..Len(records) /\ \A i \in 1..Len(records) : records[i] \in StoryRecords
    BY <1>2, EmptySeq, LenProperties DEF Histories
  <2>2. PICK n \in Nat : n = records[Len(records)].turn
    BY <2>1 DEF StoryRecords
  <2>3. Last(records).turn = n
    BY <2>2 DEF Last
  <2>4. Latest(cursor, records) = IF n <= cursor THEN cursor ELSE n
    BY <1>2, <2>3 DEF Latest
  <2>. QED  BY <2>2, <2>4
<1>. QED  BY <1>1, <1>2

LEMMA PartIsDistinct ==
    ASSUME NEW s \in Seq(Nat), Distinct(s), NEW m \in Nat \ {0}, NEW n \in Nat, n = Len(s)
    PROVE  /\ SubSeq(s, m, n) \in Seq(Nat) /\ Distinct(SubSeq(s, m, n))
           /\ ToSet(SubSeq(s, m, n)) \subseteq ToSet(s)
<1>1. s \in [1..n -> Nat] /\ \A i, j \in 1..n : s[i] = s[j] => i = j
  BY LenProperties DEF Distinct
<1>2. PICK part : part = SubSeq(s, m, n)
  OBVIOUS
<1>3. CASE m > n
  <2>1. part = <<>>
    BY <1>2, <1>3, EmptySeq, SubSeqProperties
  <2>. QED  BY <1>2, <2>1 DEF Distinct, ToSet
<1>4. CASE m <= n
  <2>1. PICK c \in Nat : c = n - m + 1
    <3>1. m \in Nat /\ n - m + 1 \in Nat
      BY <1>4
    <3>. QED  BY <3>1
  <2>2. \A i \in m..n : s[i] \in Nat
    BY <1>1
  <2>3. part \in Seq(Nat) /\ Len(part) = c /\ \A i \in 1..c : part[i] = s[m + i - 1]
    BY <1>2, <1>4, <2>1, <2>2, SubSeqProperties
  <2>4. \A i \in 1..c : m + i - 1 \in 1..n
    BY <1>4, <2>1
  <2>5. Distinct(part)
    <3>1. SUFFICES ASSUME NEW i \in 1..c, NEW j \in 1..c, part[i] = part[j]
                   PROVE  i = j
      BY <2>3 DEF Distinct
    <3>2. m + i - 1 = m + j - 1
      BY <1>1, <2>3, <2>4, <3>1
    <3>. QED  BY <3>2
  <2>6. DOMAIN part = 1..c /\ DOMAIN s = 1..n
    BY <1>1, <2>3, LenProperties
  <2>7. ToSet(part) \subseteq ToSet(s)
    BY <2>3, <2>4, <2>6 DEF ToSet
  <2>. QED  BY <1>2, <2>3, <2>5, <2>7
<1>. QED  BY <1>3, <1>4

\* A ledger may change its cursors and what it knows and stay as tidy.
LEMMA SameMemory ==
    ASSUME NEW l, Tidy(l), NEW q \in Ledgers, q.exists, q.recent = l.recent, q.summary = l.summary
    PROVE  Tidy(q) /\ Remembered(q) = Remembered(l)
BY DEF Tidy, Remembered

LEMMA NoLedgerIs == NoLedger \in Ledgers /\ Tidy(NoLedger) /\ Remembered(NoLedger) = {} /\ ~NoLedger.knows
<1>1. NoLedger \in Ledgers /\ NoLedger.recent = <<>> /\ NoLedger.summary = {} /\ ~NoLedger.knows
  BY DEF NoLedger, Ledgers
<1>2. ToSet(<<>>) = {} /\ Distinct(<<>>)
  BY DEF ToSet, Distinct
<1>. QED  BY <1>1, <1>2 DEF Tidy, Remembered

LEMMA InitializedIs ==
    ASSUME turn.number \in Nat, NEW l, Tidy(l)
    PROVE  /\ Tidy(Initialized(l)) /\ Initialized(l).exists /\ Remembered(Initialized(l)) = Remembered(l)
           /\ Initialized(l).through = l.through /\ Initialized(l).knows = l.knows
<1>1. CASE l.exists
  BY <1>1 DEF Initialized
<1>2. CASE ~l.exists
  <2>1. l = NoLedger
    BY <1>2 DEF Tidy
  <2>2. PICK q : q = [NoLedger EXCEPT !.exists = TRUE, !.processed = turn.number]
    OBVIOUS
  <2>3. q \in Ledgers /\ q.exists /\ q.recent = NoLedger.recent /\ q.summary = NoLedger.summary
        /\ q.through = NoLedger.through /\ q.knows = NoLedger.knows
    BY <2>2, NoLedgerIs DEF Ledgers
  <2>4. Initialized(l) = q
    BY <1>2, <2>2 DEF Initialized
  <2>. QED  BY <2>1, <2>3, <2>4, SameMemory
<1>. QED  BY <1>1, <1>2

LEMMA IdentityUpdatedIs ==
    ASSUME history \in Histories, NEW l, Tidy(l), l.exists, NEW q \in IdentityUpdated(l)
    PROVE  /\ Tidy(q) /\ q.exists /\ Remembered(q) = Remembered(l) /\ q.through = l.through
           /\ q.knows => l.knows \/ \E i \in 1..Len(history) : history[i].names
<1>1. CASE ~needs_identity_update(l)
  BY <1>1 DEF IdentityUpdated
<1>2. CASE needs_identity_update(l)
  <2>1. PICK records : records = unprocessed_visible_records(l)
    OBVIOUS
  <2>2. PICK answered \in BOOLEAN :
           q = [l EXCEPT !.processed = Latest(l.processed, records), !.knows = _validated_people(answered, records)]
    BY <1>2, <2>1 DEF IdentityUpdated
  <2>3. DOMAIN history = 1..Len(history) /\ Len(history) \in Nat
    BY LenProperties DEF Histories
  <2>4. PICK P \in SUBSET (1..Len(history)) : records = Records(P)
    <3>1. PICK P : P = {i \in DOMAIN history :
                          LET rec == history[i] IN rec.turn > l.processed /\ rec.type = "line" /\ ~rec.own /\ rec.heard}
      OBVIOUS
    <3>2. P \subseteq 1..Len(history)
      BY <2>3, <3>1
    <3>. QED  BY <2>1, <3>1, <3>2 DEF unprocessed_visible_records
  <2>5. PICK c \in Nat : \E at \in [1..c -> P] :
              /\ Increasing(at, c) /\ \A i \in P : \E k \in 1..c : at[k] = i
              /\ Records(P) = [k \in 1..c |-> history[at[k]]] /\ Records(P) \in Histories /\ Len(Records(P)) = c
    BY TheRecords
  <2>11. PICK at \in [1..c -> P] : Records(P) = [k \in 1..c |-> history[at[k]]] /\ Records(P) \in Histories
    BY <2>5
  <2>12. records = [k \in 1..c |-> history[at[k]]] /\ records \in Histories
    BY <2>4, <2>11
  <2>6. l \in Ledgers
    BY DEF Tidy
  <2>7. Latest(l.processed, records) \in Nat
    BY <2>12, <2>6, LatestIs DEF Ledgers
  <2>8. PICK named : named = _validated_people(answered, records)
    OBVIOUS
  <2>9. named \in BOOLEAN /\ (named => \E i \in 1..Len(history) : history[i].names)
    <3>1. named = (answered /\ \E k \in 1..c : history[at[k]].names)
      BY <2>12, <2>8 DEF _validated_people
    <3>2. \A k \in 1..c : at[k] \in 1..Len(history)
      BY <2>11
    <3>. QED  BY <3>1, <3>2
  <2>10. /\ q \in Ledgers /\ q.exists /\ q.recent = l.recent /\ q.summary = l.summary
         /\ q.through = l.through /\ q.knows = named
    BY <2>2, <2>6, <2>7, <2>8, <2>9 DEF Ledgers
  <2>. QED  BY <2>9, <2>10, SameMemory
<1>. QED  BY <1>1, <1>2

LEMMA RevisedIs ==
    ASSUME NEW l, Tidy(l), l.exists, NEW q \in Revised(l)
    PROVE  /\ Tidy(q) /\ q.exists /\ Remembered(q) = Remembered(l) /\ q.through = l.through
           /\ q.knows = l.knows
<1>1. l \in Ledgers /\ l.recent \in Seq(Nat) /\ l.summary \in SUBSET Nat /\ Distinct(l.recent)
  BY DEF Tidy, Ledgers
<1>2. PICK n \in Nat : n = Len(l.recent)
  BY <1>1, LenProperties
<1>3. CASE q = l
  BY <1>3
<1>4. CASE q # l
  <2>1. PICK tail : tail = SubSeq(l.recent, n - MEMORY_KEEP_RAW_TAIL + 1, n)
    OBVIOUS
  <2>2. /\ n > MEMORY_KEEP_RAW_TAIL
        /\ q = [l EXCEPT !.recent = tail, !.summary = l.summary \cup (ToSet(l.recent) \ ToSet(tail))]
    BY <1>2, <1>4, <2>1, MemoryAssumption DEF Revised
  <2>3. PICK m \in Nat \ {0} : m = n - MEMORY_KEEP_RAW_TAIL + 1
    <3>1. n - MEMORY_KEEP_RAW_TAIL + 1 \in Nat \ {0}
      BY <2>2, MemoryAssumption
    <3>. QED  BY <3>1
  <2>4. tail \in Seq(Nat) /\ Distinct(tail) /\ ToSet(tail) \subseteq ToSet(l.recent)
    BY <1>1, <1>2, <2>1, <2>3, PartIsDistinct
  <2>5. ToSet(l.recent) \subseteq Nat
    BY <1>1 DEF ToSet
  <2>6. PICK older \in SUBSET Nat : older = l.summary \cup (ToSet(l.recent) \ ToSet(tail))
    BY <1>1, <2>5
  <2>7. q = [l EXCEPT !.recent = tail, !.summary = older]
    BY <2>2, <2>6
  <2>8. /\ q \in Ledgers /\ q.exists /\ q.recent = tail /\ q.summary = older /\ q.through = l.through
        /\ q.knows = l.knows
    BY <1>1, <2>4, <2>6, <2>7 DEF Ledgers
  <2>9. ToSet(tail) \cap older = {} /\ ToSet(tail) \cup older = ToSet(l.recent) \cup l.summary
    BY <2>4, <2>6 DEF Tidy
  <2>. QED  BY <2>4, <2>8, <2>9 DEF Tidy, Remembered
<1>. QED  BY <1>3, <1>4

LEMMA BoundedIs ==
    ASSUME NEW s \in Seq(Nat), Distinct(s)
    PROVE  Bounded(s) \in Seq(Nat) /\ Distinct(Bounded(s)) /\ ToSet(Bounded(s)) \subseteq ToSet(s)
<1>1. PICK n \in Nat : n = Len(s)
  BY LenProperties
<1>2. CASE n > MAX_RECENT_MEMORY
  <2>1. PICK m \in Nat \ {0} : m = n - MAX_RECENT_MEMORY + 1
    <3>1. n - MAX_RECENT_MEMORY + 1 \in Nat \ {0}
      BY <1>2, MemoryAssumption
    <3>. QED  BY <3>1
  <2>2. Bounded(s) = SubSeq(s, m, n)
    BY <1>1, <1>2, <2>1 DEF Bounded
  <2>. QED  BY <1>1, <2>1, <2>2, PartIsDistinct
<1>3. CASE ~(n > MAX_RECENT_MEMORY)
  BY <1>1, <1>3 DEF Bounded
<1>. QED  BY <1>2, <1>3

\* Two lists without repetitions and without a common element make one without.
LEMMA JoinedAreDistinct ==
    ASSUME NEW s \in Seq(Nat), NEW t \in Seq(Nat), Distinct(s), Distinct(t), ToSet(s) \cap ToSet(t) = {}
    PROVE  /\ s \o t \in Seq(Nat) /\ Distinct(s \o t) /\ ToSet(s \o t) = ToSet(s) \cup ToSet(t)
<1>1. PICK n, c : n \in Nat /\ c \in Nat /\ n = Len(s) /\ c = Len(t)
  BY LenProperties
<1>2. DOMAIN s = 1..n /\ DOMAIN t = 1..c
  BY <1>1, LenProperties
<1>3. PICK joined : joined = s \o t
  OBVIOUS
<1>4. /\ joined \in Seq(Nat) /\ Len(joined) = n + c
      /\ \A i \in 1..(n + c) : joined[i] = IF i <= n THEN s[i] ELSE t[i - n]
  BY <1>1, <1>3, ConcatProperties
<1>5. DOMAIN joined = 1..(n + c)
  BY <1>4, LenProperties
<1>6. \A i \in 1..(n + c) : (i <= n => i \in 1..n) /\ (~(i <= n) => i - n \in 1..c)
  BY <1>1
<1>7. \A i \in 1..c : i + n \in 1..(n + c) /\ ~(i + n <= n) /\ (i + n) - n = i
  BY <1>1
<1>8. ToSet(joined) = ToSet(s) \cup ToSet(t)
  <2>1. ASSUME NEW x \in ToSet(joined) PROVE x \in ToSet(s) \cup ToSet(t)
    <3>1. PICK i \in 1..(n + c) : x = joined[i]
      BY <1>5, <2>1 DEF ToSet
    <3>2. CASE i <= n
      BY <1>2, <1>4, <1>6, <3>1, <3>2 DEF ToSet
    <3>3. CASE ~(i <= n)
      BY <1>2, <1>4, <1>6, <3>1, <3>3 DEF ToSet
    <3>. QED  BY <3>2, <3>3
  <2>2. ASSUME NEW x \in ToSet(s) PROVE x \in ToSet(joined)
    <3>1. PICK i \in 1..n : x = s[i]
      BY <1>2, <2>2 DEF ToSet
    <3>2. i \in 1..(n + c) /\ joined[i] = s[i]
      BY <1>1, <1>4, <3>1
    <3>. QED  BY <1>5, <3>1, <3>2 DEF ToSet
  <2>3. ASSUME NEW x \in ToSet(t) PROVE x \in ToSet(joined)
    <3>1. PICK i \in 1..c : x = t[i]
      BY <1>2, <2>3 DEF ToSet
    <3>2. i + n \in 1..(n + c) /\ joined[i + n] = t[i]
      BY <1>4, <1>7
    <3>. QED  BY <1>5, <3>1, <3>2 DEF ToSet
  <2>. QED  BY <2>1, <2>2, <2>3
<1>9. Distinct(joined)
  <2>1. SUFFICES ASSUME NEW i \in 1..(n + c), NEW j \in 1..(n + c), joined[i] = joined[j]
                 PROVE  i = j
    BY <1>4 DEF Distinct
  <2>2. CASE i <= n /\ j <= n
    BY <1>1, <1>4, <1>6, <2>1, <2>2 DEF Distinct
  <2>3. CASE ~(i <= n) /\ ~(j <= n)
    <3>1. i - n \in 1..c /\ j - n \in 1..c /\ t[i - n] = t[j - n]
      BY <1>4, <1>6, <2>1, <2>3
    <3>2. i - n = j - n
      BY <1>1, <3>1 DEF Distinct
    <3>. QED  BY <1>1, <3>2
  <2>4. ASSUME NEW a \in 1..n, NEW b \in 1..c PROVE s[a] # t[b]
    BY <1>2 DEF ToSet
  <2>5. CASE i <= n /\ ~(j <= n)
    BY <1>4, <1>6, <2>1, <2>4, <2>5
  <2>6. CASE ~(i <= n) /\ j <= n
    BY <1>4, <1>6, <2>1, <2>4, <2>6
  <2>. QED  BY <2>2, <2>3, <2>5, <2>6
<1>. QED  BY <1>3, <1>4, <1>8, <1>9

\* The lines a ledger takes are records of the history that it perceived and has
\* not read, and its cursor passes them.
LEMMA CapturedIs ==
    ASSUME history \in Histories, Ascends(history), NEW l, Tidy(l), l.exists,
           \A i \in 1..Len(history) : HasRead(l, history[i])
    PROVE  /\ Tidy(Captured(l)) /\ Captured(l).exists /\ Captured(l).knows = l.knows
           /\ Captured(l).through \in Nat /\ Captured(l).through >= l.through
           /\ \A p \in Remembered(Captured(l)) :
                 \/ p \in Remembered(l)
                 \/ \E i \in 1..Len(history) : /\ Perceived(history[i]) /\ history[i].id = p
                                               /\ history[i].turn <= Captured(l).through
<1>1. l \in Ledgers /\ l.recent \in Seq(Nat) /\ l.summary \in SUBSET Nat /\ Distinct(l.recent) /\ l.through \in Nat
  BY DEF Tidy, Ledgers
<1>2. Len(history) \in Nat /\ DOMAIN history = 1..Len(history) /\ \A i \in 1..Len(history) : history[i] \in StoryRecords
  BY LenProperties DEF Histories
<1>3. PICK P \in SUBSET (1..Len(history)) : P = {i \in DOMAIN history : history[i].turn > l.through /\ Perceived(history[i])}
  BY <1>2
<1>4. PICK lines : lines = NewLines(l)
  OBVIOUS
<1>5. lines = Records(P)
  BY <1>3, <1>4 DEF NewLines
<1>6. PICK c, at : /\ c \in Nat /\ at \in [1..c -> P] /\ Increasing(at, c)
                   /\ lines = [k \in 1..c |-> history[at[k]]] /\ lines \in Histories /\ Len(lines) = c
  <2>1. \E c \in Nat : \E at \in [1..c -> P] :
             /\ Increasing(at, c) /\ \A i \in P : \E k \in 1..c : at[k] = i
             /\ Records(P) = [k \in 1..c |-> history[at[k]]] /\ Records(P) \in Histories /\ Len(Records(P)) = c
    BY TheRecords
  <2>. QED  BY <1>5, <2>1
<1>7. PICK ids : ids = [k \in 1..c |-> history[at[k]].id]
  OBVIOUS
<1>8. \A k \in 1..c : /\ at[k] \in 1..Len(history) /\ history[at[k]] \in StoryRecords
                      /\ history[at[k]].turn > l.through /\ Perceived(history[at[k]])
  <2>1. SUFFICES ASSUME NEW k \in 1..c
                 PROVE  /\ at[k] \in 1..Len(history) /\ history[at[k]] \in StoryRecords
                        /\ history[at[k]].turn > l.through /\ Perceived(history[at[k]])
    OBVIOUS
  <2>2. at[k] \in P
    BY <1>6
  <2>. QED  BY <1>2, <1>3, <2>2
<1>9. ids \in Seq(Nat) /\ Len(ids) = c /\ DOMAIN ids = 1..c
  <2>1. \A k \in 1..c : history[at[k]].id \in Nat
    BY <1>8 DEF StoryRecords
  <2>2. ids \in [1..c -> Nat]
    BY <1>7, <2>1
  <2>. QED  BY <1>6, <2>2
<1>10. Distinct(ids)
  <2>1. SUFFICES ASSUME NEW j \in 1..c, NEW k \in 1..c, j < k PROVE ids[j] # ids[k]
    <3>1. \A j, k \in 1..c : j < k \/ k < j \/ j = k
      BY <1>6
    <3>. QED  BY <1>9, <2>1, <3>1 DEF Distinct
  <2>2. at[j] < at[k]
    BY <1>6, <2>1 DEF Increasing
  <2>3. history[at[j]].id < history[at[k]].id
    BY <1>8, <2>1, <2>2 DEF Ascends
  <2>4. history[at[j]].id \in Nat /\ history[at[k]].id \in Nat
    BY <1>8, <2>1 DEF StoryRecords
  <2>. QED  BY <1>7, <2>1, <2>3, <2>4
<1>11. \A k \in 1..c : ids[k] \notin Remembered(l)
  <2>1. SUFFICES ASSUME NEW k \in 1..c, ids[k] \in Remembered(l) PROVE FALSE
    OBVIOUS
  <2>2. history[at[k]].turn <= l.through
    BY <1>7, <1>8, <2>1 DEF HasRead
  <2>3. history[at[k]].turn \in Nat
    BY <1>8, <2>1 DEF StoryRecords
  <2>. QED  BY <1>1, <1>8, <2>1, <2>2, <2>3
<1>12. ToSet(ids) \cap Remembered(l) = {}
  BY <1>9, <1>11 DEF ToSet
<1>13. PICK joined : joined = l.recent \o ids
  OBVIOUS
<1>14. joined \in Seq(Nat) /\ Distinct(joined) /\ ToSet(joined) = ToSet(l.recent) \cup ToSet(ids)
  BY <1>1, <1>9, <1>10, <1>12, <1>13, JoinedAreDistinct DEF Remembered
<1>15. PICK recent : recent = Bounded(joined)
  OBVIOUS
<1>16. recent \in Seq(Nat) /\ Distinct(recent) /\ ToSet(recent) \subseteq ToSet(joined)
  BY <1>14, <1>15, BoundedIs
<1>17. PICK through \in Nat : through = Latest(l.through, lines) /\ through >= l.through
                              /\ (lines # <<>> => through >= lines[Len(lines)].turn)
  BY <1>1, <1>6, LatestIs
<1>18. \A k \in 1..c : history[at[k]].turn <= through
  <2>1. SUFFICES ASSUME NEW k \in 1..c PROVE history[at[k]].turn <= through
    OBVIOUS
  <2>2. c \in 1..c /\ lines # <<>>
    BY <1>6, <2>1
  <2>3. through >= history[at[c]].turn
    BY <1>6, <1>17, <2>2
  <2>4. history[at[k]].turn <= history[at[c]].turn
    <3>1. CASE k = c
      BY <1>8, <3>1 DEF StoryRecords
    <3>2. CASE k # c
      <4>1. at[k] < at[c]
        BY <1>6, <2>1, <2>2, <3>2 DEF Increasing
      <4>. QED  BY <1>8, <2>1, <2>2, <4>1 DEF Ascends
    <3>. QED  BY <3>1, <3>2
  <2>5. history[at[k]].turn \in Nat /\ history[at[c]].turn \in Nat
    BY <1>8, <2>1, <2>2 DEF StoryRecords
  <2>. QED  BY <2>3, <2>4, <2>5
<1>19. PICK q : q = [l EXCEPT !.recent = recent, !.through = through]
  OBVIOUS
<1>20. /\ q \in Ledgers /\ q.exists /\ q.recent = recent /\ q.summary = l.summary /\ q.through = through
       /\ q.knows = l.knows
  BY <1>1, <1>16, <1>19 DEF Ledgers
<1>21. Captured(l) = q
  <2>1. DOMAIN lines = 1..c /\ \A k \in 1..c : lines[k].id = history[at[k]].id
    BY <1>6
  <2>2. [k \in DOMAIN lines |-> lines[k].id] = ids
    BY <1>7, <2>1
  <2>. QED  BY <1>4, <1>13, <1>15, <1>17, <1>19, <2>2 DEF Captured
<1>22. Tidy(q)
  <2>1. ToSet(joined) \cap l.summary = {}
    BY <1>12, <1>14 DEF Tidy, Remembered
  <2>. QED  BY <1>16, <1>20, <2>1 DEF Tidy
<1>23. ASSUME NEW p \in Remembered(q), p \notin Remembered(l)
       PROVE  \E i \in 1..Len(history) : Perceived(history[i]) /\ history[i].id = p /\ history[i].turn <= through
  <2>1. p \in ToSet(ids)
    BY <1>14, <1>16, <1>20, <1>23 DEF Remembered
  <2>2. PICK k \in 1..c : p = history[at[k]].id
    BY <1>7, <1>9, <2>1 DEF ToSet
  <2>. QED  BY <1>8, <1>18, <2>2
<1>. QED  BY <1>17, <1>20, <1>21, <1>22, <1>23

-----------------------------------------------------------------------------
(* The story a ledger is about *)

Tellings == [next : Nat, perceived : SUBSET Nat, names : SUBSET Nat]

RecordsIn(h) == {h[i] : i \in 1..Len(h)}

\* What a ledger remembers and knows comes from records before the id k.
Justified(l, k, told) ==
    /\ \A p \in Remembered(l) : p \in told.perceived /\ p < k
    /\ l.knows => \E p \in told.names : p < k

\* Of the ledger as it was when the record k was to be appended.
Sound(l, k, story, told) ==
    Tidy(l) /\ Justified(l, k, told) /\ \A rec \in story : HasRead(l, rec)

Kept(rec, story, told) ==
    /\ rec \in StoryRecords /\ rec.id < told.next
    /\ Perceived(rec) => rec.id \in told.perceived
    /\ rec.names => rec.id \in told.names
    /\ Sound(rec.snapshot, rec.id, story, told)

\* A story, with the ledger that is kept of it.
Tells(story, l, told) ==
    told \in Tellings /\ Sound(l, told.next, story, told) /\ \A rec \in story : Kept(rec, story, told)

LEMMA RemembersNumbers == ASSUME NEW l, Tidy(l) PROVE Remembered(l) \subseteq Nat
<1>1. l.recent \in Seq(Nat) /\ l.summary \in SUBSET Nat
  BY DEF Tidy, Ledgers
<1>2. ToSet(l.recent) \subseteq Nat
  BY <1>1 DEF ToSet
<1>. QED  BY <1>1, <1>2 DEF Remembered

\* A ledger prepared from a sound one is sound.
LEMMA PreparedIs ==
    ASSUME history \in Histories, Ascends(history), turn.number \in Nat,
           NEW l, NEW story, NEW told, Tells(story, l, told),
           RecordsIn(history) \subseteq story, \A a, b \in story : a.id = b.id => a = b,
           NEW q \in _ensure_perspective(l)
    PROVE  Sound(q, told.next, story, told) /\ q.exists
<1>1. Tidy(l) /\ Justified(l, told.next, told) /\ \A rec \in story : HasRead(l, rec)
  BY DEF Tells, Sound
<1>2. Len(history) \in Nat /\ \A i \in 1..Len(history) : history[i] \in story
  BY LenProperties DEF Histories, RecordsIn
<1>3. PICK a : a = Initialized(l)
  OBVIOUS
<1>4. Tidy(a) /\ a.exists /\ Remembered(a) = Remembered(l) /\ a.through = l.through /\ a.knows = l.knows
  BY <1>1, <1>3, InitializedIs
<1>5. PICK b \in IdentityUpdated(a) : q \in Revised(Captured(b))
  BY <1>3 DEF _ensure_perspective
<1>6. /\ Tidy(b) /\ b.exists /\ Remembered(b) = Remembered(l) /\ b.through = l.through
      /\ b.knows => l.knows \/ \E i \in 1..Len(history) : history[i].names
  BY <1>4, <1>5, IdentityUpdatedIs
<1>7. \A i \in 1..Len(history) : HasRead(b, history[i])
  BY <1>1, <1>2, <1>6 DEF HasRead
<1>8. PICK c : c = Captured(b)
  OBVIOUS
<1>9. /\ Tidy(c) /\ c.exists /\ c.knows = b.knows /\ c.through \in Nat /\ c.through >= b.through
      /\ \A p \in Remembered(c) :
            \/ p \in Remembered(b)
            \/ \E i \in 1..Len(history) : /\ Perceived(history[i]) /\ history[i].id = p
                                          /\ history[i].turn <= c.through
  BY <1>6, <1>7, <1>8, CapturedIs
<1>10. Tidy(q) /\ q.exists /\ Remembered(q) = Remembered(c) /\ q.through = c.through /\ q.knows = c.knows
  BY <1>5, <1>8, <1>9, RevisedIs
<1>11. l.through \in Nat /\ told.next \in Nat
  BY <1>1 DEF Tidy, Ledgers, Tells, Tellings
<1>12. Justified(q, told.next, told)
  <2>1. ASSUME NEW p \in Remembered(q) PROVE p \in told.perceived /\ p < told.next
    <3>1. CASE p \in Remembered(l)
      BY <1>1, <3>1 DEF Justified
    <3>2. CASE p \notin Remembered(l)
      <4>1. PICK i \in 1..Len(history) : Perceived(history[i]) /\ history[i].id = p
        BY <1>6, <1>9, <1>10, <2>1, <3>2
      <4>. QED  BY <1>2, <4>1 DEF Tells, Kept
    <3>. QED  BY <3>1, <3>2
  <2>2. ASSUME q.knows PROVE \E p \in told.names : p < told.next
    <3>1. CASE l.knows
      BY <1>1, <3>1 DEF Justified
    <3>2. CASE ~l.knows
      <4>1. PICK i \in 1..Len(history) : history[i].names
        BY <1>6, <1>9, <1>10, <2>2, <3>2
      <4>. QED  BY <1>2, <4>1 DEF Tells, Kept
    <3>. QED  BY <3>1, <3>2
  <2>. QED  BY <2>1, <2>2 DEF Justified
<1>13. ASSUME NEW rec \in story, rec.id \in Remembered(q) PROVE rec.turn <= q.through
  <2>1. rec.turn \in Nat
    BY DEF Tells, Kept, StoryRecords
  <2>2. CASE rec.id \in Remembered(l)
    <3>1. rec.turn <= l.through
      BY <1>1, <2>2 DEF HasRead
    <3>. QED  BY <1>6, <1>9, <1>10, <1>11, <2>1, <3>1
  <2>3. CASE rec.id \notin Remembered(l)
    <3>1. PICK i \in 1..Len(history) : history[i].id = rec.id /\ history[i].turn <= c.through
      BY <1>6, <1>9, <1>10, <1>13, <2>3
    <3>2. history[i] = rec
      BY <1>2, <3>1
    <3>. QED  BY <1>10, <3>1, <3>2
  <2>. QED  BY <2>2, <2>3
<1>. QED  BY <1>10, <1>12, <1>13 DEF Sound, HasRead

\* The next record, with the ledger that is sound when it is appended.
LEMMA ToldOn ==
    ASSUME NEW story, NEW l, NEW told, Tells(story, l, told), NEW q, Sound(q, told.next, story, told),
           NEW rec \in StoryRecords, rec.id = told.next, rec.snapshot = q,
           NEW after, after = [next |-> told.next + 1,
                               perceived |-> told.perceived \cup (IF Perceived(rec) THEN {rec.id} ELSE {}),
                               names |-> told.names \cup (IF rec.names THEN {rec.id} ELSE {})]
    PROVE  Tells(story \cup {rec}, q, after)
<1>1. told.next \in Nat /\ told.perceived \in SUBSET Nat /\ told.names \in SUBSET Nat
  BY DEF Tells, Tellings
<1>2. after.next = told.next + 1 /\ told.perceived \subseteq after.perceived /\ told.names \subseteq after.names
  OBVIOUS
<1>3. after \in Tellings
  BY <1>1 DEF Tellings
<1>4. ASSUME NEW m, NEW k \in Nat, k <= told.next, Sound(m, k, story, told)
      PROVE  Sound(m, k, story \cup {rec}, after)
  <2>1. Remembered(m) \subseteq Nat /\ rec.id \notin Remembered(m)
    <3>1. Remembered(m) \subseteq Nat
      BY <1>4, RemembersNumbers DEF Sound
    <3>. QED  BY <1>1, <1>4, <3>1 DEF Sound, Justified
  <2>2. HasRead(m, rec)
    BY <2>1 DEF HasRead
  <2>3. Justified(m, k, after)
    BY <1>2, <1>4 DEF Sound, Justified
  <2>. QED  BY <1>4, <2>2, <2>3 DEF Sound
<1>5. Sound(q, told.next, story \cup {rec}, after)
  <2>1. told.next <= told.next
    BY <1>1
  <2>. QED  BY <1>1, <1>4, <2>1, Zenon
<1>6. Sound(q, after.next, story \cup {rec}, after)
  <2>1. \A p \in Nat : p < told.next => p < after.next
    BY <1>1, <1>2
  <2>2. Remembered(q) \subseteq Nat /\ after.names \subseteq Nat
    BY <1>3, <1>5, RemembersNumbers DEF Sound, Tellings
  <2>. QED  BY <1>5, <2>1, <2>2 DEF Sound, Justified
<1>7. Kept(rec, story \cup {rec}, after)
  <2>1. rec.id < after.next
    BY <1>1, <1>2
  <2>2. Perceived(rec) => rec.id \in after.perceived
    OBVIOUS
  <2>3. rec.names => rec.id \in after.names
    OBVIOUS
  <2>. QED  BY <1>5, <2>1, <2>2, <2>3 DEF Kept
<1>8. ASSUME NEW r \in story PROVE Kept(r, story \cup {rec}, after)
  <2>1. Kept(r, story, told)
    BY DEF Tells
  <2>2. r.id \in Nat /\ r.id < told.next
    BY <2>1 DEF Kept, StoryRecords
  <2>3. Sound(r.snapshot, r.id, story \cup {rec}, after)
    <3>1. r.id <= told.next
      BY <1>1, <2>2
    <3>2. Sound(r.snapshot, r.id, story, told)
      BY <2>1, Zenon DEF Kept
    <3>. QED  BY <1>4, <2>2, <3>1, <3>2, Zenon
  <2>4. r.id < after.next
    BY <1>1, <1>2, <2>2
  <2>. QED  BY <1>2, <2>1, <2>3, <2>4 DEF Kept
<1>. QED  BY <1>3, <1>6, <1>7, <1>8 DEF Tells

\* The story up to one of its records, whose ledger is taken back.
LEMMA TakenBack ==
    ASSUME NEW story, NEW l, NEW told, Tells(story, l, told), NEW back \in story,
           NEW undone, \A id \in undone : id \in Nat /\ id >= back.id,
           NEW after \in Tellings, after.next = told.next,
           after.perceived = told.perceived \ undone, after.names = told.names \ undone,
           NEW left, left \subseteq story, \A rec \in left : rec.id < back.id
    PROVE  Tells(left, back.snapshot, after)
<1>1. told.next \in Nat /\ told.perceived \in SUBSET Nat /\ told.names \in SUBSET Nat
  BY DEF Tells, Tellings
<1>2. /\ after.next = told.next /\ after.perceived = told.perceived \ undone
      /\ after.names = told.names \ undone /\ after \in Tellings
  OBVIOUS
<1>3. back.id \in Nat /\ back.id < told.next /\ Sound(back.snapshot, back.id, story, told)
  BY DEF Tells, Kept, StoryRecords
<1>4. ASSUME NEW m, NEW k \in Nat, k <= back.id, Sound(m, k, story, told)
      PROVE  Sound(m, k, left, after)
  <2>1. Remembered(m) \subseteq Nat
    BY <1>4, RemembersNumbers DEF Sound
  <2>2. \A p \in Nat : p < k => p \notin undone
    BY <1>3, <1>4
  <2>3. Justified(m, k, after)
    BY <1>1, <1>2, <1>4, <2>1, <2>2 DEF Sound, Justified
  <2>. QED  BY <1>4, <2>3 DEF Sound
<1>5. Sound(back.snapshot, back.id, left, after)
  BY <1>3, <1>4
<1>6. Sound(back.snapshot, after.next, left, after)
  <2>1. \A p \in Nat : p < back.id => p < after.next
    BY <1>1, <1>2, <1>3
  <2>2. Remembered(back.snapshot) \subseteq Nat /\ after.names \subseteq Nat
    BY <1>2, <1>5, RemembersNumbers DEF Sound, Tellings
  <2>. QED  BY <1>5, <2>1, <2>2 DEF Sound, Justified
<1>7. ASSUME NEW r \in left PROVE Kept(r, left, after)
  <2>1. Kept(r, story, told)
    BY DEF Tells
  <2>2. r.id \in Nat /\ r.id < back.id
    BY <2>1 DEF Kept, StoryRecords
  <2>3. Sound(r.snapshot, r.id, left, after)
    BY <1>3, <1>4, <2>1, <2>2 DEF Kept
  <2>4. r.id \notin undone
    BY <1>3, <2>2
  <2>. QED  BY <1>2, <2>1, <2>3, <2>4 DEF Kept
<1>. QED  BY <1>2, <1>6, <1>7 DEF Tells

LEMMA LedgerIsSound ==
    ASSUME NEW story, NEW l, NEW told, Tells(story, l, told), NEW q, Sound(q, told.next, story, told)
    PROVE  Tells(story, q, told)
BY DEF Tells

-----------------------------------------------------------------------------
(* The invariant *)

Story == RecordsIn(history) \cup RecordsIn(checkpoint.evicted)

StoryOrdered ==
    /\ history \in Histories /\ Ascends(history)
    /\ checkpoint.evicted \in Histories /\ Ascends(checkpoint.evicted)
    /\ \A i \in 1..Len(checkpoint.evicted), j \in 1..Len(history) : checkpoint.evicted[i].id < history[j].id

\* A compaction kept something, and what is left of that is no earlier than what
\* it evicted.
KeptInOrder ==
    /\ checkpoint.kept \in Seq(Nat) /\ checkpoint.max \in Nat
    /\ checkpoint # NoCheckpoint => checkpoint.kept # <<>>
    /\ \A k \in 1..Len(checkpoint.kept) :
          /\ checkpoint.kept[k] < aux_told.next
          /\ \A j \in 1..Len(history) : history[j].id = checkpoint.kept[k] =>
                \A i \in 1..Len(checkpoint.evicted) : checkpoint.evicted[i].turn <= history[j].turn

StoryInv == StoryOrdered /\ KeptInOrder /\ Tells(Story, ledger, aux_told)

TurnInv ==
    /\ turn \in [number : Nat, stage : {"idle", "direct", "replies", "voice"}, routed : BOOLEAN]
    /\ turn.stage # "idle" => \A i \in 1..Len(history) : history[i].turn <= turn.number
    /\ turn.stage \in {"idle", "direct"} => ~turn.routed
    /\ turn.routed => ledger.exists

MemoryInv == StoryInv /\ TurnInv

\* A record of the story is the only one of its id.
LEMMA OneOfItsId ==
    ASSUME StoryOrdered
    PROVE  \A a, b \in Story : a.id = b.id => a = b
<1>. DEFINE e == checkpoint.evicted
<1>1. /\ Len(history) \in Nat /\ Len(e) \in Nat
      /\ \A i \in 1..Len(history) : history[i].id \in Nat
      /\ \A i \in 1..Len(e) : e[i].id \in Nat
  <2>1. \A h \in Histories : Len(h) \in Nat /\ \A i \in 1..Len(h) : h[i] \in StoryRecords
    BY LenProperties DEF Histories
  <2>2. \A rec \in StoryRecords : rec.id \in Nat
    BY DEF StoryRecords
  <2>. QED  BY <2>1, <2>2 DEF StoryOrdered
<1>2. ASSUME NEW h, Ascends(h), Len(h) \in Nat, \A i \in 1..Len(h) : h[i].id \in Nat,
             NEW i \in 1..Len(h), NEW j \in 1..Len(h), h[i].id = h[j].id
      PROVE  i = j
  <2>1. i < j \/ j < i \/ i = j
    BY <1>2
  <2>. QED  BY <1>2, <2>1 DEF Ascends
<1>3. SUFFICES ASSUME NEW a \in Story, NEW b \in Story, a.id = b.id PROVE a = b
  OBVIOUS
<1>4. CASE a \in RecordsIn(history) /\ b \in RecordsIn(history)
  BY <1>1, <1>2, <1>3, <1>4 DEF RecordsIn, StoryOrdered
<1>5. CASE a \in RecordsIn(e) /\ b \in RecordsIn(e)
  BY <1>1, <1>2, <1>3, <1>5 DEF RecordsIn, StoryOrdered
<1>6. ASSUME NEW i \in 1..Len(e), NEW j \in 1..Len(history) PROVE e[i].id # history[j].id
  BY <1>1 DEF StoryOrdered
<1>7. CASE a \in RecordsIn(e) /\ b \in RecordsIn(history)
  BY <1>3, <1>6, <1>7 DEF RecordsIn
<1>8. CASE a \in RecordsIn(history) /\ b \in RecordsIn(e)
  BY <1>3, <1>6, <1>8 DEF RecordsIn
<1>. QED  BY <1>4, <1>5, <1>7, <1>8 DEF Story

LEMMA CurrentTurnIs ==
    ASSUME MemoryInv
    PROVE  /\ CurrentTurn \in Nat /\ \A i \in 1..Len(history) : history[i].turn <= CurrentTurn
           /\ turn.stage = "idle" => CurrentTurn = _next_turn_number
           /\ turn.stage # "idle" => CurrentTurn = turn.number
<1>1. Len(history) \in Nat /\ \A i \in 1..Len(history) : history[i].turn \in Nat
  <2>1. Len(history) \in Nat /\ \A i \in 1..Len(history) : history[i] \in StoryRecords
    BY LenProperties DEF MemoryInv, StoryInv, StoryOrdered, Histories
  <2>. QED  BY <2>1 DEF StoryRecords
<1>2. CASE turn.stage # "idle"
  BY <1>2 DEF CurrentTurn, MemoryInv, TurnInv
<1>3. CASE turn.stage = "idle" /\ history = <<>>
  <2>1. Len(history) = 0
    BY <1>3
  <2>. QED  BY <1>3, <2>1 DEF CurrentTurn, _next_turn_number
<1>4. CASE turn.stage = "idle" /\ history # <<>>
  <2>1. Len(history) \in 1..Len(history)
    BY <1>1, <1>4, EmptySeq DEF MemoryInv, StoryInv, StoryOrdered, Histories
  <2>2. PICK n \in Nat : n = history[Len(history)].turn
    BY <1>1, <2>1
  <2>3. CurrentTurn = n + 1 /\ CurrentTurn = _next_turn_number
    BY <1>4, <2>2 DEF CurrentTurn, _next_turn_number, Last
  <2>4. ASSUME NEW i \in 1..Len(history) PROVE history[i].turn <= n
    <3>1. CASE i = Len(history)
      BY <2>2, <3>1
    <3>2. CASE i # Len(history)
      <4>1. i < Len(history)
        BY <1>1, <3>2
      <4>. QED  BY <2>1, <2>2, <4>1 DEF MemoryInv, StoryInv, StoryOrdered, Ascends
    <3>. QED  BY <3>1, <3>2
  <2>5. \A i \in 1..Len(history) : history[i].turn <= n + 1
    BY <1>1, <2>4
  <2>. QED  BY <1>4, <2>3, <2>5
<1>. QED  BY <1>2, <1>3, <1>4

LEMMA PreparedNow ==
    ASSUME MemoryInv, NEW q \in _ensure_perspective(ledger)
    PROVE  Sound(q, aux_told.next, Story, aux_told) /\ q.exists
<1>1. RecordsIn(history) \subseteq Story
  BY DEF Story
<1>2. turn.number \in Nat
  BY DEF MemoryInv, TurnInv
<1>3. \A a, b \in Story : a.id = b.id => a = b
  BY OneOfItsId DEF MemoryInv, StoryInv
<1>. QED  BY <1>1, <1>2, <1>3, PreparedIs DEF MemoryInv, StoryInv, StoryOrdered

LEMMA AppendedIs ==
    ASSUME MemoryInv, NEW type \in {"line", "narration", "thought"}, NEW own \in BOOLEAN,
           NEW heard \in BOOLEAN, NEW names \in BOOLEAN,
           NEW q, Sound(q, aux_told.next, Story, aux_told),
           _append_history(type, own, heard, names, q), ledger' = q, UNCHANGED checkpoint
    PROVE  StoryInv' /\ \A i \in 1..Len(history') : history'[i].turn <= CurrentTurn
<1>. DEFINE e == checkpoint.evicted
<1>1. PICK n \in Nat, t \in Nat : n = aux_told.next /\ t = CurrentTurn /\ \A i \in 1..Len(history) : history[i].turn <= t
  BY CurrentTurnIs DEF MemoryInv, StoryInv, Tells, Tellings
<1>2. PICK rec : rec = [id |-> n, turn |-> t, type |-> type, own |-> own, heard |-> heard,
                        names |-> names, snapshot |-> q]
  OBVIOUS
<1>3. rec \in StoryRecords /\ rec.id = n /\ rec.snapshot = q /\ rec.turn = t /\ rec.names = names
  <2>1. q \in Ledgers
    BY DEF Sound, Tidy
  <2>. QED  BY <1>2, <2>1 DEF StoryRecords
<1>4. PICK after : after = [next |-> aux_told.next + 1,
                  perceived |-> aux_told.perceived \cup (IF Perceived(rec) THEN {rec.id} ELSE {}),
                  names |-> aux_told.names \cup (IF names THEN {rec.id} ELSE {})]
  OBVIOUS
<1>5. history' = Append(history, rec) /\ aux_told' = after
  BY <1>1, <1>2, <1>4, Zenon DEF _append_history
<1>6. PICK m \in Nat : /\ m = Len(history) /\ history' \in Histories /\ Len(history') = m + 1
                       /\ \A i \in 1..m : history'[i] = history[i]
                       /\ history'[m + 1] = rec
  BY <1>3, <1>5, LenProperties, AppendProperties DEF MemoryInv, StoryInv, StoryOrdered, Histories
<1>7. \A i \in 1..(m + 1) : i \in 1..m \/ i = m + 1
  BY <1>6
<1>8. \A r \in Story : r.id < n /\ r.id \in Nat
  BY <1>1 DEF MemoryInv, StoryInv, Tells, Kept, StoryRecords
<1>9. \A i \in 1..m : history[i].id < n /\ history[i].turn \in Nat /\ history[i].id \in Nat
  <2>1. \A i \in 1..m : history[i] \in Story
    BY <1>6 DEF Story, RecordsIn
  <2>. QED  BY <1>8, <2>1 DEF MemoryInv, StoryInv, Tells, Kept, StoryRecords
<1>10. Ascends(history')
  <2>1. SUFFICES ASSUME NEW i \in 1..(m + 1), NEW j \in 1..(m + 1), i < j
                 PROVE  history'[i].id < history'[j].id /\ history'[i].turn <= history'[j].turn
    BY <1>6 DEF Ascends
  <2>2. i \in 1..m
    BY <1>6, <2>1
  <2>3. CASE j \in 1..m
    BY <1>6, <2>1, <2>2, <2>3 DEF MemoryInv, StoryInv, StoryOrdered, Ascends
  <2>4. CASE j = m + 1
    BY <1>1, <1>3, <1>6, <1>9, <2>2, <2>4
  <2>. QED  BY <1>7, <2>3, <2>4
<1>11. RecordsIn(history') = RecordsIn(history) \cup {rec}
  <2>1. \A i \in 1..m : i \in 1..(m + 1)
    BY <1>6
  <2>2. m + 1 \in 1..(m + 1)
    BY <1>6
  <2>. QED  BY <1>6, <1>7, <2>1, <2>2 DEF RecordsIn
<1>12. Story' = Story \cup {rec}
  BY <1>11 DEF Story, RecordsIn
<1>13. Tells(Story, ledger, aux_told)
  BY DEF MemoryInv, StoryInv
<1>14. Tells(Story \cup {rec}, q, after)
  BY <1>1, <1>3, <1>4, <1>13, ToldOn
<1>15. StoryOrdered'
  <2>1. ASSUME NEW i \in 1..Len(e), NEW j \in 1..(m + 1) PROVE e[i].id < history'[j].id
    <3>1. CASE j \in 1..m
      BY <1>6, <3>1 DEF MemoryInv, StoryInv, StoryOrdered
    <3>2. CASE j = m + 1
      <4>1. e[i] \in Story
        BY DEF Story, RecordsIn
      <4>. QED  BY <1>3, <1>6, <1>8, <3>2, <4>1
    <3>. QED  BY <1>7, <3>1, <3>2
  <2>. QED  BY <1>6, <1>10, <2>1 DEF MemoryInv, StoryInv, StoryOrdered
<1>16. KeptInOrder'
  <2>1. KeptInOrder
    BY DEF MemoryInv, StoryInv
  <2>2. aux_told'.next = n + 1
    BY <1>1, <1>4, <1>5
  <2>3. ASSUME NEW k \in 1..Len(checkpoint.kept)
        PROVE  /\ checkpoint.kept[k] < n + 1
               /\ \A j \in 1..(m + 1) : history'[j].id = checkpoint.kept[k] =>
                     \A i \in 1..Len(e) : e[i].turn <= history'[j].turn
    <3>1. checkpoint.kept[k] < n /\ checkpoint.kept[k] \in Nat
      BY <1>1, <2>1, LenProperties DEF KeptInOrder
    <3>2. checkpoint.kept[k] < n + 1 /\ checkpoint.kept[k] # n
      BY <1>1, <3>1
    <3>3. ASSUME NEW j \in 1..(m + 1), history'[j].id = checkpoint.kept[k], NEW i \in 1..Len(e)
          PROVE  e[i].turn <= history'[j].turn
      <4>1. j \in 1..m
        BY <1>3, <1>6, <1>7, <3>2, <3>3
      <4>. QED  BY <1>6, <2>1, <3>3, <4>1 DEF KeptInOrder
    <3>. QED  BY <3>2, <3>3
  <2>. QED  BY <1>6, <2>1, <2>2, <2>3 DEF KeptInOrder
<1>17. \A i \in 1..(m + 1) : history'[i].turn <= t
  BY <1>1, <1>3, <1>6, <1>7
<1>. QED  BY <1>1, <1>5, <1>6, <1>12, <1>14, <1>15, <1>16, <1>17 DEF StoryInv

LEMMA QuietIs ==
    ASSUME MemoryInv, NEW q, Sound(q, aux_told.next, Story, aux_told),
           Quiet, ledger' = q, UNCHANGED checkpoint
    PROVE  StoryInv' /\ history' = history
<1>1. history' = history /\ aux_told' = aux_told /\ Story' = Story
  BY DEF Quiet, Story, RecordsIn
<1>2. Tells(Story, q, aux_told)
  BY LedgerIsSound DEF MemoryInv, StoryInv
<1>3. StoryOrdered' /\ KeptInOrder'
  BY <1>1 DEF MemoryInv, StoryInv, StoryOrdered, KeptInOrder
<1>. QED  BY <1>1, <1>2, <1>3 DEF StoryInv

-----------------------------------------------------------------------------
(* Undo, compaction, restore *)

\* A part of the history, and what its records are.
LEMMA PartOfHistory ==
    ASSUME NEW h \in Histories, NEW n \in Nat, n = Len(h), NEW a \in 1..(n + 1), NEW b \in 0..n, a <= b + 1
    PROVE  /\ SubSeq(h, a, b) \in Histories /\ Len(SubSeq(h, a, b)) = b - a + 1
           /\ \A i \in 1..(b - a + 1) : SubSeq(h, a, b)[i] = h[a + i - 1]
<1>1. \A i \in 1..n : h[i] \in StoryRecords
  BY LenProperties DEF Histories
<1>2. CASE a <= b
  <2>1. b >= a /\ \A i \in a..b : h[i] \in StoryRecords
    BY <1>1, <1>2
  <2>2. a \in Nat /\ b \in Nat
    OBVIOUS
  <2>. QED  BY <2>1, <2>2, SubSeqProperties DEF Histories
<1>3. CASE a > b
  <2>1. a = b + 1
    BY <1>3
  <2>2. SubSeq(h, a, b) = <<>>
    BY <2>1, SubSeqProperties
  <2>. QED  BY <2>1, <2>2 DEF Histories
<1>. QED  BY <1>2, <1>3

LEMMA PartAscends ==
    ASSUME NEW h, Ascends(h), NEW n \in Nat, n = Len(h), NEW a \in 1..(n + 1), NEW c \in Nat, a + c <= n + 1,
           NEW part, Len(part) = c, \A i \in 1..c : part[i] = h[a + i - 1]
    PROVE  Ascends(part) /\ RecordsIn(part) \subseteq RecordsIn(h)
<1>1. \A i \in 1..c : a + i - 1 \in 1..n
  OBVIOUS
<1>2. Ascends(part)
  <2>1. SUFFICES ASSUME NEW i \in 1..c, NEW j \in 1..c, i < j
                 PROVE  part[i].id < part[j].id /\ part[i].turn <= part[j].turn
    BY DEF Ascends
  <2>2. a + i - 1 < a + j - 1
    BY <2>1
  <2>. QED  BY <1>1, <2>2 DEF Ascends
<1>. QED  BY <1>1, <1>2 DEF RecordsIn

\* The records of the last turn are those from its first one on.
LEMMA UndoneTurnIs ==
    ASSUME history \in Histories, Ascends(history), history # <<>>
    PROVE  \E k \in 1..Len(history) :
              /\ UndoneTurn = k..Len(history) /\ RestorePoint = history[k]
              /\ Cardinality(UndoneTurn) = Len(history) - k + 1
<1>1. PICK n \in Nat \ {0} : n = Len(history) /\ DOMAIN history = 1..n
  BY LenProperties, EmptySeq DEF Histories
<1>2. \A i \in 1..n : history[i].turn \in Nat
  <2>1. \A i \in 1..n : history[i] \in StoryRecords
    BY <1>1, LenProperties DEF Histories
  <2>. QED  BY <2>1 DEF StoryRecords
<1>3. UndoneTurn = {i \in 1..n : history[i].turn = history[n].turn}
  BY <1>1 DEF UndoneTurn, Last
<1>4. n \in 1..n /\ n \in UndoneTurn
  BY <1>1, <1>3
<1>5. PICK k \in UndoneTurn : \A m \in UndoneTurn : k <= m
  <2>1. UndoneTurn \in SUBSET Nat
    BY <1>3
  <2>. QED  BY <1>4, <2>1, Least
<1>6. k \in 1..n /\ history[k].turn = history[n].turn
  BY <1>3, <1>5
<1>7. ASSUME NEW i \in k..n PROVE i \in UndoneTurn
  <2>1. i \in 1..n
    BY <1>6
  <2>2. history[k].turn <= history[i].turn
    BY <1>1, <1>2, <1>6, <2>1 DEF Ascends
  <2>3. history[i].turn <= history[n].turn
    <3>1. CASE i = n
      BY <1>2, <2>1, <3>1
    <3>2. CASE i # n
      <4>1. i < n
        BY <1>1, <2>1, <3>2
      <4>. QED  BY <1>1, <1>4, <2>1, <4>1 DEF Ascends
    <3>. QED  BY <3>1, <3>2
  <2>4. history[i].turn = history[n].turn
    BY <1>2, <1>4, <1>6, <2>1, <2>2, <2>3
  <2>. QED  BY <1>3, <2>1, <2>4
<1>8. UndoneTurn = k..n
  <2>1. \A m \in UndoneTurn : m \in k..n
    BY <1>3, <1>5, <1>6
  <2>. QED  BY <1>7, <2>1
<1>9. RestorePoint = history[k]
  <2>1. \A i \in k..n : i - 1 \notin k..n <=> i = k
    BY <1>1, <1>6
  <2>2. k \in UndoneTurn /\ k - 1 \notin UndoneTurn
    BY <1>5, <1>8, <2>1
  <2>3. \A i \in UndoneTurn : i - 1 \notin UndoneTurn => i = k
    BY <1>8, <2>1
  <2>4. (CHOOSE i \in UndoneTurn : i - 1 \notin UndoneTurn) = k
    BY <2>2, <2>3
  <2>. QED  BY <2>4 DEF RestorePoint
<1>10. Cardinality(k..n) = n - k + 1
  BY <1>1, <1>6, FS_Interval
<1>. QED  BY <1>1, <1>6, <1>8, <1>9, <1>10

LEMMA UndoTurnIs ==
    ASSUME MemoryInv, UndoTurn
    PROVE  StoryInv'
<1>. DEFINE e == checkpoint.evicted
<1>1. history \in Histories /\ Ascends(history) /\ history # <<>> /\ Tells(Story, ledger, aux_told)
  BY DEF MemoryInv, StoryInv, StoryOrdered, UndoTurn
<1>2. PICK n \in Nat : n = Len(history) /\ DOMAIN history = 1..n
  BY <1>1, LenProperties DEF Histories
<1>3. PICK k \in 1..n : /\ UndoneTurn = k..n /\ RestorePoint = history[k]
                        /\ Cardinality(UndoneTurn) = n - k + 1
  BY <1>1, <1>2, UndoneTurnIs
<1>4. history' = SubSeq(history, 1, k - 1)
  <2>1. n - (n - k + 1) = k - 1
    BY <1>2
  <2>. QED  BY <1>2, <1>3, <2>1 DEF UndoTurn
<1>5. PICK c \in Nat : c = k - 1 /\ c <= n
  <2>1. k - 1 \in Nat /\ k - 1 <= n
    BY <1>2
  <2>. QED  BY <2>1
<1>6. history' \in Histories /\ Len(history') = c /\ \A i \in 1..c : history'[i] = history[i]
  <2>1. 1 \in 1..(n + 1) /\ c \in 0..n /\ 1 <= c + 1 /\ c - 1 + 1 = c /\ \A i \in 1..c : 1 + i - 1 = i
    BY <1>2, <1>5
  <2>. QED  BY <1>1, <1>2, <1>4, <1>5, <2>1, PartOfHistory
<1>7. Ascends(history') /\ RecordsIn(history') \subseteq RecordsIn(history)
  <2>1. 1 \in 1..(n + 1) /\ 1 + c <= n + 1 /\ \A i \in 1..c : 1 + i - 1 = i
    BY <1>2, <1>5
  <2>2. \A i \in 1..c : history'[i] = history[1 + i - 1]
    BY <1>6, <2>1
  <2>3. PICK part : part = history'
    OBVIOUS
  <2>. QED  BY <1>1, <1>2, <1>6, <2>1, <2>2, <2>3, PartAscends
<1>8. checkpoint' = checkpoint /\ ledger' = history[k].snapshot
  BY <1>3 DEF UndoTurn
<1>9. PICK undone : undone = {history[i].id : i \in k..n}
  OBVIOUS
<1>10. PICK after : after = [aux_told EXCEPT !.perceived = aux_told.perceived \ undone, !.names = aux_told.names \ undone]
  OBVIOUS
<1>11. aux_told' = after
  BY <1>3, <1>9, <1>10 DEF UndoTurn
<1>12. \A i \in 1..n : history[i] \in Story /\ history[i].id \in Nat
  <2>1. \A i \in 1..n : history[i] \in Story
    BY <1>2 DEF Story, RecordsIn
  <2>. QED  BY <1>1, <2>1 DEF Tells, Kept, StoryRecords
<1>13. \A id \in undone : id \in Nat /\ id >= history[k].id
  <2>1. SUFFICES ASSUME NEW i \in k..n PROVE history[i].id \in Nat /\ history[i].id >= history[k].id
    BY <1>9
  <2>2. i \in 1..n
    BY <1>2
  <2>3. CASE i = k
    BY <1>12, <2>2, <2>3
  <2>4. CASE i # k
    <3>1. k < i
      BY <1>2, <2>4
    <3>2. history[k].id < history[i].id
      BY <1>1, <1>2, <2>2, <3>1 DEF Ascends
    <3>. QED  BY <1>12, <2>2, <3>2
  <2>. QED  BY <2>3, <2>4
<1>14. Story' = RecordsIn(history') \cup RecordsIn(e) /\ Story' \subseteq Story
  BY <1>7, <1>8 DEF Story, RecordsIn
<1>15. \A rec \in Story' : rec.id < history[k].id
  <2>1. SUFFICES ASSUME NEW rec \in Story' PROVE rec.id < history[k].id
    OBVIOUS
  <2>2. CASE rec \in RecordsIn(history')
    <3>1. PICK i \in 1..c : rec = history[i]
      BY <1>6, <2>2 DEF RecordsIn
    <3>2. i \in 1..n /\ i < k
      BY <1>2, <1>5
    <3>. QED  BY <1>1, <1>2, <3>1, <3>2 DEF Ascends
  <2>3. CASE rec \in RecordsIn(e)
    BY <1>2, <2>3 DEF RecordsIn, MemoryInv, StoryInv, StoryOrdered
  <2>. QED  BY <1>14, <2>2, <2>3
<1>16. Tells(Story', ledger', aux_told')
  <2>1. PICK left, back : left = Story' /\ back = history[k]
    OBVIOUS
  <2>2. back \in Story
    BY <1>12, <2>1
  <2>3. Tells(left, back.snapshot, after)
    <3>1. left \subseteq Story /\ \A rec \in left : rec.id < back.id
      BY <1>14, <1>15, <2>1
    <3>2. \A id \in undone : id \in Nat /\ id >= back.id
      BY <1>13, <2>1
    <3>3. Tells(Story, ledger, aux_told)
      BY <1>1
    <3>4. /\ after \in Tellings /\ after.next = aux_told.next
          /\ after.perceived = aux_told.perceived \ undone /\ after.names = aux_told.names \ undone
      BY <1>1, <1>10 DEF Tells, Tellings
    <3>. QED  BY <2>2, <3>1, <3>2, <3>3, <3>4, TakenBack, Zenon
  <2>. QED  BY <1>8, <1>11, <2>1, <2>3
<1>17. \A i \in 1..c : i \in 1..n
  BY <1>2, <1>5
<1>18. StoryOrdered'
  BY <1>2, <1>6, <1>7, <1>8, <1>17 DEF MemoryInv, StoryInv, StoryOrdered
<1>19. KeptInOrder'
  <2>1. after.next = aux_told.next
    BY <1>1, <1>10 DEF Tells, Tellings
  <2>. QED  BY <1>2, <1>6, <1>8, <1>11, <1>17, <2>1 DEF MemoryInv, StoryInv, KeptInOrder
<1>. QED  BY <1>16, <1>18, <1>19 DEF StoryInv

LEMMA CompactSessionIs ==
    ASSUME MemoryInv, CompactSession
    PROVE  StoryInv' /\ \A i \in 1..Len(history') : \E j \in 1..Len(history) : history'[i] = history[j]
<1>1. /\ history \in Histories /\ Ascends(history) /\ Tells(Story, ledger, aux_told)
      /\ checkpoint = NoCheckpoint
  BY DEF MemoryInv, StoryInv, StoryOrdered, CompactSession
<1>2. PICK m \in Nat : m = Len(history) /\ \A i \in 1..m : history[i] \in StoryRecords
  BY <1>1, LenProperties DEF Histories
<1>3. PICK n \in 1..(m - 1) :
        /\ checkpoint' = [evicted |-> SubSeq(history, 1, n),
                          kept |-> IdsOf(SubSeq(history, n + 1, m)), max |-> Last(history).turn]
        /\ history' = SubSeq(history, n + 1, m)
  BY <1>2 DEF CompactSession
<1>4. PICK c \in Nat \ {0} : c = m - n /\ n + 1 \in 1..m /\ n + c = m /\ n \in Nat
  <2>1. m - n \in Nat \ {0} /\ n + 1 \in 1..m /\ n + (m - n) = m
    BY <1>2
  <2>. QED  BY <2>1
<1>5. PICK e : e = SubSeq(history, 1, n)
  OBVIOUS
<1>6. PICK h : h = SubSeq(history, n + 1, m)
  OBVIOUS
<1>7. e \in Histories /\ Len(e) = n /\ \A i \in 1..n : e[i] = history[i]
  <2>1. 1 \in 1..(m + 1) /\ n \in 0..m /\ 1 <= n + 1 /\ n - 1 + 1 = n /\ \A i \in 1..n : 1 + i - 1 = i
    BY <1>2, <1>4
  <2>. QED  BY <1>1, <1>2, <1>5, <2>1, PartOfHistory
<1>8. h \in Histories /\ Len(h) = c /\ \A i \in 1..c : h[i] = history[n + i]
  <2>1. /\ n + 1 \in 1..(m + 1) /\ m \in 0..m /\ n + 1 <= m + 1 /\ m - (n + 1) + 1 = c
        /\ \A i \in 1..c : n + 1 + i - 1 = n + i
    BY <1>2, <1>4
  <2>. QED  BY <1>1, <1>2, <1>6, <2>1, PartOfHistory
<1>9. Ascends(e)
  <2>1. 1 \in 1..(m + 1) /\ 1 + n <= m + 1 /\ \A i \in 1..n : 1 + i - 1 = i
    BY <1>2, <1>4
  <2>2. \A i \in 1..n : e[i] = history[1 + i - 1]
    BY <1>7, <2>1
  <2>. QED  BY <1>1, <1>2, <1>4, <1>7, <2>1, <2>2, PartAscends
<1>10. Ascends(h)
  <2>1. SUFFICES ASSUME NEW i \in 1..c, NEW j \in 1..c, i < j
                 PROVE  h[i].id < h[j].id /\ h[i].turn <= h[j].turn
    BY <1>8 DEF Ascends
  <2>2. n + i \in 1..m /\ n + j \in 1..m /\ n + i < n + j
    BY <1>2, <1>4, <2>1
  <2>. QED  BY <1>1, <1>2, <1>8, <2>2 DEF Ascends
<1>11. PICK ids : ids = IdsOf(h)
  OBVIOUS
<1>12. ids \in Seq(Nat) /\ Len(ids) = c /\ ids # <<>> /\ \A i \in 1..c : ids[i] = h[i].id
  <2>1. DOMAIN h = 1..c /\ \A i \in 1..c : h[i] \in StoryRecords
    BY <1>8, LenProperties DEF Histories
  <2>2. \A i \in 1..c : h[i].id \in Nat
    BY <2>1 DEF StoryRecords
  <2>3. ids = [i \in 1..c |-> h[i].id]
    BY <1>11, <2>1 DEF IdsOf
  <2>4. ids \in [1..c -> Nat]
    BY <2>2, <2>3
  <2>5. ids \in Seq(Nat) /\ Len(ids) = c
    BY <1>4, <2>4
  <2>6. ids # <<>>
    BY <1>4, <2>5
  <2>. QED  BY <2>3, <2>5, <2>6
<1>13. PICK max \in Nat : max = Last(history).turn
  <2>1. m \in 1..m
    BY <1>2, <1>4
  <2>2. history[m].turn \in Nat
    BY <1>2, <2>1 DEF StoryRecords
  <2>. QED  BY <1>2, <2>2 DEF Last
<1>14. PICK cp : cp = [evicted |-> e, kept |-> ids, max |-> max]
  OBVIOUS
<1>15. checkpoint' = cp /\ history' = h /\ cp.evicted = e /\ cp.kept = ids /\ cp.max = max
  BY <1>3, <1>5, <1>6, <1>11, <1>13, <1>14
<1>16. \A i \in 1..n : i \in 1..m
  BY <1>2, <1>4
<1>17. \A j \in 1..c : n + j \in 1..m
  BY <1>2, <1>4
<1>18. ASSUME NEW i \in 1..n, NEW j \in 1..c PROVE e[i].id < h[j].id /\ e[i].turn <= h[j].turn
  <2>1. i < n + j
    BY <1>4
  <2>. QED  BY <1>1, <1>2, <1>7, <1>8, <1>16, <1>17, <2>1 DEF Ascends
<1>19. RecordsIn(h) \cup RecordsIn(e) = Story
  <2>1. ASSUME NEW r \in RecordsIn(history) PROVE r \in RecordsIn(h) \cup RecordsIn(e)
    <3>1. PICK i \in 1..m : r = history[i]
      BY <1>2, <2>1 DEF RecordsIn
    <3>2. CASE i <= n
      <4>1. i \in 1..n
        BY <1>4, <3>2
      <4>. QED  BY <1>7, <3>1, <4>1 DEF RecordsIn
    <3>3. CASE ~(i <= n)
      <4>1. i - n \in 1..c /\ n + (i - n) = i
        BY <1>4, <3>3
      <4>. QED  BY <1>8, <3>1, <4>1 DEF RecordsIn
    <3>. QED  BY <3>2, <3>3
  <2>2. RecordsIn(h) \subseteq RecordsIn(history) /\ RecordsIn(e) \subseteq RecordsIn(history)
    BY <1>2, <1>7, <1>8, <1>16, <1>17 DEF RecordsIn
  <2>3. RecordsIn(checkpoint.evicted) = {}
    BY <1>1 DEF RecordsIn, NoCheckpoint
  <2>. QED  BY <2>1, <2>2, <2>3 DEF Story
<1>20. Story' = Story /\ ledger' = ledger /\ aux_told' = aux_told
  <2>1. Story' = RecordsIn(history') \cup RecordsIn(checkpoint'.evicted)
    BY DEF Story, RecordsIn
  <2>. QED  BY <1>15, <1>19, <2>1 DEF CompactSession
<1>21. StoryOrdered'
  BY <1>7, <1>8, <1>9, <1>10, <1>15, <1>18 DEF StoryOrdered
<1>22. KeptInOrder'
  <2>1. ASSUME NEW k \in 1..c PROVE ids[k] < aux_told.next
    <3>1. h[k] \in Story
      BY <1>8, <1>17, <1>2 DEF Story, RecordsIn
    <3>. QED  BY <1>1, <1>12, <3>1 DEF Tells, Kept
  <2>. QED  BY <1>7, <1>8, <1>12, <1>15, <1>18, <1>20, <2>1 DEF KeptInOrder
<1>23. \A i \in 1..Len(history') : \E j \in 1..Len(history) : history'[i] = history[j]
  BY <1>2, <1>8, <1>15, <1>17
<1>. QED  BY <1>1, <1>20, <1>21, <1>22, <1>23 DEF StoryInv

LEMMA RestoreLastCompactionIs ==
    ASSUME MemoryInv, RestoreLastCompaction
    PROVE  StoryInv'
<1>1. PICK e : e = checkpoint.evicted
  OBVIOUS
<1>2. /\ history \in Histories /\ Ascends(history) /\ e \in Histories /\ Ascends(e)
      /\ Tells(Story, ledger, aux_told) /\ checkpoint # NoCheckpoint
  BY <1>1 DEF MemoryInv, StoryInv, StoryOrdered, RestoreLastCompaction
<1>3. PICK m \in Nat : m = Len(history) /\ DOMAIN history = 1..m /\ \A i \in 1..m : history[i] \in StoryRecords
  BY <1>2, LenProperties DEF Histories
<1>4. PICK n \in Nat : n = Len(e) /\ \A i \in 1..n : e[i] \in StoryRecords
  BY <1>2, LenProperties DEF Histories
<1>5. PICK P \in SUBSET (1..m) : P = {i \in DOMAIN history : history[i].turn <= checkpoint.max}
  BY <1>3
<1>6. IdsOf(Records(P)) = checkpoint.kept /\ KeptInOrder
  BY <1>5 DEF RestoreLastCompaction, MemoryInv, StoryInv
<1>7. PICK c \in Nat : \E at \in [1..c -> P] :
              /\ Increasing(at, c) /\ \A i \in P : \E k \in 1..c : at[k] = i
              /\ Records(P) = [k \in 1..c |-> history[at[k]]] /\ Records(P) \in Histories /\ Len(Records(P)) = c
  BY <1>2, <1>3, TheRecords
<1>8. PICK at \in [1..c -> P] : /\ \A i \in P : \E k \in 1..c : at[k] = i
                               /\ Records(P) = [k \in 1..c |-> history[at[k]]]
  BY <1>7
<1>9. checkpoint.kept = [k \in 1..c |-> history[at[k]].id] /\ Len(checkpoint.kept) = c
  <2>1. PICK rs : rs = [k \in 1..c |-> history[at[k]]]
    OBVIOUS
  <2>2. DOMAIN rs = 1..c /\ \A k \in 1..c : rs[k].id = history[at[k]].id
    BY <2>1
  <2>3. IdsOf(rs) = [k \in 1..c |-> history[at[k]].id]
    BY <2>2 DEF IdsOf
  <2>4. checkpoint.kept = [k \in 1..c |-> history[at[k]].id]
    BY <1>6, <1>8, <2>1, <2>3
  <2>5. checkpoint.kept \in Seq(Nat)
    BY <1>6 DEF KeptInOrder
  <2>. QED  BY <1>7, <2>4, <2>5, LenProperties
<1>10. c # 0
  <2>1. checkpoint.kept # <<>> /\ checkpoint.kept \in Seq(Nat)
    BY <1>2, <1>6 DEF KeptInOrder
  <2>. QED  BY <1>9, <2>1, EmptySeq
\* The first record left is one of those the compaction kept.
<1>11. 1 \in P /\ 1 \in 1..m
  <2>1. 1 \in 1..c
    BY <1>10
  <2>2. PICK i \in 1..m : i \in P
    BY <1>8, <2>1
  <2>3. 1 \in 1..m
    BY <2>2
  <2>4. history[1].turn <= history[i].turn
    <3>1. CASE i = 1
      BY <1>3, <2>3, <3>1 DEF StoryRecords
    <3>2. CASE i # 1
      <4>1. 1 < i
        BY <3>2
      <4>. QED  BY <1>2, <1>3, <2>3, <4>1 DEF Ascends
    <3>. QED  BY <3>1, <3>2
  <2>5. history[1].turn \in Nat /\ history[i].turn \in Nat /\ checkpoint.max \in Nat /\ history[i].turn <= checkpoint.max
    BY <1>3, <1>5, <1>6, <2>2, <2>3 DEF StoryRecords, KeptInOrder
  <2>6. history[1].turn <= checkpoint.max
    BY <2>4, <2>5
  <2>. QED  BY <1>3, <1>5, <2>3, <2>6
<1>12. \A i \in 1..n : e[i].turn <= history[1].turn
  <2>1. PICK k \in 1..c : at[k] = 1
    BY <1>8, <1>11
  <2>2. history[1].id = checkpoint.kept[k]
    BY <1>9, <2>1
  <2>. QED  BY <1>1, <1>3, <1>4, <1>6, <1>9, <1>11, <2>2 DEF KeptInOrder
<1>13. \A j \in 1..m : history[1].turn <= history[j].turn
  <2>1. SUFFICES ASSUME NEW j \in 1..m PROVE history[1].turn <= history[j].turn
    OBVIOUS
  <2>2. CASE j = 1
    BY <1>3, <1>11, <2>2 DEF StoryRecords
  <2>3. CASE j # 1
    <3>1. 1 < j
      BY <2>3
    <3>. QED  BY <1>2, <1>3, <1>11, <3>1 DEF Ascends
  <2>. QED  BY <2>2, <2>3
<1>14. ASSUME NEW i \in 1..n, NEW j \in 1..m PROVE e[i].id < history[j].id /\ e[i].turn <= history[j].turn
  <2>1. e[i].id < history[j].id
    BY <1>1, <1>3, <1>4 DEF MemoryInv, StoryInv, StoryOrdered
  <2>2. e[i].turn <= history[1].turn /\ history[1].turn <= history[j].turn
    BY <1>12, <1>13
  <2>3. e[i].turn \in Nat /\ history[1].turn \in Nat /\ history[j].turn \in Nat
    BY <1>3, <1>4, <1>11 DEF StoryRecords
  <2>. QED  BY <2>1, <2>2, <2>3
<1>15. PICK h : h = e \o history
  OBVIOUS
<1>16. /\ h \in Histories /\ Len(h) = n + m
       /\ \A i \in 1..(n + m) : h[i] = IF i <= n THEN e[i] ELSE history[i - n]
  BY <1>2, <1>3, <1>4, <1>15, ConcatProperties DEF Histories
<1>17. \A i \in 1..(n + m) : (i <= n => i \in 1..n) /\ (~(i <= n) => i - n \in 1..m)
  BY <1>3, <1>4
<1>18. Ascends(h)
  <2>1. SUFFICES ASSUME NEW i \in 1..(n + m), NEW j \in 1..(n + m), i < j
                 PROVE  h[i].id < h[j].id /\ h[i].turn <= h[j].turn
    BY <1>16 DEF Ascends
  <2>2. CASE i <= n /\ j <= n
    BY <1>2, <1>4, <1>16, <1>17, <2>1, <2>2 DEF Ascends
  <2>3. CASE i <= n /\ ~(j <= n)
    BY <1>14, <1>16, <1>17, <2>3
  <2>4. CASE ~(i <= n)
    <3>1. ~(j <= n) /\ i - n < j - n
      BY <1>3, <1>4, <2>1, <2>4
    <3>2. i - n \in 1..m /\ j - n \in 1..m /\ h[i] = history[i - n] /\ h[j] = history[j - n]
      BY <1>16, <1>17, <2>4, <3>1
    <3>. QED  BY <1>2, <1>3, <3>1, <3>2 DEF Ascends
  <2>. QED  BY <2>2, <2>3, <2>4
<1>19. RecordsIn(h) = Story
  <2>1. RecordsIn(h) \subseteq Story
    BY <1>1, <1>3, <1>4, <1>16, <1>17 DEF Story, RecordsIn
  <2>2. RecordsIn(e) \subseteq RecordsIn(h)
    <3>1. \A i \in 1..n : i \in 1..(n + m) /\ i <= n
      BY <1>3, <1>4
    <3>. QED  BY <1>4, <1>16, <3>1 DEF RecordsIn
  <2>3. RecordsIn(history) \subseteq RecordsIn(h)
    <3>1. \A i \in 1..m : n + i \in 1..(n + m) /\ ~(n + i <= n) /\ (n + i) - n = i
      BY <1>3, <1>4
    <3>2. SUFFICES ASSUME NEW i \in 1..m PROVE history[i] \in RecordsIn(h)
      BY <1>3 DEF RecordsIn
    <3>3. h[n + i] = history[i] /\ n + i \in 1..(n + m)
      BY <1>16, <3>1
    <3>. QED  BY <1>16, <3>3 DEF RecordsIn
  <2>. QED  BY <1>1, <2>1, <2>2, <2>3 DEF Story
<1>20. history' = h /\ checkpoint' = NoCheckpoint /\ ledger' = ledger /\ aux_told' = aux_told
  BY <1>1, <1>15 DEF RestoreLastCompaction
<1>21. NoCheckpoint.evicted = <<>> /\ NoCheckpoint.kept = <<>> /\ NoCheckpoint.max = 0
  BY DEF NoCheckpoint
<1>22. Story' = Story
  <2>1. Story' = RecordsIn(history') \cup RecordsIn(checkpoint'.evicted)
    BY DEF Story, RecordsIn
  <2>2. RecordsIn(<<>>) = {}
    BY DEF RecordsIn
  <2>. QED  BY <1>19, <1>20, <1>21, <2>1, <2>2
<1>23. StoryOrdered'
  <2>1. <<>> \in Histories /\ Ascends(<<>>)
    BY DEF Histories, Ascends
  <2>. QED  BY <1>16, <1>18, <1>20, <1>21, <2>1 DEF StoryOrdered
<1>24. KeptInOrder'
  BY <1>20, <1>21 DEF KeptInOrder
<1>. QED  BY <1>2, <1>20, <1>22, <1>23, <1>24 DEF StoryInv

-----------------------------------------------------------------------------
(* Each step keeps the invariant *)

\* Every operation leaves a turn of that shape.
LEMMA StageIs ==
    ASSUME MemoryInv, NEW t, t \in [number : Nat, stage : {"idle", "direct", "replies", "voice"}, routed : BOOLEAN],
           turn' = t, StoryInv', NEW n \in Nat,
           t.stage # "idle" => n <= t.number, \A i \in 1..Len(history') : history'[i].turn <= n,
           t.stage \in {"idle", "direct"} => ~t.routed, t.routed => ledger'.exists
    PROVE  MemoryInv'
<1>1. history' \in Histories
  BY DEF StoryInv, StoryOrdered
<1>2. \A i \in 1..Len(history') : history'[i].turn \in Nat
  <2>1. PICK h \in Histories : h = history'
    BY <1>1
  <2>2. \A i \in 1..Len(h) : h[i] \in StoryRecords
    BY LenProperties DEF Histories
  <2>3. \A i \in 1..Len(h) : h[i].turn \in Nat
    BY <2>2 DEF StoryRecords
  <2>. QED  BY <2>1, <2>3
<1>3. t.stage # "idle" => \A i \in 1..Len(history') : history'[i].turn <= t.number
  <2>1. SUFFICES ASSUME t.stage # "idle", NEW i \in 1..Len(history') PROVE history'[i].turn <= t.number
    OBVIOUS
  <2>2. t.number \in Nat /\ n <= t.number /\ history'[i].turn <= n /\ history'[i].turn \in Nat
    BY <1>2, <2>1
  <2>. QED  BY <2>2
<1>4. TurnInv'
  BY <1>3 DEF TurnInv
<1>. QED  BY <1>4 DEF MemoryInv

LEMMA LedgerIs ==
    ASSUME MemoryInv
    PROVE  Sound(ledger, aux_told.next, Story, aux_told)
BY DEF MemoryInv, StoryInv, Tells

LEMMA OthersLineIs ==
    ASSUME MemoryInv, OthersLine, UNCHANGED <<ledger, checkpoint>>
    PROVE  StoryInv' /\ \A i \in 1..Len(history') : history'[i].turn <= CurrentTurn
<1>1. Sound(ledger, aux_told.next, Story, aux_told)
  BY LedgerIs
<1>2. ledger' = ledger /\ checkpoint' = checkpoint
  OBVIOUS
<1>3. ASSUME NEW heard \in BOOLEAN, NEW names \in BOOLEAN, _append_history("line", FALSE, heard, names, ledger)
      PROVE  StoryInv' /\ \A i \in 1..Len(history') : history'[i].turn <= CurrentTurn
  <2>1. "line" \in {"line", "narration", "thought"} /\ FALSE \in BOOLEAN
    OBVIOUS
  <2>. QED  BY <1>1, <1>2, <1>3, <2>1, AppendedIs
<1>4. CASE _append_history("line", FALSE, FALSE, FALSE, ledger)
  BY <1>3, <1>4
<1>5. ASSUME NEW names \in BOOLEAN, _append_history("line", FALSE, TRUE, names, ledger)
      PROVE  StoryInv' /\ \A i \in 1..Len(history') : history'[i].turn <= CurrentTurn
  BY <1>3, <1>5
<1>. QED  BY <1>4, <1>5 DEF OthersLine

LEMMA QuietTurnIs ==
    ASSUME MemoryInv, Quiet, NEW q, Sound(q, aux_told.next, Story, aux_told), ledger' = q, UNCHANGED checkpoint
    PROVE  StoryInv' /\ \A i \in 1..Len(history') : history'[i].turn <= CurrentTurn
<1>1. StoryInv' /\ history' = history
  BY QuietIs
<1>. QED  BY <1>1, CurrentTurnIs

LEMMA PlayerTurnIs == ASSUME MemoryInv, PlayerTurn PROVE MemoryInv'
<1>1. /\ turn.stage = "idle" /\ ledger' = ledger /\ checkpoint' = checkpoint
      /\ turn' = [number |-> _next_turn_number, stage |-> "direct", routed |-> FALSE]
  BY DEF PlayerTurn
<1>2. PICK n \in Nat : n = CurrentTurn /\ n = _next_turn_number
  BY <1>1, CurrentTurnIs
<1>3. StoryInv' /\ \A i \in 1..Len(history') : history'[i].turn <= n
  <2>1. CASE OthersLine
    BY <1>1, <1>2, <2>1, OthersLineIs
  <2>2. CASE Quiet
    BY <1>1, <1>2, <2>2, LedgerIs, QuietTurnIs
  <2>. QED  BY <2>1, <2>2 DEF PlayerTurn
<1>4. PICK t : t = [number |-> n, stage |-> "direct", routed |-> FALSE]
  OBVIOUS
<1>5. /\ t \in [number : Nat, stage : {"idle", "direct", "replies", "voice"}, routed : BOOLEAN]
      /\ t.number = n /\ t.stage = "direct" /\ ~t.routed /\ turn' = t
  BY <1>1, <1>2, <1>4
<1>. QED  BY <1>3, <1>5, StageIs

LEMMA RenderAndPrepareIs == ASSUME MemoryInv, RenderAndPrepare PROVE MemoryInv'
<1>1. turn.stage = "direct" /\ checkpoint' = checkpoint
  BY DEF RenderAndPrepare
<1>2. PICK n \in Nat : n = CurrentTurn /\ n = turn.number
  BY <1>1, CurrentTurnIs
<1>3. PICK routed \in BOOLEAN : /\ turn' = [turn EXCEPT !.stage = "replies", !.routed = routed]
                                /\ ledger' \in IF routed THEN _ensure_perspective(ledger) ELSE {ledger}
  BY DEF RenderAndPrepare
<1>4. PICK q : q = ledger'
  OBVIOUS
<1>5. Sound(q, aux_told.next, Story, aux_told) /\ (routed => q.exists)
  <2>1. CASE routed
    BY <1>3, <1>4, <2>1, PreparedNow
  <2>2. CASE ~routed
    BY <1>3, <1>4, <2>2, LedgerIs
  <2>. QED  BY <2>1, <2>2
<1>6. StoryInv' /\ \A i \in 1..Len(history') : history'[i].turn <= n
  <2>1. CASE _append_history("narration", FALSE, FALSE, FALSE, ledger')
    <3>1. _append_history("narration", FALSE, FALSE, FALSE, q)
      BY <1>4, <2>1
    <3>2. "narration" \in {"line", "narration", "thought"} /\ FALSE \in BOOLEAN
      OBVIOUS
    <3>. QED  BY <1>1, <1>2, <1>4, <1>5, <3>1, <3>2, AppendedIs
  <2>2. CASE Quiet
    BY <1>1, <1>2, <1>4, <1>5, <2>2, QuietTurnIs
  <2>. QED  BY <2>1, <2>2 DEF RenderAndPrepare
<1>7. PICK t : t = [turn EXCEPT !.stage = "replies", !.routed = routed]
  OBVIOUS
<1>8. /\ t \in [number : Nat, stage : {"idle", "direct", "replies", "voice"}, routed : BOOLEAN]
      /\ t.number = n /\ t.stage = "replies" /\ t.routed = routed /\ turn' = t
  BY <1>2, <1>3, <1>7 DEF MemoryInv, TurnInv
<1>. QED  BY <1>4, <1>5, <1>6, <1>8, StageIs

LEMMA OtherRepliesIs == ASSUME MemoryInv, OtherReplies PROVE MemoryInv'
<1>1. turn.stage = "replies" /\ OthersLine /\ ledger' = ledger /\ checkpoint' = checkpoint /\ turn' = turn
  BY DEF OtherReplies
<1>2. PICK n \in Nat : n = CurrentTurn /\ n = turn.number
  BY <1>1, CurrentTurnIs
<1>3. StoryInv' /\ \A i \in 1..Len(history') : history'[i].turn <= n
  BY <1>1, <1>2, OthersLineIs
<1>4. PICK t : t = turn
  OBVIOUS
<1>5. /\ t \in [number : Nat, stage : {"idle", "direct", "replies", "voice"}, routed : BOOLEAN]
      /\ t.number = n /\ t.stage = "replies" /\ turn' = t /\ (t.routed => ledger'.exists)
  BY <1>1, <1>2, <1>4 DEF MemoryInv, TurnInv
<1>. QED  BY <1>3, <1>5, StageIs

LEMMA ViewerRepliesIs ==
    ASSUME MemoryInv, ViewerReplies
    PROVE  MemoryInv' /\ Sound(ledger', aux_told.next, Story, aux_told) /\ ledger'.exists
<1>1. /\ turn.stage = "replies" /\ checkpoint' = checkpoint /\ turn' = [turn EXCEPT !.routed = FALSE]
      /\ ledger' \in _ensure_perspective(ledger)
  BY DEF ViewerReplies
<1>2. PICK n \in Nat : n = CurrentTurn /\ n = turn.number
  BY <1>1, CurrentTurnIs
<1>3. PICK q \in _ensure_perspective(ledger) : q = ledger'
  BY <1>1
<1>4. Sound(q, aux_told.next, Story, aux_told) /\ q.exists
  BY PreparedNow
<1>5. PICK type \in {"line", "thought"} : _append_history(type, TRUE, TRUE, FALSE, q)
  BY <1>3 DEF ViewerReplies
<1>6. StoryInv' /\ \A i \in 1..Len(history') : history'[i].turn <= n
  <2>1. type \in {"line", "narration", "thought"} /\ TRUE \in BOOLEAN /\ FALSE \in BOOLEAN
    OBVIOUS
  <2>. QED  BY <1>1, <1>2, <1>3, <1>4, <1>5, <2>1, AppendedIs
<1>7. PICK t : t = [turn EXCEPT !.routed = FALSE]
  OBVIOUS
<1>8. /\ t \in [number : Nat, stage : {"idle", "direct", "replies", "voice"}, routed : BOOLEAN]
      /\ t.number = n /\ t.stage = "replies" /\ ~t.routed /\ turn' = t
  BY <1>1, <1>2, <1>7 DEF MemoryInv, TurnInv
<1>. QED  BY <1>3, <1>4, <1>6, <1>8, StageIs

LEMMA CommitTurnIs == ASSUME MemoryInv, CommitTurn PROVE MemoryInv'
<1>1. /\ turn.stage = "replies" /\ ledger' = ledger /\ checkpoint' = checkpoint
      /\ turn' = [turn EXCEPT !.stage = "voice"]
  BY DEF CommitTurn
<1>2. PICK n \in Nat : n = CurrentTurn /\ n = turn.number
  BY <1>1, CurrentTurnIs
<1>3. StoryInv' /\ \A i \in 1..Len(history') : history'[i].turn <= n
  <2>1. CASE OthersLine
    BY <1>1, <1>2, <2>1, OthersLineIs
  <2>2. CASE _append_history("line", TRUE, TRUE, FALSE, ledger)
    <3>1. "line" \in {"line", "narration", "thought"} /\ TRUE \in BOOLEAN /\ FALSE \in BOOLEAN
      OBVIOUS
    <3>. QED  BY <1>1, <1>2, <2>2, <3>1, LedgerIs, AppendedIs
  <2>3. CASE Quiet
    BY <1>1, <1>2, <2>3, LedgerIs, QuietTurnIs
  <2>. QED  BY <2>1, <2>2, <2>3 DEF CommitTurn
<1>4. PICK t : t = [turn EXCEPT !.stage = "voice"]
  OBVIOUS
<1>5. /\ t \in [number : Nat, stage : {"idle", "direct", "replies", "voice"}, routed : BOOLEAN]
      /\ t.number = n /\ t.stage = "voice" /\ t.routed = turn.routed /\ turn' = t /\ (t.routed => ledger'.exists)
  BY <1>1, <1>2, <1>4 DEF MemoryInv, TurnInv
<1>. QED  BY <1>3, <1>5, StageIs

LEMMA TurnSavedIs == ASSUME MemoryInv, TurnSaved PROVE MemoryInv'
<1>1. turn' = Idle /\ ledger' = ledger /\ checkpoint' = checkpoint /\ Quiet
  BY DEF TurnSaved, Quiet
<1>2. PICK n \in Nat : n = CurrentTurn
  BY CurrentTurnIs
<1>3. StoryInv' /\ \A i \in 1..Len(history') : history'[i].turn <= n
  BY <1>1, <1>2, LedgerIs, QuietTurnIs
<1>4. PICK t : t = Idle
  OBVIOUS
<1>5. /\ t \in [number : Nat, stage : {"idle", "direct", "replies", "voice"}, routed : BOOLEAN]
      /\ t.stage = "idle" /\ ~t.routed /\ turn' = t
  BY <1>1, <1>4 DEF Idle
<1>. QED  BY <1>2, <1>3, <1>5, StageIs

\* Between turns there is nothing to say of the turn.
LEMMA BetweenTurns ==
    ASSUME MemoryInv, turn.stage = "idle", turn' = turn, StoryInv'
    PROVE  MemoryInv'
BY DEF MemoryInv, TurnInv

LEMMA MemoryStarts == ASSUME MemoryInit PROVE MemoryInv
<1>1. /\ history = <<>> /\ aux_told = [next |-> 1, perceived |-> {}, names |-> {}]
      /\ ledger = NoLedger /\ checkpoint = NoCheckpoint /\ turn = Idle
  BY DEF MemoryInit
<1>2. <<>> \in Histories /\ Ascends(<<>>) /\ Len(<<>>) = 0 /\ <<>> \in Seq(Nat)
  BY DEF Histories, Ascends
<1>3. checkpoint.evicted = <<>> /\ checkpoint.kept = <<>> /\ checkpoint.max = 0
  BY <1>1 DEF NoCheckpoint
<1>4. Story = {}
  BY <1>1, <1>3 DEF Story, RecordsIn
<1>5. aux_told \in Tellings /\ Sound(ledger, aux_told.next, Story, aux_told)
  BY <1>1, <1>4, NoLedgerIs DEF Tellings, Sound, Justified
<1>6. StoryInv
  BY <1>1, <1>2, <1>3, <1>4, <1>5 DEF StoryInv, StoryOrdered, KeptInOrder, Tells
<1>7. TurnInv
  BY <1>1 DEF TurnInv, Idle
<1>. QED  BY <1>6, <1>7 DEF MemoryInv

LEMMA MemoryGoesOn == ASSUME MemoryInv, [MemoryNext]_memoryVars PROVE MemoryInv'
<1>1. CASE PlayerTurn
  BY <1>1, PlayerTurnIs
<1>2. CASE RenderAndPrepare
  BY <1>2, RenderAndPrepareIs
<1>3. CASE OtherReplies
  BY <1>3, OtherRepliesIs
<1>4. CASE ViewerReplies
  BY <1>4, ViewerRepliesIs
<1>5. CASE CommitTurn
  BY <1>5, CommitTurnIs
<1>6. CASE TurnSaved
  BY <1>6, TurnSavedIs
<1>7. CASE UndoTurn
  BY <1>7, UndoTurnIs, BetweenTurns DEF UndoTurn
<1>8. CASE CompactSession
  BY <1>8, CompactSessionIs, BetweenTurns DEF CompactSession
<1>9. CASE RestoreLastCompaction
  BY <1>9, RestoreLastCompactionIs, BetweenTurns DEF RestoreLastCompaction
<1>10. CASE UNCHANGED memoryVars
  <2>1. /\ history' = history /\ ledger' = ledger /\ checkpoint' = checkpoint /\ turn' = turn
        /\ aux_told' = aux_told
    BY <1>10 DEF memoryVars
  <2>2. Story' = Story
    BY <2>1 DEF Story, RecordsIn
  <2>. QED  BY <2>1, <2>2 DEF MemoryInv, StoryInv, StoryOrdered, KeptInOrder, TurnInv
<1>. QED  BY <1>1, <1>2, <1>3, <1>4, <1>5, <1>6, <1>7, <1>8, <1>9, <1>10 DEF MemoryNext

LEMMA MemoryStands == MemorySpec => []MemoryInv
<1>1. MemoryInit => MemoryInv
  BY MemoryStarts
<1>2. MemoryInv /\ [MemoryNext]_memoryVars => MemoryInv'
  BY MemoryGoesOn
<1>. QED  BY <1>1, <1>2, PTL DEF MemorySpec

-----------------------------------------------------------------------------
(* What the invariant says *)

\* A list without repetitions has as many members as places.
LEMMA AsManyAsPlaces ==
    ASSUME NEW s \in Seq(Nat), Distinct(s)
    PROVE  Cardinality(ToSet(s)) = Len(s)
<1>1. PICK n \in Nat : n = Len(s) /\ s \in [1..n -> Nat] /\ DOMAIN s = 1..n
  BY LenProperties
<1>2. PICK S : S = ToSet(s)
  OBVIOUS
<1>3. S = {s[i] : i \in 1..n}
  BY <1>1, <1>2 DEF ToSet
<1>4. s \in [1..n -> S] /\ \A i, j \in 1..n : s[i] = s[j] => i = j
  BY <1>1, <1>3 DEF Distinct
<1>5. s \in Bijection(1..n, S)
  <2>1. s \in Injection(1..n, S)
    BY <1>4 DEF Injection, IsInjective
  <2>2. s \in Surjection(1..n, S)
    BY <1>3, <1>4 DEF Surjection
  <2>. QED  BY <2>1, <2>2 DEF Bijection
<1>6. IsFiniteSet(1..n) /\ Cardinality(1..n) = n
  BY FS_Interval
<1>7. ExistsBijection(1..n, S)
  BY <1>5 DEF ExistsBijection
<1>8. Cardinality(S) = Cardinality(1..n)
  BY <1>6, <1>7, FS_Bijection, Zenon
<1>. QED  BY <1>1, <1>2, <1>6, <1>8

\* What the viewer remembers, and the name it knows, come from lines of the story
\* that it spoke or perceived: no ledger that an undo or a restore brings back says
\* more.
THEOREM RemembersOnlyTheStory == MemorySpec => []OnlyTheStoryIsRemembered
<1>1. MemoryInv => OnlyTheStoryIsRemembered
  <2>1. SUFFICES ASSUME Justified(ledger, aux_told.next, aux_told) PROVE OnlyTheStoryIsRemembered
    BY LedgerIs DEF Sound
  <2>. QED  BY <2>1 DEF Justified, OnlyTheStoryIsRemembered
<1>. QED  BY <1>1, MemoryStands, PTL

\* No line is in the digest twice, nor in the digest and the summary.
THEOREM RemembersEachLineOnce == MemorySpec => []NothingRememberedTwice
<1>1. ASSUME MemoryInv PROVE NothingRememberedTwice
  <2>1. Tidy(ledger)
    BY <1>1, LedgerIs DEF Sound
  <2>2. ledger.recent \in Seq(Nat) /\ Distinct(ledger.recent) /\ ToSet(ledger.recent) \cap ledger.summary = {}
    BY <2>1 DEF Tidy, Ledgers
  <2>. QED  BY <2>2, AsManyAsPlaces DEF NothingRememberedTwice
<1>. QED  BY <1>1, MemoryStands, PTL

\* When the viewer answers, nothing it is shown names a stranger no line named.
THEOREM StrangersStayStrangers == MemorySpec => StrangerUntilNamed
<1>1. ASSUME MemoryInv, [MemoryNext]_memoryVars, turn.routed, ~turn'.routed, Name \in ShownAs(ledger')
      PROVE  aux_told.names # {}
  <2>1. ASSUME NEW q, Sound(q, aux_told.next, Story, aux_told), q.exists, Name \in ShownAs(q)
        PROVE  aux_told.names # {}
    <3>1. Name # Id /\ Name # Reference /\ Id # Reference
      BY DEF Name, Id, Reference
    <3>2. ~q.knows => /\ viewer_speaker_label(q) = Reference /\ _roster_label(q) = Reference
                      /\ Projected(q, Name) = Reference /\ Projected(q, Id) = Reference
      BY <2>1, <3>1 DEF viewer_speaker_label, _roster_label, Projected
    <3>3. ~q.knows => ShownAs(q) = {Reference}
      BY <3>2 DEF ShownAs, _build_present_roster, project_text_for_viewer
    <3>4. q.knows
      BY <2>1, <3>1, <3>3
    <3>. QED  BY <2>1, <3>4 DEF Sound, Justified
  <2>2. turn.routed => turn.stage \notin {"idle", "direct"} /\ ledger.exists
    BY <1>1 DEF MemoryInv, TurnInv
  <2>3. CASE ViewerReplies
    BY <1>1, <2>1, <2>3, ViewerRepliesIs
  <2>4. CASE TurnSaved
    BY <1>1, <2>1, <2>2, <2>4, LedgerIs DEF TurnSaved
  <2>5. ASSUME ~ViewerReplies, ~TurnSaved PROVE FALSE
    <3>1. turn.routed \in BOOLEAN /\ turn.stage # "idle" /\ turn.stage # "direct"
      BY <1>1, <2>2 DEF MemoryInv, TurnInv
    <3>2. \/ OtherReplies \/ CommitTurn \/ UNCHANGED memoryVars
      BY <1>1, <2>5, <3>1
         DEF MemoryNext, PlayerTurn, RenderAndPrepare, UndoTurn, CompactSession, RestoreLastCompaction
    <3>3. PICK t : t = [turn EXCEPT !.stage = "voice"]
      OBVIOUS
    <3>4. t.routed = turn.routed
      BY <1>1, <3>3 DEF MemoryInv, TurnInv
    <3>5. turn'.routed = turn.routed
      BY <3>2, <3>3, <3>4 DEF OtherReplies, CommitTurn, memoryVars
    <3>. QED  BY <1>1, <3>5
  <2>. QED  BY <2>3, <2>4, <2>5
<1>2. MemoryInv /\ [MemoryNext]_memoryVars =>
         [turn.routed /\ ~turn'.routed /\ Name \in ShownAs(ledger') => aux_told.names # {}]_memoryVars
  BY <1>1
<1>3. MemorySpec => [][turn.routed /\ ~turn'.routed /\ Name \in ShownAs(ledger') => aux_told.names # {}]_memoryVars
  BY <1>2, MemoryStands, PTL DEF MemorySpec
<1>. QED  BY <1>3 DEF StrangerUntilNamed
=============================================================================
