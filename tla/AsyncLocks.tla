----------------------------- MODULE AsyncLocks -----------------------------
(***************************************************************************)
(* The facade's mutex, reader/writer lock and semaphore                    *)
(* (async_engine/mutex.rs, async_engine/rw_lock.rs, async_engine.rs).      *)
(* Each is a first-come-first-served pool of permits underneath: a mutex   *)
(* has one, a writer takes every permit of a reader/writer lock, and       *)
(* acquire_many waits for its permits together.  Tasks find the lock of    *)
(* one key through a registry that keeps only a Weak of the facade handle. *)
(***************************************************************************)
EXTENDS Naturals, Sequences, FiniteSets, SequencesExt, FiniteSetsExt

CONSTANTS Tasks,
          Permits,    \* permits of a semaphore and of a reader/writer lock
          MaxLocks    \* bound: facade locks minted for the key

VARIABLES
  kind,      \* the primitive of this behaviour: mutex, rwlock or semaphore
  locks,     \* number of facade locks minted so far; the registry has the last
  handle,    \* task -> the facade lock whose Arc it holds, 0 for none
  queue,     \* lock -> tasks waiting, first come first
  want,      \* task -> permits its acquisition asks for
  got,       \* task -> permits assigned to it while it waits
  guard,     \* task -> [lock, permits, owned] of the guard it holds
  consumed   \* the locks whose value into_inner took out

vars == <<kind, locks, handle, queue, want, got, guard, consumed>>

Ids == 1 .. MaxLocks
NoGuard == [lock |-> 0, permits |-> 0, owned |-> FALSE]
Capacity == IF kind = "mutex" THEN 1 ELSE Permits
Asks == IF kind = "mutex" THEN {1} ELSE IF kind = "rwlock" THEN {1, Permits} ELSE 1 .. Permits

TypeOK ==
  /\ kind \in {"mutex", "rwlock", "semaphore"}
  /\ locks \in 0 .. MaxLocks
  /\ handle \in [Tasks -> 0 .. MaxLocks]
  /\ \A i \in Ids : IsInjective(queue[i]) /\ ToSet(queue[i]) \subseteq Tasks
  /\ want \in [Tasks -> 0 .. Permits] /\ got \in [Tasks -> 0 .. Permits]
  /\ consumed \subseteq Ids

Init ==
  /\ kind \in {"mutex", "rwlock", "semaphore"}
  /\ locks = 0 /\ handle = [t \in Tasks |-> 0] /\ queue = [i \in Ids |-> <<>>]
  /\ want = [t \in Tasks |-> 0] /\ got = [t \in Tasks |-> 0]
  /\ guard = [t \in Tasks |-> NoGuard] /\ consumed = {}

Waiting(t) == \E i \in Ids : t \in ToSet(queue[i])
HeldOn(i) == MapThenSumSet(LAMBDA t : IF guard[t].lock = i THEN guard[t].permits ELSE 0, Tasks)
Assigned(i) == MapThenSumSet(LAMBDA t : got[t], ToSet(queue[i]))
Free(i) == Capacity - HeldOn(i) - Assigned(i)

\* An OwnedMutexGuard keeps the Arc<Mutex> it was acquired through; the owned
\* reader/writer guards keep only the storage inside it.
KeepsFacade(t, i) ==
  guard[t].lock = i /\ guard[t].owned /\ kind = "mutex"

\* Weak::upgrade succeeds: some strong reference to the facade lock is left.
Alive(i) == \E t \in Tasks : handle[t] = i \/ KeepsFacade(t, i)

\* A caller upgrades the registry's Weak, or mints a lock for the key.
Lookup(t) ==
  /\ handle[t] = 0 /\ guard[t] = NoGuard
  /\ IF locks > 0 /\ Alive(locks) /\ locks \notin consumed
     THEN handle' = [handle EXCEPT ![t] = locks] /\ UNCHANGED locks
     ELSE /\ locks < MaxLocks /\ locks' = locks + 1
          /\ handle' = [handle EXCEPT ![t] = locks + 1]
  /\ UNCHANGED <<kind, queue, want, got, guard, consumed>>

Lease(t, i, n, owned) == [guard EXCEPT ![t] = [lock |-> i, permits |-> n, owned |-> owned]]

\* lock, read, write, acquire, acquire_many and their owned forms: granted at
\* once when nobody waits and enough permits are free, else queued.  An owned
\* acquisition consumes the caller's Arc.
Acquire(t) ==
  /\ handle[t] # 0 /\ guard[t] = NoGuard /\ ~Waiting(t)
  /\ \E n \in Asks, owned \in BOOLEAN :
       LET i == handle[t] IN
       /\ IF queue[i] = <<>> /\ n <= Free(i)
          THEN /\ guard' = Lease(t, i, n, owned)
               /\ handle' = [handle EXCEPT ![t] = IF owned THEN 0 ELSE @]
               /\ UNCHANGED <<queue, want, got>>
          ELSE /\ ~owned    \* an owned waiter's future keeps the same Arc
               /\ queue' = [queue EXCEPT ![i] = Append(@, t)]
               /\ want' = [want EXCEPT ![t] = n]
               /\ got' = [got EXCEPT ![t] = IF queue[i] = <<>> THEN Free(i) ELSE 0]
               /\ UNCHANGED <<guard, handle>>
  /\ UNCHANGED <<kind, locks, consumed>>

\* try_lock, try_read_owned, try_acquire: never ahead of a queued waiter.
TryAcquire(t) ==
  /\ handle[t] # 0 /\ guard[t] = NoGuard /\ ~Waiting(t)
  /\ queue[handle[t]] = <<>> /\ 1 <= Free(handle[t])
  /\ guard' = Lease(t, handle[t], 1, kind # "semaphore")
  /\ handle' = [handle EXCEPT ![t] = IF kind # "semaphore" THEN 0 ELSE @]
  /\ UNCHANGED <<kind, locks, queue, want, got, consumed>>

\* What the pool does with permits that are given back: the front waiter
\* collects them until it has what it asked for, then the next one does.
Settle(i, g, q, held) ==
  LET free == Capacity - MapThenSumSet(LAMBDA t : IF held[t].lock = i THEN held[t].permits ELSE 0, Tasks)
                       - MapThenSumSet(LAMBDA t : g[t], ToSet(q))
  IN IF q = <<>> THEN g
     ELSE [g EXCEPT ![Head(q)] = IF @ + free < want[Head(q)] THEN @ + free ELSE want[Head(q)]]

\* The front waiter has its permits: its future returns the guard.
Granted(t) ==
  \E i \in Ids, owned \in BOOLEAN :
     /\ queue[i] # <<>> /\ Head(queue[i]) = t /\ got[t] = want[t]
     /\ guard' = Lease(t, i, want[t], owned)
     /\ handle' = [handle EXCEPT ![t] = IF owned THEN 0 ELSE @]
     /\ queue' = [queue EXCEPT ![i] = Tail(@)]
     /\ got' = Settle(i, [got EXCEPT ![t] = 0], Tail(queue[i]), guard')
     /\ want' = [want EXCEPT ![t] = 0]
     /\ UNCHANGED <<kind, locks, consumed>>

\* A pending acquisition is dropped: it loses its place and gives back what
\* was assigned to it.
CancelWait(t) ==
  \E i \in Ids :
     /\ t \in ToSet(queue[i])
     /\ LET q == SelectSeq(queue[i], LAMBDA u : u # t) IN
        /\ queue' = [queue EXCEPT ![i] = q]
        /\ got' = Settle(i, [got EXCEPT ![t] = 0], q, guard)
     /\ want' = [want EXCEPT ![t] = 0]
     /\ UNCHANGED <<kind, locks, handle, guard, consumed>>

\* Dropping a guard releases its permits before the facade handle it keeps.
DropGuard(t) ==
  /\ guard[t] # NoGuard
  /\ guard' = [guard EXCEPT ![t] = NoGuard]
  /\ got' = Settle(guard[t].lock, got, queue[guard[t].lock], guard')
  /\ UNCHANGED <<kind, locks, handle, queue, want, consumed>>

\* A borrowed guard borrows from the handle, an acquisition too: neither
\* lets the handle go first.
DropHandle(t) ==
  /\ handle[t] # 0 /\ guard[t] = NoGuard /\ ~Waiting(t)
  /\ handle' = [handle EXCEPT ![t] = 0]
  /\ UNCHANGED <<kind, locks, queue, want, got, guard, consumed>>

\* RwLock::into_inner consumes the last facade handle; Arc::into_inner gives
\* the value only when no owned guard shares the storage.
IntoInner(t) ==
  LET i == handle[t] IN
  /\ kind = "rwlock" /\ i # 0 /\ guard[t] = NoGuard /\ ~Waiting(t)
  /\ \A u \in Tasks \ {t} : handle[u] # i
  /\ handle' = [handle EXCEPT ![t] = 0]
  /\ consumed' = IF \E u \in Tasks : guard[u].lock = i THEN consumed ELSE consumed \cup {i}
  /\ UNCHANGED <<kind, locks, queue, want, got, guard>>

Next ==
  \E t \in Tasks :
    \/ Lookup(t) \/ Acquire(t) \/ TryAcquire(t) \/ Granted(t) \/ CancelWait(t)
    \/ DropGuard(t) \/ DropHandle(t) \/ IntoInner(t)

Spec == Init /\ [][Next]_vars

(* ------------------------------ properties ------------------------------ *)
\* The doc of Mutex: a registry that keys locks by Weak<Mutex> keeps observing
\* a held lock after every other handle is gone, so two tasks that look the
\* key up never hold it together; a queued waiter never waits for permits
\* that nobody holds; and into_inner never takes a value out from under a
\* guard.
KeyIsHeldOnce ==
  /\ kind = "mutex" => Cardinality({t \in Tasks : guard[t] # NoGuard}) <= 1
  /\ \A t \in Tasks : guard[t].lock \notin consumed
  /\ \A i \in Ids : queue[i] # <<>> /\ HeldOn(i) = 0
                     => got[Head(queue[i])] = want[Head(queue[i])]
=============================================================================
