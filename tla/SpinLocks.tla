------------------------------ MODULE SpinLocks ------------------------------
(***************************************************************************)
(* The per-user locks of orchestrator/app/session_manager.py.              *)
(*                                                                         *)
(* SessionManager keeps asyncio locks in a WeakValueDictionary: _get_lock  *)
(* returns the lock registered for a user or registers a new one, and an   *)
(* entry disappears by itself when the last coroutine that refers to its   *)
(* lock returns.  ensure_user_service and spin_down_user_service run their *)
(* body under `async with lock`.                                           *)
(*                                                                         *)
(* asyncio.Lock is not part of the repository.  It is modelled as the two  *)
(* fields it has, the holder and the FIFO of waiting tasks: acquire()      *)
(* returns at once only if the lock is free and nobody waits, and a        *)
(* release hands the lock to the first waiter, which resumes later.        *)
(***************************************************************************)
EXTENDS Naturals, Sequences

CONSTANTS Tasks,    \* the coroutines that may call the locked operations
          Users,    \* user ids
          Locks,    \* lock objects the process can allocate
          NoTask, NoUser, NoLock

ASSUME SpinLocksAssumption ==
    /\ NoTask \notin Tasks
    /\ NoUser \notin Users
    /\ NoLock \notin Locks

VARIABLES registry, \* _spin_locks: user -> the lock object registered for it
          ref,      \* the local variable `lock` of each task
          target,   \* the user_id the task asked the lock for
          owner,    \* lock -> the task that has acquired it
          waiters   \* lock -> the tasks waiting in acquire(), oldest first

lockVars == <<registry, ref, target, owner, waiters>>

LocksTypeOK ==
    /\ registry \in [Users -> Locks \cup {NoLock}]
    /\ ref \in [Tasks -> Locks \cup {NoLock}]
    /\ target \in [Tasks -> Users \cup {NoUser}]
    /\ owner \in [Locks -> Tasks \cup {NoTask}]
    /\ waiters \in [Locks -> Seq(Tasks)]

LocksInit ==
    /\ registry = [u \in Users |-> NoLock]
    /\ ref = [t \in Tasks |-> NoLock]
    /\ target = [t \in Tasks |-> NoUser]
    /\ owner = [l \in Locks |-> NoTask]
    /\ waiters = [l \in Locks |-> <<>>]

-----------------------------------------------------------------------------
(* State functions *)

\* t is inside the locked section of u.
Holds(t, u) == /\ ref[t] \in Locks
               /\ target[t] = u
               /\ owner[ref[t]] = t

\* t waits in acquire() of a lock of u.
Waits(t, u) == /\ ref[t] \in Locks
               /\ target[t] = u
               /\ owner[ref[t]] # t

\* A lock object no coroutine refers to: allocating a lock yields one of these.
Unreferenced(l) == \A t \in Tasks : ref[t] # l

\* _get_lock(user_id): the registered lock if there is one, else a new object.
GetLock(u) == IF registry[u] # NoLock THEN {registry[u]}
                                      ELSE {l \in Locks : Unreferenced(l)}

\* Mutant of RegistryWithout: the explicit _remove_lock of an earlier version, which
\* ran after the release whether or not others waited.
RegistryRemoved(t, l) ==
    [u \in Users |-> IF registry[u] = l THEN NoLock ELSE registry[u]]

\* Mutant of RegistryWithout: an ordinary dictionary keeps its entries.
RegistryKept(t, l) == registry

\* The dictionary after t has dropped its reference to l: the entry of l goes
\* with the last reference.
RegistryWithout(t, l) ==
    [u \in Users |-> IF registry[u] = l /\ (\A s \in Tasks \ {t} : ref[s] # l)
                     THEN NoLock
                     ELSE registry[u]]

-----------------------------------------------------------------------------
(* Actions *)

\* Common to both outcomes of `lock = self._get_lock(user_id)`.
TakeReference(t, u, l) ==
    /\ registry' = [registry EXCEPT ![u] = l]
    /\ ref' = [ref EXCEPT ![t] = l]
    /\ target' = [target EXCEPT ![t] = u]

\* `async with lock` on a lock that is free and that nobody waits for: the task
\* goes on without giving up the event loop.
AcquireFree(t, u) ==
    /\ ref[t] = NoLock
    /\ \E l \in GetLock(u) :
         /\ owner[l] = NoTask
         /\ waiters[l] = <<>>
         /\ TakeReference(t, u, l)
         /\ owner' = [owner EXCEPT ![l] = t]
    /\ UNCHANGED waiters

\* `async with lock` on a lock that is held or has waiters: the task queues.
AcquireBusy(t, u) ==
    /\ ref[t] = NoLock
    /\ \E l \in GetLock(u) :
         /\ owner[l] # NoTask \/ waiters[l] # <<>>
         /\ TakeReference(t, u, l)
         /\ waiters' = [waiters EXCEPT ![l] = Append(@, t)]
    /\ UNCHANGED owner

\* The first waiter of a released lock resumes and holds it.
Wake(t) ==
    /\ ref[t] \in Locks
    /\ owner[ref[t]] = NoTask
    /\ waiters[ref[t]] # <<>>
    /\ Head(waiters[ref[t]]) = t
    /\ owner' = [owner EXCEPT ![ref[t]] = t]
    /\ waiters' = [waiters EXCEPT ![ref[t]] = Tail(@)]
    /\ UNCHANGED <<registry, ref, target>>

\* Mutant of Release: the section is left without `async with` releasing the lock.
LeaveUnreleased(t) ==
    /\ ref[t] \in Locks
    /\ owner[ref[t]] = t
    /\ registry' = RegistryWithout(t, ref[t])
    /\ ref' = [ref EXCEPT ![t] = NoLock]
    /\ target' = [target EXCEPT ![t] = NoUser]
    /\ UNCHANGED <<owner, waiters>>

\* The end of the `async with` block and the return of the coroutine: the lock
\* is released and the coroutine's reference to it dies with its frame.
Release(t) ==
    /\ ref[t] \in Locks
    /\ owner[ref[t]] = t
    /\ owner' = [owner EXCEPT ![ref[t]] = NoTask]
    /\ registry' = RegistryWithout(t, ref[t])
    /\ ref' = [ref EXCEPT ![t] = NoLock]
    /\ target' = [target EXCEPT ![t] = NoUser]
    /\ UNCHANGED waiters

\* The orchestrator process stops and starts again: every lock is in memory.
LocksRestart ==
    /\ registry' = [u \in Users |-> NoLock]
    /\ ref' = [t \in Tasks |-> NoLock]
    /\ target' = [t \in Tasks |-> NoUser]
    /\ owner' = [l \in Locks |-> NoTask]
    /\ waiters' = [l \in Locks |-> <<>>]

LocksNext ==
    \/ \E t \in Tasks, u \in Users : AcquireFree(t, u) \/ AcquireBusy(t, u)
    \/ \E t \in Tasks : Wake(t) \/ Release(t)
    \/ LocksRestart

LocksSpec == LocksInit /\ [][LocksNext]_lockVars

\* The event loop resumes every coroutine that can run, and every locked
\* section ends: neither ensure_user_service nor spin_down_user_service loops.
LocksFairness == \A t \in Tasks : WF_lockVars(Wake(t)) /\ WF_lockVars(Release(t))

FairLocksSpec == LocksSpec /\ LocksFairness

-----------------------------------------------------------------------------
(* Properties *)

\* ensure_user_service and spin_down_user_service are serialised per user id:
\* two tasks are never inside the locked section of the same user.
MutualExclusion ==
    \A s, t \in Tasks, u \in Users : Holds(s, u) /\ Holds(t, u) => s = t

\* The weak dictionary neither forgets a lock somebody still refers to (a later
\* caller would then allocate a second lock for the same user) nor keeps one
\* that nobody refers to, and two users never share a lock.
RegistryIsWeak ==
    /\ \A t \in Tasks : ref[t] # NoLock => registry[target[t]] = ref[t]
    /\ \A u \in Users : registry[u] # NoLock =>
         \E t \in Tasks : ref[t] = registry[u] /\ target[t] = u
    /\ \A u, v \in Users : registry[u] = registry[v] /\ registry[u] # NoLock => u = v

\* s is ahead of t in the queue of the lock that t waits for.
Ahead(s, t) == LET queue == waiters[ref[t]]
               IN \E i, j \in 1..Len(queue) : i < j /\ queue[i] = s /\ queue[j] = t

\* Nobody overtakes: while t waits for a user's lock, only a task that has waited for
\* it longer enters the section of that user - neither a newcomer that finds the lock
\* released and not yet taken over, nor one that finds no entry in the dictionary.
NobodyOvertakes ==
    [][\A s, t \in Tasks, u \in Users :
         Waits(t, u) /\ ~Holds(s, u) /\ Holds(s, u)' => s = t \/ Ahead(s, t)]_lockVars

\* Whoever waits for a user's lock gets it, if the process is not restarted.
EveryWaiterIsServed ==
    \A t \in Tasks, u \in Users : Waits(t, u) ~> ~Waits(t, u)

\* Whatever lock objects they go through, the tasks inside a user's sections are those
\* of a mutual exclusion: a task enters the sections of a user that nobody is inside of,
\* be it on the lock that is registered or on one that the dictionary has forgotten.
Mutex == INSTANCE UserMutex WITH
    inside <- [u \in Users |-> {t \in Tasks : Holds(t, u)}]
ImplementsUserMutex == Mutex!Spec
=============================================================================
