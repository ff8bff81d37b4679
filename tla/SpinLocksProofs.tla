--------------------------- MODULE SpinLocksProofs ---------------------------
(***************************************************************************)
(* Proofs about SpinLocks, for any number of tasks, users and lock         *)
(* objects.  The argument: a task that refers to a lock refers to the one  *)
(* registered for its user (RegistryIsWeak), and only a task that refers   *)
(* to a lock holds it (OwnersRefer), so two tasks inside the section of a  *)
(* user are the one holder of the one lock of that user.                   *)
(***************************************************************************)
EXTENDS SpinLocks, TLAPS

\* A holder still has its local reference to the lock it holds, and whoever has
\* a reference asked for the lock of a user.
OwnersRefer ==
    /\ \A l \in Locks : owner[l] # NoTask => ref[owner[l]] = l
    /\ \A t \in Tasks : ref[t] # NoLock => target[t] \in Users

LocksInv == LocksTypeOK /\ OwnersRefer /\ RegistryIsWeak

\* In the initial state no task refers to a lock.
LEMMA LocksInvInit == LocksInit => LocksInv
  BY SpinLocksAssumption
  DEF LocksInit, LocksInv, LocksTypeOK, OwnersRefer, RegistryIsWeak

\* A lock that acquire() may work on is the registered one, or is new: nobody
\* refers to it, it is registered for nobody and nobody holds it.
LEMMA GetLockFacts ==
  ASSUME LocksInv, NEW u \in Users, NEW l \in GetLock(u)
  PROVE  /\ l \in Locks
         /\ registry[u] \in {l, NoLock}
         /\ registry[u] = NoLock => /\ \A t \in Tasks : ref[t] # l
                                    /\ \A v \in Users : registry[v] # l
                                    /\ owner[l] = NoTask
  BY SpinLocksAssumption
  DEF LocksInv, LocksTypeOK, OwnersRefer, RegistryIsWeak, GetLock, Unreferenced

\* Taking a reference to the lock of u keeps the registry exact.
LEMMA TakeReferenceKeepsRegistry ==
  ASSUME LocksInv, NEW t \in Tasks, NEW u \in Users, NEW l \in GetLock(u),
         ref[t] = NoLock, TakeReference(t, u, l)
  PROVE  /\ registry' \in [Users -> Locks \cup {NoLock}]
         /\ ref' \in [Tasks -> Locks \cup {NoLock}]
         /\ target' \in [Tasks -> Users \cup {NoUser}]
         /\ \A s \in Tasks : ref'[s] # NoLock => target'[s] \in Users
         /\ RegistryIsWeak'
  <1>1. /\ l \in Locks
        /\ registry[u] \in {l, NoLock}
        /\ registry[u] = NoLock => /\ \A s \in Tasks : ref[s] # l
                                   /\ \A v \in Users : registry[v] # l
    BY GetLockFacts
  <1>2. /\ registry' \in [Users -> Locks \cup {NoLock}]
        /\ ref' \in [Tasks -> Locks \cup {NoLock}]
        /\ target' \in [Tasks -> Users \cup {NoUser}]
        /\ \A s \in Tasks : ref'[s] # NoLock => target'[s] \in Users
    BY <1>1 DEF TakeReference, LocksInv, LocksTypeOK, OwnersRefer
  <1>3. \A s \in Tasks : ref'[s] # NoLock => registry'[target'[s]] = ref'[s]
    BY <1>1 DEF TakeReference, LocksInv, LocksTypeOK, OwnersRefer, RegistryIsWeak
  <1>4. \A v \in Users : registry'[v] # NoLock =>
          \E s \in Tasks : ref'[s] = registry'[v] /\ target'[s] = v
    <2> SUFFICES ASSUME NEW v \in Users, registry'[v] # NoLock
                 PROVE  \E s \in Tasks : ref'[s] = registry'[v] /\ target'[s] = v
      OBVIOUS
    <2>1. CASE v = u
      BY <2>1, <1>1 DEF TakeReference, LocksInv, LocksTypeOK
    <2>2. CASE v # u
      <3>1. registry[v] # NoLock /\ registry'[v] = registry[v]
        BY <2>2 DEF TakeReference, LocksInv, LocksTypeOK
      <3>2. PICK s \in Tasks : ref[s] = registry[v] /\ target[s] = v
        BY <3>1 DEF LocksInv, RegistryIsWeak
      <3>3. s # t
        BY <3>1, <3>2
      <3> QED
        BY <3>1, <3>2, <3>3 DEF TakeReference, LocksInv, LocksTypeOK
    <2> QED
      BY <2>1, <2>2
  <1>5. \A v, w \in Users :
          registry'[v] = registry'[w] /\ registry'[v] # NoLock => v = w
    BY <1>1, SpinLocksAssumption
    DEF TakeReference, LocksInv, LocksTypeOK, RegistryIsWeak
  <1> QED
    BY <1>2, <1>3, <1>4, <1>5 DEF RegistryIsWeak

-----------------------------------------------------------------------------
(* Every step keeps the invariant. *)

\* A task that finds the lock free becomes its holder.
LEMMA AcquireFreeKeepsInv ==
  ASSUME LocksInv, NEW t \in Tasks, NEW u \in Users, AcquireFree(t, u)
  PROVE  LocksInv'
  <1>1. PICK l \in GetLock(u) :
          /\ owner[l] = NoTask
          /\ TakeReference(t, u, l)
          /\ owner' = [owner EXCEPT ![l] = t]
    BY DEF AcquireFree
  <1>2. l \in Locks
    BY GetLockFacts
  <1>3. ref[t] = NoLock
    BY DEF AcquireFree
  <1>4. LocksTypeOK' /\ RegistryIsWeak' /\ (\A s \in Tasks : ref'[s] # NoLock => target'[s] \in Users)
    BY <1>1, <1>2, <1>3, TakeReferenceKeepsRegistry
    DEF AcquireFree, LocksInv, LocksTypeOK
  <1>5. \A m \in Locks : owner'[m] # NoTask => ref'[owner'[m]] = m
    BY <1>1, <1>2, <1>3, SpinLocksAssumption
    DEF TakeReference, LocksInv, LocksTypeOK, OwnersRefer
  <1> QED
    BY <1>4, <1>5 DEF LocksInv, OwnersRefer

\* A task that finds the lock taken only joins the queue.
LEMMA AcquireBusyKeepsInv ==
  ASSUME LocksInv, NEW t \in Tasks, NEW u \in Users, AcquireBusy(t, u)
  PROVE  LocksInv'
  <1>1. PICK l \in GetLock(u) :
          /\ TakeReference(t, u, l)
          /\ waiters' = [waiters EXCEPT ![l] = Append(@, t)]
    BY DEF AcquireBusy
  <1>2. l \in Locks
    BY GetLockFacts
  <1>3. ref[t] = NoLock /\ owner' = owner
    BY DEF AcquireBusy
  <1>4. waiters' \in [Locks -> Seq(Tasks)]
    BY <1>1, <1>2 DEF LocksInv, LocksTypeOK
  <1>5. LocksTypeOK' /\ RegistryIsWeak' /\ (\A s \in Tasks : ref'[s] # NoLock => target'[s] \in Users)
    BY <1>1, <1>2, <1>3, <1>4, TakeReferenceKeepsRegistry
    DEF LocksInv, LocksTypeOK
  <1>6. \A m \in Locks : owner'[m] # NoTask => ref'[owner'[m]] = m
    BY <1>1, <1>2, <1>3, SpinLocksAssumption
    DEF TakeReference, LocksInv, LocksTypeOK, OwnersRefer
  <1> QED
    BY <1>5, <1>6 DEF LocksInv, OwnersRefer

\* The waiter that resumes already refers to the lock it gets.
LEMMA WakeKeepsInv ==
  ASSUME LocksInv, NEW t \in Tasks, Wake(t)
  PROVE  LocksInv'
  <1>1. waiters' \in [Locks -> Seq(Tasks)]
    BY DEF Wake, LocksInv, LocksTypeOK
  <1> QED
    BY <1>1, SpinLocksAssumption
    DEF Wake, LocksInv, LocksTypeOK, OwnersRefer, RegistryIsWeak

\* The holder drops its reference; the entry of the lock stays exactly if
\* another task still refers to it.
LEMMA ReleaseKeepsInv ==
  ASSUME LocksInv, NEW t \in Tasks, Release(t)
  PROVE  LocksInv'
  <1> DEFINE l == ref[t]
  <1>1. /\ l \in Locks
        /\ owner[l] = t
        /\ owner' = [owner EXCEPT ![l] = NoTask]
        /\ registry' = RegistryWithout(t, l)
        /\ ref' = [ref EXCEPT ![t] = NoLock]
        /\ target' = [target EXCEPT ![t] = NoUser]
        /\ waiters' = waiters
    BY DEF Release
  <1> HIDE DEF l
  <1>2. LocksTypeOK'
    BY <1>1 DEF LocksInv, LocksTypeOK, RegistryWithout
  <1>3. OwnersRefer'
    BY <1>1, SpinLocksAssumption DEF LocksInv, LocksTypeOK, OwnersRefer
  <1>4. \A s \in Tasks : ref'[s] # NoLock => registry'[target'[s]] = ref'[s]
    BY <1>1
    DEF LocksInv, LocksTypeOK, OwnersRefer, RegistryIsWeak, RegistryWithout
  <1>5. \A v \in Users : registry'[v] # NoLock =>
          \E s \in Tasks : ref'[s] = registry'[v] /\ target'[s] = v
    <2> SUFFICES ASSUME NEW v \in Users, registry'[v] # NoLock
                 PROVE  \E s \in Tasks : ref'[s] = registry'[v] /\ target'[s] = v
      OBVIOUS
    <2>1. registry[v] # NoLock /\ registry'[v] = registry[v]
      BY <1>1 DEF RegistryWithout
    <2>2. PICK s \in Tasks : ref[s] = registry[v] /\ target[s] = v
      BY <2>1 DEF LocksInv, RegistryIsWeak
    <2>3. CASE s # t
      BY <1>1, <2>1, <2>2, <2>3 DEF LocksInv, LocksTypeOK
    <2>4. CASE s = t
      <3>1. registry[v] = l
        BY <2>2, <2>4 DEF l
      <3>2. PICK r \in Tasks \ {t} : ref[r] = l
        BY <1>1, <2>1, <3>1 DEF RegistryWithout
      <3>3. target[r] = v
        BY <1>1, <3>1, <3>2, SpinLocksAssumption
        DEF LocksInv, LocksTypeOK, OwnersRefer, RegistryIsWeak
      <3> QED
        BY <1>1, <2>1, <3>1, <3>2, <3>3 DEF LocksInv, LocksTypeOK
    <2> QED
      BY <2>3, <2>4
  <1>6. \A v, w \in Users :
          registry'[v] = registry'[w] /\ registry'[v] # NoLock => v = w
    BY <1>1 DEF LocksInv, RegistryIsWeak, RegistryWithout
  <1> QED
    BY <1>2, <1>3, <1>4, <1>5, <1>6 DEF LocksInv, RegistryIsWeak

\* A restart is the initial state again.
LEMMA LocksRestartKeepsInv == LocksRestart => LocksInv'
  BY SpinLocksAssumption
  DEF LocksRestart, LocksInv, LocksTypeOK, OwnersRefer, RegistryIsWeak

\* LocksInv is inductive.
LEMMA LocksInvStep == LocksInv /\ [LocksNext]_lockVars => LocksInv'
  <1> SUFFICES ASSUME LocksInv, [LocksNext]_lockVars
               PROVE  LocksInv'
    OBVIOUS
  <1>1. ASSUME NEW t \in Tasks, NEW u \in Users, AcquireFree(t, u)
        PROVE  LocksInv'
    BY <1>1, AcquireFreeKeepsInv
  <1>2. ASSUME NEW t \in Tasks, NEW u \in Users, AcquireBusy(t, u)
        PROVE  LocksInv'
    BY <1>2, AcquireBusyKeepsInv
  <1>3. ASSUME NEW t \in Tasks, Wake(t)
        PROVE  LocksInv'
    BY <1>3, WakeKeepsInv
  <1>4. ASSUME NEW t \in Tasks, Release(t)
        PROVE  LocksInv'
    BY <1>4, ReleaseKeepsInv
  <1>5. CASE LocksRestart
    BY <1>5, LocksRestartKeepsInv
  <1>6. CASE UNCHANGED lockVars
    BY <1>6 DEF lockVars, LocksInv, LocksTypeOK, OwnersRefer, RegistryIsWeak
  <1> QED
    BY <1>1, <1>2, <1>3, <1>4, <1>5, <1>6 DEF LocksNext

-----------------------------------------------------------------------------
(* The theorems *)

\* In every state of the locks the variables have their types, the weak
\* dictionary is exact and holders refer to what they hold.
THEOREM LocksInvariant == LocksSpec => []LocksInv
  BY LocksInvInit, LocksInvStep, PTL DEF LocksSpec

\* Two tasks that are inside the section of one user are the same task.
LEMMA LocksInvGivesMutualExclusion == LocksInv => MutualExclusion
  BY SpinLocksAssumption
  DEF LocksInv, LocksTypeOK, OwnersRefer, RegistryIsWeak, MutualExclusion, Holds

\* ensure_user_service and spin_down_user_service of one user never overlap,
\* whatever the number of tasks, and although the dictionary of locks is
\* emptied and refilled as tasks come and go.
THEOREM LocksExclude == LocksSpec => []MutualExclusion
  BY LocksInvariant, LocksInvGivesMutualExclusion, PTL

\* The dictionary neither forgets a lock in use nor keeps one out of use.
THEOREM LocksWeak == LocksSpec => []RegistryIsWeak
  <1>1. LocksInv => RegistryIsWeak
    BY DEF LocksInv
  <1> QED
    BY <1>1, LocksInvariant, PTL

-----------------------------------------------------------------------------
(* The locks implement UserMutex. *)

\* The user mutex the locks stand for: who is in the section of each user.
Inside == [u \in Users |-> {t \in Tasks : Holds(t, u)}]

\* What is said of every task and user holds of the sets of tasks inside.
LEMMA InsideFromHolds ==
  ASSUME NEW t \in Tasks, NEW u \in Users, NEW now, now \in {{t}, {}},
         \A s \in Tasks, v \in Users \ {u} : Holds(s, v)' <=> Holds(s, v),
         \A s \in Tasks : Holds(s, u)' <=> s \in now
  PROVE  Inside' = [Inside EXCEPT ![u] = now]
  <1>1. \A v \in Users : Inside'[v] = IF v = u THEN now ELSE Inside[v]
    BY DEF Inside
  <1> QED
    BY <1>1 DEF Inside

\* Finding the lock free is entering the section.
LEMMA AcquireFreeEnters ==
  ASSUME LocksInv, NEW t \in Tasks, NEW u \in Users, AcquireFree(t, u)
  PROVE  Inside[u] = {} /\ Inside' = [Inside EXCEPT ![u] = {t}]
  <1>1. PICK l \in GetLock(u) :
          /\ owner[l] = NoTask
          /\ TakeReference(t, u, l)
          /\ owner' = [owner EXCEPT ![l] = t]
    BY DEF AcquireFree
  <1>2. l \in Locks /\ registry[u] \in {l, NoLock} /\ ref[t] = NoLock
    BY GetLockFacts DEF AcquireFree
  <1>3. \A s \in Tasks : ~Holds(s, u)
    BY <1>1, <1>2, SpinLocksAssumption DEF Holds, LocksInv, RegistryIsWeak
  <1>4. \A s \in Tasks, v \in Users : Holds(s, v)' <=> (s = t /\ v = u) \/ Holds(s, v)
    BY <1>1, <1>2, SpinLocksAssumption
    DEF TakeReference, Holds, LocksInv, LocksTypeOK
  <1>5. Inside' = [Inside EXCEPT ![u] = {t}]
    BY <1>3, <1>4, InsideFromHolds
  <1> QED
    BY <1>3, <1>5 DEF Inside

\* Queueing changes nobody's section.
LEMMA AcquireBusyStutters ==
  ASSUME LocksInv, NEW t \in Tasks, NEW u \in Users, AcquireBusy(t, u)
  PROVE  Inside' = Inside
  <1>1. PICK l \in GetLock(u) : TakeReference(t, u, l)
    BY DEF AcquireBusy
  <1>2. l \in Locks /\ ref[t] = NoLock /\ owner' = owner /\ owner[l] # t
    BY GetLockFacts, SpinLocksAssumption DEF AcquireBusy, LocksInv, OwnersRefer
  <1>3. \A s \in Tasks, v \in Users : Holds(s, v)' <=> Holds(s, v)
    BY <1>1, <1>2, SpinLocksAssumption
    DEF TakeReference, Holds, LocksInv, LocksTypeOK
  <1> QED
    BY <1>3 DEF Inside

\* Waking up is entering the section of the user the task waited for.
LEMMA WakeEnters ==
  ASSUME LocksInv, NEW t \in Tasks, Wake(t)
  PROVE  /\ target[t] \in Users
         /\ Inside[target[t]] = {}
         /\ Inside' = [Inside EXCEPT ![target[t]] = {t}]
  <1>1. /\ ref[t] \in Locks
        /\ owner[ref[t]] = NoTask
        /\ owner' = [owner EXCEPT ![ref[t]] = t]
        /\ UNCHANGED <<registry, ref, target>>
    BY DEF Wake
  <1>2. PICK u \in Users : target[t] = u /\ registry[u] = ref[t]
    BY <1>1, SpinLocksAssumption DEF LocksInv, OwnersRefer, RegistryIsWeak
  <1>3. \A s \in Tasks : ~Holds(s, u)
    BY <1>1, <1>2, SpinLocksAssumption DEF Holds, LocksInv, RegistryIsWeak
  <1>4. \A s \in Tasks, v \in Users : Holds(s, v)' <=> (s = t /\ v = u) \/ Holds(s, v)
    BY <1>1, <1>2, SpinLocksAssumption DEF Holds, LocksInv, LocksTypeOK
  <1>5. Inside' = [Inside EXCEPT ![u] = {t}]
    BY <1>3, <1>4, InsideFromHolds
  <1> QED
    BY <1>2, <1>3, <1>5 DEF Inside

\* Releasing the lock is leaving the section.
LEMMA ReleaseLeaves ==
  ASSUME LocksInv, NEW t \in Tasks, Release(t)
  PROVE  /\ target[t] \in Users
         /\ Inside[target[t]] = {t}
         /\ Inside' = [Inside EXCEPT ![target[t]] = {}]
  <1>1. /\ ref[t] \in Locks
        /\ owner[ref[t]] = t
        /\ owner' = [owner EXCEPT ![ref[t]] = NoTask]
        /\ ref' = [ref EXCEPT ![t] = NoLock]
        /\ target' = [target EXCEPT ![t] = NoUser]
    BY DEF Release
  <1>2. PICK u \in Users : target[t] = u /\ Holds(t, u)
    BY <1>1, SpinLocksAssumption DEF LocksInv, OwnersRefer, Holds
  <1>3. \A s \in Tasks : Holds(s, u) => s = t
    BY <1>2, LocksInvGivesMutualExclusion DEF MutualExclusion
  <1>4. \A s \in Tasks, v \in Users : Holds(s, v)' <=> Holds(s, v) /\ s # t
    BY <1>1, SpinLocksAssumption DEF Holds, LocksInv, LocksTypeOK
  <1>5. \A s \in Tasks, v \in Users \ {u} : Holds(s, v)' <=> Holds(s, v)
    BY <1>2, <1>4 DEF Holds
  <1>6. \A s \in Tasks : ~Holds(s, u)'
    BY <1>3, <1>4
  <1>7. Inside' = [Inside EXCEPT ![u] = {}]
    BY <1>5, <1>6, InsideFromHolds
  <1>8. Inside[u] = {t}
    BY <1>2, <1>3 DEF Inside
  <1> QED
    BY <1>2, <1>7, <1>8

\* SpinLocks implements UserMutex: every run of the weak dictionary of locks is a run of
\* one mutual-exclusion section per user, whichever lock objects its tasks hold.
THEOREM LocksImplementUserMutex == LocksSpec => ImplementsUserMutex
  <1>1. LocksInit => Mutex!Init
    BY SpinLocksAssumption DEF LocksInit, Mutex!Init, Holds
  <1>2. LocksInv /\ [LocksNext]_lockVars => [Mutex!Next]_Inside
    <2> SUFFICES ASSUME LocksInv, [LocksNext]_lockVars
                 PROVE  [Mutex!Next]_Inside
      OBVIOUS
    <2>1. ASSUME NEW t \in Tasks, NEW u \in Users, AcquireFree(t, u)
          PROVE  [Mutex!Next]_Inside
      <3>1. Mutex!Enter(t, u)
        BY <2>1, AcquireFreeEnters DEF Mutex!Enter, Inside
      <3> QED
        BY <3>1 DEF Mutex!Next
    <2>2. ASSUME NEW t \in Tasks, NEW u \in Users, AcquireBusy(t, u)
          PROVE  [Mutex!Next]_Inside
      BY <2>2, AcquireBusyStutters
    <2>3. ASSUME NEW t \in Tasks, Wake(t)
          PROVE  [Mutex!Next]_Inside
      <3>1. PICK u \in Users : u = target[t]
        BY <2>3, WakeEnters
      <3>2. Mutex!Enter(t, u)
        BY <2>3, <3>1, WakeEnters DEF Mutex!Enter, Inside
      <3> QED
        BY <3>2 DEF Mutex!Next
    <2>4. ASSUME NEW t \in Tasks, Release(t)
          PROVE  [Mutex!Next]_Inside
      <3>1. PICK u \in Users : u = target[t]
        BY <2>4, ReleaseLeaves
      <3>2. Mutex!Leave(t, u)
        BY <2>4, <3>1, ReleaseLeaves DEF Mutex!Leave, Inside
      <3> QED
        BY <3>2 DEF Mutex!Next
    <2>5. CASE LocksRestart
      <3>1. \A t \in Tasks, u \in Users : ~Holds(t, u)'
        BY <2>5, SpinLocksAssumption DEF LocksRestart, Holds
      <3>2. Mutex!Restart
        BY <3>1 DEF Mutex!Restart
      <3> QED
        BY <3>2 DEF Mutex!Next
    <2>6. CASE UNCHANGED lockVars
      BY <2>6 DEF lockVars, Inside, Holds
    <2> QED
      BY <2>1, <2>2, <2>3, <2>4, <2>5, <2>6 DEF LocksNext
  <1> QED
    BY <1>1, <1>2, LocksInvariant, PTL
    DEF LocksSpec, ImplementsUserMutex, Mutex!Spec, Inside

-----------------------------------------------------------------------------
(* Nobody overtakes. *)

\* The queue of a lock has everybody who refers to it and does not hold it, once.
QueuesAreExact ==
    /\ \A l \in Locks : \A i \in 1..Len(waiters[l]) :
         ref[waiters[l][i]] = l /\ owner[l] # waiters[l][i]
    /\ \A l \in Locks : \A i, j \in 1..Len(waiters[l]) :
         waiters[l][i] = waiters[l][j] => i = j
    /\ \A t \in Tasks : ref[t] \in Locks /\ owner[ref[t]] # t =>
         \E i \in 1..Len(waiters[ref[t]]) : waiters[ref[t]][i] = t

QueueInv == LocksInv /\ QueuesAreExact

\* A queue is a sequence of tasks.
LEMMA QueueTypes ==
  ASSUME QueueInv, NEW m \in Locks
  PROVE  /\ waiters[m] \in Seq(Tasks)
         /\ Len(waiters[m]) \in Nat
         /\ \A i \in 1..Len(waiters[m]) : waiters[m][i] \in Tasks
  <1>1. waiters[m] \in Seq(Tasks)
    BY DEF QueueInv, LocksInv, LocksTypeOK
  <1> QED
    BY <1>1

\* A task without a reference holds no lock and is in no queue.
LEMMA WithoutReference ==
  ASSUME QueueInv, NEW t \in Tasks, ref[t] = NoLock, NEW m \in Locks
  PROVE  /\ owner[m] # t
         /\ \A i \in 1..Len(waiters[m]) : waiters[m][i] # t
  BY SpinLocksAssumption DEF QueueInv, QueuesAreExact, LocksInv, OwnersRefer

\* Whoever takes a lock without waiting finds an empty queue.
LEMMA AcquireFreeKeepsQueues ==
  ASSUME QueueInv, NEW t \in Tasks, NEW u \in Users, AcquireFree(t, u)
  PROVE  QueuesAreExact'
  <1>1. PICK l \in GetLock(u) :
          /\ owner[l] = NoTask /\ waiters[l] = <<>>
          /\ TakeReference(t, u, l)
          /\ owner' = [owner EXCEPT ![l] = t]
    BY DEF AcquireFree
  <1>2. l \in Locks /\ ref[t] = NoLock /\ waiters' = waiters
    BY GetLockFacts DEF AcquireFree, QueueInv
  <1>3. /\ ref' = [ref EXCEPT ![t] = l]
        /\ \A s \in Tasks \ {t} : ref'[s] = ref[s]
        /\ ref'[t] = l
    BY <1>1 DEF TakeReference, QueueInv, LocksInv, LocksTypeOK
  <1> QED
    BY <1>1, <1>2, <1>3, SpinLocksAssumption
    DEF QueueInv, QueuesAreExact, LocksInv, LocksTypeOK

\* Whoever has to wait becomes the last.
LEMMA AcquireBusyKeepsQueues ==
  ASSUME QueueInv, NEW t \in Tasks, NEW u \in Users, AcquireBusy(t, u)
  PROVE  QueuesAreExact'
  <1>1. PICK l \in GetLock(u) :
          /\ TakeReference(t, u, l)
          /\ waiters' = [waiters EXCEPT ![l] = Append(@, t)]
    BY DEF AcquireBusy
  <1>2. l \in Locks /\ ref[t] = NoLock /\ owner' = owner
    BY GetLockFacts DEF AcquireBusy, QueueInv
  <1>3. /\ \A s \in Tasks \ {t} : ref'[s] = ref[s]
        /\ ref'[t] = l
    BY <1>1 DEF TakeReference, QueueInv, LocksInv, LocksTypeOK
  <1>4. /\ \A m \in Locks : waiters[m] \in Seq(Tasks) /\ Len(waiters[m]) \in Nat
        /\ \A m \in Locks : \A i \in 1..Len(waiters[m]) : waiters[m][i] \in Tasks \ {t}
        /\ \A m \in Locks : owner[m] # t
    BY <1>2, QueueTypes, WithoutReference
  <1>5. /\ \A m \in Locks \ {l} : waiters'[m] = waiters[m]
        /\ Len(waiters'[l]) = Len(waiters[l]) + 1
        /\ \A i \in 1..Len(waiters[l]) : waiters'[l][i] = waiters[l][i]
        /\ waiters'[l][Len(waiters[l]) + 1] = t
    BY <1>1, <1>2, <1>4 DEF QueueInv, LocksInv, LocksTypeOK
  <1>6. \A m \in Locks : \A i \in 1..Len(waiters'[m]) :
          ref'[waiters'[m][i]] = m /\ owner'[m] # waiters'[m][i]
    BY <1>2, <1>3, <1>4, <1>5 DEF QueueInv, QueuesAreExact
  <1>7. \A m \in Locks : \A i, j \in 1..Len(waiters'[m]) :
          waiters'[m][i] = waiters'[m][j] => i = j
    <2> SUFFICES ASSUME NEW m \in Locks, NEW i \in 1..Len(waiters'[m]),
                        NEW j \in 1..Len(waiters'[m]), waiters'[m][i] = waiters'[m][j]
                 PROVE  i = j
      OBVIOUS
    <2>1. CASE m # l
      BY <2>1, <1>5 DEF QueueInv, QueuesAreExact
    <2>2. CASE m = l
      <3>1. /\ i \in 1..Len(waiters[l]) \/ i = Len(waiters[l]) + 1
            /\ j \in 1..Len(waiters[l]) \/ j = Len(waiters[l]) + 1
        BY <2>2, <1>2, <1>4, <1>5
      <3>2. CASE i \in 1..Len(waiters[l]) /\ j \in 1..Len(waiters[l])
        BY <3>2, <2>2, <1>2, <1>5 DEF QueueInv, QueuesAreExact
      <3> QED
        BY <3>1, <3>2, <2>2, <1>2, <1>4, <1>5
    <2> QED
      BY <2>1, <2>2
  <1>8. \A s \in Tasks : ref'[s] \in Locks /\ owner'[ref'[s]] # s =>
          \E i \in 1..Len(waiters'[ref'[s]]) : waiters'[ref'[s]][i] = s
    <2> SUFFICES ASSUME NEW s \in Tasks, ref'[s] \in Locks, owner'[ref'[s]] # s
                 PROVE  \E i \in 1..Len(waiters'[ref'[s]]) : waiters'[ref'[s]][i] = s
      OBVIOUS
    <2>1. CASE s = t
      BY <2>1, <1>2, <1>3, <1>4, <1>5
    <2>2. CASE s # t
      <3>1. PICK i \in 1..Len(waiters[ref[s]]) : waiters[ref[s]][i] = s
        BY <2>2, <1>2, <1>3 DEF QueueInv, QueuesAreExact
      <3>2. /\ i \in 1..Len(waiters'[ref[s]])
            /\ waiters'[ref[s]][i] = s
        BY <3>1, <2>2, <1>2, <1>3, <1>4, <1>5
      <3> QED
        BY <3>2, <2>2, <1>3
    <2> QED
      BY <2>1, <2>2
  <1> QED
    BY <1>6, <1>7, <1>8 DEF QueuesAreExact

\* Whoever wakes up was the first.
LEMMA WakeKeepsQueues ==
  ASSUME QueueInv, NEW t \in Tasks, Wake(t)
  PROVE  QueuesAreExact'
  <1> DEFINE l == ref[t]
  <1>1. /\ l \in Locks
        /\ waiters[l] # <<>> /\ Head(waiters[l]) = t
        /\ owner' = [owner EXCEPT ![l] = t]
        /\ waiters' = [waiters EXCEPT ![l] = Tail(@)]
        /\ ref' = ref
    BY DEF Wake
  <1> HIDE DEF l
  <1>2. \A m \in Locks : waiters[m] \in Seq(Tasks) /\ Len(waiters[m]) \in Nat
    BY QueueTypes
  <1>3. /\ Len(waiters[l]) >= 1
        /\ waiters[l][1] = t
        /\ Len(Tail(waiters[l])) = Len(waiters[l]) - 1
        /\ \A i \in 1..Len(waiters[l]) - 1 : Tail(waiters[l])[i] = waiters[l][i + 1]
    BY <1>1, <1>2
  <1>4. /\ \A m \in Locks \ {l} : waiters'[m] = waiters[m] /\ owner'[m] = owner[m]
        /\ waiters'[l] = Tail(waiters[l])
        /\ owner'[l] = t
    BY <1>1 DEF QueueInv, LocksInv, LocksTypeOK
  <1>5. \A i \in 1..Len(waiters'[l]) :
          /\ i + 1 \in 1..Len(waiters[l])
          /\ waiters'[l][i] = waiters[l][i + 1]
    <2> SUFFICES ASSUME NEW i \in 1..Len(waiters'[l])
                 PROVE  i + 1 \in 1..Len(waiters[l]) /\ waiters'[l][i] = waiters[l][i + 1]
      OBVIOUS
    <2>1. Len(waiters'[l]) = Len(waiters[l]) - 1 /\ Len(waiters[l]) \in Nat
      BY <1>1, <1>2, <1>3, <1>4
    <2> QED
      BY <2>1, <1>3, <1>4
  <1>6. \A m \in Locks : \A i \in 1..Len(waiters'[m]) :
          ref'[waiters'[m][i]] = m /\ owner'[m] # waiters'[m][i]
    <2> SUFFICES ASSUME NEW m \in Locks, NEW i \in 1..Len(waiters'[m])
                 PROVE  ref'[waiters'[m][i]] = m /\ owner'[m] # waiters'[m][i]
      OBVIOUS
    <2>1. CASE m # l
      BY <2>1, <1>1, <1>4 DEF QueueInv, QueuesAreExact
    <2>2. CASE m = l
      <3>1. ref[waiters[l][i + 1]] = l
        BY <2>2, <1>1, <1>5 DEF QueueInv, QueuesAreExact
      <3>2. 1 \in 1..Len(waiters[l]) /\ i + 1 # 1
        BY <1>1, <1>2, <1>3
      <3>3. waiters[l][i + 1] # waiters[l][1]
        BY <3>2, <2>2, <1>1, <1>5 DEF QueueInv, QueuesAreExact
      <3> QED
        BY <3>1, <3>3, <2>2, <1>1, <1>3, <1>4, <1>5
    <2> QED
      BY <2>1, <2>2
  <1>7. \A m \in Locks : \A i, j \in 1..Len(waiters'[m]) :
          waiters'[m][i] = waiters'[m][j] => i = j
    <2> SUFFICES ASSUME NEW m \in Locks, NEW i \in 1..Len(waiters'[m]),
                        NEW j \in 1..Len(waiters'[m]), waiters'[m][i] = waiters'[m][j]
                 PROVE  i = j
      OBVIOUS
    <2>1. CASE m # l
      BY <2>1, <1>4 DEF QueueInv, QueuesAreExact
    <2>2. CASE m = l
      <3>1. i + 1 = j + 1
        BY <2>2, <1>1, <1>5 DEF QueueInv, QueuesAreExact
      <3> QED
        BY <3>1, <2>2
    <2> QED
      BY <2>1, <2>2
  <1>8. \A s \in Tasks : ref'[s] \in Locks /\ owner'[ref'[s]] # s =>
          \E i \in 1..Len(waiters'[ref'[s]]) : waiters'[ref'[s]][i] = s
    <2> SUFFICES ASSUME NEW s \in Tasks, ref[s] \in Locks, owner'[ref[s]] # s
                 PROVE  \E i \in 1..Len(waiters'[ref[s]]) : waiters'[ref[s]][i] = s
      BY <1>1
    <2>1. CASE ref[s] # l
      BY <2>1, <1>4 DEF QueueInv, QueuesAreExact
    <2>2. CASE ref[s] = l
      <3>1. s # t /\ owner[l] # s
        BY <2>2, <1>4, SpinLocksAssumption DEF Wake, l
      <3>2. PICK i \in 1..Len(waiters[l]) : waiters[l][i] = s
        BY <3>1, <2>2 DEF QueueInv, QueuesAreExact
      <3>3. i # 1
        BY <3>1, <3>2, <1>3
      <3>4. /\ i - 1 \in 1..Len(waiters'[l])
            /\ waiters'[l][i - 1] = s
        <4>1. Len(waiters'[l]) = Len(waiters[l]) - 1 /\ Len(waiters[l]) \in Nat
          BY <1>1, <1>2, <1>3, <1>4
        <4>2. i - 1 \in 1..Len(waiters[l]) - 1
          BY <3>2, <3>3, <4>1
        <4> QED
          BY <4>1, <4>2, <3>2, <1>3, <1>4
      <3> QED
        BY <3>4, <2>2
    <2> QED
      BY <2>1, <2>2
  <1> QED
    BY <1>6, <1>7, <1>8 DEF QueuesAreExact

\* Whoever releases a lock is in no queue.
LEMMA ReleaseKeepsQueues ==
  ASSUME QueueInv, NEW t \in Tasks, Release(t)
  PROVE  QueuesAreExact'
  <1>1. /\ ref[t] \in Locks /\ owner[ref[t]] = t
        /\ owner' = [owner EXCEPT ![ref[t]] = NoTask]
        /\ ref' = [ref EXCEPT ![t] = NoLock]
        /\ waiters' = waiters
    BY DEF Release
  <1>2. \A m \in Locks : \A i \in 1..Len(waiters[m]) : waiters[m][i] \in Tasks \ {t}
    BY <1>1, QueueTypes DEF QueueInv, QueuesAreExact
  <1> QED
    BY <1>1, <1>2, SpinLocksAssumption DEF QueueInv, QueuesAreExact, LocksInv, LocksTypeOK

\* QueueInv is inductive.
LEMMA QueueInvStep == QueueInv /\ [LocksNext]_lockVars => QueueInv'
  <1> SUFFICES ASSUME QueueInv, [LocksNext]_lockVars
               PROVE  QueuesAreExact'
    BY LocksInvStep DEF QueueInv
  <1>1. CASE LocksRestart
    BY <1>1, SpinLocksAssumption DEF LocksRestart, QueuesAreExact
  <1>2. CASE UNCHANGED lockVars
    BY <1>2 DEF lockVars, QueueInv, QueuesAreExact
  <1> QED
    BY <1>1, <1>2, AcquireFreeKeepsQueues, AcquireBusyKeepsQueues, WakeKeepsQueues,
       ReleaseKeepsQueues
    DEF LocksNext

\* The queues of the locks are exact in every state.
THEOREM QueueInvariant == LocksSpec => []QueueInv
  <1>1. LocksInit => QueueInv
    BY LocksInvInit, SpinLocksAssumption DEF LocksInit, QueueInv, QueuesAreExact
  <1> QED
    BY <1>1, QueueInvStep, PTL DEF LocksSpec

\* A step that lets s into the section of a user lets nobody overtake who waits for it.
LEMMA StepLetsNobodyOvertake ==
  ASSUME QueueInv, [LocksNext]_lockVars, NEW s \in Tasks, NEW t \in Tasks, NEW u \in Users,
         Waits(t, u), ~Holds(s, u), Holds(s, u)', s # t
  PROVE  Ahead(s, t)
  <1> USE DEF QueueInv
  <1>1. /\ ref[t] \in Locks /\ registry[u] = ref[t] /\ registry[u] # NoLock
    BY SpinLocksAssumption DEF Waits, LocksInv, RegistryIsWeak
  <1>2. PICK j \in 1..Len(waiters[ref[t]]) : waiters[ref[t]][j] = t
    BY DEF Waits, QueuesAreExact
  <1>3. ASSUME NEW r \in Tasks, Wake(r) PROVE Ahead(s, t)
    <2>1. /\ ref'[s] = ref[s] /\ target'[s] = target[s]
          /\ ref[s] \in Locks /\ target[s] = u
          /\ owner[ref[s]] # s /\ owner'[ref[s]] = s
      BY <1>3 DEF Wake, Holds
    <2>2. r = s
      BY <1>3, <2>1 DEF Wake, LocksInv, LocksTypeOK
    <2>3. ref[s] = ref[t]
      BY <1>1, <2>1, SpinLocksAssumption DEF LocksInv, RegistryIsWeak
    <2>4. waiters[ref[t]] \in Seq(Tasks) /\ Head(waiters[ref[t]]) = s /\ waiters[ref[t]] # <<>>
      BY <1>1, <1>3, <2>2, <2>3 DEF Wake, LocksInv, LocksTypeOK
    <2>5. 1 \in 1..Len(waiters[ref[t]]) /\ waiters[ref[t]][1] = s
      BY <2>4
    <2>6. 1 < j
      BY <1>2, <2>4, <2>5
    <2> QED
      BY <1>2, <2>5, <2>6 DEF Ahead
  <1>4. ASSUME NEW r \in Tasks, NEW v \in Users, AcquireFree(r, v) PROVE FALSE
    <2>1. PICK l \in GetLock(v) :
            /\ waiters[l] = <<>>
            /\ TakeReference(r, v, l)
            /\ owner' = [owner EXCEPT ![l] = r]
      BY <1>4 DEF AcquireFree
    <2>2. l \in Locks /\ ref[r] = NoLock /\ registry[v] \in {l, NoLock}
      BY <1>4, <2>1, GetLockFacts DEF AcquireFree
    <2>3. ref[t] # l
      BY <1>1, <1>2, <2>1
    <2>4. v # u
      BY <1>1, <2>2, <2>3
    <2>5. CASE r = s
      BY <2>1, <2>4, <2>5 DEF TakeReference, Holds, LocksInv, LocksTypeOK
    <2>6. CASE r # s
      <3>1. ref'[s] = ref[s] /\ target'[s] = target[s] /\ ref[s] \in Locks /\ target[s] = u
        BY <2>1, <2>6 DEF TakeReference, Holds, LocksInv, LocksTypeOK
      <3>2. owner'[ref[s]] # s
        BY <3>1, <2>1, <2>2, <2>6 DEF Holds, LocksInv, LocksTypeOK
      <3> QED
        BY <3>1, <3>2 DEF Holds
    <2> QED
      BY <2>5, <2>6
  <1>5. ASSUME NEW r \in Tasks, NEW v \in Users, AcquireBusy(r, v) PROVE FALSE
    <2>1. PICK l \in GetLock(v) : TakeReference(r, v, l)
      BY <1>5 DEF AcquireBusy
    <2>2. /\ l \in Locks /\ ref[r] = NoLock /\ owner' = owner
          /\ \A m \in Locks : owner[m] # r
      BY <1>5, <2>1, GetLockFacts, WithoutReference DEF AcquireBusy
    <2> QED
      BY <2>1, <2>2 DEF TakeReference, Holds, LocksInv, LocksTypeOK
  <1>6. ASSUME NEW r \in Tasks, Release(r) PROVE FALSE
    BY <1>6, SpinLocksAssumption DEF Release, Holds, LocksInv, LocksTypeOK
  <1>7. CASE LocksRestart
    BY <1>7, SpinLocksAssumption DEF LocksRestart, Holds
  <1>8. CASE UNCHANGED lockVars
    BY <1>8 DEF lockVars, Holds
  <1> QED
    BY <1>3, <1>4, <1>5, <1>6, <1>7, <1>8 DEF LocksNext

\* The section of a user is entered in the order of asking for it, although the lock is
\* free between its release and the next waiter's wake-up, and its entry in the
\* dictionary comes and goes.
THEOREM WaitersAreServedInTurn == LocksSpec => NobodyOvertakes
  <1> DEFINE Turn(s, t, u) == Waits(t, u) /\ ~Holds(s, u) /\ Holds(s, u)' => s = t \/ Ahead(s, t)
  <1>1. QueueInv /\ [LocksNext]_lockVars =>
          [\A s, t \in Tasks, u \in Users : Turn(s, t, u)]_lockVars
    BY StepLetsNobodyOvertake
  <1> QED
    BY <1>1, QueueInvariant, PTL DEF LocksSpec, NobodyOvertakes
=============================================================================
