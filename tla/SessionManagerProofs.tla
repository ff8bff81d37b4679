------------------------ MODULE SessionManagerProofs ------------------------
(***************************************************************************)
(* Proofs about SessionManager, for any number of tasks, users and lock    *)
(* objects, any events and any bounds on failures and restarts.            *)
(*                                                                         *)
(* First the types, then the link between program counters and locks: a    *)
(* task whose program counter is inside a section holds the lock of its    *)
(* subject (InsideHolds), so the exclusion proved in SpinLocksProofs       *)
(* carries over to the sections of the code.                               *)
(***************************************************************************)
EXTENDS SessionManager, SpinLocksProofs

\* The types of the variables SessionManager adds to the locks.
AppTypeOK ==
    /\ row \in [Users -> Status \cup {"none", "deleted"}]
    /\ container \in [Users -> {"missing", "exited", "running"}]
    /\ activity \in [Users -> {"none", "fresh", "stale"}]
    /\ op \in [Tasks -> Ops \cup {"none"}]
    /\ pc \in [Tasks -> Pcs]
    /\ subject \in [Tasks -> Users \cup {NoUser}]
    /\ seen \in [Tasks -> Status \cup {"unread", "absent"}]
    /\ sweepPc \in SweepPcs
    /\ idleUsers \subseteq Users
    /\ sweepUser \in Users \cup {NoUser}
    /\ sweepSeen \in Status \cup {"unread", "absent"}
    /\ faults \in 0..MaxFaults
    /\ restarts \in 0..MaxRestarts

\* A task that executes something is about a user, and what it is about to
\* commit is a status, unless it deletes the row.
TasksHaveSubjects ==
    \A t \in Tasks :
      /\ pc[t] # "idle" => subject[t] \in Users
      /\ pc[t] = "commit" => seen[t] \in Status \/ op[t] = "admin_delete"
      /\ pc[t] = "lockedCommit" => seen[t] \in Status

\* The same for the sweep.
SweepHasUser ==
    /\ sweepPc \notin {"asleep", "next"} => sweepUser \in Users
    /\ sweepPc = "commit" => sweepSeen \in Status

\* A task inside a section holds the lock of its subject, one that waits refers to it.
InsideHolds ==
    \A t \in Tasks :
      /\ InSection(t) => Holds(t, subject[t])
      /\ pc[t] = "waiting" => ref[t] \in Locks /\ target[t] = subject[t]

SessionInv == LocksInv /\ AppTypeOK /\ TasksHaveSubjects /\ SweepHasUser /\ InsideHolds

\* Init establishes the invariant: nothing runs and no lock exists.
LEMMA SessionInvInit == Init => SessionInv
  <1> SUFFICES ASSUME Init PROVE SessionInv
    OBVIOUS
  <1>1. LocksInv
    BY LocksInvInit DEF Init
  <1>2. AppTypeOK
    BY SessionManagerAssumption DEF Init, AppTypeOK, Pcs, SweepPcs
  <1>3. TasksHaveSubjects /\ SweepHasUser /\ InsideHolds
    BY DEF Init, TasksHaveSubjects, SweepHasUser, InsideHolds, InSection, LockedPcs
  <1> QED
    BY <1>1, <1>2, <1>3 DEF SessionInv

-----------------------------------------------------------------------------
(* Locks: every step is a step of SpinLocks *)

\* What the steps of the session manager do with the locks is what SpinLocks allows.
LEMMA SessionStepsAreLockSteps ==
  SessionInv /\ [Next]_vars => [LocksNext]_lockVars
  <1> SUFFICES ASSUME SessionInv, [Next]_vars
               PROVE  [LocksNext]_lockVars
    OBVIOUS
  <1> USE DEF SessionInv
  <1>1. ASSUME NEW t \in Tasks, Release(t) PROVE LocksNext
    BY <1>1 DEF LocksNext
  <1>2. ASSUME NEW t \in Tasks, SectionStep(t) PROVE [LocksNext]_lockVars
    <2>1. CASE CallAndEnter(t)
      BY <2>1 DEF CallAndEnter, Calls, LocksNext, TasksHaveSubjects
    <2>2. CASE CallAndWait(t)
      BY <2>2 DEF CallAndWait, Calls, LocksNext, TasksHaveSubjects
    <2>3. CASE WakeAndEnter(t)
      BY <2>3 DEF WakeAndEnter, LocksNext
    <2>4. CASE NothingToDo(t) \/ FinishSection(t)
      BY <2>4, <1>1 DEF NothingToDo, FinishSection, LeaveSection
    <2>5. CASE SpinUp(t) \/ SpinDown(t)
      BY <2>5 DEF SpinUp, SpinDown
    <2> QED
      BY <1>2, <2>1, <2>2, <2>3, <2>4, <2>5 DEF SectionStep
  <1>3. ASSUME NEW t \in Tasks, HandlerStep(t) PROVE [LocksNext]_lockVars
    <2>1. CASE WriteRefused(t)
      BY <2>1, <1>1 DEF WriteRefused, Raise
    <2> QED
      BY <1>3, <2>1
      DEF HandlerStep, Answer, TurnAway, Refresh, AdminUpdate, ClerkCreate,
          RetireInactive, Write, Return
  <1>4. CASE SweepStep
    BY <1>4
    DEF SweepStep, SweepWakes, SweepPicks, SweepAnswer, SweepSkips, SweepStops,
        SweepWrite, SweepWriteRefused, SweepForgets
  <1>5. CASE Failure
    <2>1. ASSUME NEW t \in Tasks, CommitFails(t) \/ SpinUpFails(t) \/ SpinDownFails(t)
          PROVE  [LocksNext]_lockVars
      BY <2>1, <1>1 DEF CommitFails, Raise, SpinUpFails, SpinDownFails, LeaveSection
    <2>2. CASE Restart
      BY <2>2 DEF Restart, LocksNext
    <2> QED
      BY <1>5, <2>1, <2>2 DEF Failure, SweepStopFails, SweepCommitFails
  <1>6. CASE Environment
    BY <1>6 DEF Environment, Arrive, AdminCreate, BecomeIdle
  <1>7. CASE UNCHANGED vars
    BY <1>7 DEF vars
  <1> QED
    BY <1>2, <1>3, <1>4, <1>5, <1>6, <1>7 DEF Next

\* A lock step of one task leaves the references of the others, and what they
\* hold, alone.
LEMMA OthersKeepTheirLocks ==
  ASSUME LocksInv, NEW t \in Tasks, NEW u \in Users, NEW s \in Tasks \ {t},
         AcquireFree(t, u) \/ AcquireBusy(t, u) \/ Wake(t) \/ Release(t)
  PROVE  /\ ref'[s] = ref[s]
         /\ target'[s] = target[s]
         /\ \A v : Holds(s, v) => Holds(s, v)'
  <1> USE DEF LocksInv, LocksTypeOK
  <1>1. ref'[s] = ref[s] /\ target'[s] = target[s]
    BY DEF AcquireFree, AcquireBusy, Wake, Release, TakeReference
  <1>2. ASSUME ref[s] \in Locks, owner[ref[s]] = s PROVE owner'[ref[s]] = s
    <2>1. CASE AcquireFree(t, u)
      <3>1. PICK l \in GetLock(u) : owner[l] = NoTask /\ owner' = [owner EXCEPT ![l] = t]
        BY <2>1 DEF AcquireFree
      <3> QED
        BY <3>1, <1>2, SpinLocksAssumption
    <2>2. CASE AcquireBusy(t, u)
      BY <2>2, <1>2 DEF AcquireBusy
    <2>3. CASE Wake(t)
      BY <2>3, <1>2, SpinLocksAssumption DEF Wake
    <2>4. CASE Release(t)
      BY <2>4, <1>2 DEF Release
    <2> QED
      BY <2>1, <2>2, <2>3, <2>4
  <1> QED
    BY <1>1, <1>2 DEF Holds

-----------------------------------------------------------------------------
(* Every step keeps the invariant: types and subjects *)

\* The steps of a task that return, raise or go on with another statement.
LEMMA HandlerStepKeepsTypes ==
  ASSUME SessionInv, NEW t \in Tasks, HandlerStep(t)
  PROVE  AppTypeOK' /\ TasksHaveSubjects' /\ SweepHasUser'
  <1> USE DEF SessionInv, AppTypeOK, TasksHaveSubjects, SweepHasUser, Goto, Set,
              Status, Pcs, LockedPcs, Ops, Requests
  <1>1. CASE Answer(t)
    BY <1>1 DEF Answer, Load, sweepVars, bounds
  <1>2. CASE TurnAway(t) \/ Refresh(t)
    BY <1>2 DEF TurnAway, Refresh, Finish, sweepVars, bounds
  <1>3. CASE AdminUpdate(t)
    BY <1>3 DEF AdminUpdate, Finish, sweepVars, bounds
  <1>4. CASE ClerkCreate(t)
    BY <1>4 DEF ClerkCreate, sweepVars, bounds
  <1>5. CASE RetireInactive(t)
    BY <1>5 DEF RetireInactive, Retire, sweepVars, bounds
  <1>6. CASE Write(t)
    BY <1>6 DEF Write, Written, Deletes, sweepVars, bounds
  <1>7. CASE WriteRefused(t)
    BY <1>7 DEF WriteRefused, Raise, Finish, sweepVars, bounds
  <1>8. CASE Return(t)
    BY <1>8 DEF Return, Finish, sweepVars, bounds
  <1> QED
    BY <1>1, <1>2, <1>3, <1>4, <1>5, <1>6, <1>7, <1>8 DEF HandlerStep

\* The steps of a task that enter, execute or leave a locked section.
LEMMA SectionStepKeepsTypes ==
  ASSUME SessionInv, NEW t \in Tasks, SectionStep(t)
  PROVE  AppTypeOK' /\ TasksHaveSubjects' /\ SweepHasUser'
  <1> USE DEF SessionInv, AppTypeOK, TasksHaveSubjects, SweepHasUser, Goto, Set,
              Status, Pcs, LockedPcs, Ops, Requests
  <1>1. CASE CallAndEnter(t) \/ CallAndWait(t)
    BY <1>1 DEF CallAndEnter, CallAndWait, Calls, EnterSection, sweepVars, bounds
  <1>2. CASE WakeAndEnter(t)
    BY <1>2 DEF WakeAndEnter, EnterSection, sweepVars, bounds
  <1>3. ASSUME LeaveSection(t), subject[t] \in Users
        PROVE  /\ op' \in [Tasks -> Ops \cup {"none"}]
               /\ pc' \in [Tasks -> Pcs]
               /\ subject' \in [Tasks -> Users \cup {NoUser}]
               /\ seen' \in [Tasks -> Status \cup {"unread", "absent"}]
               /\ TasksHaveSubjects'
    BY <1>3 DEF LeaveSection, Retire, Finish
  <1>4. CASE NothingToDo(t)
    BY <1>3, <1>4 DEF NothingToDo, sweepVars, bounds
  <1>5. CASE SpinUp(t)
    BY <1>5 DEF SpinUp, DockerStart, sweepVars, bounds
  <1>6. CASE SpinDown(t)
    BY <1>6 DEF SpinDown, DockerStop, sweepVars, bounds
  <1>7. CASE FinishSection(t)
    BY <1>3, <1>7 DEF FinishSection, sweepVars, bounds
  <1> QED
    BY <1>1, <1>2, <1>4, <1>5, <1>6, <1>7 DEF SectionStep

\* The steps of the idle sweep.
LEMMA SweepStepKeepsTypes ==
  ASSUME SessionInv, SweepStep
  PROVE  AppTypeOK' /\ TasksHaveSubjects' /\ SweepHasUser'
  <1> USE DEF SessionInv, AppTypeOK, TasksHaveSubjects, SweepHasUser, SweepPcs, Status
  <1>1. CASE SweepWakes \/ (\E u \in Users : SweepPicks(u)) \/ SweepAnswer
    BY <1>1 DEF SweepWakes, SweepPicks, SweepAnswer, Load, taskVars, bounds
  <1>2. CASE SweepSkips
    BY <1>2 DEF SweepSkips, SweepAdvance, Forget, taskVars, bounds
  <1>3. CASE SweepStops
    BY <1>3 DEF SweepStops, DockerStop, taskVars, bounds
  <1>4. CASE SweepWrite \/ SweepWriteRefused
    BY <1>4 DEF SweepWrite, SweepWriteRefused, SweepAdvance, taskVars, bounds
  <1>5. CASE SweepForgets
    BY <1>5 DEF SweepForgets, SweepAdvance, Forget, taskVars, bounds
  <1> QED
    BY <1>1, <1>2, <1>3, <1>4, <1>5 DEF SweepStep

\* Failing calls and restarts.
LEMMA FailureKeepsTypes ==
  ASSUME SessionInv, Failure
  PROVE  AppTypeOK' /\ TasksHaveSubjects' /\ SweepHasUser'
  <1> USE SessionManagerAssumption
      DEF SessionInv, AppTypeOK, TasksHaveSubjects, SweepHasUser, Status
  <1>1. ASSUME Fault PROVE faults' \in 0..MaxFaults
    BY <1>1 DEF Fault
  <1>2. ASSUME NEW t \in Tasks, LeaveSection(t), subject[t] \in Users
        PROVE  /\ op' \in [Tasks -> Ops \cup {"none"}]
               /\ pc' \in [Tasks -> Pcs]
               /\ subject' \in [Tasks -> Users \cup {NoUser}]
               /\ seen' \in [Tasks -> Status \cup {"unread", "absent"}]
               /\ TasksHaveSubjects'
    BY <1>2 DEF LeaveSection, Retire, Finish, Goto, Set, Pcs
  <1>3. ASSUME NEW t \in Tasks, CommitFails(t)
        PROVE  AppTypeOK' /\ TasksHaveSubjects' /\ SweepHasUser'
    BY <1>1, <1>3
    DEF CommitFails, Raise, Finish, Goto, Set, Written, Deletes, Pcs, sweepVars
  <1>4. ASSUME NEW t \in Tasks, SpinUpFails(t) \/ SpinDownFails(t)
        PROVE  AppTypeOK' /\ TasksHaveSubjects' /\ SweepHasUser'
    <2>1. subject[t] \in Users /\ LeaveSection(t)
      BY <1>4 DEF SpinUpFails, SpinDownFails
    <2>2. container' \in [Users -> {"missing", "exited", "running"}]
      BY <1>4, <2>1
      DEF SpinUpFails, SpinDownFails, DockerStartRaises, DockerStopRaises
    <2> QED
      BY <1>1, <1>2, <1>4, <2>1, <2>2 DEF SpinUpFails, SpinDownFails, sweepVars
  <1>5. CASE SweepStopFails \/ SweepCommitFails
    <2>1. container' \in [Users -> {"missing", "exited", "running"}]
      BY <1>5 DEF SweepStopFails, SweepCommitFails, DockerStopRaises
    <2> QED
      BY <1>1, <1>5, <2>1
      DEF SweepStopFails, SweepCommitFails, SweepAdvance, SweepPcs, taskVars
  <1>6. CASE Restart
    BY <1>6 DEF Restart, Pcs, SweepPcs
  <1> QED
    BY <1>3, <1>4, <1>5, <1>6 DEF Failure

\* Arriving requests and idleness.
LEMMA EnvironmentKeepsTypes ==
  ASSUME SessionInv, Environment
  PROVE  AppTypeOK' /\ TasksHaveSubjects' /\ SweepHasUser'
  BY DEF Environment, Arrive, AdminCreate, BecomeIdle, Goto, Set, SessionInv, AppTypeOK,
         TasksHaveSubjects, SweepHasUser, Status, Pcs, Ops, Requests, sweepVars, bounds,
         taskVars

-----------------------------------------------------------------------------
(* Every step keeps the invariant: program counters and locks *)

\* A step that leaves the locks alone, moves t at most within its section or
\* outside of it, and moves no other task.
LEMMA UnlockedStepKeepsInside ==
  ASSUME SessionInv, UNCHANGED lockVars, NEW t \in Tasks,
         \A s \in Tasks \ {t} : pc'[s] = pc[s] /\ subject'[s] = subject[s],
         InSection(t)' => InSection(t) /\ subject'[t] = subject[t],
         pc'[t] # "waiting"
  PROVE  InsideHolds'
  BY DEF SessionInv, InsideHolds, InSection, Holds, lockVars

\* A step in which t acquires, waits for or releases a lock, and nobody else moves.
LEMMA LockStepKeepsInside ==
  ASSUME SessionInv, NEW t \in Tasks, NEW u \in Users,
         AcquireFree(t, u) \/ AcquireBusy(t, u) \/ Wake(t) \/ Release(t),
         \A s \in Tasks \ {t} : pc'[s] = pc[s] /\ subject'[s] = subject[s],
         InSection(t)' => Holds(t, subject[t])' /\ subject'[t] = subject[t],
         pc'[t] = "waiting" => ref'[t] \in Locks /\ target'[t] = subject'[t]
  PROVE  InsideHolds'
  <1>1. ASSUME NEW s \in Tasks \ {t}
        PROVE  /\ InSection(s)' => Holds(s, subject[s])' /\ subject'[s] = subject[s]
               /\ pc'[s] = "waiting" => ref'[s] \in Locks /\ target'[s] = subject'[s]
    <2>1. /\ ref'[s] = ref[s]
          /\ target'[s] = target[s]
          /\ \A v : Holds(s, v) => Holds(s, v)'
      BY OthersKeepTheirLocks DEF SessionInv
    <2>2. (InSection(s)' => InSection(s)) /\ subject'[s] = subject[s]
      BY DEF InSection
    <2>3. Holds(s, subject[s]) => Holds(s, subject[s])'
      BY <2>1 DEF Holds
    <2> QED
      BY <2>1, <2>2, <2>3 DEF SessionInv, InsideHolds
  <1>2. ASSUME NEW s \in Tasks, InSection(s)' PROVE Holds(s, subject[s])' /\ subject'[s] = subject[s]
    BY <1>1, <1>2
  <1> QED
    BY <1>1, <1>2 DEF InsideHolds, Holds

\* The holder of a free, awaited or just acquired lock.
LEMMA AcquirerHolds ==
  ASSUME SessionInv, NEW t \in Tasks, NEW u \in Users
  PROVE  /\ AcquireFree(t, u) => /\ ref'[t] \in Locks
                                 /\ target'[t] = u
                                 /\ owner'[ref'[t]] = t
         /\ AcquireBusy(t, u) => ref'[t] \in Locks /\ target'[t] = u
         /\ Wake(t) /\ target[t] = u => /\ ref'[t] \in Locks
                                        /\ target'[t] = u
                                        /\ owner'[ref'[t]] = t
  <1>1. ASSUME NEW l \in GetLock(u), TakeReference(t, u, l)
        PROVE  l \in Locks /\ ref'[t] = l /\ target'[t] = u
    BY <1>1, GetLockFacts DEF TakeReference, SessionInv, LocksInv, LocksTypeOK
  <1>2. AcquireFree(t, u) => /\ ref'[t] \in Locks
                             /\ target'[t] = u
                             /\ owner'[ref'[t]] = t
    BY <1>1 DEF AcquireFree, SessionInv, LocksInv, LocksTypeOK
  <1>3. AcquireBusy(t, u) => ref'[t] \in Locks /\ target'[t] = u
    BY <1>1 DEF AcquireBusy
  <1>4. Wake(t) /\ target[t] = u => /\ ref'[t] \in Locks
                                    /\ target'[t] = u
                                    /\ owner'[ref'[t]] = t
    BY DEF Wake, SessionInv, LocksInv, LocksTypeOK
  <1> QED
    BY <1>2, <1>3, <1>4

\* Leaving a section releases the lock, and t goes on outside or ends.
LEMMA LeaveSectionKeepsInside ==
  ASSUME SessionInv, NEW t \in Tasks, LeaveSection(t), subject[t] \in Users
  PROVE  InsideHolds'
  <1>1. Release(t)
    BY DEF LeaveSection
  <1>2. /\ \A s \in Tasks \ {t} : pc'[s] = pc[s] /\ subject'[s] = subject[s]
        /\ pc'[t] \in {"commit", "idle"}
    BY DEF LeaveSection, Retire, Finish, Goto, SessionInv, AppTypeOK
  <1> QED
    BY <1>1, <1>2, LockStepKeepsInside DEF InSection, LockedPcs

\* So does an exception.
LEMMA RaiseKeepsInside ==
  ASSUME SessionInv, NEW t \in Tasks, Raise(t), subject[t] \in Users
  PROVE  InsideHolds'
  <1>1. /\ \A s \in Tasks \ {t} : pc'[s] = pc[s] /\ subject'[s] = subject[s]
        /\ pc'[t] = "idle"
    BY DEF Raise, Finish, Goto, SessionInv, AppTypeOK
  <1>2. CASE Release(t)
    BY <1>1, <1>2, LockStepKeepsInside DEF InSection, LockedPcs
  <1>3. CASE UNCHANGED lockVars
    BY <1>1, <1>3, UnlockedStepKeepsInside DEF InSection, LockedPcs
  <1> QED
    BY <1>2, <1>3 DEF Raise

\* Every step keeps the locks and the program counters in agreement.
LEMMA StepKeepsInside == SessionInv /\ [Next]_vars => InsideHolds'
  <1> SUFFICES ASSUME SessionInv, [Next]_vars
               PROVE  InsideHolds'
    OBVIOUS
  <1>1. ASSUME NEW t \in Tasks, HandlerStep(t) PROVE InsideHolds'
    <2>1. CASE WriteRefused(t)
      BY <2>1, RaiseKeepsInside DEF WriteRefused, SessionInv, TasksHaveSubjects
    <2>2. CASE Answer(t)
      BY <2>2, UnlockedStepKeepsInside
      DEF Answer, Goto, InSection, LockedPcs, SessionInv, AppTypeOK
    <2>3. CASE TurnAway(t) \/ Refresh(t) \/ AdminUpdate(t) \/ ClerkCreate(t)
               \/ RetireInactive(t) \/ Return(t)
      <3>1. /\ UNCHANGED lockVars
            /\ \A s \in Tasks \ {t} : pc'[s] = pc[s] /\ subject'[s] = subject[s]
            /\ pc'[t] \in {"idle", "commit", "spawned"}
        BY <2>3 DEF TurnAway, Refresh, AdminUpdate, ClerkCreate, RetireInactive, Retire,
                    Return, Finish, Goto, SessionInv, AppTypeOK
      <3> QED
        BY <3>1, UnlockedStepKeepsInside DEF InSection, LockedPcs
    <2>4. CASE Write(t)
      BY <2>4, UnlockedStepKeepsInside
      DEF Write, Goto, InSection, LockedPcs, SessionInv, AppTypeOK
    <2> QED
      BY <1>1, <2>1, <2>2, <2>3, <2>4 DEF HandlerStep
  <1>2. ASSUME NEW t \in Tasks, SectionStep(t) PROVE InsideHolds'
    <2> USE DEF SessionInv, TasksHaveSubjects
    <2>1. CASE CallAndEnter(t)
      <3>1. subject[t] \in Users /\ AcquireFree(t, subject[t])
        BY <2>1 DEF CallAndEnter, Calls
      <3>2. /\ \A s \in Tasks \ {t} : pc'[s] = pc[s]
            /\ pc'[t] = "lockedSelect"
            /\ subject' = subject
        BY <2>1 DEF CallAndEnter, EnterSection, Goto, AppTypeOK
      <3> QED
        BY <3>1, <3>2, AcquirerHolds, LockStepKeepsInside DEF Holds
    <2>2. CASE CallAndWait(t)
      <3>1. subject[t] \in Users /\ AcquireBusy(t, subject[t])
        BY <2>2 DEF CallAndWait, Calls
      <3>2. /\ \A s \in Tasks \ {t} : pc'[s] = pc[s]
            /\ pc'[t] = "waiting"
            /\ subject' = subject
        BY <2>2 DEF CallAndWait, Goto, AppTypeOK
      <3> QED
        BY <3>1, <3>2, AcquirerHolds, LockStepKeepsInside DEF InSection, LockedPcs
    <2>3. CASE WakeAndEnter(t)
      <3>1. subject[t] \in Users /\ Wake(t) /\ target[t] = subject[t]
        BY <2>3 DEF WakeAndEnter, InsideHolds
      <3>2. /\ \A s \in Tasks \ {t} : pc'[s] = pc[s]
            /\ pc'[t] = "lockedSelect"
            /\ subject' = subject
        BY <2>3 DEF WakeAndEnter, EnterSection, Goto, AppTypeOK
      <3> QED
        BY <3>1, <3>2, AcquirerHolds, LockStepKeepsInside DEF Holds
    <2>4. CASE NothingToDo(t) \/ FinishSection(t)
      <3>1. subject[t] \in Users /\ LeaveSection(t)
        BY <2>4 DEF NothingToDo, FinishSection
      <3> QED
        BY <3>1, LeaveSectionKeepsInside
    <2>5. CASE SpinUp(t) \/ SpinDown(t)
      BY <2>5, UnlockedStepKeepsInside
      DEF SpinUp, SpinDown, Goto, InSection, LockedPcs, AppTypeOK
    <2> QED
      BY <1>2, <2>1, <2>2, <2>3, <2>4, <2>5 DEF SectionStep
  <1>3. CASE Failure
    <2>1. ASSUME NEW t \in Tasks, CommitFails(t) PROVE InsideHolds'
      BY <2>1, RaiseKeepsInside DEF CommitFails, SessionInv, TasksHaveSubjects
    <2>2. ASSUME NEW t \in Tasks, SpinUpFails(t) \/ SpinDownFails(t) PROVE InsideHolds'
      BY <2>2, LeaveSectionKeepsInside
      DEF SpinUpFails, SpinDownFails, SessionInv, TasksHaveSubjects
    <2>3. CASE SweepStopFails \/ SweepCommitFails
      BY <2>3 DEF SweepStopFails, SweepCommitFails, lockVars, taskVars, SessionInv,
                  InsideHolds, InSection, Holds
    <2>4. CASE Restart
      BY <2>4 DEF Restart, InsideHolds, InSection, LockedPcs
    <2> QED
      BY <1>3, <2>1, <2>2, <2>3, <2>4 DEF Failure
  <1>4. CASE Environment
    <2>1. ASSUME NEW t \in Tasks, NEW u \in Users, NEW o \in Requests,
                 Arrive(t, u, o) \/ AdminCreate(t, u)
          PROVE  InsideHolds'
      BY <2>1, UnlockedStepKeepsInside
      DEF Arrive, AdminCreate, Goto, InSection, LockedPcs, SessionInv, AppTypeOK
    <2>2. ASSUME NEW u \in Users, BecomeIdle(u) PROVE InsideHolds'
      BY <2>2 DEF BecomeIdle, lockVars, taskVars, SessionInv, InsideHolds, InSection, Holds
    <2> QED
      BY <1>4, <2>1, <2>2 DEF Environment, Requests
  <1>5. CASE SweepStep \/ UNCHANGED vars
    <2>1. UNCHANGED <<lockVars, pc, subject>>
      BY <1>5 DEF SweepStep, SweepWakes, SweepPicks, SweepAnswer, SweepSkips, SweepStops,
                  SweepWrite, SweepWriteRefused, SweepForgets, taskVars, vars
    <2> QED
      BY <2>1 DEF lockVars, SessionInv, InsideHolds, InSection, Holds
  <1> QED
    BY <1>1, <1>2, <1>3, <1>4, <1>5 DEF Next

-----------------------------------------------------------------------------
(* The theorems *)

\* SessionInv is inductive.
LEMMA SessionInvStep == SessionInv /\ [Next]_vars => SessionInv'
  <1> SUFFICES ASSUME SessionInv, [Next]_vars
               PROVE  SessionInv'
    OBVIOUS
  <1>1. LocksInv' /\ InsideHolds'
    BY SessionStepsAreLockSteps, LocksInvStep, StepKeepsInside DEF SessionInv
  <1>2. AppTypeOK' /\ TasksHaveSubjects' /\ SweepHasUser'
    <2>1. CASE UNCHANGED vars
      BY <2>1 DEF vars, taskVars, sweepVars, bounds, SessionInv, AppTypeOK,
                  TasksHaveSubjects, SweepHasUser
    <2> QED
      BY <2>1, HandlerStepKeepsTypes, SectionStepKeepsTypes, SweepStepKeepsTypes,
         FailureKeepsTypes, EnvironmentKeepsTypes
      DEF Next
  <1> QED
    BY <1>1, <1>2 DEF SessionInv

\* In every state of the session manager program counters, locks, subjects and
\* types agree.
THEOREM SessionInvariant == Spec => []SessionInv
  BY SessionInvInit, SessionInvStep, PTL DEF Spec

\* Every variable keeps its type.
THEOREM TypesHold == Spec => []TypeOK
  <1>1. SessionInv => TypeOK
    BY DEF SessionInv, LocksInv, AppTypeOK, TypeOK
  <1> QED
    BY <1>1, SessionInvariant, PTL

\* Two tasks inside the section of one user are the same task.
LEMMA SessionInvExcludes == SessionInv => OneTaskPerSection
  <1> SUFFICES ASSUME SessionInv, NEW s \in Tasks, NEW t \in Tasks,
                      InSection(s), InSection(t), subject[s] = subject[t]
               PROVE  s = t
    BY DEF OneTaskPerSection
  <1>1. Holds(s, subject[t]) /\ Holds(t, subject[t]) /\ subject[t] \in Users
    BY DEF SessionInv, InsideHolds, TasksHaveSubjects, InSection, LockedPcs
  <1> QED
    BY <1>1, LocksInvGivesMutualExclusion DEF SessionInv, MutualExclusion

\* Two tasks are never between the first and the last statement of the sections of
\* one user, whatever requests arrive, fail or are cut off by a restart.
THEOREM SectionsExclude == Spec => []OneTaskPerSection
  BY SessionInvExcludes, SessionInvariant, PTL

\* Stopping a container, or failing to, makes none run.
LEMMA DockerStopStartsNothing ==
  ASSUME AppTypeOK, NEW u \in Users, DockerStop(u) \/ DockerStopRaises(u)
  PROVE  \A v \in Users : container'[v] = "running" => container[v] = "running"
  BY DEF AppTypeOK, DockerStop, DockerStopRaises

\* Containers are started by the task inside the section of their user, and by
\* nothing else: not by the sweep, not by a failing call, not by a restart.
THEOREM SectionsStart == Spec => StartsOnlyUnderLock
  <1> DEFINE Starts(u) == container[u] # "running" /\ container'[u] = "running"
             Starter(u) == \E t \in Tasks : Holds(t, u) /\ InSection(t) /\ op[t] \in EnsureOps
  <1>1. ASSUME SessionInv, [Next]_vars, NEW u \in Users, Starts(u)
        PROVE  Starter(u)
    <2> USE DEF SessionInv
    <2>1. ASSUME NEW t \in Tasks, SpinUp(t) \/ SpinUpFails(t) PROVE Starter(u)
      <3>1. /\ InSection(t)
            /\ op[t] \in EnsureOps
            /\ \A v \in Users \ {subject[t]} : container'[v] = container[v]
        BY <1>1, <2>1 DEF SpinUp, SpinUpFails, InSection, LockedPcs, DockerStart,
                          DockerStartRaises, AppTypeOK
      <3>2. Holds(t, subject[t]) /\ subject[t] = u
        BY <3>1, <1>1 DEF InsideHolds
      <3> QED
        BY <3>1, <3>2
    <2>2. ASSUME NEW t \in Tasks, SectionStep(t), ~SpinUp(t) PROVE FALSE
      <3>1. CASE SpinDown(t)
        BY <3>1, <1>1, DockerStopStartsNothing DEF SpinDown, TasksHaveSubjects
      <3> QED
        BY <2>2, <3>1, <1>1 DEF SectionStep, CallAndEnter, CallAndWait, WakeAndEnter,
                                NothingToDo, FinishSection
    <2>3. ASSUME NEW t \in Tasks, HandlerStep(t) PROVE FALSE
      BY <2>3, <1>1 DEF HandlerStep, Answer, TurnAway, Refresh, AdminUpdate, ClerkCreate,
                        RetireInactive, Write, WriteRefused, Return
    <2>4. CASE SweepStep
      <3>1. CASE SweepStops
        BY <3>1, <1>1, DockerStopStartsNothing DEF SweepStops, SweepHasUser
      <3> QED
        BY <2>4, <3>1, <1>1 DEF SweepStep, SweepWakes, SweepPicks, SweepAnswer, SweepSkips,
                                SweepWrite, SweepWriteRefused, SweepForgets
    <2>5. CASE Failure
      <3>1. ASSUME NEW t \in Tasks, SpinDownFails(t) PROVE FALSE
        BY <3>1, <1>1, DockerStopStartsNothing DEF SpinDownFails, TasksHaveSubjects
      <3>2. CASE SweepStopFails
        BY <3>2, <1>1, DockerStopStartsNothing DEF SweepStopFails, SweepHasUser
      <3> QED
        BY <2>1, <2>5, <3>1, <3>2, <1>1 DEF Failure, CommitFails, SweepCommitFails, Restart
    <2>6. CASE Environment \/ UNCHANGED vars
      BY <2>6, <1>1 DEF Environment, Arrive, AdminCreate, BecomeIdle, vars
    <2> QED
      BY <2>1, <2>2, <2>3, <2>4, <2>5, <2>6, <1>1 DEF Next
  <1>2. SessionInv /\ [Next]_vars => [\A u \in Users : Starts(u) => Starter(u)]_vars
    BY <1>1
  <1> QED
    BY <1>2, SessionInvariant, PTL DEF Spec, StartsOnlyUnderLock

\* A deleted row is never written again: every statement that could finds no row.
THEOREM DeletedRowsStay == Spec => DeletedStays
  <1> DEFINE Stays(u) == row[u] = "deleted" => row'[u] = "deleted"
  <1>1. ASSUME SessionInv, [Next]_vars, NEW u \in Users PROVE Stays(u)
    <2> USE <1>1 DEF SessionInv
    <2>1. ASSUME NEW t \in Tasks, Writable(t), row' \in {row, Written(t)} PROVE Stays(u)
      BY <2>1 DEF Writable, Written, Deletes, Status, AppTypeOK
    <2>2. ASSUME NEW t \in Tasks, HandlerStep(t) PROVE Stays(u)
      BY <2>1, <2>2 DEF HandlerStep, Answer, TurnAway, Refresh, AdminUpdate, ClerkCreate,
                        RetireInactive, Write, WriteRefused, Return
    <2>3. ASSUME NEW t \in Tasks, SectionStep(t) PROVE Stays(u)
      BY <2>3 DEF SectionStep, CallAndEnter, CallAndWait, WakeAndEnter, NothingToDo, SpinUp,
                  SpinDown, FinishSection
    <2>4. ASSUME row' \in {row, [row EXCEPT ![sweepUser] = sweepSeen]},
                 row[sweepUser] \in Status
          PROVE  Stays(u)
      BY <2>4 DEF Status, AppTypeOK
    <2>5. CASE SweepStep
      BY <2>4, <2>5 DEF SweepStep, SweepWakes, SweepPicks, SweepAnswer, SweepSkips, SweepStops,
                        SweepWrite, SweepWriteRefused, SweepForgets
    <2>6. CASE Failure
      BY <2>1, <2>4, <2>6 DEF Failure, CommitFails, SpinUpFails, SpinDownFails, SweepStopFails,
                              SweepCommitFails, Restart
    <2>7. CASE Environment \/ UNCHANGED vars
      BY <2>7 DEF Environment, Arrive, AdminCreate, BecomeIdle, vars
    <2> QED
      BY <2>2, <2>3, <2>5, <2>6, <2>7 DEF Next
  <1>2. SessionInv /\ [Next]_vars => [\A u \in Users : Stays(u)]_vars
    BY <1>1
  <1> QED
    BY <1>2, SessionInvariant, PTL DEF Spec, DeletedStays

-----------------------------------------------------------------------------
(* What sections achieve, if nothing else writes users.status *)

\* The condition: no administrator sets the status, nobody is deleted, as the database
\* refuses an administrator's attempts, and no user becomes idle, so that the sweep finds
\* nobody.
OnlyLockedWriters ==
    /\ Events \cap {"admin_update", "clerk_deleted", "idle"} = {}
    /\ "admin_delete" \in Events => KeysEnforced

LockedOps == EnsureOps \cup {"spin_down", "admin_spin_down", "admin_delete"}

\* Then the row is written by INSERTs and by the locked sections.
WritersAreLocked ==
    /\ sweepPc = "asleep"
    /\ \A u \in Users : activity[u] # "stale"
    /\ \A t \in Tasks :
         /\ pc[t] = "idle" => seen[t] = "unread"
         /\ pc[t] # "idle" => op[t] \in LockedOps \cup InsertOps \cup {"refresh"}
         /\ pc[t] \in LockedPcs \cup {"waiting", "spawned"} => op[t] \in LockedOps
         /\ op[t] = "admin_delete" => KeysEnforced
         /\ pc[t] = "commit" /\ op[t] # "admin_delete" => op[t] \in InsertOps /\ seen[t] = "active"
         /\ pc[t] = "committed" => op[t] \in InsertOps /\ seen[t] = "active"

\* A row, once there, stays, so a task that has loaded a User finds the row again.
RowsRemain ==
    /\ \A u \in Users : row[u] # "deleted"
    /\ \A t \in Tasks :
         pc[t] # "idle" /\ op[t] \notin InsertOps /\ seen[t] \in Status
           => row[subject[t]] \in Status

\* What a section has done when it reaches its commit, and after it.
Prepared(t) ==
    IF op[t] \in EnsureOps
    THEN seen[t] = "active" /\ container[subject[t]] = "running"
    ELSE seen[t] = "pending" /\ container[subject[t]] # "running"

Effected(t) ==
    IF op[t] \in EnsureOps
    THEN row[subject[t]] = "active" /\ container[subject[t]] = "running"
    ELSE row[subject[t]] = "pending" /\ container[subject[t]] # "running"

SectionsPrepare ==
    \A t \in Tasks : /\ pc[t] = "lockedCommit" => Prepared(t)
                     /\ pc[t] = "lockedCommitted" => Effected(t)

\* Row and container agree except between the start or stop and its commit, as
\* long as no call fails and the process runs on.
Agree(u) == /\ container[u] = "running" => row[u] = "active"
            /\ container[u] = "exited" => row[u] = "pending"

RowsAgree ==
    faults = 0 /\ restarts = 0 =>
      \A u \in Users :
        /\ row[u] = "none" => container[u] = "missing"
        /\ (\A t \in Tasks : ~(pc[t] = "lockedCommit" /\ subject[t] = u)) => Agree(u)

\* Running containers, and those about to be started, have a session entry.
SessionsTracked ==
    restarts = 0 =>
      /\ \A u \in Users : container[u] = "running" => activity[u] # "none"
      /\ \A t \in Tasks : InSection(t) /\ op[t] \in EnsureOps => activity[subject[t]] # "none"

EffectInv == /\ WritersAreLocked
             /\ RowsRemain
             /\ SectionsPrepare
             /\ RowsAgree
             /\ SessionsTracked

\* Nothing has happened yet.
LEMMA EffectInvInit == Init => EffectInv
  BY DEF Init, EffectInv, WritersAreLocked, RowsRemain, SectionsPrepare, RowsAgree, Agree,
         SessionsTracked, InSection, LockedPcs

\* Other writers are neither admitted by the events nor woken.
LEMMA WritersStayLocked ==
  ASSUME OnlyLockedWriters, SessionInv, WritersAreLocked, [Next]_vars
  PROVE  WritersAreLocked'
  <1> USE DEF WritersAreLocked, SessionInv, AppTypeOK, LockedOps, EnsureOps, SpinDownOps,
              InsertOps, LockedPcs, Goto, Set
  <1>1. ASSUME NEW t \in Tasks, HandlerStep(t) PROVE WritersAreLocked'
    <2>1. CASE Answer(t)
      BY <2>1 DEF Answer, sweepVars
    <2>2. CASE TurnAway(t) \/ Refresh(t)
      BY <2>2 DEF TurnAway, Refresh, Finish, sweepVars
    <2>3. CASE AdminUpdate(t) \/ ClerkCreate(t) \/ RetireInactive(t)
      <3>1. CASE AdminUpdate(t)
        BY <2>3, <3>1 DEF AdminUpdate, Finish, sweepVars
      <3>2. CASE ClerkCreate(t)
        BY <3>2 DEF ClerkCreate, sweepVars
      <3>3. CASE RetireInactive(t)
        BY <3>3 DEF RetireInactive, Retire, sweepVars
      <3> QED
        BY <2>3, <3>1, <3>2, <3>3
    <2>4. CASE Write(t)
      BY <2>4 DEF Write, Writable, Deletes, sweepVars
    <2>5. CASE WriteRefused(t)
      BY <2>5 DEF WriteRefused, Raise, Finish, sweepVars
    <2>6. CASE Return(t)
      BY <2>6 DEF Return, Finish, sweepVars
    <2> QED
      BY <1>1, <2>1, <2>2, <2>3, <2>4, <2>5, <2>6 DEF HandlerStep
  <1>2. ASSUME NEW t \in Tasks, SectionStep(t) PROVE WritersAreLocked'
    <2>1. CASE CallAndEnter(t) \/ CallAndWait(t) \/ WakeAndEnter(t)
      BY <2>1 DEF CallAndEnter, CallAndWait, WakeAndEnter, Calls, EnterSection, sweepVars
    <2>2. CASE NothingToDo(t) \/ FinishSection(t)
      <3>1. op[t] \in LockedOps /\ pc[t] \in LockedPcs /\ LeaveSection(t) /\ UNCHANGED sweepVars
        BY <2>2 DEF NothingToDo, FinishSection
      <3>2. \A u \in Users : activity'[u] # "stale"
        BY <2>2 DEF NothingToDo, FinishSection
      <3> QED
        BY <3>1, <3>2 DEF LeaveSection, Retire, Finish, sweepVars
    <2>3. CASE SpinUp(t) \/ SpinDown(t)
      BY <2>3 DEF SpinUp, SpinDown, sweepVars
    <2> QED
      BY <1>2, <2>1, <2>2, <2>3 DEF SectionStep
  <1>3. CASE SweepStep
    BY <1>3 DEF SweepStep, SweepWakes, SweepPicks, SweepAnswer, SweepSkips, SweepStops,
                SweepWrite, SweepWriteRefused, SweepForgets
  <1>4. CASE Failure
    <2>1. ASSUME NEW t \in Tasks, CommitFails(t) PROVE WritersAreLocked'
      BY <2>1 DEF CommitFails, Raise, Finish, sweepVars
    <2>2. ASSUME NEW t \in Tasks, SpinUpFails(t) \/ SpinDownFails(t) PROVE WritersAreLocked'
      <3>1. op[t] \in LockedOps /\ LeaveSection(t) /\ UNCHANGED <<activity, sweepVars>>
        BY <2>2 DEF SpinUpFails, SpinDownFails
      <3> QED
        BY <3>1 DEF LeaveSection, Retire, Finish, sweepVars
    <2>3. CASE Restart
      BY <2>3 DEF Restart
    <2> QED
      BY <1>4, <2>1, <2>2, <2>3 DEF Failure, SweepStopFails, SweepCommitFails
  <1>5. CASE Environment
    BY <1>5 DEF Environment, Arrive, AdminCreate, BecomeIdle, OnlyLockedWriters, Requests,
                sweepVars
  <1>6. CASE UNCHANGED vars
    BY <1>6 DEF vars, taskVars, sweepVars
  <1> QED
    BY <1>1, <1>2, <1>3, <1>4, <1>5, <1>6 DEF Next

\* The row changes by the commits of tasks, which write the status of their User.
LEMMA OnlyCommitsWrite ==
  ASSUME SessionInv, WritersAreLocked, [Next]_vars
  PROVE  \/ UNCHANGED row
         \/ \E t \in Tasks :
              /\ pc[t] \in {"commit", "lockedCommit"}
              /\ pc'[t] # pc[t]
              /\ pc[t] = "commit" => op[t] \in InsertOps
              /\ op[t] \in InsertOps => row[subject[t]] = "none"
              /\ seen[t] \in Status
              /\ \A u \in Users : row'[u] = IF u = subject[t] THEN seen[t] ELSE row[u]
  <1> USE DEF SessionInv, WritersAreLocked
  <1>1. ASSUME NEW t \in Tasks, Write(t) \/ CommitFails(t)
        PROVE  /\ pc[t] \in {"commit", "lockedCommit"}
               /\ pc'[t] # pc[t]
               /\ pc[t] = "commit" => op[t] \in InsertOps
               /\ op[t] \in InsertOps => row[subject[t]] = "none"
               /\ seen[t] \in Status
               /\ \/ UNCHANGED row
                  \/ \A u \in Users : row'[u] = IF u = subject[t] THEN seen[t] ELSE row[u]
    BY <1>1 DEF AppTypeOK, Write, CommitFails, Writable, Written, Deletes, Raise, Finish, Goto,
                TasksHaveSubjects, InsertOps, Status
  <1>2. CASE \E t \in Tasks : Write(t) \/ CommitFails(t)
    BY <1>1, <1>2
  <1>3. CASE ~\E t \in Tasks : Write(t) \/ CommitFails(t)
    <2>1. ASSUME NEW t \in Tasks, SectionStep(t) \/ HandlerStep(t) PROVE UNCHANGED row
      BY <1>3, <2>1
      DEF SectionStep, HandlerStep, CallAndEnter, CallAndWait, WakeAndEnter, NothingToDo,
          SpinUp, SpinDown, FinishSection, Answer, TurnAway, Refresh, AdminUpdate,
          ClerkCreate, RetireInactive, WriteRefused, Return
    <2>2. CASE SweepStep
      BY <2>2 DEF SweepStep, SweepWakes, SweepPicks, SweepAnswer, SweepSkips, SweepStops,
                  SweepWrite, SweepWriteRefused, SweepForgets
    <2>3. CASE Failure
      BY <1>3, <2>3 DEF Failure, SpinUpFails, SpinDownFails, SweepStopFails,
                        SweepCommitFails, Restart
    <2>4. CASE Environment \/ UNCHANGED vars
      BY <2>4 DEF Environment, Arrive, AdminCreate, BecomeIdle, vars
    <2> QED
      BY <2>1, <2>2, <2>3, <2>4 DEF Next
  <1> QED
    BY <1>2, <1>3

\* No row disappears.
LEMMA RowsKeepExisting ==
  ASSUME SessionInv, WritersAreLocked, [Next]_vars, NEW u \in Users
  PROVE  /\ row[u] \in Status => row'[u] \in Status
         /\ row[u] # "deleted" => row'[u] # "deleted"
  <1>1. CASE UNCHANGED row
    BY <1>1
  <1>2. CASE ~UNCHANGED row
    <2>1. PICK t \in Tasks : /\ seen[t] \in Status
                             /\ row'[u] = IF u = subject[t] THEN seen[t] ELSE row[u]
      BY <1>2, OnlyCommitsWrite
    <2> QED
      BY <2>1 DEF Status
  <1> QED
    BY <1>1, <1>2

\* A task that has loaded a User finds the row again, whatever step comes next.
LEMMA RowsStillRemain ==
  ASSUME SessionInv, WritersAreLocked, RowsRemain, [Next]_vars
  PROVE  RowsRemain'
  <1> USE DEF SessionInv, RowsRemain
  <1> DEFINE Loaded(t) == pc[t] # "idle" /\ op[t] \notin InsertOps /\ seen[t] \in Status
  <1>1. \A u \in Users : row'[u] # "deleted"
    BY RowsKeepExisting
  <1>2. ASSUME NEW t \in Tasks, Loaded(t), subject'[t] = subject[t]
        PROVE  row'[subject[t]] \in Status
    BY <1>2, RowsKeepExisting DEF TasksHaveSubjects
  <1>3. ASSUME NEW t \in Tasks, Loaded(t)', ~(Loaded(t) /\ subject'[t] = subject[t])
        PROVE  row'[subject'[t]] \in Status
    <2> USE <1>3 DEF AppTypeOK, Goto, Set, Status
    <2>1. ASSUME NEW s \in Tasks, HandlerStep(s) PROVE row'[subject'[t]] \in Status
      <3>1. CASE Answer(s)
        BY <3>1 DEF Answer, Load
      <3>2. CASE TurnAway(s) \/ Refresh(s) \/ AdminUpdate(s)
        BY <3>2 DEF TurnAway, Refresh, AdminUpdate, Finish, WritersAreLocked, LockedOps,
                    EnsureOps, InsertOps
      <3>3. CASE ClerkCreate(s) \/ RetireInactive(s) \/ Return(s)
        BY <3>3 DEF ClerkCreate, RetireInactive, Retire, Return, Finish, WritersAreLocked,
                    LockedOps, EnsureOps, InsertOps
      <3>4. CASE Write(s) \/ WriteRefused(s)
        BY <3>4 DEF Write, WriteRefused, Raise, Finish
      <3> QED
        BY <2>1, <3>1, <3>2, <3>3, <3>4 DEF HandlerStep
    <2>2. ASSUME NEW s \in Tasks, SectionStep(s) PROVE row'[subject'[t]] \in Status
      <3>1. CASE CallAndEnter(s) \/ CallAndWait(s) \/ WakeAndEnter(s)
        BY <3>1 DEF CallAndEnter, CallAndWait, WakeAndEnter, Calls, EnterSection
      <3>2. CASE NothingToDo(s) \/ FinishSection(s)
        BY <3>2 DEF NothingToDo, FinishSection, LeaveSection, Retire, Finish,
                    WritersAreLocked, LockedPcs, LockedOps, EnsureOps
      <3>3. CASE SpinUp(s) \/ SpinDown(s)
        BY <3>3 DEF SpinUp, SpinDown
      <3> QED
        BY <2>2, <3>1, <3>2, <3>3 DEF SectionStep
    <2>3. CASE SweepStep
      BY <2>3 DEF SweepStep, SweepWakes, WritersAreLocked, SweepPicks, SweepAnswer, SweepSkips,
                  SweepStops, SweepWrite, SweepWriteRefused, SweepForgets
    <2>4. CASE Failure
      <3>1. ASSUME NEW s \in Tasks, CommitFails(s) PROVE row'[subject'[t]] \in Status
        BY <3>1 DEF CommitFails, Raise, Finish
      <3>2. ASSUME NEW s \in Tasks, SpinUpFails(s) \/ SpinDownFails(s)
            PROVE  row'[subject'[t]] \in Status
        BY <3>2 DEF SpinUpFails, SpinDownFails, LeaveSection, Retire, Finish,
                    WritersAreLocked, LockedPcs, LockedOps, EnsureOps
      <3> QED
        BY <2>4, <3>1, <3>2 DEF Failure, Restart, SweepStopFails, SweepCommitFails,
                                WritersAreLocked
    <2>5. CASE Environment
      BY <2>5 DEF Environment, Arrive, AdminCreate, BecomeIdle, WritersAreLocked, taskVars,
                  InsertOps
    <2>6. CASE UNCHANGED vars
      BY <2>6 DEF vars, taskVars
    <2> QED
      BY <2>1, <2>2, <2>3, <2>4, <2>5, <2>6 DEF Next
  <1> QED
    BY <1>1, <1>2, <1>3

-----------------------------------------------------------------------------
(* Nobody interferes with an open section *)

\* A step moves one task at most, unless it is a restart.
LEMMA OneTaskMoves ==
  ASSUME SessionInv, [Next]_vars, ~Restart
  PROVE  \/ UNCHANGED taskVars
         \/ \E t \in Tasks :
              /\ pc'[t] # pc[t]
              /\ \A s \in Tasks \ {t} : /\ op'[s] = op[s]
                                       /\ pc'[s] = pc[s]
                                       /\ subject'[s] = subject[s]
                                       /\ seen'[s] = seen[s]
  <1> USE DEF SessionInv, AppTypeOK, Goto, Set
  <1> DEFINE Moves(t) == /\ pc'[t] # pc[t]
                         /\ \A s \in Tasks \ {t} : /\ op'[s] = op[s]
                                                  /\ pc'[s] = pc[s]
                                                  /\ subject'[s] = subject[s]
                                                  /\ seen'[s] = seen[s]
  <1>1. ASSUME NEW t \in Tasks, Finish(t), pc[t] # "idle" PROVE Moves(t)
    BY <1>1 DEF Finish
  <1>2. ASSUME NEW t \in Tasks, LeaveSection(t), pc[t] \in LockedPcs PROVE Moves(t)
    BY <1>2 DEF LeaveSection, Retire, Finish, LockedPcs
  <1>3. ASSUME NEW t \in Tasks, HandlerStep(t) PROVE Moves(t)
    <2>1. CASE Answer(t) \/ ClerkCreate(t) \/ RetireInactive(t) \/ Write(t)
      BY <2>1 DEF Answer, ClerkCreate, RetireInactive, Retire, Write
    <2>2. CASE TurnAway(t) \/ Refresh(t) \/ AdminUpdate(t) \/ WriteRefused(t) \/ Return(t)
      BY <1>1, <2>2 DEF TurnAway, Refresh, AdminUpdate, WriteRefused, Raise, Return
    <2> QED
      BY <1>3, <2>1, <2>2 DEF HandlerStep
  <1>4. ASSUME NEW t \in Tasks, SectionStep(t) PROVE Moves(t)
    <2>1. CASE CallAndEnter(t) \/ CallAndWait(t) \/ WakeAndEnter(t)
      BY <2>1 DEF CallAndEnter, CallAndWait, WakeAndEnter, Calls, EnterSection
    <2>2. CASE NothingToDo(t) \/ FinishSection(t)
      BY <1>2, <2>2 DEF NothingToDo, FinishSection, LockedPcs
    <2>3. CASE SpinUp(t) \/ SpinDown(t)
      BY <2>3 DEF SpinUp, SpinDown
    <2> QED
      BY <1>4, <2>1, <2>2, <2>3 DEF SectionStep
  <1>5. CASE SweepStep
    BY <1>5 DEF SweepStep, SweepWakes, SweepPicks, SweepAnswer, SweepSkips, SweepStops,
                SweepWrite, SweepWriteRefused, SweepForgets
  <1>6. CASE Failure
    <2>1. ASSUME NEW t \in Tasks, CommitFails(t) \/ SpinUpFails(t) \/ SpinDownFails(t)
          PROVE  Moves(t)
      BY <1>1, <1>2, <2>1 DEF CommitFails, Raise, SpinUpFails, SpinDownFails, LockedPcs
    <2> QED
      BY <1>6, <2>1 DEF Failure, SweepStopFails, SweepCommitFails
  <1>7. CASE Environment
    BY <1>7 DEF Environment, Arrive, AdminCreate, BecomeIdle
  <1>8. CASE UNCHANGED vars
    BY <1>8 DEF vars
  <1> QED
    BY <1>3, <1>4, <1>5, <1>6, <1>7, <1>8 DEF Next

\* Whoever changes a container, or drops a session entry, is inside the section of
\* its user.
LEMMA OnlySectionsTouch ==
  ASSUME SessionInv, WritersAreLocked, WritersAreLocked', [Next]_vars, ~Restart
  PROVE  \/ /\ UNCHANGED container
            /\ \A u \in Users : activity'[u] \in {activity[u], "fresh"}
         \/ \E t \in Tasks :
              /\ InSection(t)
              /\ pc'[t] # pc[t]
              /\ \A u \in Users \ {subject[t]} : /\ container'[u] = container[u]
                                                /\ activity'[u] = activity[u]
  <1> USE DEF SessionInv, AppTypeOK
  <1> DEFINE Untouched == /\ UNCHANGED container
                          /\ \A u \in Users : activity'[u] \in {activity[u], "fresh"}
             Within(t) == /\ InSection(t)
                          /\ pc'[t] # pc[t]
                          /\ \A u \in Users \ {subject[t]} : /\ container'[u] = container[u]
                                                            /\ activity'[u] = activity[u]
  <1>1. ASSUME NEW t \in Tasks, HandlerStep(t) PROVE Untouched
    BY <1>1 DEF HandlerStep, Answer, TurnAway, Refresh, AdminUpdate, ClerkCreate,
                RetireInactive, Write, WriteRefused, Return
  <1>2. ASSUME NEW t \in Tasks, CallAndEnter(t) \/ CallAndWait(t) \/ WakeAndEnter(t)
        PROVE  Untouched
    BY <1>2 DEF CallAndEnter, CallAndWait, WakeAndEnter, EnterSection
  <1>3. ASSUME NEW t \in Tasks, SpinUp(t) \/ SpinDown(t) PROVE Within(t)
    BY <1>3 DEF SpinUp, SpinDown, DockerStart, DockerStop, InSection, LockedPcs, Goto
  <1>4. ASSUME NEW t \in Tasks, NothingToDo(t) \/ FinishSection(t) PROVE Within(t)
    BY <1>4 DEF NothingToDo, FinishSection, LeaveSection, Retire, Finish, InSection,
                LockedPcs, Goto
  <1>5. ASSUME NEW t \in Tasks, SpinUpFails(t) \/ SpinDownFails(t) PROVE Within(t)
    BY <1>5 DEF SpinUpFails, SpinDownFails, DockerStartRaises, DockerStopRaises, LeaveSection,
                Retire, Finish, InSection, LockedPcs, Goto
  <1>6. ASSUME NEW t \in Tasks, CommitFails(t) PROVE Untouched
    BY <1>6 DEF CommitFails
  <1>7. CASE SweepStep \/ SweepStopFails \/ SweepCommitFails
    BY <1>7 DEF SweepStep, SweepWakes, WritersAreLocked, SweepPicks, SweepAnswer, SweepSkips,
                SweepStops, SweepWrite, SweepWriteRefused, SweepForgets, SweepStopFails,
                SweepCommitFails
  <1>8. CASE Environment
    <2>1. ASSUME NEW u \in Users, BecomeIdle(u) PROVE FALSE
      BY <2>1 DEF BecomeIdle, WritersAreLocked
    <2> QED
      BY <1>8, <2>1 DEF Environment, Arrive, AdminCreate
  <1>9. CASE UNCHANGED vars
    BY <1>9 DEF vars
  <1> QED
    BY <1>1, <1>2, <1>3, <1>4, <1>5, <1>6, <1>7, <1>8, <1>9
    DEF Next, SectionStep, Failure

\* A task that waits for its commit, or for the answer to it, finds container, row
\* and User as it left them: the next step is another task's, outside the section.
LEMMA SectionUndisturbed ==
  ASSUME SessionInv, WritersAreLocked, WritersAreLocked', [Next]_vars, NEW t \in Tasks,
         pc[t] \in {"lockedCommit", "lockedCommitted"}, pc'[t] = pc[t]
  PROVE  /\ container'[subject[t]] = container[subject[t]]
         /\ row[subject[t]] \in Status => row'[subject[t]] = row[subject[t]]
         /\ op'[t] = op[t] /\ subject'[t] = subject[t] /\ seen'[t] = seen[t]
  <1> USE DEF SessionInv, AppTypeOK
  <1>1. InSection(t) /\ subject[t] \in Users /\ ~Restart
    BY DEF InSection, LockedPcs, TasksHaveSubjects, Restart
  <1>2. container'[subject[t]] = container[subject[t]]
    <2>1. ASSUME NEW s \in Tasks, InSection(s), pc'[s] # pc[s],
                 \A u \in Users \ {subject[s]} : container'[u] = container[u]
          PROVE  container'[subject[t]] = container[subject[t]]
      BY <1>1, <2>1, SessionInvExcludes DEF OneTaskPerSection
    <2> QED
      BY <1>1, <2>1, OnlySectionsTouch
  <1>3. row[subject[t]] \in Status => row'[subject[t]] = row[subject[t]]
    <2> SUFFICES ASSUME row[subject[t]] \in Status, ~UNCHANGED row
                 PROVE  row'[subject[t]] = row[subject[t]]
      OBVIOUS
    <2>1. PICK s \in Tasks :
            /\ pc[s] \in {"commit", "lockedCommit"}
            /\ pc'[s] # pc[s]
            /\ pc[s] = "commit" => op[s] \in InsertOps
            /\ op[s] \in InsertOps => row[subject[s]] = "none"
            /\ \A u \in Users : row'[u] = IF u = subject[s] THEN seen[s] ELSE row[u]
      BY OnlyCommitsWrite
    <2>2. CASE pc[s] = "commit"
      <3>1. row[subject[s]] = "none"
        BY <2>1, <2>2 DEF WritersAreLocked
      <3> QED
        BY <1>1, <2>1, <3>1 DEF Status
    <2>3. CASE pc[s] = "lockedCommit"
      <3>1. subject[s] # subject[t]
        BY <1>1, <2>1, <2>3, SessionInvExcludes DEF OneTaskPerSection, InSection, LockedPcs
      <3> QED
        BY <1>1, <2>1, <3>1
    <2> QED
      BY <2>1, <2>2, <2>3
  <1>4. op'[t] = op[t] /\ subject'[t] = subject[t] /\ seen'[t] = seen[t]
    BY <1>1, OneTaskMoves DEF taskVars
  <1> QED
    BY <1>2, <1>3, <1>4

\* The commit of a section is reached by the start or the stop of the container, and
\* passed by the write.
LEMMA SectionProgress ==
  ASSUME SessionInv, [Next]_vars, NEW t \in Tasks, pc'[t] # pc[t]
  PROVE  /\ pc'[t] = "lockedCommit" => SpinUp(t) \/ SpinDown(t)
         /\ pc'[t] = "lockedCommitted" => Write(t) /\ pc[t] = "lockedCommit"
  <1> SUFFICES ASSUME pc'[t] \in {"lockedCommit", "lockedCommitted"}
               PROVE  \/ pc'[t] = "lockedCommit" /\ (SpinUp(t) \/ SpinDown(t))
                      \/ Write(t) /\ pc[t] = "lockedCommit"
    BY DEF SpinUp, SpinDown, Write, Goto, SessionInv, AppTypeOK
  <1> USE DEF SessionInv, AppTypeOK, Goto
  <1> DEFINE Goal == \/ pc'[t] = "lockedCommit" /\ (SpinUp(t) \/ SpinDown(t))
                     \/ Write(t) /\ pc[t] = "lockedCommit"
  <1>1. ASSUME NEW s \in Tasks, Finish(s) PROVE FALSE
    BY <1>1 DEF Finish
  <1>2. ASSUME NEW s \in Tasks, LeaveSection(s) PROVE FALSE
    BY <1>1, <1>2 DEF LeaveSection, Retire
  <1>3. ASSUME NEW s \in Tasks, HandlerStep(s) PROVE Goal
    <2>1. CASE Answer(s) \/ ClerkCreate(s) \/ RetireInactive(s)
      BY <2>1 DEF Answer, ClerkCreate, RetireInactive, Retire
    <2>2. CASE TurnAway(s) \/ Refresh(s) \/ AdminUpdate(s) \/ WriteRefused(s) \/ Return(s)
      BY <1>1, <2>2 DEF TurnAway, Refresh, AdminUpdate, WriteRefused, Raise, Return
    <2>3. CASE Write(s)
      <3>1. s = t /\ pc[s] = "lockedCommit"
        BY <2>3 DEF Write
      <3> QED
        BY <2>3, <3>1
    <2> QED
      BY <1>3, <2>1, <2>2, <2>3 DEF HandlerStep
  <1>4. ASSUME NEW s \in Tasks, SectionStep(s) PROVE Goal
    <2>1. CASE CallAndEnter(s) \/ CallAndWait(s) \/ WakeAndEnter(s)
      BY <2>1 DEF CallAndEnter, CallAndWait, WakeAndEnter, EnterSection
    <2>2. CASE NothingToDo(s) \/ FinishSection(s)
      BY <1>2, <2>2 DEF NothingToDo, FinishSection
    <2>3. CASE SpinUp(s) \/ SpinDown(s)
      <3>1. s = t /\ pc'[t] = "lockedCommit"
        BY <2>3 DEF SpinUp, SpinDown
      <3> QED
        BY <2>3, <3>1
    <2> QED
      BY <1>4, <2>1, <2>2, <2>3 DEF SectionStep
  <1>5. CASE SweepStep
    BY <1>5 DEF SweepStep, SweepWakes, SweepPicks, SweepAnswer, SweepSkips, SweepStops,
                SweepWrite, SweepWriteRefused, SweepForgets, taskVars
  <1>6. CASE Failure
    <2>1. ASSUME NEW s \in Tasks, CommitFails(s) \/ SpinUpFails(s) \/ SpinDownFails(s)
          PROVE  FALSE
      BY <1>1, <1>2, <2>1 DEF CommitFails, Raise, SpinUpFails, SpinDownFails
    <2> QED
      BY <1>6, <2>1 DEF Failure, SweepStopFails, SweepCommitFails, Restart, taskVars
  <1>7. CASE Environment \/ UNCHANGED vars
    BY <1>7 DEF Environment, Arrive, AdminCreate, BecomeIdle, taskVars, vars
  <1> QED
    BY <1>3, <1>4, <1>5, <1>6, <1>7 DEF Next

\* A section that reaches its commit has prepared it, and one that passed it is in effect.
LEMMA SectionsStillPrepare ==
  ASSUME SessionInv, WritersAreLocked, WritersAreLocked', SectionsPrepare, [Next]_vars
  PROVE  SectionsPrepare'
  <1> SUFFICES ASSUME NEW t \in Tasks
               PROVE  /\ pc'[t] = "lockedCommit" => Prepared(t)'
                      /\ pc'[t] = "lockedCommitted" => Effected(t)'
    BY DEF SectionsPrepare
  <1> USE DEF Prepared, Effected
  <1>1. CASE pc'[t] = pc[t]
    BY <1>1, SectionUndisturbed DEF SectionsPrepare, Status
  <1>2. CASE pc'[t] # pc[t]
    <2> USE DEF SessionInv, AppTypeOK, TasksHaveSubjects, EnsureOps, SpinDownOps, Set
    <2>1. ASSUME SpinUp(t) PROVE Prepared(t)'
      BY <2>1 DEF SpinUp, DockerStart
    <2>2. ASSUME SpinDown(t) PROVE Prepared(t)'
      BY <2>2 DEF SpinDown, DockerStop
    <2>3. ASSUME Write(t), pc[t] = "lockedCommit" PROVE Effected(t)'
      BY <2>3 DEF Write, Written, Deletes, SectionsPrepare
    <2> QED
      BY <1>2, <2>1, <2>2, <2>3, SectionProgress
  <1> QED
    BY <1>1, <1>2

\* Failures and restarts are counted.
LEMMA FailuresCount ==
  ASSUME SessionInv, [Next]_vars, restarts' = 0
  PROVE  /\ restarts = 0 /\ ~Restart
         /\ faults' = 0 => faults = 0 /\ ~Failure
  <1> USE SessionManagerAssumption DEF SessionInv, AppTypeOK, bounds
  <1>1. ~Restart
    BY DEF Restart
  <1>2. ASSUME Failure PROVE restarts' = restarts /\ faults' # 0
    BY <1>1, <1>2 DEF Failure, Fault, CommitFails, SpinUpFails, SpinDownFails,
                      SweepStopFails, SweepCommitFails
  <1>3. CASE ~Failure
    <2>1. ASSUME NEW t \in Tasks, SectionStep(t) \/ HandlerStep(t) PROVE faults' = faults /\ restarts' = restarts
      BY <2>1
      DEF SectionStep, HandlerStep, CallAndEnter, CallAndWait, WakeAndEnter, NothingToDo,
          SpinUp, SpinDown, FinishSection, Answer, TurnAway, Refresh, AdminUpdate,
          ClerkCreate, RetireInactive, Write, WriteRefused, Return
    <2>2. ASSUME SweepStep PROVE faults' = faults /\ restarts' = restarts
      BY <2>2 DEF SweepStep, SweepWakes, SweepPicks, SweepAnswer, SweepSkips, SweepStops,
                  SweepWrite, SweepWriteRefused, SweepForgets
    <2>3. ASSUME Environment \/ UNCHANGED vars PROVE faults' = faults /\ restarts' = restarts
      BY <2>3 DEF Environment, Arrive, AdminCreate, BecomeIdle, vars
    <2>4. faults' = faults /\ restarts' = restarts
      BY <1>3, <2>1, <2>2, <2>3 DEF Next
    <2> QED
      BY <1>1, <1>3, <2>4
  <1> QED
    BY <1>1, <1>2, <1>3

\* Row and container part and meet again under the lock.
LEMMA RowsStillAgree ==
  ASSUME SessionInv, WritersAreLocked, WritersAreLocked', RowsRemain, SectionsPrepare,
         RowsAgree, [Next]_vars
  PROVE  RowsAgree'
  <1> SUFFICES ASSUME faults' = 0, restarts' = 0, NEW u \in Users
               PROVE  /\ row'[u] = "none" => container'[u] = "missing"
                      /\ (\A t \in Tasks : ~(pc'[t] = "lockedCommit" /\ subject'[t] = u))
                           => Agree(u)'
    BY DEF RowsAgree
  <1> DEFINE Busy == \E t \in Tasks : pc[t] = "lockedCommit" /\ subject[t] = u
             Goal == /\ row'[u] = "none" => container'[u] = "missing"
                     /\ (\A t \in Tasks : ~(pc'[t] = "lockedCommit" /\ subject'[t] = u))
                          => Agree(u)'
  <1> USE DEF Agree, SessionInv, AppTypeOK, TasksHaveSubjects, Goto
  <1>1. /\ ~Failure
        /\ row[u] = "none" => container[u] = "missing"
        /\ ~Busy => Agree(u)
    BY FailuresCount DEF RowsAgree
  <1>2. ASSUME UNCHANGED <<row, container>>,
               \A t \in Tasks : pc[t] = "lockedCommit" =>
                 pc'[t] = "lockedCommit" /\ subject'[t] = subject[t]
        PROVE  Goal
    BY <1>1, <1>2
  <1>3. ASSUME NEW t \in Tasks, SectionStep(t) PROVE Goal
    <2>1. CASE CallAndEnter(t) \/ CallAndWait(t) \/ WakeAndEnter(t)
      BY <1>2, <2>1 DEF CallAndEnter, CallAndWait, WakeAndEnter, Calls, EnterSection
    <2>2. CASE NothingToDo(t) \/ FinishSection(t)
      BY <1>2, <2>2 DEF NothingToDo, FinishSection, LeaveSection, Retire, Finish
    <2>3. CASE SpinUp(t) \/ SpinDown(t)
      <3>1. /\ row' = row
            /\ \A v \in Users \ {subject[t]} : container'[v] = container[v]
            /\ pc' = [pc EXCEPT ![t] = "lockedCommit"]
            /\ subject' = subject
            /\ pc[t] = "lockedSelected"
        BY <2>3 DEF SpinUp, SpinDown, DockerStart, DockerStop
      <3>2. row[subject[t]] \in Status
        BY <2>3 DEF SpinUp, SpinDown, RowsRemain, EnsureOps, SpinDownOps, InsertOps, Status
      <3>3. CASE u = subject[t]
        BY <3>1, <3>2, <3>3 DEF Status
      <3>4. CASE u # subject[t]
        BY <1>1, <3>1, <3>4
      <3> QED
        BY <3>3, <3>4
    <2> QED
      BY <1>3, <2>1, <2>2, <2>3 DEF SectionStep
  <1>4. ASSUME NEW t \in Tasks, HandlerStep(t) PROVE Goal
    <2>1. CASE Answer(t) \/ ClerkCreate(t) \/ RetireInactive(t)
      BY <1>2, <2>1 DEF Answer, ClerkCreate, RetireInactive, Retire
    <2>2. CASE TurnAway(t) \/ Refresh(t) \/ AdminUpdate(t) \/ Return(t)
      BY <1>2, <2>2 DEF TurnAway, Refresh, AdminUpdate, Return, Finish
    <2>3. CASE Write(t)
      <3>1. /\ container' = container
            /\ pc' = [pc EXCEPT ![t] = IF pc[t] = "commit" THEN "committed"
                                                          ELSE "lockedCommitted"]
            /\ subject' = subject
            /\ row'[subject[t]] = seen[t]
            /\ \A v \in Users \ {subject[t]} : row'[v] = row[v]
        BY <2>3 DEF Write, Written, Deletes, WritersAreLocked, InsertOps
      <3>2. CASE u # subject[t]
        BY <1>1, <3>1, <3>2
      <3>3. CASE u = subject[t] /\ pc[t] = "lockedCommit"
        BY <2>3, <3>1, <3>3 DEF SectionsPrepare, Prepared
      <3>4. CASE u = subject[t] /\ pc[t] = "commit"
        BY <1>1, <2>3, <3>1, <3>4 DEF Write, Writable, WritersAreLocked
      <3> QED
        BY <2>3, <3>2, <3>3, <3>4 DEF Write
    <2>4. CASE WriteRefused(t)
      <3>1. pc[t] = "commit"
        BY <2>4 DEF WriteRefused, Writable, Deletes, RowsRemain, WritersAreLocked, LockedPcs,
                    LockedOps, EnsureOps, InsertOps
      <3> QED
        BY <1>2, <2>4, <3>1 DEF WriteRefused, Raise, Finish
    <2> QED
      BY <1>4, <2>1, <2>2, <2>3, <2>4 DEF HandlerStep
  <1>5. CASE SweepStep
    BY <1>2, <1>5 DEF SweepStep, SweepWakes, SweepPicks, SweepAnswer, SweepSkips, SweepStops,
                      SweepWrite, SweepWriteRefused, SweepForgets, taskVars, WritersAreLocked
  <1>6. CASE Environment \/ UNCHANGED vars
    BY <1>2, <1>6 DEF Environment, Arrive, AdminCreate, BecomeIdle, taskVars, vars
  <1> QED
    BY <1>1, <1>3, <1>4, <1>5, <1>6 DEF Next

\* A task in a section that moved has just entered it, recording activity if it is to
\* start the container, or goes on inside, leaving the session entries alone.
LEMMA SectionEntry ==
  ASSUME SessionInv, [Next]_vars, ~Restart, NEW t \in Tasks, InSection(t)', pc'[t] # pc[t]
  PROVE  /\ op'[t] = op[t] /\ subject'[t] = subject[t]
         /\ \/ InSection(t) /\ UNCHANGED activity
            \/ op[t] \in EnsureOps => activity'[subject[t]] = "fresh"
  <1> USE DEF SessionInv, AppTypeOK, TasksHaveSubjects, Goto, InSection, LockedPcs
  <1> DEFINE Goal == /\ op'[t] = op[t] /\ subject'[t] = subject[t]
                     /\ \/ InSection(t) /\ UNCHANGED activity
                        \/ op[t] \in EnsureOps => activity'[subject[t]] = "fresh"
  <1>1. ASSUME NEW s \in Tasks, Finish(s) PROVE FALSE
    BY <1>1 DEF Finish
  <1>2. ASSUME NEW s \in Tasks, LeaveSection(s) PROVE FALSE
    BY <1>1, <1>2 DEF LeaveSection, Retire
  <1>3. ASSUME NEW s \in Tasks, HandlerStep(s) PROVE Goal
    <2>1. CASE Answer(s) \/ Write(s)
      BY <2>1 DEF Answer, Write
    <2>2. CASE ClerkCreate(s) \/ RetireInactive(s)
      BY <2>2 DEF ClerkCreate, RetireInactive, Retire
    <2>3. CASE TurnAway(s) \/ Refresh(s) \/ AdminUpdate(s) \/ WriteRefused(s) \/ Return(s)
      BY <1>1, <2>3 DEF TurnAway, Refresh, AdminUpdate, WriteRefused, Raise, Return
    <2> QED
      BY <1>3, <2>1, <2>2, <2>3 DEF HandlerStep
  <1>4. ASSUME NEW s \in Tasks, SectionStep(s) PROVE Goal
    <2>1. CASE CallAndEnter(s) \/ CallAndWait(s) \/ WakeAndEnter(s)
      BY <2>1 DEF CallAndEnter, CallAndWait, WakeAndEnter, Calls, EnterSection
    <2>2. CASE NothingToDo(s) \/ FinishSection(s)
      BY <1>2, <2>2 DEF NothingToDo, FinishSection
    <2>3. CASE SpinUp(s) \/ SpinDown(s)
      BY <2>3 DEF SpinUp, SpinDown
    <2> QED
      BY <1>4, <2>1, <2>2, <2>3 DEF SectionStep
  <1>5. CASE SweepStep
    BY <1>5 DEF SweepStep, SweepWakes, SweepPicks, SweepAnswer, SweepSkips, SweepStops,
                SweepWrite, SweepWriteRefused, SweepForgets, taskVars
  <1>6. CASE Failure
    <2>1. ASSUME NEW s \in Tasks, CommitFails(s) \/ SpinUpFails(s) \/ SpinDownFails(s)
          PROVE  FALSE
      BY <1>1, <1>2, <2>1 DEF CommitFails, Raise, SpinUpFails, SpinDownFails
    <2> QED
      BY <1>6, <2>1 DEF Failure, SweepStopFails, SweepCommitFails, taskVars
  <1>7. CASE Environment \/ UNCHANGED vars
    BY <1>7 DEF Environment, Arrive, AdminCreate, BecomeIdle, taskVars, vars
  <1> QED
    BY <1>3, <1>4, <1>5, <1>6, <1>7 DEF Next

\* A container runs, and a task is about to start one, only with a session entry.
LEMMA SessionsStillTracked ==
  ASSUME SessionInv, WritersAreLocked, WritersAreLocked', SectionsPrepare, SessionsTracked,
         [Next]_vars
  PROVE  SessionsTracked'
  <1> SUFFICES ASSUME restarts' = 0
               PROVE  /\ \A u \in Users : container'[u] = "running" => activity'[u] # "none"
                      /\ \A t \in Tasks : InSection(t)' /\ op'[t] \in EnsureOps
                                         => activity'[subject'[t]] # "none"
    BY DEF SessionsTracked
  <1> USE DEF SessionInv, AppTypeOK, TasksHaveSubjects
  <1>1. /\ restarts = 0 /\ ~Restart
        /\ \A u \in Users : container[u] = "running" => activity[u] # "none"
        /\ \A t \in Tasks : InSection(t) /\ op[t] \in EnsureOps
                            => activity[subject[t]] # "none"
    BY FailuresCount DEF SessionsTracked
  <1>2. ASSUME NEW u \in Users, container'[u] = "running" PROVE activity'[u] # "none"
    <2> DEFINE Kept == activity'[u] # "none"
    <2>1. CASE UNCHANGED container /\ activity'[u] \in {activity[u], "fresh"}
      BY <1>1, <1>2, <2>1
    <2>2. ASSUME NEW t \in Tasks, SectionStep(t) PROVE Kept
      <3>1. CASE CallAndEnter(t) \/ CallAndWait(t) \/ WakeAndEnter(t) \/ NothingToDo(t)
        BY <1>1, <1>2, <3>1
        DEF CallAndEnter, CallAndWait, WakeAndEnter, EnterSection, NothingToDo
      <3>2. CASE SpinUp(t)
        BY <1>1, <1>2, <3>2 DEF SpinUp, DockerStart, InSection, LockedPcs
      <3>3. CASE SpinDown(t)
        BY <1>1, <1>2, <3>3 DEF SpinDown, DockerStop
      <3>4. CASE FinishSection(t)
        BY <1>1, <1>2, <3>4 DEF FinishSection, SectionsPrepare, Effected, EnsureOps,
                                SpinDownOps
      <3> QED
        BY <2>2, <3>1, <3>2, <3>3, <3>4 DEF SectionStep
    <2>3. ASSUME NEW t \in Tasks, SpinUpFails(t) \/ SpinDownFails(t) PROVE Kept
      <3>1. CASE SpinUpFails(t)
        <4>1. CASE u = subject[t]
          BY <1>1, <3>1, <4>1 DEF SpinUpFails, InSection, LockedPcs
        <4>2. CASE u # subject[t]
          BY <1>1, <1>2, <3>1, <4>2 DEF SpinUpFails, DockerStartRaises
        <4> QED
          BY <4>1, <4>2
      <3>2. CASE SpinDownFails(t)
        BY <1>1, <1>2, <3>2, DockerStopStartsNothing DEF SpinDownFails
      <3> QED
        BY <2>3, <3>1, <3>2
    <2>4. ASSUME NEW t \in Tasks, HandlerStep(t) PROVE Kept
      BY <1>1, <1>2, <2>4
      DEF HandlerStep, Answer, TurnAway, Refresh, AdminUpdate, ClerkCreate, RetireInactive,
          Write, WriteRefused, Return
    <2>5. CASE SweepStep
      BY <1>1, <1>2, <2>5
      DEF SweepStep, SweepWakes, WritersAreLocked, SweepPicks, SweepAnswer, SweepSkips,
          SweepStops, SweepWrite, SweepWriteRefused, SweepForgets
    <2>6. CASE Failure
      BY <1>1, <1>2, <2>3, <2>6
      DEF Failure, CommitFails, SweepStopFails, SweepCommitFails, WritersAreLocked
    <2>7. CASE Environment \/ UNCHANGED vars
      BY <1>1, <1>2, <2>7 DEF Environment, Arrive, AdminCreate, BecomeIdle, vars
    <2> QED
      BY <2>2, <2>4, <2>5, <2>6, <2>7 DEF Next
  <1>3. ASSUME NEW t \in Tasks, InSection(t)', op'[t] \in EnsureOps
        PROVE  activity'[subject'[t]] # "none"
    <2>1. CASE InSection(t) /\ op'[t] = op[t] /\ subject'[t] = subject[t] /\ pc'[t] = pc[t]
      <3>1. ASSUME NEW s \in Tasks, InSection(s), pc'[s] # pc[s],
                   \A u \in Users \ {subject[s]} : activity'[u] = activity[u]
            PROVE  activity'[subject[t]] = activity[subject[t]]
        BY <2>1, <3>1, SessionInvExcludes DEF OneTaskPerSection, InSection, LockedPcs
      <3>2. subject[t] \in Users
        BY <2>1 DEF InSection, LockedPcs
      <3>3. activity'[subject[t]] \in {activity[subject[t]], "fresh"}
        BY <1>1, <3>1, <3>2, OnlySectionsTouch
      <3> QED
        BY <1>1, <1>3, <2>1, <3>3
    <2>2. CASE pc'[t] # pc[t]
      BY <1>1, <1>3, <2>2, SectionEntry
    <2>3. CASE ~InSection(t) \/ op'[t] # op[t] \/ subject'[t] # subject[t]
      BY <1>1, <1>3, <2>2, <2>3, OneTaskMoves DEF InSection, taskVars
    <2> QED
      BY <2>1, <2>2, <2>3
  <1> QED
    BY <1>2, <1>3

-----------------------------------------------------------------------------
(* The theorems about sections *)

\* EffectInv is inductive relative to SessionInv.
LEMMA EffectInvStep ==
  ASSUME OnlyLockedWriters
  PROVE  SessionInv /\ EffectInv /\ [Next]_vars => EffectInv'
  <1> SUFFICES ASSUME SessionInv, EffectInv, [Next]_vars
               PROVE  EffectInv'
    OBVIOUS
  <1>1. /\ WritersAreLocked
        /\ RowsRemain
        /\ SectionsPrepare
        /\ RowsAgree
        /\ SessionsTracked
    BY DEF EffectInv
  <1>2. WritersAreLocked'
    BY <1>1, WritersStayLocked
  <1>3. RowsRemain'
    BY <1>1, RowsStillRemain
  <1>4. SectionsPrepare'
    BY <1>1, <1>2, SectionsStillPrepare
  <1>5. RowsAgree'
    BY <1>1, <1>2, RowsStillAgree
  <1>6. SessionsTracked'
    BY <1>1, <1>2, SessionsStillTracked
  <1> QED
    BY <1>2, <1>3, <1>4, <1>5, <1>6 DEF EffectInv

\* If only the locked sections and INSERTs write users.status, EffectInv always holds.
THEOREM EffectInvariant ==
  ASSUME OnlyLockedWriters
  PROVE  Spec => [](SessionInv /\ EffectInv)
  <1>1. Init => SessionInv /\ EffectInv
    BY SessionInvInit, EffectInvInit
  <1>2. SessionInv /\ EffectInv /\ [Next]_vars => (SessionInv /\ EffectInv)'
    BY SessionInvStep, EffectInvStep
  <1> QED
    BY <1>1, <1>2, PTL DEF Spec

\* Then a section that has committed finds the row as it wrote it and the container
\* as it left it, whatever failed before and however often the process was restarted.
THEOREM SectionsAreEffective ==
  ASSUME OnlyLockedWriters
  PROVE  Spec => []SectionsTakeEffect
  <1>1. EffectInv => SectionsTakeEffect
    BY DEF EffectInv, SectionsPrepare, Effected, SectionsTakeEffect
  <1> QED
    BY <1>1, EffectInvariant, PTL

\* Then, as long as no call fails and the process runs on, running containers belong
\* to ACTIVE users and stopped ones to PENDING users.
THEOREM RowsMatchContainers ==
  ASSUME OnlyLockedWriters
  PROVE  Spec => []RowMatchesContainer
  <1>1. EffectInv => RowMatchesContainer
    BY DEF EffectInv, RowsAgree, Agree, RowMatchesContainer, Quiet, InSection, LockedPcs
  <1> QED
    BY <1>1, EffectInvariant, PTL

\* Then, until a restart, a container that runs has a session entry.
THEOREM RunningContainersTracked ==
  ASSUME OnlyLockedWriters
  PROVE  Spec => []RunningIsTracked
  <1>1. EffectInv => RunningIsTracked
    BY DEF EffectInv, SessionsTracked, RunningIsTracked
  <1> QED
    BY <1>1, EffectInvariant, PTL

-----------------------------------------------------------------------------
(* The sections implement UserMutex, and no lock is lost *)

\* The locks of the session manager are the locks of SpinLocks.
THEOREM SessionsImplementLocks == Spec => LocksSpec
  <1>1. Init => LocksInit
    BY DEF Init
  <1> QED
    BY <1>1, SessionStepsAreLockSteps, SessionInvariant, PTL DEF Spec, LocksSpec

\* The whole session manager - handlers, background tasks, sweep, failures and restarts
\* - is a run of one mutual-exclusion section per user.
THEOREM SessionsImplementUserMutex == Spec => ImplementsUserMutex
  BY SessionsImplementLocks, LocksImplementUserMutex

\* Its requests enter the section of a user in the order in which they came.
THEOREM SessionsAreServedInTurn == Spec => NobodyOvertakes
  BY SessionsImplementLocks, WaitersAreServedInTurn

\* The converse of InsideHolds: who refers to a lock is inside the section of its
\* subject, or waits for it.
LocksAreInside ==
    \A t \in Tasks : ref[t] \in Locks =>
      /\ target[t] = subject[t]
      /\ pc[t] = "waiting" \/ InSection(t)
      /\ pc[t] = "waiting" => owner[ref[t]] # t

\* A step that leaves the locks alone, moves t within its section if t has a lock, and
\* moves no other task.
LEMMA UnlockedStepKeepsOutside ==
  ASSUME SessionInv, LocksAreInside, UNCHANGED lockVars, NEW t \in Tasks,
         \A s \in Tasks \ {t} : pc'[s] = pc[s] /\ subject'[s] = subject[s],
         ref[t] \in Locks => InSection(t)' /\ subject'[t] = subject[t]
  PROVE  LocksAreInside'
  BY DEF LocksAreInside, InSection, LockedPcs, lockVars

\* A step in which t acquires, waits for or releases a lock, and nobody else moves.
LEMMA LockStepKeepsOutside ==
  ASSUME SessionInv, LocksAreInside, NEW t \in Tasks, NEW u \in Users,
         AcquireFree(t, u) \/ AcquireBusy(t, u) \/ Wake(t) \/ Release(t),
         \A s \in Tasks \ {t} : pc'[s] = pc[s] /\ subject'[s] = subject[s],
         ref'[t] \in Locks => /\ target'[t] = subject'[t]
                              /\ pc'[t] = "waiting" \/ InSection(t)'
                              /\ pc'[t] = "waiting" => owner'[ref'[t]] # t
  PROVE  LocksAreInside'
  <1> SUFFICES ASSUME NEW s \in Tasks \ {t}, ref'[s] \in Locks
               PROVE  /\ target'[s] = subject'[s]
                      /\ pc'[s] = "waiting" \/ InSection(s)'
                      /\ pc'[s] = "waiting" => owner'[ref'[s]] # s
    BY DEF LocksAreInside
  <1>1. ref'[s] = ref[s] /\ target'[s] = target[s]
    BY OthersKeepTheirLocks DEF SessionInv
  <1>2. owner[ref[s]] # s => owner'[ref[s]] # s
    <2> USE <1>1, SpinLocksAssumption DEF SessionInv, LocksInv, LocksTypeOK
    <2>1. CASE AcquireFree(t, u)
      <3>1. PICK l \in GetLock(u) : owner' = [owner EXCEPT ![l] = t]
        BY <2>1 DEF AcquireFree
      <3> QED
        BY <3>1
    <2>2. CASE AcquireBusy(t, u)
      BY <2>2 DEF AcquireBusy
    <2>3. CASE Wake(t)
      BY <2>3 DEF Wake
    <2>4. CASE Release(t)
      BY <2>4 DEF Release
    <2> QED
      BY <2>1, <2>2, <2>3, <2>4
  <1>3. InSection(s)' <=> InSection(s)
    BY DEF InSection
  <1> QED
    BY <1>1, <1>2, <1>3 DEF LocksAreInside

\* A release leaves t without a reference.
LEMMA ReleaseKeepsOutside ==
  ASSUME SessionInv, LocksAreInside, NEW t \in Tasks, subject[t] \in Users, Release(t),
         \A s \in Tasks \ {t} : pc'[s] = pc[s] /\ subject'[s] = subject[s]
  PROVE  LocksAreInside'
  <1>1. ref'[t] \notin Locks
    BY SpinLocksAssumption DEF Release, SessionInv, LocksInv, LocksTypeOK
  <1> QED
    BY <1>1, LockStepKeepsOutside

\* Every way out of a section releases its lock.
LEMMA LocksAreInsideStep == SessionInv /\ LocksAreInside /\ [Next]_vars => LocksAreInside'
  <1> SUFFICES ASSUME SessionInv, LocksAreInside, [Next]_vars
               PROVE  LocksAreInside'
    OBVIOUS
  <1> DEFINE OthersStay(t) ==
               \A s \in Tasks \ {t} : pc'[s] = pc[s] /\ subject'[s] = subject[s]
  <1>1. ASSUME NEW t \in Tasks, LeaveSection(t), subject[t] \in Users PROVE LocksAreInside'
    <2>1. Release(t) /\ OthersStay(t)
      BY <1>1 DEF LeaveSection, Retire, Finish, Goto, SessionInv, AppTypeOK
    <2> QED
      BY <1>1, <2>1, ReleaseKeepsOutside
  <1>2. ASSUME NEW t \in Tasks, Raise(t), pc[t] \in {"commit", "lockedCommit"},
               subject[t] \in Users
        PROVE  LocksAreInside'
    <2>1. OthersStay(t)
      BY <1>2 DEF Raise, Finish, Goto, SessionInv, AppTypeOK
    <2>2. CASE InSection(t)
      BY <1>2, <2>1, <2>2, ReleaseKeepsOutside DEF Raise
    <2>3. CASE ~InSection(t)
      <3>1. ref[t] \notin Locks
        BY <1>2, <2>3 DEF LocksAreInside
      <3> QED
        BY <1>2, <2>1, <2>3, <3>1, UnlockedStepKeepsOutside DEF Raise
    <2> QED
      BY <2>2, <2>3
  <1>3. ASSUME NEW t \in Tasks, pc[t] # "waiting", ~InSection(t), UNCHANGED lockVars,
               OthersStay(t)
        PROVE  LocksAreInside'
    <2>1. ref[t] \notin Locks
      BY <1>3 DEF LocksAreInside
    <2> QED
      BY <1>3, <2>1, UnlockedStepKeepsOutside
  <1>4. ASSUME UNCHANGED <<lockVars, pc, subject>> PROVE LocksAreInside'
    BY <1>4 DEF lockVars, LocksAreInside, InSection
  <1>5. ASSUME NEW t \in Tasks, HandlerStep(t) PROVE LocksAreInside'
    <2>1. CASE WriteRefused(t)
      BY <2>1, <1>2 DEF WriteRefused, SessionInv, TasksHaveSubjects
    <2>2. CASE Answer(t) \/ Write(t)
      <3>1. /\ UNCHANGED <<lockVars, subject>> /\ OthersStay(t)
            /\ pc[t] # "waiting"
            /\ InSection(t) <=> InSection(t)'
        BY <2>2 DEF Answer, Write, Goto, InSection, LockedPcs, SessionInv, AppTypeOK
      <3>2. ref[t] \in Locks => InSection(t)
        BY <3>1 DEF LocksAreInside
      <3> QED
        BY <3>1, <3>2, UnlockedStepKeepsOutside
    <2>3. CASE TurnAway(t) \/ Refresh(t) \/ AdminUpdate(t) \/ ClerkCreate(t)
               \/ RetireInactive(t) \/ Return(t)
      <3>1. /\ UNCHANGED lockVars /\ OthersStay(t)
            /\ pc[t] \in {"selected", "committed"}
        BY <2>3 DEF TurnAway, Refresh, AdminUpdate, ClerkCreate, RetireInactive, Retire,
                    Return, Finish, Goto, SessionInv, AppTypeOK
      <3> QED
        BY <3>1, <1>3 DEF InSection, LockedPcs
    <2> QED
      BY <1>5, <2>1, <2>2, <2>3 DEF HandlerStep
  <1>6. ASSUME NEW t \in Tasks, SectionStep(t) PROVE LocksAreInside'
    <2> USE DEF SessionInv, TasksHaveSubjects
    <2>1. CASE CallAndEnter(t)
      <3>1. subject[t] \in Users /\ AcquireFree(t, subject[t])
        BY <2>1 DEF CallAndEnter, Calls
      <3>2. OthersStay(t) /\ pc'[t] = "lockedSelect" /\ subject' = subject
        BY <2>1 DEF CallAndEnter, EnterSection, Goto, AppTypeOK
      <3> QED
        BY <3>1, <3>2, AcquirerHolds, LockStepKeepsOutside DEF InSection, LockedPcs
    <2>2. CASE CallAndWait(t)
      <3>1. subject[t] \in Users /\ AcquireBusy(t, subject[t])
        BY <2>2 DEF CallAndWait, Calls
      <3>2. OthersStay(t) /\ pc'[t] = "waiting" /\ subject' = subject
        BY <2>2 DEF CallAndWait, Goto, AppTypeOK
      <3>3. /\ owner' = owner /\ ref[t] = NoLock
            /\ ref'[t] \in Locks /\ target'[t] = subject[t]
        BY <3>1, AcquirerHolds DEF AcquireBusy
      <3>4. owner'[ref'[t]] # t
        BY <3>3, SpinLocksAssumption DEF LocksInv, LocksTypeOK, OwnersRefer
      <3> QED
        BY <3>1, <3>2, <3>3, <3>4, LockStepKeepsOutside
    <2>3. CASE WakeAndEnter(t)
      <3>1. subject[t] \in Users /\ Wake(t) /\ target[t] = subject[t]
        BY <2>3 DEF WakeAndEnter, InsideHolds
      <3>2. OthersStay(t) /\ pc'[t] = "lockedSelect" /\ subject' = subject
        BY <2>3 DEF WakeAndEnter, EnterSection, Goto, AppTypeOK
      <3> QED
        BY <3>1, <3>2, AcquirerHolds, LockStepKeepsOutside DEF InSection, LockedPcs
    <2>4. CASE NothingToDo(t) \/ FinishSection(t)
      BY <2>4, <1>1 DEF NothingToDo, FinishSection
    <2>5. CASE SpinUp(t) \/ SpinDown(t)
      BY <2>5, UnlockedStepKeepsOutside
      DEF SpinUp, SpinDown, Goto, InSection, LockedPcs, AppTypeOK
    <2> QED
      BY <1>6, <2>1, <2>2, <2>3, <2>4, <2>5 DEF SectionStep
  <1>7. CASE Failure
    <2>1. ASSUME NEW t \in Tasks, CommitFails(t) PROVE LocksAreInside'
      BY <2>1, <1>2 DEF CommitFails, SessionInv, TasksHaveSubjects
    <2>2. ASSUME NEW t \in Tasks, SpinUpFails(t) \/ SpinDownFails(t) PROVE LocksAreInside'
      BY <2>2, <1>1 DEF SpinUpFails, SpinDownFails, SessionInv, TasksHaveSubjects
    <2>3. CASE SweepStopFails \/ SweepCommitFails
      BY <2>3, <1>4 DEF SweepStopFails, SweepCommitFails, taskVars
    <2>4. CASE Restart
      BY <2>4, SpinLocksAssumption DEF Restart, LocksRestart, LocksAreInside
    <2> QED
      BY <1>7, <2>1, <2>2, <2>3, <2>4 DEF Failure
  <1>8. CASE Environment
    <2>1. ASSUME NEW t \in Tasks, NEW u \in Users, NEW o \in Requests,
                 Arrive(t, u, o) \/ AdminCreate(t, u)
          PROVE  LocksAreInside'
      <3>1. UNCHANGED lockVars /\ OthersStay(t) /\ pc[t] = "idle"
        BY <2>1 DEF Arrive, AdminCreate, Goto, SessionInv, AppTypeOK
      <3> QED
        BY <3>1, <1>3 DEF InSection, LockedPcs
    <2>2. ASSUME NEW u \in Users, BecomeIdle(u) PROVE LocksAreInside'
      BY <2>2, <1>4 DEF BecomeIdle, taskVars
    <2> QED
      BY <1>8, <2>1, <2>2 DEF Environment, Requests
  <1>9. CASE SweepStep \/ UNCHANGED vars
    <2>1. UNCHANGED <<lockVars, pc, subject>>
      BY <1>9 DEF SweepStep, SweepWakes, SweepPicks, SweepAnswer, SweepSkips, SweepStops,
                  SweepWrite, SweepWriteRefused, SweepForgets, taskVars, vars
    <2> QED
      BY <2>1, <1>4
  <1> QED
    BY <1>5, <1>6, <1>7, <1>8, <1>9 DEF Next

\* No request, however it ends, leaves a lock behind that it holds or a queue that it
\* stands in: the next request for the user finds the lock free or a holder who is
\* still at work.
THEOREM LocksAreReleased == Spec => []NoLockIsLost
  <1>1. Init => LocksAreInside
    BY SpinLocksAssumption DEF Init, LocksInit, LocksAreInside
  <1>2. SessionInv /\ LocksAreInside => NoLockIsLost
    BY DEF SessionInv, InsideHolds, LocksAreInside, NoLockIsLost, Holds, Waits
  <1> QED
    BY <1>1, <1>2, LocksAreInsideStep, SessionInvariant, PTL DEF Spec

-----------------------------------------------------------------------------
(* Requests advance *)

\* A task that moves has fewer steps left, unless it begins.
LEMMA MoverAdvances ==
  ASSUME SessionInv, [Next]_vars, NEW t \in Tasks, pc[t] # "idle", pc'[t] # pc[t]
  PROVE  StepsLeft(t)' < StepsLeft(t)
  <1> USE DEF SessionInv, AppTypeOK, Goto, Set, StepsLeft
  <1>1. ASSUME NEW s \in Tasks, Finish(s) PROVE pc' = [pc EXCEPT ![s] = "idle"]
    BY <1>1 DEF Finish
  <1>2. ASSUME NEW s \in Tasks, LeaveSection(s), pc[s] \in {"lockedSelected", "lockedCommitted"}
        PROVE  StepsLeft(t)' < StepsLeft(t)
    BY <1>2 DEF LeaveSection, Retire, Finish, Pcs, LockedPcs
  <1>3. ASSUME NEW s \in Tasks, HandlerStep(s) PROVE StepsLeft(t)' < StepsLeft(t)
    <2>1. CASE Answer(s) \/ ClerkCreate(s) \/ RetireInactive(s) \/ Write(s)
      BY <2>1 DEF Answer, ClerkCreate, RetireInactive, Retire, Write
    <2>2. CASE TurnAway(s) \/ Refresh(s) \/ WriteRefused(s)
      BY <2>2 DEF TurnAway, Refresh, WriteRefused, Raise, Finish
    <2>3. CASE AdminUpdate(s) \/ Return(s)
      BY <2>3 DEF AdminUpdate, Return, Finish
    <2> QED
      BY <1>3, <2>1, <2>2, <2>3 DEF HandlerStep
  <1>4. ASSUME NEW s \in Tasks, SectionStep(s) PROVE StepsLeft(t)' < StepsLeft(t)
    <2>1. CASE CallAndEnter(s) \/ CallAndWait(s) \/ WakeAndEnter(s)
      BY <2>1 DEF CallAndEnter, CallAndWait, WakeAndEnter, Calls, EnterSection
    <2>2. CASE NothingToDo(s) \/ FinishSection(s)
      BY <1>2, <2>2 DEF NothingToDo, FinishSection
    <2>3. CASE SpinUp(s) \/ SpinDown(s)
      BY <2>3 DEF SpinUp, SpinDown
    <2> QED
      BY <1>4, <2>1, <2>2, <2>3 DEF SectionStep
  <1>5. CASE SweepStep \/ UNCHANGED vars
    BY <1>5 DEF SweepStep, SweepWakes, SweepPicks, SweepAnswer, SweepSkips, SweepStops,
                SweepWrite, SweepWriteRefused, SweepForgets, taskVars, vars
  <1>6. CASE Failure
    <2>1. ASSUME NEW s \in Tasks, CommitFails(s) PROVE StepsLeft(t)' < StepsLeft(t)
      BY <2>1 DEF CommitFails, Raise, Finish
    <2>2. ASSUME NEW s \in Tasks, SpinUpFails(s) \/ SpinDownFails(s)
          PROVE  StepsLeft(t)' < StepsLeft(t)
      BY <1>2, <2>2 DEF SpinUpFails, SpinDownFails
    <2>3. CASE Restart
      BY <2>3 DEF Restart, Pcs, LockedPcs
    <2> QED
      BY <1>6, <2>1, <2>2, <2>3 DEF Failure, SweepStopFails, SweepCommitFails, taskVars
  <1>7. CASE Environment
    BY <1>7 DEF Environment, Arrive, AdminCreate, BecomeIdle, taskVars
  <1> QED
    BY <1>3, <1>4, <1>5, <1>6, <1>7 DEF Next

\* A request, with the background task it starts, takes twelve steps at most: whatever
\* the other requests, the sweep and failing calls do, nothing sends it back.
THEOREM SessionRequestsAdvance == Spec => RequestsAdvance
  <1> DEFINE Advances(t) == pc[t] # "idle" =>
                              \/ StepsLeft(t)' < StepsLeft(t)
                              \/ UNCHANGED <<op[t], pc[t], subject[t], seen[t]>>
  <1>1. ASSUME SessionInv, [Next]_vars, NEW t \in Tasks PROVE Advances(t)
    <2> SUFFICES ASSUME pc[t] # "idle" PROVE Advances(t)
      OBVIOUS
    <2>1. CASE Restart
      BY <1>1, <2>1, MoverAdvances DEF Restart
    <2>2. CASE ~Restart /\ pc'[t] = pc[t]
      BY <1>1, <2>2, OneTaskMoves DEF taskVars
    <2>3. CASE pc'[t] # pc[t]
      BY <1>1, <2>3, MoverAdvances
    <2> QED
      BY <2>1, <2>2, <2>3
  <1>2. SessionInv /\ [Next]_vars => [\A t \in Tasks : Advances(t)]_vars
    BY <1>1
  <1> QED
    BY <1>2, SessionInvariant, PTL DEF Spec, RequestsAdvance
=============================================================================
