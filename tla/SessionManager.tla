---------------------------- MODULE SessionManager ----------------------------
(***************************************************************************)
(* The life of user accounts and their agent containers in the             *)
(* orchestrator: orchestrator/app/session_manager.py with every handler    *)
(* that calls it or writes User.status (users.py, admin.py, clerk.py), the *)
(* users table, and the Docker engine behind docker_manager.py.            *)
(*                                                                         *)
(* The orchestrator is one process with one event loop, so a coroutine     *)
(* runs undisturbed between two awaits that suspend it.  The awaits that   *)
(* do are those on the lock and on the database; the Docker SDK calls are  *)
(* synchronous.  A database await is two steps, the database's (it         *)
(* evaluates the statement) and the coroutine's (it resumes with the       *)
(* result), because other coroutines run in between.                       *)
(*                                                                         *)
(* A request has one AsyncSession (FastAPI caches Depends(get_session))    *)
(* with expire_on_commit=False: the User it loaded first stays in the      *)
(* identity map, and a second SELECT of the same row returns that object   *)
(* with the status it was loaded with.  seen[t] is that object's status.   *)
(***************************************************************************)
EXTENDS SpinLocks, Naturals

CONSTANTS Events,       \* what happens in the environment: requests and idleness
          KeysEnforced, \* the database checks foreign keys: PostgreSQL does, SQLite not
          MaxFaults,    \* bound: Docker and database calls that fail
          MaxRestarts   \* bound: restarts of the orchestrator

\* UserStatus
Status == {"active", "suspended", "pending"}

EnsureOps   == {"ensure", "provision"}
SpinDownOps == {"spin_down", "admin_spin_down", "clerk_deleted", "admin_delete"}
InsertOps   == {"clerk_created", "admin_create"}
Requests    == {"ensure", "spin_down", "refresh", "admin_spin_down", "admin_update",
                "admin_delete", "clerk_created", "clerk_deleted"}
Ops         == Requests \cup {"admin_create", "provision"}

ASSUME SessionManagerAssumption ==
    /\ Events \subseteq Requests \cup {"admin_create", "idle"}
    /\ KeysEnforced \in BOOLEAN
    /\ MaxFaults \in Nat
    /\ MaxRestarts \in Nat

VARIABLES
    row,        \* committed users.status, "none" before the INSERT, "deleted" after the DELETE
    container,  \* the container agent-{user_id} of the Docker engine
    activity,   \* _active_sessions: no entry, or an entry younger/older than the idle timeout
    op,         \* what each task executes
    pc,         \* where it is suspended
    subject,    \* the user it is about
    seen,       \* status of the User object in its database session
    sweepPc,    \* where _cleanup_idle_sessions is suspended
    idleUsers,  \* users of its snapshot it has not handled yet
    sweepUser,  \* the user spin_down_idle_user is about
    sweepSeen,  \* status of the User object of that session
    faults,     \* failed calls so far
    restarts    \* restarts so far

taskVars  == <<op, pc, subject, seen>>
sweepVars == <<sweepPc, idleUsers, sweepUser, sweepSeen>>
bounds    == <<faults, restarts>>
vars == <<lockVars, row, container, activity, taskVars, sweepVars, bounds>>

LockedPcs == {"lockedSelect", "lockedSelected", "lockedCommit", "lockedCommitted"}
Pcs == LockedPcs \cup {"idle", "select", "selected", "spawned", "waiting", "commit", "committed"}
SweepPcs == {"asleep", "next", "select", "selected", "commit", "committed"}

\* The values of the columns, of Docker's states, and of what tasks and sweep hold:
\* a commit writes a status, never the absence of a row.
TypeOK ==
    /\ LocksTypeOK
    /\ row \in [Users -> Status \cup {"none", "deleted"}]
    /\ container \in [Users -> {"missing", "exited", "running"}]
    /\ activity \in [Users -> {"none", "fresh", "stale"}]
    /\ op \in [Tasks -> Ops \cup {"none"}]
    /\ pc \in [Tasks -> Pcs]
    /\ subject \in [Tasks -> Users \cup {NoUser}]
    /\ seen \in [Tasks -> Status \cup {"unread", "absent"}]
    /\ sweepPc \in SweepPcs
    /\ idleUsers \subseteq Users
    /\ sweepUser \in Users \cup {NoUser}
    /\ sweepSeen \in Status \cup {"unread", "absent"}
    /\ faults \in 0..MaxFaults
    /\ restarts \in 0..MaxRestarts

Init ==
    /\ LocksInit
    /\ row = [u \in Users |-> "none"]
    /\ container = [u \in Users |-> "missing"]
    /\ activity = [u \in Users |-> "none"]
    /\ op = [t \in Tasks |-> "none"]
    /\ pc = [t \in Tasks |-> "idle"]
    /\ subject = [t \in Tasks |-> NoUser]
    /\ seen = [t \in Tasks |-> "unread"]
    /\ sweepPc = "asleep"
    /\ idleUsers = {}
    /\ sweepUser = NoUser
    /\ sweepSeen = "unread"
    /\ faults = 0
    /\ restarts = 0

-----------------------------------------------------------------------------
(* Parts of actions *)

\* Mutant of Load: the missing row is not noticed.
LoadUnchecked(u, held) == IF held = "unread" THEN row[u] ELSE held

\* A SELECT of the user: no row, the object loaded before, or a new object.
Load(u, held) == IF row[u] \notin Status THEN "absent"
                 ELSE IF held = "unread" THEN row[u] ELSE held

\* The statuses with which a handler goes on after its first SELECT.
Admitted(o) ==
    CASE o \in {"ensure", "spin_down", "refresh", "admin_spin_down"} -> {"active"}
      [] o = "clerk_deleted"                      -> {"active", "pending"}
      [] o \in {"admin_update", "admin_delete"}   -> Status
      [] o = "clerk_created"                      -> {"absent"}
      [] OTHER                                    -> {}

\* t is inside a locked section.
InSection(t) == pc[t] \in LockedPcs

Goto(t, where) == pc' = [pc EXCEPT ![t] = where]
Set(t, status) == seen' = [seen EXCEPT ![t] = status]

\* The handler returns or raises: its database session is closed.
Finish(t) ==
    /\ op' = [op EXCEPT ![t] = "none"]
    /\ Goto(t, "idle")
    /\ subject' = [subject EXCEPT ![t] = NoUser]
    /\ Set(t, "unread")

Fault == /\ faults < MaxFaults
         /\ faults' = faults + 1

\* docker_manager.ensure_user_service: start the container, or create and start it.
DockerStart(u) == container' = [container EXCEPT ![u] = "running"]

\* docker_manager.spin_down_user_service: stop the container if it runs.
DockerStop(u) ==
    container' = [container EXCEPT ![u] = IF @ = "running" THEN "exited" ELSE @]

\* A start or stop that raises may have got some of the way: `run` creates before
\* it starts, and a call may time out after the engine has acted.
DockerStartRaises(u) ==
    \E c \in {container[u]} \cup {"exited", "running"} :
      /\ container[u] = "running" => c = "running"
      /\ container' = [container EXCEPT ![u] = c]

DockerStopRaises(u) ==
    \E c \in {container[u]} \cup (IF container[u] = "running" THEN {"exited"} ELSE {}) :
      container' = [container EXCEPT ![u] = c]

-----------------------------------------------------------------------------
(* Requests and the statements outside the locked section *)

\* A request arrives whose handler first selects the user.  The user endpoints do
\* so in verify_user_api_key.
Arrive(t, u, o) ==
    /\ o \in Events \cap Requests
    /\ pc[t] = "idle"
    /\ op' = [op EXCEPT ![t] = o]
    /\ subject' = [subject EXCEPT ![t] = u]
    /\ Goto(t, "select")
    /\ UNCHANGED <<lockVars, row, container, activity, seen, sweepVars, bounds>>

\* POST /admin/users: the new user is ACTIVE, and no container is provisioned.
AdminCreate(t, u) ==
    /\ "admin_create" \in Events
    /\ pc[t] = "idle"
    /\ op' = [op EXCEPT ![t] = "admin_create"]
    /\ subject' = [subject EXCEPT ![t] = u]
    /\ Set(t, "active")
    /\ Goto(t, "commit")
    /\ UNCHANGED <<lockVars, row, container, activity, sweepVars, bounds>>

\* The database evaluates a SELECT.
Answer(t) ==
    /\ pc[t] \in {"select", "lockedSelect"}
    /\ Set(t, Load(subject[t], seen[t]))
    /\ Goto(t, IF pc[t] = "select" THEN "selected" ELSE "lockedSelected")
    /\ UNCHANGED <<lockVars, row, container, activity, op, subject, sweepVars, bounds>>

\* Mutant of TurnAway: user.created waits for the other request to go away.
TurnAwayPolls(t) ==
    /\ pc[t] = "selected"
    /\ seen[t] \notin Admitted(op[t])
    /\ IF op[t] = "clerk_created" THEN Goto(t, "select") /\ UNCHANGED <<op, subject, seen>>
                                  ELSE Finish(t)
    /\ UNCHANGED <<lockVars, row, container, activity, sweepVars, bounds>>

\* The handler returns after its first SELECT: 401, 403, 404, nothing to spin
\* down, already deleted, or (user.created) already exists.
TurnAway(t) ==
    /\ pc[t] = "selected"
    /\ seen[t] \notin Admitted(op[t])
    /\ Finish(t)
    /\ UNCHANGED <<lockVars, row, container, activity, sweepVars, bounds>>

\* POST /user/me/session/refresh: record_activity.
Refresh(t) ==
    /\ pc[t] = "selected"
    /\ op[t] = "refresh"
    /\ seen[t] \in Admitted(op[t])
    /\ activity' = [activity EXCEPT ![subject[t]] = "fresh"]
    /\ Finish(t)
    /\ UNCHANGED <<lockVars, row, container, sweepVars, bounds>>

\* PATCH /admin/users/{id} with a status.  An unchanged attribute emits no UPDATE.
AdminUpdate(t) ==
    /\ pc[t] = "selected"
    /\ op[t] = "admin_update"
    /\ seen[t] \in Admitted(op[t])
    /\ \E s \in Status :
         IF s = seen[t] THEN Finish(t)
                        ELSE /\ Set(t, s)
                             /\ Goto(t, "commit")
                             /\ UNCHANGED <<op, subject>>
    /\ UNCHANGED <<lockVars, row, container, activity, sweepVars, bounds>>

\* user.created for an unknown user: INSERT with status ACTIVE.
ClerkCreate(t) ==
    /\ pc[t] = "selected"
    /\ op[t] = "clerk_created"
    /\ seen[t] \in Admitted(op[t])
    /\ Set(t, "active")
    /\ Goto(t, "commit")
    /\ UNCHANGED <<lockVars, row, container, activity, op, subject, sweepVars, bounds>>

\* What is written after the (tried or skipped) spin-down: user.deleted marks the
\* row SUSPENDED, DELETE /admin/users/{id} deletes it.
Retire(t) == /\ Set(t, IF op[t] = "clerk_deleted" THEN "suspended" ELSE "absent")
             /\ Goto(t, "commit")
             /\ UNCHANGED <<op, subject>>

\* A user who is not ACTIVE is deleted without a spin-down.
RetireInactive(t) ==
    /\ pc[t] = "selected"
    /\ op[t] \in {"clerk_deleted", "admin_delete"}
    /\ seen[t] \in Admitted(op[t]) \ {"active"}
    /\ Retire(t)
    /\ UNCHANGED <<lockVars, row, container, activity, sweepVars, bounds>>

\* The commit is the one that deletes the row of its user.
Deletes(t) == op[t] = "admin_delete" /\ pc[t] = "commit"

\* The row t's commit leaves behind.
Written(t) == [row EXCEPT ![subject[t]] = IF Deletes(t) THEN "deleted" ELSE seen[t]]

\* Mutant of Writable: the UPDATE creates the row it does not find.
WritableByUpsert(t) == /\ op[t] \in InsertOps => row[subject[t]] = "none"
                       /\ Deletes(t) => ~KeysEnforced

\* The statement finds what it needs: no such user for an INSERT (the unique
\* columns), an existing row for an UPDATE (else the ORM raises StaleDataError),
\* and no reference to the row a DELETE removes.  There always is one: the audit
\* record that the handler has just inserted.
Writable(t) == /\ IF op[t] \in InsertOps THEN row[subject[t]] = "none"
                                         ELSE row[subject[t]] \in Status
               /\ Deletes(t) => ~KeysEnforced

\* The database commits.
Write(t) ==
    /\ pc[t] \in {"commit", "lockedCommit"}
    /\ Writable(t)
    /\ row' = Written(t)
    /\ Goto(t, IF pc[t] = "commit" THEN "committed" ELSE "lockedCommitted")
    /\ UNCHANGED <<lockVars, container, activity, op, subject, seen, sweepVars, bounds>>

\* Mutant of Raise: the exception does not release the lock.
RaiseUnreleased(t) == UNCHANGED lockVars /\ Finish(t)

\* db.commit() raised: the exception leaves the locked section and the handler.
\* user.deleted and admin delete catch it, but the rollback has expired their User
\* object, and the next access to it raises again.
Raise(t) == /\ IF InSection(t) THEN Release(t) ELSE UNCHANGED lockVars
            /\ Finish(t)

WriteRefused(t) ==
    /\ pc[t] \in {"commit", "lockedCommit"}
    /\ ~Writable(t)
    /\ Raise(t)
    /\ UNCHANGED <<row, container, activity, sweepVars, bounds>>

\* The connection breaks during the commit, before or after it took effect.
CommitFails(t) ==
    /\ pc[t] \in {"commit", "lockedCommit"}
    /\ Writable(t)
    /\ Fault
    /\ row' \in {row, Written(t)}
    /\ Raise(t)
    /\ UNCHANGED <<container, activity, sweepVars, restarts>>

\* The commit outside the section returns.  After user.created the handler answers
\* and a background task provision_user_background goes on with a new session.
Return(t) ==
    /\ pc[t] = "committed"
    /\ IF op[t] = "clerk_created"
       THEN /\ op' = [op EXCEPT ![t] = "provision"]
            /\ Goto(t, "spawned")
            /\ Set(t, "unread")
            /\ UNCHANGED subject
       ELSE Finish(t)
    /\ UNCHANGED <<lockVars, row, container, activity, sweepVars, bounds>>

-----------------------------------------------------------------------------
(* The locked sections: ensure_user_service and spin_down_user_service *)

\* The task calls one of them: from the background task, or from a handler whose
\* User object is ACTIVE.
Calls(t) == \/ pc[t] = "spawned"
            \/ /\ pc[t] = "selected"
               /\ op[t] \in EnsureOps \cup SpinDownOps
               /\ seen[t] = "active"

\* Mutant of EnterSection: the activity is not recorded.
EnterUnrecorded(t) == /\ Goto(t, "lockedSelect")
                      /\ UNCHANGED activity

\* The first statements under the lock: ensure_user_service records activity, and
\* both issue the SELECT.
EnterSection(t) ==
    /\ Goto(t, "lockedSelect")
    /\ activity' = IF op[t] \in EnsureOps THEN [activity EXCEPT ![subject[t]] = "fresh"]
                                          ELSE activity

\* Mutant of CallAndEnter: the section is entered without the lock.
CallWithoutLock(t) ==
    /\ Calls(t)
    /\ EnterSection(t)
    /\ UNCHANGED <<lockVars, row, container, op, subject, seen, sweepVars, bounds>>

CallAndEnter(t) ==
    /\ Calls(t)
    /\ AcquireFree(t, subject[t])
    /\ EnterSection(t)
    /\ UNCHANGED <<row, container, op, subject, seen, sweepVars, bounds>>

CallAndWait(t) ==
    /\ Calls(t)
    /\ AcquireBusy(t, subject[t])
    /\ Goto(t, "waiting")
    /\ UNCHANGED <<row, container, activity, op, subject, seen, sweepVars, bounds>>

WakeAndEnter(t) ==
    /\ pc[t] = "waiting"
    /\ Wake(t)
    /\ EnterSection(t)
    /\ UNCHANGED <<row, container, op, subject, seen, sweepVars, bounds>>

\* The section returns, or raises for a reason other than the database, which
\* user.deleted and admin delete swallow.
LeaveSection(t) ==
    /\ Release(t)
    /\ IF op[t] \in {"clerk_deleted", "admin_delete"} THEN Retire(t) ELSE Finish(t)

\* Not found, already ACTIVE (ensure), or not ACTIVE (spin-down).
NothingToDo(t) ==
    /\ pc[t] = "lockedSelected"
    /\ \/ seen[t] = "absent"
       \/ op[t] \in EnsureOps /\ seen[t] = "active"
       \/ op[t] \in SpinDownOps /\ seen[t] # "active"
    /\ LeaveSection(t)
    /\ UNCHANGED <<row, container, activity, sweepVars, bounds>>

\* Mutant of SpinUp: the status is not set to ACTIVE.
SpinUpKeepsStatus(t) ==
    /\ pc[t] = "lockedSelected"
    /\ op[t] \in EnsureOps
    /\ seen[t] \in {"pending", "suspended"}
    /\ DockerStart(subject[t])
    /\ Goto(t, "lockedCommit")
    /\ UNCHANGED <<lockVars, row, activity, op, subject, seen, sweepVars, bounds>>

\* _spin_up_service: start the container, then status = ACTIVE and commit.
SpinUp(t) ==
    /\ pc[t] = "lockedSelected"
    /\ op[t] \in EnsureOps
    /\ seen[t] \in {"pending", "suspended"}
    /\ DockerStart(subject[t])
    /\ Set(t, "active")
    /\ Goto(t, "lockedCommit")
    /\ UNCHANGED <<lockVars, row, activity, op, subject, sweepVars, bounds>>

\* Mutant of SpinUpFails: _spin_up_service logs the exception and does not raise it.
SpinUpFailsSilently(t) ==
    /\ pc[t] = "lockedSelected"
    /\ op[t] \in EnsureOps
    /\ seen[t] \in {"pending", "suspended"}
    /\ Fault
    /\ DockerStartRaises(subject[t])
    /\ Set(t, "active")
    /\ Goto(t, "lockedCommit")
    /\ UNCHANGED <<lockVars, row, activity, op, subject, sweepVars, restarts>>

SpinUpFails(t) ==
    /\ pc[t] = "lockedSelected"
    /\ op[t] \in EnsureOps
    /\ seen[t] \in {"pending", "suspended"}
    /\ Fault
    /\ DockerStartRaises(subject[t])
    /\ LeaveSection(t)
    /\ UNCHANGED <<row, activity, sweepVars, restarts>>

\* Mutant of SpinDown: the lock is released before the commit.
SpinDownUnlocked(t) ==
    /\ pc[t] = "lockedSelected"
    /\ op[t] \in SpinDownOps
    /\ seen[t] = "active"
    /\ DockerStop(subject[t])
    /\ Set(t, "pending")
    /\ Goto(t, "lockedCommit")
    /\ Release(t)
    /\ UNCHANGED <<row, activity, op, subject, sweepVars, bounds>>

\* _spin_down_service: stop the container, then status = PENDING and commit.
SpinDown(t) ==
    /\ pc[t] = "lockedSelected"
    /\ op[t] \in SpinDownOps
    /\ seen[t] = "active"
    /\ DockerStop(subject[t])
    /\ Set(t, "pending")
    /\ Goto(t, "lockedCommit")
    /\ UNCHANGED <<lockVars, row, activity, op, subject, sweepVars, bounds>>

SpinDownFails(t) ==
    /\ pc[t] = "lockedSelected"
    /\ op[t] \in SpinDownOps
    /\ seen[t] = "active"
    /\ Fault
    /\ DockerStopRaises(subject[t])
    /\ LeaveSection(t)
    /\ UNCHANGED <<row, activity, sweepVars, restarts>>

\* The commit under the lock returns; a spin-down forgets the session.
FinishSection(t) ==
    /\ pc[t] = "lockedCommitted"
    /\ activity' = IF op[t] \in SpinDownOps THEN [activity EXCEPT ![subject[t]] = "none"]
                                            ELSE activity
    /\ LeaveSection(t)
    /\ UNCHANGED <<row, container, sweepVars, bounds>>

-----------------------------------------------------------------------------
(* The idle sweep: _cleanup_idle_sessions and spin_down_idle_user, no lock *)

\* 15 minutes pass without activity.
BecomeIdle(u) ==
    /\ "idle" \in Events
    /\ activity[u] = "fresh"
    /\ activity' = [activity EXCEPT ![u] = "stale"]
    /\ UNCHANGED <<lockVars, row, container, taskVars, sweepVars, bounds>>

SweepWakes ==
    /\ sweepPc = "asleep"
    /\ \E u \in Users : activity[u] = "stale"
    /\ idleUsers' = {u \in Users : activity[u] = "stale"}
    /\ sweepPc' = "next"
    /\ UNCHANGED <<lockVars, row, container, activity, taskVars, sweepUser, sweepSeen, bounds>>

SweepPicks(u) ==
    /\ sweepPc = "next"
    /\ u \in idleUsers
    /\ idleUsers' = idleUsers \ {u}
    /\ sweepUser' = u
    /\ sweepPc' = "select"
    /\ UNCHANGED <<lockVars, row, container, activity, taskVars, sweepSeen, bounds>>

SweepAnswer ==
    /\ sweepPc = "select"
    /\ sweepSeen' = Load(sweepUser, "unread")
    /\ sweepPc' = "selected"
    /\ UNCHANGED <<lockVars, row, container, activity, taskVars, idleUsers, sweepUser, bounds>>

\* Mutant of SweepAdvance: the first user ends the pass.
SweepEndsPass ==
    /\ sweepPc' = "asleep"
    /\ sweepUser' = NoUser
    /\ sweepSeen' = "unread"
    /\ idleUsers' = {}

\* spin_down_idle_user returns, whatever happened, and the loop goes on.
SweepAdvance ==
    /\ sweepPc' = IF idleUsers = {} THEN "asleep" ELSE "next"
    /\ sweepUser' = NoUser
    /\ sweepSeen' = "unread"
    /\ UNCHANGED idleUsers

Forget(u) == activity' = [activity EXCEPT ![u] = "none"]

\* No such user: the session entry stays.  Not ACTIVE: the entry is dropped.
SweepSkips ==
    /\ sweepPc = "selected"
    /\ sweepSeen # "active"
    /\ IF sweepSeen = "absent" THEN UNCHANGED activity ELSE Forget(sweepUser)
    /\ SweepAdvance
    /\ UNCHANGED <<lockVars, row, container, taskVars, bounds>>

SweepStops ==
    /\ sweepPc = "selected"
    /\ sweepSeen = "active"
    /\ DockerStop(sweepUser)
    /\ sweepSeen' = "pending"
    /\ sweepPc' = "commit"
    /\ UNCHANGED <<lockVars, row, activity, taskVars, idleUsers, sweepUser, bounds>>

SweepStopFails ==
    /\ sweepPc = "selected"
    /\ sweepSeen = "active"
    /\ Fault
    /\ DockerStopRaises(sweepUser)
    /\ SweepAdvance
    /\ UNCHANGED <<lockVars, row, activity, taskVars, restarts>>

SweepWrite ==
    /\ sweepPc = "commit"
    /\ row[sweepUser] \in Status
    /\ row' = [row EXCEPT ![sweepUser] = sweepSeen]
    /\ sweepPc' = "committed"
    /\ UNCHANGED <<lockVars, container, activity, taskVars, idleUsers, sweepUser, sweepSeen, bounds>>

SweepWriteRefused ==
    /\ sweepPc = "commit"
    /\ row[sweepUser] \notin Status
    /\ SweepAdvance
    /\ UNCHANGED <<lockVars, row, container, activity, taskVars, bounds>>

SweepCommitFails ==
    /\ sweepPc = "commit"
    /\ row[sweepUser] \in Status
    /\ Fault
    /\ row' \in {row, [row EXCEPT ![sweepUser] = sweepSeen]}
    /\ SweepAdvance
    /\ UNCHANGED <<lockVars, container, activity, taskVars, restarts>>

SweepForgets ==
    /\ sweepPc = "committed"
    /\ Forget(sweepUser)
    /\ SweepAdvance
    /\ UNCHANGED <<lockVars, row, container, taskVars, bounds>>

-----------------------------------------------------------------------------
\* The orchestrator stops and starts: locks, sessions, requests and background
\* tasks are in memory, the table and the containers are not.
Restart ==
    /\ restarts < MaxRestarts
    /\ restarts' = restarts + 1
    /\ LocksRestart
    /\ activity' = [u \in Users |-> "none"]
    /\ op' = [t \in Tasks |-> "none"]
    /\ pc' = [t \in Tasks |-> "idle"]
    /\ subject' = [t \in Tasks |-> NoUser]
    /\ seen' = [t \in Tasks |-> "unread"]
    /\ sweepPc' = "asleep"
    /\ idleUsers' = {}
    /\ sweepUser' = NoUser
    /\ sweepSeen' = "unread"
    /\ UNCHANGED <<row, container, faults>>

SectionStep(t) == CallAndEnter(t) \/ CallAndWait(t) \/ WakeAndEnter(t) \/ NothingToDo(t)
                  \/ SpinUp(t) \/ SpinDown(t) \/ FinishSection(t)

HandlerStep(t) == Answer(t) \/ TurnAway(t) \/ Refresh(t) \/ AdminUpdate(t) \/ ClerkCreate(t)
                  \/ RetireInactive(t) \/ Write(t) \/ WriteRefused(t) \/ Return(t)

SweepStep == SweepWakes \/ (\E u \in Users : SweepPicks(u)) \/ SweepAnswer \/ SweepSkips
             \/ SweepStops \/ SweepWrite \/ SweepWriteRefused \/ SweepForgets

Failure == \/ \E t \in Tasks : CommitFails(t) \/ SpinUpFails(t) \/ SpinDownFails(t)
           \/ SweepStopFails \/ SweepCommitFails \/ Restart

Environment == \/ \E t \in Tasks, u \in Users, o \in Requests : Arrive(t, u, o)
               \/ \E t \in Tasks, u \in Users : AdminCreate(t, u)
               \/ \E u \in Users : BecomeIdle(u)

Next == \/ \E t \in Tasks : SectionStep(t) \/ HandlerStep(t)
        \/ SweepStep
        \/ Failure
        \/ Environment

Spec == Init /\ [][Next]_vars

\* The event loop resumes every coroutine whose await is over, the database answers
\* every statement, and the sweep wakes every minute.  Nothing obliges a request to
\* arrive, a user to become idle or a call to fail.
Fairness == /\ \A t \in Tasks : WF_vars(SectionStep(t) \/ HandlerStep(t))
            /\ WF_vars(SweepStep)

FairSpec == Spec /\ Fairness

-----------------------------------------------------------------------------
(* Properties *)

\* Two tasks are never between the first and the last statement of the locked
\* sections of the same user, in the code's terms (program counters) and not in
\* the lock's.
OneTaskPerSection ==
    \A s, t \in Tasks :
      InSection(s) /\ InSection(t) /\ subject[s] = subject[t] => s = t

Quiet(u) == \A t \in Tasks : ~(InSection(t) /\ subject[t] = u)

\* If only the locked sections write users.status: the section that has committed
\* finds the container as it left it and the row as it wrote it, so a section that
\* runs to its end repairs whatever failed calls and restarts left behind.
SectionsTakeEffect ==
    \A t \in Tasks : pc[t] = "lockedCommitted" =>
      IF op[t] \in EnsureOps
      THEN row[subject[t]] = "active" /\ container[subject[t]] = "running"
      ELSE row[subject[t]] = "pending" /\ container[subject[t]] # "running"

\* If, moreover, no call has failed and the process has not been restarted, the row
\* and the Docker engine agree whenever no section is open: a running container
\* belongs to an ACTIVE user and a stopped one to a PENDING user.  (An ACTIVE user
\* may have no container: that is how accounts are created.)
RowMatchesContainer ==
    faults = 0 /\ restarts = 0 =>
      \A u \in Users : Quiet(u) =>
        /\ container[u] = "running" => row[u] = "active"
        /\ container[u] = "exited" => row[u] = "pending"

\* A container that runs while no section is open has an entry in _active_sessions,
\* without which the idle sweep would never stop it - until a restart, which empties
\* the dictionary and leaves the containers running.
RunningIsTracked ==
    restarts = 0 =>
      \A u \in Users : Quiet(u) /\ container[u] = "running" => activity[u] # "none"

\* No lock is lost: whoever holds the lock of a user is inside the section of that user,
\* and whoever is queued for it waits there.  Whichever way a handler leaves - returning
\* early, by an exception of Docker or of the database, or to write the row afterwards -
\* it has left its lock behind.
NoLockIsLost ==
    \A t \in Tasks, u \in Users :
      /\ Holds(t, u) => InSection(t) /\ subject[t] = u
      /\ Waits(t, u) => pc[t] = "waiting" /\ subject[t] = u

\* Only the task inside the user's section starts a container, and it stays
\* inside: nothing else makes a container run.
StartsOnlyUnderLock ==
    [][\A u \in Users :
         container[u] # "running" /\ container'[u] = "running" =>
           \E t \in Tasks : Holds(t, u) /\ InSection(t) /\ op[t] \in EnsureOps]_vars

\* A hard-deleted account stays deleted, although handlers, background tasks and
\* the sweep may still hold the User object they loaded before and write it back.
DeletedStays == [][\A u \in Users : row[u] = "deleted" => row'[u] = "deleted"]_vars

\* Every request and every background task comes to its end: no lock is lost, no
\* waiter forgotten, whatever fails.
RequestsEnd == \A t \in Tasks : pc[t] # "idle" ~> pc[t] = "idle"

\* The steps that are left of what t does, at most.  user.created commits before its
\* background task calls the section, the deleting handlers after it.
StepsLeft(t) ==
    CASE pc[t] = "select"          -> 12
      [] pc[t] = "selected"        -> 11
      [] pc[t] = "spawned"         -> 8
      [] pc[t] = "waiting"         -> 7
      [] pc[t] = "lockedSelect"    -> 6
      [] pc[t] = "lockedSelected"  -> 5
      [] pc[t] = "lockedCommit"    -> 4
      [] pc[t] = "lockedCommitted" -> 3
      [] pc[t] = "commit"          -> IF op[t] = "clerk_created" THEN 10 ELSE 2
      [] pc[t] = "committed"       -> IF op[t] = "clerk_created" THEN 9 ELSE 1
      [] pc[t] = "idle"            -> 0

\* No request, and no background task it starts, runs in circles: it takes twelve steps
\* at most, whoever it waits for, whatever fails, and whatever others do to its row.
RequestsAdvance ==
    [][\A t \in Tasks : pc[t] # "idle" =>
          \/ StepsLeft(t)' < StepsLeft(t)
          \/ UNCHANGED <<op[t], pc[t], subject[t], seen[t]>>]_vars

\* A user who stays idle is handled by the sweep: the entry does not stay stale, although
\* Docker and the database fail for this user or for others, who come first, become idle
\* again and again, and lose their rows on the way.  Only the entry of a user whose row was
\* deleted is kept for ever (session_manager.py:327).
IdleEntriesAreSwept ==
    \A u \in Users : activity[u] = "stale" /\ row[u] \in Status
                        ~> activity[u] # "stale" \/ row[u] \notin Status

-----------------------------------------------------------------------------
(* What documents and comments say, and the code does not do *)

\* session_manager.py:223: recorded activity prevents the session timeout, so the
\* sweep does not stop the container of a user with a fresh entry.
ActivityPreventsTimeout ==
    [][\A u \in Users : SweepStops /\ sweepUser = u => activity[u] # "fresh"]_vars

\* README.md:162: a deleted user is soft-deleted (SUSPENDED); no webhook or
\* background task undoes it.
SuspendedStays ==
    [][\A u \in Users : row[u] = "suspended" => row'[u] \in {"suspended", "deleted"}]_vars
=============================================================================
