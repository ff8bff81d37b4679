------------------------------- MODULE Scheduler -------------------------------
(***************************************************************************)
(* The background tasks of the orchestrator and the audit log they write   *)
(* and clean up: orchestrator/app/scheduler.py, started and stopped by the *)
(* lifespan of main.py.                                                    *)
(*                                                                         *)
(* Each loop sleeps, makes a pass in a database session of its own, and    *)
(* sleeps again.  Awaits that suspend a loop are the sleeps, the SQL       *)
(* statements and the closing of the session; Docker calls are synchronous,*)
(* so a health pass checks all its users in one step.                      *)
(*                                                                         *)
(* audit_logs is a set: entries that agree in action, user and age are     *)
(* one.  Young means within the retention period.                          *)
(***************************************************************************)
EXTENDS Naturals, FiniteSets

CONSTANTS Users,
          NoUser,
          Service,      \* Docker: the container of each user who is ACTIVE
          Loops,        \* the loops in use
          Logged,       \* the actions of the entries that handlers write
          MaxFaults,    \* bound: statements that fail
          MaxStarts     \* bound: starts of the orchestrator

LoopNames == {"health", "analytics", "cleanup", "db_health"}

\* What handlers log: the deletion of a user, as admin.py and clerk.py spell it, and
\* everything else.
HandlerActions == {"event", "user.deleted"}

ASSUME SchedulerAssumption ==
    /\ NoUser \notin Users
    /\ Service \in [Users -> {"not_active", "running", "down", "raises"}]
    /\ Loops \subseteq LoopNames
    /\ Logged \subseteq HandlerActions
    /\ MaxFaults \in Nat
    /\ MaxStarts \in Nat

\* Entries of the handlers, of the health pass, of the passes that count, and of
\* the clean-up.
Actions == HandlerActions \cup {"alert", "summary", "audit_log_cleanup"}

Entry(action, user, old) == [action |-> action, user |-> user, old |-> old]
Entries == [action : Actions, user : Users \cup {NoUser}, old : BOOLEAN]

VARIABLES
    server,    \* the lifespan: down, up, or in scheduler.stop()
    running,   \* _running
    loop,      \* where each task is suspended
    cancelled, \* tasks with a cancellation that has not reached them
    alerts,    \* users for whom the health pass has added an entry to its session
    expired,   \* entries older than the cutoff date of the clean-up pass
    deleted,   \* entries its DELETE has removed, uncommitted
    log,       \* the committed table
    faults, starts

loopVars == <<loop, cancelled>>
passVars == <<alerts, expired, deleted>>
bounds   == <<faults, starts>>
vars == <<server, running, loopVars, passVars, log, bounds>>

InPass == {"read", "delete", "commit", "close", "close_cancelled"}
LoopPcs == InPass \cup {"none", "sleep", "retry", "ended"}

\* A session holds changes only between the statement that made them and the commit.
TypeOK ==
    /\ server \in {"down", "up", "stopping"}
    /\ running \in BOOLEAN
    /\ loop \in [Loops -> LoopPcs]
    /\ cancelled \subseteq Loops
    /\ alerts \subseteq Users
    /\ expired \subseteq Entries
    /\ deleted \subseteq Entries
    /\ log \subseteq Entries
    /\ alerts # {} => \E l \in Loops : l = "health" /\ loop[l] = "commit"
    /\ deleted # {} => \E l \in Loops : l = "cleanup" /\ loop[l] = "commit"
    /\ faults \in 0..MaxFaults
    /\ starts \in 0..MaxStarts

Init ==
    /\ server = "down"
    /\ running = FALSE
    /\ loop = [l \in Loops |-> "none"]
    /\ cancelled = {}
    /\ alerts = {}
    /\ expired = {}
    /\ deleted = {}
    /\ log = {}
    /\ faults = 0
    /\ starts = 0

-----------------------------------------------------------------------------
(* The lifespan *)

\* scheduler.start(): one task per loop.  Each runs to its first sleep.
Start ==
    /\ server = "down"
    /\ starts < MaxStarts
    /\ starts' = starts + 1
    /\ server' = "up"
    /\ running' = TRUE
    /\ loop' = [l \in Loops |-> "sleep"]
    /\ UNCHANGED <<cancelled, passVars, log, faults>>

\* Mutant of Stop: _running is cleared after the gather.
StopKeepsRunning ==
    /\ server = "up"
    /\ server' = "stopping"
    /\ cancelled' = {l \in Loops : loop[l] # "ended"}
    /\ UNCHANGED <<running, loop, passVars, log, bounds>>

\* scheduler.stop() up to its gather.
Stop ==
    /\ server = "up"
    /\ server' = "stopping"
    /\ running' = FALSE
    /\ cancelled' = {l \in Loops : loop[l] # "ended"}
    /\ UNCHANGED <<loop, passVars, log, bounds>>

\* ... and after it.
StopReturns ==
    /\ server = "stopping"
    /\ \A l \in Loops : loop[l] = "ended"
    /\ server' = "down"
    /\ loop' = [l \in Loops |-> "none"]
    /\ UNCHANGED <<running, cancelled, passVars, log, bounds>>

\* The process dies: the database undoes what was not committed.
Crash ==
    /\ server # "down"
    /\ server' = "down"
    /\ running' = FALSE
    /\ loop' = [l \in Loops |-> "none"]
    /\ cancelled' = {}
    /\ alerts' = {}
    /\ expired' = {}
    /\ deleted' = {}
    /\ UNCHANGED <<log, bounds>>

-----------------------------------------------------------------------------
(* The loops *)

\* The loop is resumed by its await, not by a cancellation.
At(l, where) == loop[l] = where /\ l \notin cancelled

Goto(l, where) == loop' = [loop EXCEPT ![l] = where]

\* `while self._running` after a pass or a retry.
Again == IF running THEN "sleep" ELSE "ended"

\* The interval is over: the pass creates its session, and the clean-up its cutoff
\* date; its first statement is on the way.
Wake(l) ==
    /\ At(l, "sleep")
    /\ Goto(l, IF running THEN "read" ELSE "ended")
    /\ expired' = IF running /\ l = "cleanup" THEN {e \in log : e.old} ELSE expired
    /\ UNCHANGED <<server, running, cancelled, alerts, deleted, log, bounds>>

\* The users whose container does not run, or whose check raises.
Unreachable == {u \in Users : Service[u] \in {"down", "raises"}}

\* Mutant of Check: an exception ends the checks.
CheckUntilRaise == IF \E u \in Users : Service[u] = "raises" THEN {} ELSE Unreachable

\* What the health pass reports.
Check == Unreachable

\* The SELECTs of the pass return.
Read(l) ==
    /\ At(l, "read")
    /\ Goto(l, IF l = "cleanup" THEN "delete" ELSE "commit")
    /\ alerts' = IF l = "health" THEN Check ELSE alerts
    /\ UNCHANGED <<server, running, cancelled, expired, deleted, log, bounds>>

\* Mutant of Critical: the alerts are forgotten.
CriticalForgotten == {}

\* critical_actions, as far as the code writes them: it has user_deleted, which no
\* handler writes.
Critical == {"alert"}

\* Mutant of Disposable: in_ for notin_.
DisposableSwapped(e) == e.action \in Critical

Disposable(e) == e.action \notin Critical

\* The DELETE returns.
Delete(l) ==
    /\ At(l, "delete")
    /\ Goto(l, "commit")
    /\ deleted' = {e \in log \cap expired : Disposable(e)}
    /\ UNCHANGED <<server, running, cancelled, alerts, expired, log, bounds>>

\* The entries the pass has added to its session.
Added(l) == CASE l = "health"  -> {Entry("alert", u, FALSE) : u \in alerts}
              [] l = "cleanup" -> {Entry("audit_log_cleanup", NoUser, FALSE)}
              [] OTHER         -> {Entry("summary", NoUser, FALSE)}

\* Mutant of Committed: the clean-up commits its DELETE before it records it.
CommittedUnrecorded(l) == IF l = "cleanup" THEN log \ deleted ELSE log \cup Added(l)

\* The table after the transaction of the pass.
Committed(l) == (IF l = "cleanup" THEN log \ deleted ELSE log) \cup Added(l)

\* The pass lets go of its session's contents.
Discard(l) ==
    /\ alerts' = IF l = "health" THEN {} ELSE alerts
    /\ expired' = IF l = "cleanup" THEN {} ELSE expired
    /\ deleted' = IF l = "cleanup" THEN {} ELSE deleted

Commit(l) ==
    /\ At(l, "commit")
    /\ Goto(l, "close")
    /\ log' = Committed(l)
    /\ Discard(l)
    /\ UNCHANGED <<server, running, cancelled, bounds>>

\* Where a pass goes on whose statement raises: to its end, but the check of the
\* database logs the failure of its first two statements and may reach its commit.
AfterRaise(l) ==
    IF l = "db_health" /\ loop[l] = "read" THEN {"close", "commit"} ELSE {"close"}

\* A statement raises; the pass logs the exception.  A commit may have taken effect.
StatementFails(l) ==
    /\ \E where \in {"read", "delete", "commit"} : At(l, where)
    /\ faults < MaxFaults
    /\ faults' = faults + 1
    /\ \E where \in AfterRaise(l) : Goto(l, where)
    /\ log' \in IF loop[l] = "commit" THEN {log, Committed(l)} ELSE {log}
    /\ Discard(l)
    /\ UNCHANGED <<server, running, cancelled, starts>>

\* finally: db.close().
Close(l) ==
    /\ At(l, "close")
    /\ Goto(l, Again)
    /\ UNCHANGED <<server, running, cancelled, passVars, log, bounds>>

\* Mutant of AfterFailure: the exception leaves the loop.
AfterFailureUncaught == "ended"

\* `except Exception` of the loop: wait a minute.
AfterFailure == "retry"

\* db.close() raises.
CloseFails(l) ==
    /\ At(l, "close")
    /\ faults < MaxFaults
    /\ faults' = faults + 1
    /\ Goto(l, AfterFailure)
    /\ UNCHANGED <<server, running, cancelled, passVars, log, starts>>

Retry(l) ==
    /\ At(l, "retry")
    /\ Goto(l, Again)
    /\ UNCHANGED <<server, running, cancelled, passVars, log, bounds>>

\* Mutant of AfterCancel: the pass goes on to its commit, as if it had caught the
\* CancelledError with the exceptions of a check.
AfterCancelIgnored(l) == IF loop[l] = "read" THEN "read" ELSE "ended"

\* Where a CancelledError takes the loop: through `finally` if a pass is under way
\* (its session is still to be closed), else out of the loop.
AfterCancel(l) == IF loop[l] \in {"read", "delete", "commit"} THEN "close_cancelled" ELSE "ended"

\* The cancellation reaches the loop in place of the result it waits for; a commit
\* may have taken effect.
Cancel(l) ==
    /\ l \in cancelled
    /\ cancelled' = cancelled \ {l}
    /\ Goto(l, AfterCancel(l))
    /\ log' \in IF loop[l] = "commit" THEN {log, Committed(l)} ELSE {log}
    /\ Discard(l)
    /\ UNCHANGED <<server, running, bounds>>

\* The session of a cancelled pass is closed, and the loop breaks; if the closing
\* raises, it waits a minute and finds _running false.
CloseCancelled(l) ==
    /\ At(l, "close_cancelled")
    /\ \/ /\ Goto(l, "ended")
          /\ UNCHANGED faults
       \/ /\ faults < MaxFaults
          /\ faults' = faults + 1
          /\ Goto(l, AfterFailure)
    /\ UNCHANGED <<server, running, cancelled, passVars, log, starts>>

-----------------------------------------------------------------------------
(* The environment *)

\* A handler commits an audit entry.
LogEvent ==
    /\ server = "up"
    /\ \E action \in Logged : log' = log \cup {Entry(action, NoUser, FALSE)}
    /\ UNCHANGED <<server, running, loopVars, passVars, bounds>>

Aged(e) == [e EXCEPT !.old = TRUE]

\* An entry passes the retention period.
Age(e) ==
    /\ e \in log
    /\ ~e.old
    /\ log' = (log \ {e}) \cup {Aged(e)}
    /\ UNCHANGED <<server, running, loopVars, passVars, bounds>>

LoopStep(l) == Wake(l) \/ Read(l) \/ Delete(l) \/ Commit(l) \/ Close(l) \/ Retry(l)
               \/ Cancel(l) \/ CloseCancelled(l)

Next == \/ Start \/ Stop \/ StopReturns \/ Crash
        \/ \E l \in Loops : LoopStep(l) \/ StatementFails(l) \/ CloseFails(l)
        \/ LogEvent
        \/ \E e \in Entries : Age(e)

Spec == Init /\ [][Next]_vars

\* The event loop resumes every task whose await is over, and every interval ends.
Fairness == /\ \A l \in Loops : WF_vars(LoopStep(l))
            /\ WF_vars(StopReturns)

FairSpec == Spec /\ Fairness

-----------------------------------------------------------------------------
(* Properties *)

\* As long as the orchestrator is up no loop is gone: neither a failing statement
\* nor a failing close ends it.
LoopsSurvive ==
    server = "up" => \A l \in Loops : loop[l] \notin {"none", "ended", "close_cancelled"}

\* An entry leaves the table only if it is older than the retention period and not
\* critical; all it can do before is to grow old.
OnlyExpiredGo ==
    [][\A e \in log \ log' : IF e.old THEN e.action # "alert" ELSE Aged(e) \in log']_vars

\* Whenever entries are deleted the table tells so: the DELETE and its record are
\* committed together or not at all, wherever a failure, a cancellation or a crash
\* falls.
DeletionsAreRecorded ==
    [][(\E e \in log \ log' : e.old) => Entry("audit_log_cleanup", NoUser, FALSE) \in log']_vars

\* stop() interrupts: no pass goes on to its commit once stop() has been called.
StopInterrupts ==
    [][server = "stopping" =>
         \A l \in Loops : loop'[l] = "commit" => loop[l] = "commit"]_vars

\* stop() returns, although the closing of a session may fail while it waits.
StopEnds == server = "stopping" ~> server = "down"

\* An expired entry that nothing asks to keep - a count, or what a handler logged other
\* than a deletion - is deleted in the end, although statements, commits and closings fail
\* and young entries keep coming, unless the orchestrator goes down.
ExpiredEntriesGo ==
    \A e \in Entries : e.old /\ e.action \in {"event", "summary"} =>
       (server = "up" /\ e \in log ~> server # "up" \/ e \notin log)

\* A container that does not run is reported, whatever the checks of other users
\* do, unless the orchestrator goes down.
AlertsArrive ==
    \A u \in Users :
       server = "up" /\ Service[u] \in {"down", "raises"}
         ~> server # "up" \/ \E old \in BOOLEAN : Entry("alert", u, old) \in log

-----------------------------------------------------------------------------
(* What docstring and comment say, and the code does not do *)

\* scheduler.py:323: the clean-up "Preserves critical logs (user deletions, security
\* events)"; scheduler.py:373, of the record it makes of itself: "this won't be deleted".
\* Whatever its age, neither leaves the table.
CriticalLogsStay ==
    [][\A e \in log : e.action \in {"user.deleted", "audit_log_cleanup"} =>
          e \in log' \/ Aged(e) \in log']_vars
=============================================================================
