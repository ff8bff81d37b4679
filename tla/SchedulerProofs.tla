---------------------------- MODULE SchedulerProofs ----------------------------
(***************************************************************************)
(* Proofs about Scheduler, for any loops, users, failures and starts: the  *)
(* loops survive, only expired entries leave the audit log, deletions are  *)
(* recorded, and stop() interrupts every pass.                             *)
(***************************************************************************)
EXTENDS Scheduler, TLAPS

\* The lifespan, _running and the cancellations agree: nothing is cancelled while
\* the orchestrator is up, and once stop() was called whatever has received its
\* cancellation is on its way out.
LifespanInv ==
    /\ running <=> server = "up"
    /\ server = "down" => cancelled = {}
    /\ server = "up" => cancelled = {} /\ LoopsSurvive
    /\ \A l \in cancelled : loop[l] # "ended"
    /\ \A l \in Loops : loop[l] = "delete" => l = "cleanup"
    /\ server = "stopping" =>
         \A l \in Loops \ cancelled : loop[l] \in {"close_cancelled", "retry", "ended"}
    /\ server = "down" => \A l \in Loops : loop[l] = "none"

\* What the clean-up holds is expired, and its DELETE spares the critical entries.
CleanupInv == /\ \A e \in expired : e.old
              /\ \A e \in deleted : e.old /\ e.action # "alert"

SchedulerInv == TypeOK /\ LifespanInv /\ CleanupInv

-----------------------------------------------------------------------------
(* What a pass adds to the table, and what it drops *)

LEMMA EntriesAreTyped ==
    ASSUME NEW action \in Actions, NEW u \in Users \cup {NoUser}, NEW old \in BOOLEAN
    PROVE  Entry(action, u, old) \in Entries
BY DEF Entry, Entries

LEMMA CommittedIsTyped ==
    ASSUME TypeOK, NEW l \in Loops
    PROVE  Committed(l) \subseteq Entries
<1>1. Added(l) \subseteq Entries
  <2>1. \A u \in alerts : Entry("alert", u, FALSE) \in Entries
    BY EntriesAreTyped DEF TypeOK, Actions
  <2>2. /\ Entry("audit_log_cleanup", NoUser, FALSE) \in Entries
        /\ Entry("summary", NoUser, FALSE) \in Entries
    BY EntriesAreTyped DEF Actions
  <2> QED
    BY <2>1, <2>2 DEF Added
<1> QED
  BY <1>1 DEF Committed, TypeOK

\* A loop that leaves the commit takes its session's contents along.
LEMMA DiscardIsTyped ==
    ASSUME TypeOK, NEW l \in Loops, NEW where \in LoopPcs, Goto(l, where), Discard(l)
    PROVE  /\ loop' \in [Loops -> LoopPcs]
           /\ alerts' \subseteq Users
           /\ expired' \subseteq Entries /\ deleted' \subseteq Entries
           /\ alerts' # {} => \E m \in Loops : m = "health" /\ loop'[m] = "commit"
           /\ deleted' # {} => \E m \in Loops : m = "cleanup" /\ loop'[m] = "commit"
<1>1. \A m \in Loops : loop'[m] = IF m = l THEN where ELSE loop[m]
  BY DEF TypeOK, Goto
<1>2. loop' \in [Loops -> LoopPcs]
  BY DEF TypeOK, Goto
<1> QED
  BY <1>1, <1>2 DEF TypeOK, Discard

-----------------------------------------------------------------------------
\* Every step keeps the types.
LEMMA TypesKept ==
    ASSUME SchedulerInv, [Next]_vars
    PROVE  TypeOK'
<1>1. CASE Start
  BY <1>1, SchedulerAssumption
     DEF Start, SchedulerInv, LifespanInv, TypeOK, LoopPcs, passVars
<1>2. CASE Stop
  BY <1>2 DEF Stop, SchedulerInv, TypeOK, passVars, bounds
<1>3. CASE StopReturns
  BY <1>3 DEF StopReturns, SchedulerInv, TypeOK, LoopPcs, passVars, bounds
<1>4. CASE Crash
  BY <1>4 DEF Crash, SchedulerInv, TypeOK, LoopPcs, bounds
<1>5. CASE LogEvent
  <2>1. PICK action \in Logged : log' = log \cup {Entry(action, NoUser, FALSE)}
    BY <1>5 DEF LogEvent
  <2>2. Entry(action, NoUser, FALSE) \in Entries
    BY <2>1, EntriesAreTyped, SchedulerAssumption DEF Actions
  <2> QED
    BY <1>5, <2>1, <2>2 DEF LogEvent, SchedulerInv, TypeOK, passVars, loopVars, bounds
<1>6. ASSUME NEW l \in Loops, Wake(l)
      PROVE  TypeOK'
  BY <1>6 DEF Wake, At, Goto, SchedulerInv, TypeOK, LoopPcs, InPass, bounds
<1>7. ASSUME NEW l \in Loops, Read(l)
      PROVE  TypeOK'
  BY <1>7
     DEF Read, At, Goto, Check, Unreachable, SchedulerInv, TypeOK, LoopPcs, InPass, bounds
<1>8. ASSUME NEW l \in Loops, Delete(l)
      PROVE  TypeOK'
  <2>1. \A m \in Loops : loop'[m] = IF m = l THEN "commit" ELSE loop[m]
    BY <1>8 DEF Delete, Goto, SchedulerInv, TypeOK
  <2>2. l = "cleanup"
    BY <1>8 DEF Delete, At, SchedulerInv, LifespanInv
  <2> QED
    BY <1>8, <2>1, <2>2 DEF Delete, Goto, SchedulerInv, TypeOK, LoopPcs, InPass, bounds
<1>9. ASSUME NEW l \in Loops, Commit(l)
      PROVE  TypeOK'
  <2>1. "close" \in LoopPcs /\ Goto(l, "close") /\ Discard(l)
    BY <1>9 DEF Commit, LoopPcs, InPass
  <2>2. log' \subseteq Entries
    BY <1>9, CommittedIsTyped DEF Commit, SchedulerInv
  <2> QED
    BY <1>9, <2>1, <2>2, DiscardIsTyped DEF Commit, SchedulerInv, TypeOK, bounds
<1>10. ASSUME NEW l \in Loops, Close(l)
      PROVE  TypeOK'
  BY <1>10 DEF Close, At, Goto, Again, SchedulerInv, TypeOK, LoopPcs, passVars, bounds
<1>11. ASSUME NEW l \in Loops, Retry(l)
      PROVE  TypeOK'
  BY <1>11 DEF Retry, At, Goto, Again, SchedulerInv, TypeOK, LoopPcs, passVars, bounds
<1>12. ASSUME NEW l \in Loops, Cancel(l)
      PROVE  TypeOK'
  <2>1. AfterCancel(l) \in LoopPcs /\ Goto(l, AfterCancel(l)) /\ Discard(l)
    BY <1>12 DEF Cancel, LoopPcs, InPass, AfterCancel
  <2>2. log' \subseteq Entries
    BY <1>12, CommittedIsTyped DEF Cancel, SchedulerInv, TypeOK
  <2> QED
    BY <1>12, <2>1, <2>2, DiscardIsTyped DEF Cancel, SchedulerInv, TypeOK, bounds
<1>13. ASSUME NEW l \in Loops, CloseCancelled(l)
      PROVE  TypeOK'
  BY <1>13, SchedulerAssumption
     DEF CloseCancelled, At, Goto, AfterFailure, SchedulerInv, TypeOK, LoopPcs, passVars
<1>14. ASSUME NEW l \in Loops, StatementFails(l)
      PROVE  TypeOK'
  <2>1. PICK where \in AfterRaise(l) : Goto(l, where)
    BY <1>14 DEF StatementFails
  <2>2. where \in LoopPcs /\ Discard(l)
    BY <1>14, <2>1 DEF StatementFails, AfterRaise, LoopPcs, InPass
  <2>3. log' \subseteq Entries
    BY <1>14, CommittedIsTyped DEF StatementFails, SchedulerInv, TypeOK
  <2> QED
    BY <1>14, <2>1, <2>2, <2>3, DiscardIsTyped, SchedulerAssumption
       DEF StatementFails, SchedulerInv, TypeOK
<1>15. ASSUME NEW l \in Loops, CloseFails(l)
      PROVE  TypeOK'
  BY <1>15, SchedulerAssumption
     DEF CloseFails, At, Goto, AfterFailure, SchedulerInv, TypeOK, LoopPcs, passVars
<1>16. ASSUME NEW e \in Entries, Age(e)
      PROVE  TypeOK'
  <2>1. Aged(e) \in Entries
    BY <1>16 DEF Aged, Entries
  <2> QED
    BY <1>16, <2>1 DEF Age, SchedulerInv, TypeOK, passVars, loopVars, bounds
<1>17. CASE UNCHANGED vars
  BY <1>17 DEF vars, loopVars, passVars, bounds, SchedulerInv, TypeOK
<1> QED
  BY <1>1, <1>2, <1>3, <1>4, <1>5, <1>6, <1>7, <1>8, <1>9, <1>10, <1>11, <1>12, <1>13, <1>14, <1>15, <1>16, <1>17
     DEF Next, LoopStep

\* Every step keeps lifespan, tasks and cancellations in agreement.
LEMMA LifespanKept ==
    ASSUME SchedulerInv, [Next]_vars
    PROVE  LifespanInv'
<1>1. CASE Start
  BY <1>1 DEF Start, SchedulerInv, LifespanInv, LoopsSurvive
<1>2. CASE Stop
  BY <1>2 DEF Stop, SchedulerInv, LifespanInv
<1>3. CASE StopReturns
  BY <1>3 DEF StopReturns, SchedulerInv, TypeOK, LifespanInv
<1>4. CASE Crash
  BY <1>4 DEF Crash, LifespanInv
<1>5. CASE LogEvent
  BY <1>5 DEF LogEvent, SchedulerInv, LifespanInv, LoopsSurvive, loopVars
<1>6. ASSUME NEW l \in Loops, Wake(l)
      PROVE  LifespanInv'
  BY <1>6 DEF Wake, At, Goto, SchedulerInv, LifespanInv, LoopsSurvive
<1>7. ASSUME NEW l \in Loops, Read(l)
      PROVE  LifespanInv'
  BY <1>7 DEF Read, At, Goto, SchedulerInv, LifespanInv, LoopsSurvive
<1>8. ASSUME NEW l \in Loops, Delete(l)
      PROVE  LifespanInv'
  BY <1>8 DEF Delete, At, Goto, SchedulerInv, LifespanInv, LoopsSurvive
<1>9. ASSUME NEW l \in Loops, Commit(l)
      PROVE  LifespanInv'
  BY <1>9 DEF Commit, At, Goto, SchedulerInv, LifespanInv, LoopsSurvive
<1>10. ASSUME NEW l \in Loops, Close(l)
      PROVE  LifespanInv'
  BY <1>10 DEF Close, At, Goto, Again, SchedulerInv, LifespanInv, LoopsSurvive
<1>11. ASSUME NEW l \in Loops, Retry(l)
      PROVE  LifespanInv'
  BY <1>11 DEF Retry, At, Goto, Again, SchedulerInv, LifespanInv, LoopsSurvive
<1>12. ASSUME NEW l \in Loops, Cancel(l)
      PROVE  LifespanInv'
  BY <1>12 DEF Cancel, Goto, AfterCancel, SchedulerInv, TypeOK, LifespanInv
<1>13. ASSUME NEW l \in Loops, CloseCancelled(l)
      PROVE  LifespanInv'
  BY <1>13
     DEF CloseCancelled, At, Goto, AfterFailure, SchedulerInv, TypeOK, LifespanInv,
         LoopsSurvive
<1>14. ASSUME NEW l \in Loops, StatementFails(l)
      PROVE  LifespanInv'
  BY <1>14 DEF StatementFails, AfterRaise, At, Goto, SchedulerInv, LifespanInv, LoopsSurvive
<1>15. ASSUME NEW l \in Loops, CloseFails(l)
      PROVE  LifespanInv'
  BY <1>15 DEF CloseFails, At, Goto, AfterFailure, SchedulerInv, LifespanInv, LoopsSurvive
<1>16. ASSUME NEW e \in Entries, Age(e)
      PROVE  LifespanInv'
  BY <1>16 DEF Age, SchedulerInv, LifespanInv, LoopsSurvive, loopVars
<1>17. CASE UNCHANGED vars
  BY <1>17 DEF vars, loopVars, SchedulerInv, LifespanInv, LoopsSurvive
<1> QED
  BY <1>1, <1>2, <1>3, <1>4, <1>5, <1>6, <1>7, <1>8, <1>9, <1>10, <1>11, <1>12, <1>13, <1>14, <1>15, <1>16, <1>17
     DEF Next, LoopStep

\* Every step keeps the clean-up to expired entries.
LEMMA CleanupKept ==
    ASSUME SchedulerInv, [Next]_vars
    PROVE  CleanupInv'
<1>1. CASE Start
  BY <1>1 DEF Start, SchedulerInv, CleanupInv, passVars
<1>2. CASE Stop
  BY <1>2 DEF Stop, SchedulerInv, CleanupInv, passVars
<1>3. CASE StopReturns
  BY <1>3 DEF StopReturns, SchedulerInv, CleanupInv, passVars
<1>4. CASE Crash
  BY <1>4 DEF Crash, CleanupInv
<1>5. CASE LogEvent
  BY <1>5 DEF LogEvent, SchedulerInv, CleanupInv, passVars
<1>6. ASSUME NEW l \in Loops, Wake(l)
      PROVE  CleanupInv'
  BY <1>6 DEF Wake, SchedulerInv, CleanupInv
<1>7. ASSUME NEW l \in Loops, Read(l)
      PROVE  CleanupInv'
  BY <1>7 DEF Read, SchedulerInv, CleanupInv
<1>8. ASSUME NEW l \in Loops, Delete(l)
      PROVE  CleanupInv'
  BY <1>8 DEF Delete, Disposable, Critical, SchedulerInv, CleanupInv
<1>9. ASSUME NEW l \in Loops, Commit(l)
      PROVE  CleanupInv'
  BY <1>9 DEF Commit, Discard, SchedulerInv, CleanupInv
<1>10. ASSUME NEW l \in Loops, Close(l)
      PROVE  CleanupInv'
  BY <1>10 DEF Close, SchedulerInv, CleanupInv, passVars
<1>11. ASSUME NEW l \in Loops, Retry(l)
      PROVE  CleanupInv'
  BY <1>11 DEF Retry, SchedulerInv, CleanupInv, passVars
<1>12. ASSUME NEW l \in Loops, Cancel(l)
      PROVE  CleanupInv'
  BY <1>12 DEF Cancel, Discard, SchedulerInv, CleanupInv
<1>13. ASSUME NEW l \in Loops, CloseCancelled(l)
      PROVE  CleanupInv'
  BY <1>13 DEF CloseCancelled, SchedulerInv, CleanupInv, passVars
<1>14. ASSUME NEW l \in Loops, StatementFails(l)
      PROVE  CleanupInv'
  BY <1>14 DEF StatementFails, Discard, SchedulerInv, CleanupInv
<1>15. ASSUME NEW l \in Loops, CloseFails(l)
      PROVE  CleanupInv'
  BY <1>15 DEF CloseFails, SchedulerInv, CleanupInv, passVars
<1>16. ASSUME NEW e \in Entries, Age(e)
      PROVE  CleanupInv'
  BY <1>16 DEF Age, SchedulerInv, CleanupInv, passVars
<1>17. CASE UNCHANGED vars
  BY <1>17 DEF vars, SchedulerInv, CleanupInv, passVars
<1> QED
  BY <1>1, <1>2, <1>3, <1>4, <1>5, <1>6, <1>7, <1>8, <1>9, <1>10, <1>11, <1>12, <1>13, <1>14, <1>15, <1>16, <1>17
     DEF Next, LoopStep

LEMMA SchedulerInit ==
    ASSUME Init
    PROVE  SchedulerInv
<1>1. TypeOK
  <2>1. 0 \in 0..MaxFaults /\ 0 \in 0..MaxStarts
    BY SchedulerAssumption
  <2>2. loop \in [Loops -> LoopPcs]
    BY DEF Init, LoopPcs
  <2> QED
    BY <2>1, <2>2 DEF Init, TypeOK
<1>2. LifespanInv
  BY DEF Init, LifespanInv
<1>3. CleanupInv
  BY DEF Init, CleanupInv
<1> QED
  BY <1>1, <1>2, <1>3 DEF SchedulerInv

-----------------------------------------------------------------------------
(* What leaves the table *)

\* A transaction removes expired entries that are not critical, and leaves a record.
LEMMA CommittedSpares ==
    ASSUME SchedulerInv, NEW l \in Loops, NEW e \in log \ Committed(l)
    PROVE  /\ e.old /\ e.action # "alert"
           /\ Entry("audit_log_cleanup", NoUser, FALSE) \in Committed(l)
<1>1. l = "cleanup" /\ e \in deleted
  BY DEF Committed
<1> QED
  BY <1>1 DEF SchedulerInv, CleanupInv, Committed, Added

\* The statements that change the table.
LEMMA TableChanges ==
    ASSUME [Next]_vars, log' # log
    PROVE  \/ \E l \in Loops : log' = Committed(l)
           \/ log \subseteq log'
           \/ \E e \in Entries : Age(e)
<1>1. ASSUME NEW l \in Loops,
             Commit(l) \/ StatementFails(l) \/ Cancel(l)
      PROVE  log' \in {log, Committed(l)}
  BY <1>1 DEF Commit, StatementFails, Cancel
<1>2. ASSUME NEW l \in Loops,
             \/ Wake(l) \/ Read(l) \/ Delete(l) \/ Close(l) \/ Retry(l)
             \/ CloseCancelled(l) \/ CloseFails(l)
      PROVE  log' = log
  BY <1>2 DEF Wake, Read, Delete, Close, Retry, CloseCancelled, CloseFails
<1>3. ASSUME Start \/ Stop \/ StopReturns \/ Crash \/ UNCHANGED vars
      PROVE  log' = log
  BY <1>3 DEF Start, Stop, StopReturns, Crash, vars
<1>4. LogEvent => log \subseteq log'
  BY DEF LogEvent
<1> QED
  BY <1>1, <1>2, <1>3, <1>4 DEF Next, LoopStep

LEMMA ExpiredGo ==
    ASSUME SchedulerInv, [Next]_vars, NEW e \in log \ log'
    PROVE  IF e.old
           THEN /\ e.action # "alert"
                /\ Entry("audit_log_cleanup", NoUser, FALSE) \in log'
           ELSE Aged(e) \in log'
<1>1. CASE \E l \in Loops : log' = Committed(l)
  BY <1>1, CommittedSpares
<1>2. CASE \E f \in Entries : Age(f)
  BY <1>2 DEF Age
<1> QED
  BY <1>1, <1>2, TableChanges

\* The only steps that take a loop to a commit, and only a loop that is not stopped.
LEMMA Interrupts ==
    ASSUME SchedulerInv, [Next]_vars, server = "stopping",
           NEW m \in Loops, loop'[m] = "commit"
    PROVE  loop[m] = "commit"
<1>1. \A l \in Loops \ cancelled : loop[l] \in {"close_cancelled", "retry", "ended"}
  BY DEF SchedulerInv, LifespanInv
<1>2. ASSUME NEW l \in Loops, LoopStep(l) \/ StatementFails(l) \/ CloseFails(l)
      PROVE  loop[m] = "commit"
  <2>1. ~Read(l) /\ ~Delete(l)
    BY <1>1 DEF Read, Delete, At
  <2>2. StatementFails(l) => Goto(l, "close")
    <3>1. StatementFails(l) => ~At(l, "read")
      BY <1>1 DEF At
    <3>2. StatementFails(l) => loop[l] # "read"
      BY <3>1 DEF StatementFails, At
    <3> QED
      BY <3>2 DEF StatementFails, AfterRaise
  <2>3. \E where \in LoopPcs \ {"commit"} : Goto(l, where)
    BY <1>2, <2>1, <2>2 DEF LoopStep, Wake, Commit, Close, Retry, Cancel, CloseCancelled,
                            CloseFails, AfterCancel, AfterFailure, Again, LoopPcs, InPass,
                            SchedulerInv, TypeOK
  <2> QED
    BY <2>3 DEF Goto, SchedulerInv, TypeOK
<1>3. ASSUME \/ Start \/ Stop \/ StopReturns \/ Crash \/ LogEvent \/ UNCHANGED vars
             \/ \E e \in Entries : Age(e)
      PROVE  loop[m] = "commit"
  BY <1>3 DEF Start, Stop, StopReturns, Crash, LogEvent, Age, vars, loopVars
<1> QED
  BY <1>2, <1>3 DEF Next

-----------------------------------------------------------------------------
(* The theorems *)

\* Lifespan, tasks, cancellations and the clean-up's session agree in every state.
THEOREM SchedulerInvariant == Spec => []SchedulerInv
<1>1. Init => SchedulerInv
  BY SchedulerInit
<1>2. SchedulerInv /\ [Next]_vars => SchedulerInv'
  BY TypesKept, LifespanKept, CleanupKept DEF SchedulerInv
<1> QED
  BY <1>1, <1>2, PTL DEF Spec

\* Every variable keeps its type, and a closed session holds nothing.
THEOREM SchedulerTypes == Spec => []TypeOK
<1>1. SchedulerInv => TypeOK
  BY DEF SchedulerInv
<1> QED
  BY <1>1, SchedulerInvariant, PTL

\* No failure of a statement or of a close ends a loop while the orchestrator is up
\* (scheduler.py:93-95).
THEOREM LoopsKeepRunning == Spec => []LoopsSurvive
<1>1. SchedulerInv => LoopsSurvive
  BY DEF SchedulerInv, LifespanInv, LoopsSurvive
<1> QED
  BY <1>1, SchedulerInvariant, PTL

\* Young and critical entries are never deleted (scheduler.py:366-369).
THEOREM YoungAndCriticalStay == Spec => OnlyExpiredGo
<1>1. SchedulerInv /\ [Next]_vars =>
        [\A e \in log \ log' : IF e.old THEN e.action # "alert" ELSE Aged(e) \in log']_vars
  BY ExpiredGo
<1> QED
  BY <1>1, SchedulerInvariant, PTL DEF Spec, OnlyExpiredGo

\* Deleted entries leave a record in the same transaction (scheduler.py:370-382).
THEOREM DeletionsLeaveRecords == Spec => DeletionsAreRecorded
<1>1. SchedulerInv /\ [Next]_vars =>
        [(\E e \in log \ log' : e.old)
           => Entry("audit_log_cleanup", NoUser, FALSE) \in log']_vars
  BY ExpiredGo
<1> QED
  BY <1>1, SchedulerInvariant, PTL DEF Spec, DeletionsAreRecorded

\* Once stop() was called no pass goes on to its commit (scheduler.py:56-61).
THEOREM StopInterruptsPasses == Spec => StopInterrupts
<1>1. SchedulerInv /\ [Next]_vars =>
        [server = "stopping" =>
           \A l \in Loops : loop'[l] = "commit" => loop[l] = "commit"]_vars
  BY Interrupts
<1> QED
  BY <1>1, SchedulerInvariant, PTL DEF Spec, StopInterrupts
================================================================================
