------------------------------ MODULE UserMutex ------------------------------
(***************************************************************************)
(* What the per-user locks of SessionManager promise: at every moment at   *)
(* most one task is inside the locked section of a user.  A task enters    *)
(* the section of a user that nobody is in, leaves it, and a restart of    *)
(* the orchestrator empties every section.                                 *)
(*                                                                         *)
(* SpinLocks implements this specification with asyncio locks kept in a    *)
(* weak dictionary.                                                        *)
(***************************************************************************)

CONSTANTS Tasks,    \* the coroutines that may call the locked operations
          Users     \* user ids

VARIABLE inside     \* user -> the tasks that are in the user's locked section

Init == inside = [u \in Users |-> {}]

Enter(t, u) ==
    /\ inside[u] = {}
    /\ inside' = [inside EXCEPT ![u] = {t}]

Leave(t, u) ==
    /\ inside[u] = {t}
    /\ inside' = [inside EXCEPT ![u] = {}]

Restart == inside' = [u \in Users |-> {}]

Next == \/ \E t \in Tasks, u \in Users : Enter(t, u) \/ Leave(t, u)
        \/ Restart

Spec == Init /\ [][Next]_inside
=============================================================================
