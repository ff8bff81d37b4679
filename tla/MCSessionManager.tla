-------------------------- MODULE MCSessionManager --------------------------
(***************************************************************************)
(* SessionManager for TLC.  Tasks and lock objects are interchangeable, so *)
(* runs without liveness properties use symmetry.                          *)
(***************************************************************************)
EXTENDS SessionManager, TLC

\* Requests whose only writes to users.status are under the lock.
LockedEvents == {"clerk_created", "admin_create", "ensure", "spin_down",
                 "admin_spin_down", "refresh", "admin_delete"}

\* The writers of users.status that take no lock, against the sweep.
UnlockedEvents == {"clerk_created", "clerk_deleted", "admin_update", "admin_delete", "idle"}

\* How two users come by containers and lose them, or their rows, while the sweep goes
\* through its snapshot.
SweepEvents == {"admin_create", "ensure", "spin_down", "admin_update", "admin_delete", "idle"}

\* What the counterexamples of the documented behaviours need.
DeletionEvents == {"clerk_created", "clerk_deleted"}
IdleEvents == {"clerk_created", "ensure", "spin_down", "refresh", "idle"}

Symmetry == Permutations(Tasks) \cup Permutations(Users) \cup Permutations(Locks)
=============================================================================
