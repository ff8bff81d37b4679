---------------------------- MODULE IdentityRegistry ----------------------------
(***************************************************************************)
(* What the links between Clerk identities and accounts promise while      *)
(* Clerk hands out addresses: an account without an identity is given one  *)
(* that has no account, and that is final for everyone whose addresses     *)
(* nobody else has ever had.  Between the others an account may change     *)
(* hands; nobody ever has two.                                             *)
(*                                                                         *)
(* Accounts implements this specification with a unique column that        *)
(* webhooks and token dependencies fill in concurrently.                   *)
(***************************************************************************)

CONSTANTS Identities,   \* Clerk user ids
          Addresses,    \* e-mail addresses
          Accounts,     \* rows of the users table
          NoIdentity    \* nobody

VARIABLES owner,        \* account -> the identity it belongs to
          known         \* identity -> the addresses it has had

Init == /\ owner = [a \in Accounts |-> NoIdentity]
        /\ known = [i \in Identities |-> {}]

\* An identity is given an address.
Acquire(i, e) ==
    /\ known' = [known EXCEPT ![i] = @ \cup {e}]
    /\ UNCHANGED owner

HasNone(i) == \A b \in Accounts : owner[b] # i

Link(a, i) ==
    /\ owner[a] = NoIdentity
    /\ HasNone(i)
    /\ owner' = [owner EXCEPT ![a] = i]
    /\ UNCHANGED known

\* Nobody else has ever had an address of i.
Private(i) == \A j \in Identities \ {i} : known[i] \cap known[j] = {}

\* The account of j passes to i.
HandOver(a, j, i) ==
    /\ owner[a] = j
    /\ ~Private(j) /\ ~Private(i)
    /\ HasNone(i)
    /\ owner' = [owner EXCEPT ![a] = i]
    /\ UNCHANGED known

Next == \/ \E i \in Identities, e \in Addresses : Acquire(i, e)
        \/ \E a \in Accounts, i \in Identities :
             Link(a, i) \/ \E j \in Identities : HandOver(a, j, i)

Spec == Init /\ [][Next]_<<owner, known>>
=============================================================================
