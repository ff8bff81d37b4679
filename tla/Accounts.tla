------------------------------- MODULE Accounts -------------------------------
(***************************************************************************)
(* Which row of the users table a Clerk identity leads to:                 *)
(* _handle_user_created and _handle_user_updated of                        *)
(* orchestrator/app/clerk.py, the token dependencies that link a row by    *)
(* its e-mail address (verify_clerk_jwt, verify_clerk_principal,           *)
(* verify_admin_jwt, retrieve_api_key) and POST /admin/users.              *)
(*                                                                         *)
(* Clerk sends a webhook when somebody signs up or changes the address,    *)
(* and repeats it until it is answered with a 2xx status.  Messages come   *)
(* in any order, more than once, and while another delivery of the same    *)
(* message is being handled.  A handler gives up the event loop at every   *)
(* SQL statement; what it computes between two statements is local, so it  *)
(* is part of the step of the first.                                       *)
(*                                                                         *)
(* Clerk may give an address to one identity after another: the handlers   *)
(* take no notice, and an account then goes along with its address.        *)
(*                                                                         *)
(* The status of the row is not kept here: no handler of this module looks *)
(* at it before it writes (see SessionManager for the status).             *)
(***************************************************************************)
EXTENDS Naturals, FiniteSets

CONSTANTS Identities,   \* Clerk user ids
          Addresses,    \* e-mail addresses
          Rows,         \* primary keys of the users table
          Tasks,        \* the coroutines that handle requests
          NoIdentity, NoAddress, NoRow,
          MaxMessages,  \* bound: sign-ups and changes of address
          MaxRestarts   \* bound: restarts of the orchestrator

ASSUME AccountsAssumption ==
    /\ NoIdentity \notin Identities
    /\ NoAddress \notin Addresses
    /\ NoRow \notin Rows
    /\ MaxMessages \in Nat
    /\ MaxRestarts \in Nat

VARIABLES
    known,    \* Clerk: the addresses each identity has had
    sent,     \* Clerk: all messages
    mail,     \* Clerk: the messages that were not answered with 2xx yet
    linked,   \* users.clerk_user_id
    email,    \* users.email, NoAddress where there is no row
    origin,   \* the identity whose user.created inserted the row
    op,       \* what each task handles
    pc,       \* the statement it executes next
    who,      \* the identity of its message or token
    addr,     \* the address of its message or token
    found,    \* the row of its User object
    restarts  \* restarts so far

clerkVars == <<known, sent, mail>>
rowVars   == <<linked, email, origin>>
taskVars  == <<op, pc, who, addr, found>>
vars == <<clerkVars, rowVars, taskVars, restarts>>

Message(kind, i, a) == [kind |-> kind, who |-> i, addr |-> a]
Messages == [kind : {"created", "updated"}, who : Identities, addr : Addresses]

Exists(r) == email[r] # NoAddress

\* Where there is no row there is neither a link nor an origin: no request writes to
\* a row that it has not found.
TypeOK ==
    /\ known \in [Identities -> SUBSET Addresses]
    /\ sent \subseteq Messages
    /\ mail \subseteq sent
    /\ linked \in [Rows -> Identities \cup {NoIdentity}]
    /\ email \in [Rows -> Addresses \cup {NoAddress}]
    /\ origin \in [Rows -> Identities \cup {NoIdentity}]
    /\ \A r \in Rows : ~Exists(r) => linked[r] = NoIdentity /\ origin[r] = NoIdentity
    /\ op \in [Tasks -> {"none", "created", "updated", "token", "admin_create"}]
    /\ pc \in [Tasks -> {"idle", "byIdentity", "byAddress", "insert", "link", "readdress",
                         "answered"}]
    /\ who \in [Tasks -> Identities \cup {NoIdentity}]
    /\ addr \in [Tasks -> Addresses \cup {NoAddress}]
    /\ found \in [Tasks -> Rows \cup {NoRow}]
    /\ restarts \in 0..MaxRestarts

Init ==
    /\ known = [i \in Identities |-> {}]
    /\ sent = {}
    /\ mail = {}
    /\ linked = [r \in Rows |-> NoIdentity]
    /\ email = [r \in Rows |-> NoAddress]
    /\ origin = [r \in Rows |-> NoIdentity]
    /\ op = [t \in Tasks |-> "none"]
    /\ pc = [t \in Tasks |-> "idle"]
    /\ who = [t \in Tasks |-> NoIdentity]
    /\ addr = [t \in Tasks |-> NoAddress]
    /\ found = [t \in Tasks |-> NoRow]
    /\ restarts = 0

-----------------------------------------------------------------------------
(* Clerk *)

\* Somebody signs up, or an identity changes its address, be it for one that another
\* identity has had.
Register(i, a) ==
    /\ a \notin known[i]
    /\ Cardinality(sent) < MaxMessages
    /\ known' = [known EXCEPT ![i] = @ \cup {a}]
    /\ LET m == Message(IF known[i] = {} THEN "created" ELSE "updated", i, a)
       IN /\ sent' = sent \cup {m}
          /\ mail' = mail \cup {m}
    /\ UNCHANGED <<rowVars, taskVars, restarts>>

-----------------------------------------------------------------------------
(* The beginnings of requests *)

Begin(t, o, i, a, where) ==
    /\ pc[t] = "idle"
    /\ op' = [op EXCEPT ![t] = o]
    /\ who' = [who EXCEPT ![t] = i]
    /\ addr' = [addr EXCEPT ![t] = a]
    /\ pc' = [pc EXCEPT ![t] = where]
    /\ UNCHANGED <<clerkVars, rowVars, found, restarts>>

\* Mutant of Receive: user.created does not look for the identity first.
ReceiveUnchecked(t, m) ==
    Begin(t, m.kind, m.who, m.addr, IF m.kind = "created" THEN "byAddress" ELSE "byIdentity")

\* handle_clerk_webhook dispatches a message.
Receive(t, m) == Begin(t, m.kind, m.who, m.addr, "byIdentity")

\* A message that was not answered is sent again, also while it is handled.
Deliver(t, m) == m \in mail /\ Receive(t, m)

\* A message whose answer was lost is repeated.
Repeat(t, m) == m \in sent \ mail /\ Receive(t, m)

\* A request with a session token, whose claims may contain no address, or one
\* that the identity has changed since the token was issued.
Authenticate(t, i) ==
    /\ known[i] # {}
    /\ \E a \in known[i] \cup {NoAddress} : Begin(t, "token", i, a, "byIdentity")

\* POST /admin/users.
AdminCreate(t, a) == Begin(t, "admin_create", NoIdentity, a, "insert")

-----------------------------------------------------------------------------
(* The statements *)

\* The task goes on with User object r at a statement.
Continue(t, r, where) ==
    /\ found' = [found EXCEPT ![t] = r]
    /\ pc' = [pc EXCEPT ![t] = where]
    /\ UNCHANGED <<clerkVars, rowVars, op, who, addr, restarts>>

\* The task ends; its session is closed, which undoes what it has not committed.
End(t) ==
    /\ op' = [op EXCEPT ![t] = "none"]
    /\ pc' = [pc EXCEPT ![t] = "idle"]
    /\ who' = [who EXCEPT ![t] = NoIdentity]
    /\ addr' = [addr EXCEPT ![t] = NoAddress]
    /\ found' = [found EXCEPT ![t] = NoRow]

\* SELECT by clerk_user_id, and a row is there.  user.created and the token
\* dependencies are content; user.updated compares the address.
FindByIdentity(t) ==
    /\ pc[t] = "byIdentity"
    /\ \E r \in Rows :
         /\ Exists(r) /\ linked[r] = who[t]
         /\ Continue(t, r, IF op[t] = "updated" /\ email[r] # addr[t] THEN "readdress"
                                                                      ELSE "answered")

\* ... and no row is there: all of them look for the address, if they have one.
MissIdentity(t) ==
    /\ pc[t] = "byIdentity"
    /\ \A r \in Rows : ~(Exists(r) /\ linked[r] = who[t])
    /\ IF addr[t] # NoAddress
       THEN Continue(t, NoRow, "byAddress")
       ELSE End(t) /\ UNCHANGED <<clerkVars, rowVars, restarts>>

\* Mutant of AfterFound: a token is accepted without linking the row.
AfterFoundUnlinked(t, r) ==
    CASE op[t] = "created" -> {"link"}
      [] op[t] = "updated" -> {"link", "answered"}
      [] op[t] = "token"   -> {"answered"}

\* What a handler does with the row it has found by its address.  user.created
\* links it.  user.updated links it in memory, but commits only if the name has
\* changed as well (the address has not).  The token dependencies link a row that
\* has no identity yet, and accept the others as they are.
AfterFound(t, r) ==
    CASE op[t] = "created" -> {"link"}
      [] op[t] = "updated" -> {"link", "answered"}
      [] op[t] = "token"   -> IF linked[r] = NoIdentity THEN {"link"} ELSE {"answered"}

\* Mutant of FindByAddress: the row is looked for without regard to case or domain, and
\* another person's is found.
FindByAnyAddress(t) ==
    /\ pc[t] = "byAddress"
    /\ \E r \in Rows :
         /\ Exists(r)
         /\ \E where \in AfterFound(t, r) : Continue(t, r, where)

\* SELECT by email, and a row is there.
FindByAddress(t) ==
    /\ pc[t] = "byAddress"
    /\ \E r \in Rows :
         /\ email[r] = addr[t]
         /\ \E where \in AfterFound(t, r) : Continue(t, r, where)

\* ... and no row is there: user.created inserts one, the others answer 404 or 401.
MissAddress(t) ==
    /\ pc[t] = "byAddress"
    /\ \A r \in Rows : email[r] # addr[t]
    /\ IF op[t] = "created"
       THEN Continue(t, NoRow, "insert")
       ELSE End(t) /\ UNCHANGED <<clerkVars, rowVars, restarts>>

\* No row but r is linked to i.
Unlinked(i, r) == i # NoIdentity => \A s \in Rows \ {r} : linked[s] # i

\* No row but r has the address a.
Unused(a, r) == \A s \in Rows \ {r} : email[s] # a

\* The unique columns admit the statement of t.
Admitted(t) ==
    CASE pc[t] = "insert"    -> Unlinked(who[t], NoRow) /\ Unused(addr[t], NoRow)
      [] pc[t] = "link"      -> Unlinked(who[t], found[t])
      [] pc[t] = "readdress" -> Unused(addr[t], found[t])
      [] OTHER               -> FALSE

\* INSERT of a new row and COMMIT.
Insert(t) ==
    /\ pc[t] = "insert"
    /\ Admitted(t)
    /\ \E r \in Rows :
         /\ ~Exists(r)
         /\ email' = [email EXCEPT ![r] = addr[t]]
         /\ linked' = [linked EXCEPT ![r] = who[t]]
         /\ origin' = [origin EXCEPT ![r] = who[t]]
         /\ found' = [found EXCEPT ![t] = r]
    /\ pc' = [pc EXCEPT ![t] = "answered"]
    /\ UNCHANGED <<clerkVars, op, who, addr, restarts>>

\* UPDATE of clerk_user_id, or of email, and COMMIT.  The ORM writes the columns
\* that were assigned, and no others.
Update(t) ==
    /\ pc[t] \in {"link", "readdress"}
    /\ Admitted(t)
    /\ linked' = IF pc[t] = "link" THEN [linked EXCEPT ![found[t]] = who[t]] ELSE linked
    /\ email' = IF pc[t] = "readdress" THEN [email EXCEPT ![found[t]] = addr[t]] ELSE email
    /\ pc' = [pc EXCEPT ![t] = "answered"]
    /\ UNCHANGED <<clerkVars, origin, op, who, addr, found, restarts>>

\* A unique column does not admit the statement: IntegrityError, 500.
Refuse(t) ==
    /\ pc[t] \in {"insert", "link", "readdress"}
    /\ ~Admitted(t)
    /\ End(t)
    /\ UNCHANGED <<clerkVars, rowVars, restarts>>

\* The 2xx answer reaches its client.
Answer(t) ==
    /\ pc[t] = "answered"
    /\ mail' = mail \ {m \in Messages : m.kind = op[t] /\ m.who = who[t] /\ m.addr = addr[t]}
    /\ End(t)
    /\ UNCHANGED <<known, sent, rowVars, restarts>>

\* The orchestrator stops and starts: unanswered requests are lost.
Restart ==
    /\ restarts < MaxRestarts
    /\ restarts' = restarts + 1
    /\ op' = [t \in Tasks |-> "none"]
    /\ pc' = [t \in Tasks |-> "idle"]
    /\ who' = [t \in Tasks |-> NoIdentity]
    /\ addr' = [t \in Tasks |-> NoAddress]
    /\ found' = [t \in Tasks |-> NoRow]
    /\ UNCHANGED <<clerkVars, rowVars>>

Step(t) == FindByIdentity(t) \/ MissIdentity(t) \/ FindByAddress(t) \/ MissAddress(t)
           \/ Insert(t) \/ Update(t) \/ Refuse(t) \/ Answer(t)

Arrival(t) == \/ \E m \in Messages : Deliver(t, m) \/ Repeat(t, m)
              \/ \E i \in Identities : Authenticate(t, i)
              \/ \E a \in Addresses : AdminCreate(t, a)

Next == \/ \E i \in Identities, a \in Addresses : Register(i, a)
        \/ \E t \in Tasks : Step(t) \/ Arrival(t)
        \/ Restart

Spec == Init /\ [][Next]_vars

\* i's user.created is delivered once more.
DeliverSignUp(i) == \E t \in Tasks, a \in Addresses : Deliver(t, Message("created", i, a))

\* Every statement is answered, and Clerk repeats a user.created until it has its 2xx.
Fairness == /\ \A t \in Tasks : WF_vars(Step(t))
            /\ \A i \in Identities : SF_vars(DeliverSignUp(i))

FairSpec == Spec /\ Fairness

-----------------------------------------------------------------------------
(* Properties *)

\* Nobody else has ever had an address of i.
Private(i) == \A j \in Identities \ {i} : known[i] \cap known[j] = {}

\* The handler is idempotent (clerk.py:200): user.created inserts one account per
\* identity, however its deliveries overlap with each other, with a change of the
\* address and with requests of the same and of other people - unless an address of the
\* identity passes on, which takes the account along and makes room for a second one.
OneAccountPerIdentity ==
    \A r, s \in Rows :
      origin[r] # NoIdentity /\ origin[r] = origin[s] /\ Private(origin[r]) => r = s

\* Whoever is answered by user.created, or let in with a token, has the row of the
\* answer: its link is committed, and no other task has changed it since - if nobody
\* else has had an address of theirs, else the row may be linked to that other person
\* (clerk_auth.py:236-240).  (user.updated may answer with a row that is not linked.)
AnswersAreLinked ==
    \A t \in Tasks :
      pc[t] = "answered" /\ op[t] \in {"created", "token"} /\ Private(who[t])
        => linked[found[t]] = who[t]

\* The column clerk_user_id is a registry of identities: an identity has one account at
\* most, whichever of webhook, token or later message finds it first, and an account
\* passes from one identity to another (clerk.py:231) only if each of them has had an
\* address that somebody else has had too.
Registry == INSTANCE IdentityRegistry WITH Accounts <- Rows, owner <- linked
ImplementsIdentityRegistry == Registry!Spec

\* Clerk keeps sending i's user.created.
SignUpOpen(i) == \E a \in Addresses : Message("created", i, a) \in mail

\* A user.created that Clerk keeps sending is accepted in the end: none is refused
\* for ever because the person came in by another way in the meantime, whatever others
\* do (unless they contend for the same address).
SignUpsSettle ==
    \A i \in Identities : SignUpOpen(i) ~> ~SignUpOpen(i) \/ ~Private(i)
=============================================================================
