---------------------------- MODULE AccountsProofs ----------------------------
(***************************************************************************)
(* Proofs about Accounts, for any number of identities, addresses, rows,   *)
(* tasks, messages and restarts, and for addresses that pass from one      *)
(* identity to another: the types, one account per identity, that whoever  *)
(* is answered has the row of the answer, and that the column of Clerk ids *)
(* is a registry in which nothing is taken back from a private identity    *)
(* (one whose addresses nobody else has ever had) nor given to one.        *)
(*                                                                         *)
(* The argument: each identity has a set of addresses its rows may carry.  *)
(* A private identity may have its own addresses; the others may have all  *)
(* those that belong to no private one, as they may take rows from each    *)
(* other.  These sets are the same or disjoint, so a row never leaves its  *)
(* set, and neither does a task that has found it and then is overtaken.   *)
(***************************************************************************)
EXTENDS Accounts, TLAPS

\* The identities whose addresses nobody else has ever had.
Privates == {i \in Identities : Private(i)}

\* The addresses of somebody that a row of j may carry.
MayHave == [j \in Identities |->
              {a \in Addresses : /\ \E k \in Identities : a \in known[k]
                                /\ \A i \in Privates : j = i <=> a \in known[i]}]

\* A message names an address its sender has had.
MessagesAreTrue == \A m \in sent : m.addr \in known[m.who]

\* A linked row carries an address its identity may have.
RowsAreOwned ==
    \A r \in Rows : linked[r] # NoIdentity => email[r] \in MayHave[linked[r]]

\* The two unique columns.
ColumnsAreUnique ==
    \A r, s \in Rows : r # s => /\ linked[r] # NoIdentity => linked[r] # linked[s]
                                /\ email[r] # NoAddress => email[r] # email[s]

\* An account inserted for a private identity stays linked to it.
OriginsStayLinked ==
    \A r \in Rows : origin[r] \in Privates => linked[r] = origin[r]

\* What a task knows of its message and its row at the statement it executes next.
TaskKnows(t) ==
    /\ pc[t] = "idle" <=> op[t] = "none"
    /\ op[t] \in {"created", "updated", "token"} => who[t] \in Identities
    /\ op[t] \in {"created", "updated"} => addr[t] \in known[who[t]]
    /\ op[t] = "token" => addr[t] \in known[who[t]] \cup {NoAddress}
    /\ op[t] = "admin_create" => /\ who[t] = NoIdentity
                                 /\ addr[t] \in Addresses
                                 /\ pc[t] \in {"insert", "answered"}
    /\ pc[t] = "byAddress" => addr[t] # NoAddress
    /\ pc[t] = "insert" => op[t] \in {"created", "admin_create"}
    /\ pc[t] = "readdress" => op[t] = "updated"
    /\ pc[t] \in {"link", "readdress", "answered"} => found[t] \in Rows /\ Exists(found[t])
    /\ pc[t] \in {"link", "readdress"} => email[found[t]] \in MayHave[who[t]]
    /\ pc[t] = "answered" /\ op[t] \in {"created", "token"} /\ who[t] \in Privates
         => linked[found[t]] = who[t]

TasksKnow == \A t \in Tasks : TaskKnows(t)

\* What holds of Clerk and of the table.
TableInv == /\ MessagesAreTrue
            /\ RowsAreOwned
            /\ ColumnsAreUnique
            /\ OriginsStayLinked

AccountsInv == TypeOK /\ TableInv /\ TasksKnow

-----------------------------------------------------------------------------
(* What identities may have *)

\* Everybody may have the addresses they have had.
LEMMA MayHaveKnown ==
    ASSUME TypeOK, NEW j \in Identities, NEW a \in known[j]
    PROVE  a \in MayHave[j]
BY DEF TypeOK, MayHave, Privates, Private

\* Two identities that may have the same address may have the same addresses, and if
\* one of them is private they are one.
LEMMA MayHaveAlike ==
    ASSUME NEW i \in Identities, NEW j \in Identities,
           NEW a, a \in MayHave[i], a \in MayHave[j]
    PROVE  /\ MayHave[i] = MayHave[j]
           /\ i \in Privates => i = j
<1>1. i \in Privates \/ j \in Privates => i = j
  BY DEF MayHave, Privates
<1>2. ASSUME i \notin Privates, j \notin Privates
      PROVE  MayHave[i] = MayHave[j]
  BY <1>2 DEF MayHave
<1> QED
  BY <1>1, <1>2

\* As long as Clerk gives no address, nothing changes for anybody.
LEMMA MayHaveStays ==
    ASSUME UNCHANGED known
    PROVE  MayHave' = MayHave /\ Privates' = Privates
BY DEF MayHave, Privates, Private

\* Whatever address Clerk gives, everybody may have what they might have before, and no
\* identity becomes private.
LEMMA MayHaveGrows ==
    ASSUME TypeOK, NEW i \in Identities, NEW e \in Addresses,
           known' = [known EXCEPT ![i] = @ \cup {e}]
    PROVE  /\ Privates' \subseteq Privates
           /\ \A j \in Identities : MayHave[j] \subseteq MayHave'[j]
<1>1. \A j \in Identities : known'[j] = IF j = i THEN known[i] \cup {e} ELSE known[j]
  BY DEF TypeOK
<1>2. Privates' \subseteq Privates
  BY <1>1 DEF Privates, Private
<1>3. ASSUME NEW j \in Identities, NEW a \in MayHave[j]
      PROVE  a \in MayHave'[j]
  <2>1. /\ a \in Addresses
        /\ \A p \in Privates : j = p <=> a \in known[p]
    BY DEF MayHave
  <2>2. PICK k \in Identities : a \in known[k]
    BY DEF MayHave
  <2>3. ASSUME NEW p \in Privates'
        PROVE  j = p <=> a \in known'[p]
    <3>1. CASE p # i
      BY <1>1, <1>2, <2>1, <3>1 DEF Privates
    <3>2. CASE p = i /\ a \in known[i]
      BY <1>1, <1>2, <2>1, <3>2
    <3>3. CASE p = i /\ a \notin known[i]
      <4>1. k # i /\ a \in known'[k]
        BY <1>1, <2>2, <3>3
      <4>2. a \notin known'[i]
        BY <4>1, <2>3, <3>3 DEF Privates, Private
      <4> QED
        BY <1>2, <2>1, <3>3, <4>2
    <3> QED
      BY <3>1, <3>2, <3>3
  <2>4. \E m \in Identities : a \in known'[m]
    BY <1>1, <2>2
  <2> QED
    BY <2>1, <2>3, <2>4 DEF MayHave
<1> QED
  BY <1>2, <1>3

-----------------------------------------------------------------------------
(* Steps that leave Clerk and the table alone *)

LEMMA TableStays ==
    ASSUME TableInv, UNCHANGED <<known, sent, rowVars>>
    PROVE  TableInv'
BY MayHaveStays DEF TableInv, MessagesAreTrue, RowsAreOwned, ColumnsAreUnique,
                    OriginsStayLinked, rowVars

\* The other tasks know what they knew.
LEMMA OthersKnow ==
    ASSUME TasksKnow, NEW t \in Tasks, UNCHANGED <<known, rowVars>>,
           \A u \in Tasks \ {t} : /\ op'[u] = op[u] /\ pc'[u] = pc[u] /\ who'[u] = who[u]
                                  /\ addr'[u] = addr[u] /\ found'[u] = found[u],
           TaskKnows(t)'
    PROVE  TasksKnow'
<1> SUFFICES ASSUME NEW u \in Tasks \ {t}
             PROVE  TaskKnows(u)'
  BY DEF TasksKnow
<1>1. TaskKnows(u)
  BY DEF TasksKnow
<1> QED
  BY <1>1, MayHaveStays DEF TaskKnows, Exists, rowVars

\* The end of a task, with or without an answer.
LEMMA EndKeeps ==
    ASSUME AccountsInv, NEW t \in Tasks, End(t), mail' \subseteq mail,
           UNCHANGED <<known, sent, rowVars>>, restarts' = restarts
    PROVE  AccountsInv'
<1>1. TypeOK'
  BY DEF AccountsInv, TypeOK, End, rowVars, Exists
<1>2. TableInv'
  BY TableStays DEF AccountsInv
<1>3. TaskKnows(t)'
  BY DEF AccountsInv, TypeOK, End, TaskKnows
<1>4. \A u \in Tasks \ {t} : /\ op'[u] = op[u] /\ pc'[u] = pc[u] /\ who'[u] = who[u]
                             /\ addr'[u] = addr[u] /\ found'[u] = found[u]
  BY DEF AccountsInv, TypeOK, End
<1>5. TasksKnow'
  BY <1>3, <1>4, OthersKnow DEF AccountsInv
<1> QED
  BY <1>1, <1>2, <1>5 DEF AccountsInv

\* A statement that reads: the task goes on with what it has found.
LEMMA ContinueKeeps ==
    ASSUME AccountsInv, NEW t \in Tasks, NEW r \in Rows \cup {NoRow},
           NEW where \in {"byAddress", "insert", "link", "readdress", "answered"},
           Continue(t, r, where),
           TaskKnows(t)'
    PROVE  AccountsInv'
<1>1. TypeOK'
  BY DEF AccountsInv, TypeOK, Continue, clerkVars, rowVars, Exists
<1>2. TableInv'
  BY TableStays DEF AccountsInv, Continue, clerkVars
<1>3. \A u \in Tasks \ {t} : /\ op'[u] = op[u] /\ pc'[u] = pc[u] /\ who'[u] = who[u]
                             /\ addr'[u] = addr[u] /\ found'[u] = found[u]
  BY DEF AccountsInv, TypeOK, Continue
<1>4. TasksKnow'
  BY <1>3, OthersKnow DEF AccountsInv, Continue, clerkVars
<1> QED
  BY <1>1, <1>2, <1>4 DEF AccountsInv

\* The beginning of a request.
LEMMA BeginKeeps ==
    ASSUME AccountsInv, NEW t \in Tasks,
           NEW o \in {"created", "updated", "token", "admin_create"},
           NEW i \in Identities \cup {NoIdentity}, NEW a \in Addresses \cup {NoAddress},
           NEW where \in {"byIdentity", "insert"},
           Begin(t, o, i, a, where),
           o \in {"created", "updated", "token"} => where = "byIdentity" /\ i \in Identities,
           o \in {"created", "updated"} => a \in known[i],
           o = "token" => a \in known[i] \cup {NoAddress},
           o = "admin_create" => where = "insert" /\ i = NoIdentity /\ a \in Addresses
    PROVE  AccountsInv'
<1>1. TypeOK'
  BY DEF AccountsInv, TypeOK, Begin, clerkVars, rowVars, Exists
<1>2. TableInv'
  BY TableStays DEF AccountsInv, Begin, clerkVars
<1>3. /\ op'[t] = o /\ who'[t] = i /\ addr'[t] = a /\ pc'[t] = where /\ found'[t] = found[t]
      /\ known' = known
  BY DEF AccountsInv, TypeOK, Begin, clerkVars
<1>4. TaskKnows(t)'
  BY <1>3 DEF TaskKnows
<1>5. \A u \in Tasks \ {t} : /\ op'[u] = op[u] /\ pc'[u] = pc[u] /\ who'[u] = who[u]
                             /\ addr'[u] = addr[u] /\ found'[u] = found[u]
  BY DEF AccountsInv, TypeOK, Begin
<1>6. TasksKnow'
  BY <1>4, <1>5, OthersKnow DEF AccountsInv, Begin, clerkVars
<1> QED
  BY <1>1, <1>2, <1>6 DEF AccountsInv

-----------------------------------------------------------------------------
(* One lemma per action *)

LEMMA RegisterKeeps ==
    ASSUME AccountsInv, NEW i \in Identities, NEW a \in Addresses, Register(i, a)
    PROVE  AccountsInv'
<1> DEFINE m == Message(IF known[i] = {} THEN "created" ELSE "updated", i, a)
<1>1. m \in Messages /\ m.who = i /\ m.addr = a
  BY DEF Message, Messages
<1> HIDE DEF m
<1>2. /\ known' = [known EXCEPT ![i] = @ \cup {a}]
      /\ sent' = sent \cup {m} /\ mail' = mail \cup {m}
      /\ UNCHANGED <<rowVars, taskVars, restarts>>
  BY DEF Register, m
<1>3. TypeOK'
  BY <1>1, <1>2 DEF AccountsInv, TypeOK, rowVars, taskVars, Exists
<1>4. \A j \in Identities : known'[j] = IF j = i THEN known[i] \cup {a} ELSE known[j]
  BY <1>2 DEF AccountsInv, TypeOK
<1>5. /\ Privates' \subseteq Privates
      /\ \A j \in Identities : MayHave[j] \subseteq MayHave'[j]
  BY <1>2, MayHaveGrows DEF AccountsInv
<1>6. MessagesAreTrue'
  BY <1>1, <1>2, <1>4 DEF AccountsInv, TypeOK, TableInv, MessagesAreTrue, Messages
<1>7. RowsAreOwned' /\ ColumnsAreUnique' /\ OriginsStayLinked'
  BY <1>2, <1>5 DEF AccountsInv, TypeOK, TableInv, RowsAreOwned, ColumnsAreUnique,
                    OriginsStayLinked, rowVars
<1>8. TasksKnow'
  <2> SUFFICES ASSUME NEW t \in Tasks
               PROVE  TaskKnows(t)'
    BY DEF TasksKnow
  <2>1. TaskKnows(t)
    BY DEF AccountsInv, TasksKnow
  <2>2. pc[t] \in {"link", "readdress"} => who[t] \in Identities
    BY <2>1 DEF TaskKnows, AccountsInv, TypeOK
  <2> QED
    BY <1>2, <1>4, <1>5, <2>1, <2>2 DEF TaskKnows, rowVars, taskVars, Exists
<1> QED
  BY <1>3, <1>6, <1>7, <1>8 DEF AccountsInv, TableInv

LEMMA ArrivalKeeps ==
    ASSUME AccountsInv, NEW t \in Tasks, Arrival(t)
    PROVE  AccountsInv'
<1>1. ASSUME NEW m \in Messages, m \in sent, Receive(t, m)
      PROVE  AccountsInv'
  <2>1. m.kind \in {"created", "updated"} /\ m.who \in Identities /\ m.addr \in Addresses
    BY DEF Messages
  <2>2. m.addr \in known[m.who]
    BY <1>1 DEF AccountsInv, TableInv, MessagesAreTrue
  <2>3. Begin(t, m.kind, m.who, m.addr, "byIdentity")
    BY <1>1 DEF Receive
  <2> QED
    BY <2>1, <2>2, <2>3, BeginKeeps
<1>2. ASSUME NEW i \in Identities, Authenticate(t, i)
      PROVE  AccountsInv'
  <2>1. PICK a \in known[i] \cup {NoAddress} : Begin(t, "token", i, a, "byIdentity")
    BY <1>2 DEF Authenticate
  <2>2. a \in Addresses \cup {NoAddress}
    BY DEF AccountsInv, TypeOK
  <2> QED
    BY <2>1, <2>2, BeginKeeps
<1>3. ASSUME NEW a \in Addresses, AdminCreate(t, a)
      PROVE  AccountsInv'
  BY <1>3, BeginKeeps DEF AdminCreate
<1>4. ASSUME NEW m \in Messages, Deliver(t, m) \/ Repeat(t, m)
      PROVE  AccountsInv'
  <2>1. m \in sent /\ Receive(t, m)
    BY <1>4 DEF Deliver, Repeat, AccountsInv, TypeOK
  <2> QED
    BY <1>1, <2>1
<1> QED
  BY <1>2, <1>3, <1>4 DEF Arrival

LEMMA FindByIdentityKeeps ==
    ASSUME AccountsInv, NEW t \in Tasks, FindByIdentity(t)
    PROVE  AccountsInv'
<1>1. PICK r \in Rows :
        /\ Exists(r) /\ linked[r] = who[t]
        /\ Continue(t, r, IF op[t] = "updated" /\ email[r] # addr[t] THEN "readdress"
                                                                     ELSE "answered")
  BY DEF FindByIdentity
<1>2. pc[t] = "byIdentity" /\ TaskKnows(t)
  BY DEF FindByIdentity, AccountsInv, TasksKnow
<1> DEFINE where == IF op[t] = "updated" /\ email[r] # addr[t] THEN "readdress" ELSE "answered"
<1>3. /\ found'[t] = r /\ pc'[t] = where /\ op' = op /\ who' = who /\ addr' = addr
      /\ linked' = linked /\ email' = email /\ known' = known
  BY <1>1 DEF Continue, AccountsInv, TypeOK, clerkVars, rowVars
<1>4. email[r] \in MayHave[who[t]] /\ MayHave' = MayHave
  BY <1>1, <1>2, <1>3, MayHaveStays, AccountsAssumption
     DEF AccountsInv, TypeOK, TableInv, RowsAreOwned, TaskKnows
<1>5. TaskKnows(t)'
  BY <1>1, <1>2, <1>3, <1>4 DEF TaskKnows, Exists
<1> QED
  BY <1>1, <1>5, ContinueKeeps

LEMMA MissIdentityKeeps ==
    ASSUME AccountsInv, NEW t \in Tasks, MissIdentity(t)
    PROVE  AccountsInv'
<1>1. pc[t] = "byIdentity" /\ TaskKnows(t)
  BY DEF MissIdentity, AccountsInv, TasksKnow
<1>2. CASE addr[t] # NoAddress
  <2>1. Continue(t, NoRow, "byAddress")
    BY <1>2 DEF MissIdentity
  <2>2. /\ pc'[t] = "byAddress" /\ op' = op /\ who' = who /\ addr' = addr /\ known' = known
    BY <2>1 DEF Continue, AccountsInv, TypeOK, clerkVars
  <2>3. TaskKnows(t)'
    BY <1>1, <1>2, <2>2 DEF TaskKnows
  <2> QED
    BY <2>1, <2>3, ContinueKeeps
<1>3. CASE addr[t] = NoAddress
  BY <1>3, EndKeeps DEF MissIdentity, clerkVars
<1> QED
  BY <1>2, <1>3

\* The row with the address of the request is one that the identity may have.
LEMMA FoundRowIsOwn ==
    ASSUME AccountsInv, NEW t \in Tasks, NEW r \in Rows,
           pc[t] = "byAddress", email[r] = addr[t]
    PROVE  /\ op[t] \in {"created", "updated", "token"} /\ who[t] \in Identities
           /\ Exists(r) /\ email[r] \in MayHave[who[t]]
           /\ who[t] \in Privates => linked[r] \in {NoIdentity, who[t]}
<1>1. TaskKnows(t)
  BY DEF AccountsInv, TasksKnow
<1>2. op[t] \in {"created", "updated", "token"}
  BY <1>1 DEF TaskKnows, AccountsInv, TypeOK
<1>3. Exists(r) /\ email[r] \in known[who[t]] /\ who[t] \in Identities
  BY <1>1, <1>2 DEF TaskKnows, Exists
<1>4. email[r] \in MayHave[who[t]]
  BY <1>3, MayHaveKnown DEF AccountsInv
<1>5. linked[r] \in Identities => email[r] \in MayHave[linked[r]]
  BY AccountsAssumption DEF AccountsInv, TableInv, RowsAreOwned
<1>6. who[t] \in Privates /\ linked[r] \in Identities => linked[r] = who[t]
  BY <1>3, <1>4, <1>5, MayHaveAlike
<1> QED
  BY <1>2, <1>3, <1>4, <1>6 DEF AccountsInv, TypeOK

LEMMA FindByAddressKeeps ==
    ASSUME AccountsInv, NEW t \in Tasks, FindByAddress(t)
    PROVE  AccountsInv'
<1>1. PICK r \in Rows : /\ email[r] = addr[t]
                        /\ \E where \in AfterFound(t, r) : Continue(t, r, where)
  BY DEF FindByAddress
<1>2. pc[t] = "byAddress" /\ TaskKnows(t)
  BY DEF FindByAddress, AccountsInv, TasksKnow
<1>3. /\ op[t] \in {"created", "updated", "token"}
      /\ Exists(r) /\ email[r] \in MayHave[who[t]]
      /\ who[t] \in Privates => linked[r] \in {NoIdentity, who[t]}
  BY <1>1, <1>2, FoundRowIsOwn
<1>4. PICK where \in AfterFound(t, r) : Continue(t, r, where)
  BY <1>1
<1>5. /\ where \in {"link", "answered"}
      /\ where = "answered" /\ op[t] \in {"created", "token"} /\ who[t] \in Privates
           => linked[r] = who[t]
  BY <1>3, <1>4 DEF AfterFound
<1>6. /\ found'[t] = r /\ pc'[t] = where /\ op' = op /\ who' = who /\ addr' = addr
      /\ linked' = linked /\ email' = email /\ known' = known
  BY <1>4 DEF Continue, AccountsInv, TypeOK, clerkVars, rowVars
<1>7. TaskKnows(t)'
  BY <1>2, <1>3, <1>5, <1>6, MayHaveStays DEF TaskKnows, Exists
<1> QED
  BY <1>4, <1>5, <1>7, ContinueKeeps

LEMMA MissAddressKeeps ==
    ASSUME AccountsInv, NEW t \in Tasks, MissAddress(t)
    PROVE  AccountsInv'
<1>1. pc[t] = "byAddress" /\ TaskKnows(t)
  BY DEF MissAddress, AccountsInv, TasksKnow
<1>2. CASE op[t] = "created"
  <2>1. Continue(t, NoRow, "insert")
    BY <1>2 DEF MissAddress
  <2>2. /\ pc'[t] = "insert" /\ op' = op /\ who' = who /\ addr' = addr /\ known' = known
    BY <2>1 DEF Continue, AccountsInv, TypeOK, clerkVars
  <2>3. TaskKnows(t)'
    BY <1>1, <1>2, <2>2 DEF TaskKnows
  <2> QED
    BY <2>1, <2>3, ContinueKeeps
<1>3. CASE op[t] # "created"
  BY <1>3, EndKeeps DEF MissAddress, clerkVars
<1> QED
  BY <1>2, <1>3

LEMMA InsertKeeps ==
    ASSUME AccountsInv, NEW t \in Tasks, Insert(t)
    PROVE  AccountsInv'
<1>1. pc[t] = "insert" /\ TaskKnows(t) /\ Admitted(t)
  BY DEF Insert, AccountsInv, TasksKnow
<1>2. PICK r \in Rows :
        /\ ~Exists(r)
        /\ email' = [email EXCEPT ![r] = addr[t]]
        /\ linked' = [linked EXCEPT ![r] = who[t]]
        /\ origin' = [origin EXCEPT ![r] = who[t]]
        /\ found' = [found EXCEPT ![t] = r]
  BY DEF Insert
<1>3. /\ pc' = [pc EXCEPT ![t] = "answered"]
      /\ UNCHANGED <<clerkVars, op, who, addr, restarts>>
  BY DEF Insert
<1>4. /\ addr[t] \in Addresses
      /\ who[t] # NoIdentity => who[t] \in Identities /\ addr[t] \in known[who[t]]
      /\ op[t] = "created" => who[t] \in Identities
  BY <1>1 DEF TaskKnows, AccountsInv, TypeOK
<1>5. /\ who[t] # NoIdentity => \A s \in Rows : linked[s] # who[t]
      /\ \A s \in Rows : email[s] # addr[t]
  BY <1>1, AccountsAssumption DEF Admitted, Unlinked, Unused
<1>6. \A s \in Rows : /\ email'[s] = IF s = r THEN addr[t] ELSE email[s]
                      /\ linked'[s] = IF s = r THEN who[t] ELSE linked[s]
                      /\ origin'[s] = IF s = r THEN who[t] ELSE origin[s]
  BY <1>2 DEF AccountsInv, TypeOK
<1>7. TypeOK'
  <2>1. /\ linked' \in [Rows -> Identities \cup {NoIdentity}]
        /\ origin' \in [Rows -> Identities \cup {NoIdentity}]
        /\ email' \in [Rows -> Addresses \cup {NoAddress}]
        /\ found' \in [Tasks -> Rows \cup {NoRow}]
    BY <1>2, <1>4 DEF AccountsInv, TypeOK
  <2>2. \A s \in Rows : ~Exists(s)' => linked'[s] = NoIdentity /\ origin'[s] = NoIdentity
    BY <1>4, <1>6, AccountsAssumption DEF AccountsInv, TypeOK, Exists
  <2> QED
    BY <1>3, <2>1, <2>2 DEF AccountsInv, TypeOK, clerkVars
<1>8. /\ MessagesAreTrue'
      /\ known' = known /\ MayHave' = MayHave /\ Privates' = Privates
  BY <1>3, MayHaveStays DEF AccountsInv, TableInv, MessagesAreTrue, clerkVars
<1>9. RowsAreOwned' /\ OriginsStayLinked'
  <2>1. who[t] # NoIdentity => addr[t] \in MayHave[who[t]]
    BY <1>4, MayHaveKnown DEF AccountsInv
  <2> QED
    BY <1>6, <1>8, <2>1 DEF AccountsInv, TableInv, RowsAreOwned, OriginsStayLinked
<1>10. ColumnsAreUnique'
  BY <1>5, <1>6 DEF AccountsInv, TableInv, ColumnsAreUnique
<1>11. TasksKnow'
  <2> SUFFICES ASSUME NEW u \in Tasks
               PROVE  TaskKnows(u)'
    BY DEF TasksKnow
  <2>1. CASE u = t
    <3>1. /\ pc'[t] = "answered" /\ found'[t] = r /\ op'[t] = op[t] /\ who'[t] = who[t]
          /\ addr'[t] = addr[t]
      BY <1>2, <1>3 DEF AccountsInv, TypeOK, clerkVars
    <3> QED
      BY <1>1, <1>4, <1>6, <1>8, <2>1, <3>1, AccountsAssumption DEF TaskKnows, Exists
  <2>2. CASE u # t
    <3>1. /\ pc'[u] = pc[u] /\ found'[u] = found[u] /\ op'[u] = op[u] /\ who'[u] = who[u]
          /\ addr'[u] = addr[u]
      BY <1>2, <1>3, <2>2 DEF AccountsInv, TypeOK, clerkVars
    <3>2. TaskKnows(u)
      BY DEF AccountsInv, TasksKnow
    <3>3. pc[u] \in {"link", "readdress", "answered"} => found[u] \in Rows /\ found[u] # r
      BY <1>2, <3>2 DEF TaskKnows
    <3> QED
      BY <1>6, <1>8, <3>1, <3>2, <3>3 DEF TaskKnows, Exists
  <2> QED
    BY <2>1, <2>2
<1> QED
  BY <1>7, <1>8, <1>9, <1>10, <1>11 DEF AccountsInv, TableInv

\* The statement changes a row that its identity may have, and leaves it one that whoever
\* is linked to it, or works with it, may have.
LEMMA UpdateKeeps ==
    ASSUME AccountsInv, NEW t \in Tasks, Update(t)
    PROVE  AccountsInv'
<1> DEFINE r == found[t]
<1>1. pc[t] \in {"link", "readdress"} /\ TaskKnows(t) /\ Admitted(t)
  BY DEF Update, AccountsInv, TasksKnow
<1>2. /\ pc' = [pc EXCEPT ![t] = "answered"]
      /\ UNCHANGED <<clerkVars, origin, op, who, addr, found, restarts>>
  BY DEF Update
<1>3. /\ r \in Rows /\ Exists(r)
      /\ op[t] \in {"created", "updated", "token"} /\ who[t] \in Identities
      /\ email[r] \in MayHave[who[t]]
  BY <1>1 DEF TaskKnows, AccountsInv, TypeOK
<1>4. pc[t] = "readdress" => addr[t] \in known[who[t]] /\ addr[t] \in Addresses
                             /\ op[t] = "updated" /\ addr[t] \in MayHave[who[t]]
  <2>1. pc[t] = "readdress" => addr[t] \in known[who[t]] /\ op[t] = "updated"
    BY <1>1, <1>3 DEF TaskKnows
  <2> QED
    BY <1>3, <2>1, MayHaveKnown DEF AccountsInv, TypeOK
<1>5. \A s \in Rows :
        /\ email'[s] = IF s = r /\ pc[t] = "readdress" THEN addr[t] ELSE email[s]
        /\ linked'[s] = IF s = r /\ pc[t] = "link" THEN who[t] ELSE linked[s]
        /\ origin'[s] = origin[s]
  <2>1. CASE pc[t] = "link"
    BY <1>2, <1>3, <2>1 DEF Update, AccountsInv, TypeOK
  <2>2. CASE pc[t] = "readdress"
    BY <1>2, <1>3, <1>4, <2>2 DEF Update, AccountsInv, TypeOK
  <2> QED
    BY <1>1, <2>1, <2>2
<1>6. TypeOK'
  <2>1. linked' \in [Rows -> Identities \cup {NoIdentity}]
    BY <1>3 DEF Update, AccountsInv, TypeOK
  <2>2. email' \in [Rows -> Addresses \cup {NoAddress}]
    BY <1>1, <1>4 DEF Update, AccountsInv, TypeOK
  <2>3. \A s \in Rows : ~Exists(s)' => linked'[s] = NoIdentity /\ origin'[s] = NoIdentity
    BY <1>3, <1>4, <1>5, AccountsAssumption DEF AccountsInv, TypeOK, Exists
  <2> QED
    BY <1>2, <2>1, <2>2, <2>3 DEF AccountsInv, TypeOK, clerkVars
<1>7. /\ MessagesAreTrue'
      /\ known' = known /\ MayHave' = MayHave /\ Privates' = Privates
  BY <1>2, MayHaveStays DEF AccountsInv, TableInv, MessagesAreTrue, clerkVars
\* Whoever may have the row as it was may have it as it is.
<1>8. ASSUME NEW j \in Identities, NEW s \in Rows, email[s] \in MayHave[j]
      PROVE  email'[s] \in MayHave[j]
  <2>1. CASE s = r /\ pc[t] = "readdress"
    <3>1. MayHave[j] = MayHave[who[t]]
      BY <1>3, <1>8, <2>1, MayHaveAlike
    <3> QED
      BY <1>4, <1>5, <2>1, <3>1
  <2>2. CASE ~(s = r /\ pc[t] = "readdress")
    BY <1>5, <1>8, <2>2
  <2> QED
    BY <2>1, <2>2
\* A private identity's row stays its own.
<1>9. ASSUME NEW i \in Privates, NEW s \in Rows, linked[s] = i
      PROVE  linked'[s] = i
  <2>1. i \in Identities /\ email[s] \in MayHave[i]
    BY <1>9, AccountsAssumption DEF Privates, AccountsInv, TableInv, RowsAreOwned
  <2>2. s = r => who[t] = i
    BY <1>3, <2>1, MayHaveAlike
  <2> QED
    BY <1>5, <1>9, <2>2
<1>10. RowsAreOwned'
  <2> SUFFICES ASSUME NEW s \in Rows, linked'[s] # NoIdentity
               PROVE  email'[s] \in MayHave[linked'[s]]
    BY <1>7 DEF RowsAreOwned
  <2>1. linked'[s] \in Identities
    BY <1>6 DEF TypeOK
  <2>2. email[s] \in MayHave[linked'[s]]
    <3>1. CASE s = r /\ pc[t] = "link"
      BY <1>3, <1>5, <3>1
    <3>2. CASE ~(s = r /\ pc[t] = "link")
      BY <1>5, <3>2 DEF AccountsInv, TableInv, RowsAreOwned
    <3> QED
      BY <3>1, <3>2
  <2> QED
    BY <1>8, <2>1, <2>2
<1>11. OriginsStayLinked'
  BY <1>5, <1>7, <1>9 DEF AccountsInv, TableInv, OriginsStayLinked
<1>12. ColumnsAreUnique'
  <2>1. pc[t] = "link" => \A s \in Rows \ {r} : linked[s] # who[t]
    BY <1>1, <1>3, AccountsAssumption DEF Admitted, Unlinked
  <2>2. pc[t] = "readdress" => \A s \in Rows \ {r} : email[s] # addr[t]
    BY <1>1 DEF Admitted, Unused
  <2> QED
    BY <1>1, <1>5, <2>1, <2>2 DEF AccountsInv, TableInv, ColumnsAreUnique
<1>13. TasksKnow'
  <2> SUFFICES ASSUME NEW u \in Tasks
               PROVE  TaskKnows(u)'
    BY DEF TasksKnow
  <2>1. CASE u = t
    <3>1. pc'[t] = "answered"
      BY <1>2 DEF AccountsInv, TypeOK
    <3>2. op[t] \in {"created", "token"} => linked'[r] = who[t]
      BY <1>1, <1>3, <1>4, <1>5
    <3>3. Exists(r)'
      BY <1>2, <1>3, <1>4, <1>5, AccountsAssumption DEF Exists
    <3> QED
      BY <1>1, <1>2, <1>3, <1>7, <2>1, <3>1, <3>2, <3>3
         DEF TaskKnows, Exists, AccountsInv, TypeOK
  <2>2. CASE u # t
    <3>1. TaskKnows(u)
      BY DEF AccountsInv, TasksKnow
    <3>2. /\ pc'[u] = pc[u] /\ op'[u] = op[u] /\ who'[u] = who[u]
          /\ addr'[u] = addr[u] /\ found'[u] = found[u]
      BY <1>2, <2>2 DEF AccountsInv, TypeOK
    <3>3. \A s \in Rows : Exists(s) => Exists(s)'
      BY <1>4, <1>5, AccountsAssumption DEF Exists
    <3>4. pc[u] \in {"link", "readdress", "answered"} => found[u] \in Rows
      BY <3>1 DEF TaskKnows
    <3>5. pc[u] \in {"link", "readdress"} => who[u] \in Identities
      BY <3>1 DEF TaskKnows, AccountsInv, TypeOK
    <3>6. pc[u] \in {"link", "readdress"} => email'[found[u]] \in MayHave[who[u]]
      BY <1>8, <3>1, <3>4, <3>5 DEF TaskKnows
    <3>7. pc[u] = "answered" /\ op[u] \in {"created", "token"} /\ who[u] \in Privates
            => linked'[found[u]] = who[u]
      BY <1>9, <3>1, <3>4 DEF TaskKnows
    <3> QED
      BY <1>7, <3>1, <3>2, <3>3, <3>4, <3>6, <3>7 DEF TaskKnows
  <2> QED
    BY <2>1, <2>2
<1> QED
  BY <1>6, <1>7, <1>10, <1>11, <1>12, <1>13 DEF AccountsInv, TableInv

LEMMA RefuseKeeps ==
    ASSUME AccountsInv, NEW t \in Tasks, Refuse(t)
    PROVE  AccountsInv'
BY EndKeeps DEF Refuse, clerkVars

LEMMA AnswerKeeps ==
    ASSUME AccountsInv, NEW t \in Tasks, Answer(t)
    PROVE  AccountsInv'
BY EndKeeps DEF Answer

LEMMA RestartKeeps ==
    ASSUME AccountsInv, Restart
    PROVE  AccountsInv'
<1>1. TypeOK'
  BY AccountsAssumption DEF AccountsInv, TypeOK, Restart, clerkVars, rowVars, Exists
<1>2. TableInv'
  BY TableStays DEF AccountsInv, Restart, clerkVars
<1>3. TasksKnow'
  BY DEF TasksKnow, TaskKnows, Restart
<1> QED
  BY <1>1, <1>2, <1>3 DEF AccountsInv

-----------------------------------------------------------------------------
(* The theorems *)

LEMMA AccountsInit ==
    ASSUME Init
    PROVE  AccountsInv
<1>1. TypeOK
  BY AccountsAssumption DEF Init, TypeOK, Exists
<1>2. TableInv
  BY AccountsAssumption
     DEF Init, TableInv, MessagesAreTrue, RowsAreOwned, ColumnsAreUnique, OriginsStayLinked,
         Privates
<1>3. TasksKnow
  BY DEF Init, TasksKnow, TaskKnows
<1> QED
  BY <1>1, <1>2, <1>3 DEF AccountsInv

LEMMA AccountsNext ==
    ASSUME AccountsInv, [Next]_vars
    PROVE  AccountsInv'
<1>1. ASSUME NEW i \in Identities, NEW a \in Addresses, Register(i, a)
      PROVE  AccountsInv'
  BY <1>1, RegisterKeeps
<1>2. ASSUME NEW t \in Tasks, Step(t)
      PROVE  AccountsInv'
  BY <1>2, FindByIdentityKeeps, MissIdentityKeeps, FindByAddressKeeps, MissAddressKeeps,
     InsertKeeps, UpdateKeeps, RefuseKeeps, AnswerKeeps DEF Step
<1>3. ASSUME NEW t \in Tasks, Arrival(t)
      PROVE  AccountsInv'
  BY <1>3, ArrivalKeeps
<1>4. CASE Restart
  BY <1>4, RestartKeeps
<1>5. CASE UNCHANGED vars
  <2>1. TypeOK'
    BY <1>5 DEF AccountsInv, TypeOK, vars, clerkVars, rowVars, taskVars, Exists
  <2>2. TableInv'
    BY <1>5, TableStays DEF AccountsInv, vars, clerkVars
  <2>3. TasksKnow'
    BY <1>5, MayHaveStays DEF AccountsInv, TasksKnow, TaskKnows, vars, clerkVars, rowVars, taskVars, Exists
  <2> QED
    BY <2>1, <2>2, <2>3 DEF AccountsInv
<1> QED
  BY <1>1, <1>2, <1>3, <1>4, <1>5 DEF Next

\* What Clerk, the table and the tasks know of each other never falls apart.
THEOREM AccountsInvariant == Spec => []AccountsInv
<1>1. Init => AccountsInv
  BY AccountsInit
<1>2. AccountsInv /\ [Next]_vars => AccountsInv'
  BY AccountsNext
<1> QED
  BY <1>1, <1>2, PTL DEF Spec

\* No request works on a row that is not there, and every variable has its type.
THEOREM AccountTypes == Spec => []TypeOK
<1>1. AccountsInv => TypeOK
  BY DEF AccountsInv
<1> QED
  BY <1>1, AccountsInvariant, PTL

\* user.created inserts at most one account per identity that has its addresses to
\* itself, however many deliveries, token requests and changes of address overlap
\* (clerk.py:200).
THEOREM AccountsAreUnique == Spec => []OneAccountPerIdentity
<1>1. AccountsInv => OneAccountPerIdentity
  <2> SUFFICES ASSUME AccountsInv, NEW r \in Rows, NEW s \in Rows, origin[r] # NoIdentity,
                      origin[r] = origin[s], Private(origin[r])
               PROVE  r = s
    BY DEF OneAccountPerIdentity
  <2>1. origin[r] \in Privates
    BY DEF AccountsInv, TypeOK, Privates
  <2>2. linked[r] = origin[r] /\ linked[s] = origin[r]
    BY <2>1 DEF AccountsInv, TableInv, OriginsStayLinked
  <2> QED
    BY <2>2 DEF AccountsInv, TableInv, ColumnsAreUnique
<1> QED
  BY <1>1, AccountsInvariant, PTL

\* The row of an answer of user.created or of an accepted token is linked to the
\* identity that asked (clerk_auth.py:229-238, clerk.py:229-253), whoever else signs up,
\* and whatever addresses pass between them, if nobody else has had an address of that
\* identity.
THEOREM AnswersLinked == Spec => []AnswersAreLinked
<1>1. AccountsInv => AnswersAreLinked
  <2> SUFFICES ASSUME AccountsInv, NEW t \in Tasks, pc[t] = "answered",
                      op[t] \in {"created", "token"}, Private(who[t])
               PROVE  linked[found[t]] = who[t]
    BY DEF AnswersAreLinked
  <2>1. TaskKnows(t)
    BY DEF AccountsInv, TasksKnow
  <2>2. who[t] \in Privates
    BY <2>1 DEF TaskKnows, Privates
  <2> QED
    BY <2>1, <2>2 DEF TaskKnows
<1> QED
  BY <1>1, AccountsInvariant, PTL

-----------------------------------------------------------------------------
(* The registry of identities *)

\* Only the inserting and the updating statement write links, and only Clerk gives
\* addresses.
LEMMA LinksStay ==
    ASSUME TypeOK, [Next]_vars, \A t \in Tasks : ~Insert(t) /\ ~Update(t)
    PROVE  Registry!Next \/ UNCHANGED <<linked, known>>
<1>1. ASSUME NEW t \in Tasks, FindByIdentity(t) \/ FindByAddress(t)
      PROVE  UNCHANGED <<linked, known>>
  BY <1>1 DEF FindByIdentity, FindByAddress, Continue, rowVars, clerkVars
<1>2. ASSUME NEW t \in Tasks,
             MissIdentity(t) \/ MissAddress(t) \/ Refuse(t) \/ Answer(t)
      PROVE  UNCHANGED <<linked, known>>
  BY <1>2 DEF MissIdentity, MissAddress, Refuse, Answer, Continue, rowVars, clerkVars
<1>3. ASSUME NEW t \in Tasks, Arrival(t)
      PROVE  UNCHANGED <<linked, known>>
  BY <1>3 DEF Arrival, Deliver, Repeat, Receive, Authenticate, AdminCreate, Begin, rowVars,
              clerkVars
<1>4. ASSUME NEW i \in Identities, NEW a \in Addresses, Register(i, a)
      PROVE  Registry!Next
  <2>1. Registry!Acquire(i, a)
    BY <1>4 DEF Register, rowVars, Registry!Acquire
  <2> QED
    BY <2>1 DEF Registry!Next
<1>5. CASE Restart \/ UNCHANGED vars
  BY <1>5 DEF Restart, vars, rowVars, clerkVars
<1> QED
  BY <1>1, <1>2, <1>3, <1>4, <1>5 DEF Next, Step

\* An INSERT links a row that was not there, or none.
LEMMA InsertLinks ==
    ASSUME AccountsInv, NEW t \in Tasks, Insert(t)
    PROVE  Registry!Next \/ UNCHANGED <<linked, known>>
<1>1. pc[t] = "insert" /\ TaskKnows(t) /\ Admitted(t) /\ known' = known
  BY DEF Insert, AccountsInv, TasksKnow, clerkVars
<1>2. PICK r \in Rows : ~Exists(r) /\ linked' = [linked EXCEPT ![r] = who[t]]
  BY DEF Insert
<1>3. linked[r] = NoIdentity
  BY <1>2 DEF AccountsInv, TypeOK
<1>4. CASE who[t] = NoIdentity
  BY <1>1, <1>2, <1>3, <1>4 DEF AccountsInv, TypeOK
<1>5. CASE who[t] # NoIdentity
  <2>1. who[t] \in Identities
    BY <1>5 DEF AccountsInv, TypeOK
  <2>2. \A s \in Rows : linked[s] # who[t]
    BY <1>1, <1>5, AccountsAssumption DEF Admitted, Unlinked
  <2>3. Registry!Link(r, who[t])
    BY <1>1, <1>2, <1>3, <2>2 DEF Registry!Link, Registry!HasNone
  <2> QED
    BY <2>1, <2>3 DEF Registry!Next
<1> QED
  BY <1>4, <1>5

\* An UPDATE links a row of no one, or writes the identity that is there already, or takes
\* the row over from an identity that may have the same addresses, so that neither of the
\* two is private.
LEMMA UpdateLinks ==
    ASSUME AccountsInv, NEW t \in Tasks, Update(t)
    PROVE  Registry!Next \/ UNCHANGED <<linked, known>>
<1> DEFINE r == found[t]
           i == who[t]
<1>1. TaskKnows(t) /\ Admitted(t) /\ known' = known
  BY DEF Update, AccountsInv, TasksKnow, clerkVars
<1>2. CASE pc[t] = "readdress"
  BY <1>1, <1>2 DEF Update
<1>3. CASE pc[t] = "link"
  <2>1. r \in Rows /\ i \in Identities /\ email[r] \in MayHave[i]
    BY <1>1, <1>3 DEF TaskKnows, AccountsInv, TypeOK
  <2>2. linked' = [linked EXCEPT ![r] = i]
    BY <1>3 DEF Update
  <2>3. \A s \in Rows \ {r} : linked[s] # i
    BY <1>1, <1>3, <2>1, AccountsAssumption DEF Admitted, Unlinked
  <2>4. CASE linked[r] = i
    BY <1>1, <2>1, <2>2, <2>4 DEF AccountsInv, TypeOK
  <2>5. CASE linked[r] = NoIdentity
    <3>1. Registry!Link(r, i)
      BY <1>1, <2>1, <2>2, <2>3, <2>5, AccountsAssumption
         DEF Registry!Link, Registry!HasNone
    <3> QED
      BY <2>1, <3>1 DEF Registry!Next
  <2>6. ASSUME NEW j \in Identities, linked[r] = j, j # i
        PROVE  Registry!Next
    <3>1. email[r] \in MayHave[j]
      BY <2>1, <2>6, AccountsAssumption DEF AccountsInv, TableInv, RowsAreOwned
    <3>2. i \notin Privates /\ j \notin Privates
      BY <2>1, <2>6, <3>1, MayHaveAlike
    <3>3. ~Registry!Private(i) /\ ~Registry!Private(j)
      BY <2>1, <3>2 DEF Privates, Private, Registry!Private
    <3>4. Registry!HandOver(r, j, i)
      BY <1>1, <2>1, <2>2, <2>3, <2>6, <3>3 DEF Registry!HandOver, Registry!HasNone
    <3> QED
      BY <2>1, <3>4 DEF Registry!Next
  <2> QED
    BY <2>1, <2>4, <2>5, <2>6 DEF AccountsInv, TypeOK
<1> QED
  BY <1>2, <1>3 DEF Update

\* However webhooks, token requests, changes of address and restarts overlap, the column
\* clerk_user_id implements a registry (clerk.py:231, 319, clerk_auth.py:229): an identity
\* has one account at most, and an account is taken from an identity, or given to another,
\* only when both have had an address that somebody else has had too.
THEOREM LinksAreKept == Spec => ImplementsIdentityRegistry
<1>1. Init => Registry!Init
  BY DEF Init, Registry!Init
<1>2. AccountsInv /\ [Next]_vars => [Registry!Next]_<<linked, known>>
  <2>1. AccountsInv => TypeOK
    BY DEF AccountsInv
  <2> QED
    BY <2>1, InsertLinks, UpdateLinks, LinksStay DEF Next, Step
<1> QED
  BY <1>1, <1>2, AccountsInvariant, PTL DEF Spec, ImplementsIdentityRegistry, Registry!Spec
=============================================================================
