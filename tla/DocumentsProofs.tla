---------------------------- MODULE DocumentsProofs ----------------------------
(***************************************************************************)
(* Proofs about Documents: for any subjects, tenants, requests and number  *)
(* of calls, time-outs and crashes, what is stored, deleted and            *)
(* acknowledged belongs to the request that asked for it.                  *)
(***************************************************************************)
EXTENDS Documents, TLAPS

\* A call that has asked something has made an attempt.
Attempts == \A c \in Calls : request[c] # NoRequest => attempt[c] >= 1

\* What message m says comes from the request of its call.
Carried(m) ==
    /\ request[m.call] # NoRequest
    /\ m.op = request[m.call].op
    /\ m.size = request[m.call].size
    /\ m.filter = Filter(request[m.call])
    /\ \A r \in m.records : r.by = m.call /\ Under(r.metadata, Scope(request[m.call]))
    /\ m.op = "ingest" => m.records # {}

AllCarried ==
    /\ \A c \in Calls : message[c] # NoMessage => message[c].call = c /\ Carried(message[c])
    /\ \A m \in inbox : Carried(m)
    /\ running # NoMessage => Carried(running)

\* A handler that is about to post has a message of its attempt.
NewMessages ==
    \A c \in Calls :
        gateway[c] = "scoped" => message[c] # NoMessage /\ message[c].attempt = attempt[c]

\* m has been posted: if by the present attempt of its call, then it is its message.
Posted(m) ==
    /\ m.attempt <= attempt[m.call]
    /\ m.attempt = attempt[m.call] =>
         gateway[m.call] \notin {"verifying", "scoped"} /\ m = message[m.call]

AllPosted == (\A m \in inbox : Posted(m)) /\ (running # NoMessage => Posted(running))

CollectionScoped ==
    \A r \in collection :
        request[r.by] # NoRequest /\ Under(r.metadata, Scope(request[r.by]))

\* What is left to add belongs to the running message; the rest of its ids are there.
RestKnown ==
    running # NoMessage =>
        /\ rest \subseteq running.records
        /\ running.op = "ingest" =>
             \A r \in running.records : r \in rest \/ r.id \in Ids(collection)

DocInv == /\ TypeOK /\ Attempts /\ AllCarried /\ NewMessages /\ AllPosted
          /\ CollectionScoped /\ RestKnown

USE DocumentsAssumption

-----------------------------------------------------------------------------

\* What dict.update makes of metadata is metadata.
LEMMA UpdateMetadata ==
    ASSUME NEW m \in Metadata, NEW n \in Metadata
    PROVE  Update(m, n) \in Metadata
  <1>1. PICK K \in SUBSET Keys : m \in [K -> Values]
    BY DEF Metadata
  <1>2. PICK L \in SUBSET Keys : n \in [L -> Values]
    BY DEF Metadata
  <1>3. Update(m, n) \in [K \cup L -> Values]
    BY <1>1, <1>2 DEF Update
  <1>4. K \cup L \in SUBSET Keys
    OBVIOUS
  <1> QED BY <1>3, <1>4 DEF Metadata

\* A request's scope and filter are metadata.
LEMMA ScopeMetadata ==
    ASSUME NEW r \in Requests
    PROVE  Scope(r) \in Metadata /\ Filter(r) \in Metadata
  <1>1. Tenant(r) \in Tenants /\ r.who \in Subjects
    BY DEF Tenant
  <1>2. Scope(r) \in [{"tenant_id", "clerk_user_id"} -> Values]
    BY <1>1 DEF Scope, Values
  <1>3. CASE r.op = "delete"
    <2>1. Filter(r) \in [{"tenant_id", "clerk_user_id", "document_id"} -> Values]
      BY <1>3 DEF Filter, Values
    <2> QED BY <1>2, <2>1 DEF Metadata, Keys
  <1>4. CASE r.op # "delete"
    BY <1>2, <1>4 DEF Filter, Metadata, Keys
  <1> QED BY <1>3, <1>4

\* The gateway's scope prevails over a document's own metadata.
LEMMA ScopedMetadata ==
    ASSUME NEW r \in Requests, NEW d \in Documents
    PROVE  Scoped(d, Scope(r)) \in Metadata /\ Under(Scoped(d, Scope(r)), Scope(r))
  <1> DEFINE m == Update(d.metadata, Scope(r))
  <1>1. d.metadata \in Metadata /\ d.document_id \in Names \cup {NoName}
    BY DEF Documents
  <1>2. m \in Metadata
    BY <1>1, ScopeMetadata, UpdateMetadata
  <1>3. Under(m, Scope(r))
    BY DEF Under, Update
  <1>4. CASE d.document_id = NoName
    BY <1>2, <1>3, <1>4 DEF Scoped
  <1>5. CASE d.document_id # NoName
    <2> DEFINE n == [document_id |-> d.document_id]
    <2>1. n \in [{"document_id"} -> Values]
      BY <1>1, <1>5 DEF Values
    <2>2. n \in Metadata
      BY <2>1 DEF Metadata, Keys
    <2>3. Update(m, n) \in Metadata
      BY <1>2, <2>2, UpdateMetadata
    <2>4. Under(Update(m, n), Scope(r))
      <3>1. DOMAIN Scope(r) = {"tenant_id", "clerk_user_id"} /\ DOMAIN n = {"document_id"}
        BY DEF Scope
      <3>2. \A k \in DOMAIN m : k \notin DOMAIN n =>
              k \in DOMAIN Update(m, n) /\ Update(m, n)[k] = m[k]
        BY DEF Update
      <3> HIDE DEF m, n
      <3> QED BY <1>3, <3>1, <3>2 DEF Under
    <2> QED BY <1>5, <2>3, <2>4 DEF Scoped
  <1> QED BY <1>4, <1>5

\* The records of an ingest are of its call and in its scope.
LEMMA RecordsOfRequest ==
    ASSUME NEW c \in Calls, NEW r \in Requests, NEW S \in SUBSET RecordIds,
           NEW g \in [{d \in r.docs : d.id = NoId} -> S]
    PROVE  /\ RecordsOf(c, r, g) \subseteq Records
           /\ \A x \in RecordsOf(c, r, g) : x.by = c /\ Under(x.metadata, Scope(r))
           /\ r.docs # {} => RecordsOf(c, r, g) # {}
  <1>1. \A d \in r.docs : d \in Documents
    OBVIOUS
  <1>2. \A d \in r.docs : (IF d.id = NoId THEN g[d] ELSE d.id) \in RecordIds
    BY <1>1 DEF Documents
  <1> DEFINE rec(d) == [id |-> IF d.id = NoId THEN g[d] ELSE d.id,
                         metadata |-> Scoped(d, Scope(r)), by |-> c]
  <1>3. ASSUME NEW d \in r.docs
        PROVE  rec(d) \in Records /\ rec(d).by = c /\ Under(rec(d).metadata, Scope(r))
    BY <1>1, <1>2, ScopedMetadata DEF Records
  <1>4. RecordsOf(c, r, g) = {rec(d) : d \in r.docs}
    BY DEF RecordsOf
  <1> HIDE DEF rec
  <1> QED BY <1>3, <1>4

-----------------------------------------------------------------------------
(* The gateway's steps *)

\* What is carried stays so while no call's request changes.
LEMMA RequestsKept ==
    ASSUME NEW m, Carried(m), request'[m.call] = request[m.call]
    PROVE  Carried(m)'
  BY DEF Carried

\* A call's first request: nothing that was carried before is this call's.
LEMMA AskInv ==
    ASSUME DocInv, NEW c \in Calls, NEW q \in Requests, Ask(c, q)
    PROVE  DocInv'
  <1> USE DEF Ask, storeVars, chromaVars
  <1>1. TypeOK'
    BY DEF DocInv, TypeOK
  <1>2. Attempts'
    BY DEF DocInv, TypeOK, Attempts
  <1>3. \A d \in Calls : request[d] # NoRequest => request'[d] = request[d] /\ d # c
    BY DEF DocInv, TypeOK
  <1>4. AllCarried'
    <2>1. \A m : Carried(m) /\ m.call \in Calls => Carried(m)'
      BY <1>3 DEF Carried
    <2> QED BY <2>1 DEF DocInv, TypeOK, AllCarried, Messages
  <1>5. NewMessages'
    BY DEF DocInv, TypeOK, NewMessages
  <1>6. AllPosted'
    <2>1. ASSUME NEW m \in Messages, Carried(m), Posted(m) PROVE Posted(m)'
      <3>1. m.call \in Calls /\ m.call # c
        BY <2>1, <1>3 DEF Carried, Messages
      <3> QED BY <2>1, <3>1 DEF Posted, DocInv, TypeOK
    <2> QED BY <2>1 DEF DocInv, TypeOK, AllCarried, AllPosted
  <1>7. CollectionScoped'
    BY <1>3 DEF DocInv, TypeOK, CollectionScoped, Records
  <1>8. RestKnown'
    BY DEF DocInv, RestKnown
  <1> QED BY <1>1, <1>2, <1>4, <1>5, <1>6, <1>7, <1>8 DEF DocInv

\* A new attempt: what was posted by earlier ones is not its message.
LEMMA RepeatInv ==
    ASSUME DocInv, NEW c \in Calls, Repeat(c)
    PROVE  DocInv'
  <1> USE DEF Repeat, storeVars, chromaVars
  <1>1. TypeOK'
    BY DEF DocInv, TypeOK
  <1>2. Attempts'
    BY DEF DocInv, TypeOK, Attempts
  <1>3. AllCarried' /\ CollectionScoped' /\ RestKnown'
    BY DEF DocInv, AllCarried, Carried, CollectionScoped, RestKnown
  <1>4. NewMessages'
    BY DEF DocInv, TypeOK, NewMessages
  <1>5. AllPosted'
    <2>1. ASSUME NEW m \in Messages, Posted(m) PROVE Posted(m)'
      BY <2>1 DEF Posted, DocInv, TypeOK, Messages
    <2> QED BY <2>1 DEF DocInv, TypeOK, AllPosted
  <1> QED BY <1>1, <1>2, <1>3, <1>4, <1>5 DEF DocInv

\* The handler ends: what it has posted, stays posted.
LEMMA GiveUpInv ==
    ASSUME DocInv, NEW c \in Calls, Refuse(c) \/ TimesOut(c)
    PROVE  DocInv'
  <1>0. /\ \E g \in {"refused", "unavailable"} : gateway' = [gateway EXCEPT ![c] = g]
        /\ gateway[c] # "none"
        /\ UNCHANGED <<request, attempt, message, uuids, storeVars, chromaVars>>
        /\ faults' \in 0..MaxFaults
    BY DEF Refuse, TimesOut, DocInv, TypeOK
  <1> USE DEF storeVars, chromaVars
  <1>1. TypeOK'
    BY <1>0 DEF DocInv, TypeOK, Answers
  <1>2. Attempts' /\ AllCarried' /\ CollectionScoped' /\ RestKnown'
    BY <1>0 DEF DocInv, Attempts, AllCarried, Carried, CollectionScoped, RestKnown
  <1>3. NewMessages'
    BY <1>0 DEF DocInv, TypeOK, NewMessages
  <1>4. AllPosted'
    <2>1. ASSUME NEW m \in Messages, Posted(m) PROVE Posted(m)'
      BY <2>1, <1>0 DEF Posted, DocInv, TypeOK, Messages
    <2> QED BY <1>0, <2>1 DEF DocInv, TypeOK, AllPosted
  <1> QED BY <1>1, <1>2, <1>3, <1>4 DEF DocInv

\* The handler scopes its payload; what it will post is new.
LEMMA VerifyInv ==
    ASSUME DocInv, NEW c \in Calls, Verify(c)
    PROVE  DocInv'
  <1> DEFINE q == request[c]
             anonymous == {d \in q.docs : d.id = NoId}
  <1>1. q \in Requests /\ attempt[c] \in 1..MaxAttempts /\ gateway[c] = "verifying"
    BY DEF Verify, DocInv, TypeOK, Attempts
  <1>2. PICK g \in [anonymous -> uuids] :
          /\ uuids' = uuids \ {g[d] : d \in anonymous}
          /\ message' = [message EXCEPT ![c] =
               [call |-> c, attempt |-> attempt[c], op |-> q.op, size |-> q.size,
                records |-> RecordsOf(c, q, g), filter |-> Filter(q)]]
    BY Zenon DEF Verify
  <1> DEFINE m == [call |-> c, attempt |-> attempt[c], op |-> q.op, size |-> q.size,
                   records |-> RecordsOf(c, q, g), filter |-> Filter(q)]
  <1>3. /\ gateway' = [gateway EXCEPT ![c] = "scoped"]
        /\ UNCHANGED <<request, attempt, inbox, running, rest, collection, present, faults>>
    BY DEF Verify, storeVars, chromaVars
  <1>4. /\ RecordsOf(c, q, g) \subseteq Records
        /\ \A x \in RecordsOf(c, q, g) : x.by = c /\ Under(x.metadata, Scope(q))
        /\ q.docs # {} => RecordsOf(c, q, g) # {}
    <2>1. uuids \in SUBSET RecordIds
      BY DEF DocInv, TypeOK
    <2>2. g \in [{d \in q.docs : d.id = NoId} -> uuids]
      OBVIOUS
    <2> HIDE DEF q
    <2> QED BY <1>1, <2>1, <2>2, RecordsOfRequest
  <1>5. /\ q.op \in Operations /\ q.size \in Int
        /\ q.op = "ingest" => q.docs # {}
        /\ Filter(q) \in Metadata
    BY <1>1, ScopeMetadata DEF Verify, Malformed
  <1>6. /\ m \in Messages /\ m.call = c /\ m.attempt = attempt[c] /\ m.op = q.op
        /\ m.size = q.size /\ m.records = RecordsOf(c, q, g) /\ m.filter = Filter(q)
    BY <1>1, <1>4, <1>5 DEF Messages
  <1>7. message' = [message EXCEPT ![c] = m]
    BY <1>2
  <1> HIDE DEF m
  <1>8. TypeOK'
    <2>1. message' \in [Calls -> Messages \cup {NoMessage}] /\ uuids' \subseteq Uuids
      BY <1>2, <1>6, <1>7 DEF DocInv, TypeOK
    <2> HIDE <1>2
    <2> QED BY <1>1, <1>3, <2>1 DEF DocInv, TypeOK
  <1>9. Attempts' /\ CollectionScoped' /\ RestKnown'
    BY <1>3 DEF DocInv, Attempts, CollectionScoped, RestKnown
  <1>10. AllCarried'
    <2>1. \A n : Carried(n) => Carried(n)'
      BY <1>3 DEF Carried
    <2>2. Carried(m)
      BY <1>1, <1>4, <1>5, <1>6 DEF Carried
    <2> QED BY <1>3, <1>6, <1>7, <2>1, <2>2 DEF DocInv, TypeOK, AllCarried
  <1>11. NewMessages'
    BY <1>3, <1>6, <1>7 DEF DocInv, TypeOK, NewMessages
  <1>12. AllPosted'
    <2>1. ASSUME NEW n \in Messages, Posted(n) PROVE Posted(n)'
      <3>1. n.call = c => n.attempt # attempt[c]
        BY <1>1, <2>1 DEF Posted
      <3> QED BY <1>3, <1>7, <2>1, <3>1 DEF Posted, DocInv, TypeOK, Messages
    <2> QED BY <1>3, <2>1 DEF DocInv, TypeOK, AllPosted
  <1> QED BY <1>8, <1>9, <1>10, <1>11, <1>12 DEF DocInv

\* The inbox gets the message of the call's present attempt.
LEMMA PostInv ==
    ASSUME DocInv, NEW c \in Calls, Post(c)
    PROVE  DocInv'
  <1> USE DEF Post, chromaVars
  <1>0. /\ message[c] \in Messages /\ message[c] # NoMessage
        /\ message[c].call = c /\ message[c].attempt = attempt[c] /\ Carried(message[c])
    BY DEF DocInv, TypeOK, NewMessages, AllCarried
  <1>1. TypeOK'
    BY <1>0 DEF DocInv, TypeOK, Carried
  <1>2. Attempts' /\ CollectionScoped' /\ RestKnown'
    BY DEF DocInv, Attempts, CollectionScoped, RestKnown
  <1>3. AllCarried'
    <2>1. \A n : Carried(n) => Carried(n)'
      BY DEF Carried
    <2> QED BY <1>0, <2>1 DEF DocInv, AllCarried
  <1>4. NewMessages'
    BY DEF DocInv, TypeOK, NewMessages
  <1>5. AllPosted'
    <2>1. ASSUME NEW n \in Messages, Posted(n) PROVE Posted(n)'
      BY <2>1 DEF Posted, DocInv, TypeOK, Messages
    <2>2. Posted(message[c])'
      BY <1>0 DEF Posted, DocInv, TypeOK
    <2> QED BY <2>1, <2>2 DEF DocInv, TypeOK, AllPosted
  <1> QED BY <1>1, <1>2, <1>3, <1>4, <1>5 DEF DocInv
-----------------------------------------------------------------------------
(* The vector store's steps *)

\* A handler begins with the records whose ids are not there yet.
LEMMA StartInv ==
    ASSUME DocInv, NEW m \in inbox, Start(m)
    PROVE  DocInv'
  <1> USE DEF Start, gatewayVars, chromaVars
  <1>0. /\ m \in Messages /\ m # NoMessage /\ Carried(m) /\ Posted(m)
        /\ NewRecords(m) \subseteq m.records
        /\ m.records \subseteq Records
        /\ \A r \in m.records : r \in NewRecords(m) \/ r.id \in Ids(collection)
    BY DEF DocInv, TypeOK, AllCarried, AllPosted, NewRecords, Messages
  <1>1. TypeOK'
    BY <1>0 DEF DocInv, TypeOK
  <1>2. Attempts' /\ CollectionScoped' /\ NewMessages'
    BY DEF DocInv, Attempts, CollectionScoped, NewMessages
  <1>3. AllCarried'
    <2>1. \A n : Carried(n) => Carried(n)'
      BY DEF Carried
    <2> QED BY <1>0, <2>1 DEF DocInv, AllCarried
  <1>4. AllPosted'
    <2>1. \A n : Posted(n) => Posted(n)'
      BY DEF Posted
    <2> QED BY <1>0, <2>1 DEF DocInv, AllPosted
  <1>5. RestKnown'
    BY <1>0 DEF RestKnown
  <1> QED BY <1>1, <1>2, <1>3, <1>4, <1>5 DEF DocInv

\* A batch belongs to the running message.
LEMMA AddBatchInv ==
    ASSUME DocInv, AddBatch
    PROVE  DocInv'
  <1> USE DEF AddBatch, gatewayVars
  <1>0. PICK b \in SUBSET rest : ~Repetitive(b) /\ collection' = Added(b) /\ rest' = rest \ b
    OBVIOUS
  <1>1. /\ running # NoMessage /\ running.op = "ingest"
        /\ running \in Messages /\ Carried(running) /\ rest \subseteq running.records
        /\ UNCHANGED <<request, gateway, attempt, message, uuids, inbox, running, present, faults>>
    BY DEF Adding, DocInv, TypeOK, AllCarried, RestKnown
  <1>2. collection' \subseteq collection \cup b
        /\ Ids(collection') = Ids(collection) \cup Ids(b)
    BY <1>0 DEF Added, Ids
  <1>3. TypeOK'
    BY <1>0, <1>1, <1>2 DEF DocInv, TypeOK
  <1>4. Attempts' /\ NewMessages'
    BY <1>1 DEF DocInv, Attempts, NewMessages
  <1>5. AllCarried'
    BY <1>1 DEF DocInv, AllCarried, Carried
  <1>6. AllPosted'
    BY <1>1 DEF DocInv, AllPosted, Posted
  <1>7. CollectionScoped'
    BY <1>0, <1>1, <1>2 DEF DocInv, CollectionScoped, Carried
  <1>8. RestKnown'
    <2>1. \A r \in running.records : r \in rest' \/ r.id \in Ids(collection')
      BY <1>0, <1>1, <1>2 DEF DocInv, RestKnown, Ids
    <2> QED BY <1>0, <1>1, <2>1 DEF RestKnown
  <1> QED BY <1>3, <1>4, <1>5, <1>6, <1>7, <1>8 DEF DocInv

\* What an ending handler and a failing one have in common: nothing runs any longer,
\* and the collection has no record but what it had and some of what was left to add.
LEMMA EndInv ==
    ASSUME DocInv, NEW answer \in Answers, running # NoMessage, End(answer),
           NEW b \in SUBSET rest, collection' \subseteq collection \cup b,
           present' = present, faults' \in 0..MaxFaults
    PROVE  DocInv'
  <1> USE DEF End
  <1>1. /\ running \in Messages /\ Carried(running) /\ rest \subseteq running.records
        /\ UNCHANGED <<request, attempt, message, uuids, inbox>>
        /\ running' = NoMessage /\ rest' = {}
        /\ running.call \in Calls
    BY DEF DocInv, TypeOK, AllCarried, RestKnown, Messages
  <1>2. /\ gateway' \in [Calls -> {"none", "verifying", "scoped", "waiting"} \cup Answers]
        /\ \A c \in Calls : \/ gateway'[c] = gateway[c]
                            \/ gateway[c] = "waiting" /\ gateway'[c] = answer
    <2>1. \/ gateway' = gateway
          \/ /\ gateway[running.call] = "waiting"
             /\ gateway' = [gateway EXCEPT ![running.call] = answer]
      OBVIOUS
    <2>2. gateway \in [Calls -> {"none", "verifying", "scoped", "waiting"} \cup Answers]
      BY DEF DocInv, TypeOK
    <2>3. running.call \in Calls
      BY <1>1
    <2> HIDE DEF End
    <2>4. CASE gateway' = gateway
      BY <2>2, <2>4
    <2>5. CASE /\ gateway[running.call] = "waiting"
               /\ gateway' = [gateway EXCEPT ![running.call] = answer]
      BY <2>2, <2>3, <2>5
    <2> QED BY <2>1, <2>4, <2>5
  <1>3. TypeOK'
    BY <1>1, <1>2 DEF DocInv, TypeOK, Answers
  <1>4. Attempts'
    BY <1>1 DEF DocInv, Attempts
  <1>5. AllCarried'
    BY <1>1 DEF DocInv, AllCarried, Carried
  <1>6. NewMessages'
    BY <1>1, <1>2 DEF DocInv, NewMessages, Answers
  <1>7. AllPosted'
    <2>1. ASSUME NEW m \in Messages, Posted(m) PROVE Posted(m)'
      <3>1. m.call \in Calls
        BY DEF Messages
      <3> QED BY <1>1, <1>2, <2>1, <3>1 DEF Posted, Answers
    <2> QED BY <1>1, <2>1 DEF DocInv, TypeOK, AllPosted
  <1>8. CollectionScoped'
    BY <1>1 DEF DocInv, CollectionScoped, Carried
  <1>9. RestKnown'
    BY <1>1 DEF RestKnown
  <1> QED BY <1>3, <1>4, <1>5, <1>6, <1>7, <1>8, <1>9 DEF DocInv

\* The steps in which a handler ends.
LEMMA FinishInv ==
    ASSUME DocInv, FinishAdd \/ FinishDelete \/ FinishFailing \/ ChromaFails
    PROVE  DocInv'
  <1>0. faults \in 0..MaxFaults /\ "ok" \in Answers /\ "bad_gateway" \in Answers
    BY DEF DocInv, TypeOK, Answers
  <1>1. CASE FinishAdd
    BY <1>0, <1>1, EndInv DEF FinishAdd, chromaVars
  <1>2. CASE FinishDelete
    <2>1. collection' \subseteq collection
      BY <1>2 DEF FinishDelete, Remaining
    <2> QED BY <1>0, <1>2, <2>1, EndInv DEF FinishDelete
  <1>3. CASE FinishFailing
    BY <1>0, <1>3, EndInv DEF FinishFailing, chromaVars
  <1>4. CASE ChromaFails
    <2>1. \E b \in SUBSET rest : collection' \subseteq collection \cup b
      BY <1>4 DEF ChromaFails, Remaining, Added
    <2> QED BY <1>0, <1>4, <2>1, EndInv DEF ChromaFails
  <1> QED BY <1>1, <1>2, <1>3, <1>4

\* A crash forgets what was posted and keeps the collection.
LEMMA CrashInv ==
    ASSUME DocInv, Crash
    PROVE  DocInv'
  <1> USE DEF Crash
  <1>1. TypeOK'
    BY DEF DocInv, TypeOK, Answers
  <1>2. Attempts' /\ CollectionScoped' /\ AllPosted' /\ RestKnown'
    BY DEF DocInv, Attempts, CollectionScoped, AllPosted, RestKnown
  <1>3. AllCarried'
    BY DEF DocInv, AllCarried, Carried
  <1>4. NewMessages'
    BY DEF DocInv, NewMessages
  <1> QED BY <1>1, <1>2, <1>3, <1>4 DEF DocInv

\* The collection is cleared only while no handler runs.
LEMMA ClearInv ==
    ASSUME DocInv, Clear
    PROVE  DocInv'
  <1> USE DEF Clear, gatewayVars, storeVars
  <1>1. TypeOK'
    <2>1. present' \in BOOLEAN
      BY Zenon DEF DocInv, TypeOK
    <2>2. faults' = faults \/ (faults < MaxFaults /\ faults' = faults + 1)
      BY Zenon
    <2>3. faults' \in 0..MaxFaults
      <3> HIDE DEF Clear
      <3> QED BY <2>2 DEF DocInv, TypeOK
    <2> QED BY <2>1, <2>3 DEF DocInv, TypeOK
  <1>2. Attempts' /\ NewMessages' /\ CollectionScoped' /\ RestKnown'
    BY DEF DocInv, Attempts, NewMessages, CollectionScoped, RestKnown
  <1>3. AllCarried' /\ AllPosted'
    BY DEF DocInv, AllCarried, Carried, AllPosted, Posted
  <1> QED BY <1>1, <1>2, <1>3 DEF DocInv

-----------------------------------------------------------------------------

\* Nothing is asked, posted or stored at the start.
LEMMA InitDoc == Init => DocInv
  BY DEF Init, DocInv, TypeOK, Attempts, AllCarried, NewMessages, AllPosted, CollectionScoped,
         RestKnown

\* Every step keeps the invariant.
LEMMA NextDoc == DocInv /\ [Next]_vars => DocInv'
  <1> SUFFICES ASSUME DocInv, [Next]_vars PROVE DocInv'
    OBVIOUS
  <1>1. CASE Next
    BY <1>1, AskInv, RepeatInv, GiveUpInv, VerifyInv, PostInv, StartInv, AddBatchInv, FinishInv,
       CrashInv, ClearInv
       DEF Next, Handle, Work
  <1>2. CASE UNCHANGED vars
    BY <1>2 DEF vars, gatewayVars, storeVars, chromaVars, DocInv, TypeOK, Attempts, AllCarried,
                Carried, NewMessages, AllPosted, Posted, CollectionScoped, RestKnown
  <1> QED BY <1>1, <1>2

\* The gateway's messages, the vector store and the collection stay consistent.
THEOREM DocumentsInvariant == Spec => []DocInv
  BY InitDoc, NextDoc, PTL DEF Spec

\* All variables of the gateway, the vector store and the collection stay within
\* their types; no ingest without documents is posted (rag.py:183).
THEOREM TypeCorrect == Spec => []TypeOK
  <1>1. DocInv => TypeOK
    BY DEF DocInv
  <1> QED BY <1>1, DocumentsInvariant, PTL

\* A record carries the subject and the tenant of the request it came with, whatever
\* metadata and ids callers choose (rag.py:201).
THEOREM RecordsStayScoped == Spec => []RecordsAreScoped
  <1>1. DocInv => RecordsAreScoped
    BY DEF DocInv, CollectionScoped, RecordsAreScoped
  <1> QED BY <1>1, DocumentsInvariant, PTL

-----------------------------------------------------------------------------

\* The filter of a delete names the subject and the document.
LEMMA MatchesDelete ==
    ASSUME NEW q \in Requests, q.op = "delete", NEW m, Matches(m, Filter(q))
    PROVE  /\ Under(m, [clerk_user_id |-> q.who])
           /\ Under(m, [document_id |-> q.name]) \/ Under(m, [doc_id |-> q.name])
  BY DEF Matches, Filter, Under

\* What a step that takes records away while a handler runs must show.
DeletesAreScopedStep ==
    \A r \in collection \ collection' :
        running # NoMessage =>
            LET q == request[running.call]
            IN /\ q.op = "delete"
               /\ Under(r.metadata, [clerk_user_id |-> q.who])
               /\ \/ Under(r.metadata, [document_id |-> q.name])
                  \/ Under(r.metadata, [doc_id |-> q.name])

\* Only deletes take records away, and only those that their filter matches.
LEMMA DeletesStep == DocInv /\ [Next]_vars => DeletesAreScopedStep
  <1> SUFFICES ASSUME DocInv, [Next]_vars, NEW r \in collection \ collection',
                      running # NoMessage
               PROVE  LET q == request[running.call]
                      IN /\ q.op = "delete"
                         /\ Under(r.metadata, [clerk_user_id |-> q.who])
                         /\ \/ Under(r.metadata, [document_id |-> q.name])
                            \/ Under(r.metadata, [doc_id |-> q.name])
    BY Zenon DEF DeletesAreScopedStep
  <1>1. running.op = "delete" /\ Matches(r.metadata, running.filter)
    <2>1. CASE FinishDelete
      BY <2>1 DEF FinishDelete, Remaining
    <2>2. CASE ChromaFails
      BY <2>2 DEF ChromaFails, Remaining, Added
    <2>3. CASE AddBatch
      BY <2>3 DEF AddBatch, Added
    <2>4. CASE \/ FinishAdd \/ FinishFailing \/ Crash \/ Clear
               \/ \E c \in Calls : \/ \E q \in Requests : Ask(c, q)
                                   \/ Repeat(c) \/ Handle(c) \/ TimesOut(c)
               \/ \E m \in inbox : Start(m)
      BY <2>4 DEF FinishAdd, FinishFailing, Crash, Clear, Ask, Repeat, Handle, Refuse, Verify,
                  Post, TimesOut, Start, chromaVars
    <2>5. CASE UNCHANGED vars
      BY <2>5 DEF vars, chromaVars
    <2> QED BY <2>1, <2>2, <2>3, <2>4, <2>5 DEF Next, Work
  <1>2. /\ request[running.call] \in Requests
        /\ request[running.call].op = "delete"
        /\ running.filter = Filter(request[running.call])
    BY <1>1 DEF DocInv, TypeOK, AllCarried, Carried, Messages
  <1> QED BY <1>1, <1>2, MatchesDelete

\* Nobody's documents vanish by a request of somebody else, with any number of
\* requests, failures and crashes (rag.py:245, vector_store.py:194).
THEOREM DeletesStayScoped == Spec => DeletesAreScoped
  <1>1. DocInv /\ [Next]_vars => [DeletesAreScopedStep]_vars
    BY DeletesStep
  <1>2. Spec => [][DeletesAreScopedStep]_vars
    BY <1>1, DocumentsInvariant, PTL DEF Spec
  <1> QED BY <1>2 DEF DeletesAreScoped, DeletesAreScopedStep

-----------------------------------------------------------------------------

\* What a step that answers 200 to an ingest must show.
AcknowledgedIsStoredStep ==
    \A c \in Calls :
        /\ gateway[c] # "ok" /\ gateway'[c] = "ok"
        /\ request[c].op = "ingest" /\ request[c].size >= 0
        => Ids(message[c].records) \subseteq Ids(collection')

\* Only the end of the handler of a call's present message answers it.
LEMMA AnswerStep ==
    ASSUME DocInv, NEW answer, NEW c \in Calls, running # NoMessage, End(answer),
           gateway[c] # "ok", gateway'[c] = "ok"
    PROVE  running.call = c /\ message[c] = running /\ request[c].op = running.op
           /\ request[c].size = running.size /\ answer = "ok"
  <1>1. Posted(running) /\ Carried(running) /\ running \in Messages
    BY DEF DocInv, TypeOK, AllPosted, AllCarried
  <1>2. running.call = c /\ attempt[c] = running.attempt /\ answer = "ok"
    BY DEF End, DocInv, TypeOK
  <1> QED BY <1>1, <1>2 DEF Posted, Carried

\* Only an ingest that has nothing left to add answers 200.
LEMMA AcknowledgeStep == DocInv /\ [Next]_vars => AcknowledgedIsStoredStep
  <1> SUFFICES ASSUME DocInv, [Next]_vars, NEW c \in Calls,
                      gateway[c] # "ok", gateway'[c] = "ok",
                      request[c].op = "ingest", request[c].size >= 0
               PROVE  Ids(message[c].records) \subseteq Ids(collection')
    BY DEF AcknowledgedIsStoredStep
  <1>1. FinishAdd
    <2>1. CASE \E d \in Calls : \/ \E q \in Requests : Ask(d, q)
                               \/ Repeat(d) \/ Handle(d) \/ TimesOut(d)
      BY <2>1 DEF Ask, Repeat, Handle, Refuse, Verify, Post, TimesOut, DocInv, TypeOK
    <2>2. CASE AddBatch \/ Clear \/ Crash \/ \E m \in inbox : Start(m)
      BY <2>2 DEF AddBatch, Clear, Crash, Start, gatewayVars, DocInv, TypeOK
    <2>3. CASE FinishDelete
      BY <2>3, AnswerStep DEF FinishDelete
    <2>4. CASE FinishFailing
      <3>1. running # NoMessage /\ End("bad_gateway")
        BY <2>4 DEF FinishFailing
      <3> QED BY <3>1, AnswerStep
    <2>5. CASE ChromaFails
      BY <2>5, AnswerStep DEF ChromaFails
    <2>6. CASE UNCHANGED vars
      BY <2>6 DEF vars, gatewayVars
    <2> QED BY <2>1, <2>2, <2>3, <2>4, <2>5, <2>6 DEF Next, Work
  <1>2. message[c] = running /\ running.op = "ingest" /\ running.size >= 0
        /\ running # NoMessage /\ rest = {} /\ collection' = collection
    BY <1>1, AnswerStep DEF FinishAdd, AllAdded, chromaVars, DocInv, TypeOK, Messages
  <1>3. \A r \in running.records : r.id \in Ids(collection)
    BY <1>2 DEF DocInv, RestKnown
  <1> QED BY <1>2, <1>3 DEF Ids

\* Whatever fails, stops or is sent twice, a 200 means that the collection has a record
\* under every id of the request (rag.py:206, vector_store.py:95).
THEOREM AcknowledgedStaysStored == Spec => AcknowledgedIsStored
  <1>1. DocInv /\ [Next]_vars => [AcknowledgedIsStoredStep]_vars
    BY AcknowledgeStep
  <1>2. Spec => [][AcknowledgedIsStoredStep]_vars
    BY <1>1, DocumentsInvariant, PTL DEF Spec
  <1> QED BY <1>2 DEF AcknowledgedIsStored, AcknowledgedIsStoredStep
=============================================================================
