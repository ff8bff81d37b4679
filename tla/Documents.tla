------------------------------- MODULE Documents -------------------------------
(***************************************************************************)
(* The documents of Contract Hub: the RAG gateway of the orchestrator      *)
(* (orchestrator/app/rag.py), the vector store behind it                   *)
(* (vector-store/app/main.py and vector_store.py) and Chroma's collection. *)
(*                                                                         *)
(* The gateway scopes a request by the Clerk subject of the token and by a *)
(* tenant, and posts it to the vector store, for whose answer it waits ten *)
(* seconds.  The vector store is one process whose handlers call Chroma    *)
(* synchronously, so it works on one request at a time, the others wait in *)
(* its sockets, and a request that the gateway has given up is carried out *)
(* all the same.  It adds documents in batches and may fail or stop after  *)
(* any of them.  A client repeats a request that has failed.               *)
(*                                                                         *)
(* Metadata and filters are functions from their keys to values; the text  *)
(* of a document, its embedding and the answers' contents are left out.    *)
(***************************************************************************)
EXTENDS Integers, FiniteSets

CONSTANTS Subjects,      \* Clerk user ids
          Tenants,
          FixedTenant,   \* rag_fixed_tenant_id
          RecordIds,     \* ids of records of the collection
          Uuids,         \* those of them that uuid4() gives
          Names,         \* document ids
          Calls,         \* calls of clients; each asks one thing, and may repeat it
          Requests,      \* what they may ask
          NoTenant, NoId, NoName, NoRequest, NoMessage,
          MaxAttempts,   \* bound: how often a client sends a request
          MaxFaults      \* bound: time-outs, failures and crashes

Scopes == [tenant_id : Tenants, clerk_user_id : Subjects]
Keys == {"tenant_id", "clerk_user_id", "document_id", "doc_id"}
Values == Tenants \cup Subjects \cup Names
Metadata == UNION {[K -> Values] : K \in SUBSET Keys}

\* A document of an ingest request: all of it is optional.
Documents == [id : RecordIds \cup {NoId}, metadata : Metadata, document_id : Names \cup {NoName}]

\* A record remembers the call it came with, which Chroma does not.
Records == [id : RecordIds, metadata : Metadata, by : Calls]

Operations == {"ingest", "delete", "query", "stats"}

Messages == [call : Calls, attempt : 1..MaxAttempts, op : Operations,
             records : SUBSET Records, size : Int, filter : Metadata]

ASSUME DocumentsAssumption ==
    /\ FixedTenant \in Tenants
    /\ Uuids \subseteq RecordIds
    /\ NoTenant \notin Tenants
    /\ NoId \notin RecordIds
    /\ NoName \notin Names
    /\ \A r \in Requests :
         /\ r.op \in Operations
         /\ r.who \in Subjects
         /\ r.tenant \in Tenants \cup {NoTenant}
         /\ r.docs \subseteq Documents
         /\ \A d \in r.docs : d.id \notin Uuids
         /\ r.size \in Int
         /\ r.name \in Names \cup {NoName}
         /\ r.op = "delete" => r.name # NoName
    /\ NoRequest \notin Requests
    /\ NoMessage \notin Messages
    /\ MaxAttempts \in Nat \ {0}
    /\ MaxFaults \in Nat

VARIABLES
    request,     \* what each call asks
    gateway,     \* how far its gateway handler is, or what it has answered
    attempt,     \* how often the client has sent it
    message,     \* what the handler posts to the vector store
    uuids,       \* uuids that were not generated yet
    inbox,       \* posted messages that the vector store has not started on
    running,     \* the message whose handler runs in the vector store
    rest,        \* the records it has yet to add
    collection,  \* Chroma's collection
    present,     \* the store has a collection to work on
    faults

gatewayVars == <<request, gateway, attempt, message, uuids>>
storeVars   == <<inbox, running, rest>>
chromaVars  == <<collection, present>>
vars == <<gatewayVars, storeVars, chromaVars, faults>>

Ids(records) == {r.id : r \in records}

Under(m, s) == \A k \in DOMAIN s : k \in DOMAIN m /\ m[k] = s[k]
Answers == {"ok", "bad_gateway", "unavailable", "refused"}

\* Nothing is left to add when no handler runs.
TypeOK ==
    /\ request \in [Calls -> Requests \cup {NoRequest}]
    /\ gateway \in [Calls -> {"none", "verifying", "scoped", "waiting"} \cup Answers]
    /\ \A c \in Calls : request[c] = NoRequest <=> gateway[c] = "none"
    /\ attempt \in [Calls -> 0..MaxAttempts]
    /\ message \in [Calls -> Messages \cup {NoMessage}]
    /\ uuids \subseteq Uuids
    /\ inbox \subseteq Messages
    /\ \A m \in inbox : m.op = "ingest" => m.records # {}
    /\ running \in Messages \cup {NoMessage}
    /\ rest \subseteq Records
    /\ running = NoMessage => rest = {}
    /\ collection \subseteq Records
    /\ present \in BOOLEAN
    /\ faults \in 0..MaxFaults

Init ==
    /\ request = [c \in Calls |-> NoRequest]
    /\ gateway = [c \in Calls |-> "none"]
    /\ attempt = [c \in Calls |-> 0]
    /\ message = [c \in Calls |-> NoMessage]
    /\ uuids = Uuids
    /\ inbox = {}
    /\ running = NoMessage
    /\ rest = {}
    /\ collection = {}
    /\ present = TRUE
    /\ faults = 0

-----------------------------------------------------------------------------
(* The gateway *)

\* A client asks something for the first time.
Ask(c, r) ==
    /\ request[c] = NoRequest
    /\ request' = [request EXCEPT ![c] = r]
    /\ gateway' = [gateway EXCEPT ![c] = "verifying"]
    /\ attempt' = [attempt EXCEPT ![c] = 1]
    /\ UNCHANGED <<message, uuids, storeVars, chromaVars, faults>>

\* It repeats what was answered with 502 or 503.
Repeat(c) ==
    /\ gateway[c] \in {"bad_gateway", "unavailable"}
    /\ attempt[c] < MaxAttempts
    /\ gateway' = [gateway EXCEPT ![c] = "verifying"]
    /\ attempt' = [attempt EXCEPT ![c] = @ + 1]
    /\ UNCHANGED <<request, message, uuids, storeVars, chromaVars, faults>>

\* 400: an ingest without documents, or a query without a query.
Malformed(r) == \/ r.op = "ingest" /\ r.docs = {}
                \/ r.op = "query" /\ r.name = NoName

\* The token is not accepted, the account is not active, or the payload is malformed.
\* Which tokens and accounts pass is not said here (see ClerkKeys and Accounts).
Refuse(c) ==
    /\ gateway[c] = "verifying"
    /\ gateway' = [gateway EXCEPT ![c] = "refused"]
    /\ UNCHANGED <<request, attempt, message, uuids, storeVars, chromaVars, faults>>

Tenant(r) == IF r.tenant # NoTenant THEN r.tenant ELSE FixedTenant
Scope(r) == [tenant_id |-> Tenant(r), clerk_user_id |-> r.who]

\* dict.update: the keys of the second argument win.
Update(m, n) ==
    [k \in DOMAIN m \cup DOMAIN n |-> IF k \in DOMAIN n THEN n[k] ELSE m[k]]

\* Mutant of Scoped: the scope fills in what the caller's metadata leaves open.
ScopedByCaller(d, scope) == Update(scope, d.metadata)

\* The metadata of document d: the scope, then the document id, replace what the
\* caller has put there.
Scoped(d, scope) ==
    LET m == Update(d.metadata, scope)
    IN IF d.document_id = NoName THEN m ELSE Update(m, [document_id |-> d.document_id])

\* The records of an ingest of r, where g gives the ids of documents without one.
RecordsOf(c, r, g) ==
    {[id |-> IF d.id = NoId THEN g[d] ELSE d.id, metadata |-> Scoped(d, Scope(r)), by |-> c] :
        d \in r.docs}

\* Mutant of Filter: a delete names the document only.
FilterUnscoped(r) ==
    IF r.op = "delete" THEN [document_id |-> r.name] ELSE Scope(r)

\* A query and stats are restricted to the request's scope.  A delete leaves the
\* tenant of the request aside and takes the fixed one.
Filter(r) ==
    IF r.op = "delete"
    THEN [tenant_id |-> FixedTenant, clerk_user_id |-> r.who, document_id |-> r.name]
    ELSE Scope(r)

\* The principal is there and its account active: the handler scopes the payload.
\* Every document without an id is given a new uuid, whatever an earlier attempt
\* has given it.
Verify(c) ==
    /\ gateway[c] = "verifying"
    /\ ~Malformed(request[c])
    /\ LET r == request[c]
           anonymous == {d \in r.docs : d.id = NoId}
       IN \E g \in [anonymous -> uuids] :
            /\ \A d, e \in anonymous : g[d] = g[e] => d = e
            /\ uuids' = uuids \ {g[d] : d \in anonymous}
            /\ message' = [message EXCEPT ![c] =
                 [call |-> c, attempt |-> attempt[c], op |-> r.op, size |-> r.size,
                  records |-> RecordsOf(c, r, g), filter |-> Filter(r)]]
    /\ gateway' = [gateway EXCEPT ![c] = "scoped"]
    /\ UNCHANGED <<request, attempt, storeVars, chromaVars, faults>>

\* The POST reaches the vector store.
Post(c) ==
    /\ gateway[c] = "scoped"
    /\ gateway' = [gateway EXCEPT ![c] = "waiting"]
    /\ inbox' = inbox \cup {message[c]}
    /\ UNCHANGED <<request, attempt, message, uuids, running, rest, chromaVars, faults>>

\* No connection, or no answer within ten seconds: httpx.RequestError, 503.  What was
\* posted stays with the vector store.
TimesOut(c) ==
    /\ gateway[c] \in {"scoped", "waiting"}
    /\ faults < MaxFaults
    /\ faults' = faults + 1
    /\ gateway' = [gateway EXCEPT ![c] = "unavailable"]
    /\ UNCHANGED <<request, attempt, message, uuids, storeVars, chromaVars>>

-----------------------------------------------------------------------------
(* The vector store and Chroma *)

\* Mutant of NewRecords: a request some of whose ids are there is taken for done.
NewRecordsOrNone(m) ==
    IF \E r \in m.records : r.id \in Ids(collection) THEN {} ELSE m.records

\* The records of m whose ids are not in the collection.
NewRecords(m) == {r \in m.records : r.id \notin Ids(collection)}

\* A handler begins: it computes what there is to add.
Start(m) ==
    /\ running = NoMessage
    /\ running' = m
    /\ inbox' = inbox \ {m}
    /\ rest' = IF m.op = "ingest" THEN NewRecords(m) ELSE {}
    /\ UNCHANGED <<gatewayVars, chromaVars, faults>>

\* A batch of the given size, whichever records the order of the request puts there.
IsBatch(b) ==
    /\ b \subseteq rest
    /\ Cardinality(b) = IF running.size < Cardinality(rest) THEN running.size
                                                          ELSE Cardinality(rest)

Adding == running # NoMessage /\ running.op = "ingest" /\ rest # {} /\ running.size > 0

\* Chroma refuses a batch with one id twice.
Repetitive(b) == \E r, s \in b : r # s /\ r.id = s.id

\* collection.add ignores the records whose ids the collection has.
Added(b) == collection \cup {r \in b : r.id \notin Ids(collection)}

AddBatch ==
    /\ Adding
    /\ present
    /\ \E b \in SUBSET rest :
         /\ IsBatch(b) /\ ~Repetitive(b)
         /\ collection' = Added(b)
         /\ rest' = rest \ b
    /\ UNCHANGED <<gatewayVars, inbox, running, present, faults>>

\* The running handler ends.  Its answer reaches the gateway if that still waits
\* for this attempt.
End(answer) ==
    /\ LET c == running.call
       IN gateway' = IF gateway[c] = "waiting" /\ attempt[c] = running.attempt
                     THEN [gateway EXCEPT ![c] = answer] ELSE gateway
    /\ running' = NoMessage
    /\ rest' = {}
    /\ UNCHANGED <<request, attempt, message, uuids, inbox>>

\* Mutant of AllAdded: the last batch is left out.
AllAddedButLast == Cardinality(rest) <= running.size \/ running.size < 0

\* range(0, total, batch_size) is exhausted; a negative size gives an empty range.
AllAdded == rest = {} \/ running.size < 0

FinishAdd ==
    /\ running # NoMessage /\ running.op = "ingest"
    /\ present
    /\ AllAdded
    /\ End("ok")
    /\ UNCHANGED <<chromaVars, faults>>

\* Chroma's `where`, as _normalize_where_filter writes it: all keys must agree, and
\* a document id may stand under either of two keys.
Matches(m, f) ==
    \A k \in DOMAIN f :
        \/ k \in DOMAIN m /\ m[k] = f[k]
        \/ k = "document_id" /\ "doc_id" \in DOMAIN m /\ m["doc_id"] = f[k]

Remaining(f) == {r \in collection : ~Matches(r.metadata, f)}

FinishDelete ==
    /\ running # NoMessage /\ running.op = "delete"
    /\ present
    /\ collection' = Remaining(running.filter)
    /\ End("ok")
    /\ UNCHANGED <<present, faults>>

\* What always ends in 500, which the gateway makes a 502: a collection that is not
\* there, a batch size of zero, one id twice in a batch, a query (the embedding
\* model has no method encode), and stats (their filter has two keys and no
\* operator, which Chroma refuses).
Hopeless ==
    \/ ~present
    \/ running.op \in {"query", "stats"}
    \/ running.op = "ingest" /\ rest # {} /\ running.size = 0
    \/ Adding /\ \E b \in SUBSET rest : IsBatch(b) /\ Repetitive(b)

FinishFailing ==
    /\ running # NoMessage
    /\ Hopeless
    /\ End("bad_gateway")
    /\ UNCHANGED <<chromaVars, faults>>

\* A call of Chroma raises, with or without effect.
ChromaFails ==
    /\ running # NoMessage
    /\ present
    /\ faults < MaxFaults
    /\ faults' = faults + 1
    /\ \/ collection' = collection
       \/ running.op = "delete" /\ collection' = Remaining(running.filter)
       \/ Adding /\ \E b \in SUBSET rest : /\ IsBatch(b) /\ ~Repetitive(b)
                                            /\ collection' = Added(b)
    /\ End("bad_gateway")
    /\ UNCHANGED present

\* The vector store stops and starts again: what it was working on and what waited in
\* its sockets is lost, and the connections break.  It finds or creates a collection.
Crash ==
    /\ faults < MaxFaults
    /\ faults' = faults + 1
    /\ inbox' = {}
    /\ running' = NoMessage
    /\ rest' = {}
    /\ gateway' = [c \in Calls |-> IF gateway[c] = "waiting" THEN "unavailable" ELSE gateway[c]]
    /\ present' = TRUE
    /\ UNCHANGED <<request, attempt, message, uuids, collection>>

\* POST /clear, which the gateway does not offer: the collection is deleted, and
\* created again unless that fails.
Clear ==
    /\ running = NoMessage
    /\ present
    /\ collection' = {}
    /\ \/ UNCHANGED <<present, faults>>
       \/ faults < MaxFaults /\ faults' = faults + 1 /\ present' = FALSE
    /\ UNCHANGED <<gatewayVars, storeVars>>

-----------------------------------------------------------------------------

Handle(c) == Refuse(c) \/ Verify(c) \/ Post(c)

Work == (\E m \in inbox : Start(m)) \/ AddBatch \/ FinishAdd \/ FinishDelete \/ FinishFailing

Next == \/ \E c \in Calls : \/ \E r \in Requests : Ask(c, r)
                             \/ Repeat(c) \/ Handle(c) \/ TimesOut(c)
        \/ Work \/ ChromaFails \/ Crash \/ Clear

Spec == Init /\ [][Next]_vars

\* The event loop resumes every handler, the vector store takes up every message in
\* its turn, and a client repeats what has failed as often as it may.
Fairness == /\ \A c \in Calls : WF_vars(Handle(c)) /\ WF_vars(Repeat(c))
            /\ \A c \in Calls : WF_vars(\E m \in inbox : m.call = c /\ Start(m))
            /\ WF_vars(Work)

FairSpec == Spec /\ Fairness

-----------------------------------------------------------------------------
(* Properties *)

\* Whatever metadata a caller sends, whatever id it chooses, and whenever its request
\* is carried out: a record carries the subject and the tenant of the request it came
\* with (rag.py:201).
RecordsAreScoped ==
    \A r \in collection : Under(r.metadata, Scope(request[r.by]))

\* Nobody's documents vanish by a request of somebody else: only a delete of the
\* record's own subject that names the document takes a record away while a handler
\* runs, also when Chroma fails in the middle of it or the handler runs long after
\* its caller was answered (rag.py:245, vector_store.py:194).
DeletesAreScoped ==
    [][\A r \in collection \ collection' :
         running # NoMessage =>
             LET q == request[running.call]
             IN /\ q.op = "delete"
                /\ Under(r.metadata, [clerk_user_id |-> q.who])
                /\ \/ Under(r.metadata, [document_id |-> q.name])
                   \/ Under(r.metadata, [doc_id |-> q.name])]_vars

\* An ingest is answered with 200 only when the collection has a record under every
\* id of the request, the ids that an earlier attempt has added included - and those
\* that another subject has, whose record stays as it is (vector_store.py:79).  (With
\* a negative batch size nothing is added: vector_store.py:101.)
AcknowledgedIsStored ==
    [][\A c \in Calls :
         /\ gateway[c] # "ok" /\ gateway'[c] = "ok"
         /\ request[c].op = "ingest" /\ request[c].size >= 0
         => Ids(message[c].records) \subseteq Ids(collection')]_vars

\* A client that names its documents and repeats its request more often than calls
\* time out or fail gets all of them stored, half-finished and lost attempts
\* notwithstanding.
Repeatable(c) ==
    /\ request[c] # NoRequest /\ request[c].op = "ingest" /\ request[c].size > 0
    /\ \A d, e \in request[c].docs : d.id # NoId /\ (d.id = e.id => d = e)

Stored(c) == /\ request[c] # NoRequest
             /\ {d.id : d \in request[c].docs} \subseteq Ids(collection)

RepeatedIngestsLand ==
    MaxFaults < MaxAttempts =>
        \A c \in Calls : Repeatable(c) /\ gateway[c] = "verifying" /\ attempt[c] = 1
                           ~> Stored(c) \/ gateway[c] = "refused" \/ ~present

-----------------------------------------------------------------------------
(* What a docstring says, and the code does not do *)

\* rag.py:231: "Delete only the caller's scoped RAG documents."  What a request takes
\* away is in its scope, the tenant of its X-Tenant-Id included.
DeletesKeepToScope ==
    [][\A r \in collection \ collection' :
         running # NoMessage => Under(r.metadata, Scope(request[running.call]))]_vars
=============================================================================
