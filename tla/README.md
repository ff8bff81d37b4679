# Verification of the Carbon agent platform

TLA+ models of the control logic of the platform in `src/`, TLC runs over small
instances of them, and theorems about them that TLAPS checks for every value of
the constants. The definitions are translated from the source; `PROJECT.json`
names the lines each one stands for.

1. [The system](#1-the-system)
2. [The modules](#2-the-modules)
3. [The runs](#3-the-runs)
4. [Fairness](#4-fairness)
5. [The proofs](#5-the-proofs)
6. [Where the code and its documents disagree](#6-where-the-code-and-its-documents-disagree)
7. [What is not modelled](#7-what-is-not-modelled)
8. [Plan](#8-plan)
9. [Running it](#9-running-it)

## 1. The system

Every user of the platform has an account (a row of `users`) and an agent
container (`agent-{user_id}`). The **orchestrator** (FastAPI, one process, one
asyncio event loop) keeps the two in step, driven by Clerk's webhooks, by the
users, by administrators and by its own background tasks. The **adapter** offers
an OpenAI-compatible API and forwards conversations to the container. The **vector
store** holds documents for retrieval, reached through the orchestrator's RAG
gateway. A script in the **browser** fetches the user's API key after Clerk has
signed them in.

| Component | State | Operations | Hard behaviour | Correct when |
|---|---|---|---|---|
| Spin locks (`session_manager.py`) | `_spin_locks`, a weak dictionary of asyncio locks | `_get_lock`, `async with lock` | an entry vanishes with its last reference while others look it up | one section per user at a time; no lock is forgotten while somebody needs it; nobody overtakes; every waiter is served |
| Session manager (`session_manager.py`) | `_active_sessions`, the cleanup task | `ensure_user_service`, `spin_down_user_service`, `provision_user_background`, `record_activity`, the idle sweep | awaits inside sections, an unlocked sweep, failing Docker calls and commits, restarts | row, container and session entry agree whenever nothing is under way |
| Status handlers (`users.py`, `admin.py`, `clerk.py`) | `users.status` | ensure, spin-down, refresh; admin create, update, delete, spin-down; `user.created`, `user.deleted` | `User` objects loaded before an await and written after it | statuses are not overwritten by stale objects; requests end and leave no lock behind |
| Accounts (`clerk.py`, `clerk_auth.py`, `auth_routes.py`, `admin.py`) | `users.clerk_user_id`, `users.email` | `user.created`, `user.updated`, the e-mail fallback of the token dependencies, admin create | duplicated, reordered, repeated and overlapping deliveries | one account per identity, which changes hands only with an address; an answer names the row of whoever asked; sign-ups are accepted in the end |
| Docker service manager (`docker_manager.py`) | the Docker engine | start or create, stop, remove, status | calls that get half of the way and raise | its effect on the container, used by the components above |
| Scheduler (`scheduler.py`) | `_running`, four tasks, `audit_logs` | `start`, `stop`, health, analytics, clean-up and database passes | cancellation at any await, failing passes, failing closes | loops survive, `stop` interrupts and returns, only expired entries go |
| Database sessions (`database.py`, `models.py`) | identity map, unique columns, foreign keys | `SELECT`, `INSERT`, `UPDATE`, `DELETE`, `COMMIT` | `expire_on_commit=False` keeps stale objects; a commit may take effect and still raise | part of the modules that use them |
| RAG gateway (`rag.py`) and vector store (`vector_store.py`) | Chroma's collection; requests in the store's sockets | ingest, delete, query, stats; `/clear` | the gateway gives up after ten seconds and the store works on; batches that fail half way; repeated requests; scopes in caller-supplied metadata | a record carries the scope of its request; only a delete of its subject that names it takes it away; a 200 means that a record, one's own or an earlier one, is there under every id; a repeated ingest lands |
| Token verification (`clerk_auth.py`) | cache of Clerk's public keys | `verify_clerk_token` | overlapping fetches, keys withdrawn between answer and use, failing fetches | a withdrawn key is not accepted beyond a known time |
| Browser (`clerk-integration.js`) and its route (`auth_routes.py`) | key in `sessionStorage`, the refresh interval | `initialize`, `refreshApiKey`, the interval's callback, `destroy` | calls that overlap at their awaits, lost requests and answers, retries | one interval at most, the one `destroy` clears; every call returns; the key arrives |
| Adapter (`context_store.py`, `agent_client.py`, `mcp_client.py`, `main.py`) | context ids in Redis and in each replica's memory, the lazy connection | `chat_completions`: tool enhancement, send | fallback to memory, failures with and without effect, expiry, restarts, time-outs after the tool has run | a conversation goes on in its context; a tool runs once; every request ends |
| Providers and temperatures (`llm_provider.py`, `temperature_detector.py`) | none | `create_provider`, `chat_completion` of five providers, `detect_and_apply_temperature` | four translations of one conversation; patterns of several tasks in one text; limits of providers | it is known what each provider is sent and what it is not; a recommendation suits provider and task |

How they interact:

* `user.created` inserts a row and starts `provision_user_background`, which calls
  the session manager; `user.deleted` and the administrator's handlers call
  `spin_down_user_service` and then write the row themselves. All of them share
  the row, the container and `_active_sessions`; only the two `*_user_service`
  methods take the user's lock.
* The lifespan of `main.py` starts the idle sweep and the scheduler and stops them.
  A restart empties the locks, the sessions and all requests; the tables and the
  containers stay.
* The health pass of the scheduler reads what the session manager writes and
  changes only the audit log.
* Account links decide which row a token or webhook of a person leads to; they do
  not depend on the status.
* The page's calls reach `get-api-key`, which verifies their token and then reads the
  row. The RAG gateway verifies a token in the same way and posts to the vector store,
  one process that handles one request at a time.
* A chat request asks the MCP gateway for tools, then Redis for the context, then
  the agent, and stores the context that the agent returns.

Interleaving: a coroutine gives up the event loop only at an await that suspends.
SQL statements, lock acquisition and sleeps do; the calls of the Docker SDK are
synchronous, although they stand in `async` functions. A statement is two steps
where it matters: the database evaluates it, and the coroutine resumes.

## 2. The modules

| Module | Models | State and actions |
|---|---|---|
| `UserMutex` | what a user's locks promise: at most one task inside | `inside`, the tasks in each user's section; enter, leave, restart |
| `IdentityRegistry` | what the column `clerk_user_id` promises: one account per identity, and it changes hands only between identities that have shared addresses | `owner`, `known`; an address is acquired, an account linked or handed over |
| `SpinLocks` | `_spin_locks` and asyncio's lock: holder, FIFO of waiters, hand-over to the first waiter | `registry`, `ref`, `target`, `owner`, `waiters`; `AcquireFree`, `AcquireBusy`, `Wake`, `Release`, `LocksRestart` |
| `SessionManager` | extends `SpinLocks` by the users table, the containers, `_active_sessions`, all handlers that read or write the status, the background provisioning and the idle sweep | `row`, `container`, `activity`; per task `op`, `pc`, `subject`, `seen`; the sweep's `sweepPc`, `idleUsers`, `sweepUser`, `sweepSeen` |
| `Accounts` | which row a Clerk identity or an address leads to | `known`, `sent`, `mail` at Clerk; `linked`, `email`, `origin` in the table; per task `op`, `pc`, `who`, `addr`, `found` |
| `Scheduler` | the loops, their cancellation and the audit log | `server`, `running`, `loop`, `cancelled`; `alerts`, `expired`, `deleted` of open sessions; `log` |
| `Documents` | the RAG gateway, the vector store and Chroma's collection together | per call `request`, `gateway`, `attempt`, `message`; the store's `inbox`, `running`, `rest`; `collection`, `present`; one action per step of a handler, time-outs, failing Chroma calls, crashes, `Clear` |
| `ClerkKeys` | `verify_clerk_token` with the cache of Clerk's keys | `now`, `published`, `retiredAt` at Clerk; `cache`; per verification `stage`, `jwt`, `since`, `found` |
| `BrowserSession` | extends `ClerkKeys` by the page's script and the route between them | `clerkSession`, `apiKeyCache`, `sessionStorage`, `tokenRefreshTimer`, `intervals`, `isInitialized`; per call `kind`, `pc`, `token`, `try`, `reply`; the person's `account` and `session` |
| `ContextStore` | `send_message` with `get` and `set` of the context store, on several replicas | `redis`, `memory`, `connection`; per send `user`, `replica`, `pc`, `context`; `answered`, what the user was last told |
| `Completions` | what a conversation turns into: the message that counts, the recommended temperature, the request of each provider | no state: operators over conversations, named as the functions of the code |
| `ChatCompletions` | extends `ContextStore` and `Completions` by the handler around them: the tools of the MCP gateway, a cloud provider instead of the agent | `provider`, `attempt`, `runs` |
| `MCSessionManager`, `MCScheduler`, `MCDocuments` | constants of the runs | |
| `SpinLocksProofs`, `SessionManagerProofs`, `AccountsProofs`, `SchedulerProofs`, `DocumentsProofs`, `ClerkKeysProofs`, `BrowserSessionProofs`, `ChatCompletionsProofs` | theorems | |

`SpinLocks` and `SessionManager` are one specification: the actions of the first
are conjuncts of those of the second (`CallAndEnter` contains `AcquireFree`,
`LeaveSection` contains `Release`), so what is proved of the locks holds in the
code that uses them. In the same way every action of `BrowserSession` that concerns a
token is one of `ClerkKeys` (and it is proved that each of its behaviours is one of
`KeysSpec`), and `ChatCompletions` takes the steps of a send from `ContextStore`. `Accounts`
implements `IdentityRegistry` with its column of Clerk ids. `SpinLocks` implements
`UserMutex` with `inside[u]` the tasks that hold any lock of `u`, whether the dictionary
still knows it or not.
`Accounts`, `Scheduler`, `Documents` and the two groups share no variable.

Choices a reader should know:

* **`seen[t]` is the `User` object.** A request has one database session with
  `expire_on_commit=False`; the object it loaded first answers every later
  `SELECT` of the row with the status of the first. `Load` says so, and most
  surprises of section 6 come from it.
* **`container` is Docker's.** A failing start or stop leaves any state between the
  old and the new one (`DockerStartRaises`, `DockerStopRaises`). A failing commit
  may have taken effect.
* **`KeysEnforced`** is TRUE for PostgreSQL and FALSE for SQLite, which the tests
  use: with it, the `DELETE` of an administrator is refused, because the audit
  record inserted just before refers to the row.
* **Time** is one bit each: a session entry becomes `stale`, an audit entry `old`.
* **`Accounts`** leaves out deletions and the status. Clerk is modelled as it is
  used: it repeats a message until it has a 2xx, in any order, also while an
  earlier delivery is being handled. An address may pass from one identity to another;
  `Private(i)` says that none of `i`'s has, and the properties name what then fails.
* **`Scheduler`** treats the audit log as a set: entries that agree in action, user
  and age are one. What Docker says of each user's container is a constant, and so is
  `Logged`, the actions that handlers write: any, or also `user.deleted`. The first two
  statements of the database pass catch their own failure and the pass goes on
  (`AfterRaise`).
* **`Documents`**: a record remembers the call it came with (`by`), which Chroma
  does not; the field serves the properties only. A call that the gateway has given up
  stays in the store's `inbox`. Which tokens and accounts pass is `Refuse`'s choice.
* **`ClerkKeys`**: tokens are signed by the key they name; issuer and authorised
  party are inputs that pass. A fetch may last `FetchTime`. That is an
  assumption: `timeout=10.0` of `httpx` bounds each of its operations, not their sum, and
  a stalled event loop adds to it. Left out are tokens without a `kid`, whose cache entry
  is `default` (`clerk_auth.py:74`, `87`).
* **`BrowserSession`**: a call is one activation of `initialize`, `refreshApiKey` or
  the interval's callback; scripts run one at a time and are interrupted only at their
  awaits. The key's value is left out: a page has a key or has none. So
  are the third way to a token, whose `getToken()` is a Promise that nobody awaits
  (`clerk-integration.js:80`), and tokens that cannot be decoded, which count as expired.
* **`ContextStore`**: `answered` and `alone` are history for the property: the context
  of the user's last answer, where it was stored, and which sends no other send
  of their user has overlapped with. Commands fail with or without effect.
  There is a Redis: a deployment without one (`redis_url` empty, `context_store.py:41`)
  has nothing but the replicas' memories.
* **`McpEnabled`** is `MCPClient.enabled`. The application's own client is made
  without it (section 6); a client of one's own, as in the tests, may have it. A request
  may go without a tool in either case, so the run with TRUE contains that with FALSE.
* **`Completions`**: a conversation has the roles of its messages and whether they are
  empty; the texts are left out, and a message is named by its place. What the patterns of
  `temperature_detector.py` find in a text is an input (any set of tasks), the order in
  which they are tried is not. Temperatures are in tenths.
* **`StepsLeft`** (in `SessionManager`, `BrowserSession`, `ChatCompletions`) is a measure:
  an upper bound of the steps that a request still takes. The action properties
  `RequestsAdvance` and `CallsAdvance` say that every step of a request lowers it and that
  nothing else raises it. With fairness, the liveness properties of the same runs say that
  the steps are taken.

## 3. The runs

| Run | States | What it shows |
|---|---|---|
| `session_locked` | 321,542 | Three tasks and one user. Types; `RegistryIsWeak` (the dictionary holds exactly the locks somebody refers to); `ImplementsUserMutex` (the tasks that hold any lock of a user, registered or forgotten, exclude each other); `NobodyOvertakes` (a user's section is entered in the order of the requests, although every lock object has a queue of its own); `OneTaskPerSection` (the same in program counters); `NoLockIsLost` (whoever holds a lock is inside, whoever waits has not begun, whatever fails); `RequestsAdvance`; and, while only the locked sections and `INSERT`s write the status, `SectionsTakeEffect` (a committed section finds row and container as it left them), `RowMatchesContainer`, `RunningIsTracked` |
| `session_unlocked` | 481,620 | The writers of the status that take no lock, against each other and the sweep: `StartsOnlyUnderLock`, `DeletedStays`, `EveryWaiterIsServed`, `RequestsEnd` |
| `sweep` | 418,373 | Two users, two failures and a request that changes or deletes their rows: `IdleEntriesAreSwept`, whichever user the snapshot names first |
| `accounts` | 473,802 | Two people and two addresses, which may pass from one to the other: `AnswersAreLinked`; `Accounts` implements `IdentityRegistry`; `SignUpsSettle` |
| `scheduler` | 67,037 | `LoopsSurvive`; `OnlyExpiredGo`; `DeletionsAreRecorded`; `StopInterrupts`; `StopEnds`; `ExpiredEntriesGo`; `AlertsArrive` |
| `documents` | 418,802 | `RecordsAreScoped`; `DeletesAreScoped` (no record goes but by a delete of its own subject that names it); `AcknowledgedIsStored`; `RepeatedIngestsLand` |
| `browser_session` | 390,152 | `OneTimer`; `RetiredKeysExpire`; `CallsAdvance`; `CallsReturn`; `KeyArrives` |
| `chat_completions` | 404,184 | `ToolsRunOnce`; `ConversationContinues`; `RequestsAdvance`; `RequestsEnd`; and for every conversation of up to three messages `RecommendationsFit` (a temperature that is asked for is respected, another suits provider and task) and `ProvidersConvey` (an OpenAI-compatible provider is sent every message; Anthropic every turn of user and assistant and the last system message, and nothing else) |
| `activity`, `suspended`, `retention`, `tenant` | | a sentence of a document or comment, and a behaviour of the code that contradicts it (section 6) |

The runs are spent on what is hardest to get right. The type invariants other than
`SessionManager`'s, `MutualExclusion` (no two tasks hold locks of one user, which
`ImplementsUserMutex` implies) and `OneAccountPerIdentity` are in no `.cfg`: they are
theorems (section 5), and any run can check them by naming them.

Each property of a passing run is paired in `PROJECT.json` with a mutant: a change
a plausible bug would make to a definition that models code, under which TLC finds
the property violated.

Bounds, and why they are enough to meet the interesting cases:

* **Tasks.** Three in `session_locked`: a holder, a waiter and a late caller, the
  smallest set in which a forgotten lock object lets two tasks in. Two in the other runs,
  besides the sweep: a stale object needs one task that reads early and one that writes in
  between. One in `sweep`, where what matters is the sweep's list.
* **Users.** Nothing relates two users but the sweep's list and the lock dictionary.
  `sweep` has two, so that one's failure may come before the other's turn; `session_locked`
  and `session_unlocked` have one, and the theorems any number.
* **`MaxFaults`, `MaxRestarts`.** One each where the property allows them. A
  second failure repeats the first from a state that is reached anyway; `sweep` has two,
  one for each user of a snapshot.
* **`Events`** selects what happens. `session_locked` leaves out the writers of the
  status that take no lock (admin update, `user.deleted`, the sweep; an administrator's
  delete is there, and the database refuses it): with any of them `SectionsTakeEffect`,
  `RowMatchesContainer` and `RunningIsTracked` fail, as section 6 shows; the other
  properties of the run hold with them, too, by the theorems.
  `session_unlocked` has exactly those writers, the delete among them, and
  `user.created` to make rows. It
  has `KeysEnforced` FALSE, or no row would ever be deleted, and no restart: a
  restart ends all requests, and what it does to the rest is in `session_locked`.
  With every event, failures and restarts the two safety properties are theorems.
* **`accounts`** has two people, two addresses, two rows, two tasks, two messages of
  Clerk and a restart: two people who sign up with one address or with two, or one who signs up
  and changes the address, overlapping with tokens, late duplicates and an
  administrator's row. With three messages and no restart, where an
  address passes on after an account has been linked by it, `AnswersAreLinked` holds in
  1.7 million states, too many for the liveness property; the theorems have no bound.
* **`scheduler`** has the health and the clean-up loop, one user whose container is
  down and one whose check raises, one failing statement or close, and one stop or
  crash; its handlers write one kind of entry. `retention` has the clean-up alone, and
  handlers that delete users as well. The two loops that only count are the clean-up
  without its `DELETE`; with one of them the two invariants hold in 2.2 million states.
* **`documents`** has two subjects, two tenants and two calls out of nine requests:
  two documents in two batches under a foreign subject's name, one id twice, a missing
  id, batch sizes of zero and less, deletes of either subject. `MaxAttempts` is three
  and `MaxFaults` two, the smallest numbers with which both a first attempt and its
  repetition fail and a third must land.
* **`browser_session`** has two calls, two attempts each, one key of Clerk and at most
  `MaxEvents` = 2 of what others do: a tick of the clock, sign-in and sign-out, a change
  of the account, a withdrawn key, `destroy`. `MaxTime` 1 and `Ttl` 1 let a cached key
  reach its expiry. A fetch across a tick (`FetchTime` above zero) and more keys are
  left to the theorems; `RetiredKeysExpire` and `OneTimer` also pass with `FetchTime` 1
  and `MaxTime` 2. Two intervals suffice, because a third would need two
  before it.
* **`chat_completions`** has one user, two replicas, two requests, two contexts and one
  failure or restart; time-outs of the MCP gateway and expiries are unbounded. A second
  context is what a lost conversation is told from. `MaxRetries` 2 has a time-out that
  is repeated and one that is not; `MaxRuns` 2 shows the run too many.
  `MaxMessages` 3 has two messages of one role with a third between or behind them, which
  is what "the last of them" is told from; the `Temperatures` lie below, in and above what
  the providers admit, and the `Limits` are none, the smallest and Claude's default. The
  theorems have no bound.

Deadlock is checked in all runs but those whose system may really come to rest:
`scheduler` and `retention` (stopped for good), `documents` and `tenant` (every call is
answered) and `browser_session` (nobody is signed in).

## 4. Fairness

* `SpinLocks`, `SessionManager`: weak fairness of each task's own steps and of the
  sweep. The event loop resumes every coroutine whose await is over, the database
  answers every statement (with an error, if need be), and the sweep wakes every
  minute. Nothing obliges a request to arrive, a user to become idle, a call to
  fail or the process to restart.
* `Accounts`: weak fairness of each task's statements, and strong fairness of the
  delivery of each identity's `user.created` that has no 2xx yet: Clerk repeats it, and
  now and then finds a free worker. Nothing is assumed of `user.updated`. Clerk gives up after some days; the property is about
  outages shorter than that.
* `Scheduler`: weak fairness of each loop (every interval ends, every statement is
  answered, every cancellation arrives) and of the return of `gather`. The
  eventualities are stated for as long as the orchestrator stays up; failures are
  bounded by `MaxFaults`, that is, they do not go on for ever.
* `Documents`: weak fairness of every gateway handler, of the client's repetition
  after a 502 or 503 (`RepeatedIngestsLand` is about such a client), of taking up each
  posted message (the store serves its sockets in turn) and of the running handler.
* `BrowserSession`: weak fairness of each call: timers fire, `fetch` resolves or
  rejects, the orchestrator's awaits end. Nothing obliges anybody to call
  `initialize`, nor Clerk to issue a token.
* `ChatCompletions`: weak fairness of each request's enhancement and of its send: every
  HTTP and Redis call has a time-out, every pause ends.

## 5. The proofs

For any tasks, users, locks, identities, addresses, rows, loops, failures and
restarts. The only assumptions are the named ones on constants: placeholders such
as `NoTask` are not elements of the sets they stand beside, the bounds are natural
numbers, `Events`, `Loops`, `Service` and `Requests` range over what the code has. Three
theorems have a hypothesis of their own, `OnlyLockedWriters`.

| Theorem | Property | |
|---|---|---|
| `LocksExclude`, `LocksWeak` | `MutualExclusion`, `RegistryIsWeak` | the locks exclude and are never forgotten |
| `WaitersAreServedInTurn` | `NobodyOvertakes` | the section of a user is entered first come, first served |
| `LocksImplementUserMutex` | `ImplementsUserMutex` | whoever holds any lock of a user excludes the others |
| `SessionInvariant`, `TypesHold` | `TypeOK` | program counters, locks, subjects and types agree |
| `SessionsImplementUserMutex`, `SessionsAreServedInTurn` | | the session manager's locks are `SpinLocks`' |
| `LocksAreReleased` | `NoLockIsLost` | no error path keeps a lock |
| `SessionRequestsAdvance` | `RequestsAdvance` | twelve steps at most, for any tasks, failures and restarts |
| `SectionsExclude`, `SectionsStart` | `OneTaskPerSection`, `StartsOnlyUnderLock` | in the code's terms, not the lock's |
| `DeletedRowsStay` | `DeletedStays` | no stale object resurrects a row |
| `SectionsAreEffective`, `RowsMatchContainers`, `RunningContainersTracked` | `SectionsTakeEffect`, `RowMatchesContainer`, `RunningIsTracked` | if `OnlyLockedWriters` |
| `AccountsInvariant`, `AccountTypes`, `AccountsAreUnique`, `AnswersLinked` | `TypeOK`, `OneAccountPerIdentity`, `AnswersAreLinked` | |
| `LinksAreKept` | `ImplementsIdentityRegistry` | every behaviour of the column is one of the registry, also when addresses pass on |
| `SchedulerInvariant`, `SchedulerTypes`, `LoopsKeepRunning` | `TypeOK`, `LoopsSurvive` | |
| `YoungAndCriticalStay`, `DeletionsLeaveRecords`, `StopInterruptsPasses` | `OnlyExpiredGo`, `DeletionsAreRecorded`, `StopInterrupts` | |
| `DocumentsInvariant`, `TypeCorrect` | `TypeOK` | |
| `RecordsStayScoped`, `DeletesStayScoped`, `AcknowledgedStaysStored` | `RecordsAreScoped`, `DeletesAreScoped`, `AcknowledgedIsStored` | for any requests, time-outs, failures and crashes |
| `KeysInvariant`, `WithdrawnKeysExpire` | `RetiredKeysExpire` | for `ClerkKeys` alone |
| `TypeCorrect`, `TimerIsUnique` (`BrowserSessionProofs`) | `TypeOK`, `OneTimer` | |
| `PageCallsAdvance` | `CallsAdvance` | for any number of attempts |
| `PageVerifies`, `PageKeysExpire` | `RetiredKeysExpire` | every behaviour of `BrowserSession` is one of `KeysSpec`, so what holds there holds for the page |
| `StoreContinues`, `ChatContinues` | `ConversationContinues` | for the store alone, and with the handler around it |
| `ChatInvariant`, `TypeCorrect`, `ToolsStayOnce` (`ChatCompletionsProofs`) | `TypeOK`, `ToolsRunOnce` | |
| `ChatRequestsAdvance` | `RequestsAdvance` | for any number of retries |
| `RecommendationsAlwaysFit`, `ProvidersAlwaysConvey` | `RecommendationsFit`, `ProvidersConvey` | for conversations of any length |

The arguments:

* **Locks.** Mutual exclusion is not inductive: that two tasks never hold two
  different lock objects of one user needs the dictionary to be exact.
  `LocksInv` adds that every lock somebody refers to is the registered one of its
  user, and that the holder of a lock refers to it.
* **Turns.** A user's waiters could be spread over several lock objects, each with a
  queue of its own. `QueuesAreExact` says that they are not: a task stands in exactly the
  queue of the lock it refers to, once, and never in that of one it holds. With the
  exact dictionary the order of that one queue is the order of the user's requests.
* **Sections.** `SessionInv` adds `InsideHolds`: a task whose program counter is in a
  section holds its subject's lock. Exclusion of the sections then follows from
  the locks. The converse, that a task that holds or awaits a lock is where it needs it, is
  `LocksAreInside`, and `NoLockIsLost` with it. Every step of `SessionManager` is a step of
  `LocksNext` or leaves the locks alone, so it implements `UserMutex` by the theorem on
  the locks.
* **Steps left.** The three measures are proved action by action: the request that moves
  gets a smaller one, and the others keep all that the measure reads. Two invariants are
  needed besides the types: that a call is being verified exactly while its request is
  served (`ServingStage`), and `SessionInv`. So no request can go on for ever; that it
  does go on is fairness, and stays with TLC.
* **Effect.** `EffectInv` follows a section statement by statement: what it has
  prepared in `seen` and in the container stays so until its commit, because only
  the holder of the lock writes either. This needs
  `ASSUME OnlyLockedWriters` (no event of the list that writes the status outside
  a section; an administrator's delete counts only where the database refuses it); the runs `suspended` and `activity` show that it fails without.
  `RowsRemain`, `RowsAgree` and `SessionsTracked` carry the facts between sections.
* **Accounts.** Addresses may pass from one identity to another, and rows then go along.
  What stays is a set of addresses that the rows of an identity may carry, `MayHave`: its
  own, if it is private (nobody else has had any of them), else everything that was
  somebody's and is no private identity's. Two such sets are the same or disjoint
  (`MayHaveAlike`) and never shrink (`MayHaveGrows`). A row carries an address its owner
  may have (`RowsAreOwned`), so the row that a task finds by an address, and works on later,
  belongs to nobody, to the identity that asks, or to another that is not private either:
  hence `HandOver` of `IdentityRegistry` and no more. An account inserted for a private
  identity stays linked to it, and the unique column leaves no room for a second.
* **Scheduler.** `LifespanInv` ties `_running`, the cancellations and the loops
  together. While stopping, a loop that has received its cancellation is closing,
  waiting or ended, so it never reaches a commit. `CleanupInv` says that the
  `DELETE` holds only expired entries, and no alerts.
* **Documents.** `DocInv` follows a request through the system: whatever message
  waits or runs carries what its call asked (`AllCarried`), a message of the present
  attempt of a call is the one its handler waits for (`AllPosted`), and of the running
  ingest every id is in the collection or yet to be added (`RestKnown`). So an answer
  that reaches a gateway handler is the answer to its own request, late attempts
  notwithstanding, and a 200 leaves nothing to add.
* **Clerk's keys.** A fetch that was answered before a key's withdrawal may renew its
  entry after it. `FetchesEnd` bounds how long that can be, `FoundInTime` says that
  such a fetch began before the withdrawal, and `EntriesEnd` follows: an entry of
  a withdrawn key ends by `retiredAt + FetchTime + Ttl`, a published one's by
  `now + Ttl`.
* **The page.** Every step of `BrowserSession` is a step of `KeysNext` or leaves its
  variables alone (`PageVerifies`), hence `KeysInv` and `RetiredKeysExpire` hold of
  it. `OneTimer` is inductive with the types: whatever overlaps, `SetUp` clears
  the interval that `tokenRefreshTimer` names, and there is no other.
* **Conversations.** Claims are what the user was last told. `StoreInv` relates them
  to the stores: while no send of the user is storing, Redis has the claimed context
  unless its entry has expired (`SharedClaims`), and the replica that answered has it in
  memory until its restart (`NearClaims`). `Alone` and `StoredInRedis` say that nobody
  overwrites the entry of a send that is alone. The handler around the sends
  (`ChatInv`) adds stages that touch neither store, and that a tool has run only
  between its call and its answer.
* **Conversations of any length.** "The last message of some role" is a `CHOOSE`. It is
  well defined because a bounded set of naturals that is not empty has a least element
  (`LeastExists`, by well-founded induction on `Nat`) and, turned round, a greatest
  (`LastExists`, `LastIsOne`); the rest is a case for every provider and task.

Only model-checked: the liveness properties (`EveryWaiterIsServed`, `RequestsEnd`,
`IdleEntriesAreSwept`, `SignUpsSettle`, `StopEnds`, `ExpiredEntriesGo`,
`AlertsArrive`, `RepeatedIngestsLand`, `CallsReturn`, `KeyArrives`), which need fairness
and `ENABLED`.

## 6. Where the code and its documents disagree

Four runs expect a violation:

* **`activity`.** `record_activity` is to prevent the session timeout
  (`session_manager.py:223`). The sweep works on a snapshot of the idle users; a
  refresh that arrives while it awaits the database does not stop it.
* **`suspended`.** A deleted user is SUSPENDED (`README.md:162`). `user.deleted`
  writes that after the lock is released; a provisioning task in between
  overwrites it with ACTIVE and leaves a running container.
* **`retention`.** The clean-up is to preserve user deletions (`scheduler.py:323`). It
  spares `user_deleted` (`scheduler.py:344`), but the handlers write `user.deleted`
  (`clerk.py:428`, `admin.py:227`), and the entry goes when it has expired. So does the
  clean-up's own record, of which the comment says that it "won't be deleted"
  (`scheduler.py:373`). `ExpiredEntriesGo` is stated of the other entries only.
* **`tenant`.** A delete is to remove only the caller's scoped documents (`rag.py:231`).
  Its filter leaves the tenant of the request out (`rag.py:245`): it removes documents of
  the fixed tenant, and none of the tenant that was named.

Seen while modelling, and without a run. Accounts and orchestrator:

* A background task is to provision the container of a new user (`README.md:137`).
  `user.created` inserts the row as ACTIVE, and `ensure_user_service` takes an ACTIVE row
  for an existing service: the task ends and no container exists.
* `DELETE /admin/users/{id}` is to delete a user (`admin.py:209`). On a database that checks
  foreign keys it stops the container and then fails, because the audit record it
  inserts refers to the row it deletes.
* `user.updated` links a row found by its address in memory but commits only if the
  name has changed too (`clerk.py:317-319`, `344-351`).
* `user.created` links the row of its address even if it belongs to another
  identity (`clerk.py:231`); a token whose address belongs to somebody else's row
  is accepted for that row (`clerk_auth.py:236-240`). Both need an address that
  Clerk has passed on. The model has both: they are why `AnswersAreLinked`,
  `OneAccountPerIdentity` and `HandOver` speak of private identities.
* `user.updated` to an address of an administrator's row is refused with every
  delivery, and an older one that arrives last wins.
* The health check waits for a status `stopped` that Docker never reports.
* The API key middleware runs outside the one that opens the database session
  (`main.py:151`), so every adapter-bound request is answered 401.
* `rotate_my_api_key` drops the key from the cache before it commits the new one
  (`users.py:198-200`): a request in between would cache the old key again, if the
  middleware worked.
* `README.md:161` says that a deleted user's container is removed; the code stops it.
* A key withdrawn by Clerk is accepted for `Ttl` plus the time of a fetch that was
  under way: an hour and some seconds, not an hour.

Documents:

* A query always ends in 502 (the embedding model has no method `encode`), and so
  do stats (their filter has two keys and no operator, which Chroma refuses).
* Documents without an id are given a new one by every attempt: a client that repeats
  an ingest stores them again. Ids are shared by all subjects and tenants; an
  ingest that uses somebody else's id is answered 200 and stores nothing under it.
* An ingest that the gateway has given up may be carried out after a later delete of
  the same document.
* A negative batch size is answered 200 and stores nothing. A `/clear` whose
  re-creation fails leaves the store without a collection until its restart.

Browser:

* `destroy` is to stop the refresh (`clerk-integration.js:383`). An `initialize` that
  waits for its key at that moment sets up an interval when it goes on, and the
  destroyed page takes itself for initialised.
* A key fetched for one user stays in `sessionStorage` after signing out. A failed
  first fetch is not repeated as long as the token is valid, because the interval
  acts on expired tokens only. Answers out of order let an older key replace a newer
  one (line 197). 429 is repeated like 500; 404 is not repeated at all.

Adapter:

* The temperature is to be adjusted automatically
  (`docs/AUTOMATED_TEMPERATURE_GUIDE.md:10`). `chat_completions` uses
  `detect_and_apply_temperature`, `detect_task_type` and `get_task_description` without
  importing them (`main.py:285-293`); were they imported, the recommendation would be logged
  only: the provider is sent `request.temperature` (`main.py:331`), whose default 0.7 counts
  as asked for. `RecommendationsFit` is about the detector by itself.
* The providers are to be swapped seamlessly (`llm_provider.py:10`). `AnthropicProvider`
  drops the messages of tools and every system message but the last
  (`llm_provider.py:273-280`); the others pass all of them on. `ProvidersConvey` says so
  exactly.
* An unknown `LLM_PROVIDER` raises outside of the `try` (`main.py:326`): 500, not 502.
* `main.py` does not parse (line 380). `get_mcp_client()` builds its client without
  `enabled` (`mcp_client.py:255`), so no tool is ever asked for, whatever
  `MCP_ENABLED` says. With a cloud provider the message is sent as it came, without
  the result of the tool (`main.py:328-330`).
* A ping that fails keeps a replica on its memory until its restart. A `setex` that
  fails leaves an older context in Redis, with which the user goes on when Redis
  answers again. Of two overlapping requests of one user one conversation is lost.
* The stream is to put back the space that `split()` removed (`streaming.py:41`). A line
  break is not put back, and the blank is looked for behind the first place where
  the letters of the word occur: a line break joins two words, and `ba b c` arrives
  as `ba bc`.
* Authentication returns the same user, `dummy`, for every key.

## 7. What is not modelled

`PROJECT.json` lists every component with its status. Left out for good:

* signature arithmetic, rate limits, metrics, the administrator's pages, schemas,
  configuration, migrations, deployment scripts and one-off patches, which have no
  control state of their own;
* the API key middleware and its cache: it runs outside the middleware that opens
  the database session, so it answers 401 before the cache is consulted, and the
  cache has no entry in any reachable state;
* the stream of an answer's words (a function of the text), the regular expressions of the
  temperature detector (which of them match is an input), and the health checks of the
  providers and `AgentZeroProvider`, which have no caller.

Within modelled components: read-only endpoints, `remove_session`,
`destroy_user_service`, `delete` and `close` of the context store and of the MCP
client (no caller), profile fields, key rotation, the numbers in summaries, the start
and stop of the sweep's task, which the lifespan calls once each, the text and the
embeddings of documents, and the hooks of `fetch` and `XMLHttpRequest` in the page,
which only read the key.

## 8. Plan

In the order of what matters most; the modules marked with a tick exist.

1. ✓ `UserMutex`, `SpinLocks`, `SessionManager` - accounts and containers.
2. ✓ `Accounts` - identities and rows.
3. ✓ `Scheduler` - background tasks and audit log.
4. ✓ `Documents` - gateway, vector store and collection.
5. ✓ `ContextStore`, `ChatCompletions` - the adapter.
6. ✓ `ClerkKeys`, `BrowserSession` - the page, its route and Clerk's keys.
7. ✓ Proofs of the safety properties of 4 to 6.
8. ✓ `IdentityRegistry`, `Completions`; proofs of the order of waiters, of the two
   refinements and of the measures: every safety and action property of a passing run is a
   theorem.
9. A composition of `Accounts` with the status of the row: deletion, and re-creation by
   a new identity with the old address, which finds the suspended row.
10. Checks of the sentences of section 6 that have no run: each needs one property and a
    small instance of its module.

An effect theorem for `SessionManager` that admits the sweep is not planned: with the
sweep `SectionsTakeEffect` is false, as the run `activity` shows, and what would be left
of it is `StartsOnlyUnderLock`, which is proved.

## 9. Running it

    tlc -workers 2 -config MCSessionLocked.cfg MCSessionManager
    tlapm SessionManagerProofs.tla

The `.cfg` of a run names its constants and properties; `PROJECT.json` pairs it with
its module. `MCAccounts.cfg`, `BrowserSession.cfg` and `ChatCompletions.cfg` use the module
itself; the other runs have an `MC` module with their constants.
