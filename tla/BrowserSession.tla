---------------------------- MODULE BrowserSession ----------------------------
(***************************************************************************)
(* How a page of Open WebUI comes by its user's API key:                   *)
(* open-webui/clerk-integration.js in the page, GET                        *)
(* /api/v1/auth/get-api-key of the orchestrator (auth_routes.py), and the  *)
(* verification of the session token between them (ClerkKeys).             *)
(*                                                                         *)
(* The page runs one piece of script at a time.  initialize, refreshApiKey *)
(* and the callback of the refresh timer are asynchronous: a call is one   *)
(* activation of any of them, and others run whenever it waits for a timer *)
(* or an answer.  Requests and answers may be lost on their way.           *)
(***************************************************************************)
EXTENDS ClerkKeys

CONSTANTS Timers,        \* ids of intervals
          NoTimer,
          MaxAttempts,   \* CONFIG.maxRetryAttempts
          Buffer,        \* how long before its expiry the page takes a token for expired
          MaxFaults,     \* bound: lost requests and answers, and failing fetches of keys
          MaxEvents      \* bound: what Clerk, administrators, the clock and destroy() do

Calls == Verifiers

ASSUME BrowserSessionAssumption ==
    /\ NoTimer \notin Timers
    /\ MaxAttempts \in Nat \ {0}
    /\ Buffer \in Nat
    /\ MaxFaults \in Nat
    /\ MaxEvents \in Nat

VARIABLES
    account,         \* users.status of the row of the signed-in person, "none" without one
    session,         \* the token in the __session cookie
    clerkSession,    \* clerkSession is set
    apiKeyCache,     \* apiKeyCache is set
    sessionStorage,  \* its item openwebui_api_key is set
    tokenRefreshTimer,
    intervals,       \* the intervals that the browser keeps firing
    isInitialized,
    kind,            \* the function a call belongs to
    pc,
    token,           \* the token of its requests
    try,             \* attempt of fetchApiKey
    reply,           \* the answer on its way
    faults,
    events

pageVars == <<clerkSession, apiKeyCache, sessionStorage, tokenRefreshTimer, intervals,
              isInitialized>>
callVars == <<kind, pc, token, try, reply>>
vars == <<keysVars, account, session, pageVars, callVars, faults, events>>

Replies == {"key", "401", "403", "404", "500", "error", "none"}

PageTypeOK ==
    /\ account \in {"none", "active", "suspended"}
    /\ session \in Tokens \cup {NoToken}
    /\ clerkSession \in BOOLEAN
    /\ apiKeyCache \in BOOLEAN
    /\ sessionStorage \in BOOLEAN
    /\ tokenRefreshTimer \in Timers \cup {NoTimer}
    /\ intervals \subseteq Timers
    /\ isInitialized \in BOOLEAN
    /\ faults \in 0..MaxFaults
    /\ events \in 0..MaxEvents

\* A call that fetches has a token and counts its attempts.
CallsTypeOK ==
    /\ kind \in [Calls -> {"none", "initialize", "refresh", "tick"}]
    /\ pc \in [Calls -> {"idle", "asleep", "send", "serving", "replied"}]
    /\ token \in [Calls -> Tokens \cup {NoToken}]
    /\ \A c \in Calls : pc[c] \notin {"idle", "asleep"} => token[c] # NoToken
    /\ try \in [Calls -> 1..MaxAttempts]
    /\ reply \in [Calls -> Replies]
    /\ \A c \in Calls : reply[c] # "none" <=> pc[c] = "replied"

TypeOK == KeysTypeOK /\ PageTypeOK /\ CallsTypeOK

\* Clerk has signed the user in, and a new tab loads the page.
Init ==
    /\ KeysInit
    /\ account \in {"none", "active"}
    /\ session \in {[kid |-> k, exp |-> Life] : k \in Kids}
    /\ clerkSession = FALSE
    /\ apiKeyCache = FALSE
    /\ sessionStorage = FALSE
    /\ tokenRefreshTimer = NoTimer
    /\ intervals = {}
    /\ isInitialized = FALSE
    /\ kind = [c \in Calls |-> "none"]
    /\ pc = [c \in Calls |-> "idle"]
    /\ token = [c \in Calls |-> NoToken]
    /\ try = [c \in Calls |-> 1]
    /\ reply = [c \in Calls |-> "none"]
    /\ faults = 0
    /\ events = 0

Event == events < MaxEvents /\ events' = events + 1

-----------------------------------------------------------------------------
(* Clerk and the account *)

\* Clerk signs the user in, or renews the token.
Issue ==
    /\ Event
    /\ \E k \in published : session' = [kid |-> k, exp |-> now + Life]
    /\ session' # session
    /\ UNCHANGED <<keysVars, account, pageVars, callVars, faults>>

SignOut ==
    /\ Event
    /\ session # NoToken
    /\ session' = NoToken
    /\ UNCHANGED <<keysVars, account, pageVars, callVars, faults>>

\* The account is created, suspended or taken back.
AccountChanges ==
    /\ Event
    /\ account' \in {"active", "suspended"} \ {account}
    /\ UNCHANGED <<keysVars, session, pageVars, callVars, faults>>

ClerkRetiresKey ==
    /\ Event
    /\ \E k \in Kids : Retire(k)
    /\ UNCHANGED <<account, session, pageVars, callVars, faults>>

TimePasses ==
    /\ Event
    /\ Tick
    /\ UNCHANGED <<account, session, pageVars, callVars, faults>>

-----------------------------------------------------------------------------
(* The page *)

\* extractClerkSessionToken finds a token.
HasSession == session # NoToken

\* isTokenExpired
Expired(t) == now + Buffer >= t.exp

\* Call c sends its first request with token t.
Fetch(c, k, t) ==
    /\ kind' = [kind EXCEPT ![c] = k]
    /\ pc' = [pc EXCEPT ![c] = "send"]
    /\ token' = [token EXCEPT ![c] = t]
    /\ UNCHANGED <<try, reply>>

\* The call returns.
Return(c) ==
    /\ kind' = [kind EXCEPT ![c] = "none"]
    /\ pc' = [pc EXCEPT ![c] = "idle"]
    /\ token' = [token EXCEPT ![c] = NoToken]
    /\ try' = [try EXCEPT ![c] = 1]
    /\ reply' = [reply EXCEPT ![c] = "none"]

\* initialize(), when the page is ready or whenever Open WebUI asks for it.  It does
\* nothing when it has been done before, or without a session.
Initialize(c) ==
    /\ pc[c] = "idle"
    /\ ~isInitialized
    /\ HasSession
    /\ IF Expired(session)
       THEN /\ pc' = [pc EXCEPT ![c] = "asleep"]
            /\ kind' = [kind EXCEPT ![c] = "initialize"]
            /\ UNCHANGED <<clerkSession, token, try, reply>>
       ELSE /\ Fetch(c, "initialize", session)
            /\ clerkSession' = TRUE
    /\ UNCHANGED <<keysVars, account, session, apiKeyCache, sessionStorage,
                   tokenRefreshTimer, intervals, isInitialized, faults, events>>

\* Two seconds later it looks for a renewed token.
Wake(c) ==
    /\ pc[c] = "asleep"
    /\ IF HasSession => Expired(session)
       THEN Return(c) /\ UNCHANGED clerkSession
       ELSE Fetch(c, "initialize", session) /\ clerkSession' = TRUE
    /\ UNCHANGED <<keysVars, account, session, apiKeyCache, sessionStorage,
                   tokenRefreshTimer, intervals, isInitialized, faults, events>>

\* refreshApiKey()
Refresh(c) ==
    /\ pc[c] = "idle"
    /\ HasSession
    /\ Fetch(c, "refresh", session)
    /\ UNCHANGED <<keysVars, account, session, pageVars, faults, events>>

\* An interval fires and finds no session: initialize() finds none either and returns.
TickWithoutSession ==
    /\ intervals # {}
    /\ ~HasSession
    /\ isInitialized' = FALSE
    /\ UNCHANGED <<keysVars, account, session, clerkSession, apiKeyCache,
                   sessionStorage, tokenRefreshTimer, intervals, callVars, faults, events>>

\* ... or it finds an expired token, which it uses all the same.  (A token that has
\* not expired is left alone.)
TickExpired(c) ==
    /\ intervals # {}
    /\ pc[c] = "idle"
    /\ HasSession /\ Expired(session)
    /\ Fetch(c, "tick", session)
    /\ clerkSession' = TRUE
    /\ UNCHANGED <<keysVars, account, session, apiKeyCache, sessionStorage,
                   tokenRefreshTimer, intervals, isInitialized, faults, events>>

\* destroy()
Destroy ==
    /\ Event
    /\ intervals' = intervals \ {tokenRefreshTimer}
    /\ tokenRefreshTimer' = NoTimer
    /\ isInitialized' = FALSE
    /\ clerkSession' = FALSE
    /\ apiKeyCache' = FALSE
    /\ UNCHANGED <<keysVars, account, session, sessionStorage, callVars, faults>>

-----------------------------------------------------------------------------
(* GET /api/v1/auth/get-api-key *)

\* The request arrives; the orchestrator verifies its token.
Arrive(c) ==
    /\ pc[c] = "send"
    /\ Begin(c, token[c])
    /\ pc' = [pc EXCEPT ![c] = "serving"]
    /\ UNCHANGED <<account, session, pageVars, kind, token, try, reply, faults, events>>

FetchKeys(c) ==
    /\ JwksAnswers(c) \/ Resume(c)
    /\ UNCHANGED <<account, session, pageVars, callVars, faults, events>>

FetchOfKeysFails(c) ==
    /\ faults < MaxFaults
    /\ faults' = faults + 1
    /\ JwksFails(c)
    /\ UNCHANGED <<account, session, pageVars, callVars, events>>

\* What the row says.  Whether and how a person has a row, is in Accounts.
RowReply ==
    IF account = "none" THEN "404" ELSE IF account = "active" THEN "key" ELSE "403"

\* The SELECT, and the answer.
Respond(c) ==
    /\ pc[c] = "serving"
    /\ reply' = [reply EXCEPT ![c] = IF stage[c] = "accepted" THEN RowReply
                                    ELSE IF stage[c] = "rejected" THEN "401" ELSE "500"]
    /\ Done(c)
    /\ pc' = [pc EXCEPT ![c] = "replied"]
    /\ UNCHANGED <<account, session, pageVars, kind, token, try, faults, events>>

\* The request or its answer is lost: fetch() rejects.
Lose(c) ==
    /\ pc[c] = "send" \/ (pc[c] = "replied" /\ reply[c] # "error")
    /\ faults < MaxFaults
    /\ faults' = faults + 1
    /\ reply' = [reply EXCEPT ![c] = "error"]
    /\ pc' = [pc EXCEPT ![c] = "replied"]
    /\ UNCHANGED <<keysVars, account, session, pageVars, kind, token, try, events>>

-----------------------------------------------------------------------------
(* The end of fetchApiKey *)

\* Mutant of Kept: setupTokenRefresh leaves the interval of an earlier one running.
KeptAll == intervals

\* The intervals that are left when setupTokenRefresh has cleared the last one.
Kept == intervals \ {tokenRefreshTimer}

\* setupTokenRefresh, and the end of initialize.
SetUp ==
    /\ \E i \in Timers \ intervals :
         /\ intervals' = Kept \cup {i}
         /\ tokenRefreshTimer' = i
    /\ isInitialized' = TRUE

\* The rest of the function that has called fetchApiKey.
GoOn(c) ==
    /\ IF kind[c] = "initialize"
       THEN SetUp
       ELSE UNCHANGED <<intervals, tokenRefreshTimer, isInitialized>>
    /\ Return(c)

\* fetchApiKey returns a key, which is injected.
Inject(c) ==
    /\ pc[c] = "replied"
    /\ reply[c] = "key"
    /\ apiKeyCache' = TRUE
    /\ sessionStorage' = TRUE
    /\ GoOn(c)
    /\ UNCHANGED <<keysVars, account, session, clerkSession, faults, events>>

\* Mutant of Final: any failure ends fetchApiKey.
FinalAlways(c) == reply[c] # "key"

\* 401 and 404 end fetchApiKey at once, anything else after the last attempt.
Final(c) == \/ reply[c] \in {"401", "404"}
            \/ reply[c] \in {"403", "500", "error"} /\ try[c] = MaxAttempts

GiveUp(c) ==
    /\ pc[c] = "replied"
    /\ Final(c)
    /\ GoOn(c)
    /\ UNCHANGED <<keysVars, account, session, clerkSession, apiKeyCache,
                   sessionStorage, faults, events>>

\* Mutant of NextTry: the attempts are not counted.
NextTryUncounted(n) == n

NextTry(n) == n + 1

\* After a pause it sends the same token again.
Retry(c) ==
    /\ pc[c] = "replied"
    /\ reply[c] # "key"
    /\ ~Final(c)
    /\ pc' = [pc EXCEPT ![c] = "send"]
    /\ try' = [try EXCEPT ![c] = NextTry(@)]
    /\ reply' = [reply EXCEPT ![c] = "none"]
    /\ UNCHANGED <<keysVars, account, session, pageVars, kind, token, faults, events>>

-----------------------------------------------------------------------------

Proceed(c) == \/ Wake(c) \/ Arrive(c) \/ FetchKeys(c) \/ Respond(c)
              \/ Inject(c) \/ GiveUp(c) \/ Retry(c)

Next == \/ Issue \/ SignOut \/ AccountChanges \/ ClerkRetiresKey \/ TimePasses
        \/ TickWithoutSession \/ Destroy
        \/ \E c \in Calls : \/ Initialize(c) \/ Refresh(c) \/ TickExpired(c)
                            \/ Proceed(c) \/ FetchOfKeysFails(c) \/ Lose(c)

Spec == Init /\ [][Next]_vars

\* Time-outs fire, requests are answered or fail, and handlers resume.
Fairness == \A c \in Calls : WF_vars(Proceed(c))

FairSpec == Spec /\ Fairness

-----------------------------------------------------------------------------
(* Properties *)

\* However initialize, destroy and timer callbacks overlap, the page has one interval
\* at most, the one that destroy can clear, and it has one whenever it is initialised
\* (clerk-integration.js:302, 386).
OneTimer ==
    /\ intervals = {tokenRefreshTimer} \ {NoTimer}
    /\ isInitialized => tokenRefreshTimer # NoTimer

\* The steps that are left of an attempt of c, and of the call.
AttemptLeft(c) ==
    CASE pc[c] = "send"    -> 6
      [] pc[c] = "serving" -> CASE stage[c] = "fetching" -> 5
                                [] stage[c] = "answered" -> 4
                                [] OTHER                 -> 3
      [] pc[c] = "replied" -> IF reply[c] = "error" THEN 1 ELSE 2

StepsLeft(c) == CASE pc[c] = "idle"   -> 0
                  [] pc[c] = "asleep" -> 7 * MaxAttempts
                  [] OTHER            -> 7 * (MaxAttempts - try[c]) + AttemptLeft(c)

\* A call goes forward only, through MaxAttempts attempts at most: neither the loss of
\* a request or an answer, nor other calls that fetch the same key of Clerk, nor
\* destroy() sends it back (clerk-integration.js:148).
CallsAdvance ==
    [][\A c \in Calls : pc[c] # "idle" =>
          \/ StepsLeft(c)' < StepsLeft(c)
          \/ UNCHANGED <<kind[c], pc[c], token[c], try[c], reply[c], stage[c]>>]_vars

\* Every call returns.
CallsReturn == \A c \in Calls : pc[c] # "idle" ~> pc[c] = "idle"

\* Fewer failures than attempts do not keep the key from the user: whether requests,
\* answers or fetches of Clerk's keys are lost, the page gets a key, unless the token
\* is rejected or the account is not active.
KeyArrives ==
    MaxFaults < MaxAttempts =>
        \A c \in Calls :
            pc[c] = "send" /\ try[c] = 1
                ~> \/ apiKeyCache
                   \/ account # "active"
                   \/ reply[c] = "401"
=============================================================================
