------------------------- MODULE BrowserSessionProofs -------------------------
(***************************************************************************)
(* Proofs about BrowserSession: types; that the page's requests use        *)
(* verify_clerk_token as ClerkKeys says, so that what is proved there      *)
(* holds of them; that the page never has a second timer; and that every   *)
(* call only goes forward.                                                 *)
(***************************************************************************)
EXTENDS BrowserSession, ClerkKeysProofs

USE BrowserSessionAssumption, ClerkKeysAssumption

\* What the page, its calls and the verifications keep true.
PageInv == KeysInv /\ PageTypeOK /\ CallsTypeOK

\* In the first states nothing is set and no call runs.
LEMMA InitPage == Init => PageInv
  <1> SUFFICES ASSUME Init PROVE PageInv
    OBVIOUS
  <1>1. KeysInv
    BY KeysInitInv DEF Init
  <1>2. session \in Tokens
    BY DEF Init, Tokens
  <1>3. account \in {"none", "active", "suspended"} /\ session \in Tokens \cup {NoToken}
    BY <1>2 DEF Init
  <1>4. /\ clerkSession \in BOOLEAN /\ apiKeyCache \in BOOLEAN
        /\ sessionStorage \in BOOLEAN /\ isInitialized \in BOOLEAN
    BY Zenon DEF Init
  <1>5. /\ kind \in [Calls -> {"none", "initialize", "refresh", "tick"}]
        /\ pc \in [Calls -> {"idle", "asleep", "send", "serving", "replied"}]
        /\ token \in [Calls -> Tokens \cup {NoToken}]
        /\ \A c \in Calls : pc[c] = "idle"
    BY DEF Init
  <1>6. /\ try \in [Calls -> 1..MaxAttempts]
        /\ reply \in [Calls -> Replies]
        /\ \A c \in Calls : reply[c] = "none"
    BY DEF Init, Replies
  <1>7. PageTypeOK /\ CallsTypeOK
    BY <1>3, <1>4, <1>5, <1>6 DEF Init, PageTypeOK, CallsTypeOK
  <1> QED BY <1>1, <1>7 DEF PageInv

\* Every step of the page is a step of the verifications or leaves them alone: a
\* request that arrives carries a token.
LEMMA StepOfKeys == ASSUME CallsTypeOK, [Next]_vars PROVE [KeysNext]_keysVars
  <1>1. CASE Next
    <2>1. ASSUME NEW c \in Calls, Arrive(c) PROVE KeysNext
      <3>1. token[c] \in Tokens /\ Begin(c, token[c])
        BY <2>1 DEF Arrive, CallsTypeOK
      <3> QED BY <3>1 DEF KeysNext, Calls
    <2>2. ASSUME NEW c \in Calls, FetchKeys(c) \/ FetchOfKeysFails(c) \/ Respond(c)
          PROVE  KeysNext
      BY <2>2 DEF FetchKeys, FetchOfKeysFails, Respond, KeysNext, Calls
    <2>3. ASSUME NEW c \in Calls,
                 \/ Initialize(c) \/ Refresh(c) \/ TickExpired(c) \/ Wake(c)
                 \/ Inject(c) \/ GiveUp(c) \/ Retry(c) \/ Lose(c)
          PROVE  UNCHANGED keysVars
      BY <2>3 DEF Initialize, Refresh, TickExpired, Wake, Inject, GiveUp, Retry, Lose
    <2>4. CASE Issue \/ SignOut \/ AccountChanges \/ TickWithoutSession \/ Destroy
      BY <2>4 DEF Issue, SignOut, AccountChanges, TickWithoutSession, Destroy
    <2>5. CASE ClerkRetiresKey \/ TimePasses
      BY <2>5 DEF ClerkRetiresKey, TimePasses, KeysNext
    <2> QED BY <1>1, <2>1, <2>2, <2>3, <2>4, <2>5 DEF Next, Proceed
  <1>2. CASE UNCHANGED vars
    BY <1>2 DEF vars
  <1> QED BY <1>1, <1>2

\* The environment's steps, and those in which no call takes part.
LEMMA EventType ==
    ASSUME PageInv,
           \/ Issue \/ SignOut \/ AccountChanges \/ ClerkRetiresKey \/ TimePasses
           \/ TickWithoutSession \/ Destroy
    PROVE  PageTypeOK' /\ CallsTypeOK'
  <1> USE DEF PageInv, PageTypeOK, CallsTypeOK, callVars, pageVars, Calls, Event
  <1>1. CASE Issue
    <2>1. session' \in Tokens
      BY <1>1 DEF Issue, Tokens, KeysInv, KeysTypeOK
    <2> QED BY <1>1, <2>1 DEF Issue
  <1>2. CASE SignOut
    BY <1>2 DEF SignOut
  <1>3. CASE AccountChanges
    BY <1>3 DEF AccountChanges
  <1>4. CASE ClerkRetiresKey \/ TimePasses
    BY <1>4 DEF ClerkRetiresKey, TimePasses
  <1>5. CASE TickWithoutSession
    BY <1>5 DEF TickWithoutSession
  <1>6. CASE Destroy
    <2>1. /\ clerkSession' \in BOOLEAN /\ apiKeyCache' \in BOOLEAN
          /\ isInitialized' \in BOOLEAN
      BY <1>6, Zenon DEF Destroy
    <2>2. intervals' \subseteq Timers /\ tokenRefreshTimer' = NoTimer
      BY <1>6 DEF Destroy
    <2> QED BY <1>6, <2>1, <2>2 DEF Destroy
  <1> QED BY <1>1, <1>2, <1>3, <1>4, <1>5, <1>6

\* A call that sends a request has a token and a kind.
LEMMA FetchTyped ==
    ASSUME CallsTypeOK, NEW c \in Calls, NEW k \in {"initialize", "refresh", "tick"},
           session \in Tokens, session # NoToken, pc[c] \in {"idle", "asleep"},
           Fetch(c, k, session)
    PROVE  CallsTypeOK'
  BY DEF CallsTypeOK, Fetch, Replies

\* A call that returns has no answer left.
LEMMA ReturnTyped ==
    ASSUME CallsTypeOK, NEW c \in Calls, Return(c)
    PROVE  CallsTypeOK'
  BY DEF CallsTypeOK, Return, Replies

\* The steps of calls in the page.
LEMMA CallType ==
    ASSUME PageInv, NEW c \in Calls,
           \/ Initialize(c) \/ Refresh(c) \/ TickExpired(c) \/ Wake(c)
    PROVE  PageTypeOK' /\ CallsTypeOK'
  <1>0. CallsTypeOK /\ PageTypeOK
    BY DEF PageInv
  <1>1. CASE Initialize(c)
    <2>1. CASE Expired(session)
      <3>1. CallsTypeOK'
        BY <1>0, <1>1, <2>1 DEF Initialize, CallsTypeOK
      <3>2. PageTypeOK'
        BY <1>0, <1>1, <2>1 DEF Initialize, PageTypeOK
      <3> QED BY <3>1, <3>2
    <2>2. CASE ~Expired(session)
      <3>1. CallsTypeOK'
        BY <1>0, <1>1, <2>2, FetchTyped DEF Initialize, HasSession, PageTypeOK
      <3>2. clerkSession' \in BOOLEAN
        BY <1>1, <2>2, Zenon DEF Initialize
      <3>3. PageTypeOK'
        BY <1>0, <1>1, <3>2 DEF Initialize, PageTypeOK
      <3> QED BY <3>1, <3>3
    <2> QED BY <2>1, <2>2
  <1>2. CASE Refresh(c)
    <2>1. CallsTypeOK'
      BY <1>0, <1>2, FetchTyped DEF Refresh, HasSession, PageTypeOK, CallsTypeOK
    <2>2. PageTypeOK'
      BY <1>0, <1>2 DEF Refresh, pageVars, PageTypeOK
    <2> QED BY <2>1, <2>2
  <1>3. CASE TickExpired(c)
    <2>1. CallsTypeOK'
      BY <1>0, <1>3, FetchTyped DEF TickExpired, HasSession, PageTypeOK
    <2>2. clerkSession' \in BOOLEAN
      BY <1>3, Zenon DEF TickExpired
    <2>3. PageTypeOK'
      BY <1>0, <1>3, <2>2 DEF TickExpired, PageTypeOK
    <2> QED BY <2>1, <2>3
  <1>4. CASE Wake(c)
    <2>1. CASE HasSession => Expired(session)
      <3>1. CallsTypeOK'
        BY <1>0, <1>4, <2>1, ReturnTyped DEF Wake
      <3>2. PageTypeOK'
        BY <1>0, <1>4, <2>1 DEF Wake, PageTypeOK
      <3> QED BY <3>1, <3>2
    <2>2. CASE ~(HasSession => Expired(session))
      <3>1. CallsTypeOK'
        BY <1>0, <1>4, <2>2, FetchTyped DEF Wake, HasSession, PageTypeOK
      <3>2. clerkSession' \in BOOLEAN
        BY <1>4, <2>2, Zenon DEF Wake
      <3>3. PageTypeOK'
        BY <1>0, <1>4, <3>2 DEF Wake, PageTypeOK
      <3> QED BY <3>1, <3>3
    <2> QED BY <2>1, <2>2
  <1> QED BY <1>1, <1>2, <1>3, <1>4

\* The steps of requests and answers.
LEMMA RequestType ==
    ASSUME PageInv, NEW c \in Calls,
           Arrive(c) \/ FetchKeys(c) \/ FetchOfKeysFails(c) \/ Respond(c) \/ Lose(c)
    PROVE  PageTypeOK' /\ CallsTypeOK'
  <1> USE DEF PageInv, PageTypeOK, CallsTypeOK, pageVars, callVars, Replies
  <1>1. CASE Arrive(c)
    BY <1>1 DEF Arrive
  <1>2. CASE FetchKeys(c) \/ FetchOfKeysFails(c)
    BY <1>2 DEF FetchKeys, FetchOfKeysFails
  <1>3. CASE Respond(c)
    <2>1. RowReply \in {"key", "403", "404"}
      BY DEF RowReply
    <2>2. \E r \in Replies \ {"none"} : reply' = [reply EXCEPT ![c] = r]
      BY <1>3, <2>1 DEF Respond
    <2> QED BY <1>3, <2>2 DEF Respond
  <1>4. CASE Lose(c)
    BY <1>4 DEF Lose
  <1> QED BY <1>1, <1>2, <1>3, <1>4

\* The rest of an initialisation.
LEMMA GoOnTyped ==
    ASSUME PageTypeOK, NEW c \in Calls, GoOn(c)
    PROVE  /\ intervals' \subseteq Timers
           /\ tokenRefreshTimer' \in Timers \cup {NoTimer}
           /\ isInitialized' \in BOOLEAN
  <1>1. CASE SetUp
    <2>1. isInitialized' \in BOOLEAN
      BY <1>1, Zenon DEF SetUp
    <2> QED BY <1>1, <2>1 DEF SetUp, Kept, PageTypeOK
  <1>2. CASE UNCHANGED <<intervals, tokenRefreshTimer, isInitialized>>
    BY <1>2 DEF PageTypeOK
  <1> QED BY <1>1, <1>2 DEF GoOn

\* The end of fetchApiKey.
LEMMA EndType ==
    ASSUME PageInv, NEW c \in Calls, Inject(c) \/ GiveUp(c) \/ Retry(c)
    PROVE  PageTypeOK' /\ CallsTypeOK'
  <1>0. CallsTypeOK /\ PageTypeOK
    BY DEF PageInv
  <1>1. CASE Inject(c)
    <2>1. apiKeyCache' \in BOOLEAN /\ sessionStorage' \in BOOLEAN
      BY <1>1, Zenon DEF Inject
    <2>2. CallsTypeOK'
      BY <1>0, <1>1, ReturnTyped DEF Inject, GoOn
    <2>3. PageTypeOK'
      BY <1>0, <1>1, <2>1, GoOnTyped DEF Inject, PageTypeOK
    <2> QED BY <2>2, <2>3
  <1>2. CASE GiveUp(c)
    <2>1. CallsTypeOK'
      BY <1>0, <1>2, ReturnTyped DEF GiveUp, GoOn
    <2>2. PageTypeOK'
      BY <1>0, <1>2, GoOnTyped DEF GiveUp, PageTypeOK
    <2> QED BY <2>1, <2>2
  <1>3. CASE Retry(c)
    <2>1. CallsTypeOK'
      BY <1>0, <1>3 DEF Retry, Final, NextTry, CallsTypeOK, Replies
    <2>2. PageTypeOK'
      BY <1>0, <1>3 DEF Retry, pageVars, PageTypeOK
    <2> QED BY <2>1, <2>2
  <1> QED BY <1>1, <1>2, <1>3

\* Every step keeps them.
LEMMA NextPage == PageInv /\ [Next]_vars => PageInv'
  <1> SUFFICES ASSUME PageInv, [Next]_vars PROVE PageInv'
    OBVIOUS
  <1>1. KeysInv'
    BY StepOfKeys, KeysNextInv DEF PageInv
  <1>2. PageTypeOK' /\ CallsTypeOK'
    <2>1. CASE Next
      BY <2>1, EventType, CallType, RequestType, EndType DEF Next, Proceed
    <2>2. CASE UNCHANGED vars
      BY <2>2 DEF vars, pageVars, callVars, PageInv, PageTypeOK, CallsTypeOK, Calls
    <2> QED BY <2>1, <2>2
  <1> QED BY <1>1, <1>2 DEF PageInv

\* All variables of the page, of its calls and of the orchestrator's verifications
\* stay within their types.
THEOREM TypeCorrect == Spec => []TypeOK
  <1>1. PageInv => TypeOK
    BY DEF PageInv, KeysInv, TypeOK
  <1> QED BY <1>1, InitPage, NextPage, PTL DEF Spec

-----------------------------------------------------------------------------

\* The page together with the orchestrator verifies tokens as ClerkKeys says.
THEOREM PageVerifies == Spec => KeysSpec
  <1>1. Init => KeysInit
    BY DEF Init
  <1>2. PageInv /\ [Next]_vars => [KeysNext]_keysVars
    BY StepOfKeys DEF PageInv
  <1> QED BY <1>1, <1>2, InitPage, NextPage, PTL DEF Spec, KeysSpec

\* So a page, too, gets nowhere with a token of a key that Clerk has withdrawn more than
\* the cache's time and a fetch ago (auth_routes.py:47, clerk_auth.py:77).
THEOREM PageKeysExpire == Spec => RetiredKeysExpire
  BY PageVerifies, WithdrawnKeysExpire

-----------------------------------------------------------------------------

\* Only destroy and the end of an initialisation change the timer.
LEMMA TimerStep == PageTypeOK /\ OneTimer /\ [Next]_vars => OneTimer'
  <1> SUFFICES ASSUME PageTypeOK, OneTimer, [Next]_vars PROVE OneTimer'
    OBVIOUS
  <1>1. CASE Next
    <2>1. ASSUME NEW c \in Calls, Inject(c) \/ GiveUp(c) PROVE OneTimer'
      <3>1. \/ UNCHANGED <<intervals, tokenRefreshTimer, isInitialized>>
            \/ SetUp
        BY <2>1 DEF Inject, GiveUp, GoOn
      <3>2. CASE SetUp
        BY <3>2 DEF SetUp, Kept, OneTimer, PageTypeOK
      <3> QED BY <3>1, <3>2 DEF OneTimer
    <2>2. CASE Destroy
      BY <2>2 DEF Destroy, OneTimer
    <2>3. CASE TickWithoutSession
      BY <2>3 DEF TickWithoutSession, OneTimer
    <2>4. CASE Issue \/ SignOut \/ AccountChanges \/ ClerkRetiresKey \/ TimePasses
      BY <2>4 DEF Issue, SignOut, AccountChanges, ClerkRetiresKey, TimePasses, pageVars, OneTimer
    <2>5. ASSUME NEW c \in Calls,
                 \/ Initialize(c) \/ Refresh(c) \/ TickExpired(c) \/ Wake(c)
                 \/ Arrive(c) \/ FetchKeys(c) \/ FetchOfKeysFails(c) \/ Respond(c)
                 \/ Lose(c) \/ Retry(c)
          PROVE  OneTimer'
      BY <2>5 DEF Initialize, Refresh, TickExpired, Wake, Arrive, FetchKeys, FetchOfKeysFails,
                  Respond, Lose, Retry, pageVars, OneTimer
    <2> QED BY <1>1, <2>1, <2>2, <2>3, <2>4, <2>5 DEF Next, Proceed
  <1>2. CASE UNCHANGED vars
    BY <1>2 DEF vars, pageVars, OneTimer
  <1> QED BY <1>1, <1>2

\* With any number of overlapping calls, the page has one interval at most, which
\* destroy can clear, and an initialised page has one (clerk-integration.js:302, 386).
THEOREM TimerIsUnique == Spec => []OneTimer
  <1>1. Init => OneTimer
    BY DEF Init, OneTimer
  <1>2. PageInv => PageTypeOK
    BY DEF PageInv
  <1> QED BY <1>1, <1>2, InitPage, NextPage, TimerStep, PTL DEF Spec

-----------------------------------------------------------------------------
(* A call only goes forward. *)

\* The orchestrator verifies the token of a call as long as it serves its request.
ServingStage == \A c \in Calls : pc[c] = "serving" <=> stage[c] # "idle"

\* A step of call c.
StepOf(c) ==
    \/ Initialize(c) \/ Refresh(c) \/ TickExpired(c) \/ Wake(c)
    \/ Arrive(c) \/ FetchKeys(c) \/ FetchOfKeysFails(c) \/ Respond(c) \/ Lose(c)
    \/ Inject(c) \/ GiveUp(c) \/ Retry(c)

\* What belongs to call d stays as it is.
CallStays(d) == UNCHANGED <<kind[d], pc[d], token[d], try[d], reply[d], stage[d]>>

\* A step is one of a call, or leaves all of them alone.
LEMMA StepsOfCalls ==
    ASSUME [Next]_vars
    PROVE  (\E c \in Calls : StepOf(c)) \/ UNCHANGED <<callVars, stage>>
  <1>1. CASE Next
    <2>1. CASE Issue \/ SignOut \/ AccountChanges \/ TickWithoutSession \/ Destroy
      BY <2>1 DEF Issue, SignOut, AccountChanges, TickWithoutSession, Destroy, keysVars,
                  verifyVars
    <2>2. CASE ClerkRetiresKey \/ TimePasses
      BY <2>2 DEF ClerkRetiresKey, TimePasses, Retire, Tick, verifyVars
    <2>3. CASE \E c \in Calls : \/ Initialize(c) \/ Refresh(c) \/ TickExpired(c)
                                \/ Proceed(c) \/ FetchOfKeysFails(c) \/ Lose(c)
      BY <2>3 DEF Proceed, StepOf
    <2> QED BY <1>1, <2>1, <2>2, <2>3 DEF Next
  <1>2. CASE UNCHANGED vars
    BY <1>2 DEF vars, keysVars, verifyVars
  <1> QED BY <1>1, <1>2

\* The steps of one call leave the others alone.
LEMMA OtherCallsStay ==
    ASSUME PageInv, NEW c \in Calls, StepOf(c), NEW d \in Calls, d # c
    PROVE  CallStays(d)
  <1> USE DEF PageInv, CallsTypeOK, KeysInv, KeysTypeOK, Calls, CallStays
  <1>1. CASE Initialize(c) \/ Refresh(c) \/ TickExpired(c) \/ Wake(c)
    <2>1. UNCHANGED stage
      BY <1>1 DEF Initialize, Refresh, TickExpired, Wake, keysVars, verifyVars
    <2>2. \/ \E k \in {"initialize", "refresh", "tick"} : Fetch(c, k, session)
          \/ Return(c)
          \/ /\ pc' = [pc EXCEPT ![c] = "asleep"]
             /\ kind' = [kind EXCEPT ![c] = "initialize"]
             /\ UNCHANGED <<token, try, reply>>
      BY <1>1 DEF Initialize, Refresh, TickExpired, Wake
    <2> QED BY <2>1, <2>2 DEF Fetch, Return
  <1>2. CASE Arrive(c)
    <2>1. stage'[d] = stage[d]
      BY <1>2 DEF Arrive, Begin
    <2> QED BY <1>2, <2>1 DEF Arrive
  <1>3. CASE FetchKeys(c) \/ FetchOfKeysFails(c)
    <2>1. stage'[d] = stage[d]
      BY <1>3 DEF FetchKeys, FetchOfKeysFails, JwksAnswers, JwksFails, Resume
    <2> QED BY <1>3, <2>1 DEF FetchKeys, FetchOfKeysFails, callVars
  <1>4. CASE Respond(c)
    BY <1>4 DEF Respond, Done
  <1>5. CASE Lose(c) \/ Retry(c)
    BY <1>5 DEF Lose, Retry, keysVars, verifyVars
  <1>6. CASE Inject(c) \/ GiveUp(c)
    BY <1>6 DEF Inject, GiveUp, GoOn, Return, keysVars, verifyVars
  <1> QED BY <1>1, <1>2, <1>3, <1>4, <1>5, <1>6 DEF StepOf

\* Where verify_clerk_token is after each of its steps.
LEMMA StagesOfCall ==
    ASSUME PageInv, ServingStage, NEW c \in Calls
    PROVE  /\ Arrive(c) => /\ stage'[c] \in {"accepted", "rejected", "fetching"}
                           /\ pc[c] = "send" /\ pc'[c] = "serving"
           /\ FetchKeys(c) => /\ pc[c] = "serving" /\ pc'[c] = "serving"
                              /\ \/ stage[c] = "fetching" /\ stage'[c] = "answered"
                                 \/ /\ stage[c] = "answered"
                                    /\ stage'[c] \in {"accepted", "rejected"}
           /\ FetchOfKeysFails(c) => /\ pc[c] = "serving" /\ pc'[c] = "serving"
                                     /\ stage[c] \in {"fetching", "answered"}
                                     /\ stage'[c] = "failed"
           /\ Respond(c) => /\ pc[c] = "serving" /\ pc'[c] = "replied"
                            /\ stage[c] \in {"accepted", "rejected", "failed"}
                            /\ stage'[c] = "idle"
                            /\ reply'[c] # "error"
  <1> USE DEF PageInv, CallsTypeOK, KeysInv, KeysTypeOK, Calls, ServingStage
  <1>0. \A t, k : Decoded(t, k) \in {"accepted", "rejected"}
    BY DEF Decoded
  <1>1. Arrive(c) => /\ stage'[c] \in {"accepted", "rejected", "fetching"}
                     /\ pc[c] = "send" /\ pc'[c] = "serving"
    BY <1>0 DEF Arrive, Begin
  <1>2. FetchKeys(c) => /\ pc[c] = "serving" /\ pc'[c] = "serving"
                        /\ \/ stage[c] = "fetching" /\ stage'[c] = "answered"
                           \/ /\ stage[c] = "answered"
                              /\ stage'[c] \in {"accepted", "rejected"}
    BY <1>0 DEF FetchKeys, JwksAnswers, Resume, callVars
  <1>3. FetchOfKeysFails(c) => /\ pc[c] = "serving" /\ pc'[c] = "serving"
                               /\ stage[c] \in {"fetching", "answered"}
                               /\ stage'[c] = "failed"
    BY DEF FetchOfKeysFails, JwksFails, Fetching, callVars
  <1>4. Respond(c) => /\ pc[c] = "serving" /\ pc'[c] = "replied"
                      /\ stage[c] \in {"accepted", "rejected", "failed"}
                      /\ stage'[c] = "idle"
                      /\ reply'[c] # "error"
    BY DEF Respond, Done, RowReply
  <1> QED BY <1>1, <1>2, <1>3, <1>4

\* Every step keeps the two together.
LEMMA ServingStep == PageInv /\ ServingStage /\ [Next]_vars => ServingStage'
  <1> SUFFICES ASSUME PageInv, ServingStage, [Next]_vars PROVE ServingStage'
    OBVIOUS
  <1>1. CASE UNCHANGED <<callVars, stage>>
    BY <1>1 DEF callVars, ServingStage
  <1>2. ASSUME NEW c \in Calls, StepOf(c) PROVE ServingStage'
    <2>1. pc'[c] = "serving" <=> stage'[c] # "idle"
      <3>1. CASE \/ Initialize(c) \/ Refresh(c) \/ TickExpired(c) \/ Wake(c) \/ Lose(c)
                 \/ Inject(c) \/ GiveUp(c) \/ Retry(c)
        <4>1. UNCHANGED stage
          BY <3>1 DEF Initialize, Refresh, TickExpired, Wake, Lose, Inject, GiveUp, Retry,
                      keysVars, verifyVars
        <4>2. pc[c] # "serving"
          BY <3>1 DEF Initialize, Refresh, TickExpired, Wake, Lose, Inject, GiveUp, Retry
        <4>3. \E p \in {"idle", "asleep", "send", "replied"} : pc' = [pc EXCEPT ![c] = p]
          BY <3>1 DEF Initialize, Refresh, TickExpired, Wake, Lose, Inject, GiveUp, Retry,
                      GoOn, Fetch, Return
        <4> QED BY <4>1, <4>2, <4>3 DEF ServingStage, PageInv, CallsTypeOK
      <3>2. CASE Arrive(c) \/ FetchKeys(c) \/ FetchOfKeysFails(c) \/ Respond(c)
        BY <3>2, StagesOfCall
      <3> QED BY <1>2, <3>1, <3>2 DEF StepOf
    <2>2. ASSUME NEW d \in Calls, d # c PROVE pc'[d] = "serving" <=> stage'[d] # "idle"
      BY <1>2, <2>2, OtherCallsStay DEF CallStays, ServingStage
    <2> QED BY <2>1, <2>2 DEF ServingStage
  <1> QED BY <1>1, <1>2, StepsOfCalls

\* At rest a call has no steps left, and in an attempt at most seven times the attempts
\* that follow and what is left of this one.
LEMMA LeftOfAttempt ==
    ASSUME PageInv, NEW c \in Calls
    PROVE  /\ pc[c] = "idle" => StepsLeft(c) = 0
           /\ pc[c] = "asleep" => StepsLeft(c) = 7 * MaxAttempts
           /\ pc[c] \in {"send", "serving", "replied"} =>
                /\ StepsLeft(c) = 7 * (MaxAttempts - try[c]) + AttemptLeft(c)
                /\ AttemptLeft(c) \in 1..6
           /\ try[c] \in 1..MaxAttempts
  BY DEF PageInv, CallsTypeOK, StepsLeft, AttemptLeft

\* Every step of a call that runs brings it nearer to its return.
LEMMA CallerAdvances ==
    ASSUME PageInv, PageInv', ServingStage, NEW c \in Calls, StepOf(c), pc[c] # "idle"
    PROVE  StepsLeft(c)' < StepsLeft(c)
  <1> USE DEF PageInv, CallsTypeOK
  <1>a. /\ pc'[c] = "idle" => StepsLeft(c)' = 0
        /\ pc'[c] = "asleep" => StepsLeft(c)' = 7 * MaxAttempts
        /\ pc'[c] \in {"send", "serving", "replied"} =>
             /\ StepsLeft(c)' = 7 * (MaxAttempts - try'[c]) + AttemptLeft(c)'
             /\ AttemptLeft(c)' \in 1..6
        /\ try'[c] \in 1..MaxAttempts
    BY DEF StepsLeft, AttemptLeft
  <1>0. pc[c] \in {"asleep", "send", "serving", "replied"}
    OBVIOUS
  <1>1. CASE Wake(c)
    <2>1. pc[c] = "asleep" /\ pc'[c] \in {"idle", "send"}
      BY <1>1 DEF Wake, Fetch, Return
    <2> QED BY <2>1, <1>a, LeftOfAttempt
  <1>2. CASE Inject(c) \/ GiveUp(c)
    <2>1. pc[c] = "replied" /\ pc'[c] = "idle"
      BY <1>2 DEF Inject, GiveUp, GoOn, Return
    <2> QED BY <2>1, <1>a, LeftOfAttempt
  <1>3. CASE Retry(c)
    <2>1. pc[c] = "replied" /\ pc'[c] = "send" /\ try'[c] = try[c] + 1
      BY <1>3 DEF Retry, NextTry
    <2> QED BY <2>1, <1>a, LeftOfAttempt
  <1>4. CASE Arrive(c) \/ FetchKeys(c) \/ FetchOfKeysFails(c) \/ Respond(c)
    <2>1. UNCHANGED try
      BY <1>4 DEF Arrive, FetchKeys, FetchOfKeysFails, Respond, callVars
    <2>2. /\ pc[c] \in {"send", "serving"}
          /\ pc'[c] \in {"serving", "replied"}
          /\ AttemptLeft(c)' < AttemptLeft(c)
      BY <1>4, StagesOfCall DEF AttemptLeft
    <2> QED BY <2>1, <2>2, <1>a, LeftOfAttempt
  <1>5. CASE Lose(c)
    <2>1. /\ UNCHANGED try
          /\ pc[c] \in {"send", "replied"} /\ pc'[c] = "replied"
          /\ pc[c] = "replied" => reply[c] # "error"
          /\ reply'[c] = "error"
      BY <1>5 DEF Lose
    <2>2. AttemptLeft(c)' = 1 /\ AttemptLeft(c) \in {2, 6}
      BY <2>1 DEF AttemptLeft
    <2> QED BY <2>1, <2>2, <1>a, LeftOfAttempt
  <1>6. ~(Initialize(c) \/ Refresh(c) \/ TickExpired(c))
    BY DEF Initialize, Refresh, TickExpired
  <1> QED BY <1>1, <1>2, <1>3, <1>4, <1>5, <1>6 DEF StepOf

\* What CallsAdvance says of one step.
AdvanceStep ==
    \A c \in Calls : pc[c] # "idle" =>
        \/ StepsLeft(c)' < StepsLeft(c)
        \/ UNCHANGED <<kind[c], pc[c], token[c], try[c], reply[c], stage[c]>>

\* Every step lets the calls advance.
LEMMA StepAdvancesCalls ==
    ASSUME PageInv, PageInv', ServingStage, [Next]_vars PROVE AdvanceStep
  <1> SUFFICES ASSUME NEW c \in Calls, pc[c] # "idle"
               PROVE  StepsLeft(c)' < StepsLeft(c) \/ CallStays(c)
    BY DEF AdvanceStep, CallStays
  <1>1. CASE UNCHANGED <<callVars, stage>>
    BY <1>1 DEF callVars, CallStays
  <1>2. ASSUME NEW d \in Calls, StepOf(d)
        PROVE  StepsLeft(c)' < StepsLeft(c) \/ CallStays(c)
    BY <1>2, CallerAdvances, OtherCallsStay
  <1> QED BY <1>1, <1>2, StepsOfCalls

\* With any number of attempts, of calls and of losses, a call of the page goes forward
\* only, and so cannot go on for ever (clerk-integration.js:148).
THEOREM PageCallsAdvance == Spec => CallsAdvance
  <1>1. Init => ServingStage
    BY DEF Init, KeysInit, ServingStage, Calls
  <1>2. Spec => [][AdvanceStep]_vars
    BY <1>1, InitPage, NextPage, ServingStep, StepAdvancesCalls, PTL DEF Spec
  <1> QED BY <1>2 DEF CallsAdvance, AdvanceStep
=============================================================================
