---------------------------- MODULE ChatCompletions ----------------------------
(***************************************************************************)
(* POST /v1/chat/completions of the adapter (adapter/app/main.py).  The    *)
(* message is first enriched by a tool of the MCP gateway                  *)
(* (_try_mcp_tool_enhancement, mcp_client.py), then sent to the agent      *)
(* (ContextStore); or the conversation goes to a cloud provider            *)
(* (Completions), without the result of the tool.                          *)
(*                                                                         *)
(* Requests to the gateway may time out, before or after the tool has run, *)
(* as often as they like.                                                  *)
(***************************************************************************)
EXTENDS ContextStore, Completions

CONSTANTS McpEnabled,  \* MCPClient.enabled: get_mcp_client() never sets it, whatever
                       \* settings.mcp_enabled says; a client of one's own may have it
          MaxRetries,  \* its max_retries
          MaxRuns      \* bound: how often a run of a tool is counted

ASSUME ChatCompletionsAssumption ==
    /\ McpEnabled \in BOOLEAN
    /\ MaxRetries \in Nat \ {0}
    /\ MaxRuns \in Nat

VARIABLES
    provider, \* settings.llm_provider
    attempt,  \* of list_tools
    runs      \* how often the gateway has run a tool for a call of call_tool

mcpVars == <<attempt, runs>>
vars == <<storeAll, mcpVars, provider>>

Enhancing == {"list", "pause", "call", "ran"}

TypeOK ==
    /\ provider \in Providers
    /\ StoreTypeOK(Enhancing \cup {"complete"})
    /\ attempt \in [Sends -> 0..MaxRetries - 1]
    /\ runs \in [Sends -> 0..MaxRuns]

Init ==
    /\ StoreInit
    /\ provider \in Providers
    /\ attempt = [s \in Sends |-> 0]
    /\ runs = [s \in Sends |-> 0]

\* Where a request goes with its message as it then is.
Onwards == IF provider = "agent-zero" THEN "get" ELSE "complete"

\* chat_completions: a message for which no tool is needed is sent as it is.  (A
\* request that is not Answerable ends at once with 400.)
Receive(s, u, r) ==
    /\ \/ Begin(s, u, r, Onwards)
       \/ McpEnabled /\ Begin(s, u, r, "list")
    /\ UNCHANGED <<mcpVars, provider>>

\* The next stage of a request in the enhancement.
Step(s, from, to) ==
    /\ pc[s] = from
    /\ Goto(s, to)
    /\ UNCHANGED <<storeVars, unused, user, replica, context, alone, answered, faults>>

\* list_tools returns tools, one of which is selected, or none that fits; a status
\* or a connection error gives none.
ToolsListed(s) ==
    /\ Step(s, "list", "call") \/ Step(s, "list", Onwards)
    /\ attempt' = [attempt EXCEPT ![s] = 0]
    /\ UNCHANGED <<runs, provider>>

\* The attempt of s is the last one.
Last(s) == attempt[s] = MaxRetries - 1

\* Mutant of NextAttempt: time-outs are not counted.
NextAttemptUncounted(n) == n

NextAttempt(n) == n + 1

\* A request for the tools times out; it is repeated after a pause.
ListTimesOut(s) ==
    /\ \/ /\ ~Last(s)
          /\ Step(s, "list", "pause")
          /\ attempt' = [attempt EXCEPT ![s] = NextAttempt(@)]
       \/ /\ Last(s)
          /\ Step(s, "list", Onwards)
          /\ attempt' = [attempt EXCEPT ![s] = 0]
    /\ UNCHANGED <<runs, provider>>

ListAgain(s) == Step(s, "pause", "list") /\ UNCHANGED <<mcpVars, provider>>

\* The gateway runs the tool.
RunTool(s) ==
    /\ Step(s, "call", "ran")
    /\ runs' = [runs EXCEPT ![s] = IF @ < MaxRuns THEN @ + 1 ELSE @]
    /\ UNCHANGED <<attempt, provider>>

\* Its result is added to the message.
ToolAnswers(s) ==
    /\ Step(s, "ran", Onwards)
    /\ runs' = [runs EXCEPT ![s] = 0]
    /\ UNCHANGED <<attempt, provider>>

\* Mutant of CallFails: the call is made again.
CallFailsAgain(s) == Step(s, "ran", "call") /\ UNCHANGED <<mcpVars, provider>>

\* No answer from the gateway, whether the tool has run or not, or an error: the
\* message is sent as it is.
CallFails(s) ==
    /\ Step(s, "call", Onwards) \/ Step(s, "ran", Onwards)
    /\ runs' = [runs EXCEPT ![s] = 0]
    /\ UNCHANGED <<attempt, provider>>

\* _try_mcp_tool_enhancement
Enhance(s) == \/ ToolsListed(s) \/ ListTimesOut(s) \/ ListAgain(s)
              \/ RunTool(s) \/ ToolAnswers(s) \/ CallFails(s)

\* A cloud provider answers the request it is sent.
CompletionAnswers(s) ==
    /\ pc[s] = "complete"
    /\ provider \in Cloud
    /\ Leave(s)
    /\ UNCHANGED <<storeVars, unused, answered, faults, mcpVars, provider>>

\* ... or the call raises: 502.
CompletionFails(s) ==
    /\ pc[s] = "complete"
    /\ provider \in Cloud
    /\ Fault
    /\ Leave(s)
    /\ UNCHANGED <<storeVars, unused, answered, mcpVars, provider>>

\* create_provider raises, outside of the try: 500.
NoSuchProvider(s) ==
    /\ pc[s] = "complete"
    /\ provider = "unsupported"
    /\ Leave(s)
    /\ UNCHANGED <<storeVars, unused, answered, faults, mcpVars, provider>>

Complete(s) == CompletionAnswers(s) \/ CompletionFails(s) \/ NoSuchProvider(s)

RestartReplica(r) ==
    /\ Restart(r)
    /\ attempt' = [s \in Sends |-> IF replica[s] = r THEN 0 ELSE attempt[s]]
    /\ runs' = [s \in Sends |-> IF replica[s] = r THEN 0 ELSE runs[s]]
    /\ UNCHANGED provider

Next == \/ \E s \in Sends : \/ \E u \in Users, r \in Replicas : Receive(s, u, r)
                            \/ Enhance(s) \/ Complete(s)
                            \/ Send(s) /\ UNCHANGED <<mcpVars, provider>>
        \/ \E u \in Users : Expire(u) /\ UNCHANGED <<mcpVars, provider>>
        \/ \E r \in Replicas : RestartReplica(r)

Spec == Init /\ [][Next]_vars

\* Every await ends: an answer, an error, a time-out or the end of a pause.
Fairness == \A s \in Sends : /\ WF_vars(Enhance(s) \/ Complete(s))
                              /\ WF_vars(Send(s) /\ UNCHANGED <<mcpVars, provider>>)

FairSpec == Spec /\ Fairness

-----------------------------------------------------------------------------
(* Properties *)

\* A request makes the gateway run a tool once at most, also when the answer is late
\* or lost: only the list of tools is asked for again (mcp_client.py:140, 199).
ToolsRunOnce == \A s \in Sends : runs[s] <= 1

\* Whichever provider is configured, a temperature that is asked for is respected
\* (temperature_detector.py:194).  Without one, every conversation gets one that suits the
\* provider (154), and no task gets a lower one than a task that is to have less.
RecommendationsFit == Recommends[provider]

\* How far the cloud providers are interchangeable: whichever is configured, it is sent the
\* temperature, the limit, and the conversation - every message of it, unless it is Anthropic,
\* which is sent every turn of user and assistant and the last system message if that is not
\* empty.  The messages of tools and earlier system messages are dropped for Anthropic alone
\* (llm_provider.py:273-280), which is not the "seamless swapping" of llm_provider.py:10.
ProvidersConvey == provider \in Cloud => Conveys[provider]

\* The steps that are left of the request of s, at most.
StepsLeft(s) ==
    CASE pc[s] = "pause"    -> 12 + 2 * (MaxRetries - attempt[s])
      [] pc[s] = "list"     -> 11 + 2 * (MaxRetries - attempt[s])
      [] pc[s] = "call"     -> 10
      [] pc[s] = "ran"      -> 9
      [] pc[s] = "get"      -> 8
      [] pc[s] = "get_ping" -> 7
      [] pc[s] = "query"    -> 6
      [] pc[s] = "post"     -> 5
      [] pc[s] = "set"      -> 4
      [] pc[s] = "set_ping" -> 3
      [] pc[s] = "setex"    -> 2
      [] pc[s] \in {"stored", "complete"} -> 1
      [] pc[s] = "idle"     -> 0

\* A request goes through its stages in one direction, the tools listed MaxRetries
\* times at most: no time-out, no failing ping and no step of another request sends it
\* back (mcp_client.py:138, context_store.py:41).
RequestsAdvance ==
    [][\A s \in Sends : pc[s] # "idle" =>
          \/ StepsLeft(s)' < StepsLeft(s)
          \/ UNCHANGED <<pc[s], attempt[s], runs[s], user[s], replica[s], context[s]>>]_vars

\* Every request ends, however often the gateway, Redis or the agent time out or fail,
\* and however its awaits interleave with another request's ping of Redis
\* (mcp_client.py:158, context_store.py:41).
RequestsEnd == \A s \in Sends : pc[s] # "idle" ~> pc[s] = "idle"
=============================================================================
