------------------------------ MODULE Completions ------------------------------
(***************************************************************************)
(* What a chat request turns into (adapter/app/main.py): the message that  *)
(* counts, the temperature that temperature_detector.py recommends, and    *)
(* what each provider of llm_provider.py is sent.                          *)
(*                                                                         *)
(* Texts are left out.  A conversation has the roles of its messages, and  *)
(* whether they are empty; a message in it is named by its place.  What    *)
(* the patterns of the detector find in a text is an input.  Temperatures  *)
(* are in tenths.                                                          *)
(***************************************************************************)
EXTENDS Integers

CONSTANTS MaxMessages,   \* bound: the length of conversations
          Temperatures,  \* those that are asked for
          Limits         \* max_tokens, 0 without

ASSUME CompletionsAssumption ==
    /\ MaxMessages \in Nat
    /\ Temperatures \subseteq Nat
    /\ Limits \subseteq Nat

Cloud == {"openai", "featherless", "deepseek", "anthropic"}

\* What settings.llm_provider may say.
Providers == Cloud \cup {"agent-zero", "unsupported"}

-----------------------------------------------------------------------------
(* The conversation *)

Roles == {"system", "user", "assistant", "tool"}
Messages == [role : Roles, empty : BOOLEAN]
ConversationsOf(n) == [1..n -> Messages]
Conversations == UNION {ConversationsOf(n) : n \in 0..MaxMessages}

Of(c, roles) == {i \in DOMAIN c : c[i].role \in roles}

\* The last of some places.
LastOf(I) == CHOOSE i \in I : \A j \in I : j <= i

\* user_message
LastUser(c) == LastOf(Of(c, {"user"}))

\* chat_completions goes on; otherwise: 400.
Answerable(c) == Of(c, {"user"}) # {} /\ ~c[LastUser(c)].empty

-----------------------------------------------------------------------------
(* The temperature *)

TaskTypes == {"coding", "math", "data_analysis", "translation", "creative_writing",
              "general_conversation", "question_answering", "summarization"}

\* TASK_PATTERNS: the tasks that have patterns, as they are tried.
TaskOrder == [coding |-> 1, math |-> 2, data_analysis |-> 3, translation |-> 4,
              creative_writing |-> 5, summarization |-> 6]

Detectable == DOMAIN TaskOrder

\* The task of a text in which the patterns of the tasks in found match.
detect_task_type(found) ==
    IF found = {} THEN "general_conversation"
    ELSE CHOOSE t \in found : \A u \in found : TaskOrder[t] <= TaskOrder[u]

TEMPERATURE_MAP ==
    [coding |-> 0, math |-> 0, data_analysis |-> 10, translation |-> 13,
     creative_writing |-> 15, general_conversation |-> 13, question_answering |-> 10,
     summarization |-> 7]

AtLeast(low, t) == IF t < low THEN low ELSE t
AtMost(high, t) == IF t > high THEN high ELSE t

\* Mutant of get_optimal_temperature: Claude's limit is forgotten.
UncappedTemperature(task, p) ==
    LET t == TEMPERATURE_MAP[task]
    IN CASE p = "openai"      -> AtLeast(0, t - 2)
         [] p = "featherless" -> AtLeast(5, AtMost(12, t))
         [] OTHER             -> t

get_optimal_temperature(task, p) ==
    LET t == TEMPERATURE_MAP[task]
    IN CASE p = "openai"      -> AtLeast(0, t - 2)
         [] p = "anthropic"   -> AtMost(10, t)
         [] p = "featherless" -> AtLeast(5, AtMost(12, t))
         [] OTHER             -> t

\* No temperature has been asked for (the code takes a negative one for none, too).
Unset == -1

\* found: what the patterns find in the system messages and the last user's together.
detect_and_apply_temperature(c, current, p, found) ==
    IF current >= 0 THEN current
    ELSE IF Of(c, {"user"}) = {} THEN 10
    ELSE get_optimal_temperature(detect_task_type(found), p)

-----------------------------------------------------------------------------
(* The requests of the providers: the places of the messages in them, of the *)
(* system prompt apart from them, temperature and max_tokens *)

NoPlace == 0
NoLimit == 0  \* None; max_tokens 0 is taken for it

OpenAI(c, t, n)      == [messages |-> DOMAIN c, system |-> NoPlace, temperature |-> t, limit |-> n]
Featherless(c, t, n) == [messages |-> DOMAIN c, system |-> NoPlace, temperature |-> t, limit |-> n]
DeepSeek(c, t, n)    == [messages |-> DOMAIN c, system |-> NoPlace, temperature |-> t, limit |-> n]

\* The last of the system messages is the prompt, unless it is empty.
SystemPrompt(c) ==
    LET S == Of(c, {"system"})
    IN IF S = {} \/ c[LastOf(S)].empty THEN NoPlace ELSE LastOf(S)

\* Mutant of Anthropic: only the user's messages are translated.
AnthropicUser(c, t, n) ==
    [messages |-> Of(c, {"user"}), system |-> SystemPrompt(c),
     temperature |-> t, limit |-> IF n = NoLimit THEN 4096 ELSE n]

Anthropic(c, t, n) ==
    [messages |-> Of(c, {"user", "assistant"}), system |-> SystemPrompt(c),
     temperature |-> t, limit |-> IF n = NoLimit THEN 4096 ELSE n]

\* chat_completion of the provider that create_provider makes.
Request(p, c, t, n) ==
    CASE p = "openai"      -> OpenAI(c, t, n)
      [] p = "featherless" -> Featherless(c, t, n)
      [] p = "deepseek"    -> DeepSeek(c, t, n)
      [] p = "anthropic"   -> Anthropic(c, t, n)

-----------------------------------------------------------------------------
(* What chat_completions may expect of a provider *)

\* The temperatures that suit a provider: 0.0 to 1.5, as it adjusts them.
Suitable(p) == CASE p = "openai"      -> 0..13
                 [] p = "anthropic"   -> 0..10
                 [] p = "featherless" -> 5..12
                 [] OTHER             -> 0..15

\* Two tasks are in the same order of temperatures whatever the provider.
KeepsOrder(p) ==
    \A t, u \in TaskTypes : TEMPERATURE_MAP[t] <= TEMPERATURE_MAP[u] =>
        get_optimal_temperature(t, p) <= get_optimal_temperature(u, p)

\* p -> a temperature that is asked for is respected, and another one suits p, whatever
\* the patterns find in the conversation.
Recommends ==
    [p \in Providers |->
        /\ \A c \in Conversations, found \in SUBSET Detectable :
             /\ \A t \in Temperatures : detect_and_apply_temperature(c, t, p, found) = t
             /\ detect_and_apply_temperature(c, Unset, p, found) \in Suitable(p)
        /\ KeepsOrder(p)]

\* The places of the messages that a request conveys, as a message or as the prompt.
Sent(r) == r.messages \cup ({r.system} \ {NoPlace})

\* What a conversation loses with the provider: nothing, but with Anthropic the messages
\* of tools, every system message but the last, and that too if it is empty.
Dropped(p, c) ==
    LET S == Of(c, {"system"})
    IN IF p = "anthropic" THEN Of(c, {"tool"}) \cup {i \in S : i # LastOf(S) \/ c[i].empty}
                          ELSE {}

\* The request conveys exactly the rest of the conversation, the temperature, and the
\* limit if there is one.
Renders(r, p, c, t, n) ==
    /\ Sent(r) = DOMAIN c \ Dropped(p, c)
    /\ r.temperature = t
    /\ n # NoLimit => r.limit = n

\* p -> what chat_completions accepts is rendered, the last message of the user among the
\* messages.
Conveys ==
    [p \in Cloud |->
        \A c \in Conversations, t \in Temperatures, n \in Limits :
            Answerable(c) => LET r == Request(p, c, t, n)
                             IN Renders(r, p, c, t, n) /\ LastUser(c) \in r.messages]
=============================================================================
