------------------------------ MODULE ContextStore ------------------------------
(***************************************************************************)
(* The conversations of the adapter: AgentClient.send_message              *)
(* (adapter/app/agent_client.py) and the ContextStore behind it            *)
(* (context_store.py), on several replicas with one Redis.                 *)
(*                                                                         *)
(* A send looks up the id of its user's context, posts the message with it *)
(* to the agent, and stores the id that the agent returns.  A replica asks *)
(* Redis, or its own memory when Redis has failed; a ping that fails makes *)
(* it keep to its memory until it is restarted.  Sends run interleaved at  *)
(* their awaits.  Contexts end in the agent, entries expire in Redis,      *)
(* commands fail with or without effect, and replicas are restarted.       *)
(***************************************************************************)
EXTENDS Integers, FiniteSets

CONSTANTS Users, Replicas,
          Sends,         \* calls of send_message
          Contexts,      \* ids of the agent's contexts
          NoContext, NoUser, NoReplica,
          MaxFaults      \* bound: failing requests to Redis and to the agent, and restarts

ASSUME ContextStoreAssumption ==
    /\ NoContext \notin Contexts
    /\ NoUser \notin Users
    /\ NoReplica \notin Replicas
    /\ MaxFaults \in Nat

VARIABLES
    redis,       \* the context ids in Redis
    memory,      \* _memory of each replica
    connection,  \* _redis_client and _redis_available of each replica
    unused,      \* ids the agent has not given out
    user,        \* the user of a send
    replica,     \* where it runs
    pc,
    context,     \* its context_id, then returned_context_id
    alone,       \* no send of the same user has run since it began
    answered,    \* the last answer of each user: its context, and where that is stored
    faults

storeVars == <<redis, memory, connection>>
sendVars  == <<user, replica, pc, context, alone>>
storeAll  == <<storeVars, unused, sendVars, answered, faults>>

\* Stages of a send that the store and the agent handle.
Storing == {"set", "set_ping", "setex", "stored"}
Sending == {"get", "get_ping", "query", "post"} \cup Storing

Memory == Contexts \cup {NoContext}
Claims == [context : Memory, shared : BOOLEAN, replica : Replicas \cup {NoReplica}]
NoClaim == [context |-> NoContext, shared |-> FALSE, replica |-> NoReplica]

\* Stages: those of a caller before and after it sends.
StoreTypeOK(Stages) ==
    /\ redis \in [Users -> Memory]
    /\ memory \in [Replicas -> [Users -> Memory]]
    /\ connection \in [Replicas -> {"untried", "pinging", "up", "down"}]
    /\ unused \subseteq Contexts
    /\ user \in [Sends -> Users \cup {NoUser}]
    /\ replica \in [Sends -> Replicas \cup {NoReplica}]
    /\ pc \in [Sends -> {"idle"} \cup Stages \cup Sending]
    /\ \A s \in Sends : pc[s] # "idle" <=> user[s] # NoUser
    /\ \A s \in Sends : pc[s] # "idle" <=> replica[s] # NoReplica
    /\ context \in [Sends -> Memory]
    /\ \A s \in Sends : pc[s] \in Storing => context[s] # NoContext
    /\ alone \in [Sends -> BOOLEAN]
    /\ answered \in [Users -> Claims]
    /\ faults \in 0..MaxFaults

StoreInit ==
    /\ redis = [u \in Users |-> NoContext]
    /\ memory = [r \in Replicas |-> [u \in Users |-> NoContext]]
    /\ connection = [r \in Replicas |-> "untried"]
    /\ unused = Contexts
    /\ user = [s \in Sends |-> NoUser]
    /\ replica = [s \in Sends |-> NoReplica]
    /\ pc = [s \in Sends |-> "idle"]
    /\ context = [s \in Sends |-> NoContext]
    /\ alone = [s \in Sends |-> FALSE]
    /\ answered = [u \in Users |-> NoClaim]
    /\ faults = 0

Fault == faults < MaxFaults /\ faults' = faults + 1

\* A call for user u arrives at replica r; the first thing it does is stage.
Begin(s, u, r, stage) ==
    /\ pc[s] = "idle"
    /\ pc' = [pc EXCEPT ![s] = stage]
    /\ user' = [user EXCEPT ![s] = u]
    /\ replica' = [replica EXCEPT ![s] = r]
    /\ alone' = [x \in Sends |-> IF x = s THEN \A y \in Sends : user[y] # u
                                         ELSE alone[x] /\ user[x] # u]
    /\ UNCHANGED <<storeVars, unused, context, answered, faults>>

Goto(s, stage) == pc' = [pc EXCEPT ![s] = stage]

\* The call of s returns or raises.
Leave(s) ==
    /\ Goto(s, "idle")
    /\ user' = [user EXCEPT ![s] = NoUser]
    /\ replica' = [replica EXCEPT ![s] = NoReplica]
    /\ context' = [context EXCEPT ![s] = NoContext]
    /\ alone' = [alone EXCEPT ![s] = FALSE]

-----------------------------------------------------------------------------
(* ContextStore *)

\* _get_redis finds no client, makes one, and pings.
Ping(s) ==
    /\ \/ pc[s] = "get" /\ Goto(s, "get_ping")
       \/ pc[s] = "set" /\ Goto(s, "set_ping")
    /\ connection[replica[s]] = "untried"
    /\ connection' = [connection EXCEPT ![replica[s]] = "pinging"]
    /\ UNCHANGED <<redis, memory, unused, user, replica, context, alone, answered, faults>>

\* It returns the client, which another call may be pinging, or has just pinged.
UseRedis(s) ==
    /\ \/ pc[s] = "get" /\ connection[replica[s]] \in {"pinging", "up"} /\ Goto(s, "query")
       \/ pc[s] = "set" /\ connection[replica[s]] \in {"pinging", "up"} /\ Goto(s, "setex")
       \/ pc[s] = "get_ping" /\ Goto(s, "query")
       \/ pc[s] = "set_ping" /\ Goto(s, "setex")
    /\ connection' = [connection EXCEPT ![replica[s]] =
                          IF pc[s] \in {"get_ping", "set_ping"} THEN "up" ELSE @]
    /\ UNCHANGED <<redis, memory, unused, user, replica, context, alone, answered, faults>>

\* Mutant of Stored: a replica looks into its memory first.
StoredNearby(s) ==
    LET m == memory[replica[s]][user[s]] IN IF m # NoContext THEN m ELSE redis[user[s]]

\* What Redis has for the user of s.
Stored(s) == redis[user[s]]

\* Redis answers a get.
QueryAnswered(s) ==
    /\ pc[s] = "query"
    /\ context' = [context EXCEPT ![s] = Stored(s)]
    /\ Goto(s, "post")
    /\ UNCHANGED <<storeVars, unused, user, replica, alone, answered, faults>>

\* get falls back to the memory: Redis is down, or the ping or the command fails.
Recall(s) ==
    /\ \/ pc[s] = "get" /\ connection[replica[s]] = "down" /\ UNCHANGED <<connection, faults>>
       \/ /\ pc[s] = "get_ping"
          /\ Fault
          /\ connection' = [connection EXCEPT ![replica[s]] = "down"]
       \/ pc[s] = "query" /\ Fault /\ UNCHANGED connection
    /\ context' = [context EXCEPT ![s] = memory[replica[s]][user[s]]]
    /\ Goto(s, "post")
    /\ UNCHANGED <<redis, memory, unused, user, replica, alone, answered>>

\* Redis carries out a setex.
Setex(s) ==
    /\ pc[s] = "setex"
    /\ redis' = [redis EXCEPT ![user[s]] = context[s]]
    /\ Goto(s, "stored")
    /\ UNCHANGED <<memory, connection, unused, user, replica, context, alone, answered, faults>>

\* The memories when s has stored its context, in Redis too or not.
Remembered(s, shared) == [memory EXCEPT ![replica[s]][user[s]] = context[s]]

\* The end of set, and of send_message: the user has its answer.
FinishSet(s, shared) ==
    /\ memory' = Remembered(s, shared)
    /\ answered' = [answered EXCEPT ![user[s]] =
                        IF alone[s] THEN [context |-> context[s],
                                          shared  |-> shared /\ redis[user[s]] # NoContext,
                                          replica |-> replica[s]]
                                    ELSE NoClaim]
    /\ Leave(s)

StoreInRedis(s) ==
    /\ pc[s] = "stored"
    /\ FinishSet(s, TRUE)
    /\ UNCHANGED <<redis, connection, unused, faults>>

\* set falls back to the memory, whether or not Redis has the context.
StoreInMemory(s) ==
    /\ \/ pc[s] = "set" /\ connection[replica[s]] = "down" /\ UNCHANGED <<connection, faults>>
       \/ /\ pc[s] = "set_ping"
          /\ Fault
          /\ connection' = [connection EXCEPT ![replica[s]] = "down"]
       \/ pc[s] \in {"setex", "stored"} /\ Fault /\ UNCHANGED connection
    /\ FinishSet(s, FALSE)
    /\ UNCHANGED <<redis, unused>>

\* The entry of u expires in Redis.
Expire(u) ==
    /\ redis[u] # NoContext
    /\ redis' = [redis EXCEPT ![u] = NoContext]
    /\ answered' = [answered EXCEPT ![u].shared = FALSE]
    /\ UNCHANGED <<memory, connection, unused, sendVars, faults>>

-----------------------------------------------------------------------------
(* The agent, and the replicas' restarts *)

\* The agent answers in the context of the message, or in a new one where it has none
\* or its lifetime is over.
AgentAnswers(s) ==
    /\ pc[s] = "post"
    /\ \E c \in unused \cup ({context[s]} \ {NoContext}) :
         /\ context' = [context EXCEPT ![s] = c]
         /\ unused' = unused \ {c}
    /\ Goto(s, "set")
    /\ UNCHANGED <<storeVars, user, replica, alone, answered, faults>>

\* ... or without an id, and nothing is stored.
AnswersWithout(s) ==
    /\ pc[s] = "post"
    /\ Leave(s)
    /\ UNCHANGED <<storeVars, unused, answered, faults>>

\* ... or it fails: 502.
AgentFails(s) ==
    /\ pc[s] = "post"
    /\ Fault
    /\ Leave(s)
    /\ UNCHANGED <<storeVars, unused, answered>>

\* A replica is restarted: its memory, its client and its calls are gone.
Restart(r) ==
    /\ Fault
    /\ LET Lost == {s \in Sends : replica[s] = r}
       IN /\ pc' = [s \in Sends |-> IF s \in Lost THEN "idle" ELSE pc[s]]
          /\ user' = [s \in Sends |-> IF s \in Lost THEN NoUser ELSE user[s]]
          /\ context' = [s \in Sends |-> IF s \in Lost THEN NoContext ELSE context[s]]
          /\ replica' = [s \in Sends |-> IF s \in Lost THEN NoReplica ELSE replica[s]]
          /\ alone' = [s \in Sends |-> s \notin Lost /\ alone[s]]
          /\ answered' = [u \in Users |->
                 IF \E s \in Lost : user[s] = u /\ pc[s] \in Storing THEN NoClaim
                 ELSE [answered[u] EXCEPT !.replica = IF @ = r THEN NoReplica ELSE @]]
    /\ connection' = [connection EXCEPT ![r] = "untried"]
    /\ memory' = [memory EXCEPT ![r] = [u \in Users |-> NoContext]]
    /\ UNCHANGED <<redis, unused>>

Send(s) == \/ Ping(s) \/ UseRedis(s) \/ QueryAnswered(s) \/ Recall(s)
           \/ Setex(s) \/ StoreInRedis(s) \/ StoreInMemory(s)
           \/ AgentAnswers(s) \/ AnswersWithout(s) \/ AgentFails(s)

World == \/ \E u \in Users : Expire(u)
         \/ \E r \in Replicas : Restart(r)

StoreNext == \/ \E s \in Sends, u \in Users, r \in Replicas : Begin(s, u, r, "get")
             \/ \E s \in Sends : Send(s)
             \/ World

StoreSpec == StoreInit /\ [][StoreNext]_storeAll

-----------------------------------------------------------------------------
(* Properties *)

\* A user who has got an answer goes on with the same context, unless sends overlap:
\* on any replica, also after restarts, where both the answer was stored in and the
\* context is read from Redis; and on the same replica where it is read from its
\* memory, whatever became of Redis in between (context_store.py:3-11, 96-110).
ConversationContinues ==
    [][\A s \in Sends :
         alone[s] /\ answered[user[s]].context # NoContext =>
             LET last == answered[user[s]]
             IN /\ QueryAnswered(s) /\ last.shared       => context'[s] = last.context
                /\ Recall(s) /\ last.replica = replica[s] => context'[s] = last.context]_storeAll
=============================================================================
