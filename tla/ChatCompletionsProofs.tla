------------------------- MODULE ChatCompletionsProofs -------------------------
(***************************************************************************)
(* Proofs about ContextStore and ChatCompletions: for any number of users, *)
(* replicas, sends and failures, a conversation goes on in its context,    *)
(* and a tool runs once for a request.                                     *)
(***************************************************************************)
EXTENDS ChatCompletions, WellFoundedInduction, TLAPS

\* A send that is alone is the only one of its user.
Alone ==
    \A s \in Sends : alone[s] =>
        user[s] # NoUser /\ \A t \in Sends : user[t] = user[s] => t = s

\* While a send is alone, nobody overwrites what it has put into Redis.
StoredInRedis ==
    \A s \in Sends : alone[s] /\ pc[s] = "stored" => redis[user[s]] \in {context[s], NoContext}

\* An answer whose context is in Redis has it there until a send stores another one.
SharedClaims ==
    \A u \in Users :
        answered[u].shared /\ (\A s \in Sends : user[s] = u => pc[s] \notin Storing)
            => redis[u] = answered[u].context

\* ... and in the memory of its replica until that is restarted.
NearClaims ==
    \A u \in Users :
        answered[u].context # NoContext /\ answered[u].replica # NoReplica
            => memory[answered[u].replica][u] = answered[u].context

StoreInv(Stages) ==
    StoreTypeOK(Stages) /\ Alone /\ StoredInRedis /\ SharedClaims /\ NearClaims

USE ContextStoreAssumption

\* Nothing is stored and no send runs at the start.
LEMMA StoreInitInv == ASSUME NEW Stages, StoreInit PROVE StoreInv(Stages)
  <1>1. NoClaim \in Claims
    BY DEF NoClaim, Claims, Memory
  <1>2. StoreTypeOK(Stages)
    BY <1>1 DEF StoreInit, StoreTypeOK, Memory, Storing
  <1>3. Alone /\ StoredInRedis /\ SharedClaims /\ NearClaims
    BY DEF StoreInit, Alone, StoredInRedis, SharedClaims, NearClaims, NoClaim
  <1> QED BY <1>2, <1>3 DEF StoreInv

\* A send that begins ends the solitude of its user's other sends.
LEMMA BeginInv ==
    ASSUME NEW Stages, StoreInv(Stages), NEW s \in Sends, NEW u \in Users, NEW r \in Replicas,
           NEW stage \in Stages \cup {"get"}, stage # "idle", stage \notin Storing,
           Begin(s, u, r, stage)
    PROVE  StoreInv(Stages)'
  <1> USE DEF Begin, storeVars
  <1>0. /\ user[s] = NoUser /\ u # NoUser /\ pc[s] = "idle"
        /\ alone' \in [Sends -> BOOLEAN]
        /\ \A x \in Sends : alone'[x] <=> IF x = s THEN \A y \in Sends : user[y] # u
                                          ELSE alone[x] /\ user[x] # u
    BY DEF StoreInv, StoreTypeOK
  <1>1. StoreTypeOK(Stages)'
    BY <1>0 DEF StoreInv, StoreTypeOK, Storing, Sending
  <1>2. Alone'
    BY <1>0 DEF StoreInv, StoreTypeOK, Alone
  <1>3. StoredInRedis'
    BY <1>0 DEF StoreInv, StoreTypeOK, StoredInRedis, Storing
  <1>4. SharedClaims'
    BY <1>0 DEF StoreInv, StoreTypeOK, SharedClaims
  <1>5. NearClaims'
    BY DEF StoreInv, NearClaims
  <1> QED BY <1>1, <1>2, <1>3, <1>4, <1>5 DEF StoreInv

\* A step to another stage that stores nothing and asks nothing.
LEMMA GotoInv ==
    ASSUME NEW Stages, StoreInv(Stages), NEW s \in Sends,
           NEW from, NEW to, pc[s] = from, from # "idle", to # "idle", to # "stored",
           from \in Storing <=> to \in Storing,
           to \in Stages \cup Sending,
           Goto(s, to), UNCHANGED <<redis, memory, unused, user, replica, alone, answered>>,
           \/ context' = context
           \/ from \notin Storing /\ \E c \in Memory : context' = [context EXCEPT ![s] = c],
           connection' \in [Replicas -> {"untried", "pinging", "up", "down"}],
           faults' \in 0..MaxFaults
    PROVE  StoreInv(Stages)'
  <1> USE DEF Goto
  <1>1. StoreTypeOK(Stages)'
    BY DEF StoreInv, StoreTypeOK
  <1>2. Alone' /\ NearClaims'
    BY DEF StoreInv, Alone, NearClaims
  <1>3. StoredInRedis'
    BY DEF StoreInv, StoreTypeOK, StoredInRedis, Storing
  <1>4. SharedClaims'
    BY DEF StoreInv, StoreTypeOK, SharedClaims
  <1> QED BY <1>1, <1>2, <1>3, <1>4 DEF StoreInv

\* Redis carries out a setex: the context is that of every claim to come.
LEMMA SetexInv ==
    ASSUME NEW Stages, StoreInv(Stages), NEW s \in Sends, Setex(s)
    PROVE  StoreInv(Stages)'
  <1> USE DEF Setex, Goto
  <1>0. pc[s] = "setex" /\ user[s] \in Users /\ context[s] \in Contexts /\ context[s] \in Memory
    BY DEF StoreInv, StoreTypeOK, Storing, Memory
  <1>1. StoreTypeOK(Stages)'
    BY <1>0 DEF StoreInv, StoreTypeOK, Storing, Sending
  <1>2. Alone' /\ NearClaims'
    BY DEF StoreInv, Alone, NearClaims
  <1>3. StoredInRedis'
    BY <1>0 DEF StoreInv, StoreTypeOK, Alone, StoredInRedis
  <1>4. SharedClaims'
    BY <1>0 DEF StoreInv, StoreTypeOK, SharedClaims, Storing
  <1> QED BY <1>1, <1>2, <1>3, <1>4 DEF StoreInv

\* The agent answers: the send has a context to store.
LEMMA AgentAnswersInv ==
    ASSUME NEW Stages, StoreInv(Stages), NEW s \in Sends, AgentAnswers(s)
    PROVE  StoreInv(Stages)'
  <1> USE DEF AgentAnswers, Goto, storeVars
  <1>0. PICK c \in unused \cup ({context[s]} \ {NoContext}) :
          context' = [context EXCEPT ![s] = c] /\ unused' = unused \ {c}
    OBVIOUS
  <1>1. pc[s] = "post" /\ c \in Contexts /\ c \in Memory /\ c # NoContext
    BY DEF StoreInv, StoreTypeOK, Memory
  <1>2. StoreTypeOK(Stages)'
    BY <1>0, <1>1 DEF StoreInv, StoreTypeOK, Storing, Sending
  <1>3. Alone' /\ NearClaims'
    BY DEF StoreInv, Alone, NearClaims
  <1>4. StoredInRedis'
    BY <1>0, <1>1 DEF StoreInv, StoreTypeOK, StoredInRedis
  <1>5. SharedClaims'
    BY <1>1 DEF StoreInv, StoreTypeOK, SharedClaims, Storing
  <1> QED BY <1>2, <1>3, <1>4, <1>5 DEF StoreInv

\* A send that ends without having stored anything.
LEMMA LeaveInv ==
    ASSUME NEW Stages, StoreInv(Stages), NEW s \in Sends, pc[s] \notin Storing, Leave(s),
           UNCHANGED <<storeVars, unused, answered>>, faults' \in 0..MaxFaults
    PROVE  StoreInv(Stages)'
  <1> USE DEF Leave, Goto, storeVars
  <1>1. StoreTypeOK(Stages)'
    <2>1. NoContext \in Memory /\ "idle" \notin Storing
      BY DEF Memory, Storing
    <2> QED BY <2>1 DEF StoreInv, StoreTypeOK
  <1>2. Alone'
    BY DEF StoreInv, StoreTypeOK, Alone
  <1>3. StoredInRedis'
    BY DEF StoreInv, StoreTypeOK, StoredInRedis
  <1>4. SharedClaims'
    BY DEF StoreInv, StoreTypeOK, SharedClaims
  <1>5. NearClaims'
    BY DEF StoreInv, NearClaims
  <1> QED BY <1>1, <1>2, <1>3, <1>4, <1>5 DEF StoreInv

\* The end of a send that stores: what its user can rely on is what is stored.
LEMMA FinishSetInv ==
    ASSUME NEW Stages, StoreInv(Stages), NEW s \in Sends, NEW shared \in BOOLEAN,
           pc[s] \in Storing, shared => pc[s] = "stored", FinishSet(s, shared),
           UNCHANGED <<redis, unused>>,
           connection' \in [Replicas -> {"untried", "pinging", "up", "down"}],
           faults' \in 0..MaxFaults
    PROVE  StoreInv(Stages)'
  <1> DEFINE claim == IF alone[s]
                      THEN [context |-> context[s],
                            shared  |-> shared /\ redis[user[s]] # NoContext,
                            replica |-> replica[s]]
                      ELSE NoClaim
  <1>0. /\ user[s] \in Users /\ user[s] # NoUser
        /\ replica[s] \in Replicas /\ replica[s] # NoReplica
        /\ context[s] \in Memory /\ context[s] # NoContext
    BY DEF StoreInv, StoreTypeOK, Storing
  <1>1. /\ memory' = [memory EXCEPT ![replica[s]][user[s]] = context[s]]
        /\ answered' = [answered EXCEPT ![user[s]] = claim]
        /\ pc' = [pc EXCEPT ![s] = "idle"]
        /\ user' = [user EXCEPT ![s] = NoUser]
        /\ replica' = [replica EXCEPT ![s] = NoReplica]
        /\ context' = [context EXCEPT ![s] = NoContext]
        /\ alone' = [alone EXCEPT ![s] = FALSE]
    BY Zenon DEF FinishSet, Remembered, Leave, Goto
  <1>2. /\ claim \in Claims
        /\ claim.context # NoContext => alone[s] /\ claim.context = context[s]
                                         /\ claim.replica = replica[s]
        /\ claim.shared => alone[s] /\ claim.context = context[s] /\ shared
                            /\ redis[user[s]] # NoContext
    <2>1. CASE alone[s]
      BY <1>0, <2>1 DEF Claims
    <2>2. CASE ~alone[s]
      BY <2>2 DEF NoClaim, Claims, Memory
    <2> QED BY <2>1, <2>2
  <1> HIDE DEF claim
  <1>3. StoreTypeOK(Stages)'
    <2>1. NoContext \in Memory /\ "idle" \notin Storing
      BY DEF Memory, Storing
    <2>2. memory' \in [Replicas -> [Users -> Memory]] /\ answered' \in [Users -> Claims]
      BY <1>0, <1>1, <1>2 DEF StoreInv, StoreTypeOK
    <2> QED BY <1>1, <2>1, <2>2 DEF StoreInv, StoreTypeOK
  <1>4. Alone'
    BY <1>0, <1>1 DEF StoreInv, StoreTypeOK, Alone
  <1>5. StoredInRedis'
    BY <1>0, <1>1 DEF StoreInv, StoreTypeOK, StoredInRedis
  <1>6. SharedClaims'
    <2> SUFFICES ASSUME NEW u \in Users, answered'[u].shared,
                        \A t \in Sends : user'[t] = u => pc'[t] \notin Storing
                 PROVE  redis[u] = answered'[u].context
      BY DEF SharedClaims
    <2>1. CASE u = user[s]
      BY <1>0, <1>1, <1>2, <2>1 DEF StoreInv, StoreTypeOK, StoredInRedis
    <2>2. CASE u # user[s]
      <3>1. \A t \in Sends : user[t] = u => t # s /\ user'[t] = u /\ pc'[t] = pc[t]
        BY <1>1, <2>2 DEF StoreInv, StoreTypeOK
      <3> QED BY <1>1, <2>2, <3>1 DEF StoreInv, StoreTypeOK, SharedClaims
    <2> QED BY <2>1, <2>2
  <1>7. NearClaims'
    <2> SUFFICES ASSUME NEW u \in Users, answered'[u].context # NoContext,
                        answered'[u].replica # NoReplica
                 PROVE  memory'[answered'[u].replica][u] = answered'[u].context
      BY DEF NearClaims
    <2>1. CASE u = user[s]
      BY <1>0, <1>1, <1>2, <2>1 DEF StoreInv, StoreTypeOK
    <2>2. CASE u # user[s]
      BY <1>0, <1>1, <2>2 DEF StoreInv, StoreTypeOK, NearClaims, Claims
    <2> QED BY <2>1, <2>2
  <1> QED BY <1>3, <1>4, <1>5, <1>6, <1>7 DEF StoreInv

\* An entry expires: what was shared is no longer.
LEMMA ExpireInv ==
    ASSUME NEW Stages, StoreInv(Stages), NEW u \in Users, Expire(u)
    PROVE  StoreInv(Stages)'
  <1> USE DEF Expire, sendVars
  <1>0. /\ answered' \in [Users -> Claims]
        /\ \A v \in Users : /\ answered'[v].context = answered[v].context
                             /\ answered'[v].replica = answered[v].replica
                             /\ answered'[v].shared => v # u /\ answered[v].shared
    BY DEF StoreInv, StoreTypeOK, Claims
  <1>1. StoreTypeOK(Stages)'
    BY <1>0 DEF StoreInv, StoreTypeOK, Memory
  <1>2. Alone'
    BY DEF StoreInv, Alone
  <1>3. StoredInRedis'
    BY DEF StoreInv, StoreTypeOK, StoredInRedis
  <1>4. SharedClaims'
    BY <1>0 DEF StoreInv, StoreTypeOK, SharedClaims
  <1>5. NearClaims'
    BY <1>0 DEF StoreInv, NearClaims
  <1> QED BY <1>1, <1>2, <1>3, <1>4, <1>5 DEF StoreInv

\* A restart takes away the memory together with the claims on it, and an unfinished
\* send together with its user's claim.
LEMMA RestartInv ==
    ASSUME NEW Stages, StoreInv(Stages), NEW r \in Replicas, Restart(r)
    PROVE  StoreInv(Stages)'
  <1> DEFINE Lost == {s \in Sends : replica[s] = r}
             Torn(u) == \E s \in Lost : user[s] = u /\ pc[s] \in Storing
  <1>1. /\ pc' = [s \in Sends |-> IF s \in Lost THEN "idle" ELSE pc[s]]
        /\ user' = [s \in Sends |-> IF s \in Lost THEN NoUser ELSE user[s]]
        /\ context' = [s \in Sends |-> IF s \in Lost THEN NoContext ELSE context[s]]
        /\ replica' = [s \in Sends |-> IF s \in Lost THEN NoReplica ELSE replica[s]]
        /\ alone' = [s \in Sends |-> s \notin Lost /\ alone[s]]
        /\ answered' = [u \in Users |->
              IF Torn(u) THEN NoClaim
              ELSE [answered[u] EXCEPT !.replica = IF @ = r THEN NoReplica ELSE @]]
        /\ connection' = [connection EXCEPT ![r] = "untried"]
        /\ memory' = [memory EXCEPT ![r] = [u \in Users |-> NoContext]]
        /\ UNCHANGED <<redis, unused>>
    BY Zenon DEF Restart
  <1>2. faults' \in 0..MaxFaults
    BY DEF Restart, Fault, StoreInv, StoreTypeOK
  <1>3. /\ answered' \in [Users -> Claims]
        /\ \A u \in Users :
             /\ answered'[u].context # NoContext =>
                  ~Torn(u) /\ answered'[u].context = answered[u].context
             /\ answered'[u].shared =>
                  ~Torn(u) /\ answered[u].shared /\ answered'[u].context = answered[u].context
             /\ answered'[u].context # NoContext /\ answered'[u].replica # NoReplica =>
                  answered'[u].replica = answered[u].replica /\ answered[u].replica # r
    <2> SUFFICES ASSUME NEW u \in Users
                 PROVE  /\ answered'[u] \in Claims
                        /\ answered'[u].context # NoContext =>
                             ~Torn(u) /\ answered'[u].context = answered[u].context
                        /\ answered'[u].shared =>
                             ~Torn(u) /\ answered[u].shared
                             /\ answered'[u].context = answered[u].context
                        /\ answered'[u].context # NoContext /\ answered'[u].replica # NoReplica =>
                             answered'[u].replica = answered[u].replica
                             /\ answered[u].replica # r
      BY <1>1
    <2>1. answered[u] \in Claims
      BY DEF StoreInv, StoreTypeOK
    <2>2. CASE Torn(u)
      <3>1. answered'[u] = NoClaim
        BY <1>1, <2>2
      <3> QED BY <3>1 DEF NoClaim, Claims, Memory
    <2>3. CASE ~Torn(u)
      <3>1. answered'[u] = [answered[u] EXCEPT !.replica = IF @ = r THEN NoReplica ELSE @]
        BY <1>1, <2>3
      <3> HIDE DEF Torn
      <3> QED BY <2>1, <2>3, <3>1 DEF Claims
    <2> QED BY <2>2, <2>3
  <1>4. StoreTypeOK(Stages)'
    <2>1. /\ NoContext \in Memory /\ "idle" \notin Storing
          /\ memory' \in [Replicas -> [Users -> Memory]]
          /\ connection' \in [Replicas -> {"untried", "pinging", "up", "down"}]
      BY <1>1 DEF StoreInv, StoreTypeOK, Memory, Storing
    <2>2. alone' \in [Sends -> BOOLEAN]
      BY <1>1, Zenon
    <2> HIDE DEF Torn
    <2> QED BY <1>1, <1>2, <1>3, <2>1, <2>2 DEF StoreInv, StoreTypeOK
  <1> HIDE DEF Lost
  <1>5. /\ \A s \in Sends : s \in Lost => ~alone'[s] /\ pc'[s] = "idle" /\ user'[s] = NoUser
        /\ \A s \in Sends : s \notin Lost =>
             /\ alone'[s] = alone[s] /\ pc'[s] = pc[s] /\ user'[s] = user[s]
             /\ context'[s] = context[s]
    <2>1. \A s \in Sends : s \notin Lost => (alone'[s] <=> alone[s])
      BY <1>1, Zenon
    <2>2. \A s \in Sends : s \in Lost => ~alone'[s]
      BY <1>1, Zenon
    <2>3. \A s \in Sends : alone[s] \in BOOLEAN /\ alone'[s] \in BOOLEAN
      BY <1>4 DEF StoreInv, StoreTypeOK
    <2> QED BY <1>1, <2>1, <2>2, <2>3
  <1>6. Alone'
    BY <1>5 DEF StoreInv, StoreTypeOK, Alone
  <1>7. StoredInRedis'
    BY <1>1, <1>5 DEF StoreInv, StoredInRedis
  <1>8. SharedClaims'
    <2> SUFFICES ASSUME NEW u \in Users, answered'[u].shared,
                        \A t \in Sends : user'[t] = u => pc'[t] \notin Storing
                 PROVE  redis'[u] = answered'[u].context
      BY DEF SharedClaims
    <2>1. ~Torn(u) /\ answered[u].shared /\ answered'[u].context = answered[u].context
      BY <1>3
    <2>2. \A t \in Sends : user[t] = u => pc[t] \notin Storing
      BY <1>5, <2>1
    <2> QED BY <1>1, <2>1, <2>2 DEF StoreInv, SharedClaims
  <1>9. NearClaims'
    BY <1>1, <1>3 DEF StoreInv, StoreTypeOK, Claims, NearClaims
  <1> QED BY <1>4, <1>6, <1>7, <1>8, <1>9 DEF StoreInv

\* Every step of a send, and of the world around it, keeps the claims.
LEMMA SendInv ==
    ASSUME NEW Stages, "idle" \notin Stages, StoreInv(Stages), NEW s \in Sends, Send(s)
    PROVE  StoreInv(Stages)'
  <1>0. /\ faults \in 0..MaxFaults
        /\ connection \in [Replicas -> {"untried", "pinging", "up", "down"}]
        /\ pc[s] # "idle" => replica[s] \in Replicas
        /\ redis[user[s]] \in Memory \/ pc[s] = "idle"
        /\ pc[s] # "idle" => memory[replica[s]][user[s]] \in Memory
    BY DEF StoreInv, StoreTypeOK
  <1>1. CASE Ping(s)
    BY <1>0, <1>1, GotoInv DEF Ping, Storing, Sending
  <1>2. CASE UseRedis(s)
    <2>1. connection' \in [Replicas -> {"untried", "pinging", "up", "down"}]
      BY <1>0, <1>2 DEF UseRedis
    <2> QED BY <1>0, <1>2, <2>1, GotoInv DEF UseRedis, Storing, Sending
  <1>3. CASE QueryAnswered(s)
    BY <1>0, <1>3, GotoInv DEF QueryAnswered, Stored, storeVars, Storing, Sending
  <1>4. CASE Recall(s)
    <2>1. /\ connection' \in [Replicas -> {"untried", "pinging", "up", "down"}]
          /\ faults' \in 0..MaxFaults
      BY <1>0, <1>4 DEF Recall, Fault
    <2>2. pc[s] \in {"get", "get_ping", "query"}
      BY <1>4 DEF Recall
    <2> QED BY <1>0, <1>4, <2>1, <2>2, GotoInv DEF Recall, Storing, Sending
  <1>5. CASE Setex(s)
    BY <1>5, SetexInv
  <1>6. CASE StoreInRedis(s)
    BY <1>0, <1>6, FinishSetInv DEF StoreInRedis, Storing
  <1>7. CASE StoreInMemory(s)
    <2>1. /\ connection' \in [Replicas -> {"untried", "pinging", "up", "down"}]
          /\ faults' \in 0..MaxFaults
          /\ pc[s] \in Storing
      BY <1>0, <1>7 DEF StoreInMemory, Fault, Storing
    <2> QED BY <1>7, <2>1, FinishSetInv DEF StoreInMemory
  <1>8. CASE AgentAnswers(s)
    BY <1>8, AgentAnswersInv
  <1>9. CASE AnswersWithout(s)
    BY <1>0, <1>9, LeaveInv DEF AnswersWithout, Storing
  <1>10. CASE AgentFails(s)
    BY <1>0, <1>10, LeaveInv DEF AgentFails, Fault, Storing
  <1> QED BY <1>1, <1>2, <1>3, <1>4, <1>5, <1>6, <1>7, <1>8, <1>9, <1>10 DEF Send

-----------------------------------------------------------------------------

\* Where a send reads its context, it finds what its user's last answer has left.
LEMMA ContinuesStep ==
    ASSUME NEW Stages, StoreInv(Stages), NEW s \in Sends, alone[s],
           answered[user[s]].context # NoContext
    PROVE  /\ QueryAnswered(s) /\ answered[user[s]].shared
                => context'[s] = answered[user[s]].context
           /\ Recall(s) /\ answered[user[s]].replica = replica[s]
                => context'[s] = answered[user[s]].context
  <1>1. ASSUME QueryAnswered(s), answered[user[s]].shared
        PROVE  context'[s] = answered[user[s]].context
    <2>1. pc[s] = "query" /\ user[s] \in Users /\ context'[s] = redis[user[s]]
      BY <1>1 DEF QueryAnswered, Stored, StoreInv, StoreTypeOK
    <2>2. \A t \in Sends : user[t] = user[s] => pc[t] \notin Storing
      BY <2>1 DEF StoreInv, Alone, Storing
    <2> QED BY <1>1, <2>1, <2>2 DEF StoreInv, SharedClaims
  <1>2. ASSUME Recall(s), answered[user[s]].replica = replica[s]
        PROVE  context'[s] = answered[user[s]].context
    <2>1. /\ user[s] \in Users /\ replica[s] # NoReplica
          /\ context'[s] = memory[replica[s]][user[s]]
      BY <1>2 DEF Recall, StoreInv, StoreTypeOK
    <2> QED BY <1>2, <2>1 DEF StoreInv, NearClaims
  <1> QED BY <1>1, <1>2

\* What any step must show of the sends that read a context.
ConversationContinuesStep ==
    \A s \in Sends :
        alone[s] /\ answered[user[s]].context # NoContext =>
            LET last == answered[user[s]]
            IN /\ QueryAnswered(s) /\ last.shared       => context'[s] = last.context
               /\ Recall(s) /\ last.replica = replica[s] => context'[s] = last.context

\* Every step of the context store by itself keeps the claims.
LEMMA StoreNextInv ==
    ASSUME StoreInv({}), [StoreNext]_storeAll
    PROVE  StoreInv({})'
  <1>1. CASE StoreNext
    <2>1. ASSUME NEW s \in Sends, NEW u \in Users, NEW r \in Replicas, Begin(s, u, r, "get")
          PROVE  StoreInv({})'
      BY <2>1, BeginInv DEF Storing
    <2> QED BY <1>1, <2>1, SendInv, ExpireInv, RestartInv DEF StoreNext, World
  <1>2. CASE UNCHANGED storeAll
    BY <1>2 DEF storeAll, storeVars, sendVars, StoreInv, StoreTypeOK, Alone, StoredInRedis,
                SharedClaims, NearClaims
  <1> QED BY <1>1, <1>2

\* In the context store by itself, a conversation goes on in the context of its last
\* answer wherever that was stored (context_store.py:96).
THEOREM StoreContinues == StoreSpec => ConversationContinues
  <1>1. StoreInit => StoreInv({})
    BY StoreInitInv
  <1>2. StoreInv({}) /\ [StoreNext]_storeAll => StoreInv({})'
    BY StoreNextInv
  <1>3. StoreInv({}) => ConversationContinuesStep
    BY ContinuesStep DEF ConversationContinuesStep
  <1>4. StoreSpec => [][ConversationContinuesStep]_storeAll
    BY <1>1, <1>2, <1>3, PTL DEF StoreSpec
  <1> QED BY <1>4 DEF ConversationContinues, ConversationContinuesStep

-----------------------------------------------------------------------------
(* chat_completions *)

ChatStages == Enhancing \cup {"complete"}

\* A tool has run for a request only while its answer is awaited.
RunsCounted == \A s \in Sends : runs[s] <= 1 /\ (pc[s] # "ran" => runs[s] = 0)

ChatInv ==
    /\ StoreInv(ChatStages)
    /\ provider \in Providers
    /\ attempt \in [Sends -> 0..MaxRetries - 1]
    /\ runs \in [Sends -> 0..MaxRuns]
    /\ RunsCounted

USE ChatCompletionsAssumption

\* No request has begun, and no tool run, at the start.
LEMMA ChatInit == Init => ChatInv
  <1> SUFFICES ASSUME Init PROVE ChatInv
    OBVIOUS
  <1>1. StoreInv(ChatStages)
    BY StoreInitInv DEF Init
  <1> QED BY <1>1 DEF Init, ChatInv, RunsCounted

\* The stages of the enhancement are none of the store's.
LEMMA EnhanceInv ==
    ASSUME ChatInv, NEW s \in Sends, Enhance(s)
    PROVE  ChatInv'
  <1>0. PICK from \in Enhancing, to \in ChatStages \cup {"get"} : Step(s, from, to)
    BY DEF Enhance, ToolsListed, ListTimesOut, ListAgain, RunTool, ToolAnswers, CallFails,
           Onwards, Enhancing, ChatStages
  <1>1. StoreInv(ChatStages)'
    <2>1. /\ from # "idle" /\ to # "idle" /\ to # "stored" /\ from \notin Storing
          /\ to \notin Storing /\ to \in ChatStages \cup Sending
      BY <1>0 DEF Enhancing, ChatStages, Storing, Sending
    <2>2. faults \in 0..MaxFaults
          /\ connection \in [Replicas -> {"untried", "pinging", "up", "down"}]
      BY DEF ChatInv, StoreInv, StoreTypeOK
    <2> QED BY <1>0, <2>1, <2>2, GotoInv DEF Step, storeVars, ChatInv
  <1>2. attempt' \in [Sends -> 0..MaxRetries - 1] /\ provider' \in Providers
    BY DEF Enhance, ToolsListed, ListTimesOut, ListAgain, RunTool, ToolAnswers, CallFails,
           Last, NextAttempt, mcpVars, ChatInv
  <1>3. runs' \in [Sends -> 0..MaxRuns] /\ RunsCounted'
    <2>1. pc \in [Sends -> {"idle"} \cup ChatStages \cup Sending]
      BY DEF ChatInv, StoreInv, StoreTypeOK
    <2>2. CASE RunTool(s)
      BY <2>1, <2>2 DEF RunTool, Step, Goto, ChatInv, RunsCounted
    <2>3. CASE ToolAnswers(s) \/ CallFails(s)
      BY <2>1, <2>3 DEF ToolAnswers, CallFails, Step, Goto, ChatInv, RunsCounted
    <2>4. CASE ToolsListed(s) \/ ListTimesOut(s) \/ ListAgain(s)
      BY <2>1, <2>4 DEF ToolsListed, ListTimesOut, ListAgain, Step, Goto, mcpVars, ChatInv,
                        RunsCounted
    <2> QED BY <2>2, <2>3, <2>4 DEF Enhance
  <1> QED BY <1>1, <1>2, <1>3 DEF ChatInv

\* The other steps of a request leave the tools alone.
LEMMA RunsKept ==
    ASSUME ChatInv, UNCHANGED mcpVars, NEW s \in Sends, NEW x, x # "ran",
           pc' = [pc EXCEPT ![s] = x], pc[s] # "ran"
    PROVE  RunsCounted'
  BY DEF ChatInv, StoreInv, StoreTypeOK, RunsCounted, mcpVars

\* Requests come and end, and send, without a tool running.
LEMMA RequestInv ==
    ASSUME ChatInv, NEW s \in Sends,
           \/ \E u \in Users, r \in Replicas : Receive(s, u, r)
           \/ Complete(s)
           \/ Send(s) /\ UNCHANGED <<mcpVars, provider>>
    PROVE  ChatInv'
  <1>1. CASE \E u \in Users, r \in Replicas : Receive(s, u, r)
    <2>1. PICK u \in Users, r \in Replicas : Receive(s, u, r)
      BY <1>1
    <2>2. PICK stage \in {"get", "complete", "list"} : Begin(s, u, r, stage)
      BY <2>1 DEF Receive, Onwards
    <2>3. /\ stage \in ChatStages \cup {"get"} /\ stage # "idle" /\ stage \notin Storing
          /\ stage # "ran"
      BY DEF ChatStages, Enhancing, Storing
    <2>4. StoreInv(ChatStages)'
      BY <2>2, <2>3, BeginInv DEF ChatInv
    <2>5. RunsCounted'
      BY <2>1, <2>2, <2>3, RunsKept DEF Receive, Begin
    <2> QED BY <2>1, <2>4, <2>5 DEF Receive, mcpVars, ChatInv
  <1>2. CASE Complete(s)
    <2>1. faults' \in 0..MaxFaults /\ pc[s] = "complete" /\ Leave(s)
      BY <1>2 DEF Complete, CompletionAnswers, CompletionFails, NoSuchProvider, Fault,
                  ChatInv, StoreInv, StoreTypeOK
    <2>2. StoreInv(ChatStages)'
      BY <1>2, <2>1, LeaveInv DEF Complete, CompletionAnswers, CompletionFails,
                                  NoSuchProvider, Storing, ChatInv
    <2>3. RunsCounted'
      <3>1. UNCHANGED mcpVars /\ pc[s] # "ran"
        BY <1>2, <2>1 DEF Complete, CompletionAnswers, CompletionFails, NoSuchProvider
      <3>2. pc' = [pc EXCEPT ![s] = "idle"]
        BY <2>1 DEF Leave, Goto
      <3> QED BY <3>1, <3>2, RunsKept
    <2> QED BY <1>2, <2>2, <2>3 DEF Complete, CompletionAnswers, CompletionFails,
                                  NoSuchProvider, mcpVars, ChatInv
  <1>3. CASE Send(s) /\ UNCHANGED <<mcpVars, provider>>
    <2>1. StoreInv(ChatStages)'
      BY <1>3, SendInv DEF ChatInv, ChatStages, Enhancing
    <2>2. PICK x \in {"idle", "query", "post"} \cup Storing \cup {"get_ping"} :
            pc' = [pc EXCEPT ![s] = x]
      <3> USE DEF Goto, Storing
      <3>1. CASE Ping(s)
        BY <3>1 DEF Ping
      <3>2. CASE UseRedis(s)
        BY <3>2 DEF UseRedis
      <3>3. CASE QueryAnswered(s)
        BY <3>3 DEF QueryAnswered
      <3>4. CASE Recall(s)
        BY <3>4 DEF Recall
      <3>5. CASE Setex(s) \/ AgentAnswers(s)
        BY <3>5 DEF Setex, AgentAnswers
      <3>6. CASE StoreInRedis(s) \/ StoreInMemory(s)
        BY <3>6 DEF StoreInRedis, StoreInMemory, FinishSet, Leave
      <3>7. CASE AnswersWithout(s) \/ AgentFails(s)
        BY <3>7 DEF AnswersWithout, AgentFails, Leave
      <3> QED BY <1>3, <3>1, <3>2, <3>3, <3>4, <3>5, <3>6, <3>7 DEF Send
    <2>3. RunsCounted'
      <3>1. pc[s] # "ran"
        BY <1>3 DEF Send, Ping, UseRedis, QueryAnswered, Recall, Setex, StoreInRedis,
                    StoreInMemory, AgentAnswers, AnswersWithout, AgentFails
      <3>2. x # "ran"
        BY DEF Storing
      <3> QED BY <1>3, <2>2, <3>1, <3>2, RunsKept
    <2> QED BY <1>3, <2>1, <2>3 DEF mcpVars, ChatInv
  <1> QED BY <1>1, <1>2, <1>3

\* An expiry changes no request, and a restart ends them.
LEMMA WorldInv ==
    ASSUME ChatInv,
           \/ \E u \in Users : Expire(u) /\ UNCHANGED <<mcpVars, provider>>
           \/ \E r \in Replicas : RestartReplica(r)
    PROVE  ChatInv'
  <1>1. ASSUME NEW u \in Users, Expire(u), UNCHANGED <<mcpVars, provider>>
        PROVE  ChatInv'
    <2>1. StoreInv(ChatStages)'
      BY <1>1, ExpireInv DEF ChatInv
    <2> QED BY <1>1, <2>1 DEF Expire, sendVars, mcpVars, ChatInv, RunsCounted
  <1>2. ASSUME NEW r \in Replicas, RestartReplica(r)
        PROVE  ChatInv'
    <2>1. StoreInv(ChatStages)'
      BY <1>2, RestartInv DEF RestartReplica, ChatInv
    <2>2. \A s \in Sends : pc'[s] = IF replica[s] = r THEN "idle" ELSE pc[s]
      BY <1>2 DEF RestartReplica, Restart
    <2> QED BY <1>2, <2>1, <2>2 DEF RestartReplica, ChatInv, RunsCounted
  <1> QED BY <1>1, <1>2

\* Every step keeps the invariant.
LEMMA ChatNext == ChatInv /\ [Next]_vars => ChatInv'
  <1> SUFFICES ASSUME ChatInv, [Next]_vars PROVE ChatInv'
    OBVIOUS
  <1>1. CASE Next
    BY <1>1, EnhanceInv, RequestInv, WorldInv DEF Next
  <1>2. CASE UNCHANGED vars
    BY <1>2 DEF vars, mcpVars, storeAll, storeVars, sendVars, ChatInv, StoreInv, StoreTypeOK,
                Alone, StoredInRedis, SharedClaims, NearClaims, RunsCounted
  <1> QED BY <1>1, <1>2

\* The store's claims and the count of runs hold together.
THEOREM ChatInvariant == Spec => []ChatInv
  BY ChatInit, ChatNext, PTL DEF Spec

\* All variables of the requests, the store and the enhancement stay within their
\* types; list_tools never counts past its last attempt (mcp_client.py:140).
THEOREM TypeCorrect == Spec => []TypeOK
  <1>1. ChatInv => TypeOK
    BY DEF ChatInv, StoreInv, TypeOK, ChatStages
  <1> QED BY <1>1, ChatInvariant, PTL

\* A request makes the gateway run a tool once at most, with any number of requests,
\* time-outs and restarts (mcp_client.py:199).
THEOREM ToolsStayOnce == Spec => []ToolsRunOnce
  <1>1. ChatInv => ToolsRunOnce
    BY DEF ChatInv, RunsCounted, ToolsRunOnce
  <1> QED BY <1>1, ChatInvariant, PTL

\* With tools and a provider before the store, too, a conversation goes on in the
\* context of its last answer wherever that was stored (context_store.py:96).
THEOREM ChatContinues == Spec => ConversationContinues
  <1>1. ChatInv => ConversationContinuesStep
    BY ContinuesStep DEF ChatInv, ConversationContinuesStep
  <1>2. Spec => [][ConversationContinuesStep]_storeAll
    BY <1>1, ChatInvariant, PTL
  <1> QED BY <1>2 DEF ConversationContinues, ConversationContinuesStep

-----------------------------------------------------------------------------
(* Requests advance *)

\* Whatever happens to the list of tools and to the tool, a stage of the enhancement
\* leads to a later one.
LEMMA EnhanceAdvances ==
    ASSUME ChatInv, NEW s \in Sends, Enhance(s)
    PROVE  StepsLeft(s)' < StepsLeft(s)
  <1> USE DEF ChatInv, StoreInv, StoreTypeOK, StepsLeft, Step, Goto
  <1>1. Onwards \in {"get", "complete"} /\ attempt[s] \in 0..MaxRetries - 1
    BY DEF Onwards
  <1>2. CASE ToolsListed(s)
    BY <1>1, <1>2 DEF ToolsListed
  <1>3. CASE ListTimesOut(s) /\ pc'[s] = "pause"
    <2>1. /\ pc[s] = "list" /\ attempt[s] # MaxRetries - 1
          /\ attempt' = [attempt EXCEPT ![s] = attempt[s] + 1]
      BY <1>1, <1>3 DEF ListTimesOut, Last, NextAttempt
    <2>2. attempt'[s] = attempt[s] + 1
      BY <2>1
    <2> QED BY <1>1, <1>3, <2>1, <2>2
  <1>4. CASE ListTimesOut(s) /\ pc'[s] # "pause"
    BY <1>1, <1>4 DEF ListTimesOut
  <1>5. CASE ListAgain(s)
    BY <1>1, <1>5 DEF ListAgain, mcpVars
  <1>6. CASE RunTool(s) \/ ToolAnswers(s) \/ CallFails(s)
    BY <1>1, <1>6 DEF RunTool, ToolAnswers, CallFails
  <1> QED BY <1>2, <1>3, <1>4, <1>5, <1>6 DEF Enhance

\* So does a stage of the store, of the agent or of a provider.
LEMMA SendAdvances ==
    ASSUME ChatInv, NEW s \in Sends, Send(s) \/ Complete(s)
    PROVE  StepsLeft(s)' < StepsLeft(s)
  <1> USE DEF ChatInv, StoreInv, StoreTypeOK, StepsLeft, Leave, Goto
  <1>1. CASE Complete(s)
    BY <1>1 DEF Complete, CompletionAnswers, CompletionFails, NoSuchProvider
  <1>2. CASE Ping(s) \/ UseRedis(s)
    BY <1>2 DEF Ping, UseRedis
  <1>3. CASE QueryAnswered(s) \/ Recall(s)
    BY <1>3 DEF QueryAnswered, Recall
  <1>4. CASE Setex(s) \/ AgentAnswers(s)
    BY <1>4 DEF Setex, AgentAnswers
  <1>5. CASE StoreInRedis(s) \/ StoreInMemory(s)
    <2>1. pc[s] \in Storing /\ pc'[s] = "idle"
      BY <1>5 DEF StoreInRedis, StoreInMemory, FinishSet, Storing
    <2> QED BY <2>1 DEF Storing
  <1>6. CASE AnswersWithout(s) \/ AgentFails(s)
    BY <1>6 DEF AnswersWithout, AgentFails
  <1> QED BY <1>1, <1>2, <1>3, <1>4, <1>5, <1>6 DEF Send

\* Nothing of the request of t has changed.
Stays(t) == UNCHANGED <<pc[t], attempt[t], runs[t], user[t], replica[t], context[t]>>

RequestsAdvanceStep ==
    \A s \in Sends : pc[s] # "idle" => \/ StepsLeft(s)' < StepsLeft(s)
                                       \/ Stays(s)

\* A step of a request changes no other one.
LEMMA OthersStay ==
    ASSUME ChatInv, NEW s \in Sends, NEW t \in Sends \ {s},
           \/ \E u \in Users, r \in Replicas : Receive(s, u, r)
           \/ Enhance(s) \/ Complete(s)
           \/ Send(s) /\ UNCHANGED <<mcpVars, provider>>
    PROVE  Stays(t)
  <1> USE DEF ChatInv, StoreInv, StoreTypeOK, mcpVars, Stays
  <1>1. CASE \E u \in Users, r \in Replicas : Receive(s, u, r)
    BY <1>1 DEF Receive, Begin
  <1>2. CASE Enhance(s)
    BY <1>2 DEF Enhance, ToolsListed, ListTimesOut, ListAgain, RunTool, ToolAnswers,
                CallFails, Step, Goto
  <1>3. CASE Complete(s)
    BY <1>3 DEF Complete, CompletionAnswers, CompletionFails, NoSuchProvider, Leave, Goto
  <1>4. CASE Send(s) /\ UNCHANGED <<mcpVars, provider>>
    <2>1. CASE Ping(s) \/ UseRedis(s) \/ QueryAnswered(s) \/ Recall(s)
      BY <1>4, <2>1 DEF Ping, UseRedis, QueryAnswered, Recall, Goto
    <2>2. CASE Setex(s) \/ AgentAnswers(s) \/ AnswersWithout(s) \/ AgentFails(s)
      BY <1>4, <2>2 DEF Setex, AgentAnswers, AnswersWithout, AgentFails, Leave, Goto
    <2>3. CASE StoreInRedis(s) \/ StoreInMemory(s)
      BY <1>4, <2>3 DEF StoreInRedis, StoreInMemory, FinishSet, Leave, Goto
    <2> QED BY <1>4, <2>1, <2>2, <2>3 DEF Send
  <1> QED BY <1>1, <1>2, <1>3, <1>4

\* With any number of requests, replicas and retries, a request has at most
\* 11 + 2 * MaxRetries steps: time-outs do not start it again, nor do the pings, the
\* failures and the sends of the others hold it up (mcp_client.py:138).
THEOREM ChatRequestsAdvance == Spec => RequestsAdvance
  <1>1. ASSUME ChatInv, [Next]_vars, NEW t \in Sends
        PROVE  pc[t] # "idle" => StepsLeft(t)' < StepsLeft(t) \/ Stays(t)
    <2> SUFFICES ASSUME pc[t] # "idle" PROVE StepsLeft(t)' < StepsLeft(t) \/ Stays(t)
      OBVIOUS
    <2>1. ASSUME NEW s \in Sends,
                 \/ \E u \in Users, r \in Replicas : Receive(s, u, r)
                 \/ Enhance(s) \/ Complete(s)
                 \/ Send(s) /\ UNCHANGED <<mcpVars, provider>>
          PROVE  StepsLeft(t)' < StepsLeft(t) \/ Stays(t)
      <3>1. CASE t # s
        BY <1>1, <2>1, <3>1, OthersStay
      <3>2. CASE t = s
        BY <1>1, <2>1, <3>2, EnhanceAdvances, SendAdvances DEF Receive, Begin
      <3> QED BY <3>1, <3>2
    <2>2. ASSUME NEW u \in Users, Expire(u), UNCHANGED <<mcpVars, provider>> PROVE Stays(t)
      BY <2>2 DEF Expire, sendVars, mcpVars, Stays
    <2>3. ASSUME NEW r \in Replicas, RestartReplica(r)
          PROVE  StepsLeft(t)' < StepsLeft(t) \/ Stays(t)
      <3>1. CASE replica[t] = r
        <4>1. pc'[t] = "idle"
          BY <2>3, <3>1 DEF RestartReplica, Restart
        <4>2. StepsLeft(t)' = 0
          BY <4>1 DEF StepsLeft
        <4>3. StepsLeft(t) > 0
          BY <1>1 DEF StepsLeft, ChatInv, StoreInv, StoreTypeOK, ChatStages, Enhancing,
                      Sending, Storing
        <4> QED BY <4>2, <4>3
      <3>2. CASE replica[t] # r
        BY <2>3, <3>2 DEF RestartReplica, Restart, Stays
      <3> QED BY <3>1, <3>2
    <2>4. CASE UNCHANGED vars
      BY <2>4 DEF vars, mcpVars, storeAll, sendVars, Stays
    <2> QED BY <1>1, <2>1, <2>2, <2>3, <2>4 DEF Next
  <1>2. ChatInv /\ [Next]_vars => [RequestsAdvanceStep]_vars
    BY <1>1 DEF RequestsAdvanceStep
  <1>3. Spec => [][RequestsAdvanceStep]_vars
    BY <1>2, ChatInvariant, PTL DEF Spec
  <1> QED BY <1>3 DEF RequestsAdvance, RequestsAdvanceStep, Stays

-----------------------------------------------------------------------------
(* Completions: conversations of any length, any temperatures and limits *)

\* A set of natural numbers has a least one.
LEMMA LeastExists ==
    ASSUME NEW T \in SUBSET Nat, T # {}
    PROVE  \E x \in T : \A y \in T : x <= y
  <1>1. PICK x \in T : \A y \in T : ~ (<<y, x>> \in OpToRel(<, Nat))
    BY NatLessThanWellFounded, WFMin
  <1>2. \A y \in T : ~ (y < x)
    BY <1>1 DEF OpToRel
  <1> QED BY <1>2

\* A set of places has a last one: counted from the end, it is the least.
LEMMA LastExists ==
    ASSUME NEW n \in Nat, NEW S \in SUBSET (1..n), S # {}
    PROVE  \E i \in S : \A j \in S : j <= i
  <1> DEFINE T == {m \in Nat : n - m \in S}
  <1>1. T \in SUBSET Nat
    OBVIOUS
  <1>2. \A j \in S : n - j \in Nat /\ n - (n - j) = j
    OBVIOUS
  <1>3. \A j \in S : n - j \in T
    BY <1>2
  <1>4. T # {}
    BY <1>3
  <1>5. PICK x \in T : \A y \in T : x <= y
    <2> HIDE DEF T
    <2> QED BY <1>1, <1>4, LeastExists
  <1>6. ASSUME NEW j \in S PROVE j <= n - x
    <2>1. x <= n - j
      BY <1>3, <1>5
    <2> QED BY <2>1
  <1>7. n - x \in S
    OBVIOUS
  <1> QED BY <1>6, <1>7

\* What the code takes for the last message of a role is one.
LEMMA LastIsOne ==
    ASSUME NEW c \in Conversations, NEW roles, Of(c, roles) # {}
    PROVE  LastOf(Of(c, roles)) \in Of(c, roles)
  <1>1. PICK n \in 0..MaxMessages : c \in ConversationsOf(n)
    BY DEF Conversations
  <1>2. n \in Nat /\ Of(c, roles) \in SUBSET (1..n)
    BY <1>1, CompletionsAssumption DEF ConversationsOf, Of
  <1>3. \E i \in Of(c, roles) : \A j \in Of(c, roles) : j <= i
    BY <1>2, LastExists
  <1> QED BY <1>3 DEF LastOf

\* The task that is detected is one of those whose patterns match.
LEMMA DetectedMatches ==
    ASSUME NEW found \in SUBSET Detectable, found # {}
    PROVE  detect_task_type(found) \in found
  <1> DEFINE places == {TaskOrder[t] : t \in found}
  <1>1. \A t \in found : TaskOrder[t] \in Nat
    BY DEF Detectable, TaskOrder
  <1>2. PICK x \in places : \A y \in places : x <= y
    <2>1. places \in SUBSET Nat /\ places # {}
      BY <1>1
    <2> HIDE DEF places
    <2> QED BY <2>1, LeastExists
  <1>3. \E t \in found : \A u \in found : TaskOrder[t] <= TaskOrder[u]
    BY <1>2
  <1> QED BY <1>3 DEF detect_task_type

\* Whatever matches, there is a task type with a temperature.
LEMMA DetectedIsTask ==
    ASSUME NEW found \in SUBSET Detectable
    PROVE  detect_task_type(found) \in TaskTypes
  <1>1. Detectable \subseteq TaskTypes
    BY DEF Detectable, TaskOrder, TaskTypes
  <1>2. CASE found = {}
    BY <1>2 DEF detect_task_type, TaskTypes
  <1> QED BY <1>1, <1>2, DetectedMatches

\* The table of temperatures.
LEMMA MapTypes ==
    ASSUME NEW t \in TaskTypes
    PROVE  TEMPERATURE_MAP[t] \in {0, 7, 10, 13, 15}
  BY DEF TaskTypes, TEMPERATURE_MAP

\* The adjustments keep a temperature in the provider's range ...
LEMMA OptimalSuits ==
    ASSUME NEW t \in TaskTypes, NEW p \in Providers
    PROVE  get_optimal_temperature(t, p) \in Suitable(p)
  BY MapTypes DEF get_optimal_temperature, Suitable, AtLeast, AtMost, Providers, Cloud

\* ... and in their order.
LEMMA OptimalKeepsOrder ==
    ASSUME NEW p \in Providers
    PROVE  KeepsOrder(p)
  <1> SUFFICES ASSUME NEW t \in TaskTypes, NEW u \in TaskTypes,
                      TEMPERATURE_MAP[t] <= TEMPERATURE_MAP[u]
               PROVE  get_optimal_temperature(t, p) <= get_optimal_temperature(u, p)
    BY DEF KeepsOrder
  <1>1. TEMPERATURE_MAP[t] \in Int /\ TEMPERATURE_MAP[u] \in Int
    BY MapTypes
  <1> QED BY <1>1 DEF get_optimal_temperature, AtLeast, AtMost, Providers, Cloud

\* A temperature that is asked for is left alone, and one that is not is chosen within
\* the provider's range.
LEMMA AllRecommend ==
    ASSUME NEW p \in Providers
    PROVE  Recommends[p]
  <1>1. ASSUME NEW c \in Conversations, NEW found \in SUBSET Detectable, NEW t \in Temperatures
        PROVE  detect_and_apply_temperature(c, t, p, found) = t
    BY <1>1, CompletionsAssumption DEF detect_and_apply_temperature
  <1>2. ASSUME NEW c \in Conversations, NEW found \in SUBSET Detectable
        PROVE  detect_and_apply_temperature(c, Unset, p, found) \in Suitable(p)
    <2>1. 10 \in Suitable(p)
      BY DEF Suitable
    <2>2. get_optimal_temperature(detect_task_type(found), p) \in Suitable(p)
      BY DetectedIsTask, OptimalSuits
    <2> QED BY <2>1, <2>2 DEF detect_and_apply_temperature, Unset
  <1> QED BY <1>1, <1>2, OptimalKeepsOrder, Zenon DEF Recommends

\* For conversations of any length, any temperatures and whatever the patterns find: the
\* configured provider is recommended what suits it (temperature_detector.py:175).
THEOREM RecommendationsAlwaysFit == Spec => []RecommendationsFit
  <1>1. ChatInv => RecommendationsFit
    BY AllRecommend DEF ChatInv, TypeOK, RecommendationsFit
  <1> QED BY <1>1, ChatInvariant, PTL

\* A request of an OpenAI-compatible provider keeps all messages.
LEMMA KeepingAllRenders ==
    ASSUME NEW p, p # "anthropic", NEW c \in Conversations, NEW t, NEW n
    PROVE  Renders([messages |-> DOMAIN c, system |-> NoPlace, temperature |-> t, limit |-> n],
                   p, c, t, n)
  BY DEF Renders, Sent, Dropped

\* Anthropic's has the turns, and the prompt apart from them.
LEMMA AnthropicRenders ==
    ASSUME NEW c \in Conversations, NEW t, NEW n
    PROVE  Renders(Anthropic(c, t, n), "anthropic", c, t, n)
  <1> DEFINE S == Of(c, {"system"})
             r == Anthropic(c, t, n)
  <1>1. DOMAIN c \ Dropped("anthropic", c) =
          Of(c, {"user", "assistant"}) \cup {i \in S : i = LastOf(S) /\ ~c[i].empty}
    <2>1. \A i \in DOMAIN c : c[i].role \in Roles
      BY DEF Conversations, ConversationsOf, Messages
    <2> QED BY <2>1 DEF Dropped, Of, Roles
  <1>2. {SystemPrompt(c)} \ {NoPlace} = {i \in S : i = LastOf(S) /\ ~c[i].empty}
    <2>1. NoPlace \notin S
      BY DEF Of, NoPlace, Conversations, ConversationsOf
    <2>2. S # {} => LastOf(S) \in S
      BY LastIsOne
    <2> QED BY <2>1, <2>2 DEF SystemPrompt
  <1>3. Sent(r) = DOMAIN c \ Dropped("anthropic", c)
    BY <1>1, <1>2 DEF Sent, Anthropic
  <1> QED BY <1>3 DEF Renders, Anthropic

\* Every cloud provider is sent the conversation but for what it loses with the provider.
LEMMA AllConvey ==
    ASSUME NEW p \in Cloud
    PROVE  Conveys[p]
  <1>1. ASSUME NEW c \in Conversations, NEW t \in Temperatures, NEW n \in Limits,
               Answerable(c)
        PROVE  Renders(Request(p, c, t, n), p, c, t, n)
               /\ LastUser(c) \in Request(p, c, t, n).messages
    <2>1. LastUser(c) \in Of(c, {"user"})
      BY <1>1, LastIsOne DEF Answerable, LastUser
    <2>2. CASE p = "anthropic"
      BY <2>1, <2>2, AnthropicRenders DEF Request, Anthropic, Of
    <2>3. CASE p # "anthropic"
      BY <2>1, <2>3, KeepingAllRenders DEF Request, OpenAI, Featherless, DeepSeek, Cloud, Of
    <2> QED BY <2>2, <2>3
  <1> QED BY <1>1, Zenon DEF Conveys

\* For conversations of any length: an OpenAI-compatible provider is sent every message,
\* Anthropic every turn of user and assistant and the last system message unless it is
\* empty, and nothing else; the last message of the user is always among them
\* (main.py:267, llm_provider.py:102, 273).
THEOREM ProvidersAlwaysConvey == Spec => []ProvidersConvey
  <1>1. ProvidersConvey
    BY AllConvey DEF ProvidersConvey
  <1> QED BY <1>1, PTL
===============================================================================
