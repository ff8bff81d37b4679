---------------------------- MODULE ClerkKeysProofs ----------------------------
(***************************************************************************)
(* Proofs about ClerkKeys: for any number of keys and verifications, and   *)
(* any times, a withdrawn key is accepted no longer than the cache's time  *)
(* and one fetch after its withdrawal.                                     *)
(***************************************************************************)
EXTENDS ClerkKeys, TLAPS

\* A key is published until it is withdrawn.
PublishedUntilRetired == \A k \in Kids : k \in published <=> retiredAt[k] = -1

\* How long an entry may last.
EntriesEnd ==
    \A k \in Kids : cache[k] <= (IF k \in published THEN now ELSE retiredAt[k] + FetchTime) + Ttl

\* No fetch takes longer than FetchTime.
FetchesEnd ==
    \A v \in Verifiers : stage[v] \in Fetching => since[v] <= now /\ now <= since[v] + FetchTime

\* A fetch that has found a withdrawn key began before the withdrawal.
FoundInTime ==
    \A v \in Verifiers :
        stage[v] = "answered" /\ found[v]
            => jwt[v].kid \in published \/ since[v] <= retiredAt[jwt[v].kid]

KeysInv == KeysTypeOK /\ PublishedUntilRetired /\ EntriesEnd /\ FetchesEnd /\ FoundInTime

USE ClerkKeysAssumption

\* Clerk starts with all keys published, the cache without an entry.
LEMMA KeysInitInv == KeysInit => KeysInv
  BY DEF KeysInit, KeysInv, KeysTypeOK, PublishedUntilRetired, EntriesEnd, FetchesEnd,
         FoundInTime, Fetching, Tokens

\* Withdrawing a key keeps them: an answer that has found it was asked for before.
LEMMA RetireInv == ASSUME KeysInv, NEW k \in Kids, Retire(k) PROVE KeysInv'
  <1>1. KeysTypeOK'
    BY DEF KeysInv, KeysTypeOK, Retire, verifyVars, Fetching, Tokens
  <1>2. PublishedUntilRetired'
    BY DEF KeysInv, KeysTypeOK, PublishedUntilRetired, Retire
  <1>3. EntriesEnd'
    BY DEF KeysInv, KeysTypeOK, PublishedUntilRetired, EntriesEnd, Retire
  <1>4. FetchesEnd'
    BY DEF KeysInv, KeysTypeOK, FetchesEnd, Retire, verifyVars, Fetching
  <1>5. FoundInTime'
    BY DEF KeysInv, KeysTypeOK, FetchesEnd, FoundInTime, Retire, verifyVars, Fetching, Tokens
  <1> QED BY <1>1, <1>2, <1>3, <1>4, <1>5 DEF KeysInv

\* Time passes only while no fetch is at its time-out.
LEMMA TickInv == ASSUME KeysInv, Tick PROVE KeysInv'
  <1>1. KeysTypeOK'
    BY DEF KeysInv, KeysTypeOK, Tick, verifyVars, Fetching, Tokens
  <1>2. PublishedUntilRetired' /\ EntriesEnd'
    BY DEF KeysInv, KeysTypeOK, PublishedUntilRetired, EntriesEnd, Tick
  <1>3. FetchesEnd'
    BY DEF KeysInv, KeysTypeOK, FetchesEnd, Tick, verifyVars, Fetching
  <1>4. FoundInTime'
    BY DEF KeysInv, KeysTypeOK, FoundInTime, Tick, verifyVars, Fetching, Tokens
  <1> QED BY <1>1, <1>2, <1>3, <1>4 DEF KeysInv

\* A fetch begins now.
LEMMA BeginInv ==
    ASSUME KeysInv, NEW v \in Verifiers, NEW t \in Tokens, Begin(v, t)
    PROVE  KeysInv'
  <1> USE DEF Begin, clerkVars
  <1>0. /\ t.kid \in Kids /\ t.exp \in 0..(MaxTime + Life)
        /\ stage' = [stage EXCEPT ![v] = stage'[v]]
        /\ stage'[v] \in {"accepted", "rejected", "fetching"}
        /\ cache' = cache
        /\ since' = [since EXCEPT ![v] = since'[v]]
        /\ since'[v] \in {since[v], now}
        /\ stage'[v] = "fetching" => since'[v] = now
    BY DEF KeysInv, KeysTypeOK, Tokens, Decoded
  <1>1. KeysTypeOK'
    BY <1>0 DEF KeysInv, KeysTypeOK, Fetching, Tokens
  <1>2. PublishedUntilRetired' /\ EntriesEnd'
    BY <1>0 DEF KeysInv, KeysTypeOK, PublishedUntilRetired, EntriesEnd
  <1>3. FetchesEnd'
    BY <1>0 DEF KeysInv, KeysTypeOK, FetchesEnd, Fetching
  <1>4. FoundInTime'
    <2> SUFFICES ASSUME NEW w \in Verifiers, stage'[w] = "answered", found'[w]
                 PROVE  jwt'[w].kid \in published' \/ since'[w] <= retiredAt'[jwt'[w].kid]
      BY DEF FoundInTime
    <2>1. w # v
      BY <1>0 DEF KeysInv, KeysTypeOK
    <2>2. stage[w] = "answered" /\ found[w] /\ jwt'[w] = jwt[w] /\ since'[w] = since[w]
      BY <1>0, <2>1 DEF KeysInv, KeysTypeOK
    <2> QED BY <2>2 DEF KeysInv, FoundInTime
  <1> QED BY <1>1, <1>2, <1>3, <1>4 DEF KeysInv

\* An answer has the key only while it is published.
LEMMA JwksAnswersInv ==
    ASSUME KeysInv, NEW v \in Verifiers, JwksAnswers(v)
    PROVE  KeysInv'
  <1> USE DEF JwksAnswers, clerkVars
  <1>1. KeysTypeOK'
    BY DEF KeysInv, KeysTypeOK, Fetching, Tokens
  <1>2. PublishedUntilRetired' /\ EntriesEnd'
    BY DEF KeysInv, KeysTypeOK, PublishedUntilRetired, EntriesEnd
  <1>3. FetchesEnd'
    BY DEF KeysInv, KeysTypeOK, FetchesEnd, Fetching
  <1>4. FoundInTime'
    BY DEF KeysInv, KeysTypeOK, FoundInTime
  <1> QED BY <1>1, <1>2, <1>3, <1>4 DEF KeysInv

\* A failing fetch changes nothing that they are about.
LEMMA JwksFailsInv ==
    ASSUME KeysInv, NEW v \in Verifiers, JwksFails(v)
    PROVE  KeysInv'
  <1> USE DEF JwksFails, clerkVars
  <1>1. KeysTypeOK'
    BY DEF KeysInv, KeysTypeOK, Fetching, Tokens
  <1>2. PublishedUntilRetired' /\ EntriesEnd'
    BY DEF KeysInv, KeysTypeOK, PublishedUntilRetired, EntriesEnd
  <1>3. FetchesEnd' /\ FoundInTime'
    BY DEF KeysInv, KeysTypeOK, FetchesEnd, FoundInTime, Fetching
  <1> QED BY <1>1, <1>2, <1>3 DEF KeysInv

\* A new entry lasts Ttl from a moment that is within FetchTime of its fetch.
LEMMA ResumeInv ==
    ASSUME KeysInv, NEW v \in Verifiers, Resume(v)
    PROVE  KeysInv'
  <1> USE DEF Resume, clerkVars
  <1>0. /\ jwt[v] \in Tokens /\ jwt[v].kid \in Kids /\ now \in Nat
        /\ since[v] <= now /\ now <= since[v] + FetchTime
        /\ stage' = [stage EXCEPT ![v] = stage'[v]]
        /\ stage'[v] \in {"accepted", "rejected"}
    BY DEF KeysInv, KeysTypeOK, FetchesEnd, Fetching, Tokens, Decoded
  <1>1. KeysTypeOK'
    BY <1>0 DEF KeysInv, KeysTypeOK, Fetching
  <1>2. PublishedUntilRetired'
    BY DEF KeysInv, KeysTypeOK, PublishedUntilRetired
  <1>3. EntriesEnd'
    <2>1. CASE found[v]
      BY <1>0, <2>1 DEF KeysInv, KeysTypeOK, EntriesEnd, FoundInTime
    <2>2. CASE ~found[v]
      BY <2>2 DEF KeysInv, EntriesEnd
    <2> QED BY <2>1, <2>2
  <1>4. FetchesEnd' /\ FoundInTime'
    BY <1>0 DEF KeysInv, KeysTypeOK, FetchesEnd, FoundInTime, Fetching
  <1> QED BY <1>1, <1>2, <1>3, <1>4 DEF KeysInv

\* A finished verification is none that they are about.
LEMMA DoneInv ==
    ASSUME KeysInv, NEW v \in Verifiers, Done(v)
    PROVE  KeysInv'
  <1> USE DEF Done, clerkVars
  <1>1. KeysTypeOK'
    BY DEF KeysInv, KeysTypeOK, Fetching, Tokens
  <1>2. PublishedUntilRetired' /\ EntriesEnd'
    BY DEF KeysInv, KeysTypeOK, PublishedUntilRetired, EntriesEnd
  <1>3. FetchesEnd' /\ FoundInTime'
    BY DEF KeysInv, KeysTypeOK, FetchesEnd, FoundInTime, Fetching
  <1> QED BY <1>1, <1>2, <1>3 DEF KeysInv

\* Every step keeps them.
LEMMA KeysNextInv == KeysInv /\ [KeysNext]_keysVars => KeysInv'
  <1> SUFFICES ASSUME KeysInv, [KeysNext]_keysVars PROVE KeysInv'
    OBVIOUS
  <1>1. CASE KeysNext
    BY <1>1, RetireInv, TickInv, BeginInv, JwksAnswersInv, JwksFailsInv, ResumeInv, DoneInv
       DEF KeysNext
  <1>2. CASE UNCHANGED keysVars
    BY <1>2 DEF keysVars, clerkVars, verifyVars, KeysInv, KeysTypeOK, PublishedUntilRetired,
                EntriesEnd, FetchesEnd, FoundInTime, Fetching, Tokens
  <1> QED BY <1>1, <1>2

\* The cache, the fetches and Clerk's keys stay consistent (clerk_auth.py:75-93).
THEOREM KeysInvariant == KeysSpec => []KeysInv
  BY KeysInitInv, KeysNextInv, PTL DEF KeysSpec

-----------------------------------------------------------------------------

\* What a single step that accepts a token shows.
RetiredKeysExpireStep ==
    \A v \in Verifiers :
        stage[v] # "accepted" /\ stage'[v] = "accepted" /\ StaticKid = NoKid =>
            LET k == jwt'[v].kid
            IN retiredAt[k] = -1 \/ now < retiredAt[k] + FetchTime + Ttl

\* Only a fresh entry or an answered fetch lets a token pass.
LEMMA ExpiryStep == KeysInv /\ [KeysNext]_keysVars => RetiredKeysExpireStep
  <1> SUFFICES ASSUME KeysInv, [KeysNext]_keysVars, NEW v \in Verifiers,
                      stage[v] # "accepted", stage'[v] = "accepted", StaticKid = NoKid
               PROVE  \/ retiredAt[jwt'[v].kid] = -1
                      \/ now < retiredAt[jwt'[v].kid] + FetchTime + Ttl
    BY DEF RetiredKeysExpireStep
  <1>1. \/ \E t \in Tokens : Begin(v, t)
        \/ Resume(v)
    <2>1. CASE \E k \in Kids : Retire(k)
      BY <2>1 DEF Retire, verifyVars
    <2>2. CASE Tick
      BY <2>2 DEF Tick, verifyVars
    <2>3. ASSUME NEW w \in Verifiers,
                 \/ \E t \in Tokens : Begin(w, t)
                 \/ JwksAnswers(w) \/ JwksFails(w) \/ Resume(w) \/ Done(w)
          PROVE  (\E t \in Tokens : Begin(v, t)) \/ Resume(v)
      <3>1. \E x : stage' = [stage EXCEPT ![w] = x]
        BY <2>3 DEF Begin, JwksAnswers, JwksFails, Resume, Done
      <3>2. w = v
        BY <3>1 DEF KeysInv, KeysTypeOK
      <3>3. ~JwksAnswers(v) /\ ~JwksFails(v) /\ ~Done(v)
        BY DEF JwksAnswers, JwksFails, Done, KeysInv, KeysTypeOK
      <3> QED BY <2>3, <3>2, <3>3
    <2> QED BY <2>1, <2>2, <2>3 DEF KeysNext, keysVars, verifyVars
  <1>2. ASSUME NEW t \in Tokens, Begin(v, t)
        PROVE  \/ retiredAt[jwt'[v].kid] = -1
               \/ now < retiredAt[jwt'[v].kid] + FetchTime + Ttl
    <2>1. jwt'[v] = t /\ t.kid \in Kids
      BY <1>2 DEF Begin, KeysInv, KeysTypeOK, Tokens
    <2>2. now < cache[t.kid]
      BY <1>2 DEF Begin, Fresh, KeysInv, KeysTypeOK
    <2> QED BY <2>1, <2>2 DEF KeysInv, KeysTypeOK, PublishedUntilRetired, EntriesEnd
  <1>3. ASSUME Resume(v)
        PROVE  \/ retiredAt[jwt'[v].kid] = -1
               \/ now < retiredAt[jwt'[v].kid] + FetchTime + Ttl
    <2>1. /\ stage[v] = "answered" /\ found[v] /\ jwt'[v] = jwt[v]
          /\ jwt[v] \in Tokens /\ jwt[v].kid \in Kids
      BY <1>3 DEF Resume, KeysInv, KeysTypeOK, Tokens
    <2>2. now <= since[v] + FetchTime
      BY <2>1 DEF KeysInv, FetchesEnd, Fetching
    <2> QED BY <2>1, <2>2 DEF KeysInv, KeysTypeOK, PublishedUntilRetired, FoundInTime
  <1> QED BY <1>1, <1>2, <1>3

\* A withdrawn key is accepted for Ttl and FetchTime at most, whatever their values
\* and however many requests use, fetch and renew it (clerk_auth.py:77, 89).
THEOREM WithdrawnKeysExpire == KeysSpec => RetiredKeysExpire
  <1>1. KeysInv /\ [KeysNext]_keysVars => [RetiredKeysExpireStep]_keysVars
    BY ExpiryStep
  <1>2. KeysSpec => [][RetiredKeysExpireStep]_keysVars
    BY <1>1, KeysInvariant, PTL DEF KeysSpec
  <1> QED BY <1>2 DEF RetiredKeysExpire, RetiredKeysExpireStep
=============================================================================
