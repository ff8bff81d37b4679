------------------------------- MODULE ClerkKeys -------------------------------
(***************************************************************************)
(* The verification of Clerk's session tokens in                           *)
(* orchestrator/app/clerk_auth.py: verify_clerk_token and the cache of     *)
(* Clerk's public keys behind it.                                          *)
(*                                                                         *)
(* A token names the key that signed it.  A key that is not in the cache,  *)
(* or whose entry has expired, is fetched from Clerk; several requests may *)
(* fetch at the same time, and Clerk may replace its keys between the      *)
(* answer and the moment the handler resumes.  Tokens are signed by the    *)
(* key they name; their issuer and authorised party are inputs that pass.  *)
(***************************************************************************)
EXTENDS Integers

CONSTANTS Kids,        \* key ids
          StaticKid,   \* clerk_jwt_public_key, or NoKid where it is not set
          NoKid,
          Verifiers,   \* the requests that verify a token
          NoToken,
          Ttl,         \* _PUBLIC_KEY_CACHE_TTL
          FetchTime,   \* how long a fetch of the keys may take
          Life,        \* lifetime of a token
          MaxTime      \* bound: the clock

ASSUME ClerkKeysAssumption ==
    /\ NoKid \notin Kids
    /\ StaticKid \in Kids \cup {NoKid}
    /\ Ttl \in Nat \ {0} /\ FetchTime \in Nat /\ Life \in Nat /\ MaxTime \in Nat

VARIABLES
    now,         \* time.time()
    published,   \* the keys Clerk publishes
    retiredAt,   \* when it has withdrawn a key, -1 if it has not
    cache,       \* _clerk_public_keys: when the entry of a key expires, -1 without one
    stage,       \* how far a verification is, or its result
    jwt,         \* the token
    since,       \* when its fetch began
    found        \* Clerk's answer contained the key

clerkVars  == <<now, published, retiredAt>>
verifyVars == <<stage, jwt, since, found>>
keysVars   == <<clerkVars, cache, verifyVars>>

Tokens == [kid : Kids, exp : 0..(MaxTime + Life)]
Fetching == {"fetching", "answered"}

KeysTypeOK ==
    /\ now \in 0..MaxTime
    /\ published \subseteq Kids
    /\ retiredAt \in [Kids -> -1..MaxTime]
    /\ \A k \in published : retiredAt[k] = -1
    /\ cache \in [Kids -> -1..(MaxTime + Ttl)]
    /\ stage \in [Verifiers -> {"idle", "accepted", "rejected", "failed"} \cup Fetching]
    /\ jwt \in [Verifiers -> Tokens \cup {NoToken}]
    /\ \A v \in Verifiers : stage[v] # "idle" => jwt[v] \in Tokens
    /\ since \in [Verifiers -> 0..MaxTime]
    /\ found \in [Verifiers -> BOOLEAN]

KeysInit ==
    /\ now = 0
    /\ published = Kids
    /\ retiredAt = [k \in Kids |-> -1]
    /\ cache = [k \in Kids |-> -1]
    /\ stage = [v \in Verifiers |-> "idle"]
    /\ jwt = [v \in Verifiers |-> NoToken]
    /\ since = [v \in Verifiers |-> 0]
    /\ found = [v \in Verifiers |-> FALSE]

-----------------------------------------------------------------------------
(* Clerk and the clock *)

\* Clerk withdraws a key.  (A key that it has not published yet is like one that was
\* never asked for.)
Retire(k) ==
    /\ k \in published
    /\ published' = published \ {k}
    /\ retiredAt' = [retiredAt EXCEPT ![k] = now]
    /\ UNCHANGED <<now, cache, verifyVars>>

\* Time passes, but no fetch outlasts its time-out.
Tick ==
    /\ now < MaxTime
    /\ \A v \in Verifiers : stage[v] \in Fetching => now < since[v] + FetchTime
    /\ now' = now + 1
    /\ UNCHANGED <<published, retiredAt, cache, verifyVars>>

-----------------------------------------------------------------------------
(* verify_clerk_token *)

\* jwt.decode with the public key k: signature and expiry.
Decoded(t, k) == IF t.kid = k /\ now < t.exp THEN "accepted" ELSE "rejected"

\* Mutant of Fresh: an entry is used at its very expiry, too.
FreshInclusive(k) == now <= cache[k]

\* The entry of key k can be used.
Fresh(k) == now < cache[k]

\* A request starts to verify t.  With a configured key, or a fresh entry of the
\* cache, this takes no await.
Begin(v, t) ==
    /\ stage[v] = "idle"
    /\ jwt' = [jwt EXCEPT ![v] = t]
    /\ \/ /\ StaticKid # NoKid
          /\ stage' = [stage EXCEPT ![v] = Decoded(t, StaticKid)]
          /\ UNCHANGED since
       \/ /\ StaticKid = NoKid /\ Fresh(t.kid)
          /\ stage' = [stage EXCEPT ![v] = Decoded(t, t.kid)]
          /\ UNCHANGED since
       \/ /\ StaticKid = NoKid /\ ~Fresh(t.kid)
          /\ stage' = [stage EXCEPT ![v] = "fetching"]
          /\ since' = [since EXCEPT ![v] = now]
    /\ UNCHANGED <<clerkVars, cache, found>>

\* Clerk answers with the keys it publishes.
JwksAnswers(v) ==
    /\ stage[v] = "fetching"
    /\ stage' = [stage EXCEPT ![v] = "answered"]
    /\ found' = [found EXCEPT ![v] = jwt[v].kid \in published]
    /\ UNCHANGED <<clerkVars, cache, jwt, since>>

\* No answer in time, or an error: 500.
JwksFails(v) ==
    /\ stage[v] \in Fetching
    /\ stage' = [stage EXCEPT ![v] = "failed"]
    /\ UNCHANGED <<clerkVars, cache, jwt, since, found>>

\* The handler resumes with the answer: it caches the key, or rejects the token.
Resume(v) ==
    /\ stage[v] = "answered"
    /\ LET k == jwt[v].kid
       IN IF found[v]
          THEN /\ cache' = [cache EXCEPT ![k] = now + Ttl]
               /\ stage' = [stage EXCEPT ![v] = Decoded(jwt[v], k)]
          ELSE /\ stage' = [stage EXCEPT ![v] = "rejected"]
               /\ UNCHANGED cache
    /\ UNCHANGED <<clerkVars, jwt, since, found>>

\* The caller has used the result.
Done(v) ==
    /\ stage[v] \in {"accepted", "rejected", "failed"}
    /\ stage' = [stage EXCEPT ![v] = "idle"]
    /\ jwt' = [jwt EXCEPT ![v] = NoToken]
    /\ found' = [found EXCEPT ![v] = FALSE]
    /\ since' = [since EXCEPT ![v] = 0]
    /\ UNCHANGED <<clerkVars, cache>>

KeysNext ==
    \/ \E k \in Kids : Retire(k)
    \/ Tick
    \/ \E v \in Verifiers : \/ \E t \in Tokens : Begin(v, t)
                            \/ JwksAnswers(v) \/ JwksFails(v) \/ Resume(v) \/ Done(v)

KeysSpec == KeysInit /\ [][KeysNext]_keysVars

-----------------------------------------------------------------------------
(* Properties *)

\* A token signed with a key that Clerk has withdrawn is accepted no longer than the
\* cache's hour and one fetch after the withdrawal, however often the key is used and
\* however requests and fetches overlap (clerk_auth.py:77, 89).
RetiredKeysExpire ==
    [][\A v \in Verifiers :
         stage[v] # "accepted" /\ stage'[v] = "accepted" /\ StaticKid = NoKid =>
             LET k == jwt'[v].kid
             IN retiredAt[k] = -1 \/ now < retiredAt[k] + FetchTime + Ttl]_keysVars
=============================================================================
