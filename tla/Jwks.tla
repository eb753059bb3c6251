-------------------------------- MODULE Jwks --------------------------------
(***************************************************************************)
(* JWT verification of one process for one issuer (src/src/auth/jwt.rs):   *)
(* the cache of the issuer's key set, and requests that look their key up  *)
(* in it and fetch the set over HTTP when they miss.  Requests run         *)
(* concurrently and nothing is locked between the lookup, the fetch and    *)
(* the insert, so the answer of a slow fetch may replace a newer one.      *)
(*                                                                         *)
(* The issuer publishes and withdraws keys as it likes.  A token is the    *)
(* key it names and whether the rest of it is in order: its algorithm,     *)
(* signature, audience, times (with the 30 s of leeway) and claims.        *)
(***************************************************************************)
EXTENDS Naturals

CONSTANTS Key,          \* kids the issuer may publish
          Request,      \* requests that present a JWT
          TTL,          \* JwksCache::TTL, in ticks
          FetchTimeout  \* what the HTTP client's timeouts allow discovery and fetch

ASSUME JwksAssumption == TTL \in Nat /\ FetchTimeout \in Nat

VARIABLES
    published,  \* what the issuer's JWKS endpoint serves
    gone,       \* history: ticks since a key was last published, up to Forgotten
    cache,      \* the JwksCache entry of the issuer, and its age, up to TTL + 1
    req         \* a request in verify_bearer

jwksVars == <<published, gone, cache, req>>

(* Ages are counted only as far as they matter.                            *)
Forgotten == TTL + FetchTimeout + 1
Expired   == TTL + 1

(* "discover", "fetch": the HTTP request is out.  "receive": the issuer has*)
(* answered and the answer is on its way.                                  *)
Phase == {"idle", "discover", "fetch", "receive", "accepted", "unknown_key", "rejected"}
InFlight == {"discover", "fetch", "receive"}

(* age: ticks since the first HTTP request went out.  keys: what the issuer*)
(* answered.  steady (history): the key has been published ever since the  *)
(* request arrived.                                                        *)
Verification == [phase : Phase, kid : Key, age : 0..FetchTimeout,
                 keys : SUBSET Key, steady : BOOLEAN]
Entry == [keys : SUBSET Key, age : 0..Expired]

JwksTypeOK ==
    /\ published \in SUBSET Key
    /\ gone \in [Key -> 0..Forgotten]
    /\ cache \in Entry
    /\ req \in [Request -> Verification]

At(phase, k, steady) ==
    [phase |-> phase, kid |-> k, age |-> 0, keys |-> {}, steady |-> steady]

(* No entry and an entry without keys lead to the same fetch.              *)
JwksInit ==
    /\ published \in SUBSET Key
    /\ gone = [k \in Key |-> IF k \in published THEN 0 ELSE Forgotten]
    /\ cache = [keys |-> {}, age |-> Expired]
    /\ \E k \in Key : req = [r \in Request |-> At("idle", k, FALSE)]

-----------------------------------------------------------------------------
(* JwksCache::get: an entry older than TTL is a miss.                      *)
Cached == IF cache.age > TTL THEN {} ELSE cache.keys

(* A request whose token passes the checks before the lookup.  The cached  *)
(* key is used when there is one; then the signature, the audience, the    *)
(* times and the claims decide.                                            *)
Arrive(r) ==
    /\ req[r].phase = "idle"
    /\ \E k \in Key :
         \/ /\ k \in Cached
            /\ \E phase \in {"accepted", "rejected"} :
                 req' = [req EXCEPT ![r] = At(phase, k, FALSE)]
         \/ /\ k \notin Cached
            /\ req' = [req EXCEPT ![r] = At("discover", k, k \in published)]
    /\ UNCHANGED <<published, gone, cache>>

(* The discovery document, or the configured jwks_url.                     *)
Discover(r) ==
    /\ req[r].phase = "discover"
    /\ req' = [req EXCEPT ![r].phase = "fetch"]
    /\ UNCHANGED <<published, gone, cache>>

\* Mutant: the set is taken from the cache, however old, when there is one.
IssuerAnswersCached(r) ==
    /\ req[r].phase = "fetch"
    /\ req' = [req EXCEPT ![r].phase = "receive",
                          ![r].keys = IF cache.keys # {} THEN cache.keys ELSE published]
    /\ UNCHANGED <<published, gone, cache>>

IssuerAnswers(r) ==
    /\ req[r].phase = "fetch"
    /\ req' = [req EXCEPT ![r].phase = "receive", ![r].keys = published]
    /\ UNCHANGED <<published, gone, cache>>

\* Mutant: an answer without the key renews the entry it found wanting.
ReceiveRenews(r) ==
    /\ req[r].phase = "receive"
    /\ IF req[r].kid \in req[r].keys
       THEN /\ cache' = [keys |-> req[r].keys, age |-> 0]
            /\ \E phase \in {"accepted", "rejected"} :
                 req' = [req EXCEPT ![r] = At(phase, req[r].kid, FALSE)]
       ELSE /\ cache' = [cache EXCEPT !.age = 0]
            /\ req' = [req EXCEPT ![r] = At("unknown_key", req[r].kid, req[r].steady)]
    /\ UNCHANGED <<published, gone>>

(* The answer has the key: the whole set replaces the entry, dated now,    *)
(* whatever was inserted since, and before the token is decoded.  It does  *)
(* not: the entry stays as it was.                                         *)
Receive(r) ==
    /\ req[r].phase = "receive"
    /\ IF req[r].kid \in req[r].keys
       THEN /\ cache' = [keys |-> req[r].keys, age |-> 0]
            /\ \E phase \in {"accepted", "rejected"} :
                 req' = [req EXCEPT ![r] = At(phase, req[r].kid, FALSE)]
       ELSE /\ req' = [req EXCEPT ![r] = At("unknown_key", req[r].kid, req[r].steady)]
            /\ UNCHANGED cache
    /\ UNCHANGED <<published, gone>>

(* Discovery, the fetch or the parse fails, or times out: 401.             *)
FetchFails(r) ==
    /\ req[r].phase \in InFlight
    /\ req' = [req EXCEPT ![r] = At("rejected", req[r].kid, FALSE)]
    /\ UNCHANGED <<published, gone, cache>>

(* The request got its answer: 401, or the handler with the Principal.     *)
Leave(r) ==
    /\ req[r].phase \in {"accepted", "unknown_key", "rejected"}
    /\ req' = [req EXCEPT ![r] = At("idle", req[r].kid, FALSE)]
    /\ UNCHANGED <<published, gone, cache>>

Fetch(r) == Discover(r) \/ IssuerAnswers(r) \/ Receive(r) \/ FetchFails(r)

Publish(k) ==
    /\ k \notin published
    /\ published' = published \cup {k} /\ gone' = [gone EXCEPT ![k] = 0]
    /\ UNCHANGED <<cache, req>>

Withdraw(k) ==
    /\ k \in published
    /\ published' = published \ {k}
    /\ req' = [r \in Request |->
                 [req[r] EXCEPT !.steady = req[r].steady /\ req[r].kid # k]]
    /\ UNCHANGED <<gone, cache>>

Older(age, limit) == IF age < limit THEN age + 1 ELSE limit

\* Mutant: the HTTP client has no timeout.
TickUnbounded ==
    /\ gone' = [k \in Key |-> IF k \in published THEN 0 ELSE Older(gone[k], Forgotten)]
    /\ cache' = [cache EXCEPT !.age = Older(cache.age, Expired)]
    /\ req' = [r \in Request |->
                 IF req[r].phase \in InFlight THEN [req[r] EXCEPT !.age = req[r].age + 1]
                 ELSE req[r]]
    /\ UNCHANGED published

(* Time passes; the HTTP client gives up on a request before its timeout   *)
(* is over.                                                                *)
Tick ==
    /\ \A r \in Request : req[r].phase \in InFlight => req[r].age < FetchTimeout
    /\ gone' = [k \in Key |-> IF k \in published THEN 0 ELSE Older(gone[k], Forgotten)]
    /\ cache' = [cache EXCEPT !.age = Older(cache.age, Expired)]
    /\ req' = [r \in Request |->
                 IF req[r].phase \in InFlight THEN [req[r] EXCEPT !.age = req[r].age + 1]
                 ELSE req[r]]
    /\ UNCHANGED published

JwksNext ==
    \/ Tick
    \/ \E k \in Key : Publish(k) \/ Withdraw(k)
    \/ \E r \in Request : Arrive(r) \/ Fetch(r) \/ Leave(r)

JwksSpec == JwksInit /\ [][JwksNext]_jwksVars

-----------------------------------------------------------------------------
(* "Retired keys eventually fall out of cache" (AUTH.md:119): whatever     *)
(* slow answers overwrite the entry, a token is accepted under a key at    *)
(* most TTL and the time of a fetch after the issuer last published it     *)
(* (jwt.rs:515-536).                                                       *)
RetiredKeysFallOut ==
    [][\A r \in Request :
         (req'[r].phase = "accepted" /\ req[r].phase # "accepted") =>
             gone[req'[r].kid] =< TTL + FetchTimeout]_jwksVars

(* "Key rotation without downtime" (AUTH.md:115-117): a request whose key  *)
(* has been published since it arrived is never refused for an unknown key,*)
(* though the cached set, or one a concurrent request inserts, lacks it    *)
(* (jwt.rs:521-535).                                                       *)
RotationWithoutDowntime ==
    \A r \in Request : req[r].phase = "unknown_key" => ~req[r].steady

=============================================================================
