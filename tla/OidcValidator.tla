--------------------------- MODULE OidcValidator ---------------------------
(***************************************************************************)
(* idp.OIDC: concurrent Validate calls over one cache of the issuer's      *)
(* signing keys (idp/oidc.go).  ensureKeys keeps the mutex over the        *)
(* network; every other access to the cache is a short critical section.   *)
(* The issuer publishes key sets, rotates them, and may be unreachable.    *)
(***************************************************************************)
EXTENDS Naturals, FiniteSets

CONSTANTS
    Kids,           \* ids of signing keys; a key is named by its id
    Forger,         \* a signer the issuer never publishes
    NoKid,          \* a token header without "kid"
    Callers,        \* goroutines that call Validate
    Nobody,
    TTL,            \* JWKSCacheTTL
    Latency,        \* longest time between a key set's being served and
                    \*   its being stored (the client's timeout)
    MaxTime,        \* bound: the clock
    MaxRotations,   \* bound: key sets the issuer publishes after the first
    MaxCalls        \* bound: Validate calls

ASSUME OidcAssumption ==
    /\ TTL \in Nat \ {0} /\ Latency \in Nat /\ MaxTime \in Nat
    /\ MaxRotations \in Nat /\ MaxCalls \in Nat
    /\ Forger \notin Kids /\ NoKid \notin Kids /\ Nobody \notin Callers

\* The issuer's tokens name their key or none; a forged one names any.
Tokens  == {t \in [signer : Kids \cup {Forger}, kid : Kids \cup {NoKid}] :
                t.signer = Forger \/ t.kid \in {t.signer, NoKid}}
NoToken == [signer |-> Forger, kid |-> NoKid]
Never  == MaxTime + 1

VARIABLES
    now,
    jwks,       \* the issuer: kids it publishes
    goneAt,     \*   when it withdrew each kid, or Never
    rotations,  \*   how often it rotated
    calls,      \* Validate calls begun
    keys,       \* OIDC.keys
    fetched,    \* OIDC.fetched, Never for the zero time
    uri,        \* OIDC.jwksURI is known
    mu,         \* holder of OIDC.mu across a network call, or Nobody
    pc,         \* each caller: "idle", "ensure", "discover", "get", "store",
                \*   "lookup", "reset", "accepted", "unknown", "badSig",
                \*   "refused"
    tok,        \* the token it validates
    forced,     \* it has forced its refresh
    served,     \* the key set the issuer has served it
    asked,      \* when it was served
    began,      \* when it began
    published   \* history: its kid was published all along since

issuerVars == <<jwks, goneAt, rotations>>
cacheVars  == <<keys, fetched, uri, mu>>
callVars   == <<pc, tok, forced, served, asked, began>>
vars == <<now, issuerVars, cacheVars, callVars, published, calls>>

\* "refused": the request for the keys failed, or the claims are wrong.
Results == {"accepted", "unknown", "badSig", "refused"}

Init ==
    /\ now = 0
    /\ jwks \in SUBSET Kids \ {{}}
    /\ goneAt = [k \in Kids |-> IF k \in jwks THEN Never ELSE 0]
    /\ rotations = 0 /\ calls = 0
    /\ keys = {} /\ fetched = Never /\ uri = FALSE /\ mu = Nobody
    /\ pc = [c \in Callers |-> "idle"]
    /\ tok = [c \in Callers |-> NoToken]
    /\ forced = [c \in Callers |-> FALSE]
    /\ served = [c \in Callers |-> {}]
    /\ asked = [c \in Callers |-> 0] /\ began = [c \in Callers |-> 0]
    /\ published = [c \in Callers |-> FALSE]

-----------------------------------------------------------------------------
(* The issuer and the clock.                                               *)

Rotate ==
    /\ rotations < MaxRotations /\ rotations' = rotations + 1
    /\ \E ks \in SUBSET Kids \ {{}, jwks} :
        /\ jwks' = ks
        /\ goneAt' = [k \in Kids |-> IF k \in ks THEN Never
                                     ELSE IF k \in jwks THEN now ELSE goneAt[k]]
        /\ published' = [c \in Callers |-> published[c] /\ tok[c].kid \in ks]
    /\ UNCHANGED <<now, cacheVars, callVars, calls>>

Tick ==
    /\ now < MaxTime
    /\ \A c \in Callers : pc[c] = "store" => now - asked[c] < Latency
    /\ now' = now + 1
    /\ UNCHANGED <<issuerVars, cacheVars, callVars, published, calls>>

-----------------------------------------------------------------------------
Goto(c, label) == pc' = [pc EXCEPT ![c] = label]

Validate(c) ==
    /\ pc[c] = "idle" /\ calls < MaxCalls
    /\ calls' = calls + 1
    /\ Goto(c, "ensure")
    /\ began' = [began EXCEPT ![c] = now]
    /\ \E t \in Tokens :
        /\ tok' = [tok EXCEPT ![c] = t]
        /\ published' = [published EXCEPT ![c] = t.kid \in jwks]
    /\ UNCHANGED <<now, issuerVars, cacheVars, forced, served, asked>>

(* ensureKeys: nothing to do while the cache is fresh, else discovery once *)
(* and the key set, all under the mutex.                                   *)

Fresh == keys # {} /\ fetched # Never /\ now - fetched < TTL

Ensure(c) ==
    /\ pc[c] = "ensure" /\ mu = Nobody
    /\ IF Fresh
         THEN Goto(c, "lookup") /\ UNCHANGED mu
         ELSE Goto(c, IF uri THEN "get" ELSE "discover") /\ mu' = c
    /\ UNCHANGED <<now, calls, issuerVars, keys, fetched, uri, published,
                   tok, forced, served, asked, began>>

Discovered(c) ==
    /\ pc[c] = "discover"
    /\ Goto(c, "get")
    /\ uri' = TRUE
    /\ UNCHANGED <<now, calls, issuerVars, keys, fetched, mu, published,
                   tok, forced, served, asked, began>>

Served(c) ==
    /\ pc[c] = "get"
    /\ Goto(c, "store")
    /\ served' = [served EXCEPT ![c] = jwks]
    /\ asked' = [asked EXCEPT ![c] = now]
    /\ UNCHANGED <<now, calls, issuerVars, cacheVars, published, tok, forced, began>>

\* Slip: new keys are added to the old ones.
Store_Merges(c) ==
    /\ pc[c] = "store"
    /\ Goto(c, "lookup")
    /\ keys' = keys \cup served[c] /\ fetched' = now /\ mu' = Nobody
    /\ served' = [served EXCEPT ![c] = {}] /\ asked' = [asked EXCEPT ![c] = 0]
    /\ UNCHANGED <<now, calls, issuerVars, uri, published, tok, forced, began>>

\* Slip: a key without "kid" is stored under the empty name.
Store_KeepsUnnamed(c) ==
    /\ pc[c] = "store"
    /\ Goto(c, "lookup")
    /\ keys' = served[c] \cup {NoKid} /\ fetched' = now /\ mu' = Nobody
    /\ served' = [served EXCEPT ![c] = {}] /\ asked' = [asked EXCEPT ![c] = 0]
    /\ UNCHANGED <<now, calls, issuerVars, uri, published, tok, forced, began>>

Store(c) ==
    /\ pc[c] = "store"
    /\ Goto(c, "lookup")
    /\ keys' = served[c] /\ fetched' = now /\ mu' = Nobody
    /\ served' = [served EXCEPT ![c] = {}] /\ asked' = [asked EXCEPT ![c] = 0]
    /\ UNCHANGED <<now, calls, issuerVars, uri, published, tok, forced, began>>

FetchFails(c) ==
    /\ pc[c] \in {"discover", "get"}
    /\ Goto(c, "refused")
    /\ mu' = Nobody
    /\ UNCHANGED <<now, calls, issuerVars, keys, fetched, uri, published,
                   tok, forced, served, asked, began>>

(* The key of the token's kid, or the only key there is; else one forced   *)
(* refresh, after which the kid must be there.  What follows the lookup    *)
(* (verifyRS256, then issuer, audience and expiry) touches nothing shared  *)
(* and is part of the same step.                                           *)

VerifyRS256(t, k) == t.signer = k

Verify(c, k) ==
    IF VerifyRS256(tok[c], k) THEN Goto(c, "accepted") \/ Goto(c, "refused")
                              ELSE Goto(c, "badSig")

Lookup(c) ==
    /\ pc[c] = "lookup" /\ mu = Nobody
    /\ \/ tok[c].kid \in keys /\ Verify(c, tok[c].kid)
       \/ /\ tok[c].kid \notin keys /\ ~forced[c] /\ Cardinality(keys) = 1
          /\ \E k \in keys : Verify(c, k)
       \/ /\ tok[c].kid \notin keys /\ ~forced[c] /\ Cardinality(keys) # 1
          /\ Goto(c, "reset")
       \/ /\ tok[c].kid \notin keys /\ forced[c]
          /\ Goto(c, "unknown")
    /\ UNCHANGED <<now, calls, issuerVars, cacheVars, published, tok, forced, served, asked, began>>

\* Slip: the forced refresh leaves the fetch time, so nothing is refetched.
Reset_KeepsFetched(c) ==
    /\ pc[c] = "reset" /\ mu = Nobody
    /\ Goto(c, "ensure")
    /\ forced' = [forced EXCEPT ![c] = TRUE]
    /\ UNCHANGED <<now, calls, issuerVars, cacheVars, published, tok, served, asked, began>>

Reset(c) ==
    /\ pc[c] = "reset" /\ mu = Nobody
    /\ Goto(c, "ensure")
    /\ forced' = [forced EXCEPT ![c] = TRUE] /\ fetched' = Never
    /\ UNCHANGED <<now, calls, issuerVars, keys, uri, mu, published, tok, served, asked, began>>

\* The goroutine may validate another token.
Return(c) ==
    /\ pc[c] \in Results
    /\ Goto(c, "idle")
    /\ tok' = [tok EXCEPT ![c] = NoToken]
    /\ forced' = [forced EXCEPT ![c] = FALSE]
    /\ began' = [began EXCEPT ![c] = 0]
    /\ published' = [published EXCEPT ![c] = FALSE]
    /\ UNCHANGED <<now, calls, issuerVars, cacheVars,  served, asked>>

Call(c) ==
    \/ Ensure(c) \/ Discovered(c) \/ Served(c) \/ Store(c) \/ FetchFails(c)
    \/ Lookup(c) \/ Reset(c)

Next ==
    \/ Rotate \/ Tick
    \/ \E c \in Callers : Validate(c) \/ Call(c) \/ Return(c)

Spec == Init /\ [][Next]_vars

-----------------------------------------------------------------------------
\* The variables have the types the code gives them.
TypeOK ==
    /\ now \in 0..MaxTime /\ jwks \subseteq Kids
    /\ goneAt \in [Kids -> 0..Never]
    /\ rotations \in 0..MaxRotations /\ calls \in 0..MaxCalls
    /\ keys \subseteq Kids /\ fetched \in 0..Never /\ uri \in BOOLEAN
    /\ mu \in Callers \cup {Nobody}
    /\ pc \in [Callers -> Results \cup {"idle", "ensure", "discover", "get",
                                        "store", "lookup", "reset"}]
    /\ tok \in [Callers -> Tokens] /\ forced \in [Callers -> BOOLEAN]
    /\ served \in [Callers -> SUBSET Kids]
    /\ asked \in [Callers -> 0..MaxTime] /\ began \in [Callers -> 0..MaxTime]
    /\ published \in [Callers -> BOOLEAN]

\* A token is accepted only with the signature of a key the issuer published,
\* and never by a call that began later than the cache's lifetime and one
\* request after the issuer withdrew that key, whatever refreshes, rotations
\* and outages lie between.
WithdrawnKeysExpire ==
    \A c \in Callers : pc[c] = "accepted" =>
        /\ tok[c].signer \in Kids
        /\ goneAt[tok[c].signer] = Never \/ began[c] < goneAt[tok[c].signer] + TTL + Latency

\* "unknown kid" is said only of a kid that was not published all through
\* the call: a refresh by another call never hides a published key.
UnknownOnlyIfUnpublished ==
    \A c \in Callers : pc[c] = "unknown" => ~published[c]

\* A token signed with a published key is not refused for its signature:
\* "force refresh once for unknown kid".
UnknownKidIsRefreshed ==
    \A c \in Callers :
        pc[c] = "badSig" /\ tok[c].signer = tok[c].kid => ~published[c]
=============================================================================
