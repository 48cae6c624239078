------------------------- MODULE OidcValidator_proofs -------------------------
(***************************************************************************)
(* Proofs about OidcValidator for any number of callers, keys, rotations   *)
(* and calls, and any cache lifetime and latency: the type invariant, that *)
(* withdrawn keys expire and that published keys are found.                *)
(***************************************************************************)
EXTENDS OidcValidator, FiniteSetTheorems, TLAPS

\* A key set that was current at time t: none of its keys was withdrawn
\* before.
CurrentAt(ks, t) == \A k \in ks : goneAt[k] = Never \/ t <= goneAt[k]

\* A call that began at time t may still accept key k.
MayAccept(k, t) == goneAt[k] = Never \/ t < goneAt[k] + TTL + Latency

\* The cache and the key sets under way are as old as the clock says.
AgeInv ==
    /\ \A k \in Kids : goneAt[k] = Never <=> k \in jwks
    /\ fetched # Never =>
        fetched <= now /\ \A k \in keys : goneAt[k] = Never \/ fetched <= goneAt[k] + Latency
    /\ \A c \in Callers :
        /\ began[c] <= now
        /\ pc[c] = "store" => /\ CurrentAt(served[c], asked[c])
                              /\ asked[c] <= now /\ now <= asked[c] + Latency
        /\ pc[c] = "lookup" => \A k \in keys : MayAccept(k, began[c])
        /\ pc[c] = "accepted" => /\ tok[c].signer \in Kids
                                 /\ MayAccept(tok[c].signer, began[c])

\* The mutex is held across the requests for the keys.
MutexInv == \A c \in Callers : pc[c] \in {"discover", "get", "store"} => mu = c

\* Once a call has forced its refresh, a kid that was published all along is
\* in every key set stored since, and in those under way: the reset waits for
\* the mutex, so that no older set is still to be stored.
Looking == {"ensure", "discover", "get", "store", "lookup"}
FoundInv ==
    \A c \in Callers :
        /\ published[c] => tok[c].kid \in jwks
        /\ pc[c] = "idle" => ~forced[c]
        /\ forced[c] /\ published[c] /\ pc[c] \in Looking =>
            /\ fetched # Never => tok[c].kid \in keys
            /\ pc[c] = "lookup" => tok[c].kid \in keys
            /\ \A d \in Callers : pc[d] = "store" => tok[c].kid \in served[d]
        /\ pc[c] = "unknown" => ~published[c]

IInv == TypeOK /\ AgeInv /\ MutexInv /\ FoundInv

-----------------------------------------------------------------------------
\* The initial states satisfy the inductive invariant.
LEMMA InitIInv == Init => IInv
  <1> SUFFICES ASSUME Init PROVE IInv
    OBVIOUS
  <1>1. NoToken \in Tokens
    BY DEF NoToken, Tokens
  <1>2. TypeOK
    <2>1. jwks \subseteq Kids /\ goneAt \in [Kids -> 0..Never]
      BY OidcAssumption DEF Init, Never
    <2>2. /\ now \in 0..MaxTime /\ rotations \in 0..MaxRotations /\ calls \in 0..MaxCalls
          /\ fetched \in 0..Never
          /\ asked \in [Callers -> 0..MaxTime] /\ began \in [Callers -> 0..MaxTime]
      BY OidcAssumption DEF Init, Never
    <2>3. /\ keys \subseteq Kids /\ uri \in BOOLEAN /\ mu \in Callers \cup {Nobody}
          /\ served \in [Callers -> SUBSET Kids] /\ tok \in [Callers -> Tokens]
          /\ forced \in [Callers -> BOOLEAN] /\ published \in [Callers -> BOOLEAN]
      BY <1>1 DEF Init
    <2> QED
      BY <2>1, <2>2, <2>3 DEF Init, TypeOK
  <1>3. AgeInv
    BY OidcAssumption DEF Init, AgeInv, Never, CurrentAt, MayAccept
  <1>4. MutexInv /\ FoundInv
    BY DEF Init, MutexInv, FoundInv, Looking
  <1> QED
    BY <1>2, <1>3, <1>4 DEF IInv

\* Every step keeps the variables in their types.
LEMMA StepTypeOK == TypeOK /\ [Next]_vars => TypeOK'
  <1> SUFFICES ASSUME TypeOK, [Next]_vars PROVE TypeOK'
    OBVIOUS
  <1> USE OidcAssumption DEF TypeOK, issuerVars, cacheVars, callVars, Goto, Results, Never
  <1>1. CASE Rotate
    BY <1>1 DEF Rotate
  <1>2. CASE Tick
    BY <1>2 DEF Tick
  <1>3. ASSUME NEW c \in Callers, Validate(c) PROVE TypeOK'
    BY <1>3 DEF Validate
  <1>4. ASSUME NEW c \in Callers, Ensure(c) PROVE TypeOK'
    BY <1>4 DEF Ensure
  <1>5. ASSUME NEW c \in Callers, Discovered(c) PROVE TypeOK'
    BY <1>5 DEF Discovered
  <1>6. ASSUME NEW c \in Callers, Served(c) PROVE TypeOK'
    BY <1>6 DEF Served
  <1>7. ASSUME NEW c \in Callers, Store(c) PROVE TypeOK'
    BY <1>7 DEF Store
  <1>8. ASSUME NEW c \in Callers, FetchFails(c) PROVE TypeOK'
    BY <1>8 DEF FetchFails
  <1>9. ASSUME NEW c \in Callers, Lookup(c) PROVE TypeOK'
    BY <1>9 DEF Lookup, Verify
  <1>10. ASSUME NEW c \in Callers, Reset(c) PROVE TypeOK'
    BY <1>10 DEF Reset
  <1>11. ASSUME NEW c \in Callers, Return(c) PROVE TypeOK'
    <2>1. NoToken \in Tokens
      BY DEF NoToken, Tokens
    <2> QED
      BY <1>11, <2>1 DEF Return
  <1>12. CASE UNCHANGED vars
    BY <1>12 DEF vars
  <1> QED
    BY <1>1, <1>2, <1>3, <1>4, <1>5, <1>6, <1>7, <1>8, <1>9, <1>10, <1>11, <1>12
    DEF Next, Call

\* Every step keeps the mutex with its holder.
LEMMA StepMutexInv == TypeOK /\ MutexInv /\ [Next]_vars => MutexInv'
  <1> SUFFICES ASSUME TypeOK, MutexInv, [Next]_vars PROVE MutexInv'
    OBVIOUS
  <1> USE OidcAssumption DEF TypeOK, MutexInv, issuerVars, cacheVars, callVars, Goto, Results
  <1>1. CASE Rotate \/ Tick \/ UNCHANGED vars
    BY <1>1 DEF Rotate, Tick, vars
  <1>2. ASSUME NEW c \in Callers, Validate(c) \/ Lookup(c) \/ Reset(c) \/ Return(c)
        PROVE  MutexInv'
    BY <1>2 DEF Validate, Lookup, Verify, Reset, Return
  <1>3. ASSUME NEW c \in Callers, Ensure(c) \/ Discovered(c) \/ Served(c)
        PROVE  MutexInv'
    BY <1>3 DEF Ensure, Discovered, Served
  <1>4. ASSUME NEW c \in Callers, Store(c) \/ FetchFails(c) PROVE MutexInv'
    BY <1>4 DEF Store, FetchFails
  <1> QED
    BY <1>1, <1>2, <1>3, <1>4 DEF Next, Call

-----------------------------------------------------------------------------
\* The clock and the issuer: a tick makes nothing older than it may become,
\* and what is withdrawn now was current until now.
LEMMA EnvironmentAge == TypeOK /\ AgeInv /\ (Rotate \/ Tick) => AgeInv'
  <1> SUFFICES ASSUME TypeOK, AgeInv, Rotate \/ Tick PROVE AgeInv'
    OBVIOUS
  <1> USE OidcAssumption DEF TypeOK, cacheVars, callVars, issuerVars
  <1>1. CASE Tick
    BY <1>1 DEF Tick, AgeInv, CurrentAt, MayAccept
  <1>2. CASE Rotate
    <2>1. \A k \in Kids : goneAt'[k] = goneAt[k] \/ goneAt'[k] = now \/ goneAt'[k] = Never
      BY <1>2 DEF Rotate
    <2>2. \A k \in Kids : goneAt'[k] = Never <=> k \in jwks'
      BY <1>2 DEF Rotate, AgeInv, Never
    <2>3. UNCHANGED <<now, keys, fetched, pc, tok, served, asked, began>>
      BY <1>2 DEF Rotate
    <2>4. fetched # Never => \A k \in keys : goneAt'[k] = Never \/ fetched <= goneAt'[k] + Latency
      BY <2>1 DEF AgeInv
    <2>5. ASSUME NEW t \in 0..MaxTime, t <= now, NEW ks \in SUBSET Kids, CurrentAt(ks, t)
          PROVE  \A k \in ks : goneAt'[k] = Never \/ t <= goneAt'[k]
      BY <2>1, <2>5 DEF CurrentAt
    <2>6. ASSUME NEW c \in Callers
          PROVE  /\ pc[c] = "store" => \A k \in served[c] : goneAt'[k] = Never \/ asked[c] <= goneAt'[k]
                 /\ pc[c] = "lookup" => \A k \in keys : MayAccept(k, began[c])'
                 /\ pc[c] = "accepted" => MayAccept(tok[c].signer, began[c])'
      <3>1. /\ began[c] \in 0..MaxTime /\ began[c] <= now
            /\ asked[c] \in 0..MaxTime /\ served[c] \in SUBSET Kids
            /\ keys \subseteq Kids
        BY DEF AgeInv
      <3>2. CASE pc[c] = "store"
        BY <2>5, <3>1, <3>2 DEF AgeInv
      <3>3. CASE pc[c] = "lookup"
        BY <2>3, <2>1, <3>1, <3>3 DEF AgeInv, MayAccept, Never
      <3>4. CASE pc[c] = "accepted"
        BY <2>3, <2>1, <3>1, <3>4 DEF AgeInv, MayAccept, Never
      <3> QED
        BY <3>2, <3>3, <3>4
    <2> QED
      BY <2>2, <2>3, <2>4, <2>6 DEF AgeInv, CurrentAt, MayAccept, Never
  <1> QED
    BY <1>1, <1>2

\* A call that finds the cache fresh began within the lifetime of its keys.
LEMMA EnsureAge ==
    ASSUME TypeOK, AgeInv, NEW c \in Callers, Ensure(c) PROVE AgeInv'
  <1> USE OidcAssumption DEF TypeOK, cacheVars, callVars, issuerVars, Goto
  <1>1. Fresh => \A k \in keys : MayAccept(k, began[c])
    BY DEF AgeInv, Fresh, MayAccept, Never
  <1> QED
    BY <1>1 DEF Ensure, AgeInv, CurrentAt, MayAccept

\* A stored key set is at most Latency old.
LEMMA StoreAge ==
    ASSUME TypeOK, AgeInv, NEW c \in Callers, Store(c) PROVE AgeInv'
  <1> USE OidcAssumption DEF TypeOK, cacheVars, callVars, issuerVars, Goto
  <1>1. \A k \in served[c] : goneAt[k] = Never \/ now <= goneAt[k] + Latency
    BY DEF Store, AgeInv, CurrentAt
  <1>2. \A d \in Callers, k \in served[c] : MayAccept(k, began[d])
    BY <1>1 DEF AgeInv, MayAccept
  <1> QED
    BY <1>1, <1>2 DEF Store, AgeInv, CurrentAt, MayAccept

\* A call that accepts uses a key of the cache, and the signature is that
\* key's.
LEMMA LookupAge ==
    ASSUME TypeOK, AgeInv, NEW c \in Callers, Lookup(c) PROVE AgeInv'
  <1> USE OidcAssumption DEF TypeOK, cacheVars, callVars, issuerVars, Goto
  <1>1. pc'[c] = "accepted" => tok[c].signer \in keys
    BY DEF Lookup, Verify, VerifyRS256
  <1>2. pc'[c] \notin {"lookup", "store"}
    BY DEF Lookup, Verify
  <1>3. \A d \in Callers : d # c => pc'[d] = pc[d]
    BY DEF Lookup, Verify
  <1>4. pc[c] = "lookup" /\ UNCHANGED <<now, jwks, goneAt, keys, fetched, tok, served, asked, began>>
    BY DEF Lookup
  <1> QED
    BY <1>1, <1>2, <1>3, <1>4 DEF AgeInv, CurrentAt, MayAccept

\* Every step keeps the ages.
LEMMA StepAgeInv == TypeOK /\ AgeInv /\ [Next]_vars => AgeInv'
  <1> SUFFICES ASSUME TypeOK, AgeInv, [Next]_vars PROVE AgeInv'
    OBVIOUS
  <1> USE OidcAssumption DEF TypeOK, cacheVars, callVars, issuerVars, Goto
  <1>1. ASSUME NEW c \in Callers, Validate(c) PROVE AgeInv'
    BY <1>1 DEF Validate, AgeInv, CurrentAt, MayAccept
  <1>2. ASSUME NEW c \in Callers, Discovered(c) \/ FetchFails(c) PROVE AgeInv'
    BY <1>2 DEF Discovered, FetchFails, AgeInv, CurrentAt, MayAccept
  <1>3. ASSUME NEW c \in Callers, Served(c) PROVE AgeInv'
    BY <1>3 DEF Served, AgeInv, CurrentAt, MayAccept
  <1>4. ASSUME NEW c \in Callers, Reset(c) PROVE AgeInv'
    BY <1>4 DEF Reset, AgeInv, CurrentAt, MayAccept
  <1>5. ASSUME NEW c \in Callers, Return(c) PROVE AgeInv'
    BY <1>5 DEF Return, AgeInv, CurrentAt, MayAccept
  <1>6. CASE UNCHANGED vars
    BY <1>6 DEF vars, AgeInv, CurrentAt, MayAccept
  <1> QED
    BY <1>1, <1>2, <1>3, <1>4, <1>5, <1>6,
       EnvironmentAge, EnsureAge, StoreAge, LookupAge DEF Next, Call

-----------------------------------------------------------------------------
\* The steps that touch neither the cache nor the key sets under way.
LEMMA QuietFound ==
    ASSUME TypeOK, MutexInv, FoundInv,
           \/ Tick \/ UNCHANGED vars
           \/ \E c \in Callers : Validate(c) \/ Discovered(c) \/ FetchFails(c) \/ Return(c)
    PROVE  FoundInv'
  <1> USE DEF TypeOK, issuerVars, cacheVars, callVars, Goto, Results, FoundInv, Looking
  <1>1. CASE Tick \/ UNCHANGED vars
    BY <1>1 DEF Tick, vars
  <1>2. ASSUME NEW c \in Callers, Validate(c) PROVE FoundInv'
    BY <1>2 DEF Validate
  <1>3. ASSUME NEW c \in Callers, Discovered(c) PROVE FoundInv'
    BY <1>3 DEF Discovered
  <1>4. ASSUME NEW c \in Callers, FetchFails(c) PROVE FoundInv'
    BY <1>4 DEF FetchFails
  <1>5. ASSUME NEW c \in Callers, Return(c) PROVE FoundInv'
    BY <1>5 DEF Return
  <1> QED
    BY <1>1, <1>2, <1>3, <1>4, <1>5

\* A rotation that withdraws a kid ends the claim that it was published.
LEMMA RotateFound == ASSUME TypeOK, FoundInv, Rotate PROVE FoundInv'
  BY DEF TypeOK, Rotate, FoundInv, Looking, cacheVars, callVars

\* What the issuer serves now has every kid published until now.
LEMMA FetchFound ==
    ASSUME TypeOK, MutexInv, FoundInv, NEW c \in Callers, Served(c) \/ Store(c)
    PROVE  FoundInv'
  <1> USE OidcAssumption DEF TypeOK, issuerVars, cacheVars, callVars, Goto, Looking
  <1>1. CASE Served(c)
    BY <1>1 DEF Served, FoundInv
  <1>2. CASE Store(c)
    \* The mutex leaves no other key set under way.
    <2>1. \A d \in Callers : d # c => pc[d] \notin {"discover", "get", "store"}
      BY <1>2 DEF Store, MutexInv
    <2> QED
      BY <1>2, <2>1 DEF Store, FoundInv
  <1> QED
    BY <1>1, <1>2

\* The cache is fresh, looked up or reset by one critical section each.
LEMMA LookupFound ==
    ASSUME TypeOK, MutexInv, FoundInv, NEW c \in Callers,
           Ensure(c) \/ Lookup(c) \/ Reset(c)
    PROVE  FoundInv'
  <1> USE OidcAssumption DEF TypeOK, issuerVars, cacheVars, callVars, Goto, Looking
  <1>1. CASE Ensure(c)
    BY <1>1 DEF Ensure, FoundInv, Fresh
  <1>2. CASE Lookup(c)
    BY <1>2 DEF Lookup, Verify, FoundInv
  <1>3. CASE Reset(c)
    \* Whoever resets has waited until no key set was under way.
    <2>1. \A d \in Callers : pc[d] \notin {"discover", "get", "store"}
      BY <1>3 DEF Reset, MutexInv
    <2> QED
      BY <1>3, <2>1 DEF Reset, FoundInv
  <1> QED
    BY <1>1, <1>2, <1>3

-----------------------------------------------------------------------------
\* The inductive invariant holds throughout.
THEOREM InductiveInvariant == Spec => []IInv
  <1>1. IInv /\ [Next]_vars => FoundInv'
    BY QuietFound, RotateFound, FetchFound, LookupFound DEF IInv, Next, Call
  <1>2. IInv /\ [Next]_vars => IInv'
    BY <1>1, StepTypeOK, StepMutexInv, StepAgeInv DEF IInv
  <1> QED
    BY <1>2, InitIInv, PTL DEF Spec

\* Type correctness of the cache and of the calls.
THEOREM TypeCorrect == Spec => []TypeOK
  BY InductiveInvariant, PTL DEF IInv

\* No token of a withdrawn key is accepted by a call that began JWKSCacheTTL
\* and one request after the withdrawal.
THEOREM WithdrawnKeysAreForgotten == Spec => []WithdrawnKeysExpire
  <1>1. IInv => WithdrawnKeysExpire
    BY OidcAssumption DEF IInv, AgeInv, TypeOK, MayAccept, WithdrawnKeysExpire
  <1> QED
    BY <1>1, InductiveInvariant, PTL

\* "unknown kid" is never said of a kid published all through the call,
\* whatever other calls reset, fetch or fail to fetch meanwhile.
THEOREM PublishedKeysAreFound == Spec => []UnknownOnlyIfUnpublished
  <1>1. IInv => UnknownOnlyIfUnpublished
    BY DEF IInv, FoundInv, UnknownOnlyIfUnpublished
  <1> QED
    BY <1>1, InductiveInvariant, PTL

-----------------------------------------------------------------------------
(* Signatures.  UnknownKidIsRefreshed does not hold, but only because a    *)
(* single cached key is tried for a kid that it does not have.             *)

\* The cache and the sets under way never hold one key alone, and a
\* signature is found bad only by the key that the token names.
SeveralInv ==
    /\ Cardinality(keys) # 1
    /\ \A c \in Callers :
        /\ pc[c] = "store" => Cardinality(served[c]) # 1
        /\ pc[c] = "badSig" => tok[c].signer # tok[c].kid

\* While the issuer always publishes several keys, no token with a key's own
\* signature is ever refused for it, published or withdrawn, whatever the
\* cache goes through (the lookup in Validate).
THEOREM OnlySingleKeysMislead ==
    Spec /\ [](Cardinality(jwks) # 1) => []UnknownKidIsRefreshed
  <1>1. Init => SeveralInv
    BY FS_EmptySet DEF Init, SeveralInv
  <1>2. TypeOK /\ SeveralInv /\ Cardinality(jwks) # 1 /\ [Next]_vars => SeveralInv'
    <2> SUFFICES ASSUME TypeOK, SeveralInv, Cardinality(jwks) # 1, [Next]_vars
                 PROVE  SeveralInv'
      OBVIOUS
    <2> USE DEF TypeOK, SeveralInv, issuerVars, cacheVars, callVars, Goto, Results
    <2>1. CASE Rotate \/ Tick
      BY <2>1 DEF Rotate, Tick
    <2>2. ASSUME NEW c \in Callers, Validate(c) PROVE SeveralInv'
      BY <2>2 DEF Validate
    <2>3. ASSUME NEW c \in Callers, Ensure(c) \/ Discovered(c) \/ FetchFails(c) \/ Reset(c)
          PROVE  SeveralInv'
      BY <2>3 DEF Ensure, Discovered, FetchFails, Reset
    <2>4. ASSUME NEW c \in Callers, Served(c) PROVE SeveralInv'
      BY <2>4 DEF Served
    <2>5. ASSUME NEW c \in Callers, Store(c) PROVE SeveralInv'
      BY <2>5 DEF Store
    <2>6. ASSUME NEW c \in Callers, Lookup(c) PROVE SeveralInv'
      \* The kid is in the cache, or nothing is verified.
      <3>1. pc'[c] = "badSig" => tok[c].signer # tok[c].kid
        BY <2>6 DEF Lookup, Verify, VerifyRS256
      <3> QED
        BY <2>6, <3>1 DEF Lookup, Verify
    <2>7. ASSUME NEW c \in Callers, Return(c) PROVE SeveralInv'
      BY <2>7 DEF Return
    <2>8. CASE UNCHANGED vars
      BY <2>8 DEF vars
    <2> QED
      BY <2>1, <2>2, <2>3, <2>4, <2>5, <2>6, <2>7, <2>8 DEF Next, Call
  <1>3. SeveralInv => UnknownKidIsRefreshed
    BY DEF SeveralInv, UnknownKidIsRefreshed
  <1> QED
    BY <1>1, <1>2, <1>3, TypeCorrect, PTL DEF Spec
=============================================================================
