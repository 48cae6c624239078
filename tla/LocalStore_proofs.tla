-------------------------- MODULE LocalStore_proofs --------------------------
(***************************************************************************)
(* Proofs about LocalStore for every set of keys, values and prefixes: the *)
(* type invariant, that secrets are locked away by one error only, that    *)
(* reads are durable, and that the store implements DurableMap, whatever   *)
(* calls may fail.  And about ProviderStore: it only takes steps of        *)
(* LocalStore, and credentials that PutProviderCredentials has put are     *)
(* durable.                                                                *)
(***************************************************************************)
EXTENDS ProviderStore, TLAPS

\* What each program counter knows.
StepInv ==
    /\ pc = "newKek" => gen \in Keks /\ kekFile = Short
    /\ pc \in {"load", "ready", "flush", "tmp", "rename"}
          => aead \in Keks \cup {EnvKek} /\ aead \in {kekFile, EnvKek}
    /\ pc = "rename" => tmp = [kek |-> aead, map |-> data]
    /\ pc \in {"down", "newKek", "load"} => data = Empty /\ ~failed

IInv == TypeOK /\ StepInv /\ Recoverable /\ ServedIsDurable

-----------------------------------------------------------------------------
\* The initial states satisfy every conjunct.
LEMMA InitIInv == Init => IInv
  <1> SUFFICES ASSUME Init PROVE IInv
    OBVIOUS
  <1>1. Empty \in Maps
    BY DEF Empty, Maps
  <1>2. TypeOK
    <2>1. gen \in 0..MaxKeks /\ kekFile \in Keks \cup {NoKek, Short}
      BY KeksAssumption DEF Init
    <2> QED
      BY <1>1, <2>1 DEF Init, TypeOK
  <1>3. StepInv /\ Recoverable /\ ServedIsDurable
    BY DEF Init, StepInv, Recoverable, KekSurvives, ServedIsDurable, Decrypts
  <1> QED
    BY <1>2, <1>3 DEF IInv

\* Removing keys from a map gives a map.
LEMMA RemoveType ==
    ASSUME data \in Maps, NEW ks, Remove(ks) PROVE data' \in Maps
  BY DEF Remove, Maps

\* Every step keeps the variables in their types and what each pc knows.
LEMMA StepTypes == TypeOK /\ StepInv /\ [Next]_vars => TypeOK' /\ StepInv'
  <1> SUFFICES ASSUME TypeOK, StepInv, [Next]_vars
               PROVE  TypeOK' /\ StepInv'
    OBVIOUS
  <1> USE KeksAssumption DEF TypeOK, StepInv, diskVars
  <1>1. CASE ResolveKek
    <2>1. CASE UsePinned
      BY <2>1 DEF UsePinned
    <2>2. CASE ReadKek
      BY <2>2 DEF ReadKek
    <2>3. CASE NewKek
      <3>1. gen' \in Keks /\ gen' \in 0..MaxKeks
        BY <2>3 DEF NewKek, Keks
      <3>2. kekFile' = Short /\ pc' = "newKek" /\ pc = "down"
        BY <2>3 DEF NewKek
      <3>3. replaced' \in BOOLEAN
        BY <2>3, Zenon DEF NewKek
      <3>4. UNCHANGED <<env, store, tmp, aead, data, failed>>
        BY <2>3 DEF NewKek
      <3> QED
        BY <3>1, <3>2, <3>3, <3>4
    <2> QED
      BY <1>1, <2>1, <2>2, <2>3 DEF ResolveKek, GenerateKek, ReplaceUnreadKek
  <1>2. CASE WriteKek
    BY <1>2 DEF WriteKek, Keks
  <1>3. CASE WriteKekFails
    BY <1>3 DEF WriteKekFails
  <1>4. CASE Load
    <2>1. store.map \in Maps
      BY DEF Files, Missing, Empty, Maps
    <2> QED
      BY <1>4, <2>1 DEF Load
  <1>5. ASSUME NEW k \in Keys, NEW v \in Values, Put(k, v) PROVE TypeOK' /\ StepInv'
    <2>1. data' \in Maps
      BY <1>5 DEF Put, Maps
    <2> QED
      BY <1>5, <2>1 DEF Put
  <1>6. ASSUME NEW ks, Remove(ks) PROVE TypeOK' /\ StepInv'
    <2>1. data' \in Maps
      BY <1>6, RemoveType
    <2> QED
      BY <1>6, <2>1 DEF Remove
  <1>7. CASE TruncateTmp
    BY <1>7 DEF TruncateTmp
  <1>8. CASE FillTmp
    BY <1>8 DEF FillTmp, Files
  <1>9. CASE Rename
    <2>1. tmp \in Files
      BY <1>9 DEF Rename, Files
    <2> QED
      BY <1>9, <2>1 DEF Rename
  <1>10. CASE FlushFails
    BY <1>10 DEF FlushFails
  <1>11. CASE Crash
    <2>1. Empty \in Maps
      BY DEF Empty, Maps
    <2> QED
      BY <1>11, <2>1 DEF Crash
  <1>12. CASE Repin
    BY <1>12 DEF Repin
  <1>13. CASE UNCHANGED vars
    BY <1>13 DEF vars
  <1> QED
    BY <1>1, <1>2, <1>3, <1>4, <1>5, <1>6, <1>7, <1>8, <1>9, <1>10, <1>11, <1>12, <1>13
    DEF Next, Delete, DeletePrefix

-----------------------------------------------------------------------------
\* A file that decrypts under a KEK that is not a complete file's decrypts
\* under any: it is missing or holds no entries, or the pinned KEK opens it.
LEMMA IncompleteKekProtectsNothing ==
    ASSUME NEW file \in Files \cup {Missing}, NEW kek \in {NoKek, Short},
           Decrypts(kek, file)
    PROVE  \A other \in Keks \cup {NoKek, Short, EnvKek} : Decrypts(other, file)
  BY KeksAssumption DEF Decrypts, Files, Keks, NoKek, Short

\* Every step keeps the store decryptable.
LEMMA StepRecoverable ==
    TypeOK /\ StepInv /\ Recoverable /\ [Next]_vars => Recoverable'
  <1> SUFFICES ASSUME TypeOK, StepInv, Recoverable, [Next]_vars
               PROVE  Recoverable'
    OBVIOUS
  <1>0. kekFile \in {NoKek, Short} /\ UNCHANGED <<store, replaced>>
            /\ kekFile' \in Keks \cup {NoKek, Short} => Recoverable'
    BY IncompleteKekProtectsNothing DEF TypeOK, Recoverable, KekSurvives
  <1>00. UNCHANGED <<kekFile, store, replaced>> => Recoverable'
    BY DEF Recoverable, KekSurvives
  <1> USE DEF diskVars
  <1>1. CASE ResolveKek
    <2>1. CASE UsePinned \/ ReadKek
      BY <2>1, <1>00 DEF UsePinned, ReadKek
    <2>2. CASE GenerateKek
      <3>1. kekFile \in {NoKek, Short} /\ kekFile' = Short /\ UNCHANGED store
        BY <2>2 DEF GenerateKek, NewKek, TypeOK
      <3>2. replaced' = (replaced \/ kekFile \in Keks) /\ kekFile \notin Keks
        BY <2>2 DEF GenerateKek, NewKek
      <3>3. replaced' <=> replaced
        BY <3>2
      <3> QED
        BY <3>1, <3>3, IncompleteKekProtectsNothing DEF TypeOK, Recoverable, KekSurvives
    <2>3. CASE ReplaceUnreadKek
      \* The one step that may lock the store away records that it did.
      BY <2>3 DEF ReplaceUnreadKek, NewKek, Recoverable
    <2> QED
      BY <1>1, <2>1, <2>2, <2>3 DEF ResolveKek
  <1>2. CASE WriteKek
    <2>1. kekFile' \in Keks /\ UNCHANGED <<store, replaced>>
      BY <1>2 DEF WriteKek, StepInv
    <2>2. kekFile = Short
      BY <1>2 DEF WriteKek, StepInv
    <2> QED
      BY <2>1, <2>2, <1>0
  <1>3. CASE WriteKekFails \/ Load
    BY <1>3, <1>00 DEF WriteKekFails, Load
  <1>4. ASSUME NEW k \in Keys, NEW v \in Values, Put(k, v) PROVE Recoverable'
    BY <1>4, <1>00 DEF Put
  <1>5. ASSUME NEW ks, Remove(ks) PROVE Recoverable'
    BY <1>5, <1>00 DEF Remove
  <1>6. CASE TruncateTmp \/ FillTmp \/ FlushFails
    BY <1>6, <1>00 DEF TruncateTmp, FillTmp, FlushFails
  <1>7. CASE Rename
    \* What is renamed was encrypted under the KEK in use.
    BY <1>7 DEF Rename, StepInv, Recoverable, KekSurvives, Decrypts
  <1>8. CASE Crash \/ Repin
    BY <1>8, <1>00 DEF Crash, Repin
  <1>9. CASE UNCHANGED vars
    BY <1>9, <1>00 DEF vars
  <1> QED
    BY <1>1, <1>2, <1>3, <1>4, <1>5, <1>6, <1>7, <1>8, <1>9
    DEF Next, Delete, DeletePrefix

\* Every step keeps what is served durable.
LEMMA StepServed ==
    TypeOK /\ StepInv /\ ServedIsDurable /\ [Next]_vars => ServedIsDurable'
  <1> SUFFICES ASSUME TypeOK, StepInv, ServedIsDurable, [Next]_vars
               PROVE  ServedIsDurable'
    OBVIOUS
  <1> USE DEF ServedIsDurable, diskVars
  <1>1. CASE ResolveKek \/ WriteKek \/ WriteKekFails \/ Load
    BY <1>1 DEF ResolveKek, UsePinned, ReadKek, GenerateKek, ReplaceUnreadKek, NewKek,
                WriteKek, WriteKekFails, Load
  <1>2. ASSUME NEW k \in Keys, NEW v \in Values, Put(k, v) PROVE ServedIsDurable'
    BY <1>2 DEF Put
  <1>3. ASSUME NEW ks, Remove(ks) PROVE ServedIsDurable'
    BY <1>3 DEF Remove
  <1>4. CASE TruncateTmp \/ FillTmp \/ FlushFails \/ Crash \/ Repin
    BY <1>4 DEF TruncateTmp, FillTmp, FlushFails, Crash, Repin
  <1>5. CASE Rename
    BY <1>5 DEF Rename, StepInv
  <1>6. CASE UNCHANGED vars
    BY <1>6 DEF vars
  <1> QED
    BY <1>1, <1>2, <1>3, <1>4, <1>5, <1>6 DEF Next, Delete, DeletePrefix

-----------------------------------------------------------------------------
\* The inductive invariant holds throughout.
THEOREM InductiveInvariant == Spec => []IInv
  <1>1. Init => IInv
    BY InitIInv
  <1>2. IInv /\ [Next]_vars => IInv'
    BY StepTypes, StepRecoverable, StepServed DEF IInv
  <1> QED
    BY <1>1, <1>2, PTL DEF Spec

\* Type correctness of the store.
THEOREM TypeCorrect == Spec => []TypeOK
  BY InductiveInvariant, PTL DEF IInv

\* Secrets are locked away in one way only: through crashes, failed writes and
\* changes of the pin, a KEK that still exists decrypts the store, unless a
\* complete KEK file was written over after a read of it had failed.
THEOREM NeverLockedAway == Spec => []Recoverable
  BY InductiveInvariant, PTL DEF IInv

\* Get answers what a restart would find, unless an operation has failed.
THEOREM ReadsAreDurable == Spec => []ServedIsDurable
  BY InductiveInvariant, PTL DEF IInv

\* A complete KEK file is written over only by an OpenLocal that could not
\* read it; where such reads do not fail it is never replaced.
THEOREM KekFileStable == Spec => KekStable
  <1>1. IInv /\ [Next]_vars
          => [(kekFile \in Keks /\ kekFile' # kekFile) => ReplaceUnreadKek]_vars
    <2> SUFFICES ASSUME IInv, Next, kekFile \in Keks, kekFile' # kekFile
                 PROVE  ReplaceUnreadKek
      OBVIOUS
    <2>1. CASE ResolveKek
      BY <2>1 DEF ResolveKek, UsePinned, ReadKek, GenerateKek, diskVars
    <2>2. CASE WriteKek
      \* The file being written is short, not complete.
      BY <2>2, KeksAssumption DEF WriteKek, IInv, StepInv, Keks, Short
    <2>3. CASE WriteKekFails \/ Load \/ TruncateTmp \/ FillTmp \/ Rename
      BY <2>3 DEF WriteKekFails, Load, TruncateTmp, FillTmp, Rename, diskVars
    <2>4. CASE FlushFails \/ Crash \/ Repin
      BY <2>4 DEF FlushFails, Crash, Repin, diskVars
    <2>5. ASSUME NEW k \in Keys, NEW v \in Values, Put(k, v) PROVE FALSE
      BY <2>5 DEF Put, diskVars
    <2>6. ASSUME NEW ks, Remove(ks) PROVE FALSE
      BY <2>6 DEF Remove, diskVars
    <2> QED
      BY <2>1, <2>2, <2>3, <2>4, <2>5, <2>6 DEF Next, Delete, DeletePrefix
  <1> QED
    BY <1>1, InductiveInvariant, PTL DEF Spec, KekStable

-----------------------------------------------------------------------------
\* The store implements the abstract durable map: an operation reaches the
\* file in the one step of the rename, every other step of the open, of the
\* flush and of the KEK's life is invisible.
THEOREM Refinement == Spec => ImplementsDurableMap
  <1>1. Init => Durable!Init
    BY DEF Init, Durable!Init, Missing, Empty, Durable!Empty
  <1>2. IInv /\ [Next]_vars => [Durable!Next]_(Durable!vars)
    <2> SUFFICES ASSUME IInv, [Next]_vars PROVE [Durable!Next]_(Durable!vars)
      OBVIOUS
    <2> USE DEF diskVars, Durable!vars
    <2>1. CASE ResolveKek \/ WriteKek \/ WriteKekFails \/ Repin
      BY <2>1 DEF ResolveKek, UsePinned, ReadKek, GenerateKek, ReplaceUnreadKek, NewKek,
                  WriteKek, WriteKekFails, Repin
    <2>2. CASE Load
      BY <2>2 DEF Load, Durable!Next, Durable!Open
    <2>3. ASSUME NEW k \in Keys, NEW v \in Values, Put(k, v) PROVE Durable!Change
      <3>1. data' \in Durable!Maps
        BY <2>3 DEF Put, IInv, TypeOK, Maps, Durable!Maps
      <3> QED
        BY <2>3, <3>1 DEF Put, Durable!Change
    <2>4. ASSUME NEW ks, Remove(ks) PROVE Durable!Change
      <3>1. data' \in Durable!Maps
        BY <2>4, RemoveType DEF IInv, TypeOK, Maps, Durable!Maps
      <3> QED
        BY <2>4, <3>1 DEF Remove, Durable!Change
    <2>5. CASE TruncateTmp \/ FillTmp
      BY <2>5 DEF TruncateTmp, FillTmp
    <2>6. CASE Rename
      BY <2>6 DEF Rename, IInv, StepInv, Durable!Next, Durable!Succeed
    <2>7. CASE FlushFails
      BY <2>7 DEF FlushFails, Durable!Next, Durable!Fail
    <2>8. CASE Crash
      BY <2>8 DEF Crash, IInv, StepInv, Durable!Next, Durable!Crash, Empty, Durable!Empty
    <2>9. CASE UNCHANGED vars
      BY <2>9 DEF vars
    <2> QED
      BY <2>1, <2>2, <2>3, <2>4, <2>5, <2>6, <2>7, <2>8, <2>9
      DEF Next, Delete, DeletePrefix, Durable!Next
  <1> QED
    BY <1>1, <1>2, InductiveInvariant, PTL DEF Spec, ImplementsDurableMap, Durable!Spec

-----------------------------------------------------------------------------
(* The pinned KEK.  PinnedStillDecrypts does not hold of a store that is   *)
(* pinned later on, as the hint advises; it does from the start.           *)

\* WHALESHELL_SECRETS_KEK is set from the first run on, or never.
PinStays == [][UNCHANGED env]_vars

\* With it every file is written under the pinned KEK.
PinInv ==
    env => /\ pc # "newKek"
           /\ pc # "down" => aead = EnvKek
           /\ pc = "rename" => tmp.kek = EnvKek
           /\ Decrypts(EnvKek, store)

\* A store that was pinned from the start always opens with the pinned KEK
\* alone, even if an existing KEK file cannot be read: the hint fails only by
\* the move (loadOrCreateKEK, flushLocked).
THEOREM PinnedFromStart == Spec /\ PinStays => []PinnedStillDecrypts
  <1>1. Init => PinInv
    BY DEF Init, PinInv, Decrypts
  <1>2. PinInv /\ [Next]_vars /\ [UNCHANGED env]_vars => PinInv'
    <2> SUFFICES ASSUME PinInv, [Next]_vars, UNCHANGED env, env PROVE PinInv'
      BY DEF PinInv, vars
    <2> USE DEF PinInv, diskVars, Decrypts
    <2>1. CASE ResolveKek
      BY <2>1 DEF ResolveKek, UsePinned, ReadKek, GenerateKek, ReplaceUnreadKek, NewKek
    <2>2. CASE WriteKek \/ WriteKekFails
      BY <2>2 DEF WriteKek, WriteKekFails
    <2>3. CASE Load
      BY <2>3 DEF Load
    <2>4. ASSUME NEW k \in Keys, NEW v \in Values, Put(k, v) PROVE PinInv'
      BY <2>4 DEF Put
    <2>5. ASSUME NEW ks, Remove(ks) PROVE PinInv'
      BY <2>5 DEF Remove
    <2>6. CASE TruncateTmp \/ FillTmp
      BY <2>6 DEF TruncateTmp, FillTmp
    <2>7. CASE Rename
      BY <2>7 DEF Rename
    <2>8. CASE FlushFails \/ Crash
      BY <2>8 DEF FlushFails, Crash
    <2>9. CASE Repin \/ UNCHANGED vars
      BY <2>9 DEF Repin, vars
    <2> QED
      BY <2>1, <2>2, <2>3, <2>4, <2>5, <2>6, <2>7, <2>8, <2>9 DEF Next, Delete, DeletePrefix
  <1>3. PinInv => PinnedStillDecrypts
    BY DEF PinInv, PinnedStillDecrypts
  <1> QED
    BY <1>1, <1>2, <1>3, PTL DEF Spec, PinStays

-----------------------------------------------------------------------------
(* PutProviderCredentials.                                                 *)

\* What the call works on: pairs of a key and a value.
BatchTypes ==
    /\ asked \subseteq Keys \X Values /\ todo \subseteq asked
    /\ batch \in {"idle", "between", "putting", "ok", "failed", "died"}
    /\ touched \subseteq Keys

\* Every step keeps that.
LEMMA BatchTypesStep == BatchTypes /\ [ProviderNext]_providerVars => BatchTypes'
  <1> SUFFICES ASSUME BatchTypes, [ProviderNext]_providerVars PROVE BatchTypes'
    OBVIOUS
  <1> USE DEF BatchTypes, batchVars
  <1>1. CASE BatchBegins
    BY <1>1, BatchesAssumption DEF BatchBegins
  <1>2. CASE BatchPuts
    BY <1>2 DEF BatchPuts
  <1>3. CASE BatchGoesOn \/ BatchStops \/ BatchEnds
    BY <1>3 DEF BatchGoesOn, BatchStops, BatchEnds
  <1>4. CASE OthersChange
    <2>1. PICK ks \in SUBSET Keys : Changes(ks)
      BY <1>4, KeksAssumption DEF OthersChange
    <2> QED
      BY <2>1 DEF Changes
  <1>5. CASE OthersFlush \/ StoreOnly \/ ProcessDies
    BY <1>5 DEF OthersFlush, StoreOnly, ProcessDies
  <1>6. CASE UNCHANGED providerVars
    BY <1>6 DEF providerVars
  <1> QED
    BY <1>1, <1>2, <1>3, <1>4, <1>5, <1>6 DEF ProviderNext

\* A step beside or of the call is a step of the store, or leaves it alone.
LEMMA StoreStep == BatchTypes /\ [ProviderNext]_providerVars => [Next]_vars
  <1> SUFFICES ASSUME BatchTypes, ProviderNext PROVE [Next]_vars
    BY DEF providerVars
  <1>1. CASE BatchBegins \/ BatchEnds
    BY <1>1 DEF BatchBegins, BatchEnds
  <1>2. CASE BatchPuts
    <2>1. PICK c \in todo : Put(c[1], c[2])
      BY <1>2 DEF BatchPuts
    <2>2. c[1] \in Keys /\ c[2] \in Values
      BY DEF BatchTypes
    <2> QED
      BY <2>1, <2>2 DEF Next
  <1>3. CASE BatchGoesOn \/ BatchStops \/ OthersFlush
    BY <1>3 DEF BatchGoesOn, BatchStops, OthersFlush, Next
  <1>4. CASE OthersChange
    <2>1. ASSUME NEW k \in Keys, Changes({k}) PROVE Next
      <3>1. CASE \E l \in {k}, v \in Values : {k} = {l} /\ Put(l, v)
        BY <3>1 DEF Next
      <3>2. CASE Remove({k})
        BY <3>2 DEF Next, Delete
      <3> QED
        BY <2>1, <3>1, <3>2 DEF Changes
    <2>2. ASSUME NEW ks \in Prefixes, Changes(ks) PROVE Next
      <3>1. CASE \E k \in ks, v \in Values : ks = {k} /\ Put(k, v)
        BY <3>1, KeksAssumption DEF Next
      <3>2. CASE Remove(ks)
        BY <3>2 DEF Next, DeletePrefix
      <3> QED
        BY <2>2, <3>1, <3>2 DEF Changes
    <2> QED
      BY <1>4, <2>1, <2>2 DEF OthersChange
  <1>5. CASE StoreOnly \/ ProcessDies
    BY <1>5 DEF StoreOnly, ProcessDies, Next
  <1> QED
    BY <1>1, <1>2, <1>3, <1>4, <1>5 DEF ProviderNext

\* So the store with the call implements the store, and through Refinement
\* the durable map.
THEOREM CallsAreStoreSteps == ProviderSpec => Spec
  <1>1. ProviderInit => Init /\ BatchTypes
    BY DEF ProviderInit, BatchTypes
  <1> QED
    BY <1>1, BatchTypesStep, StoreStep, PTL DEF ProviderSpec, Spec

\* Types, of the call too.
THEOREM ProviderTypes == ProviderSpec => []ProviderTypeOK
  <1>1. ProviderInit => BatchTypes
    BY DEF ProviderInit, BatchTypes
  <1>2. ProviderSpec => []TypeOK
    BY CallsAreStoreSteps, TypeCorrect, PTL
  <1>3. TypeOK /\ BatchTypes => ProviderTypeOK
    BY DEF ProviderTypeOK, BatchTypes
  <1> QED
    BY <1>1, <1>2, <1>3, BatchTypesStep, PTL DEF ProviderSpec

Up == {"ready", "flush", "tmp", "rename"}

\* A credential that has been put, and not been touched since, is in memory
\* while the process lives, and on the disk unless its put is under way.
PutInv ==
    /\ batch \in {"between", "putting"} => pc \in Up
    /\ batch = "putting" => pc # "ready"
    /\ batch = "ok" => todo = {}
    /\ \A c \in asked \ todo : c[1] \notin touched =>
        /\ batch \in {"between", "putting", "ok"} /\ pc \in Up
              => data[c[1]] \in ValuesFor(c[1])
        /\ batch \in {"between", "ok"} => store.map[c[1]] \in ValuesFor(c[1])

\* A step after which what was asked, put and touched is the same, and so is
\* memory, unless the process has just died.
LEMMA Undisturbed ==
    ASSUME PutInv, UNCHANGED <<asked, todo, touched, store>>,
           batch' = batch \/ batch' \in {"failed", "died"},
           batch' \in {"between", "putting", "ok"} /\ pc' \in Up
                => pc \in Up /\ data' = data,
           batch' \in {"between", "putting"} => pc' \in Up,
           batch' = "putting" => pc' # "ready"
    PROVE  PutInv'
  BY DEF PutInv, ValuesFor

\* Every step keeps it.
LEMMA PutInvStep ==
    IInv /\ BatchTypes /\ PutInv /\ [ProviderNext]_providerVars => PutInv'
  <1> SUFFICES ASSUME TypeOK, StepInv, BatchTypes, PutInv, [ProviderNext]_providerVars
               PROVE  PutInv'
    BY DEF IInv
  <1> USE DEF BatchTypes, batchVars, diskVars, Up
  <1>1. CASE BatchBegins
    BY <1>1 DEF BatchBegins, PutInv, vars
  <1>2. CASE BatchPuts
    <2>1. PICK c \in todo : /\ Put(c[1], c[2])
                            /\ todo' = todo \ {c} /\ touched' = touched \ {c[1]}
      BY <1>2 DEF BatchPuts
    <2>2. batch = "between" /\ batch' = "putting" /\ asked' = asked /\ pc' = "flush"
          /\ pc = "ready"
      BY <1>2, <2>1 DEF BatchPuts, Put
    <2>3. c[1] \in Keys /\ c[2] \in Values /\ c[2] \in ValuesFor(c[1])
      BY DEF ValuesFor
    <2>4. data' = [data EXCEPT ![c[1]] = c[2]] /\ data \in Maps
      BY <2>1 DEF Put, TypeOK
    <2>5. \A k \in Keys : ValuesFor(k)' = ValuesFor(k)
      BY <2>2 DEF ValuesFor
    <2>6. ASSUME NEW d \in asked' \ todo', d[1] \notin touched'
          PROVE  data'[d[1]] \in ValuesFor(d[1])'
      <3>1. d[1] \in Keys
        BY <2>2
      <3>2. CASE d[1] = c[1]
        BY <2>3, <2>4, <2>5, <3>2 DEF Maps
      <3>3. CASE d[1] # c[1]
        <4>1. d \in asked \ todo /\ d[1] \notin touched
          BY <2>1, <2>2, <2>6, <3>3
        <4>2. data[d[1]] \in ValuesFor(d[1])
          BY <2>2, <4>1 DEF PutInv
        <4> QED
          BY <2>4, <2>5, <3>1, <3>3, <4>2 DEF Maps
      <3> QED
        BY <3>2, <3>3
    <2> QED
      BY <2>2, <2>6 DEF PutInv
  <1>3. CASE BatchGoesOn \/ (batch # "putting" /\ Rename /\ UNCHANGED batchVars)
    \* The whole of the memory reaches the disk.
    <2>1. store'.map = data /\ data' = data /\ pc = "rename" /\ pc' = "ready"
      BY <1>3 DEF BatchGoesOn, Rename, StepInv
    <2>2. UNCHANGED <<asked, todo, touched>> /\ \A k : ValuesFor(k)' = ValuesFor(k)
      BY <1>3 DEF BatchGoesOn, ValuesFor
    <2>3. batch' # "putting" /\ (batch' = batch \/ (batch = "putting" /\ batch' = "between"))
      BY <1>3 DEF BatchGoesOn
    <2> QED
      BY <2>1, <2>2, <2>3 DEF PutInv
  <1>4. CASE BatchStops \/ (batch # "putting" /\ FlushFails /\ UNCHANGED batchVars)
    BY <1>4, Undisturbed DEF BatchStops, FlushFails
  <1>5. CASE BatchEnds
    BY <1>5 DEF BatchEnds, PutInv, ValuesFor, vars
  <1>6. CASE OthersChange
    <2>1. PICK ks \in SUBSET Keys : Changes(ks)
      BY <1>6, KeksAssumption DEF OthersChange
    <2>2. \A k \in Keys \ ks : data'[k] = data[k]
      BY <2>1 DEF Changes, Put, Remove, TypeOK, Maps
    <2>3. pc = "ready" /\ pc' = "flush" /\ store' = store
      BY <2>1 DEF Changes, Put, Remove
    <2>4. /\ UNCHANGED <<asked, todo, batch>> /\ touched' = touched \cup ks
          /\ \A k : ValuesFor(k)' = ValuesFor(k)
      BY <2>1 DEF Changes, ValuesFor
    <2>5. ASSUME NEW d \in asked' \ todo', d[1] \notin touched'
          PROVE  /\ batch \in {"between", "putting", "ok"}
                       => data'[d[1]] \in ValuesFor(d[1])'
                 /\ batch \in {"between", "ok"} => store'.map[d[1]] \in ValuesFor(d[1])'
      <3>1. d[1] \in Keys \ ks /\ d \in asked \ todo /\ d[1] \notin touched
        BY <2>4, <2>5
      <3>2. data'[d[1]] = data[d[1]] /\ store'.map = store.map
        BY <2>2, <2>3, <3>1
      <3> QED
        BY <2>3, <2>4, <3>1, <3>2 DEF PutInv
    <2>6. batch \in {"between", "putting"} => batch # "putting"
      BY <2>3 DEF PutInv
    <2> QED
      BY <2>3, <2>4, <2>5, <2>6 DEF PutInv
  <1>7. CASE StoreOnly
    <2>1. CASE Load
      <3>1. pc = "load" /\ (pc' \in Up => data' = store.map) /\ UNCHANGED store
        BY <2>1 DEF Load
      <3>2. UNCHANGED batchVars
        BY <1>7 DEF StoreOnly
      <3> QED
        BY <3>1, <3>2 DEF PutInv, ValuesFor
    <2>2. CASE ResolveKek \/ WriteKek \/ WriteKekFails \/ Repin
      BY <1>7, <2>2, Undisturbed
      DEF StoreOnly, ResolveKek, UsePinned, ReadKek, GenerateKek, ReplaceUnreadKek, NewKek,
          WriteKek, WriteKekFails, Repin, PutInv
    <2>3. CASE TruncateTmp \/ FillTmp
      BY <1>7, <2>3, Undisturbed DEF StoreOnly, TruncateTmp, FillTmp
    <2> QED
      BY <1>7, <2>1, <2>2, <2>3 DEF StoreOnly
  <1>8. CASE ProcessDies
    BY <1>8, Undisturbed DEF ProcessDies, Crash
  <1>9. CASE UNCHANGED providerVars
    BY <1>9, Undisturbed DEF providerVars, vars, PutInv
  <1> QED
    BY <1>1, <1>2, <1>3, <1>4, <1>5, <1>6, <1>7, <1>8, <1>9 DEF ProviderNext, OthersFlush

\* Credentials whose PutProviderCredentials succeeded are durable, for any
\* number of credentials and whatever runs beside the call.
THEOREM CredentialsAreDurable == ProviderSpec => []CredentialsDurable
  <1>1. ProviderInit => BatchTypes /\ PutInv
    BY DEF ProviderInit, Init, BatchTypes, PutInv
  <1>2. ProviderSpec => []IInv
    BY CallsAreStoreSteps, InductiveInvariant, PTL
  <1>3. BatchTypes /\ PutInv => CredentialsDurable
    BY DEF BatchTypes, PutInv, CredentialsDurable, ValuesFor
  <1> QED
    BY <1>1, <1>2, <1>3, BatchTypesStep, PutInvStep, PTL DEF ProviderSpec
=============================================================================
