----------------------------- MODULE LocalStore -----------------------------
(***************************************************************************)
(* secrets.LocalEncrypted (secrets/local.go, secrets/kek.go): credential   *)
(* values cached in memory and kept, encrypted, in one file that every     *)
(* change rewrites through a temporary file and a rename.                  *)
(*                                                                         *)
(* One process at a time has the directory open; its goroutines are        *)
(* serialised by LocalEncrypted.mu, so at most one operation is between    *)
(* its first and last step.  A crash may fall between any two steps, and   *)
(* each system call named in Faults may fail.                              *)
(***************************************************************************)
EXTENDS Naturals

CONSTANTS
    Keys, Values,   \* trimmed, non-empty secret names and values
    Absent,         \* no value under a key
    EnvKek,         \* the KEK derived from WHALESHELL_SECRETS_KEK
    Prefixes,       \* the sets of keys that share a prefix
    MaxKeks,        \* bound: KEKs generated
    Faults          \* calls that may fail: "writeKek", "readKek", "flush"

ASSUME KeksAssumption ==
    /\ MaxKeks \in Nat
    /\ EnvKek \notin Nat          \* DeriveKEK hashes: never a file's KEK
    /\ Absent \notin Values
    /\ Prefixes \subseteq SUBSET Keys

Maps  == [Keys -> Values \cup {Absent}]
Empty == [k \in Keys |-> Absent]

\* Contents of secrets.kek are NoKek, short of kekBytes, or a KEK 1..MaxKeks.
NoKek == 0
Short == MaxKeks + 1
Keks  == 1..MaxKeks

\* Contents of secrets.enc.json and of its .tmp: a KEK and the map encrypted
\* under it, or else missing or torn.
Files   == [kek : Keks \cup {EnvKek}, map : Maps]
Missing == [kek |-> NoKek, map |-> Empty]
Torn    == [kek |-> Short, map |-> Empty]

VARIABLES
    pc,         \* "down", "newKek", "load", "ready", "flush", "tmp", "rename"
    env,        \* WHALESHELL_SECRETS_KEK is set
    kekFile,    \* secrets.kek
    gen,        \* KEKs generated so far
    replaced,   \* history: a complete KEK file was written over
    store,      \* secrets.enc.json
    tmp,        \* secrets.enc.json.tmp
    aead,       \* the KEK in use
    data,       \* the plaintext cache
    failed      \* an operation failed since memory and file last agreed

diskVars == <<kekFile, store, tmp>>
vars == <<pc, env, gen, replaced, diskVars, aead, data, failed>>

Init ==
    /\ pc = "down" /\ env \in BOOLEAN
    /\ kekFile = NoKek /\ gen = 0 /\ replaced = FALSE
    /\ store = Missing /\ tmp = Missing
    /\ aead = NoKek /\ data = Empty /\ failed = FALSE

-----------------------------------------------------------------------------
(* OpenLocal: loadOrCreateKEK, then loadLocked.                            *)

\* The pinned KEK comes first.
UsePinned ==
    /\ pc = "down" /\ env
    /\ aead' = EnvKek /\ pc' = "load"
    /\ UNCHANGED <<env, gen, replaced, diskVars, data, failed>>

\* Then a file that is long enough.
ReadKek ==
    /\ pc = "down" /\ ~env /\ kekFile \in Keks
    /\ aead' = kekFile /\ pc' = "load"
    /\ UNCHANGED <<env, gen, replaced, diskVars, data, failed>>

\* Else the file is truncated for a new KEK.
NewKek ==
    /\ pc = "down" /\ ~env /\ gen < MaxKeks
    /\ gen' = gen + 1 /\ kekFile' = Short /\ pc' = "newKek"
    /\ replaced' = (replaced \/ kekFile \in Keks)
    /\ UNCHANGED <<env, store, tmp, aead, data, failed>>

GenerateKek == kekFile \notin Keks /\ NewKek

\* A complete file that cannot be read counts as absent, whatever the error.
ReplaceUnreadKek == kekFile \in Keks /\ "readKek" \in Faults /\ NewKek

ResolveKek == UsePinned \/ ReadKek \/ GenerateKek \/ ReplaceUnreadKek

\* Slip: the generated KEK is used although it was not written.
WriteKek_NotWritten ==
    /\ pc = "newKek"
    /\ aead' = gen /\ pc' = "load"
    /\ UNCHANGED <<env, gen, replaced, diskVars, data, failed>>

WriteKek ==
    /\ pc = "newKek"
    /\ kekFile' = gen /\ aead' = gen /\ pc' = "load"
    /\ UNCHANGED <<env, gen, replaced, store, tmp, data, failed>>

WriteKekFails ==
    /\ pc = "newKek" /\ "writeKek" \in Faults
    /\ pc' = "down"
    /\ UNCHANGED <<env, gen, replaced, diskVars, aead, data, failed>>

\* loadLocked decrypts entry by entry: a file with no entries opens under
\* any KEK.
Decrypts(kek, file) == file = Missing \/ file.kek = kek \/ (file # Torn /\ file.map = Empty)

Load ==
    /\ pc = "load"
    /\ IF Decrypts(aead, store)
         THEN pc' = "ready" /\ data' = store.map
         ELSE pc' = "down" /\ UNCHANGED data
    /\ UNCHANGED <<env, gen, replaced, diskVars, aead, failed>>

-----------------------------------------------------------------------------
(* The operations change the cache under the lock and flush all of it.     *)

Put(k, v) ==
    /\ pc = "ready"
    /\ data' = [data EXCEPT ![k] = v] /\ pc' = "flush"
    /\ UNCHANGED <<env, gen, replaced, diskVars, aead, failed>>

Remove(ks) ==
    /\ pc = "ready"
    /\ data' = [k \in Keys |-> IF k \in ks THEN Absent ELSE data[k]]
    /\ pc' = "flush"
    /\ UNCHANGED <<env, gen, replaced, diskVars, aead, failed>>

Delete(k) == Remove({k})

DeletePrefix == \E ks \in Prefixes : Remove(ks)

\* Slip: the store is rewritten in place.
TruncateTmp_InPlace ==
    /\ pc = "flush"
    /\ store' = Torn /\ pc' = "tmp"
    /\ UNCHANGED <<env, gen, replaced, kekFile, tmp, aead, data, failed>>

\* Slip: the temporary file is renamed before it is filled.
TruncateTmp_RenamedEarly ==
    /\ pc = "flush"
    /\ tmp' = Torn /\ pc' = "rename"
    /\ UNCHANGED <<env, gen, replaced, kekFile, store, aead, data, failed>>

\* flushLocked: os.WriteFile truncates the temporary file, then fills it.
TruncateTmp ==
    /\ pc = "flush"
    /\ tmp' = Torn /\ pc' = "tmp"
    /\ UNCHANGED <<env, gen, replaced, kekFile, store, aead, data, failed>>

FillTmp ==
    /\ pc = "tmp"
    /\ tmp' = [kek |-> aead, map |-> data] /\ pc' = "rename"
    /\ UNCHANGED <<env, gen, replaced, kekFile, store, aead, data, failed>>

Rename ==
    /\ pc = "rename"
    /\ store' = tmp /\ tmp' = Missing
    /\ pc' = "ready" /\ failed' = FALSE
    /\ UNCHANGED <<env, gen, replaced, kekFile, aead, data>>

\* Slip: the error of the flush is dropped.
FlushFails_Silent ==
    /\ pc \in {"flush", "tmp", "rename"} /\ "flush" \in Faults
    /\ pc' = "ready" /\ failed' = FALSE
    /\ UNCHANGED <<env, gen, replaced, diskVars, aead, data>>

\* A call of the flush fails: the operation returns the error, the change
\* stays in the cache.
FlushFails ==
    /\ pc \in {"flush", "tmp", "rename"} /\ "flush" \in Faults
    /\ pc' = "ready" /\ failed' = TRUE
    /\ UNCHANGED <<env, gen, replaced, diskVars, aead, data>>

-----------------------------------------------------------------------------
Crash ==
    /\ pc # "down"
    /\ pc' = "down" /\ aead' = NoKek /\ data' = Empty /\ failed' = FALSE
    /\ UNCHANGED <<env, gen, replaced, diskVars>>

\* Between two runs the operator sets or unsets WHALESHELL_SECRETS_KEK.
Repin ==
    /\ pc = "down"
    /\ env' = ~env
    /\ UNCHANGED <<pc, gen, replaced, diskVars, aead, data, failed>>

Next ==
    \/ ResolveKek \/ WriteKek \/ WriteKekFails \/ Load
    \/ (\E k \in Keys, v \in Values : Put(k, v))
    \/ (\E k \in Keys : Delete(k))
    \/ DeletePrefix
    \/ TruncateTmp \/ FillTmp \/ Rename \/ FlushFails
    \/ Crash \/ Repin

Spec == Init /\ [][Next]_vars

-----------------------------------------------------------------------------
\* The variables have the types the code gives them.
TypeOK ==
    /\ pc \in {"down", "newKek", "load", "ready", "flush", "tmp", "rename"}
    /\ env \in BOOLEAN /\ failed \in BOOLEAN /\ replaced \in BOOLEAN
    /\ gen \in 0..MaxKeks /\ kekFile \in Keks \cup {NoKek, Short}
    /\ store \in Files \cup {Missing} /\ tmp \in Files \cup {Missing, Torn}
    /\ aead \in Keks \cup {NoKek, EnvKek} /\ data \in Maps

\* A KEK that still exists, the file's or the pinned one, decrypts the store.
KekSurvives == \E kek \in {kekFile, EnvKek} : Decrypts(kek, store)

\* There is one way to lock secrets away: OpenLocal writes a new KEK over a
\* complete file because a read of it has failed, though kek.go:32 says that
\* such a KEK is lost only with its volume.  But for that, at every instant at
\* which the process could die, the store can be decrypted: a KEK is durable
\* before it encrypts anything, and crashes, failed writes and changes of the
\* pin never cost the key.
Recoverable == KekSurvives \/ replaced

\* Setting WHALESHELL_SECRETS_KEK keeps the store readable, as the hint of
\* Status.Warning promises for a file-backed KEK.
PinnedStillDecrypts == env => Decrypts(EnvKek, store)

\* Between operations Get answers from the cache what a restart would find,
\* unless an operation has returned an error since they last agreed.
ServedIsDurable == pc = "ready" /\ ~failed => data = store.map

\* A complete KEK file is written over in one place only: in OpenLocal, without
\* a pinned KEK, after a read of the file that failed.
KekStable == [][(kekFile \in Keks /\ kekFile' # kekFile) => ReplaceUnreadKek]_vars

\* The store is a durable map: each operation takes effect on the file at
\* once or not at all, through crashes, failed calls and restarts.
Durable == INSTANCE DurableMap WITH
    up   <- pc \notin {"down", "newKek", "load"},
    busy <- pc \in {"flush", "tmp", "rename"},
    mem  <- data,
    disk <- store.map

ImplementsDurableMap == Durable!Spec
=============================================================================
