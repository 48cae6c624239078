--------------------------- MODULE ProviderStore ---------------------------
(***************************************************************************)
(* PutProviderCredentials (secrets/local.go) on a LocalStore: it puts one  *)
(* credential after the other, in the order of a Go map, and stops at the  *)
(* first error.  The lock is free between two puts: other goroutines may   *)
(* change the store, also under the same keys, and the process may die.    *)
(***************************************************************************)
EXTENDS LocalStore

CONSTANT Batches    \* the sets of credentials a call may be given: pairs of
                    \*   a key and a value, blanks left out; names that
                    \*   differ in blanks only give the same key twice

ASSUME BatchesAssumption == Batches \subseteq SUBSET (Keys \X Values)

VARIABLES
    asked,      \* the credentials given to the call
    todo,       \* those it has not put yet
    batch,      \* "idle", "between" (two puts), "putting", "ok", "failed",
                \*   "died"
    touched     \* history: keys another operation changed since the call
                \*   put them, or since it began

batchVars == <<asked, todo, batch, touched>>
providerVars == <<vars, batchVars>>

ProviderInit ==
    /\ Init
    /\ asked = {} /\ todo = {} /\ batch = "idle" /\ touched = {}

-----------------------------------------------------------------------------
BatchBegins ==
    /\ batch = "idle" /\ pc \in {"ready", "flush", "tmp", "rename"}
    /\ \E creds \in Batches : asked' = creds /\ todo' = creds
    /\ batch' = "between"
    /\ UNCHANGED <<vars, touched>>

BatchPuts ==
    /\ batch = "between"
    /\ \E c \in todo :
        /\ Put(c[1], c[2])
        /\ todo' = todo \ {c} /\ touched' = touched \ {c[1]}
    /\ batch' = "putting"
    /\ UNCHANGED asked

\* Its put has returned without an error.
BatchGoesOn ==
    /\ batch = "putting" /\ Rename
    /\ batch' = "between"
    /\ UNCHANGED <<asked, todo, touched>>

\* Slip: the error of a put is dropped.
BatchStops_GoesOn ==
    /\ batch = "putting" /\ FlushFails
    /\ batch' = "between"
    /\ UNCHANGED <<asked, todo, touched>>

\* Its put has failed: the rest is not tried, what was put stays.
BatchStops ==
    /\ batch = "putting" /\ FlushFails
    /\ batch' = "failed"
    /\ UNCHANGED <<asked, todo, touched>>

BatchEnds ==
    /\ batch = "between" /\ todo = {}
    /\ batch' = "ok"
    /\ UNCHANGED <<vars, asked, todo, touched>>

\* Between the puts, and after the call, others do the same and more.
Changes(ks) ==
    /\ \/ \E k \in ks, v \in Values : ks = {k} /\ Put(k, v)
       \/ Remove(ks)
    /\ touched' = touched \cup ks
    /\ UNCHANGED <<asked, todo, batch>>

OthersChange == (\E k \in Keys : Changes({k})) \/ (\E ks \in Prefixes : Changes(ks))

OthersFlush ==
    /\ batch # "putting" /\ (Rename \/ FlushFails)
    /\ UNCHANGED batchVars

StoreOnly ==
    /\ \/ ResolveKek \/ WriteKek \/ WriteKekFails \/ Load
       \/ TruncateTmp \/ FillTmp \/ Repin
    /\ UNCHANGED batchVars

ProcessDies ==
    /\ Crash
    /\ batch' = IF batch \in {"between", "putting"} THEN "died" ELSE batch
    /\ UNCHANGED <<asked, todo, touched>>

ProviderNext ==
    \/ BatchBegins \/ BatchPuts \/ BatchGoesOn \/ BatchStops \/ BatchEnds
    \/ OthersChange \/ OthersFlush \/ StoreOnly \/ ProcessDies

ProviderSpec == ProviderInit /\ [][ProviderNext]_providerVars

-----------------------------------------------------------------------------
\* The variables have the types the code gives them.
ProviderTypeOK ==
    /\ TypeOK
    /\ asked \subseteq Keys \X Values /\ todo \subseteq asked
    /\ batch \in {"idle", "between", "putting", "ok", "failed", "died"}
    /\ touched \subseteq Keys

ValuesFor(k) == {c[2] : c \in {d \in asked : d[1] = k}}

\* When PutProviderCredentials has returned without an error, every one of
\* its credentials is on the disk, and stays there through crashes and
\* restarts, unless another operation has changed the same key since: one
\* that failed is not hidden by those that succeeded after it.
CredentialsDurable ==
    batch = "ok" => \A k \in Keys \ touched :
        ValuesFor(k) # {} => store.map[k] \in ValuesFor(k)
=============================================================================
