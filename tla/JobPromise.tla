----------------------------- MODULE JobPromise -----------------------------
(***************************************************************************)
(* What whaleshell-agent promises the gateway about its jobs.  A job is    *)
(* handed out at most once and runs alone.  While it runs its output       *)
(* grows; after its end it is reported at most once, with the part of its  *)
(* own output that the cap leaves and its own exit code.  A job or a       *)
(* report may be lost on the way, and is then not repeated.                *)
(***************************************************************************)
EXTENDS Naturals

CONSTANTS Jobs, MaxOutput

VARIABLES
    fate,       \* of each job: "queued", "running", "ended", "over"
    ran,        \* what its command wrote, and its exit code
    results     \* results the gateway has recorded
vars == <<fate, ran, results>>

Init ==
    /\ fate = [j \in Jobs |-> "queued"] /\ results = {}
    /\ ran = [j \in Jobs |-> [wrote |-> 0, code |-> 0]]

Becomes(j, f) == fate' = [fate EXCEPT ![j] = f]

HandedOut(j) ==
    /\ fate[j] = "queued"
    /\ \A i \in Jobs : fate[i] \in {"queued", "over"}
    /\ Becomes(j, "running")
    /\ UNCHANGED <<ran, results>>

Lost(j) ==
    /\ fate[j] = "queued"
    /\ Becomes(j, "over")
    /\ UNCHANGED <<ran, results>>

\* The output of j grows, and no other job's changes.
Grows(j) ==
    /\ ran' = [ran EXCEPT ![j] = ran'[j]]
    /\ ran'[j].wrote >= ran[j].wrote

Writes(j) ==
    /\ fate[j] = "running"
    /\ Grows(j) /\ ran'[j].code = ran[j].code
    /\ UNCHANGED <<fate, results>>

Exits(j) ==
    /\ fate[j] = "running"
    /\ Becomes(j, "ended")
    /\ Grows(j)
    /\ UNCHANGED results

Reports(j) ==
    /\ fate[j] = "ended"
    /\ Becomes(j, "over")
    /\ \/ UNCHANGED results
       \/ \E marked \in {m \in BOOLEAN : m => ran[j].wrote > MaxOutput} :
            results' = results \cup
                {[job |-> j, marked |-> marked, code |-> ran[j].code,
                  n |-> IF ran[j].wrote > MaxOutput THEN MaxOutput ELSE ran[j].wrote]}
    /\ UNCHANGED ran

Next == \E j \in Jobs :
            HandedOut(j) \/ Lost(j) \/ Writes(j) \/ Exits(j) \/ Reports(j)

Spec == Init /\ [][Next]_vars
=============================================================================
