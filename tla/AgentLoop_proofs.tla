-------------------------- MODULE AgentLoop_proofs --------------------------
(***************************************************************************)
(* Proofs about AgentLoop for every set of jobs, every cap and every       *)
(* sequence of writes: the type invariant (the buffer never exceeds its    *)
(* cap), that recorded results are faithful to their own job's run, and    *)
(* that the agent keeps the abstract promise about its jobs.               *)
(***************************************************************************)
EXTENDS AgentLoop, TLAPS

\* The buffer holds what its cap leaves of w units written.
Holds(b, w) == b.n = Kept(w) /\ (b.marked => w > MaxOutput)

\* A job is queued, then run, then reported, and what its run wrote changes
\* only in between.
RunInv ==
    /\ \A j \in queued : ran[j].wrote = 0
    /\ \A r \in results : r.job \notin queued
    /\ pc \in {"run", "post"} =>
        /\ job \in Jobs /\ job \notin queued
        /\ Holds(buf, ran[job].wrote)
    /\ pc \in {"poll", "sleep"} => job = NoJob
    /\ pc = "run" => \A r \in results : r.job # job
    /\ pc = "post" => code = ran[job].code

IInv == TypeOK /\ RunInv /\ ResultsFaithful

-----------------------------------------------------------------------------
\* cappedBuffer.Write keeps a buffer within its cap and, whatever the sizes
\* of the writes, holding the first bytes up to the cap.
LEMMA WrittenHolds ==
    ASSUME NEW b \in [n : 0..MaxOutput, marked : BOOLEAN],
           NEW w \in Nat, NEW k \in Nat, Holds(b, w)
    PROVE  /\ Written(b, k) \in [n : 0..MaxOutput, marked : BOOLEAN]
           /\ Holds(Written(b, k), w + k)
  <1> USE AgentAssumption
  <1>1. CASE b.n >= MaxOutput
    BY <1>1 DEF Written, Holds, Kept
  <1>2. CASE b.n < MaxOutput /\ k > MaxOutput - b.n
    BY <1>2 DEF Written, Holds, Kept
  <1>3. CASE b.n < MaxOutput /\ k <= MaxOutput - b.n
    BY <1>3 DEF Written, Holds, Kept
  <1> QED
    BY <1>1, <1>2, <1>3

\* The initial states satisfy every conjunct.
LEMMA InitIInv == Init => IInv
  BY AgentAssumption DEF Init, IInv, TypeOK, RunInv, ResultsFaithful, Empty, Codes

\* Every action keeps the inductive invariant.
LEMMA NextIInv == IInv /\ [Next]_vars => IInv'
  <1> SUFFICES ASSUME IInv, [Next]_vars PROVE IInv'
    OBVIOUS
  <1> USE AgentAssumption DEF IInv, TypeOK, RunInv, ResultsFaithful
  <1>1. ASSUME NEW j \in Jobs, PollJob(j) PROVE IInv'
    BY <1>1 DEF PollJob, Begin, Empty, Holds, Kept
  <1>2. CASE PollFails
    BY <1>2 DEF PollFails
  <1>3. CASE Wake
    BY <1>3 DEF Wake
  <1>4. ASSUME NEW k \in Chunks, Output(k) PROVE IInv'
    <2>1. k \in Nat /\ ran[job].wrote \in Nat /\ job \in Jobs
      BY <1>4 DEF Output
    <2>2. Holds(buf', ran'[job].wrote) /\ buf' \in [n : 0..MaxOutput, marked : BOOLEAN]
      BY <1>4, <2>1, WrittenHolds DEF Output
    <2>3. ran' \in [Jobs -> [wrote : Nat, code : Codes]]
      BY <1>4, <2>1 DEF Output
    <2>4. \A i \in Jobs \ {job} : ran'[i] = ran[i]
      BY <1>4, <2>1 DEF Output
    <2> QED
      BY <1>4, <2>1, <2>2, <2>3, <2>4 DEF Output
  <1>5. ASSUME NEW k \in Chunks, CannotRun(k) PROVE IInv'
    <2>1. k \in Nat /\ job \in Jobs /\ ran[job].wrote = 0
      BY <1>5 DEF CannotRun
    <2>2. Holds(buf', ran'[job].wrote) /\ buf' \in [n : 0..MaxOutput, marked : BOOLEAN]
      BY <1>5, <2>1, WrittenHolds DEF CannotRun
    <2>3. ran' \in [Jobs -> [wrote : Nat, code : Codes]] /\ code' = ran'[job].code
      BY <1>5, <2>1 DEF CannotRun, Codes
    <2>4. \A i \in Jobs \ {job} : ran'[i] = ran[i]
      BY <1>5, <2>1 DEF CannotRun
    <2>5. code' \in Codes
      BY <1>5 DEF CannotRun, Codes
    <2> QED
      BY <1>5, <2>1, <2>2, <2>3, <2>4, <2>5 DEF CannotRun
  <1>6. ASSUME NEW c \in Codes, Finish(c) PROVE IInv'
    <2>1. job \in Jobs /\ ran' \in [Jobs -> [wrote : Nat, code : Codes]]
      BY <1>6 DEF Finish
    <2>2. \A i \in Jobs : ran'[i].wrote = ran[i].wrote /\ (i # job => ran'[i] = ran[i])
      BY <1>6, <2>1 DEF Finish
    <2>3. ran'[job].code = c
      BY <1>6, <2>1 DEF Finish
    <2> QED
      BY <1>6, <2>1, <2>2, <2>3 DEF Finish
  <1>7. CASE Post
    <2>1. Result \in [job : Jobs, n : 0..MaxOutput, marked : BOOLEAN, code : Codes]
      BY <1>7 DEF Post, Result
    <2>2. Result.job = job /\ Result.n = Kept(ran[job].wrote) /\ Result.code = ran[job].code
          /\ (Result.marked => ran[job].wrote > MaxOutput)
      BY <1>7 DEF Post, Result, Holds
    <2> QED
      BY <1>7, <2>1, <2>2 DEF Post
  <1>8. CASE UNCHANGED vars
    BY <1>8 DEF vars
  <1> QED
    BY <1>1, <1>2, <1>3, <1>4, <1>5, <1>6, <1>7, <1>8 DEF Next

\* The inductive invariant holds of every reachable state.
THEOREM InductiveInvariant == Spec => []IInv
  BY InitIInv, NextIInv, PTL DEF Spec

\* Types, and with them the cap: no output makes the agent hold more than
\* maxJobOutputBytes (and one marker).
THEOREM TypeCorrect == Spec => []TypeOK
  BY InductiveInvariant, PTL DEF IInv

\* What the gateway records of a job is the job's own output, cut at the cap,
\* and its own exit code (runJob, cappedBuffer.Write, postResult).
THEOREM ResultsAreFaithful == Spec => []ResultsFaithful
  BY InductiveInvariant, PTL DEF IInv

-----------------------------------------------------------------------------
(* The agent keeps its promise.                                            *)

\* When the command of the job in hand exits, its fate alone changes.
LEMMA FateAtExit ==
    ASSUME RunInv, pc = "run", pc' = "post", UNCHANGED <<queued, job>>
    PROVE  /\ job \in Jobs /\ Fate[job] = "running"
           /\ Fate' = [Fate EXCEPT ![job] = "ended"]
  <1>1. job \in Jobs /\ job \notin queued
    BY DEF RunInv
  <1>2. Fate = [i \in Jobs |-> IF i \in queued THEN "queued"
                               ELSE IF i = job THEN "running" ELSE "over"]
    BY DEF Fate
  <1>3. Fate' = [i \in Jobs |-> IF i \in queued THEN "queued"
                                ELSE IF i = job THEN "ended" ELSE "over"]
    BY DEF Fate
  <1> QED
    BY <1>1, <1>2, <1>3

\* Every step is a step of the promise or changes nothing the gateway can
\* tell.
LEMMA PromiseStep == IInv /\ IInv' /\ [Next]_vars => [Promise!Next]_(Promise!vars)
  <1> SUFFICES ASSUME IInv, IInv', [Next]_vars PROVE [Promise!Next]_(Promise!vars)
    OBVIOUS
  <1> USE AgentAssumption DEF IInv, TypeOK, RunInv, Promise!vars, Promise!Next, Promise!Becomes
  <1>1. ASSUME NEW j \in Jobs, PollJob(j) PROVE Promise!HandedOut(j)
    <2>1. \A i \in Jobs : i # job
      \* No job is in hand while the agent polls.
      BY <1>1 DEF PollJob
    <2>2. Fate = [i \in Jobs |-> IF i \in queued THEN "queued" ELSE "over"]
      BY <2>1 DEF Fate
    <2>3. j \in queued /\ Fate' = [Fate EXCEPT ![j] = "running"]
      <3>1. j \in queued /\ queued' = queued \ {j} /\ job' = j /\ pc' = "run"
        BY <1>1 DEF PollJob, Begin
      <3>2. Fate' = [i \in Jobs |-> IF i = j THEN "running"
                                   ELSE IF i \in queued THEN "queued" ELSE "over"]
        BY <3>1 DEF Fate
      <3> QED
        BY <2>2, <3>1, <3>2
    <2>4. Fate[j] = "queued" /\ \A i \in Jobs : Fate[i] \in {"queued", "over"}
      BY <2>2, <2>3
    <2> QED
      BY <1>1, <2>3, <2>4 DEF PollJob, Begin, Promise!HandedOut
  <1>2. CASE PollFails
    <2>1. CASE queued' = queued
      BY <1>2, <2>1 DEF PollFails, Fate
    <2>2. ASSUME NEW j \in queued, queued' = queued \ {j} PROVE Promise!Lost(j)
      <3>1. Fate[j] = "queued" /\ Fate' = [Fate EXCEPT ![j] = "over"]
        BY <1>2, <2>2 DEF PollFails, Fate
      <3> QED
        BY <1>2, <3>1 DEF PollFails, Promise!Lost
    <2> QED
      BY <1>2, <2>1, <2>2 DEF PollFails
  <1>3. CASE Wake
    BY <1>3 DEF Wake, Fate
  <1>4. ASSUME NEW k \in Chunks, Output(k) PROVE Promise!Writes(job)
    <2>1. job \in Jobs /\ Fate[job] = "running" /\ Fate' = Fate
      BY <1>4 DEF Output, Fate
    <2>2. k \in Nat /\ ran[job].wrote \in Nat
      BY <2>1
    <2> QED
      BY <1>4, <2>1, <2>2 DEF Output, Promise!Writes, Promise!Grows
  <1>5. ASSUME NEW k \in Chunks, CannotRun(k) PROVE Promise!Exits(job)
    <2>1. job \in Jobs /\ Fate[job] = "running" /\ Fate' = [Fate EXCEPT ![job] = "ended"]
      BY <1>5, FateAtExit DEF CannotRun
    <2>2. k \in Nat /\ ran[job].wrote \in Nat
      BY <2>1
    <2> QED
      BY <1>5, <2>1, <2>2 DEF CannotRun, Promise!Exits, Promise!Grows
  <1>6. ASSUME NEW c \in Codes, Finish(c) PROVE Promise!Exits(job)
    <2>1. job \in Jobs /\ Fate[job] = "running" /\ Fate' = [Fate EXCEPT ![job] = "ended"]
      BY <1>6, FateAtExit DEF Finish
    <2>2. ran[job].wrote \in Nat
      BY <2>1
    <2> QED
      BY <1>6, <2>1, <2>2 DEF Finish, Promise!Exits, Promise!Grows
  <1>7. CASE Post
    <2>1. job \in Jobs /\ Fate[job] = "ended" /\ Fate' = [Fate EXCEPT ![job] = "over"]
      <3>1. job \in Jobs /\ job \notin queued /\ pc = "post" /\ queued' = queued
        BY <1>7 DEF Post
      <3>2. \A i \in Jobs : i # job'
        BY <1>7 DEF Post
      <3>3. Fate' = [i \in Jobs |-> IF i \in queued THEN "queued" ELSE "over"]
        BY <3>1, <3>2 DEF Fate
      <3>4. Fate = [i \in Jobs |-> IF i \in queued THEN "queued"
                                   ELSE IF i = job THEN "ended" ELSE "over"]
        BY <3>1 DEF Fate
      <3> QED
        BY <3>1, <3>3, <3>4
    <2>2. /\ Result = [job |-> job, marked |-> buf.marked, code |-> ran[job].code,
                       n |-> IF ran[job].wrote > MaxOutput THEN MaxOutput ELSE ran[job].wrote]
          /\ buf.marked \in {m \in BOOLEAN : m => ran[job].wrote > MaxOutput}
      BY <1>7 DEF Post, Result, Holds, Kept
    <2>3. Promise!Reports(job)
      BY <1>7, <2>1, <2>2 DEF Post, Promise!Reports
    <2> QED
      BY <2>1, <2>3
  <1>8. CASE UNCHANGED vars
    BY <1>8 DEF vars, Fate
  <1>9. pc = "run" => job \in Jobs
    OBVIOUS
  <1>10. ASSUME NEW k \in Chunks, Output(k) \/ CannotRun(k) PROVE pc = "run"
    BY <1>10 DEF Output, CannotRun
  <1>11. ASSUME NEW c \in Codes, Finish(c) PROVE pc = "run"
    BY <1>11 DEF Finish
  <1> QED
    BY <1>1, <1>2, <1>3, <1>4, <1>5, <1>6, <1>7, <1>8, <1>9, <1>10, <1>11 DEF Next

\* The agent implements the abstract promise: each job is handed out at most
\* once, runs alone, and is reported at most once and only after its end,
\* with its own output and exit code.
THEOREM PromiseKept == Spec => KeepsPromise
  <1>1. Init => Promise!Init
    BY DEF Init, Fate, Promise!Init
  <1> QED
    BY <1>1, PromiseStep, InductiveInvariant, PTL DEF Spec, KeepsPromise, Promise!Spec
=============================================================================
