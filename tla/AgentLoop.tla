----------------------------- MODULE AgentLoop -----------------------------
(***************************************************************************)
(* whaleshell-agent (internal/app/agent/run.go): poll the gateway for a    *)
(* job, run its command with the output captured in a cappedBuffer, post   *)
(* the result, for ever.  The gateway and the network are the environment. *)
(* Output is counted, not spelt: what matters is how much of it survives.  *)
(***************************************************************************)
EXTENDS Naturals

CONSTANTS
    Jobs, NoJob,
    MaxOutput,      \* maxJobOutputBytes
    Chunks,         \* bound: sizes of the writes of a command
    MaxWritten      \* bound: what a command writes in all

ASSUME AgentAssumption ==
    /\ NoJob \notin Jobs
    /\ MaxOutput \in Nat \ {0} /\ MaxWritten \in Nat /\ Chunks \subseteq Nat

Codes == {0, 1}

VARIABLES
    queued,     \* the gateway: jobs not handed out
    results,    \*   results it has recorded
    pc,         \* Run: "poll", "sleep", "run", "post"
    job,        \* the job in hand, or NoJob
    buf,        \* cappedBuffer: n, and whether the marker was written
    code,       \* the job's exit code
    ran         \* history: what each job's command wrote, and its code

vars == <<queued, results, pc, job, buf, code, ran>>

Empty == [n |-> 0, marked |-> FALSE]

Init ==
    /\ queued = Jobs /\ results = {}
    /\ pc = "poll" /\ job = NoJob /\ buf = Empty /\ code = 0
    /\ ran = [j \in Jobs |-> [wrote |-> 0, code |-> 0]]

-----------------------------------------------------------------------------
(* cappedBuffer.Write: keep what fits; a write that does not fit leaves    *)
(* the marker, and nothing is kept of what follows a full buffer.          *)

\* Slip: a write is kept whole if any room is left.
Written_Whole(b, k) ==
    IF b.n >= MaxOutput THEN b
    ELSE IF k > MaxOutput - b.n THEN [n |-> b.n + k, marked |-> TRUE]
    ELSE [b EXCEPT !.n = @ + k]

Written(b, k) ==
    IF b.n >= MaxOutput THEN b
    ELSE IF k > MaxOutput - b.n THEN [n |-> MaxOutput, marked |-> TRUE]
    ELSE [b EXCEPT !.n = @ + k]

-----------------------------------------------------------------------------
\* Slip: one buffer serves every job.
Begin_SharedBuffer(j) ==
    /\ pc' = "run" /\ job' = j
    /\ UNCHANGED <<buf, code, ran>>

\* runJob starts with a buffer of its own.
Begin(j) ==
    /\ pc' = "run" /\ job' = j /\ buf' = Empty
    /\ UNCHANGED <<code, ran>>

\* (An empty poll, status 204, changes nothing.)
PollJob(j) ==
    /\ pc = "poll" /\ j \in queued
    /\ queued' = queued \ {j}
    /\ Begin(j)
    /\ UNCHANGED results

\* The request fails, times out or is answered with an error; a job that
\* the gateway put in a lost answer is gone.
PollFails ==
    /\ pc = "poll"
    /\ pc' = "sleep"
    /\ queued' \in {queued} \cup {queued \ {j} : j \in queued}
    /\ UNCHANGED <<results, job, buf, code, ran>>

Wake == pc = "sleep" /\ pc' = "poll" /\ UNCHANGED <<queued, results, job, buf, code, ran>>

\* One Write of the copying goroutine; stdout and stderr share it.
Output(k) ==
    /\ pc = "run" /\ ran[job].wrote + k <= MaxWritten
    /\ buf' = Written(buf, k)
    /\ ran' = [ran EXCEPT ![job].wrote = @ + k]
    /\ UNCHANGED <<queued, results, pc, job, code>>

\* cmd.Run returns: the command has exited and its output is closed.
Finish(c) ==
    /\ pc = "run"
    /\ pc' = "post" /\ code' = c
    /\ ran' = [ran EXCEPT ![job].code = c]
    /\ UNCHANGED <<queued, results, job, buf>>

\* An empty argv, or a command that cannot be started: the error text is
\* the output.
CannotRun(k) ==
    /\ pc = "run" /\ ran[job].wrote = 0 /\ k <= MaxWritten
    /\ pc' = "post" /\ code' = 1
    /\ buf' = Written(buf, k)
    /\ ran' = [ran EXCEPT ![job] = [wrote |-> k, code |-> 1]]
    /\ UNCHANGED <<queued, results, job>>

Result == [job |-> job, n |-> buf.n, marked |-> buf.marked, code |-> code]

\* Slip: a post that fails is tried again at once, for ever.
Post_Retries ==
    /\ pc = "post"
    /\ results' \in {results, results \cup {Result}}
    /\ UNCHANGED <<queued, pc, job, buf, code, ran>>

\* One attempt; whether the gateway recorded the result is not looked at.
Post ==
    /\ pc = "post"
    /\ pc' = "poll" /\ job' = NoJob
    /\ results' \in {results, results \cup {Result}}
    /\ UNCHANGED <<queued, buf, code, ran>>

-----------------------------------------------------------------------------
Next ==
    \/ \E j \in Jobs : PollJob(j)
    \/ PollFails \/ Wake
    \/ \E k \in Chunks : Output(k) \/ CannotRun(k)
    \/ \E c \in Codes : Finish(c)
    \/ Post

Spec == Init /\ [][Next]_vars

\* The loop runs, its timers expire, and every command ends and lets go of
\* its output: cmd.Run has no timeout.
FairSpec ==
    /\ Spec
    /\ WF_vars(Wake) /\ WF_vars(Post)
    /\ WF_vars(\E c \in Codes : Finish(c))

-----------------------------------------------------------------------------
\* The variables have the types the code gives them; in particular the
\* buffer never holds more than its cap.
TypeOK ==
    /\ queued \subseteq Jobs
    /\ results \subseteq [job : Jobs, n : 0..MaxOutput, marked : BOOLEAN, code : Codes]
    /\ pc \in {"poll", "sleep", "run", "post"}
    /\ job \in Jobs \cup {NoJob}
    /\ buf \in [n : 0..MaxOutput, marked : BOOLEAN]
    /\ code \in Codes
    /\ ran \in [Jobs -> [wrote : Nat, code : Codes]]

Kept(w) == IF w > MaxOutput THEN MaxOutput ELSE w

\* A recorded result is that of its own job's run, whatever jobs ran before
\* on the same agent: the first bytes of its output up to the cap and none
\* that another command wrote, its own exit code, and the truncation marker
\* only if something was cut.
ResultsFaithful == \A r \in results :
    /\ r.n = Kept(ran[r.job].wrote)
    /\ r.code = ran[r.job].code
    /\ r.marked => ran[r.job].wrote > MaxOutput

\* No failed poll, failed post, failed or oversized command stops the agent
\* from asking for the next job.
KeepsPolling == []<>(pc = "poll")

\* What has become of a job: it waits at the gateway, is in hand, or is
\* reported or lost.
Fate == [j \in Jobs |->
            IF j \in queued THEN "queued"
            ELSE IF j # job THEN "over"
            ELSE IF pc = "run" THEN "running" ELSE "ended"]

Promise == INSTANCE JobPromise WITH fate <- Fate

\* Poll, run and post together keep the abstract promise: through failed
\* polls and posts no job is run twice or beside another, none is reported
\* before its command has ended, and none twice.
KeepsPromise == Promise!Spec
=============================================================================
