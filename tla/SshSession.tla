----------------------------- MODULE SshSession -----------------------------
(***************************************************************************)
(* One "session" channel of whaleshell-sshd: the request loop of           *)
(* handleSession, the child it starts, the goroutines that copy the        *)
(* child's output to the channel and the goroutine that waits for the      *)
(* child, reports its exit status and closes the channel                   *)
(* (sshserver/server.go, sshserver/process_linux.go).                      *)
(*                                                                         *)
(* Three goroutine families interleave: the handler (hd), one copier per   *)
(* counted output stream (cop) and the waiter (wt).  The peer, the child,  *)
(* its descendants and the kernel are the environment.                     *)
(***************************************************************************)
EXTENDS Naturals, Sequences, FiniteSets

CONSTANTS
    MaxReqs,    \* bound: requests the peer sends on the channel
    MaxOut,     \* bound: units the child writes to each stream
    PipeCap,    \* units a kernel pipe (or the terminal) buffers
    MaxWin,     \* units of SSH window the peer grants ahead
    Habits      \* what children may do: "ignoreHup", "daemon"

ASSUME BoundsAssumption == /\ MaxReqs \in Nat \ {0} /\ MaxOut \in Nat \ {0}
                           /\ PipeCap \in Nat \ {0} /\ MaxWin \in Nat \ {0}
ASSUME HabitsAssumption == Habits \subseteq {"ignoreHup", "daemon"}

\* "other" stands for the requests that touch no process: env, subsystem,
\* auth-agent-req, x11-req, window-change and unknown ones.
ReqKinds == {"pty", "start", "signal", "other"}
Streams  == {"out", "err"}

VARIABLES
    chan,       \* the channel: "open", "sentClose" (ours sent), "gone"
    reqs,       \* requests received and not yet handled
    nreqs,      \* requests the peer has sent
    win,        \* units the peer is ready to receive
    hd,         \* handler goroutine
    pty,        \* session.pty # nil
    proc,       \* session.proc # nil
    mode,       \* how the child was started: "none", "pipe", "pty"
    starts,     \* children started on this channel
    replied,    \* the start request got its success reply
    cop,        \* copier of each stream: "off", "read", "write", "done"
    wt,         \* waiter goroutine
    exited,     \* process.exited
    status,     \* exit-status request: "none", "sent", "lost"
    leader,     \* the child: "none", "running", "zombie", "reaped"
    helper,     \* a descendant: "none", "group", "daemon", "gone"
    hup,        \* SIGHUP was sent to the child's process group
    recycled,   \* the child's process group id names a stranger
    stray,      \* a stranger was signalled
    sent, taken, got,   \* per stream: written, read by the copier, delivered
    habits      \* what this child's family does

handlerVars == <<hd, pty, proc, mode, starts, replied>>
ioVars      == <<cop, sent, taken, got, win>>
waiterVars  == <<wt, exited, status>>
osVars      == <<leader, helper, hup, recycled, stray, habits>>
peerVars    == <<chan, reqs, nreqs>>
vars == <<handlerVars, ioVars, waiterVars, osVars, peerVars>>

Counted == IF mode = "pty" THEN {"out"} ELSE Streams

\* The write ends still open: every descendant holds the pipes or the slave,
\* whatever has become of the child itself.
HelperAlive == helper \in {"group", "daemon"}
WriteEndOpen == leader = "running" \/ HelperAlive

GroupExists == leader \in {"running", "zombie"} \/ helper = "group"

Init ==
    /\ chan = "open" /\ reqs = <<>> /\ nreqs = 0 /\ win = 0
    /\ hd = "loop" /\ pty = FALSE /\ proc = FALSE /\ mode = "none"
    /\ starts = 0 /\ replied = FALSE
    /\ cop = [s \in Streams |-> "off"]
    /\ wt = "none" /\ exited = FALSE /\ status = "none"
    /\ leader = "none" /\ helper = "none" /\ hup = FALSE
    /\ recycled = FALSE /\ stray = FALSE
    /\ sent = [s \in Streams |-> 0]
    /\ taken = [s \in Streams |-> 0]
    /\ got = [s \in Streams |-> 0]
    /\ habits \in SUBSET Habits

-----------------------------------------------------------------------------
(* The peer and the transport.                                             *)

PeerRequest ==
    /\ chan # "gone" /\ nreqs < MaxReqs
    /\ \E k \in ReqKinds : reqs' = Append(reqs, k)
    /\ nreqs' = nreqs + 1
    /\ UNCHANGED <<chan, handlerVars, ioVars, waiterVars, osVars>>

PeerReads ==
    /\ chan # "gone" /\ win < MaxWin
    /\ win' = win + 1
    /\ UNCHANGED <<cop, sent, taken, got, handlerVars, waiterVars, osVars, peerVars>>

\* The peer closes the channel, or the connection is lost.
PeerCloses ==
    /\ chan = "open"
    /\ chan' = "gone"
    /\ UNCHANGED <<reqs, nreqs, handlerVars, ioVars, waiterVars, osVars>>

PeerAcksClose ==
    /\ chan = "sentClose"
    /\ chan' = "gone"
    /\ UNCHANGED <<reqs, nreqs, handlerVars, ioVars, waiterVars, osVars>>

\* ch.Close: the first close is sent, later ones do nothing.
CloseChannel == chan' = IF chan = "open" THEN "sentClose" ELSE chan

-----------------------------------------------------------------------------
(* The handler goroutine: handleSession, handle, start.                    *)

Take(k) ==
    /\ hd = "loop" /\ reqs # <<>> /\ Head(reqs) = k
    /\ reqs' = Tail(reqs)
    /\ UNCHANGED <<chan, nreqs>>

HandlePty ==
    /\ Take("pty")
    /\ pty' = TRUE
    /\ UNCHANGED <<hd, proc, mode, starts, replied, ioVars, waiterVars, osVars>>

HandleOther ==
    /\ Take("other")
    /\ UNCHANGED <<handlerVars, ioVars, waiterVars, osVars>>

\* Slip: the check of session.proc is missing.
HandleStart_NoCheck ==
    /\ Take("start")
    /\ hd' = "starting"
    /\ UNCHANGED <<pty, proc, mode, starts, replied, ioVars, waiterVars, osVars>>

\* shell and exec: refused once the session has a process.
HandleStart ==
    /\ Take("start")
    /\ hd' = IF proc THEN "loop" ELSE "starting"
    /\ UNCHANGED <<pty, proc, mode, starts, replied, ioVars, waiterVars, osVars>>

StartFails ==
    /\ hd = "starting"
    /\ hd' = "loop"
    /\ UNCHANGED <<pty, proc, mode, starts, replied, ioVars, waiterVars, osVars, peerVars>>

\* Slip: with a terminal, standard error is given a pipe and a copy as well.
StartSucceeds_ErrPipe ==
    /\ hd = "starting"
    /\ hd' = "reply"
    /\ proc' = TRUE
    /\ starts' = starts + 1
    /\ mode' = IF pty THEN "pty" ELSE "pipe"
    /\ cop' = [s \in Streams |-> "read"]
    /\ leader' = "running"
    /\ UNCHANGED <<pty, replied, sent, taken, got, win, waiterVars,
                   helper, hup, recycled, stray, habits, peerVars>>

\* startProcess succeeds: the child runs and the copiers are spawned, then
\* start records the process; only the handler reads session.proc.
StartSucceeds ==
    /\ hd = "starting"
    /\ hd' = "reply"
    /\ proc' = TRUE
    /\ starts' = starts + 1
    /\ mode' = IF pty THEN "pty" ELSE "pipe"
    /\ cop' = [s \in Streams |-> IF pty /\ s = "err" THEN "off" ELSE "read"]
    /\ leader' = "running"
    /\ UNCHANGED <<pty, replied, sent, taken, got, win, waiterVars,
                   helper, hup, recycled, stray, habits, peerVars>>

ReplyStarted ==
    /\ hd = "reply"
    /\ hd' = "loop"
    /\ replied' = TRUE
    /\ wt' = "copies"
    /\ UNCHANGED <<pty, proc, mode, starts, ioVars, exited, status, osVars, peerVars>>

\* signal: exited is read here and the signal sent in a later step.
HandleSignal ==
    /\ Take("signal")
    /\ hd' = IF proc /\ ~exited THEN "kill" ELSE "loop"
    /\ UNCHANGED <<pty, proc, mode, starts, replied, ioVars, waiterVars, osVars>>

\* kill(-pid): the child's group while it exists, else whoever has the id.
SignalGroup == stray' = (stray \/ (recycled /\ ~GroupExists))

SendSignal ==
    /\ hd = "kill"
    /\ hd' = "loop"
    /\ SignalGroup
    /\ UNCHANGED <<pty, proc, mode, starts, replied, ioVars, waiterVars,
                   leader, helper, hup, recycled, habits, peerVars>>

\* Slip: the hangup of a child with a terminal is left to the kernel.
LoopEnds_PipeOnly ==
    /\ hd = "loop" /\ chan = "gone" /\ reqs = <<>>
    /\ hd' = IF proc /\ ~exited /\ mode = "pipe" THEN "hangup" ELSE "close"
    /\ UNCHANGED <<pty, proc, mode, starts, replied, ioVars, waiterVars, osVars, peerVars>>

\* reqs is closed and drained: the deferred function reads proc and exited.
LoopEnds ==
    /\ hd = "loop" /\ chan = "gone" /\ reqs = <<>>
    /\ hd' = IF proc /\ ~exited THEN "hangup" ELSE "close"
    /\ UNCHANGED <<pty, proc, mode, starts, replied, ioVars, waiterVars, osVars, peerVars>>

SendHangup ==
    /\ hd = "hangup"
    /\ hd' = "close"
    /\ hup' = (hup \/ GroupExists)
    /\ SignalGroup
    /\ UNCHANGED <<pty, proc, mode, starts, replied, ioVars, waiterVars,
                   leader, helper, recycled, habits, peerVars>>

HandlerCloses ==
    /\ hd = "close"
    /\ hd' = "done"
    /\ CloseChannel
    /\ UNCHANGED <<pty, proc, mode, starts, replied, ioVars, waiterVars, osVars, reqs, nreqs>>

-----------------------------------------------------------------------------
(* The copiers: io.Copy from the pipe or the terminal to the channel.      *)

CopyReads(s) ==
    /\ cop[s] = "read" /\ taken[s] < sent[s]
    /\ taken' = [taken EXCEPT ![s] = @ + 1]
    /\ cop' = [cop EXCEPT ![s] = "write"]
    /\ UNCHANGED <<sent, got, win, handlerVars, waiterVars, osVars, peerVars>>

CopyEnds(s) ==
    /\ cop[s] = "read" /\ taken[s] = sent[s] /\ ~WriteEndOpen
    /\ cop' = [cop EXCEPT ![s] = "done"]
    /\ UNCHANGED <<sent, taken, got, win, handlerVars, waiterVars, osVars, peerVars>>

\* A write waits for window while the channel is open.
CopyWrites(s) ==
    /\ cop[s] = "write" /\ chan = "open" /\ win > 0
    /\ got' = [got EXCEPT ![s] = @ + 1]
    /\ win' = win - 1
    /\ cop' = [cop EXCEPT ![s] = "read"]
    /\ UNCHANGED <<sent, taken, handlerVars, waiterVars, osVars, peerVars>>

\* Slip: a failed write does not end the copy.
CopyFails_Retries(s) ==
    /\ cop[s] = "write" /\ chan # "open"
    /\ cop' = [cop EXCEPT ![s] = "write"]
    /\ UNCHANGED <<sent, taken, got, win, handlerVars, waiterVars, osVars, peerVars>>

CopyFails(s) ==
    /\ cop[s] = "write" /\ chan # "open"
    /\ cop' = [cop EXCEPT ![s] = "done"]
    /\ UNCHANGED <<sent, taken, got, win, handlerVars, waiterVars, osVars, peerVars>>

Copier(s) == CopyReads(s) \/ CopyEnds(s) \/ CopyWrites(s) \/ CopyFails(s)

-----------------------------------------------------------------------------
(* The waiter goroutine: process.wait, exit-status, close.                 *)

\* Slip: only standard output is counted in process.copies.
CopiesDone_OutOnly ==
    /\ wt = "copies" /\ cop["out"] = "done"
    /\ wt' = "reap"
    /\ UNCHANGED <<exited, status, handlerVars, ioVars, osVars, peerVars>>

\* Slip: two copies are counted for a terminal too.
CopiesDone_AlwaysTwo ==
    /\ wt = "copies" /\ \A s \in Streams : cop[s] = "done"
    /\ wt' = "reap"
    /\ UNCHANGED <<exited, status, handlerVars, ioVars, osVars, peerVars>>

CopiesDone ==
    /\ wt = "copies" /\ \A s \in Counted : cop[s] = "done"
    /\ wt' = "reap"
    /\ UNCHANGED <<exited, status, handlerVars, ioVars, osVars, peerVars>>

Reap ==
    /\ wt = "reap" /\ leader = "zombie"
    /\ wt' = "store"
    /\ leader' = "reaped"
    /\ UNCHANGED <<exited, status, handlerVars, ioVars, peerVars,
                   helper, hup, recycled, stray, habits>>

\* exited is stored; the master of a terminal is closed after it.
StoreExited ==
    /\ wt = "store"
    /\ wt' = "report"
    /\ exited' = TRUE
    /\ UNCHANGED <<status, handlerVars, ioVars, osVars, peerVars>>

ReportExit ==
    /\ wt = "report"
    /\ wt' = "close"
    /\ status' = IF chan = "open" THEN "sent" ELSE "lost"
    /\ UNCHANGED <<exited, handlerVars, ioVars, osVars, peerVars>>

WaiterCloses ==
    /\ wt = "close"
    /\ wt' = "done"
    /\ CloseChannel
    /\ UNCHANGED <<exited, status, reqs, nreqs, handlerVars, ioVars, osVars>>

Waiter == CopiesDone \/ Reap \/ StoreExited \/ ReportExit \/ WaiterCloses

-----------------------------------------------------------------------------
(* The child, its descendants and the kernel.                              *)

\* cmd.Wait closes the read ends of pipes; process.wait closes the master.
ReadEndOpen ==
    leader \in {"running", "zombie"} \/ (mode = "pty" /\ wt = "store")

ChildWrites(s) ==
    /\ s \in Counted /\ WriteEndOpen
    /\ ReadEndOpen
    /\ sent[s] < MaxOut /\ sent[s] - taken[s] < PipeCap
    /\ sent' = [sent EXCEPT ![s] = @ + 1]
    /\ UNCHANGED <<cop, taken, got, win, handlerVars, waiterVars, osVars, peerVars>>

Spawns ==
    /\ leader = "running" /\ helper = "none"
    /\ ~hup \/ "ignoreHup" \in habits
    /\ helper' = "group"
    /\ UNCHANGED <<leader, hup, recycled, stray, habits, handlerVars, ioVars, waiterVars, peerVars>>

Daemonises ==
    /\ helper = "group" /\ "daemon" \in habits
    /\ helper' = "daemon"
    /\ UNCHANGED <<leader, hup, recycled, stray, habits, handlerVars, ioVars, waiterVars, peerVars>>

\* The child leads the session of its terminal: with it the kernel hangs up
\* the foreground group, which is the child's own unless a shell gave the
\* terminal to a job.  No file descriptor is closed for anybody else.
LeaderExits ==
    /\ leader = "running"
    /\ leader' = "zombie"
    /\ \/ hup' = hup
       \/ mode = "pty" /\ hup' = TRUE
    /\ UNCHANGED <<helper, recycled, stray, habits, handlerVars, ioVars, waiterVars, peerVars>>

HelperExits ==
    /\ HelperAlive
    /\ helper' = "gone"
    /\ UNCHANGED <<leader, hup, recycled, stray, habits, handlerVars, ioVars, waiterVars, peerVars>>

HupKills ==
    /\ hup /\ "ignoreHup" \notin habits
    /\ leader = "running" \/ helper = "group"
    /\ leader' = IF leader = "running" THEN "zombie" ELSE leader
    /\ helper' = IF helper = "group" THEN "gone" ELSE helper
    /\ UNCHANGED <<hup, recycled, stray, habits, handlerVars, ioVars, waiterVars, peerVars>>

\* The id is free once the leader is reaped and its group is empty.
IdRecycled ==
    /\ leader = "reaped" /\ ~GroupExists /\ ~recycled
    /\ recycled' = TRUE
    /\ UNCHANGED <<leader, helper, hup, stray, habits, handlerVars, ioVars, waiterVars, peerVars>>

-----------------------------------------------------------------------------
Handler ==
    \/ HandlePty \/ HandleOther \/ HandleStart \/ HandleSignal
    \/ StartFails \/ StartSucceeds \/ ReplyStarted
    \/ SendSignal \/ LoopEnds \/ SendHangup \/ HandlerCloses

Peer == PeerRequest \/ PeerReads \/ PeerCloses \/ PeerAcksClose

Family ==
    \/ \E s \in Streams : ChildWrites(s)
    \/ Spawns \/ Daemonises \/ LeaderExits \/ HelperExits
    \/ HupKills \/ IdRecycled

Next == Handler \/ (\E s \in Streams : Copier(s)) \/ Waiter \/ Peer \/ Family

Spec == Init /\ [][Next]_vars

\* Goroutines are scheduled, a peer that keeps the channel keeps reading and
\* answers a close, and SIGHUP kills whoever does not ignore it.  Nothing
\* makes a child exit or a peer close.
Fairness ==
    /\ WF_vars(Handler)
    /\ \A s \in Streams : WF_vars(Copier(s))
    /\ WF_vars(Waiter)
    /\ WF_vars(PeerReads) /\ WF_vars(PeerAcksClose)
    /\ WF_vars(HupKills)

FairSpec == Spec /\ Fairness

-----------------------------------------------------------------------------
\* The variables have the types the code gives them, and a stream has a copy
\* exactly when it is counted: one stream with a terminal, two with pipes.
TypeOK ==
    /\ chan \in {"open", "sentClose", "gone"}
    /\ reqs \in Seq(ReqKinds) /\ nreqs \in 0..MaxReqs /\ win \in 0..MaxWin
    /\ hd \in {"loop", "starting", "reply", "kill", "hangup", "close", "done"}
    /\ pty \in BOOLEAN /\ proc \in BOOLEAN /\ replied \in BOOLEAN
    /\ mode \in {"none", "pipe", "pty"} /\ starts \in Nat
    /\ cop \in [Streams -> {"off", "read", "write", "done"}]
    /\ \A s \in Streams : cop[s] = "off" <=> mode = "none" \/ s \notin Counted
    /\ wt \in {"none", "copies", "reap", "store", "report", "close", "done"}
    /\ exited \in BOOLEAN /\ status \in {"none", "sent", "lost"}
    /\ leader \in {"none", "running", "zombie", "reaped"}
    /\ helper \in {"none", "group", "daemon", "gone"}
    /\ hup \in BOOLEAN /\ recycled \in BOOLEAN /\ stray \in BOOLEAN
    /\ sent \in [Streams -> Nat] /\ taken \in [Streams -> Nat] /\ got \in [Streams -> Nat]
    /\ habits \subseteq Habits

\* An exit status the client receives is the last word but for the close: the
\* start request was answered before it, everything the child and its
\* descendants wrote has been delivered, and nothing that could still write
\* holds the streams (wait drains the copies before it reaps, start replies
\* before it waits); and a channel that is closed by us before the peer closed
\* it, by the handler or the waiter, has its status sent.
ExitStatusIsLast ==
    /\ status = "sent" =>
        /\ replied
        /\ got = sent
        /\ ~WriteEndOpen
    /\ chan = "sentClose" => status = "sent"

\* A channel never runs a second child, however requests, failed starts and
\* the child's own exit interleave (start's check of session.proc).
OneChild == starts <= 1

\* No child escapes the end of its channel: once handleSession has returned,
\* a child that still runs has been sent SIGHUP, even when it was started by
\* a request handled after the peer had closed.
NoChildEscapes == hd = "done" /\ leader = "running" => hup

\* Every signal the handler sends reaches the child's own process group
\* (process.signal and process.hangup test exited before kill(-pid)).
SignalsReachOwnGroup == ~stray

\* After the channel is gone both goroutines finish and the child is reaped,
\* provided its family neither ignores SIGHUP nor leaves the process group.
SessionEnds ==
    (chan = "gone" /\ habits = {}) ~> (hd = "done" /\ (proc => wt = "done"))

\* Once the child has exited and no descendant lives, its exit status is
\* sent, or lost because the channel closed first.
ExitIsReported ==
    (leader = "zombie" /\ ~HelperAlive) ~> (status # "none")

\* What the client was promised, step by step: the command is idle before the
\* child starts and over when nothing holds its streams any more.
Phase == IF leader = "none" THEN "idle" ELSE IF WriteEndOpen THEN "running" ELSE "over"

Promise == INSTANCE SessionPromise
           WITH phase <- Phase, answered <- replied, report <- status

\* Handler, copiers, waiter and the child's family together are a session that
\* keeps the abstract promise: one command, each unit of output delivered at
\* most once, its exit reported once and after everything else, and only then
\* the close (handleSession, start, process.wait).
KeepsPromise == Promise!Spec
=============================================================================
