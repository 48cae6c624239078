---------------------------- MODULE RelayClient ----------------------------
(***************************************************************************)
(* The supervisor side of the gateway relay (relayclient/relayclient.go):  *)
(* Run keeps one outbound control stream to the gateway, session serves    *)
(* it, and every "open" message starts a goroutine, openChannel, that      *)
(* dials the sandbox's SSH socket and a data stream and pipes the two.     *)
(* The gateway, the network and relayproto are the environment.            *)
(***************************************************************************)
EXTENDS Naturals, Sequences

CONSTANTS
    MinBackoff, MaxBackoff,     \* in time units
    MaxInbox,                   \* bound: control messages in flight
    MaxOpens                    \* bound: open messages the gateway sends

\* defaults makes both positive and does not compare them.
ASSUME BackoffAssumption == MinBackoff \in Nat \ {0} /\ MaxBackoff \in Nat \ {0}
ASSUME RelayBoundsAssumption == MaxInbox \in Nat /\ MaxOpens \in Nat

Openers  == 1..MaxOpens
\* "blank" is an open with an empty channel; "forbidden" asks for a target
\* other than TargetSSH.
Messages == {"ping", "open", "blank", "forbidden"}

VARIABLES
    gw,         \* the gateway: "up", "down", "deny" (rejects the token)
    run,        \* Run and session: "dial", "hello", "read", "pong",
                \*   "ended", "sleep", "returned"
    link,       \* the control stream: "none", "up", "dead" (the peer is
                \*   silently gone), "closed" (reads and writes fail)
    inbox,      \* control messages received and not yet read
    backoff,
    aged,       \* 2 * KeepaliveTimeout has passed since started
    cancelled,  \* ctx is done
    opens,      \* openers started
    asked,      \* open messages sent
    op          \* each opener: its pc, its target and its data stream

ctlVars == <<run, link, inbox, backoff, aged>>
vars == <<gw, ctlVars, cancelled, opens, asked, op>>

NoOpener == [pc |-> "idle", target |-> "none", data |-> "none"]

Init ==
    /\ gw \in {"up", "down", "deny"}
    /\ run = "dial" /\ link = "none" /\ inbox = <<>>
    /\ backoff = MinBackoff /\ aged = FALSE
    /\ cancelled = FALSE /\ opens = 0 /\ asked = 0
    /\ op = [i \in Openers |-> NoOpener]

-----------------------------------------------------------------------------
(* The environment.                                                        *)

\* A gateway that goes down takes its end of the control stream with it,
\* with or without the client seeing it.
GatewayChanges ==
    /\ gw' \in {"up", "down", "deny"} \ {gw}
    /\ link' \in IF link = "up" THEN {"up", "dead", "closed"} ELSE {link}
    /\ (gw' = "down" => link' # "up")
    /\ UNCHANGED <<run, inbox, backoff, aged, cancelled, opens, asked, op>>

LinkBreaks ==
    /\ link = "up"
    /\ link' \in {"dead", "closed"}
    /\ UNCHANGED <<gw, run, inbox, backoff, aged, cancelled, opens, asked, op>>

GatewaySends ==
    /\ link = "up" /\ run \in {"read", "pong"} /\ Len(inbox) < MaxInbox
    /\ \E m \in Messages :
        /\ m = "ping" \/ asked < MaxOpens
        /\ inbox' = Append(inbox, m)
        /\ asked' = IF m = "ping" THEN asked ELSE asked + 1
    /\ UNCHANGED <<gw, run, link, backoff, aged, cancelled, opens, op>>

TimePasses ==
    /\ ~aged /\ run # "sleep"
    /\ aged' = TRUE
    /\ UNCHANGED <<gw, run, link, inbox, backoff, cancelled, opens, asked, op>>

\* Slip: nothing closes the control stream when ctx ends.
Cancel_NoAfterFunc ==
    /\ ~cancelled
    /\ cancelled' = TRUE
    /\ UNCHANGED <<gw, ctlVars, opens, asked, op>>

\* ctx ends; context.AfterFunc closes the control stream of a session.
Cancel ==
    /\ ~cancelled
    /\ cancelled' = TRUE
    /\ link' = IF run \in {"hello", "read", "pong"} THEN "closed" ELSE link
    /\ UNCHANGED <<gw, run, inbox, backoff, aged, opens, asked, op>>

-----------------------------------------------------------------------------
(* Run and session.                                                        *)

\* AfterFunc runs at once when ctx ended during the dial.
DialSucceeds ==
    /\ run = "dial" /\ gw = "up"
    /\ run' = "hello" /\ link' = IF cancelled THEN "closed" ELSE "up"
    /\ UNCHANGED <<gw, inbox, backoff, aged, cancelled, opens, asked, op>>

DialFails ==
    /\ run = "dial" /\ (gw # "up" \/ cancelled)
    /\ run' = "ended"
    /\ UNCHANGED <<gw, link, inbox, backoff, aged, cancelled, opens, asked, op>>

\* The deferred conn.Close of session.
EndSession == run' = "ended" /\ link' = "none" /\ inbox' = <<>>

\* A write to a peer that is silently gone may succeed.
WriteHello ==
    /\ run = "hello" /\ link # "closed"
    /\ run' = "read"
    /\ UNCHANGED <<gw, link, inbox, backoff, aged, cancelled, opens, asked, op>>

WritePong ==
    /\ run = "pong" /\ link # "closed"
    /\ run' = "read"
    /\ UNCHANGED <<gw, link, inbox, backoff, aged, cancelled, opens, asked, op>>

WriteFails ==
    /\ run \in {"hello", "pong"} /\ link # "up"
    /\ EndSession
    /\ UNCHANGED <<gw, backoff, aged, cancelled, opens, asked, op>>

ReadPing ==
    /\ run = "read" /\ inbox # <<>> /\ Head(inbox) = "ping"
    /\ inbox' = Tail(inbox) /\ run' = "pong"
    /\ UNCHANGED <<gw, link, backoff, aged, cancelled, opens, asked, op>>

\* Each open with a channel starts an openChannel goroutine.
ReadOpen ==
    /\ run = "read" /\ inbox # <<>> /\ Head(inbox) \in {"open", "forbidden"}
    /\ inbox' = Tail(inbox)
    /\ opens' = opens + 1
    /\ op' = [op EXCEPT ![opens + 1].pc =
                IF Head(inbox) = "open" THEN "target" ELSE "refused"]
    /\ UNCHANGED <<gw, run, link, backoff, aged, cancelled, asked>>

ReadBlank ==
    /\ run = "read" /\ inbox # <<>> /\ Head(inbox) = "blank"
    /\ inbox' = Tail(inbox)
    /\ UNCHANGED <<gw, run, link, backoff, aged, cancelled, opens, asked, op>>

\* Slip: the read has no deadline.
ReadFails_NoDeadline ==
    /\ run = "read" /\ link = "closed"
    /\ EndSession
    /\ UNCHANGED <<gw, backoff, aged, cancelled, opens, asked, op>>

\* The stream is closed, or nothing arrived for KeepaliveTimeout.
ReadFails ==
    /\ run = "read"
    /\ link = "closed" \/ inbox = <<>>
    /\ EndSession
    /\ UNCHANGED <<gw, backoff, aged, cancelled, opens, asked, op>>

\* Back in Run: stop, or reset the backoff after a long session and wait.
Ended ==
    /\ run = "ended"
    /\ run' = IF cancelled THEN "returned" ELSE "sleep"
    /\ backoff' = IF aged /\ ~cancelled THEN MinBackoff ELSE backoff
    /\ UNCHANGED <<gw, link, inbox, aged, cancelled, opens, asked, op>>

\* Slip: the doubling is not capped.
Retry_NoCap ==
    /\ run = "sleep"
    /\ run' = "dial" /\ aged' = FALSE
    /\ backoff' = 2 * backoff
    /\ UNCHANGED <<gw, link, inbox, cancelled, opens, asked, op>>

Retry ==
    /\ run = "sleep"
    /\ run' = "dial" /\ aged' = FALSE
    /\ backoff' = IF 2 * backoff > MaxBackoff THEN MaxBackoff ELSE 2 * backoff
    /\ UNCHANGED <<gw, link, inbox, cancelled, opens, asked, op>>

StopWaiting ==
    /\ run = "sleep" /\ cancelled
    /\ run' = "returned"
    /\ UNCHANGED <<gw, link, inbox, backoff, aged, cancelled, opens, asked, op>>

-----------------------------------------------------------------------------
(* openChannel.  The dials carry a ten second context derived from ctx, so *)
(* each of them ends; the pipe is bound to no context.                     *)

Becomes(i, pc, target, data) ==
    /\ op' = [op EXCEPT ![i] = [pc |-> pc, target |-> target, data |-> data]]
    /\ UNCHANGED <<gw, ctlVars, cancelled, opens, asked>>

TargetDialed(i) == op[i].pc = "target" /\ Becomes(i, "data", "open", "none")

\* No sshd, a timeout, ctx done, or a target that is not permitted.
TargetFails(i) == op[i].pc \in {"target", "refused"} /\ Becomes(i, "done", "none", "none")

DataDialed(i) == op[i].pc = "data" /\ gw = "up" /\ Becomes(i, "pipe", "open", "open")

\* Slip: the target is not closed when the data stream fails.
DataFails_KeepsTarget(i) == op[i].pc = "data" /\ Becomes(i, "done", "open", "none")

\* Slip: the data dial has no timeout and ends only when it is refused.
DataFails_NoTimeout(i) ==
    op[i].pc = "data" /\ gw = "deny" /\ Becomes(i, "done", "closed", "none")

DataFails(i) == op[i].pc = "data" /\ Becomes(i, "done", "closed", "none")

\* relayproto.Pipe copies until an end closes, then closes both.
PipeEnds(i) == op[i].pc = "pipe" /\ Becomes(i, "done", "closed", "closed")

OpenChannel(i) ==
    TargetDialed(i) \/ TargetFails(i) \/ DataDialed(i) \/ DataFails(i) \/ PipeEnds(i)

-----------------------------------------------------------------------------
Client ==
    \/ DialSucceeds \/ DialFails
    \/ WriteHello \/ WritePong \/ WriteFails
    \/ ReadPing \/ ReadOpen \/ ReadBlank \/ ReadFails
    \/ Ended \/ Retry \/ StopWaiting

Next ==
    \/ Client
    \/ \E i \in Openers : OpenChannel(i)
    \/ GatewayChanges \/ LinkBreaks \/ GatewaySends \/ TimePasses \/ Cancel

Spec == Init /\ [][Next]_vars

\* Goroutines run, deadlines and timers expire.  Nothing is assumed of the
\* gateway, the network, or the ends of a pipe.
FairSpec ==
    /\ Spec
    /\ WF_vars(Client)
    /\ \A i \in Openers : WF_vars(OpenChannel(i) /\ op[i].pc # "pipe")

-----------------------------------------------------------------------------
\* The variables have the types the code gives them; only the first wait, and
\* the one after a long session, may exceed the upper limit.
TypeOK ==
    /\ gw \in {"up", "down", "deny"}
    /\ run \in {"dial", "hello", "read", "pong", "ended", "sleep", "returned"}
    /\ link \in {"none", "up", "dead", "closed"}
    /\ inbox \in Seq(Messages) /\ Len(inbox) <= MaxInbox
    /\ backoff \in {MinBackoff} \cup 1..MaxBackoff
    /\ aged \in BOOLEAN /\ cancelled \in BOOLEAN
    /\ opens \in Nat /\ asked \in 0..MaxOpens
    /\ op \in [Openers ->
                [pc : {"idle", "target", "refused", "data", "pipe", "done"},
                 target : {"none", "open", "closed"}, data : {"none", "open", "closed"}]]

\* No connection outlives the code that owns it, on any path: the control
\* stream is closed whenever no session runs (so there is never a second
\* one), and an opener that has returned holds neither the SSH socket nor a
\* data stream.
ConnectionsReleased ==
    /\ run \in {"dial", "ended", "sleep", "returned"} => link = "none"
    /\ \A i \in Openers : op[i].pc \in {"idle", "done"} =>
            op[i].target # "open" /\ op[i].data # "open"

\* Whatever broke the stream before, and even if the token was once rejected
\* or the peer vanished without closing: once the gateway stays up and the
\* network stops breaking streams, the client gets connected, or ctx ends.
Reconnects ==
    (<>[](gw = "up") /\ <>[][~LinkBreaks]_vars)
        => []<>(cancelled \/ (run = "read" /\ link = "up"))

\* Once ctx is done Run returns, however the gateway behaves.
StopsOnCancel == cancelled ~> (run = "returned")

\* No opener hangs in a dial: it fails or reaches its pipe.
OpenersSettle == \A i \in Openers :
    (op[i].pc \in {"target", "refused", "data"}) ~> (op[i].pc \in {"pipe", "done"})
=============================================================================
