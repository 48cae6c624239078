--------------------------- MODULE DirectForward ---------------------------
(***************************************************************************)
(* One direct-tcpip channel of whaleshell-sshd (handleDirectTCPIP in       *)
(* sshserver/server.go): the client asks for an address in the sandbox,    *)
(* the server dials it and runs two copies, each of which half-closes its  *)
(* destination when its source ends.  Client and target are the            *)
(* environment; payload is counted.                                        *)
(***************************************************************************)
EXTENDS Naturals

CONSTANT MaxSent    \* bound: what each peer sends

ASSUME ForwardAssumption == MaxSent \in Nat

\* The two copies: "out" from the client to the target, "in" back.
Dirs  == {"out", "in"}
Other == [out |-> "in", in |-> "out"]
Peer  == [out |-> "client", in |-> "target"]   \* the source of each

\* The handler past its checks.
Active == {"dial", "accept", "copying"}

\* What the payload may ask for.
Requests == {"loopback", "elsewhere", "badPort", "garbled"}

VARIABLES
    pc,         \* the handler: "check", "dial", "accept", "copying",
                \*   "rejected", "done"; "cut" when the process ended
    request,
    target,     \* our end of the target connection: "none", "open", "closed"
    channel,    \* our end of the channel: "none", "open", "closed"
    peer,       \* each peer: "there", "left" (closed both ways), "reset"
    sent,       \* per direction: what its source sent
    fin,        \*   and whether it ended its stream
    copier,     \* "off", "on", "done"
    copied,     \*   what it passed on
    told        \*   and whether it passed on the end: CloseWrite

peerVars == <<peer, sent, fin>>
copyVars == <<copier, copied, told>>
vars == <<pc, request, target, channel, peerVars, copyVars>>

Init ==
    /\ pc = "check" /\ request \in Requests
    /\ target = "none" /\ channel = "none"
    /\ peer = [p \in {"client", "target"} |-> "there"]
    /\ sent = [d \in Dirs |-> 0] /\ fin = [d \in Dirs |-> FALSE]
    /\ copier = [d \in Dirs |-> "off"] /\ copied = [d \in Dirs |-> 0]
    /\ told = [d \in Dirs |-> FALSE]

-----------------------------------------------------------------------------
(* The peers.                                                              *)

\* A peer talks once there is a connection to talk on, until it ends its
\* stream or our end is closed.
Connected(d) == IF d = "out" THEN channel = "open" ELSE target = "open"

Sends(d) ==
    /\ Connected(d) /\ ~fin[d] /\ sent[d] < MaxSent
    /\ sent' = [sent EXCEPT ![d] = @ + 1]
    /\ UNCHANGED <<pc, request, target, channel, peer, fin, copyVars>>

HalfCloses(d) ==
    /\ Connected(d) /\ ~fin[d]
    /\ fin' = [fin EXCEPT ![d] = TRUE]
    /\ UNCHANGED <<pc, request, target, channel, peer, sent, copyVars>>

\* It goes for good, what it sent before being still readable or (a reset
\* of the target's TCP connection) not.
Leaves(d) ==
    /\ Connected(d) \/ (d = "out" /\ pc \in {"dial", "accept"})
    /\ peer[Peer[d]] = "there"
    /\ \E how \in {"left", "reset"} :
        /\ how = "reset" => d = "in"
        /\ peer' = [peer EXCEPT ![Peer[d]] = how]
    /\ fin' = [fin EXCEPT ![d] = TRUE]
    /\ UNCHANGED <<pc, request, target, channel, sent, copyVars>>

\* A peer that is told that the other one has ended ends too, in its time.
Follows(d) == told[Other[d]] /\ (HalfCloses(d) \/ Leaves(d))

-----------------------------------------------------------------------------
(* The handler.                                                            *)

Permitted == request = "loopback"

Reject ==
    /\ pc = "check" /\ ~Permitted
    /\ pc' = "rejected"
    /\ UNCHANGED <<request, target, channel, peerVars, copyVars>>

Check ==
    /\ pc = "check" /\ Permitted
    /\ pc' = "dial"
    /\ UNCHANGED <<request, target, channel, peerVars, copyVars>>

DialSucceeds ==
    /\ pc = "dial"
    /\ pc' = "accept" /\ target' = "open"
    /\ UNCHANGED <<request, channel, peerVars, copyVars>>

\* Refused, or ten seconds have passed.
DialFails ==
    /\ pc = "dial"
    /\ pc' = "rejected"
    /\ UNCHANGED <<request, target, channel, peerVars, copyVars>>

Accept ==
    /\ pc = "accept"
    /\ pc' = "copying" /\ channel' = "open"
    /\ copier' = [d \in Dirs |-> "on"]
    /\ UNCHANGED <<request, target, peerVars, copied, told>>

\* Slip: the target stays open when the client is gone.
AcceptFails_KeepsTarget ==
    /\ pc = "accept" /\ peer["client"] = "left"
    /\ pc' = "done"
    /\ UNCHANGED <<request, target, channel, peerVars, copyVars>>

AcceptFails ==
    /\ pc = "accept" /\ peer["client"] = "left"
    /\ pc' = "done" /\ target' = "closed"
    /\ UNCHANGED <<request, channel, peerVars, copyVars>>

Destination(d) == peer[Peer[Other[d]]]

\* One read and write.  A write to a peer that has gone may still succeed.
Copy(d) ==
    /\ copier[d] = "on" /\ copied[d] < sent[d]
    /\ copied' = [copied EXCEPT ![d] = @ + 1]
    /\ UNCHANGED <<pc, request, target, channel, peerVars, copier, told>>

\* Slip: the end of a stream is not passed on.
CopyEnds_NoCloseWrite(d) ==
    /\ copier[d] = "on"
    /\ \/ fin[d] /\ copied[d] = sent[d]
       \/ peer[Peer[d]] = "reset"
       \/ copied[d] < sent[d] /\ Destination(d) # "there"
    /\ copier' = [copier EXCEPT ![d] = "done"]
    /\ UNCHANGED <<pc, request, target, channel, peerVars, copied, told>>

\* The source ended, the connection broke, or the write failed; either way
\* the destination is half-closed.
CopyEnds(d) ==
    /\ copier[d] = "on"
    /\ \/ fin[d] /\ copied[d] = sent[d]
       \/ peer[Peer[d]] = "reset"
       \/ copied[d] < sent[d] /\ Destination(d) # "there"
    /\ copier' = [copier EXCEPT ![d] = "done"]
    /\ told' = [told EXCEPT ![d] = TRUE]
    /\ UNCHANGED <<pc, request, target, channel, peerVars, copied>>

\* Slip: the first copy to end closes both connections.
Close_AfterFirst ==
    /\ pc = "copying" /\ \E d \in Dirs : copier[d] = "done"
    /\ pc' = "done" /\ channel' = "closed" /\ target' = "closed"
    /\ copier' = [d \in Dirs |-> "done"]
    /\ UNCHANGED <<request, peerVars, copied, told>>

\* wg.Wait, then both connections are closed.
Close ==
    /\ pc = "copying" /\ \A d \in Dirs : copier[d] = "done"
    /\ pc' = "done" /\ channel' = "closed" /\ target' = "closed"
    /\ UNCHANGED <<request, peerVars, copyVars>>

\* The process ends with the channel half way: the kernel closes both
\* connections.
Cut ==
    /\ pc \in Active
    /\ pc' = "cut"
    /\ target' = IF target = "open" THEN "closed" ELSE target
    /\ channel' = IF channel = "open" THEN "closed" ELSE channel
    /\ copier' = [d \in Dirs |-> "off"]
    /\ UNCHANGED <<request, peerVars, copied, told>>

Handler ==
    \/ Reject \/ Check \/ DialSucceeds \/ DialFails
    \/ Accept \/ AcceptFails \/ Close

Next ==
    \/ Handler \/ Cut
    \/ \E d \in Dirs : Copy(d) \/ CopyEnds(d)
    \/ \E d \in Dirs : Sends(d) \/ HalfCloses(d) \/ Leaves(d)

Spec == Init /\ [][Next]_vars

-----------------------------------------------------------------------------
\* The variables have the types the code gives them; no copy runs ahead.
TypeOK ==
    /\ pc \in {"check", "dial", "accept", "copying", "rejected", "done", "cut"}
    /\ request \in Requests
    /\ target \in {"none", "open", "closed"} /\ channel \in {"none", "open", "closed"}
    /\ peer \in [{"client", "target"} -> {"there", "left", "reset"}]
    /\ sent \in [Dirs -> 0..MaxSent] /\ fin \in [Dirs -> BOOLEAN]
    /\ copier \in [Dirs -> {"off", "on", "done"}]
    /\ copied \in [Dirs -> 0..MaxSent] /\ \A d \in Dirs : copied[d] <= sent[d]
    /\ told \in [Dirs -> BOOLEAN]

\* When the connections are closed, everything a peer sent has been passed
\* on unless that peer's connection was reset or nobody is left to read it:
\* a client that half-closes still gets the whole answer.
NothingLost ==
    pc = "done" /\ channel = "closed" => \A d \in Dirs :
        \/ copied[d] = sent[d]
        \/ peer[Peer[d]] = "reset"
        \/ Destination(d) # "there"

\* A connection into the sandbox exists only for a request that was
\* permitted, and none is left open when the handler is through.
TargetReleased ==
    /\ target # "none" => request = "loopback"
    /\ pc \in {"rejected", "done", "cut"} => target # "open"

\* Once either peer ends its stream the forward comes to an end, because
\* each side is told of the other's.
ForwardEnds == (pc = "copying" /\ \E d \in Dirs : fin[d]) ~> (pc \in {"done", "cut"})
=============================================================================
