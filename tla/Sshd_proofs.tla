------------------------- MODULE Sshd_proofs -------------------------
(***************************************************************************)
(* Proofs about SshdSocket for every set of processes and every number of  *)
(* starts: the socket is never exposed, and a run that is no party to a    *)
(* clash keeps its path and fails only for a file in its way.  About       *)
(* DirectForward for any amount of payload: a forward that ends by itself  *)
(* has lost nothing, and no connection into the sandbox is left open.  And *)
(* about Sshd: the composition behaves, seen from the socket and seen from *)
(* the channel, as the two modules say, so that what is proved of each of  *)
(* them holds of the whole.                                                *)
(***************************************************************************)
EXTENDS Sshd, TLAPS

-----------------------------------------------------------------------------
(* The socket.                                                             *)

PastProbe == {"mkdir", "lstat", "remove", "listen", "chmod", "serving"}

\* Who has made the directory private, who listens, and that whoever is past
\* its Lstat has no foreign file in its way.
StepInv ==
    /\ \A p \in Processes :
        proc[p] \in {"lstat", "remove", "listen", "chmod", "serving"} => private
    /\ \A p \in Processes : listening[p] <=> proc[p] \in {"chmod", "serving"}
    /\ \A p \in Processes :
        proc[p] \in {"remove", "listen", "chmod", "serving"} => node # Foreign

\* A run that is no party to a clash is the only one past its probe; while it
\* starts nobody else does, and no clashed run is alive.  So it finds the
\* path as it left it.
Alone(p) ==
    /\ proc[p] \in Starting => \A q \in Processes \ {p} :
            proc[q] \notin Starting /\ (q \in clashed => proc[q] \in Ended)
    /\ proc[p] \in PastProbe => \A q \in Processes \ {p} : proc[q] \notin PastProbe
    /\ proc[p] \in {"chmod", "serving"} => node = p
    /\ proc[p] = "remove" => node \in Processes
    /\ proc[p] = "listen" => node = Absent
    /\ proc[p] = "failed" => node = Foreign

Confined == \A p \in Processes \ clashed : Alone(p)

SocketInv == SockTypeOK /\ StepInv /\ Confined

Labels == Starting \cup Ended \cup {"serving"}

-----------------------------------------------------------------------------
\* The initial states satisfy every conjunct.
LEMMA InitSocket == SockInit => SocketInv
  <1> SUFFICES ASSUME SockInit PROVE SocketInv
    OBVIOUS
  <1>1. SockTypeOK
    <2>1. starts \in 0..MaxStarts
      BY SocketAssumption DEF SockInit
    <2>2. clashed \subseteq Processes /\ private \in BOOLEAN
      BY DEF SockInit
    <2>3. proc \in [Processes -> Starting \cup Ended \cup {"serving"}]
      BY DEF SockInit, Ended
    <2>4. listening \in [Processes -> BOOLEAN] /\ \A p \in Processes : proc[p] # "serving"
      BY DEF SockInit
    <2>5. node \in Processes \cup {Absent, Foreign}
      BY DEF SockInit
    <2> QED
      BY <2>1, <2>2, <2>3, <2>4, <2>5 DEF SockTypeOK
  <1>2. \A p \in Processes : proc[p] = "down" /\ listening[p] = FALSE
    BY DEF SockInit
  <1>3. StepInv /\ Confined
    BY <1>2 DEF StepInv, Confined, Alone, Starting, PastProbe
  <1> QED
    BY <1>1, <1>3 DEF SocketInv

\* Every action keeps the types, the mode of the directory and the listeners.
LEMMA StepTypes == SockTypeOK /\ StepInv /\ [SockNext]_sockVars => SockTypeOK' /\ StepInv'
  <1> SUFFICES ASSUME SockTypeOK, StepInv, [SockNext]_sockVars PROVE SockTypeOK' /\ StepInv'
    OBVIOUS
  <1> USE SocketAssumption DEF SockTypeOK, StepInv, Starting, Ended, Goto
  <1>1. ASSUME NEW p \in Processes, Start(p) PROVE SockTypeOK' /\ StepInv'
    <2>1. clashed' \subseteq Processes
      BY <1>1 DEF Start
    <2>2. starts' \in 0..MaxStarts
      BY <1>1 DEF Start
    <2> QED
      BY <1>1, <2>1, <2>2 DEF Start
  <1>2. ASSUME NEW p \in Processes, Probe(p) PROVE SockTypeOK' /\ StepInv'
    <2>1. proc' \in [Processes -> Labels] /\ clashed' \subseteq Processes
      BY <1>2 DEF Probe, Reachable, Labels
    <2> QED
      BY <1>2, <2>1 DEF Probe, Labels
  <1>3. ASSUME NEW p \in Processes, MakeDir(p) PROVE SockTypeOK' /\ StepInv'
    BY <1>3 DEF MakeDir
  <1>4. ASSUME NEW p \in Processes, Lstat(p) PROVE SockTypeOK' /\ StepInv'
    BY <1>4 DEF Lstat
  <1>5. ASSUME NEW p \in Processes, Remove(p) PROVE SockTypeOK' /\ StepInv'
    BY <1>5 DEF Remove
  <1>6. ASSUME NEW p \in Processes, Listen(p) PROVE SockTypeOK' /\ StepInv'
    BY <1>6 DEF Listen
  <1>7. ASSUME NEW p \in Processes, ListenFails(p) PROVE SockTypeOK' /\ StepInv'
    BY <1>7 DEF ListenFails
  <1>8. ASSUME NEW p \in Processes, Chmod(p) PROVE SockTypeOK' /\ StepInv'
    BY <1>8 DEF Chmod
  <1>9. ASSUME NEW p \in Processes, ChmodFails(p) PROVE SockTypeOK' /\ StepInv'
    BY <1>9 DEF ChmodFails, CloseListener
  <1>10. ASSUME NEW p \in Processes, Stop(p) PROVE SockTypeOK' /\ StepInv'
    BY <1>10 DEF Stop, CloseListener
  <1>11. ASSUME NEW p \in Processes, Crash(p) PROVE SockTypeOK' /\ StepInv'
    BY <1>11 DEF Crash
  <1>A. ASSUME NEW p \in Processes, AcceptError(p) PROVE SockTypeOK' /\ StepInv'
    BY <1>A DEF AcceptError
  <1>12. CASE UNCHANGED sockVars
    BY <1>12 DEF sockVars
  <1> QED
    BY <1>1, <1>2, <1>3, <1>4, <1>5, <1>6, <1>7, <1>8, <1>9, <1>10, <1>11, <1>A, <1>12
    DEF SockNext

\* Every action keeps clashes confined to the runs that are counted in.
LEMMA StepAlone == SocketInv /\ [SockNext]_sockVars => Confined'
  <1> SUFFICES ASSUME SocketInv, [SockNext]_sockVars, NEW a \in Processes, a \notin clashed'
               PROVE  Alone(a)'
    BY DEF Confined
  <1>T. SockTypeOK /\ StepInv /\ Confined
    BY DEF SocketInv
  <1> USE <1>T, SocketAssumption
      DEF SockTypeOK, StepInv, Confined, Alone, Starting, Ended, PastProbe, Goto
  <1>1. ASSUME NEW p \in Processes, Start(p) PROVE Alone(a)'
    <2> DEFINE rivals == {q \in Processes \ {p} : proc[q] \in Starting}
               beside == {q \in clashed : proc[q] \notin Ended}
    <2>1. /\ proc' = [proc EXCEPT ![p] = "probe"] /\ node' = node /\ proc[p] \in Ended
          /\ clashed' = IF rivals \cup beside = {} THEN clashed \ {p}
                        ELSE clashed \cup rivals \cup {p}
      BY <1>1 DEF Start
    <2>2. CASE rivals \cup beside = {}
      <3>1. \A q \in Processes \ {p} : proc[q] \notin Starting
                                      /\ (q \in clashed => proc[q] \in Ended)
        BY <2>2
      <3>2. clashed' = clashed \ {p}
        BY <2>1, <2>2
      <3> QED
        BY <2>1, <3>1, <3>2
    <2>3. CASE rivals \cup beside # {}
      <3>1. clashed' = clashed \cup rivals \cup {p}
        BY <2>1, <2>3
      <3>2. a # p /\ proc[a] \notin Starting /\ a \notin clashed
        BY <3>1
      <3> QED
        BY <2>1, <3>2
    <2> QED
      BY <2>2, <2>3
  <1>2. ASSUME NEW p \in Processes, Probe(p) PROVE Alone(a)'
    <2>1. CASE proc' = [proc EXCEPT ![p] = "running"] /\ clashed' = clashed
      BY <1>2, <2>1 DEF Probe
    <2>2. CASE proc' = [proc EXCEPT ![p] = "mkdir"] /\ Reachable
      \* The server that was missed has clashed too; nobody else is past its
      \* probe without having clashed before.
      <3>1. clashed' = clashed \cup {p, node} /\ node' = node /\ proc[p] = "probe"
        BY <1>2, <2>2 DEF Probe
      <3>2. a # p /\ a # node /\ a \notin clashed
        BY <3>1
      <3>3. proc[a] \notin Starting /\ proc[a] \notin PastProbe
        BY <3>1, <3>2
      <3> QED
        BY <2>2, <3>1, <3>2, <3>3
    <2>3. CASE proc' = [proc EXCEPT ![p] = "mkdir"] /\ ~Reachable
      \* The probe saw no listener, and an undisturbed server has its path.
      <3>1. clashed' = clashed /\ node' = node /\ proc[p] = "probe"
        BY <1>2, <2>3 DEF Probe
      <3>2. \A q \in Processes \ clashed : proc[q] # "serving"
        BY <2>3 DEF Reachable
      <3>3. CASE a = p
        <4>1. \A q \in Processes \ {p} : proc[q] \in Ended
          BY <3>1, <3>2, <3>3
        <4> QED
          BY <2>3, <3>1, <3>3, <4>1
      <3>4. CASE a # p
        <4>1. proc[a] \notin Starting /\ proc[a] # "serving"
          BY <3>1, <3>2, <3>4
        <4> QED
          BY <2>3, <3>1, <3>4, <4>1
      <3> QED
        BY <3>3, <3>4
    <2> QED
      BY <1>2, <2>1, <2>2, <2>3 DEF Probe
  <1>3. ASSUME NEW p \in Processes, MakeDir(p) PROVE Alone(a)'
    BY <1>3 DEF MakeDir
  <1>4. ASSUME NEW p \in Processes, Lstat(p) PROVE Alone(a)'
    BY <1>4 DEF Lstat
  <1>5. ASSUME NEW p \in Processes, Remove(p) PROVE Alone(a)'
    BY <1>5 DEF Remove
  <1>6. ASSUME NEW p \in Processes, Listen(p) PROVE Alone(a)'
    BY <1>6 DEF Listen
  <1>7. ASSUME NEW p \in Processes, ListenFails(p) PROVE Alone(a)'
    BY <1>7 DEF ListenFails
  <1>8. ASSUME NEW p \in Processes, Chmod(p) PROVE Alone(a)'
    BY <1>8 DEF Chmod
  <1>9. ASSUME NEW p \in Processes, ChmodFails(p) PROVE Alone(a)'
    BY <1>9 DEF ChmodFails
  <1>10. ASSUME NEW p \in Processes, Stop(p) PROVE Alone(a)'
    BY <1>10 DEF Stop, CloseListener
  <1>11. ASSUME NEW p \in Processes, Crash(p) PROVE Alone(a)'
    BY <1>11 DEF Crash
  <1>A. ASSUME NEW p \in Processes, AcceptError(p) PROVE Alone(a)'
    BY <1>A DEF AcceptError
  <1>12. CASE UNCHANGED sockVars
    BY <1>12 DEF sockVars
  <1> QED
    BY <1>1, <1>2, <1>3, <1>4, <1>5, <1>6, <1>7, <1>8, <1>9, <1>10, <1>11, <1>A, <1>12
    DEF SockNext

-----------------------------------------------------------------------------
\* The inductive invariant holds of every reachable state.
THEOREM SocketInductive == SockSpec => []SocketInv
  <1>1. SocketInv /\ [SockNext]_sockVars => SocketInv'
    BY StepTypes, StepAlone DEF SocketInv
  <1> QED
    BY <1>1, InitSocket, PTL DEF SockSpec

\* The variables keep their types, and who serves listens.
THEOREM SocketTypes == SockSpec => []SockTypeOK
  BY SocketInductive, PTL DEF SocketInv

\* No socket is ever in reach of other users (ListenUnix makes the directory
\* private before it binds).
THEOREM NeverExposed == SockSpec => []SocketPrivate
  <1>1. SocketInv => SocketPrivate
    BY DEF SocketInv, StepInv, SocketPrivate, Reachable
  <1> QED
    BY <1>1, SocketInductive, PTL

\* A server that is no party to a clash keeps its path until it stops, also
\* after earlier clashes whose runs have ended.
THEOREM ServersReachable == SockSpec => []ServerReachable
  <1>1. SocketInv => ServerReachable
    BY DEF SocketInv, Confined, Alone, ServerReachable
  <1> QED
    BY <1>1, SocketInductive, PTL

\* Only a foreign file makes a start fail that is no party to a clash.
THEOREM StartsRecover == SockSpec => []FailsForCause
  <1>1. SocketInv => FailsForCause
    BY DEF SocketInv, Confined, Alone, FailsForCause
  <1> QED
    BY <1>1, SocketInductive, PTL

-----------------------------------------------------------------------------
(* One forward, for any amount of payload in either direction.             *)

\* What the handler holds at each of its steps.
HandlerInv ==
    /\ pc \in {"check", "dial", "rejected"} => target = "none"
    /\ pc \in {"accept", "copying"} => target = "open"
    /\ pc = "done" => target = "closed"
    /\ pc = "cut" => target # "open"
    /\ pc \notin {"check", "rejected"} => request = "loopback"
    /\ channel # "none" => pc \in {"copying", "done", "cut"}
    /\ pc = "done" /\ channel = "closed" => \A d \in Dirs : copier[d] = "done"

\* Why a copy may have ended: its source had ended and all of it was passed
\* on, or a connection was beyond use.  The reason lasts.
CopyInv == \A d \in Dirs : copier[d] = "done" =>
    \/ fin[d] /\ copied[d] = sent[d]
    \/ peer[Peer[d]] = "reset"
    \/ Destination(d) # "there"

ForwardInv == TypeOK /\ HandlerInv /\ CopyInv

-----------------------------------------------------------------------------
\* The initial states satisfy the inductive invariant.
LEMMA InitForward == Init => ForwardInv
  BY ForwardAssumption DEF Init, ForwardInv, TypeOK, HandlerInv, CopyInv, Dirs

\* A peer that is no longer there does not come back, nor change.
LEMMA PeersStayGone ==
    ASSUME TypeOK, [Next]_vars, NEW p \in {"client", "target"}, peer[p] # "there"
    PROVE  peer'[p] = peer[p]
  <1>1. ASSUME NEW d \in Dirs, Leaves(d) PROVE peer'[p] = peer[p]
    BY <1>1 DEF Leaves, TypeOK, Peer, Dirs
  <1>2. CASE Handler
    BY <1>2 DEF Handler, Reject, Check, DialSucceeds, DialFails, Accept, AcceptFails,
                Close, peerVars
  <1>C. CASE Cut
    BY <1>C DEF Cut, Active, peerVars
  <1>3. ASSUME NEW d \in Dirs, Copy(d) \/ CopyEnds(d) \/ Sends(d) \/ HalfCloses(d)
        PROVE  peer'[p] = peer[p]
    BY <1>3 DEF Copy, CopyEnds, Sends, HalfCloses, peerVars
  <1>4. CASE UNCHANGED vars
    BY <1>4 DEF vars, peerVars
  <1> QED
    BY <1>1, <1>2, <1>C, <1>3, <1>4 DEF Next

\* The handler's steps.
LEMMA HandlerStep == ForwardInv /\ Handler => ForwardInv'
  <1> SUFFICES ASSUME ForwardInv, Handler PROVE ForwardInv'
    OBVIOUS
  <1> USE DEF ForwardInv, TypeOK, HandlerInv, CopyInv, peerVars, copyVars, Destination
  <1>1. CASE Reject
    BY <1>1 DEF Reject, Permitted
  <1>2. CASE Check
    BY <1>2 DEF Check, Permitted
  <1>3. CASE DialSucceeds
    BY <1>3 DEF DialSucceeds
  <1>4. CASE DialFails
    BY <1>4 DEF DialFails
  <1>5. CASE Accept
    BY <1>5 DEF Accept
  <1>6. CASE AcceptFails
    BY <1>6 DEF AcceptFails
  <1>7. CASE Close
    BY <1>7 DEF Close
  <1> QED
    BY <1>1, <1>2, <1>3, <1>4, <1>5, <1>6, <1>7 DEF Handler

\* The end of the process.
LEMMA CutStep == ForwardInv /\ Cut => ForwardInv'
  <1> SUFFICES ASSUME ForwardInv, Cut PROVE ForwardInv'
    OBVIOUS
  <1>1. TypeOK'
    BY DEF ForwardInv, TypeOK, Cut, Active, peerVars
  <1>2. HandlerInv' /\ CopyInv'
    BY DEF ForwardInv, TypeOK, HandlerInv, CopyInv, Cut, Active, peerVars, Destination
  <1> QED
    BY <1>1, <1>2 DEF ForwardInv

\* The copies' steps.
LEMMA CopyStep == ASSUME ForwardInv, NEW d \in Dirs, Copy(d) \/ CopyEnds(d) PROVE ForwardInv'
  <1> USE DEF ForwardInv, TypeOK, HandlerInv, peerVars
  <1>1. CASE Copy(d)
    <2>1. copied[d] + 1 \in 0..MaxSent /\ copied[d] + 1 <= sent[d]
      BY <1>1, ForwardAssumption DEF Copy
    <2>2. TypeOK' /\ HandlerInv'
      BY <1>1, <2>1 DEF Copy
    <2>3. CopyInv'
      BY <1>1 DEF Copy, CopyInv, Destination
    <2> QED
      BY <2>2, <2>3
  <1>2. CASE CopyEnds(d)
    <2>1. TypeOK' /\ HandlerInv'
      BY <1>2 DEF CopyEnds
    <2>2. CopyInv'
      BY <1>2 DEF CopyEnds, CopyInv, Destination
    <2> QED
      BY <2>1, <2>2
  <1> QED
    BY <1>1, <1>2

\* The peers' steps: a source that has ended sends no more, and who is gone
\* stays gone, so a reason to end a copy lasts.
LEMMA PeerStep ==
    ASSUME ForwardInv, NEW d \in Dirs, Sends(d) \/ HalfCloses(d) \/ Leaves(d) PROVE ForwardInv'
  <1> USE DEF ForwardInv, HandlerInv, copyVars
  <1>0. [Next]_vars
    BY DEF Next
  <1>1. TypeOK'
    <2>1. CASE Sends(d)
      <3>1. sent[d] + 1 \in 0..MaxSent
        BY <2>1, ForwardAssumption DEF Sends, TypeOK
      <3> QED
        BY <2>1, <3>1 DEF Sends, TypeOK
    <2>2. CASE HalfCloses(d)
      BY <2>2 DEF HalfCloses, TypeOK
    <2>3. CASE Leaves(d)
      <3>1. peer' \in [{"client", "target"} -> {"there", "left", "reset"}]
        BY <2>3 DEF Leaves, TypeOK, Peer
      <3> QED
        BY <2>3, <3>1 DEF Leaves, TypeOK
    <2> QED
      BY <2>1, <2>2, <2>3
  <1>2. HandlerInv'
    BY DEF Sends, HalfCloses, Leaves
  <1>3. CopyInv'
    <2> SUFFICES ASSUME NEW e \in Dirs, copier'[e] = "done"
                 PROVE  \/ fin'[e] /\ copied'[e] = sent'[e]
                        \/ peer'[Peer[e]] = "reset"
                        \/ peer'[Peer[Other[e]]] # "there"
      BY DEF CopyInv, Destination
    <2>1. copier[e] = "done" /\ copied'[e] = copied[e]
      BY DEF Sends, HalfCloses, Leaves
    <2>2. CASE fin[e] /\ copied[e] = sent[e]
      <3>1. fin'[e]
        BY <2>2 DEF Sends, HalfCloses, Leaves, TypeOK
      <3>2. sent'[e] = sent[e]
        BY <2>2 DEF Sends, HalfCloses, Leaves, TypeOK
      <3> QED
        BY <2>1, <2>2, <3>1, <3>2
    <2>3. CASE peer[Peer[e]] = "reset"
      BY <2>3, <1>0, PeersStayGone DEF Peer, Dirs
    <2>4. CASE Destination(e) # "there"
      BY <2>4, <1>0, PeersStayGone DEF Destination, Peer, Other, Dirs
    <2> QED
      BY <2>1, <2>2, <2>3, <2>4 DEF CopyInv
  <1> QED
    BY <1>1, <1>2, <1>3

-----------------------------------------------------------------------------
\* The inductive invariant holds throughout.
THEOREM ForwardInductive == Spec => []ForwardInv
  <1>1. ForwardInv /\ [Next]_vars => ForwardInv'
    <2> SUFFICES ASSUME ForwardInv, [Next]_vars PROVE ForwardInv'
      OBVIOUS
    <2>1. CASE UNCHANGED vars
      BY <2>1 DEF vars, peerVars, copyVars, ForwardInv, TypeOK, HandlerInv, CopyInv, Destination
    <2> QED
      BY <2>1, HandlerStep, CutStep, CopyStep, PeerStep DEF Next
  <1> QED
    BY <1>1, InitForward, PTL DEF Spec

\* Types, and that neither copy passes on more than it was sent.
THEOREM ForwardTypes == Spec => []TypeOK
  BY ForwardInductive, PTL DEF ForwardInv

\* The forward of handleDirectTCPIP loses nothing, however the peers
\* half-close, leave or reset.
THEOREM ForwardComplete == Spec => []NothingLost
  <1>1. ForwardInv => NothingLost
    BY DEF ForwardInv, HandlerInv, CopyInv, NothingLost
  <1> QED
    BY <1>1, ForwardInductive, PTL

\* A target is connected for a permitted request only, and always released.
THEOREM TargetsReleased == Spec => []TargetReleased
  <1>1. ForwardInv => TargetReleased
    BY DEF ForwardInv, TypeOK, HandlerInv, TargetReleased
  <1> QED
    BY <1>1, ForwardInductive, PTL

-----------------------------------------------------------------------------
(* The composition.                                                        *)

\* A step of the whole is a step of the socket, or leaves it alone.
LEMMA SocketStep == [SshdNext]_sshdVars => [SockNext]_sockVars
  <1> SUFFICES ASSUME SshdNext, ~UNCHANGED sockVars PROVE SockNext
    BY DEF sshdVars
  <1>1. ASSUME NEW p \in Processes, Starts(p) PROVE SockNext
    BY <1>1 DEF Starts, SockNext
  <1>2. ASSUME NEW p \in Processes, Ends(p) PROVE SockNext
    BY <1>2 DEF Ends, SockNext
  <1>3. CASE Connect \/ AcceptConn \/ HandshakeSucceeds \/ HandshakeFails \/ ConnLost
             \/ ServeConnEnds
    BY <1>3 DEF Connect, AcceptConn, HandshakeSucceeds, HandshakeFails, ConnLost,
                ServeConnEnds
  <1>4. CASE OpenChannel \/ Serves
    BY <1>4 DEF OpenChannel, Serves
  <1>5. ASSUME NEW d \in Dirs, Copies(d) \/ Talks(d) PROVE SockNext
    BY <1>5 DEF Copies, Talks
  <1> QED
    BY <1>1, <1>2, <1>3, <1>4, <1>5 DEF SshdNext

\* It is a step of the channel, or leaves that alone.
LEMMA ChannelStep == [SshdNext]_sshdVars => [Next]_vars
  <1> SUFFICES ASSUME SshdNext, ~UNCHANGED vars PROVE Next
    BY DEF sshdVars, forwardVars
  <1> USE DEF forwardVars
  <1>1. ASSUME NEW p \in Processes, Starts(p) PROVE Next
    BY <1>1 DEF Starts
  <1>2. ASSUME NEW p \in Processes, Ends(p) PROVE Next
    BY <1>2 DEF Ends, Next
  <1>3. CASE Connect \/ AcceptConn \/ HandshakeSucceeds \/ HandshakeFails \/ ServeConnEnds
    BY <1>3 DEF Connect, AcceptConn, HandshakeSucceeds, HandshakeFails, ServeConnEnds
  <1>4. CASE ConnLost
    BY <1>4 DEF ConnLost, Next, Dirs
  <1>5. CASE OpenChannel \/ Serves
    BY <1>5 DEF OpenChannel, Serves, Next, Handler
  <1>6. ASSUME NEW d \in Dirs, Copies(d) \/ Talks(d) PROVE Next
    BY <1>6 DEF Copies, Talks, Next
  <1> QED
    BY <1>1, <1>2, <1>3, <1>4, <1>5, <1>6 DEF SshdNext

\* The whole program implements both of its parts.
THEOREM Composition == SshdSpec => SockSpec /\ Spec
  <1>1. SshdInit => SockInit /\ Init
    BY DEF SshdInit
  <1> QED
    BY <1>1, SocketStep, ChannelStep, PTL DEF SshdSpec, SockSpec, Spec

\* So a start is told apart from a server in the whole program too.
THEOREM ServersReachableByAll == SshdSpec => [](SocketPrivate /\ ServerReachable /\ FailsForCause)
  BY Composition, NeverExposed, ServersReachable, StartsRecover, PTL

\* And a channel past its checks has a host.
HostInv == Hosted /\ (pc \in Active => host \in Processes)

\* Every step of the whole keeps what a connection leads to.
LEMMA HostStep == SocketInv /\ HostInv /\ [SshdNext]_sshdVars => HostInv'
  <1> SUFFICES ASSUME SocketInv, HostInv, [SshdNext]_sshdVars PROVE HostInv'
    OBVIOUS
  <1> USE HostAssumption DEF HostInv, Hosted, Active
  <1>T. SockTypeOK /\ StepInv
    BY DEF SocketInv
  <1>1. ASSUME NEW p \in Processes, Starts(p) PROVE HostInv'
    \* Whoever leads a connection is past its start, except for its chmod.
    <2>1. conn' = conn /\ host' = host /\ pc' = pc
      BY <1>1 DEF Starts, connVars, forwardVars, vars
    <2>2. \A q \in Processes : listening[q] => listening'[q]
      BY <1>1, <1>T DEF Starts, Start, Probe, MakeDir, Lstat, Remove, Listen, ListenFails,
                        Chmod, SockTypeOK
    <2>3. \A q \in Processes : proc[q] = "serving" => proc'[q] = "serving"
      BY <1>1, <1>T DEF Starts, Start, Probe, MakeDir, Lstat, Remove, Listen, ListenFails,
                        Chmod, SockTypeOK, Goto, Ended
    <2> QED
      BY <2>1, <2>2, <2>3
  <1>2. ASSUME NEW p \in Processes, Ends(p) PROVE HostInv'
    <2>1. host' = host
      BY <1>2 DEF Ends
    <2>2. \A q \in Processes \ {p} : listening'[q] = listening[q] /\ proc'[q] = proc[q]
      BY <1>2, <1>T DEF Ends, ChmodFails, Stop, AcceptError, Crash, CloseListener, Goto,
                        SockTypeOK
    <2>3. CASE p = host
      <3>1. conn' = "closed" /\ pc' \notin Active
        BY <1>2, <2>3 DEF Ends, Cut, forwardVars, vars
      <3> QED
        BY <2>1, <2>3, <3>1
    <2>4. CASE p # host
      <3>1. conn' = conn /\ pc' = pc
        BY <1>2, <2>4 DEF Ends, forwardVars, vars
      <3> QED
        BY <2>1, <2>2, <2>4, <3>1
    <2> QED
      BY <2>3, <2>4
  <1>3. CASE Connect
    BY <1>3 DEF Connect, Reachable, forwardVars, vars, sockVars
  <1>4. CASE AcceptConn \/ HandshakeSucceeds \/ HandshakeFails \/ ServeConnEnds
    BY <1>4 DEF AcceptConn, HandshakeSucceeds, HandshakeFails, ServeConnEnds,
                forwardVars, vars, sockVars
  <1>5. CASE ConnLost
    BY <1>5 DEF ConnLost, Leaves, forwardVars, vars, sockVars
  <1>6. CASE OpenChannel
    BY <1>6 DEF OpenChannel, Reject, Check, sockVars, connVars
  <1>7. CASE Serves
    BY <1>7 DEF Serves, sockVars, connVars
  <1>8. ASSUME NEW d \in Dirs, Copies(d) \/ Talks(d) PROVE HostInv'
    BY <1>8 DEF Copies, Talks, Copy, CopyEnds, Sends, HalfCloses, Leaves, sockVars, connVars
  <1>9. CASE UNCHANGED sshdVars
    BY <1>9 DEF sshdVars, sockVars, connVars, forwardVars, vars
  <1> QED
    BY <1>1, <1>2, <1>3, <1>4, <1>5, <1>6, <1>7, <1>8, <1>9 DEF SshdNext

\* A connection or channel of a process that has ended does not exist, for
\* any number of processes and starts.
THEOREM ConnectionsHosted == SshdSpec => []Hosted
  <1>1. SshdInit => HostInv
    BY HostAssumption DEF SshdInit, Init, HostInv, Hosted, Active
  <1>2. SshdSpec => []SocketInv
    BY Composition, SocketInductive, PTL
  <1>3. HostInv => Hosted
    BY DEF HostInv
  <1> QED
    BY <1>1, <1>2, <1>3, HostStep, PTL DEF SshdSpec

\* The types of the whole program.
THEOREM ProgramTypes == SshdSpec => []SshdTypeOK
  <1>1. SockTypeOK /\ TypeOK /\ Hosted => SshdTypeOK
    BY DEF SshdTypeOK
  <1> QED
    BY <1>1, Composition, SocketTypes, ForwardTypes, ConnectionsHosted, PTL

\* What is proved of a forward by itself holds in a program that can end at
\* any moment.
THEOREM ForwardsOfAll == SshdSpec => [](NothingLost /\ TargetReleased)
  BY Composition, ForwardComplete, TargetsReleased, PTL
=============================================================================
