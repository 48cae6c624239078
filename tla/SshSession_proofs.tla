-------------------------- MODULE SshSession_proofs --------------------------
(***************************************************************************)
(* Proofs about SshSession for every value of its constants: the type      *)
(* invariant, the safety invariants and that the session keeps the         *)
(* abstract promise, from one inductive invariant; and that signals go     *)
(* astray by one race only.                                                *)
(***************************************************************************)
EXTENDS SshSession, TLAPS

\* The session records a child exactly when one was started, and only then
\* do a waiter, copies and descendants exist.
ChildInv ==
    /\ hd = "starting" => ~proc
    /\ hd = "reply" => proc /\ wt = "none"
    /\ proc => starts = 1 /\ leader # "none" /\ mode \in {"pipe", "pty"}
    /\ ~proc => /\ starts = 0 /\ leader = "none" /\ helper = "none"
                /\ mode = "none" /\ wt = "none"
                /\ \A s \in Streams : cop[s] = "off" /\ sent[s] = 0
    /\ wt \in {"store", "report", "close", "done"} => leader = "reaped"
    /\ exited => wt \in {"report", "close", "done"}

\* Once the handler has left its loop the channel is gone, and past the
\* hangup a running child has its SIGHUP.
HandlerInv ==
    /\ hd \in {"hangup", "close", "done"} => chan = "gone"
    /\ hd \in {"close", "done"} /\ leader = "running" => hup

\* What the copiers hold: a unit read is delivered before the next is read,
\* and a copy that ended on an open channel delivered everything.
CopyInv ==
    \A s \in Streams :
        /\ taken[s] <= sent[s]
        /\ cop[s] \in {"off", "read"} => taken[s] = got[s]
        /\ cop[s] = "write" => taken[s] = got[s] + 1
        /\ cop[s] = "off" => sent[s] = 0 /\ got[s] = 0
        /\ cop[s] = "done" /\ chan = "open" => got[s] = sent[s] /\ ~WriteEndOpen
        /\ proc => (cop[s] = "off" <=> s \notin Counted)
        /\ wt \in {"reap", "store", "report", "close", "done"} /\ s \in Counted
              => cop[s] = "done"

\* When the exit status goes out, and what is over by then.
StatusInv ==
    /\ wt # "none" => replied
    /\ status # "none" => wt \in {"close", "done"}
    /\ wt \in {"close", "done"} => status # "none"
    /\ status = "lost" => chan # "open"
    /\ ExitStatusIsLast

IInv == TypeOK /\ ChildInv /\ HandlerInv /\ CopyInv /\ StatusInv

-----------------------------------------------------------------------------
\* Initial states satisfy the inductive invariant.
LEMMA InitIInv == Init => IInv
  <1> SUFFICES ASSUME Init PROVE IInv
    OBVIOUS
  <1> USE DEF Init
  <1>1. TypeOK
    <2>1. chan \in {"open", "sentClose", "gone"} /\ nreqs \in 0..MaxReqs /\ win \in 0..MaxWin
      BY BoundsAssumption
    <2>2. reqs \in Seq(ReqKinds)
      OBVIOUS
    <2>3. cop \in [Streams -> {"off", "read", "write", "done"}]
      OBVIOUS
    <2> QED
      BY <2>1, <2>2, <2>3 DEF TypeOK
  <1>2. ChildInv
    BY DEF ChildInv, Streams
  <1>3. HandlerInv
    BY DEF HandlerInv
  <1>4. CopyInv
    BY DEF CopyInv, Streams
  <1>5. StatusInv
    BY DEF StatusInv, ExitStatusIsLast, WriteEndOpen
  <1> QED
    BY <1>1, <1>2, <1>3, <1>4, <1>5 DEF IInv

\* Every step keeps the variables in their types.
LEMMA StepTypeOK == TypeOK /\ [Next]_vars => TypeOK'
  <1> SUFFICES ASSUME TypeOK, [Next]_vars PROVE TypeOK'
    OBVIOUS
  <1> USE BoundsAssumption DEF TypeOK, Counted, handlerVars, ioVars, waiterVars, osVars, peerVars
  <1>1. CASE Handler
    <2>1. CASE HandlePty
      BY <2>1 DEF HandlePty, Take, ReqKinds
    <2>2. CASE HandleOther
      BY <2>2 DEF HandleOther, Take, ReqKinds
    <2>3. CASE HandleStart
      BY <2>3 DEF HandleStart, Take, ReqKinds
    <2>4. CASE HandleSignal
      BY <2>4 DEF HandleSignal, Take, ReqKinds
    <2>5. CASE StartFails
      BY <2>5 DEF StartFails
    <2>6. CASE StartSucceeds
      <3>1. cop' \in [Streams -> {"off", "read", "write", "done"}]
        BY <2>6 DEF StartSucceeds
      <3>2. \A s \in Streams : cop'[s] = "off" <=> (mode' = "pty" /\ s = "err")
        BY <2>6 DEF StartSucceeds
      <3>3. (\A s \in Streams : cop[s] = "off" <=> mode = "none" \/ s \notin Counted)'
        BY <2>6, <3>2 DEF StartSucceeds, Streams
      <3> QED
        BY <2>6, <3>1, <3>3 DEF StartSucceeds
    <2>7. CASE ReplyStarted
      BY <2>7 DEF ReplyStarted
    <2>8. CASE SendSignal
      BY <2>8 DEF SendSignal, SignalGroup
    <2>9. CASE LoopEnds
      BY <2>9 DEF LoopEnds
    <2>10. CASE SendHangup
      BY <2>10 DEF SendHangup, SignalGroup
    <2>11. CASE HandlerCloses
      BY <2>11 DEF HandlerCloses, CloseChannel
    <2> QED
      BY <1>1, <2>1, <2>2, <2>3, <2>4, <2>5, <2>6, <2>7, <2>8, <2>9, <2>10, <2>11 DEF Handler
  <1>2. ASSUME NEW s \in Streams, Copier(s) PROVE TypeOK'
    <2>1. CASE CopyReads(s)
      BY <2>1 DEF CopyReads
    <2>2. CASE CopyEnds(s)
      BY <2>2 DEF CopyEnds
    <2>3. CASE CopyWrites(s)
      BY <2>3 DEF CopyWrites
    <2>4. CASE CopyFails(s)
      BY <2>4 DEF CopyFails
    <2> QED
      BY <1>2, <2>1, <2>2, <2>3, <2>4 DEF Copier
  <1>3. CASE Waiter
    <2>1. CASE CopiesDone
      BY <2>1 DEF CopiesDone
    <2>2. CASE Reap
      BY <2>2 DEF Reap
    <2>3. CASE StoreExited
      BY <2>3 DEF StoreExited
    <2>4. CASE ReportExit
      BY <2>4 DEF ReportExit
    <2>5. CASE WaiterCloses
      BY <2>5 DEF WaiterCloses, CloseChannel
    <2> QED
      BY <1>3, <2>1, <2>2, <2>3, <2>4, <2>5 DEF Waiter
  <1>4. CASE Peer
    <2>1. CASE PeerRequest
      BY <2>1 DEF PeerRequest
    <2>2. CASE PeerReads
      BY <2>2 DEF PeerReads
    <2>3. CASE PeerCloses
      BY <2>3 DEF PeerCloses
    <2>4. CASE PeerAcksClose
      BY <2>4 DEF PeerAcksClose
    <2> QED
      BY <1>4, <2>1, <2>2, <2>3, <2>4 DEF Peer
  <1>5. CASE Family
    <2>0. ASSUME NEW s \in Streams, ChildWrites(s) PROVE TypeOK'
      BY <2>0 DEF ChildWrites
    <2>1. CASE Spawns
      BY <2>1 DEF Spawns
    <2>2. CASE Daemonises
      BY <2>2 DEF Daemonises
    <2>3. CASE LeaderExits
      <3>1. hup' \in BOOLEAN
        BY <2>3, Zenon DEF LeaderExits
      <3>2. leader' = "zombie"
        BY <2>3 DEF LeaderExits
      <3>3. UNCHANGED <<helper, recycled, stray, habits, handlerVars, ioVars, waiterVars, peerVars>>
        BY <2>3 DEF LeaderExits
      <3> QED
        BY <3>1, <3>2, <3>3
    <2>4. CASE HelperExits
      BY <2>4 DEF HelperExits
    <2>5. CASE HupKills
      BY <2>5 DEF HupKills
    <2>6. CASE IdRecycled
      BY <2>6 DEF IdRecycled
    <2> QED
      BY <1>5, <2>0, <2>1, <2>2, <2>3, <2>4, <2>5, <2>6 DEF Family
  <1>6. CASE UNCHANGED vars
    BY <1>6 DEF vars
  <1> QED
    BY <1>1, <1>2, <1>3, <1>4, <1>5, <1>6 DEF Next

-----------------------------------------------------------------------------
\* Every step keeps the record of the child consistent.
LEMMA StepChildInv == TypeOK /\ ChildInv /\ [Next]_vars => ChildInv'
  <1> SUFFICES ASSUME TypeOK, ChildInv, [Next]_vars PROVE ChildInv'
    OBVIOUS
  <1> USE DEF ChildInv, TypeOK, Streams, handlerVars, ioVars, waiterVars, osVars, peerVars
  <1>1. CASE Handler
    <2>1. CASE HandlePty \/ HandleOther \/ HandleStart \/ HandleSignal
      BY <2>1 DEF HandlePty, HandleOther, HandleStart, HandleSignal
    <2>2. CASE StartSucceeds
      BY <2>2 DEF StartSucceeds, TypeOK
    <2>3. CASE StartFails \/ ReplyStarted
      BY <2>3 DEF StartFails, ReplyStarted
    <2>4. CASE SendSignal \/ LoopEnds \/ SendHangup \/ HandlerCloses
      BY <2>4 DEF SendSignal, LoopEnds, SendHangup, HandlerCloses
    <2> QED
      BY <1>1, <2>1, <2>2, <2>3, <2>4 DEF Handler
  <1>2. ASSUME NEW s \in Streams, Copier(s) PROVE ChildInv'
    BY <1>2 DEF Copier, CopyReads, CopyEnds, CopyWrites, CopyFails, TypeOK
  <1>3. CASE Waiter
    BY <1>3 DEF Waiter, CopiesDone, Reap, StoreExited, ReportExit, WaiterCloses
  <1>4. CASE Peer
    BY <1>4 DEF Peer, PeerRequest, PeerReads, PeerCloses, PeerAcksClose
  <1>5. CASE Family
    <2>1. ASSUME NEW s \in Streams, ChildWrites(s) PROVE ChildInv'
      BY <2>1 DEF ChildWrites, WriteEndOpen, HelperAlive, TypeOK
    <2>2. CASE Spawns \/ Daemonises \/ LeaderExits \/ HelperExits \/ HupKills \/ IdRecycled
      BY <2>2 DEF Spawns, Daemonises, LeaderExits, HelperExits, HelperAlive,
                  HupKills, IdRecycled, TypeOK
    <2> QED
      BY <1>5, <2>1, <2>2 DEF Family
  <1>6. CASE UNCHANGED vars
    BY <1>6 DEF vars
  <1> QED
    BY <1>1, <1>2, <1>3, <1>4, <1>5, <1>6 DEF Next

\* Every step keeps the handler's side: the loop ends only when the channel
\* is gone, and no child starts after it.
LEMMA StepHandlerInv ==
    TypeOK /\ ChildInv /\ HandlerInv /\ [Next]_vars => HandlerInv'
  <1> SUFFICES ASSUME TypeOK, ChildInv, HandlerInv, [Next]_vars PROVE HandlerInv'
    OBVIOUS
  <1> USE DEF HandlerInv, handlerVars, ioVars, waiterVars, osVars, peerVars
  <1>1. CASE Handler
    <2>1. CASE HandlePty \/ HandleOther \/ HandleStart \/ HandleSignal
      BY <2>1 DEF HandlePty, HandleOther, HandleStart, HandleSignal, Take
    <2>2. CASE StartFails \/ StartSucceeds \/ ReplyStarted \/ SendSignal
      BY <2>2 DEF StartFails, StartSucceeds, ReplyStarted, SendSignal
    <2>3. CASE LoopEnds
      \* A child already marked exited is reaped; without a child none runs.
      BY <2>3 DEF LoopEnds, ChildInv
    <2>4. CASE SendHangup
      BY <2>4 DEF SendHangup, GroupExists
    <2>5. CASE HandlerCloses
      BY <2>5 DEF HandlerCloses, CloseChannel
    <2> QED
      BY <1>1, <2>1, <2>2, <2>3, <2>4, <2>5 DEF Handler
  <1>2. ASSUME NEW s \in Streams, Copier(s) PROVE HandlerInv'
    BY <1>2 DEF Copier, CopyReads, CopyEnds, CopyWrites, CopyFails
  <1>3. CASE Waiter
    BY <1>3 DEF Waiter, CopiesDone, Reap, StoreExited, ReportExit, WaiterCloses, CloseChannel
  <1>4. CASE Peer
    BY <1>4 DEF Peer, PeerRequest, PeerReads, PeerCloses, PeerAcksClose
  <1>5. CASE Family
    BY <1>5 DEF Family, ChildWrites, Spawns, Daemonises, LeaderExits, HelperExits,
                HupKills, IdRecycled
  <1>6. CASE UNCHANGED vars
    BY <1>6 DEF vars
  <1> QED
    BY <1>1, <1>2, <1>3, <1>4, <1>5, <1>6 DEF Next

-----------------------------------------------------------------------------
\* A write end that is closed stays closed: only the session leader spawns,
\* and no second leader is started.
LEMMA WriteEndStaysClosed ==
    TypeOK /\ ChildInv /\ proc /\ ~WriteEndOpen /\ [Next]_vars => ~WriteEndOpen'
  <1> SUFFICES ASSUME TypeOK, ChildInv, proc, ~WriteEndOpen, [Next]_vars
               PROVE  ~WriteEndOpen'
    OBVIOUS
  <1> USE DEF WriteEndOpen, HelperAlive, handlerVars, ioVars, waiterVars, osVars, peerVars
  <1>1. CASE Handler
    BY <1>1 DEF Handler, HandlePty, HandleOther, HandleStart, HandleSignal, StartFails,
                StartSucceeds, ReplyStarted, SendSignal, LoopEnds, SendHangup,
                HandlerCloses, ChildInv
  <1>2. ASSUME NEW s \in Streams, Copier(s) PROVE ~WriteEndOpen'
    BY <1>2 DEF Copier, CopyReads, CopyEnds, CopyWrites, CopyFails
  <1>3. CASE Waiter
    BY <1>3 DEF Waiter, CopiesDone, Reap, StoreExited, ReportExit, WaiterCloses
  <1>4. CASE Peer
    BY <1>4 DEF Peer, PeerRequest, PeerReads, PeerCloses, PeerAcksClose
  <1>5. CASE Family
    BY <1>5 DEF Family, ChildWrites, Spawns, Daemonises, LeaderExits, HelperExits,
                HupKills, IdRecycled
  <1>6. CASE UNCHANGED vars
    BY <1>6 DEF vars
  <1> QED
    BY <1>1, <1>2, <1>3, <1>4, <1>5, <1>6 DEF Next

\* Every step keeps what the copiers hold.
LEMMA StepCopyInv ==
    TypeOK /\ ChildInv /\ CopyInv /\ [Next]_vars => CopyInv'
  <1> SUFFICES ASSUME TypeOK, ChildInv, CopyInv, [Next]_vars PROVE CopyInv'
    OBVIOUS
  <1>0. proc /\ ~WriteEndOpen => ~WriteEndOpen'
    BY WriteEndStaysClosed
  <1> USE DEF handlerVars, ioVars, waiterVars, osVars, peerVars
  <1>1. CASE Handler
    <2>1. CASE StartSucceeds
      BY <2>1 DEF StartSucceeds, CopyInv, ChildInv, TypeOK, Counted, Streams
    <2>2. CASE ReplyStarted
      BY <2>2 DEF ReplyStarted, CopyInv, Counted, WriteEndOpen, HelperAlive
    <2>3. CASE HandlePty \/ HandleOther \/ HandleStart \/ HandleSignal
      BY <2>3 DEF HandlePty, HandleOther, HandleStart, HandleSignal, Take,
                  CopyInv, Counted, WriteEndOpen, HelperAlive
    <2>4. CASE StartFails \/ SendSignal \/ LoopEnds \/ SendHangup
      BY <2>4 DEF StartFails, SendSignal, LoopEnds, SendHangup,
                  CopyInv, Counted, WriteEndOpen, HelperAlive
    <2>5. CASE HandlerCloses
      BY <2>5 DEF HandlerCloses, CloseChannel, CopyInv, Counted, WriteEndOpen, HelperAlive
    <2> QED
      BY <1>1, <2>1, <2>2, <2>3, <2>4, <2>5 DEF Handler
  <1>2. ASSUME NEW s \in Streams, Copier(s) PROVE CopyInv'
    <2> USE DEF CopyInv, TypeOK, Counted, WriteEndOpen, HelperAlive
    <2>1. CASE CopyReads(s)
      BY <2>1 DEF CopyReads
    <2>2. CASE CopyEnds(s)
      BY <2>2 DEF CopyEnds
    <2>3. CASE CopyWrites(s)
      BY <2>3 DEF CopyWrites
    <2>4. CASE CopyFails(s)
      BY <2>4 DEF CopyFails
    <2> QED
      BY <1>2, <2>1, <2>2, <2>3, <2>4 DEF Copier
  <1>3. CASE Waiter
    <2> USE DEF CopyInv, TypeOK, Counted, WriteEndOpen, HelperAlive
    <2>1. CASE CopiesDone
      BY <2>1 DEF CopiesDone
    <2>2. CASE Reap
      BY <2>2 DEF Reap
    <2>3. CASE StoreExited
      BY <2>3 DEF StoreExited
    <2>4. CASE ReportExit
      BY <2>4 DEF ReportExit
    <2>5. CASE WaiterCloses
      BY <2>5 DEF WaiterCloses, CloseChannel
    <2> QED
      BY <1>3, <2>1, <2>2, <2>3, <2>4, <2>5 DEF Waiter
  <1>4. CASE Peer
    BY <1>4 DEF Peer, PeerRequest, PeerReads, PeerCloses, PeerAcksClose,
                CopyInv, Counted, WriteEndOpen, HelperAlive
  <1>5. CASE Family
    <2>1. ASSUME NEW s \in Streams, ChildWrites(s) PROVE CopyInv'
      BY <2>1 DEF ChildWrites, CopyInv, ChildInv, TypeOK, Counted, WriteEndOpen, HelperAlive
    <2>2. CASE Spawns \/ Daemonises \/ LeaderExits \/ HelperExits \/ HupKills \/ IdRecycled
      <3>1. UNCHANGED <<cop, sent, taken, got, chan, proc, mode, wt>>
        BY <2>2 DEF Spawns, Daemonises, LeaderExits, HelperExits, HupKills, IdRecycled
      <3>2. \A s \in Streams : cop[s] = "done" => proc
        BY DEF ChildInv, TypeOK
      <3> QED
        BY <1>0, <3>1, <3>2 DEF CopyInv, Counted
    <2> QED
      BY <1>5, <2>1, <2>2 DEF Family
  <1>6. CASE UNCHANGED vars
    BY <1>6 DEF vars, CopyInv, Counted, WriteEndOpen, HelperAlive
  <1> QED
    BY <1>1, <1>2, <1>3, <1>4, <1>5, <1>6 DEF Next

-----------------------------------------------------------------------------
\* Every step keeps the order of reply, output, exit status and close.
LEMMA StepStatusInv ==
    TypeOK /\ ChildInv /\ HandlerInv /\ CopyInv /\ StatusInv /\ [Next]_vars => StatusInv'
  <1> SUFFICES ASSUME TypeOK, ChildInv, HandlerInv, CopyInv, StatusInv, [Next]_vars
               PROVE  StatusInv'
    OBVIOUS
  <1>0. proc /\ ~WriteEndOpen => ~WriteEndOpen'
    BY WriteEndStaysClosed
  <1> USE DEF StatusInv, ExitStatusIsLast,
              handlerVars, ioVars, waiterVars, osVars, peerVars
  <1>a. status = "sent" => proc
    BY DEF ChildInv
  <1>1. CASE Handler
    <2>1. CASE StartSucceeds
      BY <2>1 DEF StartSucceeds, ChildInv
    <2>2. CASE ReplyStarted
      BY <2>2, <1>0, <1>a DEF ReplyStarted, ChildInv
    <2>3. CASE HandlePty \/ HandleOther \/ HandleStart \/ HandleSignal
      BY <2>3, <1>0, <1>a DEF HandlePty, HandleOther, HandleStart, HandleSignal, Take
    <2>4. CASE StartFails \/ SendSignal \/ LoopEnds \/ SendHangup
      BY <2>4, <1>0, <1>a DEF StartFails, SendSignal, LoopEnds, SendHangup
    <2>5. CASE HandlerCloses
      BY <2>5, <1>0, <1>a DEF HandlerCloses, CloseChannel, HandlerInv
    <2> QED
      BY <1>1, <2>1, <2>2, <2>3, <2>4, <2>5 DEF Handler
  <1>2. ASSUME NEW s \in Streams, Copier(s) PROVE StatusInv'
    \* After the status every counted copy is done, so no copier moves.
    <2>1. status = "sent" => cop[s] \in {"off", "done"}
      BY <1>a DEF CopyInv
    <2> QED
      BY <1>2, <2>1, <1>0, <1>a
      DEF Copier, CopyReads, CopyEnds, CopyWrites, CopyFails, TypeOK
  <1>3. CASE Waiter
    <2>1. CASE ReportExit
      <3>1. leader = "reaped" /\ proc
        BY <2>1 DEF ReportExit, ChildInv
      <3>2. ASSUME chan = "open" PROVE got = sent /\ ~WriteEndOpen
        <4>1. \A s \in Streams : got[s] = sent[s]
          BY <2>1, <3>1, <3>2 DEF ReportExit, CopyInv
        <4>2. \E s \in Streams : cop[s] = "done"
          BY <2>1, <3>1 DEF ReportExit, CopyInv, Counted, Streams
        <4> QED
          BY <3>2, <4>1, <4>2 DEF CopyInv, TypeOK
      <3> QED
        BY <2>1, <3>2, <1>0, <3>1 DEF ReportExit
    <2>2. CASE WaiterCloses
      BY <2>2, <1>0, <1>a DEF WaiterCloses, CloseChannel, TypeOK
    <2>3. CASE CopiesDone
      BY <2>3, <1>0, <1>a DEF CopiesDone
    <2>4. CASE Reap
      BY <2>4, <1>0, <1>a DEF Reap
    <2>5. CASE StoreExited
      BY <2>5, <1>0, <1>a DEF StoreExited
    <2> QED
      BY <1>3, <2>1, <2>2, <2>3, <2>4, <2>5 DEF Waiter
  <1>4. CASE Peer
    BY <1>4, <1>0, <1>a DEF Peer, PeerRequest, PeerReads, PeerCloses, PeerAcksClose
  <1>5. CASE Family
    <2>1. ASSUME NEW s \in Streams, ChildWrites(s) PROVE StatusInv'
      BY <2>1, <1>0, <1>a DEF ChildWrites
    <2>2. CASE Spawns \/ Daemonises \/ LeaderExits \/ HelperExits \/ HupKills \/ IdRecycled
      BY <2>2, <1>0, <1>a
      DEF Spawns, Daemonises, LeaderExits, HelperExits, HupKills, IdRecycled
    <2> QED
      BY <1>5, <2>1, <2>2 DEF Family
  <1>6. CASE UNCHANGED vars
    BY <1>6, <1>0, <1>a DEF vars
  <1> QED
    BY <1>1, <1>2, <1>3, <1>4, <1>5, <1>6 DEF Next

-----------------------------------------------------------------------------
\* The inductive invariant holds in every reachable state.
THEOREM InductiveInvariant == Spec => []IInv
  <1>1. Init => IInv
    BY InitIInv
  <1>2. IInv /\ [Next]_vars => IInv'
    BY StepTypeOK, StepChildInv, StepHandlerInv, StepCopyInv, StepStatusInv DEF IInv
  <1> QED
    BY <1>1, <1>2, PTL DEF Spec

\* Type correctness of the session, for every bound and every child.
THEOREM TypeCorrect == Spec => []TypeOK
  BY InductiveInvariant, PTL DEF IInv

\* The exit status is the last word of a session: process.wait drains the
\* copies before it reaps, and start replies before it waits; the server closes
\* an open channel only after it.
THEOREM ExitStatusLast == Spec => []ExitStatusIsLast
  <1>1. IInv => ExitStatusIsLast
    BY DEF IInv, StatusInv
  <1> QED
    BY <1>1, InductiveInvariant, PTL

\* No channel runs a second child.
THEOREM AtMostOneChild == Spec => []OneChild
  <1>1. IInv => OneChild
    BY DEF IInv, ChildInv, TypeOK, OneChild
  <1> QED
    BY <1>1, InductiveInvariant, PTL

\* No running child outlives handleSession without having been hung up.
THEOREM HangupReachesChild == Spec => []NoChildEscapes
  <1>1. IInv => NoChildEscapes
    BY DEF IInv, HandlerInv, NoChildEscapes
  <1> QED
    BY <1>1, InductiveInvariant, PTL

-----------------------------------------------------------------------------
(* The session keeps its promise.                                          *)

\* Every step is a step of the promise or changes nothing the client sees.
LEMMA PromiseStep == IInv /\ IInv' /\ [Next]_vars => [Promise!Next]_(Promise!vars)
  <1> SUFFICES ASSUME IInv, IInv', [Next]_vars PROVE [Promise!Next]_(Promise!vars)
    OBVIOUS
  <1>0. proc /\ ~WriteEndOpen => ~WriteEndOpen'
    BY WriteEndStaysClosed DEF IInv
  <1> USE DEF IInv, Promise!vars, Promise!Next, Phase,
              handlerVars, ioVars, waiterVars, osVars, peerVars
  <1>1. CASE Handler
    <2>1. CASE StartSucceeds
      <3>1. leader = "none" /\ leader' = "running"
        BY <2>1 DEF StartSucceeds, ChildInv
      <3> QED
        BY <2>1, <3>1 DEF StartSucceeds, Promise!Begins, WriteEndOpen
    <2>2. CASE ReplyStarted
      \* No waiter yet, so no report.
      <3>1. leader # "none" /\ status = "none"
        BY <2>2 DEF ReplyStarted, ChildInv, StatusInv, TypeOK
      <3> QED
        BY <2>2, <3>1 DEF ReplyStarted, Promise!Answers, WriteEndOpen, HelperAlive
    <2>3. CASE HandlePty \/ HandleOther \/ HandleStart \/ HandleSignal
      BY <2>3 DEF HandlePty, HandleOther, HandleStart, HandleSignal, Take,
                  WriteEndOpen, HelperAlive
    <2>4. CASE StartFails \/ SendSignal \/ LoopEnds \/ SendHangup
      BY <2>4 DEF StartFails, SendSignal, LoopEnds, SendHangup, WriteEndOpen, HelperAlive
    <2>5. CASE HandlerCloses
      \* The handler leaves its loop only after the channel is gone.
      BY <2>5 DEF HandlerCloses, CloseChannel, HandlerInv, WriteEndOpen, HelperAlive
    <2> QED
      BY <1>1, <2>1, <2>2, <2>3, <2>4, <2>5 DEF Handler
  <1>2. ASSUME NEW s \in Streams, Copier(s) PROVE [Promise!Next]_(Promise!vars)
    <2>1. CASE CopyReads(s) \/ CopyEnds(s) \/ CopyFails(s)
      BY <2>1 DEF CopyReads, CopyEnds, CopyFails, WriteEndOpen, HelperAlive
    <2>2. CASE CopyWrites(s)
      <3>1. got[s] < sent[s]
        BY <2>2 DEF CopyWrites, CopyInv, TypeOK
      <3>2. status = "none"
        \* A copy in progress holds the waiter back.
        BY <2>2 DEF CopyWrites, CopyInv, StatusInv, ChildInv, TypeOK
      <3> QED
        BY <2>2, <3>1, <3>2 DEF CopyWrites, Promise!Delivers, WriteEndOpen, HelperAlive
    <2> QED
      BY <1>2, <2>1, <2>2 DEF Copier
  <1>3. CASE Waiter
    <2>1. CASE CopiesDone \/ StoreExited
      BY <2>1 DEF CopiesDone, StoreExited, WriteEndOpen, HelperAlive
    <2>2. CASE Reap
      BY <2>2 DEF Reap, WriteEndOpen, HelperAlive
    <2>3. CASE ReportExit
      <3>1. status = "none" /\ replied /\ leader = "reaped"
        BY <2>3 DEF ReportExit, StatusInv, ChildInv, TypeOK
      <3>2. CASE chan = "open"
        <4>1. status' = "sent" /\ UNCHANGED <<leader, mode, helper, got, sent, replied, chan>>
          BY <2>3, <3>2 DEF ReportExit
        <4>2. got = sent /\ ~WriteEndOpen
          BY <4>1 DEF StatusInv, ExitStatusIsLast, WriteEndOpen, HelperAlive
        <4> QED
          BY <3>1, <3>2, <4>1, <4>2 DEF Promise!Reports, WriteEndOpen, HelperAlive
      <3>3. CASE chan # "open"
        BY <2>3, <3>1, <3>3 DEF ReportExit, Promise!Loses, WriteEndOpen, HelperAlive
      <3> QED
        BY <3>2, <3>3
    <2>4. CASE WaiterCloses
      BY <2>4 DEF WaiterCloses, CloseChannel, StatusInv, TypeOK,
                  Promise!Closes, WriteEndOpen, HelperAlive
    <2> QED
      BY <1>3, <2>1, <2>2, <2>3, <2>4 DEF Waiter
  <1>4. CASE Peer
    BY <1>4 DEF Peer, PeerRequest, PeerReads, PeerCloses, PeerAcksClose,
                Promise!Goes, WriteEndOpen, HelperAlive
  <1>5. CASE Family
    <2>1. ASSUME NEW s \in Streams, ChildWrites(s) PROVE [Promise!Next]_(Promise!vars)
      <3>1. leader # "none"
        BY <2>1 DEF ChildWrites, ChildInv, TypeOK, WriteEndOpen, HelperAlive
      <3>2. status = "none"
        \* Nothing is read any more once the waiter reports.
        BY <2>1 DEF ChildWrites, ReadEndOpen, ChildInv, StatusInv, TypeOK
      <3> QED
        BY <2>1, <3>1, <3>2 DEF ChildWrites, Promise!Writes, WriteEndOpen, HelperAlive
    <2>2. CASE Spawns \/ Daemonises \/ LeaderExits \/ HelperExits \/ HupKills \/ IdRecycled
      <3>1. /\ UNCHANGED <<chan, sent, got, replied, status, proc, mode>>
            /\ leader = "none" <=> leader' = "none"
            /\ leader = "none" => UNCHANGED leader
        BY <2>2 DEF Spawns, Daemonises, LeaderExits, HelperExits, HupKills, IdRecycled,
                    ChildInv, HelperAlive
      <3>2. leader # "none" => proc
        BY DEF ChildInv, TypeOK
      <3> QED
        BY <1>0, <3>1, <3>2 DEF Promise!Ends
    <2> QED
      BY <1>5, <2>1, <2>2 DEF Family
  <1>6. CASE UNCHANGED vars
    BY <1>6 DEF vars, WriteEndOpen, HelperAlive
  <1> QED
    BY <1>1, <1>2, <1>3, <1>4, <1>5, <1>6 DEF Next

\* The session implements the abstract promise: one command per channel, each
\* unit of its output delivered at most once, its exit status reported once
\* and after all of it, and a close of ours only after that report.
THEOREM PromiseKept == Spec => KeepsPromise
  <1>1. Init => Promise!Init
    BY DEF Init, Promise!Init, Phase
  <1>2. IInv /\ IInv' /\ [Next]_vars => [Promise!Next]_(Promise!vars)
    BY PromiseStep
  <1> QED
    BY <1>1, <1>2, InductiveInvariant, PTL DEF Spec, KeepsPromise, Promise!Spec

-----------------------------------------------------------------------------
(* Signals.  SignalsReachOwnGroup does not hold, but only because of the   *)
(* window between a test of exited and the kill, and of the one between    *)
(* the reaping of the child and the store to exited.                       *)

\* No process id of a child is used again within these windows.
NoReuseInWindow == [][IdRecycled => exited /\ hd \notin {"kill", "hangup"}]_vars

\* A test that follows the store to exited sends no signal.
WindowInv ==
    /\ recycled => exited /\ hd \notin {"kill", "hangup"}
    /\ ~stray

\* Outside the windows every signal reaches the child's own group: the tests
\* in process.signal and process.hangup are enough once exited is stored.
THEOREM OnlyTheRaceGoesAstray == Spec /\ NoReuseInWindow => []SignalsReachOwnGroup
  <1> DEFINE Careful == IdRecycled => exited /\ hd \notin {"kill", "hangup"}
  <1>1. Init => WindowInv
    BY DEF Init, WindowInv
  <1>2. WindowInv /\ [Next]_vars /\ [Careful]_vars => WindowInv'
    <2> SUFFICES ASSUME WindowInv, [Next]_vars, [Careful]_vars PROVE WindowInv'
      OBVIOUS
    <2> USE DEF WindowInv, handlerVars, ioVars, waiterVars, osVars, peerVars
    <2>1. CASE Handler
      <3>1. CASE HandlePty \/ HandleOther \/ HandleStart \/ HandleSignal
        BY <3>1 DEF HandlePty, HandleOther, HandleStart, HandleSignal, Take
      <3>2. CASE StartFails \/ StartSucceeds \/ ReplyStarted
        BY <3>2 DEF StartFails, StartSucceeds, ReplyStarted
      <3>3. CASE SendSignal \/ SendHangup
        <4>1. ~recycled /\ UNCHANGED recycled /\ ~(stray \/ (recycled /\ ~GroupExists))
          BY <3>3 DEF SendSignal, SendHangup
        <4>2. stray' = (stray \/ (recycled /\ ~GroupExists))
          BY <3>3 DEF SendSignal, SendHangup, SignalGroup
        <4>3. ~stray'
          BY <4>1, <4>2
        <4> QED
          BY <4>1, <4>3
      <3>4. CASE LoopEnds \/ HandlerCloses
        BY <3>4 DEF LoopEnds, HandlerCloses
      <3> QED
        BY <2>1, <3>1, <3>2, <3>3, <3>4 DEF Handler
    <2>2. ASSUME NEW s \in Streams, Copier(s) PROVE WindowInv'
      BY <2>2 DEF Copier, CopyReads, CopyEnds, CopyWrites, CopyFails
    <2>3. CASE Waiter
      BY <2>3 DEF Waiter, CopiesDone, Reap, StoreExited, ReportExit, WaiterCloses
    <2>4. CASE Peer
      BY <2>4 DEF Peer, PeerRequest, PeerReads, PeerCloses, PeerAcksClose
    <2>5. CASE Family
      <3>1. CASE IdRecycled
        \* It changes recycled, so that the step is a careful one.
        <4>1. vars' # vars
          BY <3>1 DEF IdRecycled, vars
        <4>2. exited /\ hd \notin {"kill", "hangup"}
          BY <3>1, <4>1
        <4> QED
          BY <3>1, <4>2 DEF IdRecycled
      <3>2. CASE Spawns \/ Daemonises \/ LeaderExits \/ HelperExits \/ HupKills
        BY <3>2 DEF Spawns, Daemonises, LeaderExits, HelperExits, HupKills
      <3>3. ASSUME NEW s \in Streams, ChildWrites(s) PROVE WindowInv'
        BY <3>3 DEF ChildWrites
      <3> QED
        BY <2>5, <3>1, <3>2, <3>3 DEF Family
    <2>6. CASE UNCHANGED vars
      BY <2>6 DEF vars
    <2> QED
      BY <2>1, <2>2, <2>3, <2>4, <2>5, <2>6 DEF Next
  <1>3. WindowInv => SignalsReachOwnGroup
    BY DEF WindowInv, SignalsReachOwnGroup
  <1> QED
    BY <1>1, <1>2, <1>3, PTL DEF Spec, NoReuseInWindow
=============================================================================
