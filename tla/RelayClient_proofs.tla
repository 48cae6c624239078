------------------------- MODULE RelayClient_proofs -------------------------
(***************************************************************************)
(* Proofs about RelayClient for every pair of backoffs, any number of open *)
(* messages and any number of messages in flight: the type invariant, and  *)
(* that no connection is leaked.                                           *)
(***************************************************************************)
EXTENDS RelayClient, SequenceTheorems, TLAPS

\* The openers that are not started, and what an opener holds at each of
\* its steps.
OpenerInv == \A i \in Openers :
    /\ i > opens => op[i].pc = "idle"
    /\ op[i].pc \in {"idle", "target", "refused"} => op[i].target = "none" /\ op[i].data = "none"
    /\ op[i].pc = "data" => op[i].target = "open" /\ op[i].data = "none"
    /\ op[i].pc = "done" => op[i].target # "open" /\ op[i].data # "open"

\* And whether a session runs.
LinkInv == run \in {"dial", "ended", "sleep", "returned"} => link = "none"

IInv == TypeOK /\ OpenerInv /\ LinkInv

Opener == [pc : {"idle", "target", "refused", "data", "pipe", "done"},
           target : {"none", "open", "closed"}, data : {"none", "open", "closed"}]

-----------------------------------------------------------------------------
\* Reading a message leaves a shorter queue of messages.
LEMMA ReadShortens ==
    ASSUME NEW q \in Seq(Messages), q # <<>>, Len(q) <= MaxInbox
    PROVE  Tail(q) \in Seq(Messages) /\ Len(Tail(q)) <= MaxInbox
  <1>1. Tail(q) \in Seq(Messages) /\ Len(Tail(q)) = Len(q) - 1
    BY HeadTailProperties
  <1>2. Len(q) \in Nat /\ MaxInbox \in Nat
    BY LenProperties, RelayBoundsAssumption
  <1> QED
    BY <1>1, <1>2

\* The initial states satisfy every conjunct.
LEMMA InitIInv == Init => IInv
  <1> SUFFICES ASSUME Init PROVE IInv
    OBVIOUS
  <1>1. TypeOK
    <2>1. backoff \in {MinBackoff} \cup 1..MaxBackoff /\ opens \in Nat /\ asked \in 0..MaxOpens
      BY BackoffAssumption, RelayBoundsAssumption DEF Init
    <2>2. inbox \in Seq(Messages) /\ Len(inbox) <= MaxInbox
      BY RelayBoundsAssumption DEF Init
    <2>3. op \in [Openers -> Opener]
      BY DEF Init, NoOpener, Opener
    <2> QED
      BY <2>1, <2>2, <2>3 DEF Init, TypeOK, Opener
  <1>2. OpenerInv /\ LinkInv
    BY DEF Init, OpenerInv, LinkInv, NoOpener
  <1> QED
    BY <1>1, <1>2 DEF IInv

\* The client leaves the openers alone, but for the one that it starts.
LEMMA ClientStep == IInv /\ Client => IInv'
  <1> SUFFICES ASSUME IInv, Client PROVE IInv'
    OBVIOUS
  <1> USE DEF IInv, TypeOK, OpenerInv, LinkInv
  <1>1. CASE DialSucceeds
    BY <1>1 DEF DialSucceeds
  <1>2. CASE DialFails
    BY <1>2 DEF DialFails
  <1>3. CASE WriteHello
    BY <1>3 DEF WriteHello
  <1>4. CASE WritePong
    BY <1>4 DEF WritePong
  <1>5. CASE WriteFails
    BY <1>5, RelayBoundsAssumption DEF WriteFails, EndSession
  <1>6. CASE ReadPing \/ ReadBlank
    <2>1. inbox' \in Seq(Messages) /\ Len(inbox') <= MaxInbox
      BY <1>6, ReadShortens DEF ReadPing, ReadBlank
    <2> QED
      BY <1>6, <2>1 DEF ReadPing, ReadBlank
  <1>7. CASE ReadOpen
    <2>1. inbox' \in Seq(Messages) /\ Len(inbox') <= MaxInbox /\ opens' \in Nat
      BY <1>7, ReadShortens DEF ReadOpen
    <2>2. PICK l \in {"target", "refused"} : op' = [op EXCEPT ![opens + 1].pc = l]
      BY <1>7 DEF ReadOpen
    <2>3. TypeOK' /\ LinkInv'
      <3> HIDE DEF IInv, TypeOK, OpenerInv, LinkInv
      <3>1. op' \in [Openers -> Opener]
        <4>1. op \in [Openers -> Opener]
          BY DEF IInv, TypeOK, Opener
        <4>2. ASSUME opens + 1 \in Openers
              PROVE  [op[opens + 1] EXCEPT !.pc = l] \in Opener
          BY <4>1, <4>2 DEF Opener
        <4> QED
          BY <4>1, <4>2, <2>2
      <3>2. UNCHANGED <<gw, run, link, backoff, aged, cancelled, asked>>
        BY <1>7 DEF ReadOpen
      <3> QED
        BY <3>1, <3>2, <2>1 DEF IInv, TypeOK, LinkInv, Opener
    <2>4. ASSUME NEW i \in Openers PROVE OpenerInv!(i)'
      <3>1. CASE i = opens + 1
        <4>1. op[i].pc = "idle"
          BY <3>1 DEF Openers
        <4> QED
          BY <1>7, <2>2, <3>1, <4>1 DEF ReadOpen, Openers
      <3>2. CASE i # opens + 1
        BY <1>7, <2>2, <3>2 DEF ReadOpen, Openers
      <3> QED
        BY <3>1, <3>2
    <2> QED
      BY <2>3, <2>4
  <1>8. CASE ReadFails
    BY <1>8, RelayBoundsAssumption DEF ReadFails, EndSession
  <1>9. CASE Ended
    BY <1>9, BackoffAssumption DEF Ended
  <1>10. CASE Retry
    <2>1. backoff' \in {MinBackoff} \cup 1..MaxBackoff
      BY <1>10, BackoffAssumption DEF Retry
    <2> QED
      BY <1>10, <2>1 DEF Retry
  <1>11. CASE StopWaiting
    BY <1>11 DEF StopWaiting
  <1> QED
    BY <1>1, <1>2, <1>3, <1>4, <1>5, <1>6, <1>7, <1>8, <1>9, <1>10, <1>11 DEF Client

\* An opener changes its own record only.
LEMMA OpenerStep == ASSUME IInv, NEW i \in Openers, OpenChannel(i) PROVE IInv'
  <1> DEFINE Fits(r) == /\ r \in Opener
                        /\ r.pc \notin {"idle", "target", "refused"}
                        /\ (r.pc = "data" => (r.target = "open" /\ r.data = "none"))
                        /\ (r.pc = "done" => (r.target # "open" /\ r.data # "open"))
             R(pc, target, data) == [pc |-> pc, target |-> target, data |-> data]
  <1>a. /\ Fits(R("data", "open", "none")) /\ Fits(R("done", "none", "none"))
        /\ Fits(R("pipe", "open", "open")) /\ Fits(R("done", "closed", "none"))
        /\ Fits(R("done", "closed", "closed"))
    BY DEF Opener
  <1>b. \/ op' = [op EXCEPT ![i] = R("data", "open", "none")]
        \/ op' = [op EXCEPT ![i] = R("done", "none", "none")]
        \/ op' = [op EXCEPT ![i] = R("pipe", "open", "open")]
        \/ op' = [op EXCEPT ![i] = R("done", "closed", "none")]
        \/ op' = [op EXCEPT ![i] = R("done", "closed", "closed")]
    BY DEF OpenChannel, TargetDialed, TargetFails, DataDialed, DataFails, PipeEnds, Becomes
  <1> HIDE DEF R
  <1>1. PICK r : Fits(r) /\ op' = [op EXCEPT ![i] = r]
    <2> HIDE DEF Fits
    <2> QED
      BY <1>a, <1>b
  <1>2. UNCHANGED <<gw, run, link, inbox, backoff, aged, cancelled, opens, asked>>
    BY DEF OpenChannel, TargetDialed, TargetFails, DataDialed, DataFails, PipeEnds, Becomes,
           ctlVars
  <1>3. TypeOK' /\ LinkInv'
    BY <1>1, <1>2 DEF IInv, TypeOK, LinkInv, Opener
  <1>4. OpenerInv'
    <2>1. op[i].pc # "idle"
      BY DEF OpenChannel, TargetDialed, TargetFails, DataDialed, DataFails, PipeEnds
    <2> QED
      BY <1>1, <1>2, <2>1 DEF IInv, TypeOK, OpenerInv, Opener
  <1> QED
    BY <1>3, <1>4 DEF IInv

\* The gateway, the network, the clock and the end of ctx.
LEMMA EnvironmentStep ==
    IInv /\ (GatewayChanges \/ LinkBreaks \/ GatewaySends \/ TimePasses \/ Cancel) => IInv'
  <1> SUFFICES ASSUME IInv, GatewayChanges \/ LinkBreaks \/ GatewaySends \/ TimePasses \/ Cancel
               PROVE  IInv'
    OBVIOUS
  <1> USE DEF IInv, TypeOK, OpenerInv, LinkInv
  <1>1. CASE GatewayChanges
    BY <1>1 DEF GatewayChanges
  <1>2. CASE LinkBreaks
    BY <1>2 DEF LinkBreaks
  <1>3. CASE GatewaySends
    <2>1. PICK m \in Messages : /\ m = "ping" \/ asked < MaxOpens
                                /\ inbox' = Append(inbox, m)
                                /\ asked' = IF m = "ping" THEN asked ELSE asked + 1
      BY <1>3 DEF GatewaySends
    <2>2. inbox' \in Seq(Messages) /\ Len(inbox') = Len(inbox) + 1
      BY <2>1
    <2>3. asked' \in 0..MaxOpens
      BY <2>1, RelayBoundsAssumption
    <2> QED
      BY <1>3, <2>2, <2>3, RelayBoundsAssumption DEF GatewaySends
  <1>4. CASE TimePasses
    BY <1>4 DEF TimePasses
  <1>5. CASE Cancel
    BY <1>5 DEF Cancel
  <1> QED
    BY <1>1, <1>2, <1>3, <1>4, <1>5

-----------------------------------------------------------------------------
\* The inductive invariant holds throughout.
THEOREM InductiveInvariant == Spec => []IInv
  <1>1. IInv /\ [Next]_vars => IInv'
    <2> SUFFICES ASSUME IInv, [Next]_vars PROVE IInv'
      OBVIOUS
    <2>1. CASE UNCHANGED vars
      BY <2>1 DEF vars, ctlVars, IInv, TypeOK, OpenerInv, LinkInv
    <2> QED
      BY <2>1, ClientStep, OpenerStep, EnvironmentStep DEF Next
  <1> QED
    BY <1>1, InitIInv, PTL DEF Spec

\* Types; in particular no wait but one of MinBackoff exceeds MaxBackoff,
\* also when the two limits are configured the wrong way round.
THEOREM TypeCorrect == Spec => []TypeOK
  BY InductiveInvariant, PTL DEF IInv

\* Neither session nor openChannel leaks a connection, for any number of
\* channels.
THEOREM NothingLeaks == Spec => []ConnectionsReleased
  <1>1. IInv => ConnectionsReleased
    BY DEF IInv, OpenerInv, LinkInv, ConnectionsReleased
  <1> QED
    BY <1>1, InductiveInvariant, PTL
=============================================================================
