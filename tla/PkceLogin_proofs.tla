--------------------------- MODULE PkceLogin_proofs ---------------------------
(***************************************************************************)
(* Proofs about PkceLogin for any number of attempts and callbacks: the    *)
(* type invariant, with the capacity of the result channels, and that      *)
(* codes stay with the attempt they belong to.                             *)
(***************************************************************************)
EXTENDS PkceLogin, TLAPS

\* A result in a channel was sent there by the channel's own handlers and is
\* not changed any more; neither is the one an attempt has taken.
ResultInv ==
    /\ \A a \in Attempts : ch[a] # <<>> =>
        cb[Head(ch[a])].st = "returned" /\ cb[Head(ch[a])].at = a
    /\ \A a \in Attempts : got[a] # Nobody => cb[got[a]].st = "returned"
    /\ \A a \in Attempts : pc[a] \in {"new", "waiting"} => outcome[a] = "none"
    /\ \A c \in Callbacks : cb[c].st = "sending" => cb[c].at \in Attempts

IInv == TypeOK /\ ResultInv /\ CodesStayHome

Callback == [st : {"none", "sending", "returned"}, at : Attempts \cup {Nobody},
             state : Attempts \cup {Nobody}, has : Carried]

-----------------------------------------------------------------------------
\* The initial states satisfy the inductive invariant.
LEMMA InitIInv == Init => IInv
  <1> SUFFICES ASSUME Init PROVE IInv
    OBVIOUS
  <1>1. NoCallback \in Callback
    BY DEF NoCallback, Callback, Carried
  <1>2. TypeOK
    BY <1>1 DEF Init, TypeOK, Callback
  <1>3. ResultInv /\ CodesStayHome
    BY DEF Init, ResultInv, CodesStayHome, NoCallback
  <1> QED
    BY <1>2, <1>3 DEF IInv

\* The heads of the channels and the callbacks taken are callbacks.
LEMMA HeadsAndLengths ==
    ASSUME TypeOK, NEW a \in Attempts
    PROVE  /\ ch[a] # <<>> => /\ Head(ch[a]) \in Callbacks
                              /\ Tail(ch[a]) = <<>>
           /\ Len(ch[a]) < 1 => ch[a] = <<>>
  <1>1. ch[a] \in Seq(Callbacks) /\ Len(ch[a]) <= 1
    BY DEF TypeOK
  <1> QED
    BY <1>1

\* Starting, failing, giving up and closing touch no result.
LEMMA AttemptStep ==
    ASSUME IInv, NEW a \in Attempts,
           Listen(a) \/ ListenFails(a) \/ GiveUp(a) \/ Close(a) \/ Exchange(a)
    PROVE  IInv'
  <1> USE DEF IInv
  <1>1. CASE Listen(a)
    BY <1>1 DEF Listen, TypeOK, ResultInv, CodesStayHome
  <1>2. CASE ListenFails(a)
    BY <1>2 DEF ListenFails, TypeOK, ResultInv, CodesStayHome
  <1>3. CASE GiveUp(a)
    BY <1>3 DEF GiveUp, TypeOK, ResultInv, CodesStayHome
  <1>4. CASE Close(a)
    BY <1>4 DEF Close, TypeOK, ResultInv, CodesStayHome
  <1>5. CASE Exchange(a)
    BY <1>5 DEF Exchange, TypeOK, ResultInv, CodesStayHome
  <1> QED
    BY <1>1, <1>2, <1>3, <1>4, <1>5

\* An attempt exchanges what its own handler found good.
LEMMA ReceiveStep == ASSUME IInv, NEW a \in Attempts, Receive(a) PROVE IInv'
  <1> DEFINE c == Head(ch[a])
  <1>1. /\ c \in Callbacks /\ ch' = [ch EXCEPT ![a] = <<>>]
        /\ cb[c].st = "returned" /\ cb[c].at = a
    BY HeadsAndLengths DEF Receive, IInv, TypeOK, ResultInv
  <1>2. TypeOK'
    BY <1>1 DEF Receive, IInv, TypeOK
  <1>3. ResultInv'
    BY <1>1 DEF Receive, IInv, TypeOK, ResultInv
  <1>4. CodesStayHome'
    BY <1>1, PkceAssumption DEF Receive, IInv, TypeOK, ResultInv, CodesStayHome, Succeeds
  <1> QED
    BY <1>2, <1>3, <1>4 DEF IInv

\* A handler sends its own verdict to its own attempt.
LEMMA SendStep == ASSUME IInv, NEW c \in Callbacks, Send(c) PROVE IInv'
  <1> DEFINE a == cb[c].at
  <1>1. a \in Attempts /\ ch' = [ch EXCEPT ![a] = <<c>>] /\ ch[a] = <<>>
    <2>1. a \in Attempts
      BY DEF Send, IInv, ResultInv
    <2>2. ch[a] = <<>>
      BY <2>1, HeadsAndLengths DEF Send, IInv
    <2> QED
      BY <2>1, <2>2 DEF Send
  <1>2. /\ cb' \in [Callbacks -> Callback]
        /\ cb'[c].st = "returned" /\ cb'[c].at = a
        /\ \A d \in Callbacks : /\ cb'[d].state = cb[d].state /\ cb'[d].has = cb[d].has
                                /\ cb'[d].at = cb[d].at
                                /\ d # c => cb'[d] = cb[d]
    BY DEF Send, IInv, TypeOK, Callback
  <1>3. TypeOK'
    BY <1>1, <1>2 DEF Send, IInv, TypeOK, Callback
  <1>4. ResultInv'
    <2>1. \A b \in Attempts : ch'[b] # <<>> =>
            cb'[Head(ch'[b])].st = "returned" /\ cb'[Head(ch'[b])].at = b
      <3> SUFFICES ASSUME NEW b \in Attempts, ch'[b] # <<>>
                   PROVE  cb'[Head(ch'[b])].st = "returned" /\ cb'[Head(ch'[b])].at = b
        OBVIOUS
      <3>1. CASE b = a
        BY <3>1, <1>1, <1>2 DEF IInv, TypeOK
      <3>2. CASE b # a
        <4>1. ch'[b] = ch[b] /\ Head(ch[b]) \in Callbacks
          BY <3>2, <1>1, HeadsAndLengths DEF IInv, TypeOK
        <4> QED
          BY <4>1, <1>2 DEF IInv, ResultInv
      <3> QED
        BY <3>1, <3>2
    <2> QED
      BY <2>1, <1>2, PkceAssumption DEF Send, IInv, TypeOK, ResultInv
  <1>5. CodesStayHome'
    BY <1>2, PkceAssumption DEF Send, IInv, TypeOK, CodesStayHome
  <1> QED
    BY <1>3, <1>4, <1>5 DEF IInv

\* A new request is nobody's result yet.
LEMMA RequestStep ==
    ASSUME IInv, NEW c \in Callbacks, NEW s \in Attempts \cup {Nobody},
           NEW has \in Carried, Request(c, s, has)
    PROVE  IInv'
  <1>1. /\ cb' \in [Callbacks -> Callback]
        /\ \A d \in Callbacks : d # c => cb'[d] = cb[d]
        /\ cb'[c].st = "sending" /\ cb'[c].at \in Attempts /\ cb[c].st = "none"
    BY DEF Request, IInv, TypeOK, Callback
  <1>2. TypeOK'
    BY <1>1 DEF Request, IInv, TypeOK, Callback
  <1>3. ResultInv'
    <2>1. \A b \in Attempts : ch[b] # <<>> => Head(ch[b]) \in Callbacks
      BY HeadsAndLengths DEF IInv
    <2> QED
      BY <1>1, <2>1, PkceAssumption DEF Request, IInv, TypeOK, ResultInv
  <1>4. CodesStayHome'
    BY <1>1, PkceAssumption DEF Request, IInv, TypeOK, ResultInv, CodesStayHome
  <1> QED
    BY <1>2, <1>3, <1>4 DEF IInv

-----------------------------------------------------------------------------
\* The inductive invariant holds throughout.
THEOREM InductiveInvariant == Spec => []IInv
  <1>1. IInv /\ [Next]_vars => IInv'
    <2> SUFFICES ASSUME IInv, [Next]_vars PROVE IInv'
      OBVIOUS
    <2>1. CASE UNCHANGED vars
      BY <2>1 DEF vars, IInv, TypeOK, ResultInv, CodesStayHome
    <2> QED
      BY <2>1, AttemptStep, ReceiveStep, SendStep, RequestStep DEF Next, Attempt
  <1> QED
    BY <1>1, InitIInv, PTL DEF Spec

\* Types; in particular no channel holds a second result.
THEOREM TypeCorrect == Spec => []TypeOK
  BY InductiveInvariant, PTL DEF IInv

\* No code reaches the token endpoint for an attempt it was not issued to,
\* however many attempts and tabs share the port (the handler's comparison of
\* states in BrowserPKCE).
THEOREM CodesNeverCross == Spec => []CodesStayHome
  BY InductiveInvariant, PTL DEF IInv
=============================================================================
