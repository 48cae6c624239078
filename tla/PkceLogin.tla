----------------------------- MODULE PkceLogin -----------------------------
(***************************************************************************)
(* BrowserPKCE (idp/pkce.go): login attempts of a CLI that share one       *)
(* registered loopback port (RedirectPort).  Each serves /callback there,  *)
(* opens the browser, and takes the first result its handlers send over a  *)
(* channel of capacity one.  Browser tabs, reloads and old tabs of other   *)
(* attempts call whichever attempt listens.                                *)
(***************************************************************************)
EXTENDS Naturals, Sequences, FiniteSets

CONSTANTS
    Attempts,   \* calls of BrowserPKCE
    Callbacks,  \* bound: the /callback requests browsers make
    Nobody

ASSUME PkceAssumption == IsFiniteSet(Callbacks) /\ Nobody \notin Attempts \cup Callbacks

\* What a callback's query carries beside "state"; without a code it is
\* handled as an error.
Carried == {"code", "error"}

VARIABLES
    pc,         \* each attempt: "new", "waiting" (in the select),
                \*   "exchanging", "closing" (deferred calls), "returned"
    outcome,    \* what it returns: "none" yet, "tokens" or "error"
    port,       \* the attempt that listens on RedirectPort, or Nobody
    ch,         \* each attempt's result channel: callbacks
    got,        \* the callback whose result it took, or Nobody
    cb          \* each callback: its handler's progress, the attempt whose
                \*   handler it is, the attempt whose state it names
                \*   (Nobody: none or garbage), and what it carries

vars == <<pc, outcome, port, ch, got, cb>>

NoCallback == [st |-> "none", at |-> Nobody, state |-> Nobody, has |-> "error"]

Init ==
    /\ pc = [a \in Attempts |-> "new"] /\ outcome = [a \in Attempts |-> "none"]
    /\ port = Nobody
    /\ ch = [a \in Attempts |-> <<>>] /\ got = [a \in Attempts |-> Nobody]
    /\ cb = [c \in Callbacks |-> NoCallback]

-----------------------------------------------------------------------------
\* Discovery and net.Listen succeed; the server starts and the browser opens.
Listen(a) ==
    /\ pc[a] = "new" /\ port = Nobody
    /\ port' = a /\ pc' = [pc EXCEPT ![a] = "waiting"]
    /\ UNCHANGED <<outcome, ch, got, cb>>

\* No client id, the issuer is down, or the port is taken.
ListenFails(a) ==
    /\ pc[a] = "new"
    /\ pc' = [pc EXCEPT ![a] = "returned"] /\ outcome' = [outcome EXCEPT ![a] = "error"]
    /\ UNCHANGED <<port, ch, got, cb>>

\* A browser calls the port: a tab of this or of an earlier attempt, a
\* reload, a stray request.  (External: the browser and the issuer's redirect.)
Request(c, s, has) ==
    /\ cb[c].st = "none" /\ port # Nobody
    /\ s # Nobody => pc[s] # "new"
    /\ cb' = [cb EXCEPT ![c] = [st |-> "sending", at |-> port, state |-> s, has |-> has]]
    /\ UNCHANGED <<pc, outcome, port, ch, got>>

\* Slip: the state is not compared.
Succeeds_AnyState(c) == cb[c].has = "code"

\* The handler's verdict: its result has a code, rather than an error.
Succeeds(c) == cb[c].state = cb[c].at /\ cb[c].has = "code"

\* Slip: an unbuffered channel.
Send_Unbuffered(c) ==
    LET a == cb[c].at IN
    /\ cb[c].st = "sending"
    /\ pc[a] = "waiting" /\ ch[a] = <<>>
    /\ ch' = [ch EXCEPT ![a] = Append(@, c)]
    /\ cb' = [cb EXCEPT ![c].st = "returned"]
    /\ UNCHANGED <<pc, outcome, port, got>>

\* Slip: room for every result.
Send_Unbounded(c) ==
    LET a == cb[c].at IN
    /\ cb[c].st = "sending"
    /\ ch' = [ch EXCEPT ![a] = Append(@, c)]
    /\ cb' = [cb EXCEPT ![c].st = "returned"]
    /\ UNCHANGED <<pc, outcome, port, got>>

\* The handler's send, which waits for room.  Only its return flushes the
\* page it wrote before to the browser.
Send(c) ==
    LET a == cb[c].at IN
    /\ cb[c].st = "sending"
    /\ Len(ch[a]) < 1
    /\ ch' = [ch EXCEPT ![a] = Append(@, c)]
    /\ cb' = [cb EXCEPT ![c].st = "returned"]
    /\ UNCHANGED <<pc, outcome, port, got>>

\* The select's receive: go on to exchange a code, or return the error.
Receive(a) ==
    /\ pc[a] = "waiting" /\ ch[a] # <<>>
    /\ LET c == Head(ch[a]) IN
        /\ got' = [got EXCEPT ![a] = c]
        /\ pc' = [pc EXCEPT ![a] = IF Succeeds(c) THEN "exchanging" ELSE "closing"]
        /\ outcome' = [outcome EXCEPT ![a] = IF Succeeds(c) THEN "none" ELSE "error"]
    /\ ch' = [ch EXCEPT ![a] = Tail(@)]
    /\ UNCHANGED <<port, cb>>

\* Slip: no case of the select ends the wait for the browser.
GiveUp_Never(a) ==
    /\ pc[a] = "waiting" /\ ch[a] # <<>>
    /\ pc' = [pc EXCEPT ![a] = "closing"] /\ outcome' = [outcome EXCEPT ![a] = "error"]
    /\ UNCHANGED <<port, ch, got, cb>>

\* ctx is done, or cfg.Timeout has passed.
GiveUp(a) ==
    /\ pc[a] = "waiting"
    /\ pc' = [pc EXCEPT ![a] = "closing"] /\ outcome' = [outcome EXCEPT ![a] = "error"]
    /\ UNCHANGED <<port, ch, got, cb>>

\* exchangeCode: the issuer may grant a code of this attempt's challenge
\* once; the request may fail, and times out in any case.
Exchange(a) ==
    /\ pc[a] = "exchanging"
    /\ pc' = [pc EXCEPT ![a] = "closing"]
    /\ \E o \in {"tokens", "error"} :
        /\ o = "tokens" => cb[got[a]].state = a
        /\ outcome' = [outcome EXCEPT ![a] = o]
    /\ UNCHANGED <<port, ch, got, cb>>

\* srv.Shutdown and ln.Close.  Shutdown waits at most two seconds for the
\* handlers; those that are still sending are left behind.
Close(a) ==
    /\ pc[a] = "closing"
    /\ port' = Nobody /\ pc' = [pc EXCEPT ![a] = "returned"]
    /\ UNCHANGED <<outcome, ch, got, cb>>

Attempt(a) == Receive(a) \/ GiveUp(a) \/ Exchange(a) \/ Close(a)

Next ==
    \/ \E a \in Attempts : Listen(a) \/ ListenFails(a) \/ Attempt(a)
    \/ \E c \in Callbacks : Send(c)
    \/ \E c \in Callbacks, s \in Attempts \cup {Nobody}, has \in Carried : Request(c, s, has)

Spec == Init /\ [][Next]_vars

\* Goroutines run and timers fire; nothing is assumed of the browser.
FairSpec ==
    /\ Spec
    /\ \A a \in Attempts : WF_vars(Attempt(a))
    /\ \A c \in Callbacks : WF_vars(Send(c))

-----------------------------------------------------------------------------
\* The variables have the types the code gives them.
TypeOK ==
    /\ pc \in [Attempts -> {"new", "waiting", "exchanging", "closing", "returned"}]
    /\ outcome \in [Attempts -> {"none", "tokens", "error"}]
    /\ port \in Attempts \cup {Nobody}
    /\ ch \in [Attempts -> Seq(Callbacks)] /\ \A a \in Attempts : Len(ch[a]) <= 1
    /\ got \in [Attempts -> Callbacks \cup {Nobody}]
    /\ cb \in [Callbacks -> [st : {"none", "sending", "returned"},
                             at : Attempts \cup {Nobody},
                             state : Attempts \cup {Nobody}, has : Carried]]

\* An attempt never sends the token endpoint a code that another attempt's
\* state came with, though tabs of both call the same port, and it returns
\* tokens only for the code of the callback it took.
CodesStayHome == \A a \in Attempts :
    pc[a] = "exchanging" \/ outcome[a] = "tokens" =>
        got[a] # Nobody /\ cb[got[a]].state = a /\ cb[got[a]].has = "code"

\* An attempt that listens returns, whether or not the browser ever calls.
LoginEnds == \A a \in Attempts : (pc[a] = "waiting") ~> (pc[a] = "returned")

\* A browser tab gets its page, unless the login is over and the result of
\* another callback, which nobody will take, fills the channel.
TabsAnswered == \A c \in Callbacks :
    (cb[c].st = "sending") ~>
        \/ cb[c].st = "returned"
        \/ \E a \in Attempts :
            cb[c].at = a /\ pc[a] = "returned" /\ ch[a] # <<>>
=============================================================================
