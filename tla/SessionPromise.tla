--------------------------- MODULE SessionPromise ---------------------------
(***************************************************************************)
(* What a session channel of whaleshell-sshd promises the client that      *)
(* started a command on it.  One command runs, once; each unit it writes   *)
(* arrives at most once, and none after the report of its exit.            *)
(* The report is given once: sent on an open channel, when                 *)
(* the request was answered, nobody can write any more and everything      *)
(* written has arrived, or lost because the channel had closed before it.  *)
(* The server closes an open channel only after it sent the report.        *)
(***************************************************************************)
EXTENDS Naturals

CONSTANT Streams

VARIABLES
    phase,      \* the command: "idle", "running" (it can write), "over"
    sent, got,  \* per stream: units written, units delivered
    answered,   \* the request that started it was answered
    report,     \* of its exit: "none", "sent", "lost"
    chan        \* "open", "sentClose", "gone"
vars == <<phase, sent, got, answered, report, chan>>

Init ==
    /\ phase = "idle" /\ answered = FALSE /\ report = "none" /\ chan = "open"
    /\ sent = [s \in Streams |-> 0] /\ got = [s \in Streams |-> 0]

Begins ==
    /\ phase = "idle"
    /\ phase' = "running"
    /\ UNCHANGED <<sent, got, answered, report, chan>>

Answers ==
    /\ phase # "idle" /\ report = "none"
    /\ answered' = TRUE
    /\ UNCHANGED <<phase, sent, got, report, chan>>

Writes(s) ==
    /\ phase = "running" /\ report = "none"
    /\ sent' = [sent EXCEPT ![s] = @ + 1]
    /\ UNCHANGED <<phase, got, answered, report, chan>>

Delivers(s) ==
    /\ chan = "open" /\ report = "none" /\ got[s] < sent[s]
    /\ got' = [got EXCEPT ![s] = @ + 1]
    /\ UNCHANGED <<phase, sent, answered, report, chan>>

Ends ==
    /\ phase = "running"
    /\ phase' = "over"
    /\ UNCHANGED <<sent, got, answered, report, chan>>

Reports ==
    /\ report = "none" /\ chan = "open"
    /\ phase = "over" /\ answered /\ got = sent
    /\ report' = "sent"
    /\ UNCHANGED <<phase, sent, got, answered, chan>>

\* A descendant that holds the pipe may outlive a report that is lost.
Loses ==
    /\ report = "none" /\ chan # "open"
    /\ phase # "idle" /\ answered
    /\ report' = "lost"
    /\ UNCHANGED <<phase, sent, got, answered, chan>>

Closes ==
    /\ chan = "open" /\ report = "sent"
    /\ chan' = "sentClose"
    /\ UNCHANGED <<phase, sent, got, answered, report>>

Goes ==
    /\ chan # "gone"
    /\ chan' = "gone"
    /\ UNCHANGED <<phase, sent, got, answered, report>>

Next ==
    \/ Begins \/ Answers \/ Ends \/ Reports \/ Loses \/ Closes \/ Goes
    \/ \E s \in Streams : Writes(s) \/ Delivers(s)

Spec == Init /\ [][Next]_vars
=============================================================================
