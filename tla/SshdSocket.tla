----------------------------- MODULE SshdSocket -----------------------------
(***************************************************************************)
(* Start and stop of whaleshell-sshd processes that share one socket path  *)
(* (internal/app/sshd/run.go, ListenUnix in sshserver/server.go), a system *)
(* call a step.  Processes may start together, crash, and be told to stop. *)
(* The host key, permissions and the disk are in order: a call fails only  *)
(* for what the path leads to.                                             *)
(***************************************************************************)
EXTENDS Naturals

CONSTANTS
    Processes,
    Absent, Foreign,    \* what the path leads to: nothing, or a file that
                        \*   is not a socket; else the process that bound it
    MaxStarts           \* bound: starts

ASSUME SocketAssumption ==
    /\ {Absent, Foreign} \cap Processes = {} /\ Absent # Foreign
    /\ MaxStarts \in Nat

VARIABLES
    proc,       \* "down", "probe", "mkdir", "lstat", "remove", "listen",
                \*   "chmod", "serving"; at the end "running" (another is),
                \*   "failed", "stopped"
    listening,  \* its listener is open
    node,       \* what the path leads to
    private,    \* the directory has mode 0700
    starts,
    clashed     \* history: processes whose latest run met another's: see
                \*   Start and Probe

sockVars == <<proc, listening, node, private, starts, clashed>>

Starting == {"probe", "mkdir", "lstat", "remove", "listen", "chmod"}
Ended    == {"down", "running", "failed", "stopped"}

\* The directory may be there already, with any mode, and the path taken.
SockInit ==
    /\ proc = [p \in Processes |-> "down"] /\ listening = [p \in Processes |-> FALSE]
    /\ node \in {Absent, Foreign} /\ private \in BOOLEAN
    /\ starts = 0 /\ clashed = {}

Goto(p, l) == proc' = [proc EXCEPT ![p] = l]

Reachable == node \in Processes /\ listening[node]

-----------------------------------------------------------------------------
\* Two runs clash when both are starting at a time.  A run that begins beside
\* one that has clashed is counted with it: the path may be in disorder.
Start(p) ==
    LET rivals == {q \in Processes \ {p} : proc[q] \in Starting}
        beside == {q \in clashed : proc[q] \notin Ended}
    IN  /\ proc[p] \in Ended /\ starts < MaxStarts
        /\ Goto(p, "probe") /\ starts' = starts + 1
        /\ clashed' = IF rivals \cup beside = {} THEN clashed \ {p}
                      ELSE clashed \cup rivals \cup {p}
        /\ UNCHANGED <<listening, node, private>>

\* Slip: no probe; the socket is taken to be stale.
Probe_Skipped(p) ==
    /\ proc[p] = "probe"
    /\ Goto(p, "mkdir")
    /\ UNCHANGED <<listening, node, private, starts, clashed>>

\* DialTimeout on the path.  It can fail on a live server too: one second
\* passes, or its backlog is full; then the two clash as well.
Probe(p) ==
    /\ proc[p] = "probe"
    /\ \/ Reachable /\ Goto(p, "running") /\ UNCHANGED clashed
       \/ Goto(p, "mkdir") /\ clashed' = clashed \cup IF Reachable THEN {p, node} ELSE {}
    /\ UNCHANGED <<listening, node, private, starts>>

\* Slip: a directory that is there keeps its mode.
MakeDir_NoChmod(p) ==
    /\ proc[p] = "mkdir"
    /\ Goto(p, "lstat")
    /\ UNCHANGED <<listening, node, private, starts, clashed>>

\* MkdirAll and Chmod.
MakeDir(p) ==
    /\ proc[p] = "mkdir"
    /\ Goto(p, "lstat") /\ private' = TRUE
    /\ UNCHANGED <<listening, node, starts, clashed>>

\* Slip: a stale socket is left in the way.
Lstat_NoRemove(p) ==
    /\ proc[p] = "lstat"
    /\ Goto(p, IF node = Foreign THEN "failed" ELSE "listen")
    /\ UNCHANGED <<listening, node, private, starts, clashed>>

Lstat(p) ==
    /\ proc[p] = "lstat"
    /\ Goto(p, IF node = Foreign THEN "failed"
               ELSE IF node = Absent THEN "listen" ELSE "remove")
    /\ UNCHANGED <<listening, node, private, starts, clashed>>

\* Whatever the path leads to by now.
Remove(p) ==
    /\ proc[p] = "remove"
    /\ Goto(p, IF node = Absent THEN "failed" ELSE "listen")
    /\ node' = Absent
    /\ UNCHANGED <<listening, private, starts, clashed>>

Listen(p) ==
    /\ proc[p] = "listen" /\ node = Absent
    /\ Goto(p, "chmod")
    /\ node' = p /\ listening' = [listening EXCEPT ![p] = TRUE]
    /\ UNCHANGED <<private, starts, clashed>>

\* The address is in use.
ListenFails(p) ==
    /\ proc[p] = "listen" /\ node # Absent
    /\ Goto(p, "failed")
    /\ UNCHANGED <<listening, node, private, starts, clashed>>

Chmod(p) ==
    /\ proc[p] = "chmod" /\ node # Absent
    /\ Goto(p, "serving")
    /\ UNCHANGED <<listening, node, private, starts, clashed>>

\* Closing a Unix listener unlinks its path, whatever that leads to.
CloseListener(p) ==
    /\ listening' = [listening EXCEPT ![p] = FALSE]
    /\ node' = Absent

\* Slip: the listener is closed and served all the same.
ChmodFails_GoesOn(p) ==
    /\ proc[p] = "chmod" /\ node = Absent
    /\ Goto(p, "serving") /\ CloseListener(p)
    /\ UNCHANGED <<private, starts, clashed>>

ChmodFails(p) ==
    /\ proc[p] = "chmod" /\ node = Absent
    /\ Goto(p, "failed") /\ CloseListener(p)
    /\ UNCHANGED <<private, starts, clashed>>

\* SIGINT or SIGTERM.
Stop(p) ==
    /\ proc[p] = "serving"
    /\ Goto(p, "stopped") /\ CloseListener(p)
    /\ UNCHANGED <<private, starts, clashed>>

\* Accept fails for want of descriptors or memory: Serve returns, and with
\* it the process.  Run's deferred stop may still close the listener.
AcceptError(p) ==
    /\ proc[p] = "serving"
    /\ Goto(p, "down") /\ listening' = [listening EXCEPT ![p] = FALSE]
    /\ node' \in {node, Absent}
    /\ UNCHANGED <<private, starts, clashed>>

\* Killed, or SIGTERM before the handler is installed: the socket stays.
Crash(p) ==
    /\ proc[p] \notin Ended
    /\ Goto(p, "down") /\ listening' = [listening EXCEPT ![p] = FALSE]
    /\ UNCHANGED <<node, private, starts, clashed>>

SockNext == \E p \in Processes :
    \/ Start(p) \/ Probe(p) \/ MakeDir(p) \/ Lstat(p) \/ Remove(p)
    \/ Listen(p) \/ ListenFails(p) \/ Chmod(p) \/ ChmodFails(p)
    \/ Stop(p) \/ AcceptError(p) \/ Crash(p)

SockSpec == SockInit /\ [][SockNext]_sockVars

-----------------------------------------------------------------------------
\* The variables have the types the code gives them, and who serves listens.
SockTypeOK ==
    /\ proc \in [Processes -> Starting \cup Ended \cup {"serving"}]
    /\ listening \in [Processes -> BOOLEAN]
    /\ \A p \in Processes : proc[p] = "serving" => listening[p]
    /\ node \in Processes \cup {Absent, Foreign}
    /\ private \in BOOLEAN /\ starts \in 0..MaxStarts /\ clashed \subseteq Processes

\* A socket is never in reach of other users, not even before its own mode
\* is set: its directory has mode 0700 whenever somebody listens on it.
SocketPrivate == Reachable => private

\* A server keeps its path until it stops, so that the next start finds it.
\* The exception is a clash: two runs that were starting at a time, or a
\* probe that failed although the server listened.  Its damage is confined to
\* the runs that clashed and to those that began while one of them was still
\* alive; once these have ended the guarantee is back.
ServerReachable == \A p \in Processes :
    proc[p] = "serving" /\ p \notin clashed => node = p

\* A start succeeds whatever a crash, or the runs of an earlier clash, have
\* left behind: only a path that is not a socket, or a clash of its own as
\* above, makes it fail.
FailsForCause == \A p \in Processes :
    proc[p] = "failed" => node = Foreign \/ p \in clashed
=============================================================================
