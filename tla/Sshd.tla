------------------------------- MODULE Sshd -------------------------------
(***************************************************************************)
(* whaleshell-sshd as one program (Serve and ServeConn in                  *)
(* sshserver/server.go, around Run in internal/app/sshd/run.go): processes *)
(* that share a socket path, one client connection to whichever of them    *)
(* listens, and one direct-tcpip channel on that connection.  The client   *)
(* may never speak, may vanish, and its server may end at any time.        *)
(***************************************************************************)
EXTENDS SshdSocket, DirectForward

CONSTANT NoHost     \* the client has not connected

ASSUME HostAssumption == NoHost \notin Processes

VARIABLES
    conn,   \* the connection: "none", "queued" in the listener's backlog,
            \*   "handshake", "open", "lost" (its client is gone), "closed"
    host    \* the process it leads to

forwardVars == vars
connVars    == <<conn, host>>
sshdVars    == <<sockVars, forwardVars, connVars>>

SshdInit == SockInit /\ Init /\ conn = "none" /\ host = NoHost

-----------------------------------------------------------------------------
(* The connection.                                                         *)

Connect ==
    /\ conn = "none" /\ Reachable
    /\ conn' = "queued" /\ host' = node
    /\ UNCHANGED <<sockVars, forwardVars>>

\* Serve accepts, and ServeConn begins under a deadline of thirty seconds.
AcceptConn ==
    /\ conn = "queued" /\ proc[host] = "serving"
    /\ conn' = "handshake"
    /\ UNCHANGED <<host, sockVars, forwardVars>>

\* The deadline is cleared, and channels are served.
HandshakeSucceeds ==
    /\ conn = "handshake"
    /\ conn' = "open"
    /\ UNCHANGED <<host, sockVars, forwardVars>>

\* Slip: without a deadline the server waits for a client that is silent.
HandshakeFails_NoDeadline ==
    /\ conn = "handshake"
    /\ conn' = "handshake"
    /\ UNCHANGED <<host, sockVars, forwardVars>>

\* The client does not speak the protocol, goes away, or lets the deadline
\* pass.
HandshakeFails ==
    /\ conn = "handshake"
    /\ conn' = "closed"
    /\ UNCHANGED <<host, sockVars, forwardVars>>

\* The client goes, and its end of the channel with it if it has one.
ConnLost ==
    /\ conn = "open"
    /\ conn' = "lost"
    /\ \/ Leaves("out")
       \/ /\ pc \notin Active \/ peer["client"] # "there"
          /\ UNCHANGED forwardVars
    /\ UNCHANGED <<host, sockVars>>

\* No more channels will come: ServeConn returns.  What the connection's
\* channels run goes on by itself.
ServeConnEnds ==
    /\ conn = "lost"
    /\ conn' = "closed"
    /\ UNCHANGED <<host, sockVars, forwardVars>>

-----------------------------------------------------------------------------
(* The processes and the channel, and what the end of the one does to the  *)
(* other.                                                                  *)

Starts(p) ==
    /\ \/ Start(p) \/ Probe(p) \/ MakeDir(p) \/ Lstat(p) \/ Remove(p)
       \/ Listen(p) \/ ListenFails(p) \/ Chmod(p)
    /\ UNCHANGED <<forwardVars, connVars>>

\* With a process go its connection, queued or open, and its channel.
Ends(p) ==
    /\ ChmodFails(p) \/ Stop(p) \/ AcceptError(p) \/ Crash(p)
    /\ conn' = IF p = host THEN "closed" ELSE conn
    /\ IF p = host /\ pc \in Active THEN Cut ELSE UNCHANGED forwardVars
    /\ UNCHANGED host

\* The client opens the channel and the handler looks at what it asks for.
OpenChannel ==
    /\ conn = "open"
    /\ Reject \/ Check
    /\ UNCHANGED <<sockVars, connVars>>

Serves ==
    /\ pc \in Active /\ Handler
    /\ UNCHANGED <<sockVars, connVars>>

Copies(d) == (Copy(d) \/ CopyEnds(d)) /\ UNCHANGED <<sockVars, connVars>>

Talks(d) ==
    /\ Sends(d) \/ HalfCloses(d) \/ Leaves(d)
    /\ UNCHANGED <<sockVars, connVars>>

SshdNext ==
    \/ \E p \in Processes : Starts(p) \/ Ends(p)
    \/ Connect \/ AcceptConn \/ HandshakeSucceeds \/ HandshakeFails
    \/ ConnLost \/ ServeConnEnds
    \/ OpenChannel \/ Serves
    \/ \E d \in Dirs : Copies(d) \/ Talks(d)

SshdSpec == SshdInit /\ [][SshdNext]_sshdVars

\* Goroutines run, deadlines pass, a process that listens goes on to serve,
\* the peers read what they are sent, and a peer that is told of the end of
\* the other one's stream ends its own.  Nothing makes a client connect,
\* open a channel or leave, nor a process start, stop or crash.
SshdFairness ==
    /\ WF_sshdVars(AcceptConn) /\ WF_sshdVars(HandshakeFails)
    /\ WF_sshdVars(ServeConnEnds) /\ WF_sshdVars(Serves)
    /\ \A p \in Processes :
        WF_sshdVars(Starts(p) /\ Chmod(p)) /\ WF_sshdVars(Ends(p) /\ ChmodFails(p))
    /\ \A d \in Dirs :
        WF_sshdVars(Copies(d)) /\ WF_sshdVars(Follows(d) /\ Talks(d))

FairSshd == SshdSpec /\ SshdFairness

-----------------------------------------------------------------------------
\* A connection that is not over leads to a process that listens, and once
\* it is accepted, like a channel, to one that serves.
Hosted ==
    /\ conn \in {"none", "queued", "handshake", "open", "lost", "closed"}
    /\ host \in Processes \cup {NoHost}
    /\ conn = "none" <=> host = NoHost
    /\ conn = "queued" => listening[host]
    /\ conn \in {"handshake", "open", "lost"} \/ pc \in Active => proc[host] = "serving"

\* The variables of all three parts have the types the code gives them.
SshdTypeOK == SockTypeOK /\ TypeOK /\ Hosted

\* No connection stays half way: one that waits to be accepted, or whose
\* client never completes the handshake, or has gone, is served or closed.
ConnectionsSettle ==
    (conn \in {"queued", "handshake", "lost"}) ~> (conn \in {"open", "closed"})
=============================================================================
