---------------------------- MODULE AgentInstall ----------------------------
(***************************************************************************)
(* Install (agentconfig/install.go) puts a staged tree into a sandbox with *)
(* two external calls: CopyTo, which works on any sandbox, and ExecRaw,    *)
(* which needs a running one.  Either may fail; the caller may call        *)
(* Install again.  Meanwhile programs in the sandbox may write files.      *)
(***************************************************************************)
EXTENDS AgentStage

CONSTANT MaxTries   \* bound: calls of Install

ASSUME InstallAssumption == MaxTries \in Nat

\* Where AGENTS.md goes.
Places == {"root", "workspace"}

VARIABLES
    step,       \* Install: "idle", a step, "installed", "failed"
    tries,
    guest,      \* what it has put into the sandbox
    agentsMd,   \* AGENTS.md in each place: "none", "user" (somebody else's), "ours"
    cli         \* the CLI config in HOME: "none", "user", "merged", "ours"

installVars == <<step, tries, guest, agentsMd, cli>>

\* own: what the image brings of its own.
InstallInit(own) ==
    /\ step = "idle" /\ tries = 0 /\ guest = {}
    /\ agentsMd = [p \in Places |-> IF p \in own THEN "user" ELSE "none"]
    /\ cli = IF "cli" \in own THEN "user" ELSE "none"

Goes(from, to) == step = from /\ step' = to

-----------------------------------------------------------------------------
InstallBegin ==
    /\ step \in {"idle", "failed"} /\ tries < MaxTries
    /\ step' = "etc" /\ tries' = tries + 1
    /\ UNCHANGED <<guest, agentsMd, cli>>

\* A step that puts its part into the sandbox, if it was staged.
Puts(part) ==
    /\ guest' = guest \cup {part}
    /\ UNCHANGED <<tries, agentsMd, cli>>

CopyEtc == Goes("etc", "home") /\ Puts("etc")

\* Two scripts, which may be run again: directories, HOME alias and profile;
\* links to the skills.
PrepareHome(up) == up /\ Goes("home", "links") /\ Puts("home")
LinkSkills(up)  == up /\ Goes("links", "mcp") /\ Puts("links")

CopyMcp == "mcp" \in staged /\ Goes("mcp", "cli") /\ Puts("mcp")

\* prepare-home.sh, if the runtime came along, merges its settings into a
\* file that is there (given python3) and otherwise copies the seed over it,
\* as the inline script does.
PreparedCli ==
    {"ours"} \cup When(tree["runtime"] # "none" /\ cli # "none", {"merged"})

PrepareCli(up) ==
    /\ up /\ "cli" \in staged /\ Goes("cli", "seeds")
    /\ guest' = guest \cup {"cli"} /\ cli' \in PreparedCli
    /\ UNCHANGED <<tries, agentsMd>>

CopySeeds(up) == up /\ "seeds" \in staged /\ Goes("seeds", "probe root") /\ Puts("seeds")

NotStaged ==
    /\ \/ "mcp" \notin staged /\ Goes("mcp", "cli")
       \/ "cli" \notin staged /\ Goes("cli", "seeds")
       \/ "seeds" \notin staged /\ Goes("seeds", "probe root")
       \/ "agents" \notin staged /\ Goes("probe root", "installed")
    /\ UNCHANGED <<tries, guest, agentsMd, cli>>

ProbeOf == [root |-> "probe root", workspace |-> "probe workspace"]
CopyOf  == [root |-> "copy root", workspace |-> "copy workspace"]
Following == [root |-> "probe workspace", workspace |-> "copy etc"]

\* The probe is a command whose failure means "missing", also when the
\* command could not be run at all; a file that is there is then replaced.
Probe(p, up) ==
    /\ step = ProbeOf[p] /\ "agents" \in staged
    /\ \/ up /\ agentsMd[p] # "none" /\ step' = Following[p]
       \/ step' = CopyOf[p]
    /\ UNCHANGED <<tries, guest, agentsMd, cli>>

CopyAgentsMd(p) ==
    /\ step = CopyOf[p] /\ step' = Following[p]
    /\ agentsMd' = [agentsMd EXCEPT ![p] = "ours"]
    /\ UNCHANGED <<tries, guest, cli>>

\* The last copy, below /etc; whether it fails does not matter.
CopyEtcAgentsMd ==
    /\ Goes("copy etc", "installed")
    /\ UNCHANGED <<tries, guest, agentsMd, cli>>

\* Slip: the errors of the two scripts are dropped.
InstallFails_NotScripts ==
    /\ step \in {"etc", "mcp", "cli", "seeds", "copy root", "copy workspace", "home", "links"}
    /\ step' = CASE step = "home" -> "links" [] step = "links" -> "mcp" [] OTHER -> "failed"
    /\ UNCHANGED <<tries, guest, agentsMd, cli>>

\* Any other call that fails ends Install where it is.
InstallFails ==
    /\ step \in {"etc", "home", "links", "mcp", "cli", "seeds", "copy root", "copy workspace"}
    /\ step' = "failed"
    /\ UNCHANGED <<tries, guest, agentsMd, cli>>

\* A program in the sandbox, or the owner of the workspace, writes the file.
GuestWrites(p) ==
    /\ agentsMd[p] = "none" /\ step \notin {"idle", "installed"}
    /\ agentsMd' = [agentsMd EXCEPT ![p] = "user"]
    /\ UNCHANGED <<step, tries, guest, cli>>

InstallNext(up) ==
    \/ InstallBegin \/ CopyEtc \/ PrepareHome(up) \/ LinkSkills(up) \/ CopyMcp
    \/ PrepareCli(up) \/ CopySeeds(up) \/ NotStaged
    \/ \E p \in Places : Probe(p, up) \/ CopyAgentsMd(p) \/ GuestWrites(p)
    \/ CopyEtcAgentsMd \/ InstallFails

-----------------------------------------------------------------------------
InstallSteps ==
    {"idle", "etc", "home", "links", "mcp", "cli", "seeds", "probe root",
     "copy root", "probe workspace", "copy workspace", "copy etc", "installed", "failed"}

\* The variables have the types the code gives them.
InstallTypeOK ==
    /\ step \in InstallSteps /\ tries \in 0..MaxTries
    /\ guest \subseteq {"etc", "home", "links", "mcp", "cli", "seeds"}
    /\ agentsMd \in [Places -> {"none", "user", "ours"}]
    /\ cli \in {"none", "user", "merged", "ours"}

\* When Install returns without an error, after whatever failed attempts,
\* everything that was staged is in the sandbox: the control tree, the HOME
\* with its links, each optional part, and an AGENTS.md in both places.
InstalledAsStaged == step = "installed" =>
    /\ {"home", "links"} \cup (staged \cap {"etc", "mcp", "cli", "seeds"}) \subseteq guest
    /\ "cli" \in staged => cli \in {"merged", "ours"}
    /\ "agents" \in staged => \A p \in Places : agentsMd[p] # "none"
=============================================================================
