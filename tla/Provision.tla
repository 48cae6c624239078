------------------------------ MODULE Provision ------------------------------
(***************************************************************************)
(* A sandbox from its options to an installed guest: the host stages the   *)
(* configuration, the manager creates (and perhaps removes) sandboxes, the *)
(* first of them boots through whaleshell-init, and Install puts the tree  *)
(* into it while all that goes on.  The components are those of the        *)
(* modules extended; here is what ties them together.                      *)
(***************************************************************************)
EXTENDS SandboxManager, GuestInit, AgentInstall

CONSTANT Situations     \* bound: options, init configuration, callers of the
                        \*   manager, whether Install is called, and what the
                        \*   image brings of its own, to try

ASSUME SituationsAssumption ==
    \A s \in Situations :
        /\ s.opt \in Options /\ s.conf \in Confs
        /\ s.callers \subseteq Callers /\ s.installs \in BOOLEAN
        /\ s.own \subseteq Places \cup {"cli"}

VARIABLES
    callers,    \* the callers of the manager in this behaviour
    installs    \* Install is called in this behaviour

castVars == <<callers, installs>>
provisionVars == <<stageVars, managerVars, bootVars, installVars, castVars>>

\* The sandbox whose inside is modelled.
Site == 1

ProvisionInit ==
    /\ \E s \in Situations :
        /\ StageInit(s.opt) /\ BootInit(s.conf)
        /\ callers = s.callers /\ installs = s.installs
        /\ InstallInit(s.own)
    /\ ManagerInit

Staging ==
    /\ StageNext
    /\ UNCHANGED <<managerVars, bootVars, installVars, castVars>>

\* The tree is staged before the sandbox is created.  Bound: beside Install
\* there is one more call.
Managing ==
    /\ at = "staged" /\ \E c \in callers : ManagerNext(c)
    /\ installs => calls' <= 2
    /\ UNCHANGED <<stageVars, bootVars, installVars, castVars>>

Runs == box[Site].st = "running"

Booting ==
    /\ Runs /\ BootNext
    /\ UNCHANGED <<stageVars, managerVars, installVars, castVars>>

\* A container ends with its first program.
Up == Runs /\ boot # "failed"

\* Install works on a handle, whatever has become of the sandbox since.
Installing ==
    /\ installs /\ Site \in given /\ InstallNext(Up)
    /\ UNCHANGED <<stageVars, managerVars, bootVars, castVars>>

ProvisionNext == Staging \/ Managing \/ Booting \/ Installing

ProvisionSpec == ProvisionInit /\ [][ProvisionNext]_provisionVars

-----------------------------------------------------------------------------
\* The variables of every component have the types the code gives them.
ProvisionTypeOK ==
    /\ ManagerTypeOK /\ BootTypeOK /\ StageTypeOK /\ InstallTypeOK
    /\ callers \subseteq Callers /\ installs \in BOOLEAN
=============================================================================
