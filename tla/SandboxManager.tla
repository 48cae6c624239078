--------------------------- MODULE SandboxManager ---------------------------
(***************************************************************************)
(* Create and Remove of the sandbox manager (sandbox/sandbox.go), called   *)
(* by several goroutines at a time.  The compute driver and the egress     *)
(* proxy are external: each of their calls may fail, as it does when the   *)
(* caller's context has ended; a sandbox has a name, unique among those    *)
(* that exist, and a handle that is never used again.  List and Exec read. *)
(***************************************************************************)
EXTENDS Naturals

CONSTANTS
    Callers, Names,
    Nobody,             \* no caller: the proxy has no policy yet
    MaxBoxes, MaxCalls  \* bounds: sandboxes ever made, calls in all

ASSUME ManagerAssumption ==
    /\ Names # {} /\ Nobody \notin Callers
    /\ MaxBoxes \in Nat /\ MaxCalls \in Nat

Boxes == 1..MaxBoxes

VARIABLES
    box,        \* per handle: its name and "none", "created", "running",
                \*   "stopped" or "deleted"
    made,       \* handles given out by the driver
    egress,     \* the caller whose policy the proxy applies
    call,       \* per caller: where it is, the name it asked for, its handle
    calls,
    given,      \* history: handles that Create returned,
    condemned,  \*   that Remove looked up,
    leaked      \*   that a failed Create could not delete

managerVars == <<box, made, egress, call, calls, given, condemned, leaked>>

SomeName == CHOOSE n \in Names : TRUE

ManagerInit ==
    /\ box = [i \in Boxes |-> [name |-> SomeName, st |-> "none"]]
    /\ made = 0 /\ egress = Nobody /\ calls = 0
    /\ call = [c \in Callers |-> [at |-> "idle", name |-> SomeName, id |-> 0]]
    /\ given = {} /\ condemned = {} /\ leaked = {}

Exists(i) == i \in Boxes /\ box[i].st \in {"created", "running", "stopped"}
Named(n)  == {i \in Boxes : Exists(i) /\ box[i].name = n}

At(c, l) == call[c].at = l
MovesTo(c, l) == call' = [call EXCEPT ![c].at = l]
BoxIs(i, st) == box' = [box EXCEPT ![i].st = st]

-----------------------------------------------------------------------------
Calls(c, op, n) ==
    /\ At(c, "idle") /\ calls < MaxCalls
    /\ call' = [call EXCEPT ![c] = [at |-> op, name |-> n, id |-> 0]]
    /\ calls' = calls + 1
    /\ UNCHANGED <<box, made, egress, given, condemned, leaked>>

\* Any error before the driver has made something: an invalid policy, the
\* proxy, a name that is taken, a sandbox that is not found.
GivesUp(c) ==
    /\ call[c].at \in {"create", "make", "remove"}
    /\ MovesTo(c, "idle")
    /\ UNCHANGED <<box, made, egress, calls, given, condemned, leaked>>

\* The proxy gets the new policy before there is a sandbox; a Create that
\* fails later does not take it back.
ApplyPolicy(c) ==
    /\ At(c, "create")
    /\ MovesTo(c, "make")
    /\ egress' \in {c, egress}      \* a policy of version 0 is not applied
    /\ UNCHANGED <<box, made, calls, given, condemned, leaked>>

\* Slip: the error of the driver is dropped, and there is no handle.
DriverCreate_NoHandle(c) ==
    /\ At(c, "make")
    /\ call' = [call EXCEPT ![c].at = "start"]
    /\ UNCHANGED <<box, made, egress, calls, given, condemned, leaked>>

DriverCreate(c) ==
    /\ At(c, "make") /\ Named(call[c].name) = {} /\ made < MaxBoxes
    /\ made' = made + 1
    /\ box' = [box EXCEPT ![made + 1] = [name |-> call[c].name, st |-> "created"]]
    /\ call' = [call EXCEPT ![c].at = "start", ![c].id = made + 1]
    /\ UNCHANGED <<egress, calls, given, condemned, leaked>>

DriverStart(c) ==
    /\ At(c, "start") /\ Exists(call[c].id)
    /\ BoxIs(call[c].id, "running") /\ MovesTo(c, "idle")
    /\ given' = given \cup {call[c].id}
    /\ UNCHANGED <<made, egress, calls, condemned, leaked>>

StartFails(c) ==
    /\ At(c, "start")
    /\ MovesTo(c, "cleanup")
    /\ UNCHANGED <<box, made, egress, calls, given, condemned, leaked>>

\* Slip: the clean-up deletes whatever has the name.
Cleanup_ByName(c) ==
    /\ At(c, "cleanup") /\ MovesTo(c, "idle")
    /\ \E i \in Named(call[c].name) : BoxIs(i, "deleted")
    /\ UNCHANGED <<made, egress, calls, given, condemned, leaked>>

\* The clean-up of a Create whose start failed; its own error is dropped.
Cleanup(c) ==
    /\ At(c, "cleanup") /\ MovesTo(c, "idle")
    /\ \/ Exists(call[c].id) /\ BoxIs(call[c].id, "deleted") /\ UNCHANGED leaked
       \/ leaked' = leaked \cup {call[c].id} /\ UNCHANGED box
    /\ UNCHANGED <<made, egress, calls, given, condemned>>

Inspect(c) ==
    /\ At(c, "remove")
    /\ \E i \in Named(call[c].name) :
        /\ call' = [call EXCEPT ![c].at = "stop", ![c].id = i]
        /\ condemned' = condemned \cup {i}
    /\ UNCHANGED <<box, made, egress, calls, given, leaked>>

\* The result of Stop is not looked at.
DriverStop(c) ==
    /\ At(c, "stop") /\ MovesTo(c, "delete")
    /\ \/ box[call[c].id].st = "running" /\ BoxIs(call[c].id, "stopped")
       \/ UNCHANGED box
    /\ UNCHANGED <<made, egress, calls, given, condemned, leaked>>

DriverDelete(c) ==
    /\ At(c, "delete") /\ MovesTo(c, "idle")
    /\ \/ Exists(call[c].id) /\ BoxIs(call[c].id, "deleted")
       \/ UNCHANGED box
    /\ UNCHANGED <<made, egress, calls, given, condemned, leaked>>

CreateStep(c) ==
    \/ ApplyPolicy(c) \/ DriverCreate(c) \/ DriverStart(c) \/ StartFails(c)
    \/ Cleanup(c)

RemoveStep(c) == Inspect(c) \/ DriverStop(c) \/ DriverDelete(c)

ManagerNext(c) ==
    \/ \E n \in Names : Calls(c, "create", n) \/ Calls(c, "remove", n)
    \/ GivesUp(c) \/ CreateStep(c) \/ RemoveStep(c)

ManagerSpec == ManagerInit /\ [][\E c \in Callers : ManagerNext(c)]_managerVars

-----------------------------------------------------------------------------
\* The variables have the types the code gives them.
ManagerTypeOK ==
    /\ box \in [Boxes -> [name : Names,
                          st : {"none", "created", "running", "stopped", "deleted"}]]
    /\ made \in 0..MaxBoxes /\ egress \in Callers \cup {Nobody}
    /\ call \in [Callers -> [at : {"idle", "create", "make", "start", "cleanup",
                                   "remove", "stop", "delete"},
                             name : Names, id : 0..MaxBoxes]]
    /\ calls \in 0..MaxCalls
    /\ given \subseteq Boxes /\ condemned \subseteq Boxes /\ leaked \subseteq Boxes

InFlight(i) == \E c \in Callers :
    call[c].id = i /\ call[c].at \in {"start", "cleanup"}

\* Whatever other calls do in between, a sandbox that Create handed out runs
\* until somebody removes that very sandbox (never because of the clean-up
\* of another Create of its name), and a sandbox that exists without having
\* been handed out is one whose clean-up failed as well.
Accounted == \A i \in Boxes :
    /\ i \in given \ condemned => box[i].st = "running"
    /\ Exists(i) => i \in given \/ i \in leaked \/ InFlight(i) \/ i \in condemned
=============================================================================
