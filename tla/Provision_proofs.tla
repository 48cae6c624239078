-------------------------- MODULE Provision_proofs --------------------------
(***************************************************************************)
(* Proofs about the way of a sandbox from its options to an installed      *)
(* guest, for every configuration and any number of callers: first each    *)
(* part under its own specification (GuestInit, SandboxManager,            *)
(* AgentStage), then Provision, whose steps are steps of the parts, and    *)
(* the installation, which needs the others: the tree it copies must have  *)
(* been staged and must not change any more.                               *)
(***************************************************************************)
EXTENDS Provision, TLAPS

-----------------------------------------------------------------------------
(* whaleshell-init, from its flags to exec.                                *)

\* What each step of the init knows: whether the rules are in force, what the
\* drop has switched so far, and that it goes on only with ids it could read.
RulesInv ==
    /\ boot \in {"load", "landlock"} => ruleset = "none"
    /\ Mode = "required" /\ boot \in {"drop", "setgid", "setuid", "exec", "running"} =>
        /\ ruleset # "none"
        /\ PolicyMode = "required" => ruleset = "full"
    /\ ruleset # "none" => nnp
DropInv ==
    /\ boot \in {"setgid", "setuid"} =>
        WantsDrop /\ nnp /\ conf.root /\ Garbled \notin {conf.uidEnv, conf.gidEnv}
    /\ boot \in {"load", "landlock", "drop", "setgid"} => (gid = 0 <=> conf.root)
    /\ ~conf.root \/ (boot = "setuid" /\ ~Wraps) => gid # 0
    /\ uid # 0 /\ conf.root =>
        boot \in {"exec", "running", "failed"} /\ (~Wraps => gid # 0)
    /\ ~conf.root => uid # 0
    /\ Mode = "required" /\ WantsDrop /\ boot \in {"exec", "running"} =>
        nnp /\ (~Wraps => uid # 0 /\ gid # 0)
BootInv == BootTypeOK /\ RulesInv /\ DropInv

\* An id becomes a number in the system call, and nobody's stays what it is.
LEMMA AsIdNumber ==
    /\ \A n \in Int : AsId(n) \in Int
    /\ AsId(Nobody65534) # 0
  <1>1. \A n \in Int : n % IdSpan \in Int
    BY IdsAssumption
  <1>2. Nobody65534 % IdSpan = Nobody65534
    BY IdsAssumption
  <1> QED
    BY <1>1, <1>2, IdsAssumption DEF AsId

\* Whatever the two variables hold, as long as they can be read and neither
\* wraps, the ids a drop switches to are numbers, and not root's.
LEMMA TargetsAreNotRoot ==
    ASSUME BootTypeOK, Garbled \notin {conf.uidEnv, conf.gidEnv}
    PROVE  /\ AsId(TargetUid) \in Int /\ AsId(TargetGid) \in Int
           /\ ~Wraps => AsId(TargetUid) # 0 /\ AsId(TargetGid) # 0
  <1>1. \A v \in EnvIds \ {Garbled} : Number(v) \in Int
    BY DEF EnvIds, Number
  <1>2. \A v \in EnvIds : Number(v) # 0 => Number(v) = v
    BY DEF Number
  <1>3. conf.uidEnv \in EnvIds \ {Garbled} /\ conf.gidEnv \in EnvIds \ {Garbled}
    BY DEF BootTypeOK, Confs
  <1>4. \A t \in {TargetUid, TargetGid} :
            t = Nobody65534 \/ (t # 0 /\ t \in {conf.uidEnv, conf.gidEnv} /\ t \in Int)
    BY <1>1, <1>2, <1>3 DEF TargetUid, TargetGid
  <1>5. \A t \in {TargetUid, TargetGid} : AsId(t) \in Int /\ (~Wraps => AsId(t) # 0)
    BY <1>4, AsIdNumber, IdsAssumption DEF Wraps
  <1> QED
    BY <1>5

\* The init starts with every conjunct.
LEMMA BootStarts == ASSUME NEW c \in Confs, BootInit(c) PROVE BootInv
  <1>1. conf = c /\ boot = "load" /\ ruleset = "none" /\ nnp = FALSE /\ gid = uid
    BY DEF BootInit
  <1>2. uid = (IF c.root THEN 0 ELSE 1) /\ c.root \in BOOLEAN
    BY DEF BootInit, Confs
  <1>3. uid = 0 <=> c.root
    BY <1>2
  <1>4. BootTypeOK
    <2>1. nnp \in BOOLEAN
      BY <1>1, Zenon
    <2>2. uid \in {0, 1}
      BY <1>2
    <2> QED
      BY <1>1, <2>1, <2>2 DEF BootTypeOK
  <1>5. RulesInv
    BY <1>1 DEF RulesInv
  <1>6. DropInv
    BY <1>1, <1>3 DEF DropInv
  <1> QED
    BY <1>4, <1>5, <1>6 DEF BootInv

\* Every step of the init keeps the types.
LEMMA BootTypes == BootTypeOK /\ DropInv /\ [BootNext]_bootVars => BootTypeOK'
  <1> SUFFICES ASSUME BootTypeOK, DropInv, [BootNext]_bootVars PROVE BootTypeOK'
    OBVIOUS
  <1> USE DEF BootTypeOK, OrFail
  <1>1. CASE LoadPolicy \/ KeepPrivileges \/ Exec \/ ExecFails
    BY <1>1 DEF LoadPolicy, KeepPrivileges, Exec, ExecFails
  <1>2. CASE Landlock \/ LandlockFails
    <2>1. nnp' \in BOOLEAN
      BY <1>2, Zenon DEF Landlock, LandlockFails
    <2> QED
      BY <1>2, <2>1 DEF Landlock, LandlockFails
  <1>3. CASE ReadIds \/ DropFails
    <2>1. nnp' \in BOOLEAN
      BY <1>3, Zenon DEF ReadIds, DropFails
    <2> QED
      BY <1>3, <2>1 DEF ReadIds, DropFails
  <1>4. CASE SetGid \/ SetUid
    BY <1>4, TargetsAreNotRoot DEF SetGid, SetUid, DropInv
  <1>5. CASE UNCHANGED bootVars
    BY <1>5 DEF bootVars
  <1> QED
    BY <1>1, <1>2, <1>3, <1>4, <1>5 DEF BootNext

\* It keeps what it knows of the rules and of the ids.
LEMMA BootKnows == BootInv /\ [BootNext]_bootVars => RulesInv' /\ DropInv'
  <1> SUFFICES ASSUME BootInv, [BootNext]_bootVars PROVE RulesInv' /\ DropInv'
    OBVIOUS
  <1>0. /\ conf' = conf /\ Mode' = Mode /\ PolicyMode' = PolicyMode
        /\ WantsDrop' = WantsDrop /\ Wraps' = Wraps
    BY DEF BootNext, bootVars, LoadPolicy, Landlock, LandlockFails, KeepPrivileges, ReadIds,
           SetGid, SetUid, DropFails, Exec, ExecFails, Mode, PolicyMode, WantsDrop, Wraps
  <1> USE <1>0 DEF BootInv, BootTypeOK, RulesInv, DropInv, OrFail
  <1>1. CASE LoadPolicy
    BY <1>1 DEF LoadPolicy
  <1>2. CASE Landlock
    BY <1>2 DEF Landlock, Confs
  <1>3. CASE LandlockFails
    BY <1>3 DEF LandlockFails
  <1>4. CASE KeepPrivileges
    BY <1>4 DEF KeepPrivileges
  <1>5. CASE ReadIds
    BY <1>5 DEF ReadIds
  <1>6. CASE SetGid
    BY <1>6, TargetsAreNotRoot DEF SetGid
  <1>7. CASE SetUid
    BY <1>7, TargetsAreNotRoot DEF SetUid
  <1>8. CASE DropFails
    <2>1. nnp => nnp'
      BY <1>8, Zenon DEF DropFails
    <2>2. boot' = IF Mode = "required" THEN "failed" ELSE "exec"
      BY <1>8 DEF DropFails
    <2>3. UNCHANGED <<ruleset, uid, gid>> /\ boot \in {"drop", "setgid", "setuid"}
      BY <1>8 DEF DropFails
    <2>4. RulesInv'
      BY <2>1, <2>2, <2>3
    <2>5. DropInv'
      BY <2>1, <2>2, <2>3
    <2> QED
      BY <2>4, <2>5
  <1>9. CASE Exec \/ ExecFails
    BY <1>9 DEF Exec, ExecFails
  <1>10. CASE UNCHANGED bootVars
    BY <1>10 DEF bootVars
  <1> QED
    BY <1>1, <1>2, <1>3, <1>4, <1>5, <1>6, <1>7, <1>8, <1>9, <1>10 DEF BootNext

\* The inductive invariant of the init.
THEOREM BootInductive == BootSpec => []BootInv
  <1>1. (\E c \in Confs : BootInit(c)) => BootInv
    BY BootStarts
  <1>2. BootInv /\ [BootNext]_bootVars => BootInv'
    BY BootTypes, BootKnows DEF BootInv
  <1> QED
    BY <1>1, <1>2, PTL DEF BootSpec

\* For every flag, policy, kernel and value of the two variables that does not
\* wrap to 0, the command runs hardened as its mode demands (wsinit.Run).
THEOREM CommandHardened == BootSpec => []RunsHardened
  <1>1. BootInv => RunsHardened
    BY DEF BootInv, RulesInv, DropInv, RunsHardened
  <1> QED
    BY <1>1, BootInductive, PTL

-----------------------------------------------------------------------------
(* The sandbox manager, for any number of callers, names and sandboxes.    *)

\* Which handles there are, and what a call under way knows of its own: a
\* Create that has not returned is the only one with its handle and nobody
\* was given it; a Remove past its look-up has condemned its handle.
Creating(c) == call[c].at \in {"start", "cleanup"}
HandleInv ==
    /\ \A i \in Boxes : box[i].st = "none" <=> i > made
    /\ given \subseteq 1..made /\ condemned \subseteq 1..made /\ leaked \subseteq 1..made
    /\ \A c \in Callers : Creating(c) => call[c].id \in (1..made) \ given
    /\ \A c \in Callers : call[c].at \in {"stop", "delete"} => call[c].id \in condemned
    /\ \A c, d \in Callers : Creating(c) /\ Creating(d) /\ call[c].id = call[d].id => c = d
ManagerInv == ManagerTypeOK /\ HandleInv /\ Accounted

States == {"none", "created", "running", "stopped", "deleted"}
CallSteps == {"idle", "create", "make", "start", "cleanup", "remove", "stop", "delete"}
CallRecs  == [at : CallSteps, name : Names, id : 0..MaxBoxes]
BoxRecs   == [name : Names, st : States]

\* Nothing is made, given or under way at the start.
LEMMA ManagerStarts == ManagerInit => ManagerInv
  <1> SUFFICES ASSUME ManagerInit PROVE ManagerInv
    OBVIOUS
  <1> USE ManagerAssumption DEF ManagerInit
  <1>1. SomeName \in Names
    BY DEF SomeName
  <1>2. ManagerTypeOK
    BY <1>1 DEF ManagerTypeOK
  <1>3. \A i \in Boxes : box[i].st = "none" /\ i > made
    BY DEF Boxes
  <1>4. \A c \in Callers : call[c].at = "idle"
    OBVIOUS
  <1>5. HandleInv
    BY <1>3, <1>4 DEF HandleInv, Creating
  <1>6. Accounted
    BY <1>3 DEF Accounted, Exists
  <1> QED
    BY <1>2, <1>5, <1>6 DEF ManagerInv

\* What a step of a call does to the calls, and to a sandbox.
LEMMA CallMoves ==
    ASSUME ManagerTypeOK, NEW c \in Callers, NEW l \in CallSteps, MovesTo(c, l)
    PROVE  /\ call' \in [Callers -> CallRecs]
           /\ call'[c].at = l /\ call'[c].id = call[c].id /\ call'[c].name = call[c].name
           /\ \A d \in Callers \ {c} : call'[d] = call[d]
  BY DEF ManagerTypeOK, CallRecs, CallSteps, MovesTo

\* A driver call on one sandbox changes its state and no other sandbox.
LEMMA BoxChanges ==
    ASSUME ManagerTypeOK, NEW i \in Boxes, NEW st \in States, BoxIs(i, st)
    PROVE  /\ box' \in [Boxes -> BoxRecs]
           /\ box'[i].st = st /\ box'[i].name = box[i].name
           /\ \A j \in Boxes \ {i} : box'[j] = box[j]
  BY DEF ManagerTypeOK, BoxRecs, States, BoxIs

\* Every kind of step as a change of one call, one sandbox and the history;
\* the rest of the proof needs no more of it.
LEMMA CallsDoes ==
    ASSUME ManagerTypeOK, NEW c \in Callers, NEW n \in Names, NEW op \in {"create", "remove"},
           Calls(c, op, n)
    PROVE  /\ call' \in [Callers -> CallRecs] /\ calls' \in 0..MaxCalls
           /\ call[c].at = "idle" /\ call'[c].at = op
           /\ \A d \in Callers \ {c} : call'[d] = call[d]
  <1> DEFINE r == [at |-> op, name |-> n, id |-> 0]
  <1>1. r \in CallRecs
    BY ManagerAssumption DEF CallRecs, CallSteps
  <1>2. call' = [call EXCEPT ![c] = r] /\ call \in [Callers -> CallRecs]
    BY DEF Calls, ManagerTypeOK, CallRecs, CallSteps
  <1>3. call' \in [Callers -> CallRecs] /\ call'[c] = r
    BY <1>1, <1>2
  <1>4. \A d \in Callers \ {c} : call'[d] = call[d]
    BY <1>2
  <1>5. calls' \in 0..MaxCalls /\ call[c].at = "idle"
    BY ManagerAssumption DEF Calls, ManagerTypeOK, At
  <1> QED
    BY <1>3, <1>4, <1>5

\* The driver's create takes a handle that was never used, for one call.
LEMMA DriverCreateDoes ==
    ASSUME ManagerTypeOK, NEW c \in Callers, DriverCreate(c)
    PROVE  /\ call' \in [Callers -> CallRecs] /\ box' \in [Boxes -> BoxRecs]
           /\ made + 1 \in Boxes /\ made' = made + 1
           /\ call[c].at = "make" /\ call'[c].at = "start" /\ call'[c].id = made + 1
           /\ \A d \in Callers \ {c} : call'[d] = call[d]
           /\ box'[made + 1].st = "created"
           /\ \A j \in Boxes \ {made + 1} : box'[j] = box[j]
  <1> USE DEF DriverCreate, ManagerTypeOK, At
  <1>1. made + 1 \in Boxes /\ made' = made + 1
    BY ManagerAssumption DEF Boxes
  <1> DEFINE r == [call[c] EXCEPT !.at = "start", !.id = made + 1]
  <1>r. r \in CallRecs
    <2>1. call[c] \in CallRecs
      BY DEF CallRecs, CallSteps
    <2>2. made + 1 \in 0..MaxBoxes
      BY <1>1, ManagerAssumption DEF Boxes
    <2> QED
      BY <2>1, <2>2 DEF CallRecs, CallSteps
  <1>2. call' \in [Callers -> CallRecs]
    <2>1. call' = [call EXCEPT ![c] = r]
      OBVIOUS
    <2>2. call \in [Callers -> CallRecs]
      BY DEF CallRecs, CallSteps
    <2> HIDE DEF r
    <2> QED
      BY <2>1, <2>2, <1>r
  <1>3. /\ call[c].at = "make" /\ call'[c].at = "start" /\ call'[c].id = made + 1
        /\ \A d \in Callers \ {c} : call'[d] = call[d]
    OBVIOUS
  <1>4. box' \in [Boxes -> BoxRecs]
    BY <1>1 DEF BoxRecs, States
  <1>5. /\ box'[made + 1].st = "created"
        /\ \A j \in Boxes \ {made + 1} : box'[j] = box[j]
    BY <1>1
  <1> QED
    BY <1>1, <1>2, <1>3, <1>4, <1>5

\* An inspect that finds the name condemns the sandbox that has it now.
LEMMA InspectDoes ==
    ASSUME ManagerTypeOK, NEW c \in Callers, Inspect(c)
    PROVE  /\ call' \in [Callers -> CallRecs]
           /\ call[c].at = "remove" /\ call'[c].at = "stop" /\ call'[c].id \in Boxes
           /\ Exists(call'[c].id) /\ condemned' = condemned \cup {call'[c].id}
           /\ \A d \in Callers \ {c} : call'[d] = call[d]
  <1>1. PICK i \in Named(call[c].name) :
            /\ call' = [call EXCEPT ![c].at = "stop", ![c].id = i]
            /\ condemned' = condemned \cup {i}
    BY DEF Inspect
  <1>2. i \in Boxes /\ Exists(i)
    BY DEF Named
  <1> DEFINE r == [call[c] EXCEPT !.at = "stop", !.id = i]
  <1>3. call' \in [Callers -> CallRecs]
    <2>1. r \in CallRecs
      <3>1. call[c] \in CallRecs
        BY DEF CallRecs, CallSteps, ManagerTypeOK
      <3>2. i \in 0..MaxBoxes
        BY <1>2, ManagerAssumption DEF Boxes
      <3> QED
        BY <3>1, <3>2 DEF CallRecs, CallSteps
    <2>2. call' = [call EXCEPT ![c] = r]
      BY <1>1
    <2>3. call \in [Callers -> CallRecs]
      BY DEF CallRecs, CallSteps, ManagerTypeOK
    <2> HIDE DEF r
    <2> QED
      BY <2>1, <2>2, <2>3
  <1>4. call'[c].at = "stop" /\ call'[c].id = i /\ \A d \in Callers \ {c} : call'[d] = call[d]
    BY <1>1 DEF ManagerTypeOK
  <1> QED
    BY <1>1, <1>2, <1>3, <1>4 DEF Inspect, At

\* Every step of a call keeps the invariant of the manager.
LEMMA ManagerStep ==
    ASSUME ManagerInv, NEW c \in Callers, ManagerNext(c) PROVE ManagerInv'
  <1> USE ManagerAssumption DEF ManagerInv
  <1>T. made \in Nat /\ MaxBoxes \in Nat /\ made <= MaxBoxes
    BY DEF ManagerTypeOK
  <1>1. ASSUME NEW n \in Names, NEW op \in {"create", "remove"}, Calls(c, op, n)
        PROVE  ManagerInv'
    <2>1. /\ call' \in [Callers -> CallRecs] /\ call[c].at = "idle" /\ call'[c].at = op
          /\ calls' \in 0..MaxCalls /\ \A d \in Callers \ {c} : call'[d] = call[d]
      BY <1>1, CallsDoes
    <2>2. UNCHANGED <<box, made, egress, given, condemned, leaked>>
      BY <1>1 DEF Calls
    <2>3. ManagerTypeOK'
      BY <2>1, <2>2 DEF ManagerTypeOK, CallRecs, CallSteps, BoxRecs, States, Boxes
    <2>4. HandleInv'
      BY <2>1, <2>2 DEF HandleInv, Creating
    <2>5. Accounted'
      BY <2>1, <2>2 DEF HandleInv, Creating, Accounted, InFlight, Exists
    <2> QED
      BY <2>3, <2>4, <2>5
  <1>2. CASE GivesUp(c)
    <2>1. /\ call' \in [Callers -> CallRecs] /\ call'[c].at = "idle" /\ call'[c].id = call[c].id
          /\ \A d \in Callers \ {c} : call'[d] = call[d]
      BY <1>2, CallMoves DEF GivesUp, CallSteps
    <2>2. call[c].at \in {"create", "make", "remove"}
          /\ UNCHANGED <<box, made, egress, calls, given, condemned, leaked>>
      BY <1>2 DEF GivesUp
    <2>3. ManagerTypeOK'
      BY <2>1, <2>2 DEF ManagerTypeOK, CallRecs, CallSteps, BoxRecs, States, Boxes
    <2>4. HandleInv'
      BY <2>1, <2>2 DEF HandleInv, Creating
    <2>5. Accounted'
      BY <2>1, <2>2 DEF HandleInv, Creating, Accounted, InFlight, Exists
    <2> QED
      BY <2>3, <2>4, <2>5
  <1>3. CASE ApplyPolicy(c)
    <2>1. /\ call' \in [Callers -> CallRecs] /\ call'[c].at = "make" /\ call'[c].id = call[c].id
          /\ \A d \in Callers \ {c} : call'[d] = call[d]
      BY <1>3, CallMoves DEF ApplyPolicy, CallSteps
    <2>2. /\ call[c].at = "create" /\ egress' \in {c, egress}
          /\ UNCHANGED <<box, made, calls, given, condemned, leaked>>
      BY <1>3 DEF ApplyPolicy, At
    <2>3. ManagerTypeOK'
      BY <2>1, <2>2 DEF ManagerTypeOK, CallRecs, CallSteps, BoxRecs, States, Boxes
    <2>4. HandleInv'
      BY <2>1, <2>2 DEF HandleInv, Creating
    <2>5. Accounted'
      BY <2>1, <2>2 DEF HandleInv, Creating, Accounted, InFlight, Exists
    <2> QED
      BY <2>3, <2>4, <2>5
  <1>4. CASE DriverCreate(c)
    <2>1. /\ call' \in [Callers -> CallRecs] /\ box' \in [Boxes -> BoxRecs]
          /\ made + 1 \in Boxes /\ made' = made + 1
          /\ call[c].at = "make" /\ call'[c].at = "start" /\ call'[c].id = made + 1
          /\ \A d \in Callers \ {c} : call'[d] = call[d]
          /\ box'[made + 1].st = "created"
          /\ \A j \in Boxes \ {made + 1} : box'[j] = box[j]
      BY <1>4, DriverCreateDoes
    <2>2. UNCHANGED <<egress, calls, given, condemned, leaked>>
      BY <1>4 DEF DriverCreate
    <2>3. ManagerTypeOK'
      BY <2>1, <2>2 DEF ManagerTypeOK, CallRecs, CallSteps, BoxRecs, States, Boxes
    <2>4. HandleInv'
      BY <2>1, <2>2, <1>T DEF HandleInv, Creating, Boxes
    <2>5. Accounted'
      BY <2>1, <2>2, <1>T DEF HandleInv, Creating, Accounted, InFlight, Exists, Boxes
    <2> QED
      BY <2>3, <2>4, <2>5
  <1>5. CASE DriverStart(c)
    <2>1. /\ call' \in [Callers -> CallRecs] /\ call'[c].at = "idle" /\ call'[c].id = call[c].id
          /\ \A d \in Callers \ {c} : call'[d] = call[d]
      BY <1>5, CallMoves DEF DriverStart, CallSteps
    <2>2. call[c].id \in Boxes /\ box[call[c].id].st # "none"
      BY <1>5 DEF DriverStart, Exists
    <2>3. /\ call[c].at = "start" /\ call[c].id \in (1..made) \ given
          /\ \A d \in Callers \ {c} : Creating(d) => call[d].id # call[c].id
      BY <1>5 DEF DriverStart, At, HandleInv, Creating
    <2>4. /\ box' \in [Boxes -> BoxRecs] /\ box'[call[c].id].st = "running"
          /\ \A j \in Boxes \ {call[c].id} : box'[j] = box[j]
      BY <1>5, <2>2, BoxChanges DEF DriverStart, States
    <2>5. /\ call[c].at = "start" /\ given' = given \cup {call[c].id}
          /\ UNCHANGED <<made, egress, calls, condemned, leaked>>
      BY <1>5 DEF DriverStart, At
    <2>6. ManagerTypeOK'
      BY <2>1, <2>2, <2>3, <2>4, <2>5 DEF ManagerTypeOK, CallRecs, CallSteps, BoxRecs, States, Boxes
    <2>7. HandleInv'
      <3>1. \A i \in Boxes : box'[i].st = "none" <=> i > made'
        BY <2>1, <2>2, <2>3, <2>4, <2>5, <1>T DEF HandleInv, Creating
      <3>2. given' \subseteq 1..made' /\ condemned' \subseteq 1..made' /\ leaked' \subseteq 1..made'
        BY <2>1, <2>2, <2>3, <2>4, <2>5, <1>T DEF HandleInv, Creating
      <3>3. \A d \in Callers : Creating(d)' => call'[d].id \in (1..made') \ given'
        BY <2>1, <2>2, <2>3, <2>4, <2>5, <1>T DEF HandleInv, Creating
      <3>4. \A d \in Callers : call'[d].at \in {"stop", "delete"} => call'[d].id \in condemned'
        BY <2>1, <2>2, <2>3, <2>4, <2>5, <1>T DEF HandleInv, Creating
      <3>5. \A d, e \in Callers : Creating(d)' /\ Creating(e)' /\ call'[d].id = call'[e].id => d = e
        BY <2>1, <2>2, <2>3, <2>4, <2>5, <1>T DEF HandleInv, Creating
      <3> QED
        BY <3>1, <3>2, <3>3, <3>4, <3>5 DEF HandleInv, Creating
    <2>8. Accounted'
      BY <2>1, <2>2, <2>3, <2>4, <2>5, <1>T DEF HandleInv, Creating, Accounted, InFlight, Exists, Boxes
    <2> QED
      BY <2>6, <2>7, <2>8
  <1>6. CASE StartFails(c)
    <2>1. /\ call' \in [Callers -> CallRecs] /\ call'[c].at = "cleanup" /\ call'[c].id = call[c].id
          /\ \A d \in Callers \ {c} : call'[d] = call[d]
      BY <1>6, CallMoves DEF StartFails, CallSteps
    <2>2. /\ call[c].at = "start"
          /\ UNCHANGED <<box, made, egress, calls, given, condemned, leaked>>
      BY <1>6 DEF StartFails, At
    <2>3. ManagerTypeOK'
      BY <2>1, <2>2 DEF ManagerTypeOK, CallRecs, CallSteps, BoxRecs, States, Boxes
    <2>4. HandleInv'
      BY <2>1, <2>2 DEF HandleInv, Creating
    <2>5. Accounted'
      BY <2>1, <2>2 DEF HandleInv, Creating, Accounted, InFlight, Exists
    <2> QED
      BY <2>3, <2>4, <2>5
  <1>7. CASE Cleanup(c) /\ Exists(call[c].id) /\ BoxIs(call[c].id, "deleted") /\ UNCHANGED leaked
    <2>1. /\ call' \in [Callers -> CallRecs] /\ call'[c].at = "idle" /\ call'[c].id = call[c].id
          /\ \A d \in Callers \ {c} : call'[d] = call[d]
      BY <1>7, CallMoves DEF Cleanup, CallSteps
    <2>2. /\ call[c].at = "cleanup" /\ call[c].id \in 1..made /\ call[c].id \notin given
          /\ UNCHANGED <<made, egress, calls, given, condemned, leaked>>
      BY <1>7 DEF Cleanup, At, HandleInv, Creating
    <2>3. call[c].id \in Boxes
      BY <2>2, <1>T DEF Boxes
    <2>4. /\ box' \in [Boxes -> BoxRecs] /\ box'[call[c].id].st = "deleted"
          /\ \A j \in Boxes \ {call[c].id} : box'[j] = box[j]
      BY <1>7, <2>3, BoxChanges DEF States
    <2>5. ManagerTypeOK'
      BY <2>1, <2>2, <2>3, <2>4 DEF ManagerTypeOK, CallRecs, CallSteps, BoxRecs, States, Boxes
    <2>6. HandleInv'
      BY <2>1, <2>2, <2>3, <2>4, <1>T DEF HandleInv, Creating, Boxes
    <2>7. Accounted'
      BY <2>1, <2>2, <2>3, <2>4, <1>T DEF HandleInv, Creating, Accounted, InFlight, Exists, Boxes
    <2> QED
      BY <2>5, <2>6, <2>7
  <1>8. CASE Cleanup(c) /\ leaked' = leaked \cup {call[c].id} /\ UNCHANGED box
    <2>1. /\ call' \in [Callers -> CallRecs] /\ call'[c].at = "idle" /\ call'[c].id = call[c].id
          /\ \A d \in Callers \ {c} : call'[d] = call[d]
      BY <1>8, CallMoves DEF Cleanup, CallSteps
    <2>2. /\ call[c].at = "cleanup" /\ call[c].id \in Boxes \cap 1..made
          /\ leaked' = leaked \cup {call[c].id}
          /\ UNCHANGED <<box, made, egress, calls, given, condemned>>
      BY <1>8, <1>T DEF Cleanup, At, HandleInv, Creating, Boxes
    <2>3. ManagerTypeOK'
      BY <2>1, <2>2 DEF ManagerTypeOK, CallRecs, CallSteps, BoxRecs, States, Boxes
    <2>4. HandleInv'
      BY <2>1, <2>2, <1>T DEF HandleInv, Creating, Boxes
    <2>5. Accounted'
      BY <2>1, <2>2, <1>T DEF HandleInv, Creating, Accounted, InFlight, Exists, Boxes
    <2> QED
      BY <2>3, <2>4, <2>5
  <1>9. CASE Inspect(c)
    <2>1. /\ call' \in [Callers -> CallRecs]
          /\ call[c].at = "remove" /\ call'[c].at = "stop" /\ call'[c].id \in Boxes
          /\ Exists(call'[c].id) /\ condemned' = condemned \cup {call'[c].id}
          /\ \A d \in Callers \ {c} : call'[d] = call[d]
      BY <1>9, InspectDoes
    <2>2. UNCHANGED <<box, made, egress, calls, given, leaked>>
      BY <1>9 DEF Inspect
    <2>3. call'[c].id \in 1..made /\ box[call'[c].id].st # "none"
      BY <2>1, <1>T DEF Exists, HandleInv, Boxes
    <2>4. ManagerTypeOK'
      BY <2>1, <2>2, <2>3 DEF ManagerTypeOK, CallRecs, CallSteps, BoxRecs, States, Boxes
    <2>5. HandleInv'
      <3>1. \A i \in Boxes : box'[i].st = "none" <=> i > made'
        BY <2>1, <2>2, <2>3, <1>T DEF HandleInv, Creating
      <3>2. given' \subseteq 1..made' /\ condemned' \subseteq 1..made' /\ leaked' \subseteq 1..made'
        BY <2>1, <2>2, <2>3, <1>T DEF HandleInv, Creating
      <3>3. \A d \in Callers : Creating(d)' => call'[d].id \in (1..made') \ given'
        BY <2>1, <2>2, <2>3, <1>T DEF HandleInv, Creating
      <3>4. \A d \in Callers : call'[d].at \in {"stop", "delete"} => call'[d].id \in condemned'
        BY <2>1, <2>2, <2>3, <1>T DEF HandleInv, Creating
      <3>5. \A d, e \in Callers : Creating(d)' /\ Creating(e)' /\ call'[d].id = call'[e].id => d = e
        BY <2>1, <2>2, <2>3, <1>T DEF HandleInv, Creating
      <3> QED
        BY <3>1, <3>2, <3>3, <3>4, <3>5 DEF HandleInv, Creating
    <2>6. Accounted'
      BY <2>1, <2>2, <2>3, <1>T DEF HandleInv, Creating, Accounted, InFlight, Exists, Boxes, Exists
    <2> QED
      BY <2>4, <2>5, <2>6
  <1>10. CASE DriverStop(c)
    <2>1. /\ call' \in [Callers -> CallRecs] /\ call'[c].at = "delete" /\ call'[c].id = call[c].id
          /\ \A d \in Callers \ {c} : call'[d] = call[d]
      BY <1>10, CallMoves DEF DriverStop, CallSteps
    <2>2. /\ call[c].at = "stop" /\ call[c].id \in condemned /\ call[c].id \in Boxes
          /\ UNCHANGED <<made, egress, calls, given, condemned, leaked>>
      BY <1>10 DEF DriverStop, At, HandleInv, ManagerTypeOK
    <2>3. \/ box' = box
          \/ /\ box' \in [Boxes -> BoxRecs] /\ box'[call[c].id].st = "stopped"
             /\ box[call[c].id].st # "none"
             /\ \A j \in Boxes \ {call[c].id} : box'[j] = box[j]
      BY <1>10, <2>2, BoxChanges DEF DriverStop, States, Exists
    <2>4. ManagerTypeOK'
      BY <2>1, <2>2, <2>3 DEF ManagerTypeOK, CallRecs, CallSteps, BoxRecs, States, Boxes
    <2>5. HandleInv'
      BY <2>1, <2>2, <2>3, <1>T DEF HandleInv, Creating, Boxes
    <2>6. Accounted'
      BY <2>1, <2>2, <2>3, <1>T DEF HandleInv, Creating, Accounted, InFlight, Exists, Boxes
    <2> QED
      BY <2>4, <2>5, <2>6
  <1>11. CASE DriverDelete(c)
    <2>1. /\ call' \in [Callers -> CallRecs] /\ call'[c].at = "idle" /\ call'[c].id = call[c].id
          /\ \A d \in Callers \ {c} : call'[d] = call[d]
      BY <1>11, CallMoves DEF DriverDelete, CallSteps
    <2>2. /\ call[c].at = "delete" /\ call[c].id \in condemned /\ call[c].id \in Boxes
          /\ UNCHANGED <<made, egress, calls, given, condemned, leaked>>
      BY <1>11 DEF DriverDelete, At, HandleInv, ManagerTypeOK
    <2>3. \/ box' = box
          \/ /\ box' \in [Boxes -> BoxRecs] /\ box'[call[c].id].st = "deleted"
             /\ box[call[c].id].st # "none"
             /\ \A j \in Boxes \ {call[c].id} : box'[j] = box[j]
      BY <1>11, <2>2, BoxChanges DEF DriverDelete, States, Exists
    <2>4. ManagerTypeOK'
      BY <2>1, <2>2, <2>3 DEF ManagerTypeOK, CallRecs, CallSteps, BoxRecs, States, Boxes
    <2>5. HandleInv'
      BY <2>1, <2>2, <2>3, <1>T DEF HandleInv, Creating, Boxes
    <2>6. Accounted'
      BY <2>1, <2>2, <2>3, <1>T DEF HandleInv, Creating, Accounted, InFlight, Exists, Boxes
    <2> QED
      BY <2>4, <2>5, <2>6
  <1> QED
    BY <1>1, <1>2, <1>3, <1>4, <1>5, <1>6, <1>7, <1>8, <1>9, <1>10, <1>11
    DEF ManagerNext, CreateStep, RemoveStep, Cleanup

\* The manager's inductive invariant holds for every interleaving of calls.
THEOREM ManagerInductive == ManagerSpec => []ManagerInv
  <1>1. ManagerInv /\ [\E c \in Callers : ManagerNext(c)]_managerVars => ManagerInv'
    <2>1. ASSUME ManagerInv, UNCHANGED managerVars PROVE ManagerInv'
      BY <2>1 DEF managerVars, ManagerInv, ManagerTypeOK, HandleInv, Creating, Accounted,
                  Exists, InFlight
    <2> QED
      BY <2>1, ManagerStep
  <1> QED
    BY <1>1, ManagerStarts, PTL DEF ManagerSpec

\* No Create or Remove loses a sandbox, or takes one that another call handed
\* out (sandbox.go), for any number of calls at a time.
THEOREM SandboxesAccounted == ManagerSpec => []Accounted
  BY ManagerInductive, PTL DEF ManagerInv

-----------------------------------------------------------------------------
(* Staging, for every combination of options and manifest.                 *)

StepNames == {"builtin", "skills", "payload", "seeds", "options", "runtime", "cli",
              "prompt", "agents"}

\* The rank of each step in the order of Stage.
Rank == [builtin |-> 1, skills |-> 2, payload |-> 3, seeds |-> 4, options |-> 5,
          runtime |-> 6, cli |-> 7, prompt |-> 8, agents |-> 9]

\* The steps taken so far.
Taken ==
    IF at \in StepNames THEN {s \in StepNames : Rank[s] < Rank[at]}
    ELSE IF at \in {"return", "staged"} THEN StepNames ELSE {}

\* A file comes from the last step taken that writes it.
LastWriter(f) ==
    \/ tree[f] = "none" /\ \A s \in Taken : f \notin Writes[s]
    \/ \E s \in Taken :
        /\ f \in Writes[s] /\ tree[f] = From[s]
        /\ \A r \in Taken : Rank[s] < Rank[r] => f \notin Writes[r]

Complete ==
    /\ "agents" \in staged <=> Switch("agents")
    /\ "payload" \in staged <=> HasPayload
    /\ "cli" \in staged <=> CliFrom # "none"

StageInv ==
    /\ StageTypeOK
    /\ at = "begin" => tree = [f \in Files |-> "none"]
    /\ at \in StepNames \cup {"return", "staged"} =>
        dir = "there" /\ \A f \in Files : LastWriter(f)
    /\ at = "staged" => Complete

\* What a list of sources with their conditions amounts to.
LEMMA FirstOfOne ==
    ASSUME NEW a \in BOOLEAN, NEW x
    PROVE  FirstOf(<< <<a, x>> >>) = IF a THEN x ELSE "none"
  BY DEF FirstOf

\* The same for two sources in the order of their precedence,
LEMMA FirstOfTwo ==
    ASSUME NEW a \in BOOLEAN, NEW x, NEW b \in BOOLEAN, NEW y
    PROVE  FirstOf(<< <<a, x>>, <<b, y>> >>) = IF a THEN x ELSE IF b THEN y ELSE "none"
  BY DEF FirstOf

\* and for three.
LEMMA FirstOfThree ==
    ASSUME NEW a \in BOOLEAN, NEW x, NEW b \in BOOLEAN, NEW y, NEW c \in BOOLEAN, NEW z
    PROVE  FirstOf(<< <<a, x>>, <<b, y>>, <<c, z>> >>) =
               IF a THEN x ELSE IF b THEN y ELSE IF c THEN z ELSE "none"
  BY DEF FirstOf

\* The order of the steps: each is followed by the next rank, the last by
\* the return.
LEMMA Order ==
    ASSUME NEW s \in StepNames
    PROVE  IF Rank[s] = 9 THEN After(s) = "return"
           ELSE After(s) \in StepNames /\ Rank[After(s)] = Rank[s] + 1
  BY DEF After, StageSteps, Rank, StepNames

\* The steps of Stage are the groups of files it writes.
LEMMA StepsAreNames == DOMAIN Writes = StepNames
  BY DEF Writes, StepNames

\* What the steps write are files, and from a known origin.
LEMMA WritesAreFiles == StageTypeOK => \A s \in StepNames : Writes[s] \in SUBSET Files
  <1> SUFFICES ASSUME StageTypeOK PROVE \A s \in StepNames : Writes[s] \in SUBSET Files
    OBVIOUS
  <1>1. /\ opt.skills \subseteq Skills /\ opt.man.skills \subseteq Skills
        /\ opt.man.payload \subseteq Payload
    BY DEF StageTypeOK, Options, Manifests
  <1> QED
    BY <1>1 DEF StepNames, Writes, When, Files, Payload, Skills

\* Whatever a step writes has one of the known origins.
LEMMA FromIsOrigin == \A s \in StepNames : From[s] \in Origins
  BY DEF StepNames, From, Origins, CliFrom, PromptFrom

\* What is asked for does not change on the way.
LEMMA AsksTheSame ==
    ASSUME UNCHANGED opt
    PROVE  /\ Writes' = Writes /\ From' = From /\ CliFrom' = CliFrom
           /\ Switch("agents")' = Switch("agents")
  <1>1. \A item \in {"agents", "runtime", "seed"} : Switch(item)' = Switch(item)
    BY DEF Switch
  <1>2. PromptFrom' = PromptFrom
    BY DEF PromptFrom, Given
  <1>3. CliFrom' = CliFrom
    BY <1>1 DEF CliFrom, Given
  <1>4. WantRuntime' = WantRuntime
    BY <1>1, <1>2 DEF WantRuntime, Given
  <1>5. From' = From
    BY <1>2, <1>3 DEF From
  <1>6. Writes' = Writes
    BY <1>1, <1>2, <1>3, <1>4 DEF Writes
  <1> QED
    BY <1>1, <1>3, <1>5, <1>6

\* A step taken is added to those taken before, with the highest rank.
LEMMA TakenGrows ==
    ASSUME NEW s \in StepNames, at = s, at' = After(s)
    PROVE  /\ Taken' = Taken \cup {s} /\ s \notin Taken
           /\ \A r \in Taken : Rank[r] < Rank[s]
           /\ at' \in StepNames \cup {"return"}
  <1>1. CASE Rank[s] = 9
    BY <1>1, Order DEF Taken, Rank, StepNames
  <1>2. CASE Rank[s] # 9
    <2>1. at' \in StepNames /\ Rank[at'] = Rank[s] + 1
      BY <1>2, Order
    <2>2. \A r \in StepNames : Rank[r] \in Nat /\ (Rank[r] = Rank[s] => r = s)
      BY DEF Rank, StepNames
    <2> QED
      BY <2>1, <2>2 DEF Taken
  <1> QED
    BY <1>1, <1>2

\* Initial states of a call of Stage satisfy its invariant.
LEMMA StageStarts == ASSUME NEW o \in Options, StageInit(o) PROVE StageInv
  BY DEF StageInit, StageInv, StageTypeOK, Origins, StepNames

\* Every step of Stage keeps the variables in their types.
LEMMA StageTypes == StageTypeOK /\ [StageNext]_stageVars => StageTypeOK'
  <1> SUFFICES ASSUME StageTypeOK, [StageNext]_stageVars PROVE StageTypeOK'
    OBVIOUS
  <1>0. opt' = opt
    BY DEF StageNext, stageVars, StageBegin, StageStep, StageFails, StageReturns, StageDies
  <1>W. DOMAIN Writes = StepNames /\ DOMAIN Writes' = StepNames
    BY <1>0, AsksTheSame, StepsAreNames
  <1> USE <1>0, <1>W DEF StageTypeOK
  <1>1. CASE StageBegin
    BY <1>1 DEF StageBegin, StepNames
  <1>2. CASE StageStep
    <2>1. tree' \in [Files -> Origins]
      BY <1>2, FromIsOrigin DEF StageStep
    <2>2. sealed' \subseteq Files
      <3>1. PICK S \in Seals(at) : sealed' = sealed \cup {f \in S : tree[f] = "none"}
        BY <1>2 DEF StageStep
      <3>2. S \subseteq Files
        BY <1>2, <3>1, WritesAreFiles DEF StageStep, Seals
      <3> QED
        BY <3>1, <3>2
    <2>3. at' \in StepNames \cup {"return"}
      BY <1>2, TakenGrows DEF StageStep
    <2> QED
      BY <1>2, <2>1, <2>2, <2>3 DEF StageStep
  <1>3. CASE StageFails
    <2>1. PICK left \in SUBSET Files :
            /\ tree' = [f \in Files |-> IF f \in left THEN tree[f] ELSE "none"]
            /\ sealed' = sealed \cap left /\ dir' \in {"none", "there", "gone"}
      BY <1>3 DEF StageFails, When
    <2> QED
      BY <1>3, <2>1 DEF StageFails, Origins
  <1>4. CASE StageReturns
    BY <1>4 DEF StageReturns, When
  <1>5. CASE StageDies
    BY <1>5 DEF StageDies
  <1>6. CASE UNCHANGED stageVars
    BY <1>6 DEF stageVars
  <1> QED
    BY <1>1, <1>2, <1>3, <1>4, <1>5, <1>6 DEF StageNext

\* Every step keeps what is in the tree the work of its last writer.
LEMMA StageKeeps == StageInv /\ [StageNext]_stageVars => StageInv'
  <1> SUFFICES ASSUME StageInv, [StageNext]_stageVars PROVE StageInv'
    OBVIOUS
  <1>T. StageTypeOK'
    BY StageTypes DEF StageInv
  <1>0. UNCHANGED opt
    BY DEF StageNext, stageVars, StageBegin, StageStep, StageFails, StageReturns, StageDies
  <1>W. Writes' = Writes /\ From' = From /\ CliFrom' = CliFrom
        /\ Switch("agents")' = Switch("agents")
    BY <1>0, AsksTheSame
  <1>1. CASE StageBegin
    <2>1. Taken' = {} /\ tree' = [f \in Files |-> "none"] /\ at' = "builtin" /\ dir' = "there"
      BY <1>1 DEF StageBegin, StageInv, Taken, StepNames, Rank
    <2>2. \A f \in Files : LastWriter(f)'
      BY <2>1 DEF LastWriter
    <2> QED
      BY <1>T, <2>1, <2>2 DEF StageInv
  <1>2. CASE StageStep
    <2>1. at \in StepNames /\ at' = After(at) /\ dir' = dir
      BY <1>2, StepsAreNames DEF StageStep
    <2>2. /\ Taken' = Taken \cup {at} /\ \A r \in Taken : Rank[r] < Rank[at]
          /\ at' \in StepNames \cup {"return"}
      BY <2>1, TakenGrows
    <2>3. ASSUME NEW f \in Files PROVE LastWriter(f)'
      <3>1. LastWriter(f)
        BY <2>1 DEF StageInv
      <3>2. \A r \in StepNames : Rank[r] \in Nat
        BY DEF StepNames, Rank
      <3>3. Taken \subseteq StepNames
        BY DEF Taken
      <3>4. CASE f \in Writes[at]
        <4>1. tree'[f] = From[at]
          BY <1>2, <3>4 DEF StageStep
        <4> QED
          BY <4>1, <3>4, <2>1, <2>2, <3>2, <3>3, <1>W DEF LastWriter
      <3>5. CASE f \notin Writes[at]
        <4>1. tree'[f] = tree[f]
          BY <1>2, <3>5 DEF StageStep
        <4> QED
          BY <4>1, <3>5, <3>1, <2>2, <1>W DEF LastWriter
      <3> QED
        BY <3>4, <3>5
    <2> QED
      BY <1>T, <2>1, <2>2, <2>3 DEF StageInv, StepNames
  <1>3. CASE StageFails
    BY <1>3, <1>T DEF StageFails, StageInv, StepNames
  <1>4. CASE StageReturns
    <2>1. Taken' = Taken /\ UNCHANGED <<dir, tree>> /\ at = "return" /\ at' = "staged"
      BY <1>4 DEF StageReturns, Taken, StepNames
    <2>2. \A f \in Files : LastWriter(f)'
      BY <2>1, <1>W DEF StageInv, LastWriter
    <2>3. HasPayload' = HasPayload
      BY <2>1 DEF HasPayload
    <2>4. Complete'
      BY <1>4, <2>3, <1>W DEF StageReturns, Complete, When
    <2> QED
      BY <1>T, <2>1, <2>2, <2>4 DEF StageInv, StepNames
  <1>5. CASE StageDies
    BY <1>5, <1>T DEF StageDies, StageInv, StepNames
  <1>6. CASE UNCHANGED stageVars
    BY <1>6, <1>T, <1>W DEF stageVars, StageInv, LastWriter, Complete, HasPayload, Taken
  <1> QED
    BY <1>1, <1>2, <1>3, <1>4, <1>5, <1>6 DEF StageNext

\* The inductive invariant of Stage.
THEOREM StageInductive == StageSpec => []StageInv
  <1>1. (\E o \in Options : StageInit(o)) => StageInv
    BY StageStarts
  <1> QED
    BY <1>1, StageKeeps, PTL DEF StageSpec

\* Which origin a file has in the end: that of the last step that writes it.
LEMMA WriterIs ==
    ASSUME Taken = StepNames, NEW f, LastWriter(f), NEW s \in StepNames, f \in Writes[s],
           \A r \in StepNames : Rank[s] < Rank[r] => f \notin Writes[r]
    PROVE  tree[f] = From[s]
  <1>1. PICK u \in StepNames :
            /\ f \in Writes[u] /\ tree[f] = From[u]
            /\ \A r \in StepNames : Rank[u] < Rank[r] => f \notin Writes[r]
    BY DEF LastWriter
  <1>2. \A r \in StepNames : Rank[r] \in Nat /\ (Rank[r] = Rank[s] => r = s)
    BY DEF StepNames, Rank
  <1> QED
    BY <1>1, <1>2

\* Once all steps are taken, a file that none of them writes is not there.
LEMMA NoWriter ==
    ASSUME Taken = StepNames, NEW f, LastWriter(f), \A s \in StepNames : f \notin Writes[s]
    PROVE  tree[f] = "none"
  BY DEF LastWriter

\* Which steps write a file.
LEMMA WhoWrites ==
    ASSUME StageTypeOK, NEW f \in Files
    PROVE  /\ f \in Writes["builtin"] <=> f = "advisor" /\ opt.builtin
           /\ f \in Writes["skills"] <=> opt.man.given /\ f \in opt.man.skills /\ f \in Skills
           /\ f \in Writes["payload"] <=> InPayload(f) /\ f \in Payload
           /\ f \notin Writes["seeds"]
           /\ f \in Writes["options"] <=> f \in opt.skills /\ f \in Skills
           /\ f \in Writes["runtime"] <=> f = "runtime" /\ WantRuntime
           /\ f \in Writes["cli"] <=> f = "cli" /\ CliFrom # "none"
           /\ f \in Writes["prompt"] <=> f = "prompt" /\ (PromptFrom # "none" \/ WantRuntime)
           /\ f \in Writes["agents"] <=> f = "agents" /\ Switch("agents")
  <1>1. /\ opt.skills \subseteq Skills /\ opt.man.skills \subseteq Skills
        /\ opt.man.payload \subseteq Payload
    BY DEF StageTypeOK, Options, Manifests
  <1> QED
    BY <1>1 DEF Writes, When, InPayload

\* What Stage returns is the tree that the precedence of sources asks for.
LEMMA TreeAsAsked ==
    ASSUME StageInv, at = "staged", NEW f \in Files PROVE tree[f] = Expected(f)
  <1>1. Taken = StepNames /\ LastWriter(f) /\ StageTypeOK
    BY DEF StageInv, Taken, StepNames
  <1>2. WantRuntime \in BOOLEAN /\ Switch("agents") \in BOOLEAN /\ InPayload(f) \in BOOLEAN
    <2>1. WantRuntime \in BOOLEAN /\ InPayload(f) \in BOOLEAN
      BY Zenon DEF WantRuntime, InPayload
    <2>2. Switch("agents") \in BOOLEAN
      BY <1>1 DEF Switch, StageTypeOK, Options
    <2> QED
      BY <2>1, <2>2
  <1> USE <1>1, NoWriter, WriterIs, WhoWrites
  <1>3. CASE f \in Skills
    <2>1. Expected(f) =
            IF f \in opt.skills THEN "option"
            ELSE IF opt.man.given /\ f \in opt.man.skills THEN "manifest"
            ELSE IF f = "advisor" /\ opt.builtin THEN "builtin" ELSE "none"
      <3> DEFINE a == f \in opt.skills
                 b == opt.man.given /\ f \in opt.man.skills
                 c == f = "advisor" /\ opt.builtin
      <3>1. Expected(f) = FirstOf(<< <<a, "option">>, <<b, "manifest">>, <<c, "builtin">> >>)
        BY <1>3 DEF Expected, Skills
      <3>2. a \in BOOLEAN /\ b \in BOOLEAN /\ c \in BOOLEAN
        OBVIOUS
      <3> HIDE DEF a, b, c
      <3>3. Expected(f) = IF a THEN "option" ELSE IF b THEN "manifest"
                          ELSE IF c THEN "builtin" ELSE "none"
        BY <3>1, <3>2, FirstOfThree
      <3> QED
        BY <3>3 DEF a, b, c
    <2> QED
      BY <2>1, <1>3 DEF StepNames, Rank, From, Skills, Payload
  <1>4. CASE f = "extra"
    <2>1. Expected(f) = IF InPayload(f) THEN "manifest" ELSE "none"
      BY <1>2, <1>4, FirstOfOne DEF Expected, Skills
    <2> QED
      BY <2>1, <1>4 DEF StepNames, Rank, From, Skills, Payload
  <1>5. CASE f = "runtime"
    <2>1. Expected(f) = IF WantRuntime THEN "builtin"
                        ELSE IF InPayload(f) THEN "manifest" ELSE "none"
      BY <1>2, <1>5, FirstOfTwo DEF Expected, Skills
    <2> QED
      BY <2>1, <1>5 DEF StepNames, Rank, From, Skills, Payload
  <1>6. CASE f = "cli"
    <2>1. Expected(f) = IF CliFrom # "none" THEN CliFrom
                        ELSE IF InPayload(f) THEN "manifest" ELSE "none"
      <3> DEFINE a == CliFrom # "none"
      <3>1. Expected(f) = FirstOf(<< <<a, CliFrom>>, <<InPayload(f), "manifest">> >>)
        BY <1>6 DEF Expected, Skills
      <3>2. a \in BOOLEAN
        BY Zenon
      <3> HIDE DEF a
      <3>3. Expected(f) = IF a THEN CliFrom ELSE IF InPayload(f) THEN "manifest" ELSE "none"
        BY <3>1, <3>2, <1>2, FirstOfTwo
      <3> QED
        BY <3>3 DEF a
    <2> QED
      BY <2>1, <1>6 DEF StepNames, Rank, From, Skills, Payload
  <1>7. CASE f = "prompt"
    <2>1. Expected(f) = IF PromptFrom # "none" THEN PromptFrom
                        ELSE IF WantRuntime THEN "builtin"
                        ELSE IF InPayload(f) THEN "manifest" ELSE "none"
      <3> DEFINE a == PromptFrom # "none"
      <3>1. Expected(f) = FirstOf(<< <<a, PromptFrom>>, <<WantRuntime, "builtin">>,
                                     <<InPayload(f), "manifest">> >>)
        BY <1>7 DEF Expected, Skills
      <3>2. a \in BOOLEAN
        BY Zenon
      <3> HIDE DEF a
      <3>3. Expected(f) = IF a THEN PromptFrom ELSE IF WantRuntime THEN "builtin"
                          ELSE IF InPayload(f) THEN "manifest" ELSE "none"
        BY <3>1, <3>2, <1>2, FirstOfThree
      <3> QED
        BY <3>3 DEF a
    <2> QED
      BY <2>1, <1>7 DEF StepNames, Rank, From, Skills, Payload
  <1>8. CASE f = "agents"
    <2>1. Expected(f) = IF Switch("agents") THEN "builtin" ELSE "none"
      BY <1>2, <1>8, FirstOfOne DEF Expected, Skills
    <2> QED
      BY <2>1, <1>8 DEF StepNames, Rank, From, Skills, Payload
  <1> QED
    BY <1>3, <1>4, <1>5, <1>6, <1>7, <1>8 DEF Files, Payload

\* What Stage returns is all that was asked for (stage.go).
THEOREM StagingComplete == StageSpec => []StagedAsAsked
  <1>1. ASSUME StageInv PROVE StagedAsAsked
    <2>1. CASE at = "staged"
      <3>1. dir = "there" /\ Complete /\ \A f \in Files : tree[f] = Expected(f)
        BY <1>1, <2>1, TreeAsAsked DEF StageInv, StepNames
      <3>2. Taken = StepNames /\ StageTypeOK /\ \A f \in Files : LastWriter(f)
        BY <1>1, <2>1 DEF StageInv, Taken, StepNames
      <3>3. tree["agents"] = IF Switch("agents") THEN "builtin" ELSE "none"
        BY <3>2, WriterIs, NoWriter, WhoWrites DEF StepNames, Rank, From, Skills, Payload, Files
      <3>4. CliFrom # "none" => tree["cli"] = CliFrom
        BY <3>2, WriterIs, WhoWrites DEF StepNames, Rank, From, Skills, Payload, Files
      <3>5. WantRuntime => tree["prompt"] # "none"
        BY <3>2, WriterIs, WhoWrites DEF StepNames, Rank, From, Skills, Payload, Files
      <3> QED
        BY <2>1, <3>1, <3>3, <3>4, <3>5 DEF StagedAsAsked, Complete
    <2>2. CASE at # "staged"
      BY <1>1, <2>2 DEF StageInv, StagedAsAsked
    <2> QED
      BY <2>1, <2>2
  <1> QED
    BY <1>1, StageInductive, PTL

-----------------------------------------------------------------------------
(* The composition, and the installation in it.                            *)

\* A step of the whole is a step of the guest's init or leaves it alone.
LEMMA BootPart == [ProvisionNext]_provisionVars => [BootNext]_bootVars
  BY DEF ProvisionNext, provisionVars, Staging, Managing, Booting, Installing

\* A step of the whole is a step of Stage or leaves it alone,
LEMMA StagePart == [ProvisionNext]_provisionVars => [StageNext]_stageVars
  BY DEF ProvisionNext, provisionVars, Staging, Managing, Booting, Installing

\* does not change who takes part,
LEMMA CastStays == [ProvisionNext]_provisionVars => UNCHANGED castVars
  BY DEF ProvisionNext, provisionVars, Staging, Managing, Booting, Installing

\* and is a call's step in the sandbox manager or leaves it alone.
LEMMA ManagerPart ==
    callers \subseteq Callers /\ [ProvisionNext]_provisionVars
        => [\E c \in Callers : ManagerNext(c)]_managerVars
  BY DEF ProvisionNext, provisionVars, Staging, Managing, Booting, Installing

\* Initial states of the whole are initial states of every part.
LEMMA CastStarts ==
    ProvisionInit => /\ callers \subseteq Callers /\ installs \in BOOLEAN
                     /\ \E c \in Confs : BootInit(c)
                     /\ \E o \in Options : StageInit(o)
                     /\ \E own \in SUBSET (Places \cup {"cli"}) : InstallInit(own)
                     /\ ManagerInit
  BY SituationsAssumption DEF ProvisionInit

\* The whole behaves, seen from each part, as that part's module says.
THEOREM ProvisionParts == ProvisionSpec => StageSpec /\ ManagerSpec /\ BootSpec
  <1>1. callers \subseteq Callers /\ UNCHANGED castVars => (callers \subseteq Callers)'
    BY DEF castVars
  <1> QED
    BY <1>1, CastStarts, CastStays, BootPart, StagePart, ManagerPart, PTL
    DEF ProvisionSpec, StageSpec, ManagerSpec, BootSpec

\* The steps of Install from one of them on.
FromWorkspace == {"probe workspace", "copy workspace", "copy etc", "installed"}
FromRoot  == {"probe root", "copy root"} \cup FromWorkspace
FromSeeds == {"seeds"} \cup FromRoot
FromCli   == {"cli"} \cup FromSeeds
FromMcp   == {"mcp"} \cup FromCli
FromLinks == {"links"} \cup FromMcp
FromHome  == {"home"} \cup FromLinks

\* What is in the sandbox at each step.
GuestInv ==
    /\ step \in FromHome => "etc" \in guest
    /\ step \in FromLinks => "home" \in guest
    /\ step \in FromMcp => "links" \in guest
    /\ step \in FromCli /\ "mcp" \in staged => "mcp" \in guest
    /\ step \in FromSeeds /\ "cli" \in staged => "cli" \in guest
    /\ step \in FromRoot /\ "seeds" \in staged => "seeds" \in guest
    /\ "cli" \in guest => cli \in {"merged", "ours"}
AgentsInv ==
    /\ step \in FromWorkspace /\ "agents" \in staged => agentsMd["root"] # "none"
    /\ step \in {"copy etc", "installed"} /\ "agents" \in staged =>
        agentsMd["workspace"] # "none"

\* Nothing is created before the tree is staged, nothing installed before a
\* sandbox was handed out; and the tree does not change after that.
OrderInv == given # {} \/ step # "idle" => at = "staged"

InstallInv == InstallTypeOK /\ OrderInv /\ GuestInv /\ AgentsInv

\* Initial states satisfy the installation's invariant.
LEMMA InstallStarts == ProvisionInit => InstallInv
  <1> SUFFICES ASSUME ProvisionInit PROVE InstallInv
    OBVIOUS
  <1>1. PICK own \in SUBSET (Places \cup {"cli"}) : InstallInit(own)
    BY CastStarts
  <1>2. step = "idle" /\ tries = 0 /\ guest = {}
    BY <1>1 DEF InstallInit
  <1>3. /\ agentsMd \in [Places -> {"none", "user", "ours"}]
        /\ cli \in {"none", "user", "merged", "ours"}
    BY <1>1 DEF InstallInit
  <1>4. given = {}
    BY CastStarts DEF ManagerInit
  <1>5. InstallTypeOK
    BY <1>2, <1>3, InstallAssumption DEF InstallTypeOK, InstallSteps
  <1>6. OrderInv /\ GuestInv /\ AgentsInv
    BY <1>2, <1>4 DEF OrderInv, GuestInv, AgentsInv, FromHome, FromLinks, FromMcp, FromCli,
                      FromSeeds, FromRoot, FromWorkspace, CopyOf, Places
  <1> QED
    BY <1>5, <1>6 DEF InstallInv

\* The steps for the two places, one by one.
LEMMA StepsOfPlaces ==
    /\ Places = {"root", "workspace"}
    /\ ProbeOf["root"] = "probe root" /\ ProbeOf["workspace"] = "probe workspace"
    /\ CopyOf["root"] = "copy root" /\ CopyOf["workspace"] = "copy workspace"
    /\ Following["root"] = "probe workspace" /\ Following["workspace"] = "copy etc"
  BY DEF Places, ProbeOf, CopyOf, Following

\* Every step of Install, and of the programs in the guest, keeps the types.
LEMMA InstallTypes ==
    ASSUME InstallTypeOK, NEW up, InstallNext(up) PROVE InstallTypeOK'
  <1>0. InstallBegin => tries' \in 0..MaxTries
    <2> SUFFICES ASSUME InstallBegin PROVE tries' \in 0..MaxTries
      OBVIOUS
    <2>1. tries \in 0..MaxTries /\ tries < MaxTries /\ tries' = tries + 1
      BY DEF InstallBegin, InstallTypeOK
    <2> QED
      BY <2>1, InstallAssumption
  <1> USE DEF InstallTypeOK, InstallSteps, Goes, Puts
  <1>1. CASE InstallBegin
    BY <1>1, <1>0 DEF InstallBegin
  <1>2. CASE CopyEtc \/ PrepareHome(up) \/ LinkSkills(up) \/ CopyMcp \/ CopySeeds(up)
    BY <1>2 DEF CopyEtc, PrepareHome, LinkSkills, CopyMcp, CopySeeds
  <1>3. CASE PrepareCli(up)
    BY <1>3 DEF PrepareCli, PreparedCli, When
  <1>4. CASE NotStaged \/ CopyEtcAgentsMd \/ InstallFails
    BY <1>4 DEF NotStaged, CopyEtcAgentsMd, InstallFails
  <1>5. ASSUME NEW p \in Places, Probe(p, up) PROVE InstallTypeOK'
    <2>1. step' \in InstallSteps
      BY <1>5, StepsOfPlaces DEF Probe
    <2> QED
      BY <1>5, <2>1 DEF Probe
  <1>6. ASSUME NEW p \in Places, CopyAgentsMd(p) PROVE InstallTypeOK'
    <2>1. step' \in InstallSteps
      BY <1>6, StepsOfPlaces DEF CopyAgentsMd
    <2> QED
      BY <1>6, <2>1 DEF CopyAgentsMd
  <1>7. ASSUME NEW p \in Places, GuestWrites(p) PROVE InstallTypeOK'
    BY <1>7 DEF GuestWrites
  <1> QED
    BY <1>1, <1>2, <1>3, <1>4, <1>5, <1>6, <1>7 DEF InstallNext

\* Every such step keeps what is known of the guest.
LEMMA InstallFills ==
    ASSUME InstallTypeOK, GuestInv, NEW up, InstallNext(up), UNCHANGED staged PROVE GuestInv'
  <1> USE DEF GuestInv, FromHome, FromLinks, FromMcp, FromCli, FromSeeds, FromRoot,
              FromWorkspace, Goes, Puts
  <1>1. CASE InstallBegin
    BY <1>1 DEF InstallBegin
  <1>2. CASE CopyEtc
    BY <1>2 DEF CopyEtc
  <1>3. CASE PrepareHome(up) \/ LinkSkills(up)
    BY <1>3 DEF PrepareHome, LinkSkills
  <1>4. CASE CopyMcp \/ CopySeeds(up)
    BY <1>4 DEF CopyMcp, CopySeeds
  <1>5. CASE PrepareCli(up)
    BY <1>5 DEF PrepareCli, PreparedCli, When
  <1>6. CASE NotStaged \/ CopyEtcAgentsMd \/ InstallFails
    BY <1>6 DEF NotStaged, CopyEtcAgentsMd, InstallFails
  <1>7. ASSUME NEW p \in Places, Probe(p, up) PROVE GuestInv'
    BY <1>7, StepsOfPlaces DEF Probe
  <1>8. ASSUME NEW p \in Places, CopyAgentsMd(p) PROVE GuestInv'
    BY <1>8, StepsOfPlaces DEF CopyAgentsMd
  <1>9. ASSUME NEW p \in Places, GuestWrites(p) PROVE GuestInv'
    BY <1>9 DEF GuestWrites
  <1> QED
    BY <1>1, <1>2, <1>3, <1>4, <1>5, <1>6, <1>7, <1>8, <1>9 DEF InstallNext

\* Every such step keeps what is known of AGENTS.md.
LEMMA InstallSpares ==
    ASSUME InstallTypeOK, AgentsInv, NEW up, InstallNext(up), UNCHANGED staged PROVE AgentsInv'
  <1> USE StepsOfPlaces DEF InstallTypeOK, AgentsInv, FromWorkspace, Goes, Puts
  <1>1. CASE InstallBegin
    BY <1>1 DEF InstallBegin
  <1>2. CASE CopyEtc \/ PrepareHome(up) \/ LinkSkills(up) \/ CopyMcp \/ CopySeeds(up)
    BY <1>2 DEF CopyEtc, PrepareHome, LinkSkills, CopyMcp, CopySeeds
  <1>3. CASE PrepareCli(up)
    BY <1>3 DEF PrepareCli
  <1>4. CASE NotStaged \/ CopyEtcAgentsMd \/ InstallFails
    BY <1>4 DEF NotStaged, CopyEtcAgentsMd, InstallFails
  <1>5. ASSUME NEW p \in Places, Probe(p, up) PROVE AgentsInv'
    BY <1>5 DEF Probe
  <1>6. ASSUME NEW p \in Places, CopyAgentsMd(p) PROVE AgentsInv'
    BY <1>6 DEF CopyAgentsMd
  <1>7. ASSUME NEW p \in Places, GuestWrites(p) PROVE AgentsInv'
    BY <1>7 DEF GuestWrites
  <1> QED
    BY <1>1, <1>2, <1>3, <1>4, <1>5, <1>6, <1>7 DEF InstallNext

\* A step beside the installation keeps what it knows of the guest.
LEMMA GuestStays ==
    ASSUME InstallTypeOK, GuestInv, AgentsInv, UNCHANGED <<installVars, staged>>
    PROVE  InstallTypeOK' /\ GuestInv' /\ AgentsInv'
  <1> USE DEF installVars
  <1>1. InstallTypeOK'
    BY DEF InstallTypeOK, InstallSteps
  <1>2. GuestInv'
    BY DEF GuestInv, FromHome, FromLinks, FromMcp, FromCli, FromSeeds, FromRoot, FromWorkspace
  <1>3. AgentsInv'
    BY StepsOfPlaces DEF AgentsInv, FromWorkspace
  <1> QED
    BY <1>1, <1>2, <1>3

\* The other parts leave the guest alone, and the staged tree once it is used.
LEMMA InstallStep == InstallInv /\ [ProvisionNext]_provisionVars => InstallInv'
  <1> SUFFICES ASSUME InstallInv, [ProvisionNext]_provisionVars PROVE InstallInv'
    OBVIOUS
  <1>1. CASE Staging
    <2>1. at # "staged" /\ UNCHANGED <<installVars, given>>
      BY <1>1, StepsAreNames DEF Staging, StageNext, StageBegin, StageStep, StageFails, StageReturns,
                  StageDies, managerVars, StepNames
    <2>2. step = "idle" /\ given = {}
      BY <2>1 DEF InstallInv, OrderInv
    <2> QED
      BY <2>1, <2>2 DEF InstallInv, InstallTypeOK, OrderInv, GuestInv, AgentsInv, installVars,
                        FromHome, FromLinks, FromMcp, FromCli, FromSeeds, FromRoot, FromWorkspace
  <1>2. CASE Managing
    <2>1. UNCHANGED <<installVars, staged>> /\ at' = "staged"
      BY <1>2 DEF Managing, stageVars
    <2> QED
      BY <2>1, GuestStays DEF InstallInv, OrderInv
  <1>3. CASE Booting
    <2>1. UNCHANGED <<installVars, staged, at, given>>
      BY <1>3 DEF Booting, stageVars, managerVars
    <2> QED
      BY <2>1, GuestStays DEF InstallInv, OrderInv, installVars
  <1>4. CASE Installing
    <2>1. InstallNext(Up) /\ UNCHANGED <<staged, given, at>> /\ at = "staged"
      BY <1>4 DEF Installing, stageVars, managerVars, InstallInv, OrderInv
    <2>2. InstallTypeOK' /\ GuestInv' /\ AgentsInv'
      BY <2>1, InstallTypes, InstallFills, InstallSpares DEF InstallInv
    <2> QED
      BY <2>1, <2>2 DEF InstallInv, OrderInv
  <1>5. CASE UNCHANGED provisionVars
    <2>1. UNCHANGED <<installVars, staged, at, given>>
      BY <1>5 DEF provisionVars, stageVars, managerVars
    <2> QED
      BY <2>1, GuestStays DEF InstallInv, OrderInv, installVars
  <1> QED
    BY <1>1, <1>2, <1>3, <1>4, <1>5 DEF ProvisionNext

\* The invariant of the installation.
THEOREM InstallInductive == ProvisionSpec => []InstallInv
  BY InstallStarts, InstallStep, PTL DEF ProvisionSpec

\* An Install that succeeds, at whatever attempt and whatever the guest and
\* the manager do meanwhile, has put everything staged into the sandbox.
THEOREM InstallComplete == ProvisionSpec => []InstalledAsStaged
  <1>1. InstallInv => InstalledAsStaged
    BY DEF InstallInv, GuestInv, AgentsInv, InstalledAsStaged, Places, FromHome, FromLinks,
           FromMcp, FromCli, FromSeeds, FromRoot, FromWorkspace
  <1> QED
    BY <1>1, InstallInductive, PTL

\* The parts keep their promises in the whole.
THEOREM PartsOfAll == ProvisionSpec => [](Accounted /\ RunsHardened /\ StagedAsAsked)
  BY ProvisionParts, SandboxesAccounted, CommandHardened, StagingComplete, PTL

\* The types of the whole, for every set of situations.
THEOREM ProvisionTypes == ProvisionSpec => []ProvisionTypeOK
  <1> DEFINE Cast == callers \subseteq Callers /\ installs \in BOOLEAN
  <1>1. ProvisionInit => Cast
    BY CastStarts
  <1>2. Cast /\ UNCHANGED castVars => Cast'
    BY DEF castVars
  <1>3. ManagerInv /\ BootInv /\ StageInv /\ InstallInv /\ Cast => ProvisionTypeOK
    BY DEF ManagerInv, BootInv, StageInv, InstallInv, ProvisionTypeOK
  <1> HIDE DEF Cast
  <1> QED
    BY <1>1, <1>2, <1>3, CastStays, ProvisionParts, ManagerInductive, BootInductive,
       StageInductive, InstallInductive, PTL DEF ProvisionSpec
=============================================================================
