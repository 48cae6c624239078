------------------------------ MODULE GuestInit ------------------------------
(***************************************************************************)
(* whaleshell-init, the first program of a guest and of every session      *)
(* child: from its flags and the policy through Landlock and the privilege *)
(* drop to exec (internal/app/wsinit/run.go, internal/harden).  The kernel *)
(* and the Landlock library are external.                                  *)
(***************************************************************************)
EXTENDS Integers

CONSTANTS
    Unset, Garbled,     \* values of WHALESHELL_UID and _GID that are no number
    Nobody65534,        \* the id of the user "nobody"
    IdSpan              \* how many ids the kernel tells apart, 2^32

ASSUME IdsAssumption ==
    /\ {Unset, Garbled} \cap Int = {}
    /\ IdSpan \in Nat \ {0} /\ Nobody65534 \in 1..(IdSpan - 2)

VARIABLES
    conf,       \* flags, policy, environment, kernel and credentials
    boot,       \* "load", "landlock", "drop", "setgid", "setuid", "exec",
                \*   "failed", "running" (the command)
    ruleset,    \* Landlock: "none", "partial" (what an older kernel knows), "full"
    nnp,        \* no_new_privs
    uid, gid    \* of the process; 0 is root.  Its supplementary groups are
                \*   not modelled: nothing in the code changes them

bootVars == <<conf, boot, ruleset, nnp, uid, gid>>

EnvIds == Int \cup {Unset, Garbled}

\* A flag other than the two modes is taken as it is.  A missing policy is a
\* document without settings, whose mode is best_effort.
Confs ==
    [flag : {"", "best_effort", "required", "other"},
     policy : {"none", "invalid", "best_effort", "required"},
     asks : BOOLEAN,            \* WHALESHELL_DROP=1, or the policy names a user
     noDrop : BOOLEAN,
     root : BOOLEAN,            \* the effective user
     uidEnv : EnvIds, gidEnv : EnvIds,
     kernel : {"none", "old", "v5"}]

BootInit(c) ==
    /\ conf = c /\ boot = "load"
    /\ ruleset = "none" /\ nnp = FALSE
    /\ uid = (IF c.root THEN 0 ELSE 1) /\ gid = uid

-----------------------------------------------------------------------------
PolicyMode == IF conf.policy = "required" THEN "required" ELSE "best_effort"
Mode       == IF conf.flag = "" THEN PolicyMode ELSE conf.flag

\* What an error leads to: only in mode "required" does it end the init.
OrFail(next) == boot' = IF Mode = "required" THEN "failed" ELSE next

LoadPolicy ==
    /\ boot = "load"
    /\ boot' = IF conf.policy = "invalid" THEN "failed" ELSE "landlock"
    /\ UNCHANGED <<conf, ruleset, nnp, uid, gid>>

\* The strictness of the rules is the policy's, whatever the mode is: rules
\* that are not strict are reduced to what the kernel knows.  The library
\* sets no_new_privs first.
Landlock ==
    /\ boot = "landlock" /\ conf.kernel # "none"
    /\ PolicyMode = "required" => conf.kernel = "v5"
    /\ boot' = "drop" /\ nnp' = TRUE
    /\ ruleset' = IF conf.kernel = "v5" THEN "full" ELSE "partial"
    /\ UNCHANGED <<conf, uid, gid>>

\* No Landlock in the kernel, no path to allow, a strict rule an old kernel
\* does not know, or any other error.
LandlockFails ==
    /\ boot = "landlock"
    /\ OrFail("drop")
    /\ nnp' \in {nnp, conf.kernel # "none"}
    /\ UNCHANGED <<conf, ruleset, uid, gid>>

WantsDrop == ~conf.noDrop /\ conf.asks

KeepPrivileges ==
    /\ boot = "drop" /\ ~WantsDrop
    /\ boot' = "exec"
    /\ UNCHANGED <<conf, ruleset, nnp, uid, gid>>

Number(v) == IF v = Unset THEN 0 ELSE v

\* Slip: a user id that is missing stays root's.
TargetUid_NotFilled ==
    IF Number(conf.uidEnv) = 0 /\ Number(conf.gidEnv) = 0 THEN Nobody65534
    ELSE Number(conf.uidEnv)

\* A missing or zero id is taken from the other; without either, nobody's.
TargetUid ==
    IF Number(conf.uidEnv) # 0 THEN Number(conf.uidEnv)
    ELSE IF Number(conf.gidEnv) # 0 THEN Number(conf.gidEnv) ELSE Nobody65534
TargetGid ==
    IF Number(conf.gidEnv) # 0 THEN Number(conf.gidEnv) ELSE TargetUid

\* no_new_privs and the ids; without root there is nothing to switch.
ReadIds ==
    /\ boot = "drop" /\ WantsDrop
    /\ Garbled \notin {conf.uidEnv, conf.gidEnv}
    /\ nnp' = TRUE
    /\ boot' = IF conf.root THEN "setgid" ELSE "exec"
    /\ UNCHANGED <<conf, ruleset, uid, gid>>

\* The system calls take an id of limited width: of the 64 bits Atoi has
\* accepted, the lower ones.  An id of all ones is refused.
AsId(n) == n % IdSpan

SetGid ==
    /\ boot = "setgid" /\ AsId(TargetGid) # IdSpan - 1
    /\ boot' = "setuid" /\ gid' = AsId(TargetGid)
    /\ UNCHANGED <<conf, ruleset, nnp, uid>>

SetUid ==
    /\ boot = "setuid" /\ AsId(TargetUid) # IdSpan - 1
    /\ boot' = "exec" /\ uid' = AsId(TargetUid)
    /\ UNCHANGED <<conf, ruleset, nnp, gid>>

\* Any of the steps of the drop fails; those before it stay done.
DropFails ==
    /\ boot \in {"drop", "setgid", "setuid"} /\ WantsDrop
    /\ OrFail("exec")
    /\ nnp' \in {nnp, TRUE}
    /\ UNCHANGED <<conf, ruleset, uid, gid>>

Exec ==
    /\ boot = "exec"
    /\ boot' = "running"
    /\ UNCHANGED <<conf, ruleset, nnp, uid, gid>>

\* There is no command, or it cannot be executed (under the rules, too).
ExecFails ==
    /\ boot = "exec"
    /\ boot' = "failed"
    /\ UNCHANGED <<conf, ruleset, nnp, uid, gid>>

BootNext ==
    \/ LoadPolicy \/ Landlock \/ LandlockFails
    \/ KeepPrivileges \/ ReadIds \/ SetGid \/ SetUid \/ DropFails
    \/ Exec \/ ExecFails

BootSpec == (\E c \in Confs : BootInit(c)) /\ [][BootNext]_bootVars

-----------------------------------------------------------------------------
\* The variables have the types the code gives them.
BootTypeOK ==
    /\ conf \in Confs
    /\ boot \in {"load", "landlock", "drop", "setgid", "setuid", "exec",
                 "failed", "running"}
    /\ ruleset \in {"none", "partial", "full"} /\ nnp \in BOOLEAN
    /\ uid \in Int /\ gid \in Int

\* One of the two variables holds an id that is not 0 but becomes 0 in the
\* system call: a multiple of 2^32.
Wraps == \E v \in {conf.uidEnv, conf.gidEnv} \cap Int : v # 0 /\ AsId(v) = 0

\* In mode required the command runs only under Landlock, in full if the
\* policy itself requires it, and, if a drop was asked for, as a user and
\* with a primary group that are not root's, unless a configured id wraps to
\* 0.  In no mode does a drop that fails half way leave an ordinary user in
\* root's primary group (with the same exception), or the command without
\* no_new_privs under a Landlock rule.  The supplementary groups are not
\* spoken of: a drop leaves the process those of root.
RunsHardened == boot = "running" =>
    /\ Mode = "required" => ruleset # "none"
    /\ Mode = "required" /\ PolicyMode = "required" => ruleset = "full"
    /\ Mode = "required" /\ WantsDrop => nnp /\ (~Wraps => uid # 0 /\ gid # 0)
    /\ uid # 0 /\ conf.root /\ ~Wraps => gid # 0
    /\ ruleset # "none" => nnp
=============================================================================
