---------------------------- MODULE Supervisor ----------------------------
(***************************************************************************)
(* The agent supervisor of the staged runtime (supervisor.sh under         *)
(* agentconfig/runtime, with the adapters harnesses/*/exec.sh): it runs    *)
(* one harness cycle after another, each in a function of the shell, and   *)
(* reads the result from the last line of the harness's output.  What      *)
(* "set -e" does is part of the model: a function that returns something   *)
(* else than 0 while it is in force ends the shell.                        *)
(***************************************************************************)
EXTENDS Naturals

CONSTANTS
    Shipped,    \* the harness is one of those in the repository
    MaxCycles   \* bound: cycles

VARIABLES
    mode,       \* WHALESHELL_AGENT_RUN_MODE: "once", "watch", "other"
    at,         \* "begin", "cycle", "harness", "read", "return", "loop",
                \*   "exited"
    errexit,    \* "set -e" is in force
    st,         \* exit status of the harness
    result,     \* the status in its last line, "none" without such a line
    ret,        \* what run_cycle returns
    cycle,
    code        \* exit status of the supervisor

supervisorVars == <<mode, at, errexit, st, result, ret, cycle, code>>

Finished == {"complete", "terminal_failure"}
Later    == {"waiting", "blocked", "transient_failure"}
Results  == Finished \cup Later \cup {"none", "unknown"}

\* An adapter of the repository reports "complete" whatever its agent did,
\* or fails before that: no HOME, no agent.
Outcomes ==
    IF Shipped THEN {<<"none", 1>>} \cup {<<"complete", s>> : s \in {0, 1, 10}}
    ELSE Results \X {0, 1, 10}

SupervisorInit ==
    /\ mode \in {"once", "watch", "other"}
    /\ at = "begin" /\ errexit = TRUE
    /\ st = 0 /\ result = "none" /\ ret = 0 /\ cycle = 1 /\ code = 0

Exits(c) == at' = "exited" /\ code' = c

-----------------------------------------------------------------------------
Begin ==
    /\ at = "begin" /\ mode \in {"once", "watch"}
    /\ at' = "cycle"
    /\ UNCHANGED <<mode, errexit, st, result, ret, cycle, code>>

\* There is no prompt, no adapter, or no such mode.
BeginFails ==
    /\ at = "begin"
    /\ Exits(IF mode = "other" THEN 2 ELSE 1)
    /\ UNCHANGED <<mode, errexit, st, result, ret, cycle>>

\* The loop calls run_cycle with "set +e", as run_cycle calls the harness.
CallCycle ==
    /\ at = "cycle"
    /\ at' = "harness" /\ errexit' = FALSE
    /\ UNCHANGED <<mode, st, result, ret, cycle, code>>

\* "set -e" is set again as soon as the harness is through.
RunHarness ==
    /\ at = "harness"
    /\ at' = "read" /\ errexit' = TRUE
    /\ \E o \in Outcomes : result' = o[1] /\ st' = o[2]
    /\ UNCHANGED <<mode, ret, cycle, code>>

ReadResult ==
    /\ at = "read" /\ result \notin Later
    /\ at' = "return" /\ ret' = IF result \in Finished THEN 0 ELSE st
    /\ UNCHANGED <<mode, errexit, st, result, cycle, code>>

\* Sleeps as long as the result says, or the poll interval.
SleepInCycle ==
    /\ at = "read" /\ result \in Later
    /\ at' = "return" /\ ret' = 10
    /\ UNCHANGED <<mode, errexit, st, result, cycle, code>>

Return ==
    /\ at = "return" /\ (errexit => ret = 0)
    /\ at' = "loop" /\ errexit' = TRUE
    /\ UNCHANGED <<mode, st, result, ret, cycle, code>>

\* The call of run_cycle is a command that failed.
ReturnExits ==
    /\ at = "return" /\ errexit /\ ret # 0
    /\ Exits(ret)
    /\ UNCHANGED <<mode, errexit, st, result, ret, cycle>>

LoopExits ==
    /\ at = "loop" /\ (mode = "once" \/ ret = 0)
    /\ Exits(ret)
    /\ UNCHANGED <<mode, errexit, st, result, ret, cycle>>

\* With a sleep before it, unless the cycle has slept (or the harness's own
\* status is 10).
NextCycle ==
    /\ at = "loop" /\ mode = "watch" /\ ret # 0 /\ cycle < MaxCycles
    /\ at' = "cycle" /\ cycle' = cycle + 1
    /\ UNCHANGED <<mode, errexit, st, result, ret, code>>

SupervisorNext ==
    \/ Begin \/ BeginFails \/ CallCycle \/ RunHarness \/ ReadResult \/ SleepInCycle
    \/ Return \/ ReturnExits \/ LoopExits \/ NextCycle

SupervisorSpec == SupervisorInit /\ [][SupervisorNext]_supervisorVars

-----------------------------------------------------------------------------
\* In watch mode the supervisor, once started, ends only with a harness that
\* is done: after any other cycle it sleeps and runs the next one (the
\* message "harness exit ...; retrying in" of supervisor.sh).
WatchRetries == mode = "watch" /\ at = "exited" => ret = 0
=============================================================================
