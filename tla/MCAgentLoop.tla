---------------------------- MODULE MCAgentLoop ----------------------------
(***************************************************************************)
(* TLC instance of AgentLoop: two jobs, a buffer of three units, writes of *)
(* one or two, so that a buffer is filled exactly and also overrun.        *)
(***************************************************************************)
EXTENDS AgentLoop

CONSTANTS j1, j2

MCJobs   == {j1, j2}
MCChunks == {1, 2}
=============================================================================
