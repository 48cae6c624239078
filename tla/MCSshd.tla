------------------------------ MODULE MCSshd ------------------------------
(***************************************************************************)
(* TLC instance of Sshd: two processes that share the path, and a client.  *)
(***************************************************************************)
EXTENDS Sshd

CONSTANTS p1, p2

MCProcesses == {p1, p2}
=============================================================================
