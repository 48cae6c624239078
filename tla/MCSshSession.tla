---------------------------- MODULE MCSshSession ----------------------------
(***************************************************************************)
(* TLC instance of SshSession: three requests are enough for a pty-req, a  *)
(* shell or exec and a signal (or two starts), one unit per stream for     *)
(* output in the pipe, in the copier's hands or waiting for window when    *)
(* the channel closes.                                                     *)
(***************************************************************************)
EXTENDS SshSession

MCHabits == {"ignoreHup", "daemon"}
=============================================================================
