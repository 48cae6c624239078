---------------------------- MODULE MCPkceLogin ----------------------------
(***************************************************************************)
(* TLC instance of PkceLogin: two attempts, three callbacks (the third is  *)
(* the first that can find the channel full after the login is over).      *)
(***************************************************************************)
EXTENDS PkceLogin

CONSTANTS first, second, c1, c2, c3

MCAttempts  == {first, second}
MCCallbacks == {c1, c2, c3}
=============================================================================
