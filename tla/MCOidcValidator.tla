-------------------------- MODULE MCOidcValidator --------------------------
(***************************************************************************)
(* TLC instance of OidcValidator: three signing keys, two concurrent calls.  *)
(***************************************************************************)
EXTENDS OidcValidator, TLC

CONSTANTS k1, k2, k3, a, b

MCKids    == {k1, k2, k3}
MCCallers == {a, b}
Symmetric == Permutations(MCKids) \cup Permutations(MCCallers)
=============================================================================
