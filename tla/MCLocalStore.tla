---------------------------- MODULE MCLocalStore ----------------------------
(***************************************************************************)
(* TLC instance of ProviderStore: two credentials of one provider, two     *)
(* values.                                                                 *)
(***************************************************************************)
EXTENDS ProviderStore

CONSTANTS ghId, ghToken, v1, v2

MCKeys     == {ghId, ghToken}
MCValues   == {v1, v2}
MCPrefixes == {{ghId, ghToken}}

\* Two credentials; and a key that is given twice.
MCBatches  == {{<<ghId, v1>>, <<ghToken, v2>>}, {<<ghId, v1>>, <<ghId, v2>>}}
=============================================================================
