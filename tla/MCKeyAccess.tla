---------------------------- MODULE MCKeyAccess ----------------------------
(* One key of one tenant, two control-plane requests and one gateway       *)
(* request at a time.                                                      *)
EXTENDS KeyAccess, TLC

CONSTANTS k1, ta, h1, h2, g1

OneKey == k1 :> ta
=============================================================================
