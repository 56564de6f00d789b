---------------------------- MODULE MCCoAPClient ----------------------------
(***************************************************************************)
(* Small instances of CoAPClient for TLC.                                  *)
(***************************************************************************)
EXTENDS CoAPClient, TLC

SymRequests == Permutations(Requests)
=============================================================================
