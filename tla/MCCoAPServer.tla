---------------------------- MODULE MCCoAPServer ----------------------------
(***************************************************************************)
(* Small instances of CoAPServer for TLC.                                  *)
(***************************************************************************)
EXTENDS CoAPServer, TLC

SymIds == Permutations(RemoteId)
=============================================================================
