--------------------------- MODULE MCCoAPReentry ---------------------------
(***************************************************************************)
(* Small instances of CoAPReentry for TLC.                                 *)
(***************************************************************************)
EXTENDS CoAPReentry, TLC

SymNodes == Permutations(Nodes)
=============================================================================
