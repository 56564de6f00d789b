--------------------------- MODULE MCCommandQueue ---------------------------
(***************************************************************************)
(* Small instances of CommandQueue for TLC.                                *)
(***************************************************************************)
EXTENDS CommandQueue, TLC

CONSTANTS c1, c2, c3, c4

Sizes == c1 :> 1 @@ c2 :> 2 @@ c3 :> 0 @@ c4 :> 1

SizesOfTwo == c1 :> 1 @@ c2 :> 2
=============================================================================
