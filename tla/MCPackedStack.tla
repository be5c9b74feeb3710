---------------------------- MODULE MCPackedStack ----------------------------
(***************************************************************************)
(* Instances of AzoPackedStack for TLC: the box, which takes one cell, and *)
(* two value types of two cells, one of them not a whole number of cells   *)
(* long; a data block that starts so small that both growth rules of       *)
(* stack_ensure_size happen.                                               *)
(***************************************************************************)
EXTENDS AzoPackedStack, TLC

CONSTANTS box, wide, odd

MCImpls == {box, wide, odd}
MCBytes == box :> 8 @@ wide :> 32 @@ odd :> 24
=============================================================================
