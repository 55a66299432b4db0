----------------------------- MODULE MCServerPool -----------------------------
(***************************************************************************)
(* Two backends in one region, with the weights 2 and 1, and a region that *)
(* has none.                                                               *)
(***************************************************************************)
EXTENDS ServerPool, TLC

CONSTANTS b1, b2, east

MCPool   == <<b1, b2>>
MCWeight == b1 :> 2 @@ b2 :> 1
MCRegion == b1 :> east @@ b2 :> east

Symmetry == Permutations(Handlers)

=============================================================================
