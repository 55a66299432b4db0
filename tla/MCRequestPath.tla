---------------------------- MODULE MCRequestPath -----------------------------
(***************************************************************************)
(* Two interchangeable backends of one region, and handlers.               *)
(***************************************************************************)
EXTENDS RequestPath, TLC

CONSTANT east

MCRegion == [b \in Backends |-> east]

Symmetry == Permutations(Handlers) \cup Permutations(Backends)

=============================================================================
