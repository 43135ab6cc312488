------------------------- MODULE MCMetatilePipeline -------------------------
(* A small instance of MetatilePipeline for TLC. *)
EXTENDS MetatilePipeline, TLC

Symmetry == Permutations(MetaTiles) \cup Permutations(SubTiles)
=============================================================================
