------------------------------- MODULE MCBsp -------------------------------
(* Module Bsp on three or four containers.  Containers and internal nodes  *)
(* are interchangeable: no definition tells one from another.              *)
EXTENDS Bsp, TLC

Symmetry == Permutations(Container) \cup Permutations(Internal)
============================================================================
