----------------------------- MODULE MCHotplug -----------------------------
(* Instances of Hotplug for TLC.  Outputs are interchangeable.             *)
EXTENDS Hotplug, TLC
Symmetry == Permutations(Output)
============================================================================
