----------------------------- MODULE MCWindows -----------------------------
(* Constants and bounds of the runs of module Windows.                     *)
EXTENDS Windows, TLC

Twins == Permutations(Client) \cup Permutations(Container) \cup Permutations(Screen)

(* Bound: while two toplevels are mapped, how many bits the states of all  *)
(* containers have, with the delayed calls that are pending.               *)
CONSTANT MaxLoad

Load == Cardinality({ <<c, b>> \in Container \X Bits : b \in win[c].bits })
        + Cardinality(idle)

(* Past a flaw a list or a tree is broken, and nothing is followed.        *)
Bounded ==
  /\ \A c \in Container : win[c].flaw = "none"
  /\ Cardinality(Mapped) > 1 => Load <= MaxLoad
============================================================================
