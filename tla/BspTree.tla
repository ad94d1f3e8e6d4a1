------------------------------ MODULE BspTree ------------------------------
(***************************************************************************)
(* The pointer structure of src/layout/bsp.c: binary trees of bsp_node,    *)
(* and the surgery that inserting and removing a container performs on     *)
(* them.  One value t of Forest holds every node of every tag.             *)
(*                                                                         *)
(* A container owns at most one leaf, so the leaf of container c is named  *)
(* c itself: container->bsp_node # NULL is c \in t.live.  Internal nodes   *)
(* are drawn from a pool of names, as calloc and free draw them.           *)
(***************************************************************************)

CONSTANTS
  Container,  \* the containers; also the names of their leaves
  Internal,   \* the names available to internal nodes
  NULL

ASSUME BspTreeAssumption ==
  /\ Container \cap Internal = {}
  /\ NULL \notin Container \cup Internal

Node == Container \cup Internal

LEFT  == "left"
RIGHT == "right"

(* live: allocated nodes; enabled: those with bsp_node.enabled set.        *)
Forest ==
  [ live    : SUBSET Node,
    enabled : SUBSET Node,
    parent  : [Node -> Internal \cup {NULL}],
    left    : [Internal -> Node \cup {NULL}],
    right   : [Internal -> Node \cup {NULL}] ]

EmptyForest ==
  [ live    |-> {},
    enabled |-> {},
    parent  |-> [n \in Node |-> NULL],
    left    |-> [i \in Internal |-> NULL],
    right   |-> [i \in Internal |-> NULL] ]

Children(t, i) == {t.left[i], t.right[i]}

(* bsp_node_get_sibling, of a node with a parent.                          *)
Sibling(t, n) ==
  LET p == t.parent[n]
  IN  IF t.left[p] = n THEN t.right[p] ELSE t.left[p]

(* The least set of nodes that holds n and the second member of every pair *)
(* of steps whose first it holds: what a recursion that starts in n and    *)
(* makes these steps visits.                                               *)
Visited(t, n, steps) ==
  LET closed == { S \in SUBSET t.live :
                    n \in S /\ \A e \in steps : e[1] \in S => e[2] \in S }
  IN  { m \in t.live : \A S \in closed : m \in S }

----------------------------------------------------------------------------

(* n and its ancestors: the nodes _bsp_node_enable sets on its way up.     *)
HasParent(t) == { n \in t.live : t.parent[n] # NULL }

StepsUp(t) == { <<n, t.parent[n]>> : n \in HasParent(t) }

Upward(t, n) == Visited(t, n, StepsUp(t))

Enable(t, n) == [t EXCEPT !.enabled = @ \cup Upward(t, n)]

(* The steps of _bsp_node_disable: up from a node while the other child of *)
(* its parent is disabled as well.                                         *)
StepsUpIfIdle(t) ==
  { <<n, t.parent[n]>> : n \in { m \in HasParent(t) :
                                   Sibling(t, m) \notin t.enabled } }

(* A variant that climbs to the root whatever the siblings are.            *)
DisableClimbingTooFar(t, n) == [t EXCEPT !.enabled = @ \ Upward(t, n)]

(* _bsp_node_disable                                                       *)
Disable(t, n) == [t EXCEPT !.enabled = @ \ Visited(t, n, StepsUpIfIdle(t))]

----------------------------------------------------------------------------

(* The first leaf of a tag becomes the root; calloc'd nodes start enabled. *)
InsertRoot(t, new) ==
  [t EXCEPT !.live = @ \cup {new}, !.enabled = @ \cup {new}]

(* A variant of Replace that puts new on the side where old was not.       *)
ReplaceOnTheOtherSide(t, p, old, new) ==
  [t EXCEPT !.left[p]  = IF @ = old THEN t.right[p] ELSE new,
            !.right[p] = IF @ = old THEN t.left[p] ELSE new]

(* bsp_node_reparent of new under p in the place of old, when p is a node. *)
Replace(t, p, old, new) ==
  [t EXCEPT !.left[p]  = IF @ = old THEN new ELSE @,
            !.right[p] = IF @ = old THEN new ELSE @]

(* _bsp_insert_container before it enables or disables the new leaf: the   *)
(* internal node p takes the place of sib; new is put beside it, on side   *)
(* pos.                                                                    *)
SplitLeaf(t, sib, new, p, pos) ==
  LET gp == t.parent[sib]
      u  == Replace(t, gp, sib, p)
  IN  [ live    |-> t.live \cup {new, p},
        enabled |-> t.enabled \cup {new, p},
        parent  |-> [t.parent EXCEPT ![p] = gp, ![sib] = p, ![new] = p],
        left    |-> [u.left  EXCEPT ![p] = IF pos = RIGHT THEN sib ELSE new],
        right   |-> [u.right EXCEPT ![p] = IF pos = RIGHT THEN new ELSE sib] ]

(* bsp_remove_container of a leaf that is not the root: the sibling takes  *)
(* the place of the parent, which is freed together with the leaf.  No     *)
(* enabled flag of a surviving node is recomputed.                         *)
SpliceOut(t, c) ==
  LET p   == t.parent[c]
      sib == Sibling(t, c)
      u   == Replace(t, t.parent[p], p, sib)
  IN  [ live    |-> t.live \ {c, p},
        enabled |-> t.enabled \ {c, p},
        parent  |-> [t.parent EXCEPT ![sib] = t.parent[p],
                                     ![c] = NULL, ![p] = NULL],
        left    |-> [u.left  EXCEPT ![p] = NULL],
        right   |-> [u.right EXCEPT ![p] = NULL] ]

(* bsp_entry_fini of a tag whose only node is the leaf c.                  *)
RemoveRoot(t, c) ==
  [t EXCEPT !.live = @ \ {c}, !.enabled = @ \ {c}]

(* _bsp_node_leaf_get: the leaf of the sibling's subtree that is reached   *)
(* by going to the same side at every step.                                *)
LeafTowards(t, c, side) ==
  LET down == { <<i, side[i]>> : i \in Internal \cap t.live }
  IN  CHOOSE l \in Visited(t, Sibling(t, c), down) : l \in Container

(* Variants: away from c, c itself, and the sibling even if it is no leaf. *)
ClosestLeafWrongWay(t, c) ==
  LeafTowards(t, c, IF t.right[t.parent[c]] = c THEN t.left ELSE t.right)

ClosestLeafStale(t, c) == c

ClosestLeafShallow(t, c) == Sibling(t, c)

(* find_closes_leaf_sibling: the leaf of the sibling's subtree nearest to  *)
(* c, reached by going towards c at every step.                            *)
ClosestLeaf(t, c) ==
  LeafTowards(t, c, IF t.right[t.parent[c]] = c THEN t.right ELSE t.left)

----------------------------------------------------------------------------
(* What a forest is.                                                       *)

(* Parent and child pointers agree, and free nodes point nowhere.          *)
Linked(t) ==
  /\ \A n \in Node \ t.live : t.parent[n] = NULL
  /\ \A i \in Internal \ t.live : Children(t, i) = {NULL}
  /\ \A n \in t.live : t.parent[n] # NULL =>
       t.parent[n] \in t.live /\ n \in Children(t, t.parent[n])
  /\ \A i \in Internal \cap t.live :
       /\ t.left[i] # t.right[i]
       /\ \A n \in Children(t, i) : n \in t.live /\ t.parent[n] = i

(* Every non-empty set of nodes has a member with no child in the set, and *)
(* one with no parent in it: no path through the nodes, downwards or       *)
(* upwards, returns to where it was or goes on for ever.                   *)
Acyclic(t) ==
  \A S \in (SUBSET t.live) \ {{}} :
    /\ \E x \in S : \A y \in S : t.parent[y] # x
    /\ \E x \in S : t.parent[x] \notin S

(* An enabled node hangs under enabled nodes only.                         *)
EnabledUpward(t) ==
  \A n \in t.enabled : t.parent[n] # NULL => t.parent[n] \in t.enabled
============================================================================
