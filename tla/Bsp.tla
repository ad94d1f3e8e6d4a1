-------------------------------- MODULE Bsp --------------------------------
(***************************************************************************)
(* The bsp layout of the tag in view: src/layout/bsp.c driven by its       *)
(* callers, with the geometry that bsp_update_node writes into the nodes.  *)
(* The pointer surgery is in module BspTree.                               *)
(*                                                                         *)
(* The callers are represented by mode: a container is "tiled", or it is   *)
(* "hidden" from the tiling (floating, minimized, maximized or fullscreen: *)
(* cwc_container_is_currently_tiled is false).  A caller disables the leaf *)
(* of a container that stops being tiled and enables it when it is tiled   *)
(* again.  The mode of a container without a leaf is not tracked, and      *)
(* neither is the box of a hidden leaf, of which nothing but the direction *)
(* of a later split depends.                                               *)
(***************************************************************************)
EXTENDS BspTree, Integers, Sequences

CONSTANTS
  Width, Height,  \* usable_area of the output; its origin is <<0, 0>>
  Factors,        \* values of left_wfact the user may set, in sixteenths
  FirstModes      \* states in which the first container of a tag arrives

Modes == {"tiled", "hidden"}

ASSUME BspAssumption ==
  /\ Width \in Nat /\ Height \in Nat
  /\ Factors \subseteq 1 .. 15
  /\ FirstModes \subseteq Modes

VARIABLES
  tree,       \* the nodes
  root,       \* bsp_root_entry.root
  last,       \* bsp_root_entry.last_focused
  geo,        \* split_type, left_wfact and the box of every node
  mode,       \* what the state of a container allows
  scheduled,  \* the tag is in the list of the pending transaction
  neglected   \* history: a close left boxes that nothing has placed since

vars == <<tree, root, last, geo, mode, scheduled, neglected>>

Box(x, y, w, h) == [x |-> x, y |-> y, w |-> w, h |-> h]
NoBox      == Box(0, 0, 0, 0)
UsableArea == Box(0, 0, Width, Height)
Even       == 8  \* the left_wfact of a new internal node, 0.5

----------------------------------------------------------------------------
(* bsp_update_node                                                         *)

(* The shares of the left and the right child of i in its box b.           *)
LeftShare(g, b, i) ==
  IF g.split[i] = "H"
    THEN [b EXCEPT !.w = (b.w * g.wfact[i]) \div 16]
    ELSE [b EXCEPT !.h = (b.h * g.wfact[i]) \div 16]

(* A variant that leaves the right child where its parent begins.          *)
RightShareFromOrigin(g, b, i) ==
  IF g.split[i] = "H"
    THEN [b EXCEPT !.w = b.w - LeftShare(g, b, i).w]
    ELSE [b EXCEPT !.h = b.h - LeftShare(g, b, i).h]

RightShare(g, b, i) ==
  LET l == LeftShare(g, b, i)
  IN  IF g.split[i] = "H"
        THEN Box(b.x + l.w, b.y, b.w - l.w, b.h)
        ELSE Box(b.x, b.y + l.h, b.w, b.h - l.h)

(* A disabled child leaves its share to its sibling.                       *)
Share(t, g, b, i, child) ==
  IF Sibling(t, child) \notin t.enabled THEN b
  ELSE IF child = t.left[i] THEN LeftShare(g, b, i)
  ELSE RightShare(g, b, i)

(* The boxes after bsp_update_node(top) on the boxes of g.  The children   *)
(* of a visited node are placed, and visited in turn when enabled.         *)
UpdateNode(t, g, top) ==
  LET down   == { <<t.parent[n], n>> : n \in { m \in HasParent(t) :
                    t.parent[m] = top \/ t.parent[m] \in t.enabled } }
      placed == Visited(t, top, down) \ {top}
      new[n \in Node] ==
        IF n \in placed
          THEN Share(t, g, new[t.parent[n]], t.parent[n], n)
          ELSE g.box[n]
  IN  [g EXCEPT !.box = new]

(* bsp_update_root                                                         *)
UpdateRoot(t, g, r) ==
  LET whole == IF r = NULL THEN g ELSE [g EXCEPT !.box[r] = UsableArea]
  IN  IF r \in Internal THEN UpdateNode(t, whole, r) ELSE whole

(* The box of a leaf that m hides is forgotten.                            *)
Tracked(g, m) ==
  LET hidden == { c \in Container : m[c] = "hidden" }
  IN  [g EXCEPT !.box = [n \in Node |-> IF n \in hidden THEN NoBox ELSE @[n]]]

----------------------------------------------------------------------------

Init ==
  /\ tree = EmptyForest
  /\ root = NULL
  /\ last = NULL
  /\ geo = [ split |-> [i \in Internal |-> NULL],
             wfact |-> [i \in Internal |-> 0],
             box   |-> [n \in Node |-> NoBox] ]
  /\ mode = [c \in Container |-> "tiled"]
  /\ scheduled = FALSE
  /\ neglected = FALSE

(* bsp_node_enable on tree t: place everything below the root r, or ask    *)
(* for an arrangement when the root is a leaf.                             *)
EnableLeaf(t, g, r, c, asks) ==
  LET t2 == Enable(t, c)
  IN  /\ tree' = t2
      /\ geo' = Tracked(IF r \in Internal THEN UpdateNode(t2, g, r) ELSE g, mode')
      /\ scheduled' = (scheduled \/ asks \/ r \in Container)

(* bsp_node_disable: the sibling of the topmost node it cleared gets that  *)
(* node's room at once, unless that node is the leaf itself.               *)
DisableLeaf(t, g, r, c, asks) ==
  LET cleared == Visited(t, c, StepsUpIfIdle(t))
      topmost == CHOOSE n \in cleared : t.parent[n] \notin cleared
      above   == t.parent[topmost]
      t2      == Disable(t, c)
  IN  /\ tree' = t2
      /\ geo' = Tracked(IF topmost \in Internal /\ above # NULL
                           THEN UpdateNode(t2, g, above) ELSE g, mode')
      /\ scheduled' = (scheduled \/ asks \/ topmost \in Container)

(* The first container of the tag: bsp_insert_container without an entry.  *)
(* Whatever the container's state, its leaf is enabled.  asks: the caller  *)
(* schedules the tag as well, as cwc_container_move_to_tag does; mapping a *)
(* toplevel does not, unless it became hidden while it was being mapped.   *)
InsertFirst(c, m, asks) ==
  /\ m = "tiled" \/ asks
  /\ root = NULL
  /\ c \notin tree.live
  /\ mode' = [mode EXCEPT ![c] = m]
  /\ tree' = InsertRoot(tree, c)
  /\ root' = c
  /\ last' = c
  /\ geo' = Tracked([geo EXCEPT !.box[c] = UsableArea], mode')
  /\ scheduled' = (scheduled \/ asks)
  /\ UNCHANGED neglected

LongerSide(b) == IF b.w >= b.h THEN "H" ELSE "V"

(* _bsp_insert_container of c beside the leaf sib.  The new internal node  *)
(* p starts with its sibling's geometry, whose longer side is split; it    *)
(* gets the whole area when the sibling is the root.                       *)
InsertBeside(c, sib, pos, m, asks) ==
  /\ root # NULL
  /\ c \notin tree.live
  /\ mode' = [mode EXCEPT ![c] = m]
  /\ \E p \in Internal \ tree.live, s \in {"H", "V"} :
       LET t == SplitLeaf(tree, sib, c, p, pos)
           r == IF root = sib THEN p ELSE root
           g == [geo EXCEPT
                   !.split[p] = s,
                   !.wfact[p] = Even,
                   !.box[p]   = IF root = sib THEN UsableArea ELSE geo.box[sib]]
       IN  /\ mode[sib] = "tiled" => s = LongerSide(geo.box[sib])
           /\ root' = r
           /\ IF m = "tiled" THEN EnableLeaf(t, g, r, c, asks)
                             ELSE DisableLeaf(t, g, r, c, asks)
  /\ last' = c
  /\ UNCHANGED neglected

(* bsp_insert_container: a toplevel is mapped, comes from another tag or   *)
(* output, or gets its first leaf when it stops floating.                  *)
Insert(c, m, asks) ==
  /\ m = "tiled" \/ asks
  /\ InsertBeside(c, last, RIGHT, m, asks)

(* end_interactive_move_bsp over the container sib, which is made the      *)
(* container focused last just before.                                     *)
Drop(c, sib, pos) ==
  /\ sib \in tree.live
  /\ InsertBeside(c, sib, pos, "tiled", FALSE)

(* What a removed container leaves behind in mode.                         *)
Forget(c) == mode' = [mode EXCEPT ![c] = "tiled"]

(* bsp_remove_container of the only container of the tag.  A caller that   *)
(* moves it to another tag or output schedules this one.                   *)
RemoveLast(c, asks) ==
  /\ root = c
  /\ tree' = RemoveRoot(tree, c)
  /\ root' = NULL
  /\ last' = NULL
  /\ Forget(c)
  /\ geo' = [geo EXCEPT !.box[c] = NoBox]
  /\ scheduled' = (scheduled \/ asks)
  /\ neglected' = FALSE

(* A variant that leaves the boxes as they are.                            *)
UpdateNowhere(t, g, n) == g

(* The grandparent of a removed leaf is updated, when there is one.        *)
UpdateBelow(t, g, n) == IF n = NULL THEN g ELSE UpdateNode(t, g, n)

(* Closing a hidden container places nothing.  That leaves a gap when its  *)
(* leaf was enabled after all (FirstModes), or when its sibling, which     *)
(* takes the place of their parent, is disabled: no longer counted where   *)
(* the parent still was, or the root with the box it once had.             *)
LeavesGap(c) ==
  \/ c \in tree.enabled
  \/ /\ Sibling(tree, c) \notin tree.enabled
     /\ tree.parent[c] \in tree.enabled \cup {root}

(* bsp_remove_container of another container.  What follows depends on the *)
(* caller: an interactive move ("grab") leaves it to bsp_remove_container  *)
(* to update the grandparent or to schedule the tag; a move to a tag or an *)
(* output schedules the tag in any case; closing the container runs        *)
(* bsp_update_root at once, but only if the container was tiled.           *)
Remove(c, caller) ==
  /\ c \in tree.live /\ root # c
  /\ Forget(c)
  /\ LET p  == tree.parent[c]
         gp == tree.parent[p]
         t  == SpliceOut(tree, c)
         r  == IF root = p THEN Sibling(tree, c) ELSE root
         g  == [geo EXCEPT !.split[p] = NULL, !.wfact[p] = 0,
                           !.box[p] = NoBox, !.box[c] = NoBox]
         Then(boxes, asks) == /\ geo' = Tracked(boxes, mode')
                              /\ scheduled' = (scheduled \/ asks)
     IN  /\ tree' = t
         /\ root' = r
         /\ last' = IF last = c THEN ClosestLeaf(tree, c) ELSE last
         /\ \/ /\ caller = "grab" /\ mode[c] = "tiled"
               /\ Then(UpdateBelow(t, g, gp), gp = NULL)
            \/ caller = "to_tag" /\ Then(UpdateBelow(t, g, gp), TRUE)
            \/ caller = "to_output" /\ Then(g, TRUE)
            \/ /\ caller = "close"
               /\ Then(IF mode[c] = "tiled" THEN UpdateRoot(t, g, r) ELSE g, FALSE)
  /\ neglected' = IF caller # "close" THEN neglected
                  ELSE mode[c] = "hidden" /\ (neglected \/ LeavesGap(c))

(* The container leaves or re-enters the tiling while it keeps its leaf:   *)
(* cwc_container_set_floating, _fullscreen, _maximized, _minimized, which  *)
(* all end by scheduling the tag in view.                                  *)
Untile(c) ==
  /\ c \in tree.live /\ mode[c] = "tiled"
  /\ mode' = [mode EXCEPT ![c] = "hidden"]
  /\ DisableLeaf(tree, geo, root, c, TRUE)
  /\ UNCHANGED <<root, last, neglected>>

Retile(c) ==
  /\ c \in tree.live /\ mode[c] = "hidden"
  /\ Forget(c)
  /\ EnableLeaf(tree, geo, root, c, TRUE)
  /\ UNCHANGED <<root, last, neglected>>

(* bsp_toggle_split of a client's leaf                                     *)
ToggleSplit(c) ==
  /\ c \in tree.live /\ tree.parent[c] # NULL
  /\ LET p == tree.parent[c]
         g == [geo EXCEPT !.split[p] = IF @ = "H" THEN "V" ELSE "H"]
     IN  geo' = Tracked(UpdateNode(tree, g, p), mode)
  /\ UNCHANGED <<tree, root, last, mode, scheduled, neglected>>

(* A variant that asks for no arrangement.                                 *)
SetFactorSilently(c, f) ==
  /\ c \in tree.live /\ tree.parent[c] # NULL
  /\ geo' = [geo EXCEPT !.wfact[tree.parent[c]] = f]
  /\ UNCHANGED <<tree, root, last, mode, scheduled, neglected>>

(* luaC_client_set_bspfact                                                 *)
SetFactor(c, f) ==
  /\ c \in tree.live /\ tree.parent[c] # NULL
  /\ geo' = [geo EXCEPT !.wfact[tree.parent[c]] = f]
  /\ scheduled' = TRUE
  /\ UNCHANGED <<tree, root, last, mode, neglected>>

(* bsp_last_focused_update, when the keyboard focus enters the container   *)
Focus(c) ==
  /\ c \in tree.live
  /\ last' = c
  /\ UNCHANGED <<tree, root, geo, mode, scheduled, neglected>>

(* The pending transaction reaches the tag.                                *)
Arrange ==
  /\ scheduled
  /\ scheduled' = FALSE
  /\ neglected' = FALSE
  /\ geo' = Tracked(UpdateRoot(tree, geo, root), mode)
  /\ UNCHANGED <<tree, root, last, mode>>

Next ==
  \/ \E c \in Container, m \in FirstModes, asks \in BOOLEAN :
       InsertFirst(c, m, asks)
  \/ \E c \in Container, m \in Modes, asks \in BOOLEAN : Insert(c, m, asks)
  \/ \E c, sib \in Container, pos \in {LEFT, RIGHT} : Drop(c, sib, pos)
  \/ \E c \in Container, asks \in BOOLEAN : RemoveLast(c, asks)
  \/ \E c \in Container, caller \in {"grab", "to_tag", "to_output", "close"} :
       Remove(c, caller)
  \/ \E c \in Container : Untile(c)
  \/ \E c \in Container : Retile(c)
  \/ \E c \in Container : ToggleSplit(c)
  \/ \E c \in Container, f \in Factors : SetFactor(c, f)
  \/ \E c \in Container : Focus(c)
  \/ Arrange

Spec == Init /\ [][Next]_vars

----------------------------------------------------------------------------
(* Properties.                                                             *)

Leaves(t) == Container \cap t.live

(* The leaves below n from left to right.                                  *)
LeavesBelow(t) ==
  LET row[n \in Node] == IF n \in Container THEN <<n>>
                         ELSE row[t.left[n]] \o row[t.right[n]]
  IN  row

ReadingOrder(t, r) == IF r = NULL THEN <<>> ELSE LeavesBelow(t)[r]

Tiles == { c \in Leaves(tree) : mode[c] = "tiled" }

Disjoint(b1, b2) ==
  \/ b1.x + b1.w <= b2.x \/ b2.x + b2.w <= b1.x
  \/ b1.y + b1.h <= b2.y \/ b2.y + b2.h <= b1.y

(* The variables have their types.                                         *)
TypeOK ==
  /\ tree \in Forest
  /\ root \in Node \cup {NULL}
  /\ last \in Container \cup {NULL}
  /\ mode \in [Container -> Modes]
  /\ {scheduled, neglected} \subseteq BOOLEAN
  /\ geo.split \in [Internal -> {"H", "V", NULL}]
  /\ geo.wfact \in [Internal -> 0 .. 15]
  /\ DOMAIN geo.box = Node

(* The nodes of the tag form one binary tree whose root the entry names,   *)
(* and a tag that has a tree has a focused leaf in it, beside which the    *)
(* next container can be inserted without following a stale pointer.       *)
OneTree ==
  /\ Linked(tree)
  /\ Acyclic(tree)
  /\ \A n \in tree.live : tree.parent[n] = NULL <=> n = root
  /\ root = NULL <=> tree.live = {}
  /\ root # NULL => root \in tree.live /\ last \in Leaves(tree)

(* A tiled container is never lost from view by what happens to others:    *)
(* its leaf and every node above it are enabled, so bsp_update_node gets   *)
(* to it; and a hidden leaf is disabled, so that it takes no room.         *)
TiledIsReached ==
  /\ EnabledUpward(tree)
  /\ Leaves(tree) \cap tree.enabled = Tiles

(* The boxes that the single updates of insertions, removals and hidden    *)
(* leaves leave behind are those of an arrangement from scratch, unless    *)
(* one is pending: no operation forgets to place what it disturbed, but    *)
(* for the close of a hidden container that leaves a gap.                  *)
GeometryIsCurrent ==
  LET fresh == UpdateRoot(tree, geo, root)
  IN  scheduled \/ neglected \/ \A c \in Tiles : geo.box[c] = fresh.box[c]

(* Tiled containers lie in the usable area and do not overlap, except      *)
(* while an arrangement is pending.                                        *)
TilesDoNotOverlap ==
  ~ scheduled => \A c \in Tiles :
    LET b == geo.box[c]
    IN  /\ b.x >= 0 /\ b.x + b.w <= Width
        /\ b.y >= 0 /\ b.y + b.h <= Height
        /\ \A d \in Tiles \ {c} : Disjoint(b, geo.box[d])

(* Surgery on the tree keeps the reading order of the containers that stay *)
(* in it.                                                                  *)
OrderIsKept ==
  [][ LET Stays(c) == c \in tree.live \cap tree'.live
      IN  SelectSeq(ReadingOrder(tree, root), Stays)
            = SelectSeq(ReadingOrder(tree', root'), Stays) ]_tree

(* When the container focused last is removed, its successor is next to it *)
(* in the reading order: the next window opens where the last one was.     *)
FocusMovesToNeighbour ==
  [][ last # NULL /\ last \notin tree'.live /\ last' # NULL =>
        LET order == ReadingOrder(tree, root)
        IN  \E i \in 1 .. Len(order) - 1 :
              {order[i], order[i + 1]} = {last, last'} ]_<<tree, last>>

(* What the comment on _bsp_node_disable says: a node with no enabled      *)
(* child is disabled, so that its sibling gets its room.                   *)
NoHollowNode ==
  \A i \in Internal \cap tree.enabled :
    i # root => Children(tree, i) \cap tree.enabled # {}
============================================================================
