------------------------------- MODULE Hotplug -------------------------------
(***************************************************************************)
(* Outputs that are unplugged and come back, and the windows on them:      *)
(* src/desktop/output.c with the moves of src/layout/container.c.          *)
(*                                                                         *)
(* When an output goes, its containers are rescued to another one, or to   *)
(* the fallback output when it was the last; each keeps in old_prop where  *)
(* it was.  The state of the output (view, tags, bsp trees) is kept, and   *)
(* when an output of that name comes back its containers are moved back.   *)
(*                                                                         *)
(* win[c] is a struct cwc_container.  Of the bsp trees only the owner of a *)
(* leaf is kept, of the scheduler the outputs whose visible windows it     *)
(* will update; modules Bsp and Transaction have both in full.             *)
(***************************************************************************)
EXTENDS Integers

CONSTANTS
  Output,     \* the outputs, named by their connector
  Container,
  Index,      \* the indices of the tags of an output
  TagSets,    \* a bound on the sets of tags that are selected
  First,      \* the tag in view of a new output
  Layouts,    \* the layout modes in use
  Fallback,   \* server.fallback_output
  NONE

ASSUME HotplugAssumption ==
  /\ Fallback \notin Output /\ NONE \notin Output \cup {Fallback}
  /\ Index \subseteq Nat /\ First \in Index
  /\ TagSets \subseteq SUBSET Index
  /\ Layouts \subseteq {"floating", "master", "bsp"} /\ "floating" \in Layouts

Place == Output \cup {Fallback}
Tag   == Place \X Index

VARIABLES
  plug,     \* "never", "in", or "out" with the state kept for a return
  focused,  \* server.focused_output
  view,     \* active_workspace of every output
  seen,     \* active_tag: the tags whose windows are visible
  layout,   \* layout_mode of every tag
  win,      \* the containers
  pending   \* plugged outputs scheduled for cwc_output_update_visible

vars == <<plug, focused, view, seen, layout, win, pending>>

OldProp ==
  [ out : Output, ws : Index, tags : SUBSET Index, leaf : Tag \cup {NONE} ]

Windows ==
  [ at       : Place,              \* container->output
    ws       : Index,              \* workspace
    tags     : SUBSET Index,       \* tag
    floating : BOOLEAN,            \* CONTAINER_STATE_FLOATING
    leaf     : Tag \cup {NONE},    \* the tag in whose tree bsp_node stands
    old      : OldProp \cup {NONE},
    shown    : BOOLEAN ]           \* its scene node is enabled

ASSUME NoneIsNoStruct == NONE \notin OldProp /\ NONE \notin Windows

Open    == { c \in Container : win[c] # NONE }
Plugged == { o \in Output : plug[o] = "in" }

Init ==
  /\ plug = [o \in Output |-> "never"]
  /\ focused = Fallback
  /\ view = [p \in Place |-> First]
  /\ seen = [p \in Place |-> {First}]
  /\ layout = [t \in Tag |-> "floating"]
  /\ win = [c \in Container |-> NONE]
  /\ pending = {}

----------------------------------------------------------------------------
(* Operations on one container.                                            *)

IsFloating(w) == w.floating \/ layout[<<w.at, w.ws>>] = "floating"

Visible(w) == seen[w.at] \cap w.tags # {}

(* bsp_insert_container                                                    *)
Insert(w) == [w EXCEPT !.leaf = <<w.at, w.ws>>, !.floating = FALSE]

(* A variant that takes the leaf along.                                    *)
MoveToOutputWithLeaf(w, o) ==
  IF w.at = o THEN w
  ELSE [w EXCEPT !.at = o, !.ws = view[o], !.tags = seen[o]]

(* cwc_container_move_to_output.  A rescued container gets no leaf here.   *)
MoveToOutput(w, o) ==
  LET moved == [w EXCEPT !.at = o, !.ws = view[o], !.tags = seen[o],
                         !.leaf = NONE]
      tiled == ~IsFloating(w) /\ layout[<<o, view[o]>>] = "bsp" /\ w.old = NONE
  IN  IF w.at = o THEN w ELSE IF tiled THEN Insert(moved) ELSE moved

(* cwc_container_move_to_tag                                               *)
MoveToTag(w, i) ==
  LET moved  == [w EXCEPT !.ws = i, !.tags = {i}, !.leaf = NONE]
      placed == IF layout[<<w.at, i>>] = "bsp" /\ ~w.floating
                  THEN Insert(moved) ELSE moved
  IN  IF w.ws = i THEN w ELSE [placed EXCEPT !.shown = Visible(placed)]

(* The outputs that cwc_container_move_to_tag schedules.                   *)
AskedByMove(w, i) == IF w.ws = i THEN {} ELSE {w.at} \cap Output

(* A variant that takes every rescue for a departure from home.            *)
RememberLast(w) ==
  IF w.at = Fallback THEN w
  ELSE [w EXCEPT !.old = [out |-> w.at, ws |-> w.ws,
                          tags |-> w.tags, leaf |-> w.leaf],
                 !.leaf = NONE]

(* What a container that is rescued for the first time remembers.          *)
Remember(w) ==
  IF w.old # NONE \/ w.at = Fallback THEN w
  ELSE [w EXCEPT !.old = [out |-> w.at, ws |-> w.ws,
                          tags |-> w.tags, leaf |-> w.leaf],
                 !.leaf = NONE]

(* cwc_output_rescue_toplevel_container.  A container that was opened on   *)
(* the fallback output goes to the tag in view.                            *)
Rescue(w, target) ==
  LET moved == MoveToOutput(Remember(w), target)
  IN  IF Remember(w).old = NONE THEN moved
      ELSE MoveToTag(moved, moved.old.ws)

AskedByRescue(w, target) ==
  LET moved == MoveToOutput(Remember(w), target)
  IN  IF Remember(w).old = NONE THEN {}
      ELSE AskedByMove(moved, moved.old.ws)

(* A variant that leaves old_prop as it is.                                *)
RestoreKeepingOld(w, o) ==
  [MoveToOutput(w, o) EXCEPT !.leaf = w.old.leaf, !.tags = w.old.tags,
                             !.ws = w.old.ws]

(* The first loop of cwc_output_restore.  The scene node is not touched.   *)
Restore(w, o) ==
  [MoveToOutput(w, o) EXCEPT !.leaf = w.old.leaf, !.tags = w.old.tags,
                             !.ws = w.old.ws, !.old = NONE]

(* insert_tiled_toplevel_to_bsp_tree, for the tags of I that have the      *)
(* layout.                                                                 *)
InsertTiled(w, o, I, lay) ==
  IF /\ w.at = o /\ w.ws \in I /\ lay[<<o, w.ws>>] = "bsp"
     /\ ~w.floating /\ w.leaf = NONE
    THEN Insert(w) ELSE w

WinsAt(p) == { c \in Open : win[c].at = p }

WaitingFor(o) == { c \in Open : win[c].old # NONE /\ win[c].old.out = o }

(* A variant that leaves the guests of other outputs where they are.       *)
OnlyTheUnknown(o) == { c \in WinsAt(Fallback) : win[c].old = NONE }

(* What the fallback output still holds when o is restored.                *)
Adopted(o) == WinsAt(Fallback) \ WaitingFor(o)

----------------------------------------------------------------------------
(* Clients and Lua                                                         *)

(* A toplevel is mapped: cwc_container_init on the focused output, and     *)
(* _decide_should_tiled_part2.  With no tag in view it gets the first one. *)
OpenWindow(c, floating) ==
  LET tags == IF seen[focused] = {} THEN {First} ELSE seen[focused]
      new == [ at |-> focused, ws |-> view[focused], tags |-> tags,
               floating |-> floating, leaf |-> NONE, old |-> NONE,
               shown |-> TRUE ]
      tiled == ~floating /\ layout[<<new.at, new.ws>>] = "bsp"
  IN  /\ win[c] = NONE
      /\ win' = [win EXCEPT ![c] = IF tiled THEN Insert(new) ELSE new]
      /\ UNCHANGED <<plug, focused, view, seen, layout, pending>>

(* cwc_container_fini                                                      *)
CloseWindow(c) ==
  /\ win[c] # NONE
  /\ win' = [win EXCEPT ![c] = NONE]
  /\ UNCHANGED <<plug, focused, view, seen, layout, pending>>

(* client:move_to_screen, and a floating window that is moved across.      *)
MoveWindowToOutput(c, o) ==
  /\ win[c] # NONE /\ o \in Plugged
  /\ win' = [win EXCEPT ![c] = MoveToOutput(@, o)]
  /\ UNCHANGED <<plug, focused, view, seen, layout, pending>>

MoveWindowToTag(c, i) ==
  /\ win[c] # NONE
  /\ win' = [win EXCEPT ![c] = MoveToTag(@, i)]
  /\ pending' = pending \cup AskedByMove(win[c], i)
  /\ UNCHANGED <<plug, focused, view, seen, layout>>

(* cwc_container_set_tag                                                   *)
SetWindowTags(c, T) ==
  /\ win[c] # NONE /\ T # {}
  /\ win' = [win EXCEPT ![c].tags = T,
                        ![c].shown = seen[win[c].at] \cap T # {}]
  /\ pending' = pending \cup ({win[c].at} \cap Output)
  /\ UNCHANGED <<plug, focused, view, seen, layout>>

(* cwc_container_set_floating.  A container without a leaf gets one when   *)
(* the tag in view has the bsp layout, be it its own tag or not.           *)
SetFloating(c, set) ==
  /\ win[c] # NONE
  /\ LET w == win[c]
         tiled == [w EXCEPT !.floating = FALSE]
         bsp == layout[<<w.at, view[w.at]>>] = "bsp"
     IN  \/ set /\ win' = [win EXCEPT ![c].floating = TRUE]
         \/ /\ ~set /\ IsFloating(w)
            /\ win' = [win EXCEPT ![c] = IF w.leaf = NONE /\ bsp
                                           THEN Insert(tiled) ELSE tiled]
  /\ UNCHANGED <<plug, focused, view, seen, layout, pending>>

(* cwc_output_set_view_only                                                *)
SetViewOnly(o, i) ==
  /\ plug[o] # "never"
  /\ view[o] # i \/ seen[o] # {i}
  /\ view' = [view EXCEPT ![o] = i]
  /\ seen' = [seen EXCEPT ![o] = {i}]
  /\ pending' = pending \cup ({o} \cap Plugged)
  /\ UNCHANGED <<plug, focused, layout, win>>

(* A variant that counts from zero.                                        *)
FirstTagFromZero(T) == (CHOOSE i \in T : \A j \in T : i <= j) - 1

(* cwc_tag_find_first_tag                                                  *)
FirstTag(T) == CHOOSE i \in T : \A j \in T : i <= j

(* cwc_output_set_active_tag, for a tag at least                           *)
SetActiveTag(o, T) ==
  /\ plug[o] # "never"
  /\ T # seen[o] /\ T # {}
  /\ seen' = [seen EXCEPT ![o] = T]
  /\ view' = [view EXCEPT ![o] = IF @ \in T THEN @ ELSE FirstTag(T)]
  /\ pending' = pending \cup ({o} \cap Plugged)
  /\ UNCHANGED <<plug, focused, layout, win>>

(* luaC_tag_set_selected: the workspace stays although it is deselected,   *)
(* and nothing may be left in view.                                        *)
SetSelected(o, i, activate) ==
  /\ plug[o] # "never"
  /\ seen' = [seen EXCEPT ![o] = IF activate THEN @ \cup {i} ELSE @ \ {i}]
  /\ seen'[o] \in TagSets
  /\ pending' = pending \cup ({o} \cap Plugged)
  /\ UNCHANGED <<plug, focused, view, layout, win>>

(* cwc_output_set_layout_mode                                              *)
SetLayoutMode(o, i, l) ==
  /\ plug[o] # "never"
  /\ layout' = [layout EXCEPT ![<<o, i>>] = l]
  /\ win' = [c \in Container |->
               IF c \in Open THEN InsertTiled(win[c], o, {i}, layout') ELSE win[c]]
  /\ UNCHANGED <<plug, focused, view, seen, pending>>

(* The scheduler serves o: cwc_output_update_visible                       *)
UpdateVisible(o) ==
  /\ o \in pending
  /\ win' = [c \in Container |->
               IF c \in WinsAt(o) THEN [win[c] EXCEPT !.shown = Visible(win[c])]
                                 ELSE win[c]]
  /\ pending' = pending \ {o}
  /\ UNCHANGED <<plug, focused, view, seen, layout>>

----------------------------------------------------------------------------
(* Hotplug                                                                 *)

(* on_output_destroy: a is the output that cwc_output_get_other_available_ *)
(* output finds; its layout modes are all set again.                       *)
OutputDestroy(o, a) ==
  /\ o \in Plugged /\ a \in Plugged \ {o}
  /\ plug' = [plug EXCEPT ![o] = "out"]
  /\ focused' = a
  /\ win' = [c \in Container |->
               IF c \in WinsAt(o)
                 THEN InsertTiled(Rescue(win[c], a), a, Index, layout)
               ELSE IF c \in Open THEN InsertTiled(win[c], a, Index, layout)
               ELSE win[c]]
  /\ pending' = (pending \ {o}) \cup {a}
  /\ UNCHANGED <<view, seen, layout>>

(* on_output_destroy of the only output.                                   *)
LastOutputDestroy(o) ==
  /\ Plugged = {o}
  /\ plug' = [plug EXCEPT ![o] = "out"]
  /\ focused' = Fallback
  /\ win' = [c \in Container |->
               IF c \in WinsAt(o) THEN Rescue(win[c], Fallback) ELSE win[c]]
  /\ pending' = {}
  /\ UNCHANGED <<view, seen, layout>>

(* on_new_output: what belongs to o comes back, then the fallback output   *)
(* is emptied.  The struct cwc_output is new, and so is its flag.          *)
NewOutput(o) ==
  LET back    == WaitingFor(o)
      adopted == Adopted(o)
  IN  /\ plug[o] # "in"
      /\ plug' = [plug EXCEPT ![o] = "in"]
      /\ focused' = IF Plugged = {} THEN o ELSE focused
      /\ win' = [c \in Container |->
                   IF c \in back THEN Restore(win[c], o)
                   ELSE IF c \in adopted THEN Rescue(win[c], o) ELSE win[c]]
      /\ pending' = (pending \ {o}) \cup
                      UNION { AskedByRescue(win[c], o) : c \in adopted }
      /\ UNCHANGED <<view, seen, layout>>

----------------------------------------------------------------------------

Next ==
  \/ \E c \in Container, floating \in BOOLEAN : OpenWindow(c, floating)
  \/ \E c \in Container : CloseWindow(c)
  \/ \E c \in Container, o \in Output : MoveWindowToOutput(c, o)
  \/ \E c \in Container, i \in Index : MoveWindowToTag(c, i)
  \/ \E c \in Container, T \in TagSets : SetWindowTags(c, T)
  \/ \E c \in Container, set \in BOOLEAN : SetFloating(c, set)
  \/ \E o \in Output, i \in Index : SetViewOnly(o, i)
  \/ \E o \in Output, T \in TagSets : SetActiveTag(o, T)
  \/ \E o \in Output, i \in Index, activate \in BOOLEAN : SetSelected(o, i, activate)
  \/ \E o \in Output, i \in Index, l \in Layouts : SetLayoutMode(o, i, l)
  \/ \E o \in Output : UpdateVisible(o)
  \/ \E o, a \in Output : OutputDestroy(o, a)
  \/ \E o \in Output : LastOutputDestroy(o)
  \/ \E o \in Output : NewOutput(o)

Spec == Init /\ [][Next]_vars

----------------------------------------------------------------------------
(* Properties                                                              *)

(* The variables have their types.                                         *)
TypeOK ==
  /\ plug \in [Output -> {"never", "in", "out"}]
  /\ focused \in Place
  /\ view \in [Place -> Index]
  /\ seen \in [Place -> SUBSET Index]
  /\ layout \in [Tag -> Layouts]
  /\ win \in [Container -> Windows \cup {NONE}]
  /\ pending \subseteq Output

(* No window is left on an output that is gone, nor on the fallback output *)
(* once there is another, nor will the next one be opened there.           *)
NobodyIsStranded ==
  LET present == IF Plugged = {} THEN {Fallback} ELSE Plugged
  IN  focused \in present /\ \A c \in Open : win[c].at \in present

(* bsp_remove_container looks for the tree in the output and workspace of  *)
(* the container; the leaf is in that tree.  The leaf that a rescued       *)
(* container left behind is in the tree of the tag it will return to.      *)
LeavesAreFound ==
  \A c \in Open :
    LET w == win[c]
    IN  /\ w.leaf \in {NONE, <<w.at, w.ws>>}
        /\ w.old # NONE => w.old.leaf \in {NONE, <<w.old.out, w.old.ws>>}

(* A rescued container waits for an output that is gone: no output comes   *)
(* back without all that belongs to it.                                    *)
GuestsWait ==
  \A c \in Open : win[c].old # NONE => plug[win[c].old.out] = "out"

(* Where a window belongs, in the terms of module Homes.                   *)
PlaceOf == [c \in Container |-> IF win[c] = NONE THEN NONE ELSE win[c].at]
HomeOf  == [c \in Container |->
              IF win[c] = NONE THEN <<NONE, NONE>>
              ELSE IF win[c].old # NONE THEN <<win[c].old.out, win[c].old.ws>>
              ELSE <<win[c].at, win[c].ws>>]

Promise == INSTANCE Homes WITH up <- Plugged, place <- PlaceOf, home <- HomeOf

(* Hotplugging keeps the promise of module Homes.                          *)
HomesAreKept == Promise!Spec

(* What the comment on active_tag says ("the tag used to decide if client  *)
(* visible"): once nothing is scheduled, the windows whose scene nodes are *)
(* enabled are those with a tag in view.                                   *)
ShownIsVisible ==
  pending = {} =>
    \A c \in Open : win[c].at \in Plugged => win[c].shown = Visible(win[c])

(* What the comment in on_output_destroy says ("the container still need   *)
(* old output reference to remove bsp node"): closing a rescued container  *)
(* removes the leaf it left behind from the tree of the old output.  The   *)
(* tree is looked up by the workspace of the container, though.            *)
OldLeafIsFound ==
  \A c \in Open :
    LET w == win[c]
    IN  w.old # NONE /\ w.old.leaf # NONE => w.old.leaf = <<w.old.out, w.ws>>
============================================================================
