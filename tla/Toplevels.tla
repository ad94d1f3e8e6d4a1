------------------------------ MODULE Toplevels ------------------------------
(***************************************************************************)
(* The life of windows (desktop/toplevel.c) and the four places that say   *)
(* on which output one is: its container, the list of toplevels of the     *)
(* output, the handle that taskbars see, and for the next window the mark  *)
(* that Lua sets on a container.  xdg toplevels have their surface from    *)
(* the start, X11 windows are associated with one and may change at any    *)
(* time whether they want to be managed.                                   *)
(*                                                                         *)
(* All windows are on the tag in view, or tasklist_show_all is set.  What  *)
(* ends in undefined behaviour is not followed: an X11 window that turns   *)
(* managed or unmanaged while it is mapped, whose unmap removes links that *)
(* were never inserted (toplevel.c:205, :285); a mark on the container of  *)
(* an unmanaged window, and moving or swapping one; and an unmanaged window*)
(* that ignores the request to close until its output is plugged again,    *)
(* when the output it points to is freed (output.c:230).                   *)
(***************************************************************************)
EXTENDS FiniteSets

CONSTANTS Window, X11,   \* X11 is a set of windows
          Container, Output, None

VARIABLES surface,     \* window -> "none", "new", "attached" or "mapped"
          managed,     \* the windows that are, X11's override_redirect is unset
          container,   \* window -> container, while mapped
          place,       \* container -> its output and the one it belongs to
          mark,        \* server.insert_marked
          listed,      \* window -> the output it is in the list of
          entered,     \* window -> outputs of its wlr foreign toplevel handle
          outputs      \* those plugged, the focused, and windows that are astray

toplevelVars == <<surface, managed, container, place, mark, listed, entered, outputs>>

Live == outputs.plugged
Here == outputs.focused
Shown == {w \in Window : surface[w] = "mapped"}
TabsOf(c) == {w \in Window : container[w] = c}
Tiled(c) == TabsOf(c) # {} /\ TabsOf(c) \subseteq managed
OnOutput(s) == {c \in Container : Tiled(c) /\ place[c].on = s}

(***************************************************************************)
(* The surface                                                             *)
(***************************************************************************)

Unmoved == UNCHANGED <<container, place, mark, listed, entered, outputs>>

(* on_new_xdg_toplevel, on_xwayland_new_surface                            *)
New(w) ==
    /\ surface[w] = "none"
    /\ surface' = [surface EXCEPT ![w] = IF w \in X11 THEN "new" ELSE "attached"]
    /\ managed' = managed \cup {w}
    /\ Unmoved

Associate(w) ==
    /\ w \in X11 /\ surface[w] = "new"
    /\ surface' = [surface EXCEPT ![w] = "attached"]
    /\ UNCHANGED managed /\ Unmoved

Dissociate(w) ==
    /\ w \in X11 /\ surface[w] = "attached"
    /\ surface' = [surface EXCEPT ![w] = "new"]
    /\ UNCHANGED managed /\ Unmoved

SetOverrideRedirect(w) ==
    /\ w \in X11 /\ surface[w] \in {"new", "attached"}
    /\ managed' = IF w \in managed THEN managed \ {w} ELSE managed \cup {w}
    /\ UNCHANGED surface /\ Unmoved

(* on_toplevel_destroy; wlroots unmaps and dissociates first.              *)
Destroy(w) ==
    /\ surface[w] = (IF w \in X11 THEN "new" ELSE "attached")
    /\ surface' = [surface EXCEPT ![w] = "none"]
    /\ managed' = managed \ {w}
    /\ Unmoved

(***************************************************************************)
(* Mapped windows                                                          *)
(***************************************************************************)

(* on_surface_map: the list is the one of the focused output, even if the  *)
(* container with the mark is on another.                                  *)
Map(w) ==
    /\ surface[w] = "attached"
    /\ surface' = [surface EXCEPT ![w] = "mapped"]
    /\ IF w \in managed
       THEN /\ listed' = [listed EXCEPT ![w] = Here]
            /\ entered' = [entered EXCEPT ![w] = {Here}]
       ELSE UNCHANGED <<listed, entered>>
    /\ IF mark # None /\ w \in managed
       THEN /\ container' = [container EXCEPT ![w] = mark]
            /\ outputs' = IF place[mark].on = Here THEN outputs
                          ELSE [outputs EXCEPT !.astray = @ \cup {w},
                                               !.mislaid = @ \cup {w}]
            /\ UNCHANGED place
       ELSE /\ \E c \in {c \in Container : TabsOf(c) = {}} :
                  /\ container' = [container EXCEPT ![w] = c]
                  /\ place' = [place EXCEPT ![c] = [on |-> Here, home |-> None]]
            /\ UNCHANGED outputs
    /\ UNCHANGED <<managed, mark>>

(* on_surface_unmap, with cwc_container_remove_toplevel.                   *)
Unmap(w) ==
    /\ w \in Shown
    /\ surface' = [surface EXCEPT ![w] = "attached"]
    /\ listed' = [listed EXCEPT ![w] = None]
    /\ entered' = [entered EXCEPT ![w] = {}]
    /\ container' = [container EXCEPT ![w] = None]
    /\ LET c == container[w]
       IN IF TabsOf(c) = {w}
          THEN /\ place' = [place EXCEPT ![c] = None]
               /\ mark' = IF mark = c THEN None ELSE mark
          ELSE UNCHANGED <<place, mark>>
    /\ outputs' = [outputs EXCEPT !.astray = @ \ {w}, !.mislaid = @ \ {w}]
    /\ UNCHANGED managed

(* cwc_toplevel_swap: the containers and the places in the lists.          *)
Swap(a, b) ==
    /\ {a, b} \subseteq Shown \cap managed /\ container[a] # container[b]
    /\ LET sides == [w \in Window |-> CASE w = a -> b [] w = b -> a [] OTHER -> w]
           apart == place[container[a]].on # place[container[b]].on
       IN /\ container' = [w \in Window |-> container[sides[w]]]
          /\ listed' = [w \in Window |-> listed[sides[w]]]
          /\ outputs' = [outputs EXCEPT !.astray = {w \in Window : sides[w] \in @},
                                        !.mislaid = IF apart THEN @ \cup {a, b} ELSE @]
    /\ UNCHANGED <<surface, managed, place, mark, entered>>

(* all_toplevel_leave_output and all_toplevel_enter_output for the windows *)
(* of the containers cs, which are all on one output.                      *)
Relist(cs, o) == [w \in Window |-> IF container[w] \in cs THEN o ELSE listed[w]]
Reenter(cs, o) ==
    [w \in Window |-> IF container[w] \in cs
                      THEN (entered[w] \ {place[container[w]].on}) \cup {o} ELSE entered[w]]
Found(cs) == outputs.astray \ {w \in Window : container[w] \in cs}

(* cwc_container_move_to_output                                            *)
MoveToOutput(c, o) ==
    /\ Tiled(c) /\ o \in Live \ {place[c].on}
    /\ place' = [place EXCEPT ![c].on = o]
    /\ listed' = Relist({c}, o)
    /\ entered' = Reenter({c}, o)
    /\ outputs' = [outputs EXCEPT !.astray = Found({c})]
    /\ UNCHANGED <<surface, managed, container, mark>>

(* luaC_container_set_insert_mark, luaC_container_reset_mark               *)
SetMark(c) ==
    /\ c # mark /\ c \in {None} \cup {d \in Container : Tiled(d)}
    /\ mark' = c
    /\ UNCHANGED <<surface, managed, container, place, listed, entered, outputs>>

(***************************************************************************)
(* Outputs                                                                 *)
(***************************************************************************)

FocusOutput(o) ==
    /\ o \in Live \ {Here}
    /\ outputs' = [outputs EXCEPT !.focused = o]
    /\ UNCHANGED <<surface, managed, container, place, mark, listed, entered>>

(* on_output_destroy with cwc_output_rescue_toplevel_container; wlroots    *)
(* takes the output from the handles.                                      *)
Unplug(s, o) ==
    /\ s \in Live /\ o \in Live \ {s}
    /\ LET cs == OnOutput(s)
       IN /\ place' = [c \in Container |->
                         IF c \notin cs THEN place[c]
                         ELSE [on |-> o, home |-> IF place[c].home = None THEN s
                                                  ELSE place[c].home]]
          /\ listed' = [w \in Window |-> IF Relist(cs, o)[w] = s THEN o
                                         ELSE Relist(cs, o)[w]]
          /\ entered' = [w \in Window |-> Reenter(cs, o)[w] \ {s}]
          /\ outputs' = [outputs EXCEPT !.plugged = @ \ {s}, !.focused = o,
                                        !.astray = Found(cs)]
    /\ UNCHANGED <<surface, managed, container, mark>>

(* cwc_output_restore                                                      *)
Plug(s) ==
    /\ s \notin Live
    /\ LET cs == {c \in Container : Tiled(c) /\ place[c].home = s}
       IN /\ place' = [c \in Container |-> IF c \in cs THEN [on |-> s, home |-> None]
                                           ELSE place[c]]
          /\ listed' = Relist(cs, s)
          /\ entered' = Reenter(cs, s)
          /\ outputs' = [outputs EXCEPT !.plugged = @ \cup {s}, !.astray = Found(cs)]
    /\ UNCHANGED <<surface, managed, container, mark>>

ToplevelsInit ==
    /\ surface = [w \in Window |-> "none"] /\ managed = {}
    /\ container = [w \in Window |-> None] /\ place = [c \in Container |-> None]
    /\ mark = None
    /\ listed = [w \in Window |-> None] /\ entered = [w \in Window |-> {}]
    /\ outputs = [plugged |-> Output, focused |-> CHOOSE o \in Output : TRUE,
                  astray |-> {}, mislaid |-> {}]

ToplevelsNext ==
    \/ \E w \in Window : \/ New(w) \/ Associate(w) \/ Dissociate(w) \/ Destroy(w)
                         \/ SetOverrideRedirect(w) \/ Map(w) \/ Unmap(w)
    \/ \E a, b \in Window : Swap(a, b)
    \/ \E c \in Container, o \in Output : MoveToOutput(c, o)
    \/ \E c \in Container \cup {None} : SetMark(c)
    \/ \E o \in Output : FocusOutput(o) \/ Plug(o)
    \/ \E s, o \in Output : Unplug(s, o)

(***************************************************************************)
(* Properties                                                              *)
(***************************************************************************)

(* A window is in a container, the mark is on one, and there is a handle   *)
(* and a place in the list of an output that is plugged exactly while it   *)
(* must be; a container is gone with its last window.  The list is the one *)
(* of the container's output unless the window was mapped into a marked    *)
(* container of another, until that moves; and the handle is on that output*)
(* alone, unless the window was mapped so or swapped with one of another.  *)
WindowsAreListed ==
    /\ \A w \in Window :
          /\ (container[w] # None) = (w \in Shown)
          /\ (listed[w] # None) = (w \in Shown \cap managed)
          /\ listed[w] \in Live \cup {None}
          /\ w \in Shown \cap managed =>
                LET o == place[container[w]].on
                IN /\ o \in Live
                   /\ w \in outputs.astray \/ listed[w] = o
                   /\ w \in outputs.mislaid \/ entered[w] = {o}
    /\ \A c \in Container : (place[c] # None) = (TabsOf(c) # {})
    /\ mark # None => Tiled(mark)

============================================================================
