------------------------------ MODULE Windows ------------------------------
(***************************************************************************)
(* Toplevels and the containers that hold them (src/desktop/toplevel.c,    *)
(* src/layout/container.c, their Lua objects), and the pointer that drags  *)
(* them (src/input/cursor.c).                                              *)
(*                                                                         *)
(* A container holds the toplevels of one window as tabs; the topmost      *)
(* surface of its scene tree is its front.  Its state bits decide together *)
(* with the layout whether it is tiled, and the bsp leaf, the black        *)
(* rectangle behind a fullscreen window and the list of minimized          *)
(* containers have to follow them.  Every handler of a client, of a        *)
(* taskbar, of Lua and of the pointer changes some of these.               *)
(*                                                                         *)
(* Every screen shows one tag, and the toplevels are managed ones.  The    *)
(* shape of a bsp tree is in module Bsp, tags and hotplug in Hotplug, and  *)
(* sizes are left out.                                                     *)
(***************************************************************************)
EXTENDS Naturals, FiniteSets, SequencesExt

CONSTANTS
  Client,     \* toplevels that exist, mapped or not
  Container,  \* addresses of containers
  Screen,
  Modes,      \* the layout modes in use
  NULL

(* A toplevel that is mapped finds room for a container of its own.        *)
ASSUME WindowsAssumption ==
  /\ Modes \subseteq {"floating", "master", "bsp"} /\ Modes # {}
  /\ IsFiniteSet(Client) /\ IsFiniteSet(Container)
  /\ Cardinality(Client) <= Cardinality(Container)
  /\ NULL \notin Client \cup Container

VARIABLES
  tabs,       \* container->toplevels, head first; <<>>: no such container
  stack,      \* the surfaces in the scene tree of the container, front last
  shown,      \* toplevels whose surf_tree is enabled
  win,        \* what the states of a container own, see Windows below
  at,         \* container->output
  layout,     \* layout_mode of the tag every screen shows
  minimized,  \* the containers linked in the lists of minimized containers
  marked,     \* server.insert_marked
  cursor,     \* its interactive state and grabbed_toplevel
  idle        \* the containers _delayed_max_full will be called for

vars == <<tabs, stack, shown, win, at, layout, minimized, marked, cursor, idle>>

Bits  == {"floating", "maximized", "fullscreen", "minimized", "moving", "resizing"}
Drags == {"move", "resize", "move_bsp", "resize_bsp", "move_master", "resize_master"}

(* bits: container->state; leaf: bsp_node and whether it is enabled; rect: *)
(* fullscreen_bg; flaw: the first thing done to the container that nothing *)
(* undoes: a rectangle left in the scene with no pointer to it, a second   *)
(* leaf in the tree, its link inserted while it is in a list.  The last    *)
(* two break a data structure; the runs follow no behaviour past any.      *)
Flaws   == {"none", "rectangle", "leaf", "link"}
Windows == [ bits : SUBSET Bits, leaf : {"none", "on", "off"}, rect : BOOLEAN,
             flaw : Flaws ]

Blank == [bits |-> {}, leaf |-> "none", rect |-> FALSE, flaw |-> "none"]

Live   == { c \in Container : tabs[c] # <<>> }
Mapped == UNION { ToSet(tabs[c]) : c \in Live }
Holder(t)  == CHOOSE c \in Live : t \in ToSet(tabs[c])
FrontOf(c) == Last(stack[c])
LayoutOf(c) == layout[at[c]]

Init ==
  /\ tabs = [c \in Container |-> <<>>]
  /\ stack = tabs
  /\ shown = {}
  /\ win = [c \in Container |-> Blank]
  /\ at = [c \in Container |-> NULL]
  /\ layout \in [Screen -> Modes]
  /\ minimized = {}
  /\ marked = NULL
  /\ cursor = [state |-> "normal", grabbed |-> NULL]
  /\ idle = {}

----------------------------------------------------------------------------
(* The states of a container: w is its window, l the layout on its screen. *)

IsFloating(w, l) == "floating" \in w.bits \/ l = "floating"

IsTiled(w, l) ==
  w.bits \cap {"fullscreen", "maximized", "minimized"} = {} /\ ~IsFloating(w, l)

ConfigureAllowed(w) == w.bits \cap {"fullscreen", "maximized"} = {}

Set(w, b)   == [w EXCEPT !.bits = @ \cup {b}]
Clear(w, b) == [w EXCEPT !.bits = @ \ {b}]

(* bsp_node_enable, bsp_node_disable, for a container that has a leaf.     *)
Enable(w)  == IF w.leaf = "none" THEN w ELSE [w EXCEPT !.leaf = "on"]
Disable(w) == IF w.leaf = "none" THEN w ELSE [w EXCEPT !.leaf = "off"]

(* The tree of screen o has no leaf of a container other than c.           *)
FirstOn(o, c) == \A d \in Live \ {c} : at[d] = o => win[d].leaf = "none"

(* bsp_insert_container: the first leaf of a tree is enabled as it is, the *)
(* others if the container is tiled.                                       *)
Insert(w, l, first) ==
  LET new == Clear(w, "floating")
  IN  [new EXCEPT !.leaf = IF first \/ IsTiled(new, l) THEN "on" ELSE "off",
                  !.flaw = IF w.leaf = "none" THEN @ ELSE "leaf"]

(* cwc_container_move_to_output, for a window w of c.                      *)
Moved(c, w, o) ==
  LET bare == [w EXCEPT !.leaf = "none"]
  IN  IF o = at[c] THEN w
      ELSE IF layout[o] = "bsp" /\ ~IsFloating(w, LayoutOf(c)) /\ "moving" \notin w.bits
      THEN Insert(bare, "bsp", FirstOn(o, c))
      ELSE bare

(* cwc_container_set_maximized when not fullscreen.  A floating window     *)
(* goes back to the box it had, which may be on another screen, o.         *)
Maximize(w) == Disable(Set(w, "maximized"))

Unmaximize(c, w, o) ==
  LET new == Clear(w, "maximized")
  IN  IF IsFloating(w, LayoutOf(c)) THEN Moved(c, new, o) ELSE Enable(new)

(* cwc_container_set_fullscreen.  The scene gets a rectangle each time.    *)
EnterFullscreen(w) ==
  [Disable(Set(w, "fullscreen")) EXCEPT !.rect = TRUE,
                                        !.flaw = IF w.rect THEN "rectangle" ELSE @]

LeaveFullscreen(c, w, o) ==
  LET off == Clear(w, "fullscreen")
      new == IF IsFloating(w, LayoutOf(c)) THEN Moved(c, off, o) ELSE Enable(off)
      bare == [new EXCEPT !.rect = FALSE]
  IN  IF "maximized" \in w.bits THEN Maximize(bare) ELSE bare

(* A variant that keeps the rectangle for the next time.                   *)
FullscreenKeeping(c, w, set, o) ==
  IF set THEN EnterFullscreen(w) ELSE [LeaveFullscreen(c, w, o) EXCEPT !.rect = w.rect]

Fullscreen(c, w, set, o) ==
  IF set THEN EnterFullscreen(w) ELSE LeaveFullscreen(c, w, o)

(* cwc_container_set_maximized.  A fullscreen container becomes a          *)
(* maximized one whatever was asked.                                       *)
Maximized(c, w, set, o) ==
  IF "fullscreen" \in w.bits THEN Maximize(LeaveFullscreen(c, w, o))
  ELSE IF set THEN Maximize(w) ELSE Unmaximize(c, w, o)

(* cwc_container_set_minimized; linked: the container is in a list.        *)
Minimized(w, set, linked) ==
  IF set
  THEN [Disable(Set(w, "minimized")) EXCEPT !.flaw = IF linked THEN "link" ELSE @]
  ELSE Enable(Clear(w, "minimized"))

(* A variant that forgets the leaf of a window that is tiled again.        *)
FloatingWithoutEnable(c, w, set, o) ==
  LET l == LayoutOf(c)
  IN  IF ~ConfigureAllowed(w) THEN w
      ELSE IF set THEN Disable(Set(Moved(c, w, o), "floating"))
      ELSE IF ~IsFloating(w, l) THEN w
      ELSE IF w.leaf # "none" THEN Clear(w, "floating")
      ELSE IF l = "bsp" THEN Insert(w, l, FirstOn(at[c], c))
      ELSE Clear(w, "floating")

(* cwc_container_set_floating: the floating box is restored first.         *)
Floating(c, w, set, o) ==
  LET l == LayoutOf(c)
  IN  IF ~ConfigureAllowed(w) THEN w
      ELSE IF set THEN Disable(Set(Moved(c, w, o), "floating"))
      ELSE IF ~IsFloating(w, l) THEN w
      ELSE IF w.leaf # "none" THEN Enable(Clear(w, "floating"))
      ELSE IF l = "bsp" THEN Insert(w, l, FirstOn(at[c], c))
      ELSE Clear(w, "floating")

----------------------------------------------------------------------------
(* The tabs of a container                                                 *)

(* cwc_container_refresh: the front is shown, the other tabs are not.      *)
Refreshed(S, tab, order) ==
  IF order = <<>> THEN S ELSE (S \ ToSet(tab)) \cup {Last(order)}

(* A list without the toplevel t, which is in it once.                     *)
Unlinked(s, t) == RemoveAt(s, CHOOSE i \in DOMAIN s : s[i] = t)

(* cwc_container_set_front_toplevel                                        *)
SetFront(c, t) ==
  LET order == Append(Unlinked(stack[c], t), t)
  IN  /\ stack' = [stack EXCEPT ![c] = order]
      /\ shown' = Refreshed(shown, tabs[c], order)

(* The step-th tab after or before t in the ring of the tabs, the sentinel *)
(* left out; t when the ring is shorter.                                   *)
RingNeighbour(tab, t, forward) ==
  LET n == Len(tab)
      i == CHOOSE j \in 1..n : tab[j] = t
  IN  IF forward THEN tab[IF i = 1 THEN n ELSE i - 1]
      ELSE tab[IF i = n THEN 1 ELSE i + 1]

(* A variant that forgets to show the tab behind the one that leaves.      *)
WithoutUnrefreshed(t, c) ==
  [ tabs  |-> Unlinked(tabs[c], t), stack |-> Unlinked(stack[c], t),
    shown |-> shown ]

(* cwc_container_remove_toplevel, as far as the tabs go.                   *)
Without(t, c) ==
  LET order == Unlinked(stack[c], t)
  IN  [ tabs  |-> Unlinked(tabs[c], t), stack |-> order,
        shown |-> Refreshed(shown, tabs[c], order) ]

(* A variant that forgets the mark of a container that is gone.            *)
FiniKeepingMark(c) ==
  /\ minimized' = minimized \ {c}
  /\ idle' = idle \ {c}
  /\ at' = [at EXCEPT ![c] = NULL]
  /\ UNCHANGED marked

(* cwc_container_fini.  A delayed call that still holds the container      *)
(* reads freed memory; what it does then is not modelled.                  *)
Fini(c) ==
  /\ minimized' = minimized \ {c}
  /\ idle' = idle \ {c}
  /\ at' = [at EXCEPT ![c] = NULL]
  /\ marked' = IF marked = c THEN NULL ELSE marked

(* cwc_container_remove_toplevel, for windows w, when rest is what it      *)
(* leaves of the container's tabs.                                         *)
Leave(c, w, rest) ==
  IF rest = <<>> THEN Fini(c) /\ win' = [w EXCEPT ![c] = Blank]
  ELSE win' = w /\ UNCHANGED <<minimized, idle, at, marked>>

----------------------------------------------------------------------------
(* The pointer                                                             *)

(* end_interactive_move_bsp, end_interactive_move_master; the other ends   *)
(* change sizes and positions alone.                                       *)
Dropped(c) ==
  CASE cursor.state = "move_bsp"    -> Insert(win[c], LayoutOf(c), FirstOn(at[c], c))
    [] cursor.state = "move_master" -> Clear(win[c], "floating")
    [] OTHER                        -> win[c]

(* stop_interactive                                                        *)
Stopped ==
  IF cursor.state = "normal" THEN win
  ELSE LET c == Holder(cursor.grabbed)
       IN  [win EXCEPT ![c] = [Dropped(c) EXCEPT !.bits = @ \ {"moving", "resizing"}]]

StoppedCursor ==
  IF cursor.state = "normal" THEN cursor ELSE [state |-> "normal", grabbed |-> NULL]

(* process_cursor_button, when the button is released.                     *)
ButtonRelease ==
  /\ cursor.state # "normal"
  /\ win' = Stopped
  /\ cursor' = StoppedCursor
  /\ UNCHANGED <<tabs, stack, shown, at, layout, minimized, marked, idle>>

CanEnterInteractive(t) ==
  t \in Mapped /\ ConfigureAllowed(win[Holder(t)])

(* start_interactive_move: by a button binding, by Lua or by the client,   *)
(* whatever is dragged at the time.                                        *)
StartMove(t) ==
  LET c == Holder(t)
      w == Set(win[c], "moving")
      floats == IsFloating(w, LayoutOf(c))
  IN  /\ CanEnterInteractive(t)
      /\ cursor' = [ grabbed |-> t,
                     state |-> IF floats THEN "move"
                               ELSE IF LayoutOf(c) = "bsp" THEN "move_bsp"
                               ELSE "move_master" ]
      /\ win' = [win EXCEPT ![c] =
                   IF ~floats /\ LayoutOf(c) = "bsp" THEN [w EXCEPT !.leaf = "none"] ELSE w]
      /\ UNCHANGED <<tabs, stack, shown, at, layout, minimized, marked, idle>>

(* start_interactive_resize.  A window tiled in a bsp layout without a     *)
(* leaf is grabbed, but the state of the pointer stays.                    *)
StartResize(t) ==
  LET c == Holder(t)
      l == LayoutOf(c)
  IN  /\ CanEnterInteractive(t)
      /\ win' = [win EXCEPT ![c] = Set(@, "resizing")]
      /\ cursor' = [ grabbed |-> t,
                     state |-> CASE IsFloating(win[c], l) -> "resize"
                                 [] ~IsFloating(win[c], l) /\ l = "master" -> "resize_master"
                                 [] ~IsFloating(win[c], l) /\ l = "bsp" ->
                                      IF win[c].leaf = "none" THEN cursor.state
                                      ELSE "resize_bsp" ]
      /\ UNCHANGED <<tabs, stack, shown, at, layout, minimized, marked, idle>>

----------------------------------------------------------------------------
(* Mapping and unmapping                                                   *)

(* _decide_should_tiled_part2: c, with the window w on screen o, gets a    *)
(* leaf in a bsp layout if it has none.                                    *)
Placed(c, w, o) ==
  IF layout[o] = "bsp" /\ ~IsFloating(w, layout[o]) /\ w.leaf = "none"
  THEN Insert(w, "bsp", FirstOn(o, c)) ELSE w

(* With a marked container: the toplevel goes in front of its tabs, which  *)
(* stay shown behind it (_cwc_container_insert_toplevel).                  *)
MapIntoMarked(t) ==
  LET c == marked
  IN  /\ marked # NULL /\ t \notin Mapped
      /\ tabs' = [tabs EXCEPT ![c] = <<t>> \o @]
      /\ stack' = [stack EXCEPT ![c] = Append(@, t)]
      /\ shown' = shown \cup {t}
      /\ win' = [win EXCEPT ![c] = Placed(c, @, at[c])]
      /\ UNCHANGED <<at, layout, minimized, marked, cursor, idle>>

(* The states a toplevel may ask for before it is mapped; the rules that   *)
(* make a dialog float are asked only of one that wants none of them.      *)
Wishes == SUBSET {"maximized", "fullscreen", "minimized"} \cup {{"floating"}}

(* _cwc_container_set_initial_state                                        *)
InitialBits(wants) ==
  wants \cap (IF "fullscreen" \in wants THEN {"maximized", "fullscreen"}
              ELSE {"maximized", "minimized"})

(* cwc_container_init and _decide_should_tiled_part1: fullscreen before    *)
(* maximized before minimized before floating.                             *)
NewWindow(wants) ==
  LET w == [Blank EXCEPT !.bits = InitialBits(wants)]
  IN  CASE "fullscreen" \in wants -> EnterFullscreen(w)
        [] "fullscreen" \notin wants /\ "maximized" \in wants -> Maximize(w)
        [] wants \cap {"fullscreen", "maximized"} = {} ->
             IF "minimized" \in wants THEN Minimized(w, TRUE, FALSE)
             ELSE IF "floating" \in wants THEN Set(w, "floating")
             ELSE w

(* Only a container that goes through set_minimized enters the list.       *)
BornListed(wants) ==
  "minimized" \in wants /\ wants \cap {"fullscreen", "maximized"} = {}

(* Otherwise: a container of its own on the focused screen.                *)
MapAlone(t, c, wants, o) ==
  /\ marked = NULL /\ t \notin Mapped /\ c \notin Live
  /\ tabs' = [tabs EXCEPT ![c] = <<t>>]
  /\ stack' = [stack EXCEPT ![c] = <<t>>]
  /\ shown' = shown \cup {t}
  /\ at' = [at EXCEPT ![c] = o]
  /\ win' = [win EXCEPT ![c] = Placed(c, NewWindow(wants), o)]
  /\ minimized' = IF BornListed(wants) THEN minimized \cup {c} ELSE minimized
  /\ UNCHANGED <<layout, marked, cursor, idle>>

(* on_surface_map                                                          *)
SurfaceMap(t) ==
  \/ MapIntoMarked(t)
  \/ \E c \in Container, wants \in Wishes, o \in Screen : MapAlone(t, c, wants, o)

(* A variant that does not stop the drag of the toplevel that goes.        *)
UnmapDragged(t) ==
  LET c == Holder(t)
      rest == Without(t, c)
  IN  /\ t \in Mapped
      /\ tabs' = [tabs EXCEPT ![c] = rest.tabs]
      /\ stack' = [stack EXCEPT ![c] = rest.stack]
      /\ shown' = rest.shown \ {t}
      /\ Leave(c, win, rest.tabs)
      /\ UNCHANGED <<layout, cursor>>

(* on_surface_unmap                                                        *)
Unmap(t) ==
  LET c == Holder(t)
      rest == Without(t, c)
      grabbed == cursor.grabbed = t
  IN  /\ t \in Mapped
      /\ tabs' = [tabs EXCEPT ![c] = rest.tabs]
      /\ stack' = [stack EXCEPT ![c] = rest.stack]
      /\ shown' = rest.shown \ {t}
      /\ Leave(c, IF grabbed THEN Stopped ELSE win, rest.tabs)
      /\ cursor' = IF grabbed THEN StoppedCursor ELSE cursor
      /\ UNCHANGED layout

----------------------------------------------------------------------------
(* Requests of Lua, of a client and of a taskbar                           *)

(* c becomes w, on screen o; the call for its size there comes later.      *)
Becomes(c, w, o) ==
  /\ win' = [win EXCEPT ![c] = w]
  /\ at' = [at EXCEPT ![c] = o]
  /\ idle' = IF o = at[c] THEN idle ELSE idle \cup {c}
  /\ UNCHANGED <<tabs, stack, shown, layout, marked, cursor>>

(* The box saved for a floating window may lie on screen o.                *)
MayRestore(c, o) == o = at[c] \/ IsFloating(win[c], LayoutOf(c))

SetFullscreen(c, set, o) ==
  /\ o = at[c] \/ (~set /\ MayRestore(c, o))
  /\ Becomes(c, Fullscreen(c, win[c], set, o), o)
  /\ UNCHANGED minimized

SetMaximized(c, set, o) ==
  /\ o = at[c] \/ (("fullscreen" \in win[c].bits \/ ~set) /\ MayRestore(c, o))
  /\ Becomes(c, Maximized(c, win[c], set, o), o)
  /\ UNCHANGED minimized

(* A variant that leaves a restored container in the list.                 *)
SetMinimizedListed(c, set) ==
  /\ Becomes(c, Minimized(win[c], set, c \in minimized), at[c])
  /\ minimized' = IF set THEN minimized \cup {c} ELSE minimized

SetMinimized(c, set) ==
  /\ Becomes(c, Minimized(win[c], set, c \in minimized), at[c])
  /\ minimized' = IF set THEN minimized \cup {c} ELSE minimized \ {c}

SetFloating(c, set, o) ==
  /\ o = at[c] \/ (set /\ ConfigureAllowed(win[c]))
  /\ Becomes(c, Floating(c, win[c], set, o), o)
  /\ UNCHANGED minimized

(* cwc_container_move_to_output, for another screen.                       *)
CrossOutput(c, o) ==
  /\ o # at[c]
  /\ Becomes(c, Moved(c, win[c], o), o)
  /\ UNCHANGED minimized

(* luaC_client_move_to_screen                                              *)
MoveToScreen(t, o) == t \in Mapped /\ CrossOutput(Holder(t), o)

(* process_cursor_move, process_cursor_move_floating: the centre of what   *)
(* is dragged enters another screen (update_container_output).             *)
Drag(o) ==
  /\ cursor.state \in {"move", "move_bsp", "move_master"}
  /\ CrossOutput(Holder(cursor.grabbed), o)

(* on_request_maximize, on_request_fullscreen: what the client asks for;   *)
(* a client that asks twice for the same is answered twice.                *)
ClientRequest(t) ==
  /\ t \in Mapped
  /\ \E set \in BOOLEAN, o \in Screen :
       \/ SetMaximized(Holder(t), set, o)
       \/ SetFullscreen(Holder(t), set, o)

(* The handlers of a taskbar, which asks for the states of ClientRequest   *)
(* as well, but for activation (JumpTo).                                   *)
ForeignRequest(t) ==
  t \in Mapped /\ \E set \in BOOLEAN : SetMinimized(Holder(t), set)

(* The boolean properties of a client in Lua, beside those above.          *)
SetClientProperty(t) ==
  t \in Mapped /\ \E set \in BOOLEAN, o \in Screen : SetFloating(Holder(t), set, o)

(* _delayed_max_full                                                       *)
DelayedMaxFull(c) ==
  LET w == win[c]
  IN  /\ c \in idle
      /\ win' = [win EXCEPT ![c] =
                   IF "fullscreen" \in w.bits THEN EnterFullscreen(w)
                   ELSE IF "maximized" \in w.bits THEN Maximize(w) ELSE w]
      /\ idle' = idle \ {c}
      /\ UNCHANGED <<tabs, stack, shown, at, layout, minimized, marked, cursor>>

(* A variant that inserts the containers that have a leaf too.             *)
InsertTiledAgain(o) ==
  { c \in Live : at[c] = o /\ win[c].bits \cap {"minimized", "floating"} = {} }

(* A variant that passes over the windows that are not tiled now.          *)
InsertTiledNow(o) ==
  { c \in Live : at[c] = o /\ win[c].leaf = "none" /\ IsTiled(win[c], "bsp") }

(* insert_tiled_toplevel_to_bsp_tree: the visible containers that do not   *)
(* float and have no leaf.                                                 *)
InsertTiled(o) ==
  { c \in Live : /\ at[c] = o /\ win[c].leaf = "none"
                 /\ win[c].bits \cap {"minimized", "floating"} = {} }

(* cwc_output_set_layout_mode.  Restoring the boxes of a layout that       *)
(* becomes a floating one would leave the list it walks through if a box   *)
(* lay on another screen; the boxes are on this one here.                  *)
SetLayout(o, mode) ==
  /\ layout' = [layout EXCEPT ![o] = mode]
  /\ win' = [c \in Container |->
              IF mode = "bsp" /\ c \in InsertTiled(o)
              THEN Insert(win[c], "bsp", FALSE) ELSE win[c]]
  /\ UNCHANGED <<tabs, stack, shown, at, minimized, marked, cursor, idle>>

----------------------------------------------------------------------------
(* Tabs                                                                    *)

OnlyTabs == UNCHANGED <<win, at, layout, minimized, marked, cursor, idle>>

(* cwc_container_set_front_toplevel: by cwc_toplevel_raise, or by setting  *)
(* a container visible.                                                    *)
Refresh(t) ==
  /\ t \in Mapped /\ SetFront(Holder(t), t)
  /\ UNCHANGED tabs /\ OnlyTabs

(* cwc_toplevel_jump_to, on the tag the screen shows.                      *)
JumpTo(t) ==
  LET c == Holder(t)
  IN  /\ t \in Mapped /\ SetFront(c, t)
      /\ win' = [win EXCEPT ![c] =
                  IF "minimized" \in @.bits THEN Minimized(@, FALSE, c \in minimized) ELSE @]
      /\ minimized' = IF "minimized" \in win[c].bits THEN minimized \ {c} ELSE minimized
      /\ UNCHANGED <<tabs, at, layout, marked, cursor, idle>>

(* cwc_container_focusidx by one tab.                                      *)
FocusIdx(c, forward) ==
  /\ c \in Live
  /\ SetFront(c, RingNeighbour(tabs[c], FrontOf(c), forward))
  /\ UNCHANGED tabs /\ OnlyTabs

(* A variant that leaves the toplevel in the container it comes from.      *)
InsertClientKept(c, t) ==
  /\ t \in Mapped /\ c \in Live \ {Holder(t)}
  /\ tabs' = [tabs EXCEPT ![c] = <<t>> \o @]
  /\ stack' = [stack EXCEPT ![c] = Append(@, t)]
  /\ UNCHANGED shown /\ OnlyTabs

(* luaC_container_insert_client                                            *)
InsertClient(c, t) ==
  LET d == Holder(t)
      rest == Without(t, d)
  IN  /\ t \in Mapped /\ c \in Live \ {d}
      /\ tabs' = [tabs EXCEPT ![d] = rest.tabs, ![c] = <<t>> \o @]
      /\ stack' = [stack EXCEPT ![d] = rest.stack, ![c] = Append(@, t)]
      /\ shown' = rest.shown
      /\ Leave(d, win, rest.tabs)
      /\ UNCHANGED <<layout, cursor>>

(* cwc_toplevel_swap                                                       *)
SwapClients(t, u) ==
  LET c == Holder(t)
      d == Holder(u)
      newTabs  == [tabs EXCEPT ![c] = <<u>> \o Unlinked(@, t), ![d] = <<t>> \o Unlinked(@, u)]
      newStack == [stack EXCEPT ![c] = Append(Unlinked(@, t), u),
                                ![d] = Append(Unlinked(@, u), t)]
  IN  /\ {t, u} \subseteq Mapped /\ c # d
      /\ tabs' = newTabs
      /\ stack' = newStack
      /\ shown' = Refreshed(Refreshed(shown, newTabs[c], newStack[c]), newTabs[d], newStack[d])
      /\ OnlyTabs

(* cwc_container_swap: the tabs are taken out and put in at the head one   *)
(* by one, which turns their order around; the fronts stay fronts.         *)
SwapContainers(c, d) ==
  LET newTabs  == [tabs EXCEPT ![c] = Reverse(tabs[d]), ![d] = Reverse(tabs[c])]
      newStack == [stack EXCEPT ![c] = Append(Unlinked(tabs[d], FrontOf(d)), FrontOf(d)),
                                ![d] = Append(Unlinked(tabs[c], FrontOf(c)), FrontOf(c))]
  IN  /\ {c, d} \subseteq Live /\ c # d
      /\ tabs' = newTabs
      /\ stack' = newStack
      /\ shown' = Refreshed(Refreshed(shown, newTabs[c], newStack[c]), newTabs[d], newStack[d])
      /\ OnlyTabs

(* luaC_container_set_insert_mark, luaC_container_reset_mark               *)
Mark(c) ==
  /\ c \in Live \cup {NULL} /\ marked' = c
  /\ UNCHANGED <<tabs, stack, shown, win, at, layout, minimized, cursor, idle>>

----------------------------------------------------------------------------
Next ==
  \/ \E t \in Client : SurfaceMap(t)
  \/ \E t \in Client : Unmap(t)
  \/ \E t \in Client : ClientRequest(t)
  \/ \E t \in Client : ForeignRequest(t)
  \/ \E t \in Client : SetClientProperty(t)
  \/ \E t \in Client, o \in Screen : MoveToScreen(t, o)
  \/ \E o \in Screen : Drag(o)
  \/ \E c \in Container : DelayedMaxFull(c)
  \/ \E o \in Screen, mode \in Modes : SetLayout(o, mode)
  \/ \E t \in Client : Refresh(t)
  \/ \E t \in Client : JumpTo(t)
  \/ \E c \in Container, forward \in BOOLEAN : FocusIdx(c, forward)
  \/ \E c \in Container, t \in Client : InsertClient(c, t)
  \/ \E t, u \in Client : SwapClients(t, u)
  \/ \E c, d \in Container : SwapContainers(c, d)
  \/ \E c \in Container \cup {NULL} : Mark(c)
  \/ \E t \in Client : StartMove(t)
  \/ \E t \in Client : StartResize(t)
  \/ ButtonRelease

Spec == Init /\ [][Next]_vars

----------------------------------------------------------------------------
(* The types of the variables; every container of a tab strip holds the    *)
(* same toplevels in its list and in its scene tree, each of them once.    *)
TypeOK ==
  /\ tabs \in [Container -> Seq(Client)]
  /\ stack \in [Container -> Seq(Client)]
  /\ \A c \in Container : ToSet(tabs[c]) = ToSet(stack[c])
  /\ \A c \in Container : IsInjective(tabs[c]) /\ IsInjective(stack[c])
  /\ \A c, d \in Container : c # d => ToSet(tabs[c]) \cap ToSet(tabs[d]) = {}
  /\ shown \subseteq Client
  /\ win \in [Container -> Windows]
  /\ at \in [Container -> Screen \cup {NULL}]
  /\ layout \in [Screen -> Modes]
  /\ minimized \subseteq Container /\ idle \subseteq Container
  /\ marked \in Container \cup {NULL}
  /\ cursor \in [state : Drags \cup {"normal"}, grabbed : Client \cup {NULL}]

(* The pointer never drags a toplevel that is gone (stop_interactive and   *)
(* every motion follow grabbed_toplevel->container).                       *)
GrabIsLive == cursor.state # "normal" => cursor.grabbed \in Mapped

(* What the server keeps of a container is dropped with it: the mark, the  *)
(* leaf, the rectangle, the link in the list of minimized containers.      *)
NothingOutlives ==
  /\ marked \in Live \cup {NULL}
  /\ minimized \subseteq Live
  /\ \A c \in Container \ Live : win[c] = Blank

(* A window that is fullscreen has its black rectangle and no other has.   *)
BackdropIsOwned ==
  \A c \in Live : win[c].rect <=> "fullscreen" \in win[c].bits

(* A window whose leaf takes no room though nothing hides it.              *)
HiddenTile(c) == c \in Live /\ win[c].leaf = "off" /\ IsTiled(win[c], "bsp")

(* A leaf is given its room back with the state that took it, except that  *)
(* a window restored under a floating layout stays out of the tree's sizes *)
(* when the layout is bsp again, and so does one that was made to float    *)
(* while it was dragged in a master layout.                                *)
LeavesReturn ==
  [][ \A c \in Container :
        HiddenTile(c)' /\ ~HiddenTile(c) =>
          \/ LayoutOf(c) = "floating"
          \/ cursor.state = "move_master" /\ "floating" \in win[c].bits ]_vars

(* On a bsp layout, neither floating nor dragged, without a leaf.          *)
Leafless(c) ==
  /\ c \in Live /\ LayoutOf(c) = "bsp"
  /\ win[c].bits \cap {"floating", "moving"} = {} /\ win[c].leaf = "none"

(* A window loses its place in a bsp layout only if the layout is chosen   *)
(* while it is minimized, if a drag that began in another layout ends      *)
(* there, or if it is moved there from a screen with a floating layout.    *)
TilesKeepTheirPlace ==
  [][ \A c \in Container :
        Leafless(c)' /\ ~Leafless(c) =>
          \/ layout # layout' /\ "minimized" \in win[c].bits
          \/ cursor.state \notin {"normal", "move_bsp"} /\ cursor'.state = "normal"
          \/ at[c] # at'[c] /\ LayoutOf(c) = "floating" ]_vars

(* A second leaf is made only when a drag ends: of a window that got one   *)
(* while it was dragged.                                                   *)
LeavesAreSingle ==
  [][ \A c \in Container :
        win'[c].flaw = "leaf" /\ win[c].flaw # "leaf" =>
          cursor.state = "move_bsp" /\ cursor'.state = "normal" ]_vars

(* The front tab of a container can be seen, unless it was taken out of    *)
(* another container.                                                      *)
FrontStaysShown ==
  [][ \A c \in Live' :
        FrontOf(c)' \notin shown' =>
          \/ c \in Live /\ FrontOf(c) \notin shown
          \/ \E d \in Live \ {c} : FrontOf(c)' \in ToSet(tabs[d]) ]_vars

(* The list of minimized containers follows the state, but for a container *)
(* that was minimized when it was mapped fullscreen or maximized.          *)
ListFollowsState ==
  [][ \A c \in Live \cap Live' :
        (c \in minimized <=> "minimized" \in win[c].bits) =>
        (c \in minimized' <=> "minimized" \in win'[c].bits) ]_vars

(* No assertion of the code fails: a container that is inserted has no     *)
(* leaf.                                                                   *)
NoSecondLeaf == \A c \in Container : win[c].flaw # "leaf"
============================================================================
