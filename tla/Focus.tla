-------------------------------- MODULE Focus --------------------------------
(***************************************************************************)
(* Who has the keyboard: windows, layer surfaces and the lock surfaces of  *)
(* the outputs (desktop/session_lock.c, desktop/layer_shell.c, the focus   *)
(* part of desktop/output.c, desktop/toplevel.c and input/keyboard.c,      *)
(* input/text_input.c).  The seat calls back whenever the focused surface  *)
(* changes, and the callback itself moves the focus to the lock surface of *)
(* the focused output or else to the exclusive layer surface.  A lock      *)
(* surface stands for its output, a text input for the window whose client *)
(* made it; an output that is focused is plugged, and every window that is *)
(* mapped is visible (a hidden one is as good as unmapped).                *)
(***************************************************************************)
EXTENDS Integers, Lists

CONSTANTS Window, Layer, Output,
          OutputOf,  \* the output of each window and layer surface
          Zoned,     \* the layer surfaces with an exclusive zone
          None       \* NULL

VARIABLES
  seat,    \* focus, focused_output, exclusive_kbd_interactive, text input
  stack,   \* the mapped windows, those focused last first (focus_stack)
  layers,  \* the layer surfaces, newest first, and the state of each
  lock     \* the session lock and the lock surface of every output

focusVars == <<seat, stack, layers, lock>>

(* wl_list_remove; the links of the lists are the places of a sequence.    *)
Unlinked(s, x) == RemoveAt(s, CHOOSE i \in DOMAIN s : s[i] = x)

(* The first of a list that is one of those.                               *)
FirstOf(s, those) ==
    LET at == {i \in DOMAIN s : s[i] \in those}
    IN s[CHOOSE i \in at : \A j \in at : i <= j]

World == [seat |-> seat, stack |-> stack, layers |-> layers, lock |-> lock]

Becomes(d) == /\ seat' = d.seat     /\ stack' = d.stack
              /\ layers' = d.layers /\ lock' = d.lock

(***************************************************************************)
(* The focus                                                               *)
(***************************************************************************)

(* A variant that asks for the exclusive layer surface first.              *)
GuardOrder(d) ==
    IF d.seat.exclusive # None THEN d.seat.exclusive
    ELSE IF d.lock.locked /\ d.lock.of[d.seat.output] # "none" THEN d.seat.output
    ELSE None

(* Whom the callback gives the focus back to.                              *)
Guard(d) ==
    IF d.lock.locked /\ d.lock.of[d.seat.output] # "none" THEN d.seat.output
    ELSE d.seat.exclusive

(* text_input_try_focus_surface; the input method is there all the time.   *)
TryTextInput(d, s) == IF s \in d.seat.inputs THEN [d EXCEPT !.seat.entered = s] ELSE d

(* keyboard_focus_surface and what the seat calls back.  An entry of the   *)
(* surface that already has the focus is no event.                         *)
Enter(d, s) ==
    IF s = d.seat.focus THEN d
    ELSE IF Guard(d) # None THEN [d EXCEPT !.seat.focus = Guard(d)]
    ELSE TryTextInput([d EXCEPT !.seat.focus = s], s)

FocusToplevel(d, w) ==
    Enter([d EXCEPT !.stack = <<w>> \o Unlinked(@, w)], w)

FocusNewest(d, o) ==
    LET here == {w \in ToSet(d.stack) : OutputOf[w] = o}
    IN IF here = {} THEN Enter(d, None) ELSE FocusToplevel(d, FirstOf(d.stack, here))

(* cwc_output_focus.                                                       *)
FocusOutput(o) ==
    /\ seat.output # o
    /\ Becomes(FocusNewest([World EXCEPT !.seat.output = o], o))

Focus(w) ==
    /\ w \in ToSet(stack)
    /\ Becomes(FocusToplevel(World, w))

MapWindow(w) ==
    /\ w \notin ToSet(stack) /\ seat.focus # w
    /\ Becomes([World EXCEPT !.stack = <<w>> \o @])

(* The surface of a window that goes away; the seat drops its focus.       *)
CloseWindow(w) ==
    /\ w \in ToSet(stack)
    /\ LET gone == [World EXCEPT !.stack = Unlinked(@, w)]
       IN Becomes(IF seat.focus = w THEN Enter(gone, None) ELSE gone)

(***************************************************************************)
(* Layer surfaces                                                          *)
(***************************************************************************)

Alive(l) == l \in ToSet(layers.order)

(* The last loop of arrange_layers: the newest mapped exclusive surface is *)
(* given the focus, and becomes the exclusive one after that.              *)
Arrange(d) ==
    LET all == {l \in ToSet(d.layers.order) : d.layers.kind[l] = "exclusive"}
        newest == FirstOf(d.layers.order, all)
    IN IF all = {} THEN d ELSE [Enter(d, newest) EXCEPT !.seat.exclusive = newest]

NewLayer(l) ==
    /\ ~Alive(l)
    /\ layers' = [layers EXCEPT !.order = <<l>> \o @]
    /\ UNCHANGED <<seat, stack, lock>>

(* A commit with another interactivity, k; one that maps the surface first *)
(* goes through on_layer_surface_map, when the surface is not yet counted  *)
(* as mapped.  kind is "none" for a surface that is not mapped.            *)
CommitLayer(l, k) ==
    /\ Alive(l) /\ layers.kind[l] # k
    /\ LET map == IF layers.kind[l] = "none" /\ k # "passive"
                  THEN Arrange(Enter(World, l)) ELSE World
       IN Becomes(Arrange([map EXCEPT !.layers.kind[l] = k]))

(* A variant that forgets to end the exclusive focus.                      *)
UnmapKeep(l) ==
    /\ layers.kind[l] # "none"
    /\ LET gone == [World EXCEPT !.layers.kind[l] = "none"]
           free == IF seat.exclusive = l THEN FocusNewest(gone, OutputOf[l]) ELSE gone
       IN Becomes(IF l \in Zoned THEN Arrange(free) ELSE free)

UnmapLayer(l) ==
    /\ layers.kind[l] # "none"
    /\ LET gone == [World EXCEPT !.layers.kind[l] = "none"]
           free == IF seat.exclusive = l
                   THEN FocusNewest([gone EXCEPT !.seat.exclusive = None], OutputOf[l])
                   ELSE gone
       IN Becomes(IF l \in Zoned THEN Arrange(free) ELSE free)

DestroyLayer(l) ==
    /\ Alive(l) /\ layers.kind[l] = "none"
    /\ LET gone == [World EXCEPT !.layers.order = Unlinked(@, l)]
       IN Becomes(IF seat.focus = l THEN Enter(gone, None) ELSE gone)

(***************************************************************************)
(* The session lock.  The pointer to a lock surface is "made", then "shown"*)
(* when it was mapped, and "stale" when the lock is gone but the client    *)
(* has not destroyed the wl_surface yet, which is what the code listens to *)
(* (session_lock.c:78).  A lock that comes while a pointer is stale would  *)
(* make the callback read freed memory; it is not followed.                *)
(***************************************************************************)

NewLock ==
    /\ ~lock.locker
    /\ \A o \in Output : lock.of[o] # "stale"
    /\ lock' = [lock EXCEPT !.locked = TRUE, !.locker = TRUE]
    /\ UNCHANGED <<seat, stack, layers>>

NewLockSurface(o) ==
    /\ lock.locker /\ lock.of[o] = "none"
    /\ lock' = [lock EXCEPT !.of[o] = "made"]
    /\ UNCHANGED <<seat, stack, layers>>

MapLockSurface(o) ==
    /\ lock.of[o] = "made"
    /\ Becomes(Enter([World EXCEPT !.lock.of[o] = "shown"], o))

(* on_unlock or cwc.unlock_session, then the lock object is destroyed.     *)
Unlock ==
    /\ lock.locker
    /\ LET open == [World EXCEPT !.lock.locked = FALSE]
       IN Becomes([FocusNewest(open, seat.output) EXCEPT
             !.lock.locker = FALSE,
             !.lock.of = [o \in Output |-> IF @[o] = "none" THEN "none" ELSE "stale"]])

(* The wl_surface is destroyed: the code's listener comes before the one   *)
(* of the seat.                                                            *)
Gone(d, o) ==
    LET free == [d EXCEPT !.lock.of[o] = "none"]
    IN IF free.seat.focus = o THEN Enter(free, None) ELSE free

DestroyLockSurface(o) ==
    /\ lock.of[o] # "none"
    /\ Becomes(Gone(World, o))

(* The client crashes: the session stays locked and may be locked anew.    *)
(* The surfaces go one after the other, and a focus that passes from one   *)
(* to the next (Gone) is with none of them in the end.                     *)
LockerDies ==
    /\ lock.locker
    /\ LET gone == [World EXCEPT !.lock.locker = FALSE,
                                !.lock.of = [o \in Output |-> "none"]]
       IN Becomes(IF seat.focus \in Output THEN Enter(gone, None) ELSE gone)

(***************************************************************************)
(* Text inputs                                                             *)
(***************************************************************************)

NewTextInput(w) ==
    /\ seat' = [seat EXCEPT !.inputs = @ \cup {w}]
    /\ UNCHANGED <<stack, layers, lock>>

DestroyTextInput(w) ==
    /\ w \in seat.inputs
    /\ seat' = [seat EXCEPT !.inputs = @ \ {w},
                            !.entered = IF @ = w THEN None ELSE @]
    /\ UNCHANGED <<stack, layers, lock>>

FocusInit ==
    /\ seat = [focus |-> None, output |-> CHOOSE o \in Output : TRUE,
               exclusive |-> None, inputs |-> {}, entered |-> None]
    /\ stack = <<>>
    /\ layers = [order |-> <<>>, kind |-> [l \in Layer |-> "none"]]
    /\ lock = [locked |-> FALSE, locker |-> FALSE, of |-> [o \in Output |-> "none"]]

FocusNext ==
    \/ \E w \in Window : \/ Focus(w) \/ MapWindow(w) \/ CloseWindow(w)
                         \/ NewTextInput(w) \/ DestroyTextInput(w)
    \/ \E l \in Layer : \/ NewLayer(l) \/ UnmapLayer(l) \/ DestroyLayer(l)
                        \/ \E k \in {"passive", "demand", "exclusive"} : CommitLayer(l, k)
    \/ \E o \in Output : \/ FocusOutput(o) \/ NewLockSurface(o)
                         \/ MapLockSurface(o) \/ DestroyLockSurface(o)
    \/ NewLock \/ Unlock \/ LockerDies

(***************************************************************************)
(* Properties                                                              *)
(***************************************************************************)

(* Whatever moves the focus, it ends up at a guard while there is one: at  *)
(* the lock surface of the focused output, or else, while some layer       *)
(* surface has the exclusive focus, at that one, at the one that had it    *)
(* before the step, or at another exclusive one.  The callback wins over   *)
(* the step that set it off, so that the newest exclusive surface need not *)
(* be the one (keyboard.c on_keyboard_focus_change, layer_shell.c          *)
(* arrange_layers).                                                        *)
GuardsKeepFocus ==
    LET guards ==
          IF lock'.locked /\ lock'.of[seat'.output] # "none" THEN {seat'.output}
          ELSE IF seat'.exclusive = None THEN {seat'.focus}
          ELSE ({seat.exclusive, seat'.exclusive} \ {None})
                  \cup {l \in Layer : layers'.kind[l] = "exclusive"}
    IN seat'.focus # seat.focus => seat'.focus \in guards

(* Nothing the seat points to is gone: the surface with the focus exists,  *)
(* the exclusive layer surface is mapped, the text input is alive.         *)
NothingDangles ==
    /\ seat.focus \in ToSet(stack) \cup ToSet(layers.order) \cup {None}
                      \cup {o \in Output : lock.of[o] # "none"}
    /\ seat.exclusive # None =>
         Alive(seat.exclusive) /\ layers.kind[seat.exclusive] # "none"
    /\ seat.entered \in seat.inputs \cup {None}

=============================================================================
