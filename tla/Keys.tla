-------------------------------- MODULE Keys --------------------------------
(***************************************************************************)
(* Key bindings (input/keyboard.c, input/keybinding.c, objects/kbindmap.c).*)
(* A key press first runs the bindings of the main map and of every active *)
(* map; a key some binding took is remembered in a tracker until it is     *)
(* released and is kept from the client, any other goes to the grab of the *)
(* input method or to the focused surface.  The callbacks of a binding may *)
(* move the focus or switch a map on and off while the maps are being      *)
(* gone through.  A surface that gets the focus is told which keys are     *)
(* held, and computes their releases from what it was told.  Every map     *)
(* repeats one of its bindings by a timer.  What is cleared while its      *)
(* binding repeats leaves a freed binding behind and is not followed.      *)
(***************************************************************************)
EXTENDS Integers, Lists

CONSTANTS Key, Surface,
          MapList,   \* the maps, in the order a key is looked up in them
          Binding,   \* the bindings used: what their callbacks do, and flags
          NoKey      \* NULL: no binding, no repeated key, no surface

VARIABLES maps,    \* of each map: active, table, and the key it repeats
          board,   \* the keys held, the tracker, the focus and who knows what
          grab,    \* the input method has grabbed the keyboard
          barred   \* the session is locked or shortcuts are inhibited

keyVars == <<maps, board, grab, barred>>

MapNames == ToSet(MapList)
Main == MapList[1]

(***************************************************************************)
(* The focus.  A surface that enters is told the keys that are held and    *)
(* were not taken by a binding.                                            *)
(***************************************************************************)

Enter(b, s) ==
    IF s = b.focus THEN b
    ELSE [b EXCEPT !.focus = s,
                   !.view = IF s = NoKey THEN {} ELSE b.down \ ToSet(b.tracker)]

(* wlr_seat_keyboard_notify_key: the focused surface hears of the key.     *)
Notify(b, k, press) ==
    [b EXCEPT !.view = IF press /\ b.focus # NoKey THEN @ \cup {k} ELSE @ \ {k}]

(***************************************************************************)
(* Running a binding: its callback, then the timer of the repetition.      *)
(***************************************************************************)

Another(f) == IF Surface \subseteq {f} THEN f ELSE CHOOSE t \in Surface : t # f

Toggled(f) ==
    [m \in MapNames |-> IF m = Main THEN f[m] ELSE [f[m] EXCEPT !.active = ~@]]

Effect(s, what) ==
    CASE what = "nothing" -> s
      [] what = "focus" -> [s EXCEPT !.board = Enter(@, Another(s.board.focus))]
      [] what = "toggle" -> [s EXCEPT !.maps = Toggled(s.maps)]

(* The timer is armed for a binding that repeats, unless one repeats       *)
(* already in its map.                                                     *)
Armed(s, m, k, bind, press) ==
    [s EXCEPT
       !.maps[m].repeated = IF press /\ bind.repeat /\ @ = NoKey THEN k ELSE @,
       !.handled = @ \/ ~bind.pass]

Execute(s, m, k, press) ==
    LET bind == s.maps[m].table[k]
    IN Armed(Effect(s, IF press THEN bind.press ELSE bind.release), m, k, bind, press)

Bound(s, m, k) ==
    /\ s.maps[m].table[k] # NoKey
    /\ s.maps[m].table[k].exclusive \/ ~barred

Look(s, m, k, press) ==
    IF (m = Main \/ s.maps[m].active) /\ Bound(s, m, k)
    THEN Execute(s, m, k, press) ELSE s

(***************************************************************************)
(* A key event                                                             *)
(***************************************************************************)

Untouched == [maps |-> maps, board |-> board, handled |-> FALSE]

Holding(down, tracker, handled) ==
    [maps |-> maps, board |-> [board EXCEPT !.down = down, !.tracker = tracker],
     handled |-> handled]

(* The maps are gone through in their order.  A press stops nowhere; a     *)
(* release ends the repetition of every map, active or not.                *)
Visit(s, m, k, press) ==
    IF press THEN Look(s, m, k, TRUE)
    ELSE [Look(s, m, k, FALSE) EXCEPT !.handled = s.handled,
                                      !.maps[m].repeated = NoKey]

Search(s, k, press) ==
    LET after[i \in 0 .. Len(MapList)] ==
            IF i = 0 THEN s ELSE Visit(after[i - 1], MapList[i], k, press)
    IN after[Len(MapList)]

(* The key that was pushed last is popped: no binding has taken it.        *)
Untracked(s) == [s EXCEPT !.board.tracker = Front(@)]

(* A variant that remembers the key only when a binding has taken it.      *)
PressedLate(k) ==
    LET run == Search(Holding(board.down \cup {k}, board.tracker, FALSE), k, TRUE)
    IN IF run.handled THEN [run EXCEPT !.board.tracker = Append(@, k)] ELSE run

Pressed(k) ==
    LET held == Holding(board.down \cup {k}, Append(board.tracker, k), FALSE)
        run == Search(held, k, TRUE)
    IN IF run.handled THEN run ELSE Untracked(run)

(* cwc_vec_find and cwc_vec_pop_at.                                        *)
Popped(tracker, k) ==
    IF k \in ToSet(tracker)
    THEN RemoveAt(tracker, CHOOSE i \in DOMAIN tracker : tracker[i] = k)
    ELSE tracker

Up(k) == Holding(board.down \ {k}, Popped(board.tracker, k), k \in ToSet(board.tracker))

(* A variant that ends the repetition in the maps that are active only.    *)
ReleasedActive(k) ==
    LET after[i \in 0 .. Len(MapList)] ==
            IF i = 0 THEN Up(k)
            ELSE LET r == Look(after[i - 1], MapList[i], k, FALSE)
                 IN [r EXCEPT !.handled = after[i - 1].handled,
                              !.maps[MapList[i]].repeated =
                                  IF r.maps[MapList[i]].active THEN NoKey ELSE @]
    IN after[Len(MapList)]

Released(k) == Search(Up(k), k, FALSE)

(* What no binding took goes to the grab or to the surface; a release goes *)
(* to both, for the surface may have been told of the press.               *)
Deliver(s, k, press) ==
    IF s.handled THEN s.board
    ELSE IF ~grab THEN [Notify(s.board, k, press) EXCEPT !.im = @ \ {k}]
    ELSE IF press THEN [s.board EXCEPT !.im = @ \cup {k}]
    ELSE [Notify(s.board, k, press) EXCEPT !.im = @ \ {k}]

Press(k) ==
    /\ k \notin board.down
    /\ maps' = Pressed(k).maps
    /\ board' = Deliver(Pressed(k), k, TRUE)
    /\ UNCHANGED <<grab, barred>>

Release(k) ==
    /\ k \in board.down
    /\ maps' = Released(k).maps
    /\ board' = Deliver(Released(k), k, FALSE)
    /\ UNCHANGED <<grab, barred>>

(* repeat_loop: the binding runs as for a press, whatever has become of    *)
(* its map and of the session since, and the timer is armed again.         *)
RepeatLoop(m) ==
    /\ maps[m].repeated # NoKey
    /\ LET s == Execute(Untouched, m, maps[m].repeated, TRUE)
       IN maps' = s.maps /\ board' = s.board
    /\ UNCHANGED <<grab, barred>>

(***************************************************************************)
(* What else changes the maps, the focus and the ways of a key             *)
(***************************************************************************)

Refocus(s) ==
    /\ board' = Enter(board, s)
    /\ UNCHANGED <<maps, grab, barred>>

Register(m, k, bind) ==
    /\ maps[m].repeated # k
    /\ maps' = [maps EXCEPT ![m].table[k] = bind]
    /\ UNCHANGED <<board, grab, barred>>

ClearMap(m) ==
    /\ maps[m].repeated = NoKey
    /\ maps' = [maps EXCEPT ![m].table = [k \in Key |-> NoKey]]
    /\ UNCHANGED <<board, grab, barred>>

ActiveOnly(m) ==
    /\ m # Main
    /\ maps' = [n \in MapNames |->
                  IF n = Main THEN maps[n] ELSE [maps[n] EXCEPT !.active = n = m]]
    /\ UNCHANGED <<board, grab, barred>>

GrabKeyboard == grab' = ~grab /\ UNCHANGED <<maps, board, barred>>

Inhibit == barred' = ~barred /\ UNCHANGED <<maps, board, grab>>

KeysInit ==
    /\ maps = [m \in MapNames |-> [active |-> TRUE, repeated |-> NoKey,
                                   table |-> [k \in Key |-> NoKey]]]
    /\ board = [down |-> {}, tracker |-> <<>>, focus |-> NoKey, view |-> {},
                im |-> {}]
    /\ grab = FALSE /\ barred = FALSE

KeysNext ==
    \/ \E k \in Key : Press(k) \/ Release(k)
    \/ \E m \in MapNames : RepeatLoop(m) \/ ClearMap(m) \/ ActiveOnly(m)
    \/ \E m \in MapNames, k \in Key, bind \in Binding : Register(m, k, bind)
    \/ \E s \in Surface \cup {NoKey} : Refocus(s)
    \/ GrabKeyboard
    \/ Inhibit

(***************************************************************************)
(* Properties                                                              *)
(***************************************************************************)

(* Every key that is held is the business of exactly those who will get    *)
(* its release: it was taken by a binding and nobody else knows of it, or  *)
(* the focused surface or the input method holds it.  So no client is left *)
(* with a key that is stuck, however bindings move the focus while keys    *)
(* are held (keyboard.c process_key_event and keyboard_focus_surface).     *)
ClientSeesHeldKeys ==
    /\ board.focus # NoKey =>
         board.view \cup board.im = board.down \ ToSet(board.tracker)
    /\ board.focus = NoKey => board.view = {}

(* A map repeats a binding only while the key that started it is still     *)
(* held, even when the map was switched off in between (keybinding.c       *)
(* _keybind_execute and cwc_keybind_map_stop_repeat).                      *)
RepeatNeedsAKey == \A m \in MapNames : maps[m].repeated \in board.down \cup {NoKey}

=============================================================================
