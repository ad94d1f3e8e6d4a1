-------------------------------- MODULE Touch --------------------------------
(***************************************************************************)
(* The seat is `down' from the moment something presses on a surface until *)
(* it is let go: motion in between goes to that surface, and no click      *)
(* moves the focus (input/seat.c, input/touch.c, input/tablet.c and the    *)
(* button handler of input/cursor.c).  One flag serves the buttons of the  *)
(* mouse, all fingers and the pen, and fingers and pen are turned into     *)
(* button events on surfaces that do not understand them.  Whatever the    *)
(* flag says, the hardware is only known by its events: fingers, buttons   *)
(* and pen are what is really held.                                        *)
(***************************************************************************)

CONSTANTS Finger, Button, Surface,
          Aware,   \* the surfaces that accept touch and tablet events
          None     \* NULL

VARIABLES
  held,    \* fingers and buttons that are down, the pen
  points,  \* the touch points that are tracked
  down,    \* is, by (input_simulation), on (init_surface)
  alive    \* the surfaces that exist

touchVars == <<held, points, down, alive>>

Nothing == [is |-> FALSE, by |-> "pointer", on |-> None]

(* cwc_seat_begin_down: nothing happens outside of every surface.          *)
BeginDown(d, s, mode) == IF s = None THEN d ELSE [is |-> TRUE, by |-> mode, on |-> s]

(* process_cursor_button: a press begins and a release ends it, whoever    *)
(* else is still pressing.                                                 *)
PressOrRelease(d, s, press) == IF press THEN BeginDown(d, s, "pointer") ELSE Nothing

ButtonPress(b, s) ==
    /\ b \notin held
    /\ held' = held \cup {b}
    /\ down' = PressOrRelease(down, s, TRUE)
    /\ UNCHANGED <<points, alive>>

ButtonRelease(b) ==
    /\ b \in held
    /\ held' = held \ {b}
    /\ down' = PressOrRelease(down, None, FALSE)
    /\ UNCHANGED <<points, alive>>

(* A finger that touches no surface is not tracked.                        *)
FingerDown(f, s) ==
    /\ f \notin held
    /\ held' = held \cup {f}
    /\ points' = IF s = None THEN points ELSE points \cup {f}
    /\ down' = IF s = None THEN down
               ELSE IF s \in Aware THEN BeginDown(down, s, "touch")
               ELSE PressOrRelease(down, s, TRUE)
    /\ UNCHANGED alive

(* A variant that leaves it to the event the client is sent.               *)
ForgetOnly(d, f) == d

(* touch_point_destroy_by_id: with the last finger the seat is let go.     *)
Forget(d, f) == IF points \ {f} = {} THEN Nothing ELSE d

FingerUp(f) ==
    /\ f \in held
    /\ held' = held \ {f}
    /\ points' = points \ {f}
    /\ down' = Forget(IF down.by = "touch" THEN down
                      ELSE PressOrRelease(down, None, FALSE), f)
    /\ UNCHANGED alive

FingerCancel(f) ==
    /\ f \in held
    /\ held' = held \ {f}
    /\ points' = points \ {f}
    /\ down' = Forget(down, f)
    /\ UNCHANGED alive

(* process_tablet_tool_tip.                                                *)
TipDown(s) ==
    /\ "pen" \notin held
    /\ held' = held \cup {"pen"}
    /\ down' = IF s = None THEN down
               ELSE IF s \in Aware THEN BeginDown(down, s, "tablet")
               ELSE PressOrRelease(down, s, TRUE)
    /\ UNCHANGED <<points, alive>>

(* Letting go ends whatever the seat was down for.                         *)
TipUp ==
    /\ "pen" \in held
    /\ held' = held \ {"pen"}
    /\ down' = Nothing
    /\ UNCHANGED <<points, alive>>

(* on_start_drag: a client starts a drag and drop from a press.            *)
StartDrag ==
    /\ down.is
    /\ down' = Nothing
    /\ UNCHANGED <<held, points, alive>>

NewSurface(s) ==
    /\ s \notin alive
    /\ alive' = alive \cup {s}
    /\ UNCHANGED <<held, points, down>>

(* on_surface_tracker_destroy; the seat stays down on nothing.             *)
DestroySurface(s) ==
    /\ s \in alive
    /\ alive' = alive \ {s}
    /\ down' = [down EXCEPT !.on = IF @ = s THEN None ELSE @]
    /\ UNCHANGED <<held, points>>

TouchInit == held = {} /\ points = {} /\ down = Nothing /\ alive = {}

TouchNext ==
    \/ \E s \in alive \cup {None} : \/ \E f \in Finger : FingerDown(f, s)
                                    \/ \E b \in Button : ButtonPress(b, s)
                                    \/ TipDown(s)
    \/ \E f \in Finger : FingerUp(f) \/ FingerCancel(f)
    \/ \E b \in Button : ButtonRelease(b)
    \/ \E s \in Surface : NewSurface(s) \/ DestroySurface(s)
    \/ TipUp
    \/ StartDrag

TouchSpec == TouchInit /\ [][TouchNext]_touchVars

(***************************************************************************)
(* Properties                                                              *)
(***************************************************************************)

(* When neither finger nor button nor pen presses any more, the seat knows *)
(* it, in whatever order they came and went and whatever surfaces died     *)
(* under them: a seat that stayed down would hold every motion to a        *)
(* surface nobody presses on, and no click would move the focus (seat.c    *)
(* cwc_seat_end_down, touch.c touch_point_destroy_by_id).                  *)
SeatIsReleased == held = {} => ~down.is /\ points = {}

(* The surface the seat is down on exists (seat.c surface_tracker).        *)
DownOnLiving == down.on \in alive \cup {None}

=============================================================================
