------------------------------- MODULE Resizes -------------------------------
(***************************************************************************)
(* How a window gets a new size: the compositor asks, the client answers   *)
(* with a commit, and until then no frame is drawn, so that windows that   *)
(* are resized together are shown together (container.c, toplevel.c,       *)
(* output.c).  A pointer that resizes a window asks at the rate of the     *)
(* output and keeps the box that came too early for the release (cursor.c).*)
(*                                                                         *)
(* Sizes are widths, without borders and gaps, each container has one      *)
(* window, and whether it floats does not change.  X11 windows are told    *)
(* their size without an answer and are left out.  A tiled client takes    *)
(* the size it is asked for; one that floats may choose.                   *)
(***************************************************************************)
EXTENDS Integers, FiniteSets

CONSTANTS Window, Floating, Output,
          Width,  \* window -> the widths it is asked for and chooses from
          Least,  \* the least one of a client that floats
          None

VARIABLES state,    \* window -> "unmapped", "mapped" or "gone"
          shown,    \* the windows that are visible
          client,   \* window -> what it shows and what it was asked for
          owes,     \* the windows whose resize_serial is not zero
          box,      \* window -> width of its container
          drag,     \* the window the pointer resizes, pending_box, and whether
                    \* the pointer has gone on since that was stored
          sync,     \* server.resize_count, and for which windows it waits;
                    \* a count that is not positive acts as 0, and is 0 here
          waiting   \* the outputs whose waiting_since is set

resizeVars == <<state, shown, client, owes, box, drag, sync, waiting>>

NoDrag == [window |-> None, pending |-> 0, stale |-> FALSE]
Fresh(width) == [width |-> width, asked |-> 0, answered |-> TRUE, resizing |-> FALSE,
                 astray |-> FALSE, loose |-> FALSE]
Larger(a, b) == IF a > b THEN a ELSE b

(* The count is set to -1 or to -1e6.                                      *)
GivenUp == [count |-> 0, for |-> {}, late |-> FALSE, lost |-> 0]

(***************************************************************************)
(* cwc_container_set_size with all_toplevel_set_size, when the count is s  *)
(***************************************************************************)

Asks(w, width) == client[w].width # width
Clamped(w, width) == IF w \in Floating THEN Larger(width, Least) ELSE width

Counted(s, w, width) ==
    IF Asks(w, width) /\ w \in shown /\ w \notin owes
    THEN [s EXCEPT !.count = @ + 1, !.for = @ \cup {w}]
    ELSE s

(* The client keeps the size it was asked for last when it has the one     *)
(* wanted: that may be on its way, or be told again with the next state.   *)
Told(w, width) ==
    IF Asks(w, width)
    THEN [client EXCEPT ![w].asked = Clamped(w, width), ![w].answered = FALSE,
                        ![w].astray = FALSE]
    ELSE [client EXCEPT ![w].astray = client[w].asked \notin {0, width},
                        ![w].loose = FALSE]

Owed(w, width, s) ==
    /\ owes' = IF Asks(w, width) /\ w \in shown THEN owes \cup {w} ELSE owes
    /\ sync' = Counted(s, w, width)

SetSize(w, width, s) ==
    /\ box' = [box EXCEPT ![w] = IF Asks(w, width) THEN Clamped(w, width) ELSE width]
    /\ Owed(w, width, s)

Mapped == {w \in Window : state[w] = "mapped"}

(* A layout, a snap or Lua.                                                *)
Resize(w, width) ==
    /\ w \in Mapped
    /\ client' = Told(w, width)
    /\ SetSize(w, width, sync)
    /\ UNCHANGED <<state, shown, drag, waiting>>

(***************************************************************************)
(* The client                                                              *)
(***************************************************************************)

(* The part of on_surface_commit that takes the answer: an answer the      *)
(* count no longer waits for is taken from it all the same.                *)
Answered(w) ==
    IF w \notin owes THEN UNCHANGED <<owes, sync>>
    ELSE /\ owes' = owes \ {w}
         /\ LET rest == sync.for \ {w}
            IN sync' = [sync EXCEPT !.count = Larger(0, @ - 1), !.for = rest,
                                    !.late = rest # {} /\ (@ \/ w \notin sync.for)]

(* on_surface_commit; last says whether it answers all the client was told.*)
Commit(w, width, last) ==
    LET c == client[w]  \* whether a tiled client is resized is not read
        resizing == IF last THEN drag.window = w /\ w \in Floating ELSE c.resizing
        follows == w \in Floating /\ width # c.width /\ ~resizing
    IN /\ w \in Mapped
       /\ w \in Floating \/ ~c.answered
       /\ w \in Floating => width >= Least
       /\ w \notin Floating /\ c.asked = 0 => width = c.width
       /\ w \notin Floating /\ c.asked # 0 /\ last => width = c.asked
       /\ ~last => ~c.answered
       /\ IF last THEN Answered(w) ELSE UNCHANGED <<owes, sync>>
       /\ box' = IF follows THEN [box EXCEPT ![w] = width] ELSE box
       /\ client' = [client EXCEPT ![w] =
                       [width |-> width, asked |-> c.asked, resizing |-> resizing,
                        answered |-> c.answered \/ last,
                        astray |-> IF follows THEN c.asked \notin {0, width}
                                   ELSE c.astray,
                        loose |-> w \in Floating /\ ~follows /\ width # box[w]]]
       /\ UNCHANGED <<state, shown, drag, waiting>>

(* cwc_container_init, and the commit that maps the window.                *)
Map(w, width) ==
    /\ state[w] = "unmapped" /\ (w \in Floating => width >= Least)
    /\ state' = [state EXCEPT ![w] = "mapped"]
    /\ shown' = shown \cup {w}
    /\ client' = [client EXCEPT ![w] = Fresh(width)]
    /\ box' = [box EXCEPT ![w] = width]
    /\ Answered(w)
    /\ UNCHANGED <<drag, waiting>>

Released == [client EXCEPT ![drag.window].answered = FALSE]

(* on_surface_unmap ends the resizing first, which may ask once more.      *)
Unmap(w) ==
    /\ w \in Mapped
    /\ state' = [state EXCEPT ![w] = "unmapped"]
    /\ shown' = shown \ {w}
    /\ client' = [client EXCEPT ![w] = Fresh(0)] /\ box' = [box EXCEPT ![w] = 0]
    /\ drag' = IF drag.window = w THEN NoDrag ELSE drag
    /\ IF drag.window = w /\ w \in Floating THEN Owed(w, drag.pending, sync)
       ELSE UNCHANGED <<owes, sync>>
    /\ UNCHANGED waiting

(* on_toplevel_destroy: what the window owes remains counted.              *)
Destroy(w) ==
    /\ state[w] = "unmapped"
    /\ state' = [state EXCEPT ![w] = "gone"]
    /\ owes' = owes \ {w}
    /\ sync' = [sync EXCEPT !.for = @ \ {w},
                            !.lost = IF w \in owes /\ sync.count > 0 THEN @ + 1 ELSE @]
    /\ UNCHANGED <<shown, client, box, drag, waiting>>

(* Another tag is in view, or the window is minimized.                     *)
Hide(w) ==
    /\ w \in Mapped
    /\ shown' = IF w \in shown THEN shown \ {w} ELSE shown \cup {w}
    /\ UNCHANGED <<state, client, owes, box, drag, sync, waiting>>

(***************************************************************************)
(* The pointer                                                             *)
(***************************************************************************)

(* start_interactive_resize; the window may be asked at once for its box.  *)
Start(w, due) ==
    /\ drag.window = None /\ w \in Mapped
    /\ drag' = IF w \in Floating THEN [window |-> w, pending |-> box[w], stale |-> FALSE]
               ELSE [NoDrag EXCEPT !.window = w]
    /\ IF due /\ w \in Floating
       THEN /\ client' = [Told(w, box[w]) EXCEPT ![w].answered = FALSE]
            /\ SetSize(w, box[w], sync)
       ELSE /\ client' = [client EXCEPT ![w].answered = FALSE]
            /\ UNCHANGED <<box, owes, sync>>
    /\ UNCHANGED <<state, shown, waiting>>

(* cwc_cursor_check_interactive with process_cursor_resize and             *)
(* schedule_resize: a box that is asked for at once is not the pending one.*)
Motion(width, due) ==
    /\ drag.window \in Floating
    /\ LET w == drag.window
       IN IF due
          THEN /\ client' = Told(w, width)
               /\ SetSize(w, width, GivenUp)
               /\ drag' = [drag EXCEPT !.stale = width # drag.pending]
          ELSE /\ drag' = [drag EXCEPT !.pending = width, !.stale = FALSE]
               /\ sync' = GivenUp
               /\ UNCHANGED <<client, owes, box>>
    /\ UNCHANGED <<state, shown, waiting>>

MotionTiled ==
    /\ drag.window \in Window \ Floating
    /\ sync' = GivenUp
    /\ UNCHANGED <<state, shown, client, owes, box, drag, waiting>>

(* stop_interactive                                                        *)
Stop ==
    /\ drag.window # None
    /\ drag' = NoDrag
    /\ LET w == drag.window
       IN IF w \in Floating
          THEN /\ client' = [Told(w, drag.pending) EXCEPT ![w].answered = FALSE]
               /\ SetSize(w, drag.pending, sync)
          ELSE /\ client' = Released
               /\ UNCHANGED <<owes, box, sync>>
    /\ UNCHANGED <<state, shown, waiting>>

(***************************************************************************)
(* Frames                                                                  *)
(***************************************************************************)

(* output_repaint with allow_render, when there is something to draw; over *)
(* says that the output has waited for more than half a second.            *)
Frame(o, over) ==
    /\ over => o \in waiting
    /\ sync' = IF over THEN GivenUp ELSE sync
    /\ waiting' = IF ~over /\ sync.count > 0 THEN waiting \cup {o} ELSE waiting \ {o}
    /\ UNCHANGED <<state, shown, client, owes, box, drag>>

ResizeInit ==
    /\ state = [w \in Window |-> "unmapped"] /\ shown = {} /\ owes = {}
    /\ client = [w \in Window |-> Fresh(0)]
    /\ box = [w \in Window |-> 0] /\ drag = NoDrag
    /\ sync = GivenUp /\ waiting = {}

ResizeNext ==
    \/ \E w \in Window : \E width \in Width[w] : Resize(w, width) \/ Map(w, width)
    \/ \E w \in Window, last \in BOOLEAN : \E width \in Width[w] : Commit(w, width, last)
    \/ \E w \in Window : Unmap(w) \/ Destroy(w) \/ Hide(w)
    \/ \E w \in Window, due \in BOOLEAN : Start(w, due)
    \/ \E w \in {drag.window} \cap Window, due \in BOOLEAN :
           \E width \in Width[w] : Motion(width, due)
    \/ MotionTiled \/ Stop
    \/ \E o \in Output, over \in BOOLEAN : Frame(o, over)

(***************************************************************************)
(* Properties                                                              *)
(***************************************************************************)

(* Frames are held back for windows that owe an answer, or have gone with  *)
(* it, and they are held back while one does for which they wait, unless   *)
(* an answer has come that they had given up waiting for.                  *)
FramesWait ==
    /\ sync.count <= Cardinality(owes) + sync.lost
    /\ sync.for \subseteq owes
    /\ sync.for # {} /\ ~sync.late => sync.count >= Cardinality(sync.for)

(* What a client was asked for last is the width of its container, unless  *)
(* it already had that when another was on its way; and once it has        *)
(* answered that is its width, unless it chose another itself while it was *)
(* resized by the pointer, or kept the one it had.                         *)
SizesAgree ==
    \A w \in Mapped : ~client[w].astray =>
        /\ client[w].asked \in {0, box[w]}
        /\ client[w].answered /\ ~client[w].loose => client[w].width = box[w]

(* The box that the release will apply is the last that was asked for.     *)
PendingIsLast == ~drag.stale

============================================================================
