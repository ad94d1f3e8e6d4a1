------------------------------- MODULE Pointer -------------------------------
(***************************************************************************)
(* The image of the pointer (input/cursor.c): a name of the cursor theme,  *)
(* a surface of the client under the pointer, or nothing.  It is hidden    *)
(* when the pointer rests, replaced while a window is dragged, lost and    *)
(* loaded again when sizes change, and put back afterwards.                *)
(*                                                                         *)
(* With a hyprcursor theme the compositor animates the image itself, from  *)
(* frames that a timer shows one after another.  The timer is not stopped  *)
(* when the image is hidden or set to a surface, nor when the frames are   *)
(* freed: what it then reads is not followed.  Neither is a surface of a   *)
(* client that was set while the pointer was hidden and is destroyed       *)
(* before it shows again, as nobody listens for its end (cursor.c:1776).   *)
(***************************************************************************)
CONSTANTS Window,     \* surfaces the pointer can be over
          Image,      \* surfaces that clients use as the image
          Shape,      \* names that clients ask for
          Themed, Animated,  \* names of the hyprcursor theme; with frames
          None

VARIABLES theme,      \* hyprcursor_manager_valid
          cursor,     \* struct cwc_cursor, and what wlr_cursor shows
          focus,      \* pointer_state.focused_surface
          living,     \* the surfaces of Image that exist
          asked,      \* what was last asked for outside of a drag
          lost        \* did a step of those named at CursorFollows lose it

pointerVars == <<theme, cursor, focus, living, asked, lost>>

(***************************************************************************)
(* The functions of cursor.c                                               *)
(***************************************************************************)

(* cwc_cursor_hide_cursor                                                  *)
HideCursor(c) ==
    IF c.dragging THEN c ELSE [c EXCEPT !.name = None, !.image = None]

(* The part of cwc_cursor_set_image_by_name that loads; the timer is set   *)
(* only if the theme has the name.                                         *)
Load(c, n) ==
    LET named == [c EXCEPT !.name = n, !.beforeHidden = None, !.image = n]
    IN IF theme /\ n \in Themed
       THEN [named EXCEPT !.frames = n, !.ticking = (n \in Animated)]
       ELSE [named EXCEPT !.frames = None]

SetImageByName(c, n) ==
    CASE c.dragging -> c
      [] ~c.dragging /\ c.hidden -> [c EXCEPT !.beforeHidden = n, !.client = None]
      [] ~c.dragging /\ ~c.hidden /\ n = None -> HideCursor(c)
      [] ~c.dragging /\ ~c.hidden /\ n # None /\ n = c.name -> c
      [] OTHER -> Load(c, n)

(* A variant that leaves the name to come back when the pointer moves.      *)
SetSurfaceBehind(c, s) ==
    CASE c.dragging -> c
      [] ~c.dragging /\ c.hidden -> [c EXCEPT !.client = s]
      [] OTHER -> [c EXCEPT !.client = s, !.watched = s, !.name = None, !.image = s]

SetSurface(c, s) ==
    CASE c.dragging -> c
      [] ~c.dragging /\ c.hidden -> [c EXCEPT !.client = s, !.beforeHidden = None]
      [] OTHER -> [c EXCEPT !.client = s, !.watched = s, !.name = None, !.image = s]

Unhide(c) ==
    LET shown == [c EXCEPT !.hidden = FALSE]
    IN CASE ~c.hidden -> c
         [] c.hidden /\ c.beforeHidden # None -> SetImageByName(shown, c.beforeHidden)
         [] c.hidden /\ c.beforeHidden = None /\ c.client # None ->
                SetSurface(shown, c.client)
         [] OTHER -> shown

(* cwc_cursor_hyprcursor_change_style, of a theme that is there.           *)
ChangeStyle(c) == IF theme THEN [c EXCEPT !.name = None, !.frames = None] ELSE c

(***************************************************************************)
(* What happens to the pointer                                             *)
(***************************************************************************)

(* Does asking for this leave the pointer as it is, or owing a name?       *)
Stays(n) == \/ cursor.dragging \/ cursor.hidden
            \/ cursor.name = n \/ cursor.beforeHidden # None

Followed(c) == c.client = None \/ c.client \in living

(* process_cursor_motion, after cwc_cursor_notify_activity, which shows the*)
(* pointer again; an enter to a surface leaves the image to its client.    *)
Motion(over) ==
    /\ Followed(cursor)
    /\ LET c == Unhide(cursor)
       IN IF c.dragging \/ over # None
          THEN cursor' = c /\ UNCHANGED asked
          ELSE cursor' = SetImageByName(c, "default") /\ asked' = "default"
    /\ focus' = IF cursor.dragging THEN focus ELSE over
    /\ lost' = (lost /\ (over # None \/ Stays("default")))
    /\ UNCHANGED <<theme, living>>

Ask(what, c) ==
    /\ cursor' = c
    /\ asked' = IF cursor.dragging THEN asked ELSE what
    /\ lost' = (lost /\ Stays(what))
    /\ UNCHANGED <<theme, focus, living>>

(* on_request_set_cursor and the tablet's; the client may hide the pointer.*)
RequestSetCursor(s) == focus # None /\ Ask(s, SetSurface(cursor, s))

RequestSetShape(n) == focus # None /\ Ask(n, SetImageByName(cursor, n))

(* cursor_inactive_hide_cursor; in a drag it hides nothing but says so.    *)
Inactive ==
    /\ LET c == [cursor EXCEPT !.hidden = TRUE, !.beforeHidden =
                    IF cursor.hidden \/ cursor.name = None THEN @ ELSE cursor.name]
       IN cursor' = HideCursor(c)
    /\ lost' = (lost \/ cursor.dragging)
    /\ UNCHANGED <<theme, focus, living, asked>>

(* start_interactive_move, also a second one.                              *)
StartMove ==
    /\ cursor' = [SetImageByName(cursor, "grabbing") EXCEPT
                     !.beforeDrag = cursor.name, !.dragging = TRUE]
    /\ lost' = (lost \/ cursor.hidden \/ cursor.dragging)
    /\ UNCHANGED <<theme, focus, living, asked>>

(* start_interactive_resize; nothing is dragged if the layout of the tag is*)
(* none of the three, or the window has no leaf.                           *)
StartResize(dragging) ==
    /\ cursor' = [SetImageByName(cursor, "resize") EXCEPT
                     !.beforeDrag = cursor.name, !.dragging = @ \/ dragging]
    /\ asked' = IF dragging \/ cursor.dragging THEN asked ELSE "resize"
    /\ lost' = (lost \/ cursor.dragging \/ cursor.hidden)
    /\ UNCHANGED <<theme, focus, living>>

Restore(c) ==
    CASE c.beforeDrag # None -> SetImageByName(c, c.beforeDrag)
      [] c.beforeDrag = None /\ c.client # None -> SetSurface(c, c.client)
      [] OTHER -> SetImageByName(c, None)

StopInteractive ==
    /\ cursor.dragging /\ Followed(cursor)
    /\ cursor' = Restore([cursor EXCEPT !.dragging = FALSE])
    /\ UNCHANGED <<theme, focus, living, asked, lost>>

CreateImage(s) ==
    /\ s \notin living \cup {cursor.client}
    /\ living' = living \cup {s}
    /\ UNCHANGED <<theme, cursor, focus, asked, lost>>

(* on_client_side_cursor_destroy; wlroots takes the surface down itself.   *)
DestroyImage(s) ==
    /\ s \in living
    /\ living' = living \ {s}
    /\ LET c == [cursor EXCEPT !.image = IF @ = s THEN None ELSE @]
       IN cursor' = IF c.watched = s
                    THEN [c EXCEPT !.client = None, !.watched = None] ELSE c
    /\ asked' = IF asked = s THEN None ELSE asked
    /\ lost' = (lost \/ (cursor.watched = s /\ cursor.client # s))
    /\ UNCHANGED <<theme, focus>>

(* The window under the pointer goes: on_pointer_focus_change.             *)
FocusGone ==
    /\ focus # None
    /\ focus' = None
    /\ cursor' = SetImageByName(cursor, "default")
    /\ asked' = IF cursor.dragging THEN asked ELSE "default"
    /\ lost' = (lost /\ Stays("default"))
    /\ UNCHANGED <<theme, living>>

(* cwc_cursor_update_scale, whenever the outputs change.                   *)
UpdateScale(sizeChanges) ==
    /\ LET c == IF sizeChanges THEN ChangeStyle(cursor) ELSE cursor
       IN cursor' = SetImageByName(HideCursor(c), c.name)
    /\ lost' = (lost \/ cursor.name = None \/ (theme /\ sizeChanges))
    /\ UNCHANGED <<theme, focus, living, asked>>

(* on_config_commit of another cursor_size.                                *)
ConfigCommit ==
    /\ LET c == ChangeStyle([cursor EXCEPT !.image = "default"])
       IN cursor' = SetImageByName(HideCursor(c), "default")
    /\ asked' = IF cursor.dragging THEN asked ELSE "default"
    /\ lost' = cursor.dragging
    /\ UNCHANGED <<theme, focus, living>>

AnimationLoop ==
    /\ cursor.ticking /\ cursor.frames # None
    /\ cursor' = [cursor EXCEPT !.image = cursor.frames]
    /\ UNCHANGED <<theme, focus, living, asked, lost>>

PointerInit ==
    /\ theme \in BOOLEAN
    /\ cursor = [dragging |-> FALSE, hidden |-> FALSE, name |-> None,
                 beforeHidden |-> None, beforeDrag |-> None,
                 client |-> None, watched |-> None,
                 image |-> None, frames |-> None, ticking |-> FALSE]
    /\ focus = None /\ living = {} /\ asked = None /\ lost = FALSE

PointerNext ==
    \/ \E w \in Window \cup {None} : Motion(w)
    \/ \E s \in living \cup {None} : RequestSetCursor(s)
    \/ \E n \in Shape : RequestSetShape(n)
    \/ \E s \in Image : CreateImage(s) \/ DestroyImage(s)
    \/ Inactive \/ FocusGone
    \/ StartMove \/ StopInteractive
    \/ \E d \in BOOLEAN : StartResize(d) \/ UpdateScale(d)
    \/ ConfigCommit \/ AnimationLoop

(***************************************************************************)
(* Properties                                                              *)
(***************************************************************************)

(* What the pointer shows outside of a drag, once it is not hidden, is what*)
(* was last asked for, in whatever order it was hidden, dragged with, asked*)
(* for another image while it was neither seen nor free, and taken a       *)
(* surface from.  A hyprcursor theme at least shows the current name, and  *)
(* not a frame of another one.  The code gives the image up, until another *)
(* is asked for, when                                                      *)
(*   - the pointer rests during a drag: what was dragged with comes back   *)
(*     after the drag, or at a later time the pointer rests (cursor.c:1443)*)
(*   - a drag begins while another lasts, or while the pointer is hidden   *)
(*     (:622, :777): the image before is forgotten                         *)
(*   - cursor_size changes during a drag (:1489)                           *)
(*   - the scale of an output changes while a client's surface is shown, or*)
(*     at all with a hyprcursor theme, which forgets the name before it is *)
(*     read (:1818)                                                        *)
(*   - a surface goes that was shown before the pointer was hidden, while  *)
(*     the client has set another one: the other is forgotten (:445).      *)
CursorFollows ==
    ~cursor.dragging /\ ~cursor.hidden /\ ~lost =>
        /\ ~theme => cursor.image = asked
        /\ cursor.name # None => cursor.image = cursor.name

=============================================================================
