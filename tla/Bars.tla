-------------------------------- MODULE Bars --------------------------------
(***************************************************************************)
(* What status bars are told by the dwl-ipc plugin (plugins/dwl-ipc.c and  *)
(* protocol/dwl_ipc_v2.c): of each screen whether it has the focus, which  *)
(* tag it shows, how many windows its tags have, and the title of its      *)
(* window.  The plugin listens to signals of the compositor; the tags and  *)
(* the title are sent from idle callbacks, one of each kind per screen.    *)
(*                                                                         *)
(* A window is on one tag and a screen shows one.  The frame event that    *)
(* ends each change is left out: every set function arms it, and the end   *)
(* of the bar's object disarms it.  What the code reads after it was freed *)
(* is not followed: a bar that asks for a screen which is just gone, or    *)
(* that moves the focused window when there is none (dwl-ipc.c:77), and a  *)
(* plugin that is unloaded while an idle callback is pending, which stays  *)
(* armed (:440), or while a client holds the manager (dwl_ipc_v2.c:368).   *)
(***************************************************************************)
EXTENDS FiniteSets

CONSTANTS Screen, Window, Bar, Tag,
          Watched,  \* bound: the screens that a bar is opened for
          None

VARIABLES loaded,    \* is the plugin
          screen,    \* the outputs with their struct cwc_output_addon
          window,    \* the mapped windows
          current,   \* server.focused_output
          focused,   \* the window with the keyboard focus
          bar        \* a client's object for an output, and what it was told

barVars == <<loaded, screen, window, current, focused, bar>>

Live == {s \in Screen : screen[s].live}
On(s) == {w \in Window : window[w] # None /\ window[w].on = s}
Shown(s) == {w \in On(s) : window[w].tag = screen[s].tag}
BarsOf(s) == {b \in Bar : bar[b] # None /\ bar[b].on = s}

(* get_ipc_output_tag_state for the tags of a screen.                      *)
Tags(s) == [shown |-> screen[s].tag,
            count |-> [t \in Tag |-> Cardinality({w \in On(s) : window[w].tag = t})]]

Tell(s, field, value) ==
    [b \in Bar |-> IF b \in BarsOf(s) THEN [bar[b] EXCEPT ![field] = value] ELSE bar[b]]

(* The bars of the screens ss are not going to be told of a change: what   *)
(* they know of it is put out of the account, see BarsFollow.              *)
Missed(told, ss, field) ==
    [b \in Bar |-> IF bar[b] # None /\ bar[b].on \in ss
                   THEN [told[b] EXCEPT ![field] = None] ELSE told[b]]

(* update_tag_idle_source, if the plugin has an addon at the screen.       *)
TagsLater(s) == [screen EXCEPT ![s].tagsDue = loaded]

(***************************************************************************)
(* Focus: client::unfocus, then client::focus, of windows that are mapped. *)
(* The first empties the title on the focused screen, the second sends the *)
(* new one later, unless that of another window is due.                    *)
(***************************************************************************)

(* The bars when the focus moves to w while s is the focused screen.       *)
Unfocused(w, s) ==
    IF focused \notin {None, w} /\ window[focused].on = s THEN Tell(s, "title", "") ELSE bar

DueTitle(s, w) ==
    IF loaded /\ screen[s].titleDue = None THEN [screen EXCEPT ![s].titleDue = w] ELSE screen

Skipped(told, s, w) ==
    IF screen[s].titleDue \notin {None, w} THEN Missed(told, {s}, "title") ELSE told

Focus(w) ==
    /\ window[w] # None /\ w # focused
    /\ focused' = w
    /\ screen' = DueTitle(window[w].on, w)
    /\ bar' = Skipped(Unfocused(w, current), window[w].on, w)
    /\ UNCHANGED <<loaded, window, current>>

Blur ==
    /\ focused # None /\ focused' = None
    /\ bar' = Unfocused(None, current)
    /\ UNCHANGED <<loaded, screen, window, current>>

(* cwc_output_focus_newest_focus_visible_toplevel: which of the windows was*)
(* focused last is left open.                                              *)
Newest(s, w) == IF Shown(s) = {} THEN w = None ELSE w \in Shown(s)

(* cwc_output_focus: the window first, then screen::focus and unfocus.     *)
FocusScreen(s) ==
    /\ s \in Live \ {current}
    /\ current' = s
    /\ \E w \in Window \cup {None} :
          /\ Newest(s, w) /\ focused' = w
          /\ screen' = IF w \in {None, focused} THEN screen ELSE DueTitle(s, w)
          /\ LET told == IF w \in {None, focused} THEN Unfocused(w, s)
                         ELSE Skipped(Unfocused(w, s), s, w)
             IN bar' = [b \in Bar |-> IF b \in BarsOf(s) \cup BarsOf(current)
                                      THEN [told[b] EXCEPT !.active = (bar[b].on = s)]
                                      ELSE told[b]]
    /\ UNCHANGED <<loaded, window>>

(***************************************************************************)
(* Windows and tags                                                        *)
(***************************************************************************)

Map(w) ==
    /\ window[w] = None
    /\ window' = [window EXCEPT ![w] = [on |-> current, tag |-> screen[current].tag]]
    /\ screen' = TagsLater(current)
    /\ UNCHANGED <<loaded, current, focused, bar>>

(* A variant that only resets the title.                                   *)
UnmapUncounted(w) ==
    /\ window[w] # None /\ w # focused
    /\ window' = [window EXCEPT ![w] = None]
    /\ bar' = IF window[w].on = current THEN Missed(bar, {current}, "title") ELSE bar
    /\ UNCHANGED <<loaded, screen, current, focused>>

(* on_client_unmap of a window without the focus: the title of the one that*)
(* has it is emptied.                                                      *)
Unmap(w) ==
    /\ window[w] # None /\ w # focused
    /\ window' = [window EXCEPT ![w] = None]
    /\ screen' = TagsLater(window[w].on)
    /\ bar' = IF window[w].on = current THEN Missed(bar, {current}, "title") ELSE bar
    /\ UNCHANGED <<loaded, current, focused>>

(* Of the focused window; the next is focused when the container has gone. *)
UnmapFocused(w) ==
    /\ window[w] # None /\ w = focused
    /\ window' = [window EXCEPT ![w] = None]
    /\ LET s == window[w].on
           told == IF s = current THEN Tell(s, "title", "") ELSE bar
       IN \E n \in (Window \cup {None}) \ {w} :
            /\ IF Shown(s) \subseteq {w} THEN n = None ELSE n \in Shown(s)
            /\ focused' = n
            /\ IF n = None THEN screen' = TagsLater(s) /\ bar' = told
               ELSE /\ screen' = [DueTitle(s, n) EXCEPT ![s].tagsDue = loaded]
                    /\ bar' = Skipped(told, s, n)
    /\ UNCHANGED <<loaded, current>>

(* client::prop::tag, also by a bar (on_request_set_client_tags).          *)
SetTag(w, t) ==
    /\ window[w] # None /\ window[w].tag # t
    /\ window' = [window EXCEPT ![w].tag = t]
    /\ screen' = TagsLater(window[w].on)
    /\ UNCHANGED <<loaded, current, focused, bar>>

(* screen::prop::active_tag, also by a bar (on_request_set_tags).          *)
View(s, t) ==
    /\ s \in Live /\ screen[s].tag # t
    /\ screen' = [TagsLater(s) EXCEPT ![s].tag = t]
    /\ UNCHANGED <<loaded, window, current, focused, bar>>

(* luaC_tag_set_selected of the two tags emits no such signal.             *)
Select(s, t) ==
    /\ s \in Live /\ screen[s].tag # t
    /\ screen' = [screen EXCEPT ![s].tag = t]
    /\ bar' = Missed(bar, {s}, "tags")
    /\ UNCHANGED <<loaded, window, current, focused>>

(* __cwc_container_move_to_output emits nothing the plugin listens to.     *)
MoveToScreen(w, s) ==
    /\ window[w] # None /\ s \in Live \ {window[w].on}
    /\ window' = [window EXCEPT ![w] = [on |-> s, tag |-> screen[s].tag]]
    /\ LET told == Missed(bar, {s, window[w].on}, "tags")
       IN bar' = IF w = focused THEN Missed(told, {s}, "title") ELSE told
    /\ UNCHANGED <<loaded, screen, current, focused>>

(* The properties of the focused window: on_client_prop_change.            *)
PropChange ==
    /\ focused # None
    /\ screen' = DueTitle(window[focused].on, focused)
    /\ UNCHANGED <<loaded, window, current, focused, bar>>

(***************************************************************************)
(* Idle callbacks                                                          *)
(***************************************************************************)

UpdateAllTagState(s) ==
    /\ screen[s].tagsDue
    /\ screen' = [screen EXCEPT ![s].tagsDue = FALSE]
    /\ bar' = Tell(s, "tags", Tags(s))
    /\ UNCHANGED <<loaded, window, current, focused>>

UpdateProp(s) ==
    /\ screen[s].titleDue # None
    /\ screen' = [screen EXCEPT ![s].titleDue = None]
    /\ bar' = IF screen[s].titleDue = focused THEN Tell(s, "title", focused) ELSE bar
    /\ UNCHANGED <<loaded, window, current, focused>>

(***************************************************************************)
(* Bars, screens and the plugin                                            *)
(***************************************************************************)

(* on_new_dwl_ipc_output: the title is that of the newest shown window.    *)
Bind(b, s) ==
    /\ loaded /\ bar[b] = None /\ s \in Live
    /\ \E w \in Window \cup {None} :
          /\ IF focused \in Shown(s) THEN w = focused ELSE Newest(s, w)
          /\ bar' = [bar EXCEPT ![b] =
                [on |-> s, active |-> current = s, tags |-> Tags(s),
                 title |-> IF focused \in On(s) \ Shown(s) THEN None
                           ELSE IF w = None THEN "" ELSE w]]
    /\ UNCHANGED <<loaded, screen, window, current, focused>>

Release(b) ==
    /\ bar[b] # None
    /\ bar' = [bar EXCEPT ![b] = None]
    /\ UNCHANGED <<loaded, screen, window, current, focused>>

Fresh == [live |-> TRUE, tag |-> CHOOSE t \in Tag : TRUE, tagsDue |-> FALSE, titleDue |-> None]
Gone == [Fresh EXCEPT !.live = FALSE]

(* on_screen_new; windows that come home are moved afterwards.             *)
Plug(s) ==
    /\ s \notin Live
    /\ screen' = [screen EXCEPT ![s] = Fresh]
    /\ UNCHANGED <<loaded, window, current, focused, bar>>

(* on_output_destroy, of a screen without the focus: its windows are moved *)
(* to another, each to its tag there; only if that is not the shown one is *)
(* the tag seen to change.  The addon goes with the wlr_output, the objects*)
(* of bars before it.                                                      *)
Unplug(s, o) ==
    /\ s \in Live \ {current} /\ o \in Live \ {s}
    /\ window' = [w \in Window |-> IF w \in On(s) THEN [window[w] EXCEPT !.on = o]
                                   ELSE window[w]]
    /\ screen' = [screen EXCEPT ![s] = Gone,
                                ![o].tagsDue = @ \/ (loaded /\ \E w \in On(s) :
                                                        window[w].tag # screen[o].tag)]
    /\ LET kept == [b \in Bar |-> IF b \in BarsOf(s) THEN None ELSE bar[b]]
           told == IF On(s) = {} THEN kept ELSE Missed(kept, {o}, "tags")
       IN bar' = IF focused \in On(s) THEN Missed(told, {o}, "title") ELSE told
    /\ UNCHANGED <<loaded, current, focused>>

DwlIpcSetup ==
    /\ ~loaded /\ loaded' = TRUE
    /\ UNCHANGED <<screen, window, current, focused, bar>>

DwlIpcCleanup ==
    /\ loaded /\ \A s \in Live : ~screen[s].tagsDue /\ screen[s].titleDue = None
    /\ loaded' = FALSE
    /\ bar' = [b \in Bar |-> None]
    /\ UNCHANGED <<screen, window, current, focused>>

BarsInit ==
    /\ loaded = FALSE
    /\ screen = [s \in Screen |-> Fresh]
    /\ window = [w \in Window |-> None] /\ focused = None
    /\ current = CHOOSE s \in Screen : TRUE
    /\ bar = [b \in Bar |-> None]

BarsNext ==
    \/ \E w \in Window : Focus(w) \/ Map(w) \/ Unmap(w) \/ UnmapFocused(w)
    \/ \E w \in Window, t \in Tag : SetTag(w, t)
    \/ \E w \in Window, s \in Screen : MoveToScreen(w, s)
    \/ \E s \in Screen : FocusScreen(s) \/ UpdateAllTagState(s) \/ UpdateProp(s) \/ Plug(s)
    \/ \E s \in Screen, t \in Tag : View(s, t) \/ Select(s, t)
    \/ \E s, o \in Screen : Unplug(s, o)
    \/ \E b \in Bar : Release(b) \/ \E s \in Watched : Bind(b, s)
    \/ PropChange \/ Blur \/ DwlIpcSetup \/ DwlIpcCleanup

(***************************************************************************)
(* Properties                                                              *)
(***************************************************************************)

(* A bar belongs to a screen that is there, and knows whether it has the   *)
(* focus; unless they are about to be sent it knows which tag is shown and *)
(* the number of windows of each, and on the focused screen the title of   *)
(* the focused window.  It is told neither when a window is moved from or  *)
(* to the screen, or rescued to it, nor when Lua selects a tag; the title  *)
(* is lost when another window of the screen is unmapped, when a second    *)
(* gets the focus while that of the first is due, when the window with the *)
(* focus moves to the screen, and at first if it is on a hidden tag.       *)
BarsFollow ==
    \A b \in Bar : bar[b] # None =>
        LET s == bar[b].on
        IN /\ s \in Live
           /\ bar[b].active = (current = s)
           /\ screen[s].tagsDue \/ bar[b].tags \in {None, Tags(s)}
           /\ s = current /\ focused # None /\ screen[s].titleDue = None =>
                 window[focused].on # s \/ bar[b].title \in {None, focused}

=============================================================================
