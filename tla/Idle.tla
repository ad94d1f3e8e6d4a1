-------------------------------- MODULE Idle --------------------------------
(***************************************************************************)
(* Idle inhibition (desktop/idle.c): while a surface that can be seen has  *)
(* an inhibitor the notifier of wlroots is told not to count the user as   *)
(* idle.  The rule is evaluated anew each time; what can go wrong is when: *)
(* a destroyed inhibitor is still listed while its handler runs, and a     *)
(* toplevel may come into view or leave it without anyone asking.          *)
(*                                                                         *)
(* An inhibitor on a toplevel without a container is a null pointer in     *)
(* cwc_toplevel_is_visible; it ends the compositor.  A surface has one     *)
(* inhibitor at most (a bound), so that an inhibitor is its surface.       *)
(***************************************************************************)
EXTENDS Naturals, FiniteSets

CONSTANTS Window,  \* the toplevels
          Layer    \* surfaces that are no toplevels: layer shell, popups

VARIABLES place,       \* toplevel -> "unmapped", "hidden", "shown"
          inhibitors,  \* inhibit_manager->inhibitors
          inhibited,   \* the notifier of wlroots
          waits,       \* an update waits in the event loop
          asked,       \* an output is scheduled, whose service updates too
          quiet,       \* since the last update a toplevel came or went unasked
          running      \* the compositor is

idleVars == <<place, inhibitors, inhibited, waits, asked, quiet, running>>

(* The inhibitors of a list that count, by cwc_toplevel_is_visible.        *)
Valid(list) == {s \in list : s \in Window => place[s] = "shown"}

Update(list) ==
    /\ running' = \A s \in list \cap Window : place[s] # "unmapped"
    /\ inhibited' = IF running' THEN Cardinality(Valid(list)) >= 1 ELSE inhibited
    /\ quiet' = FALSE

OnNewInhibitor(s) ==
    /\ running /\ s \notin inhibitors
    /\ inhibitors' = inhibitors \cup {s}
    /\ Update(inhibitors')
    /\ UNCHANGED <<place, waits, asked>>

(* wlroots emits the signal before it removes the inhibitor from the list. *)
OnDestroyInhibitor(s) ==
    /\ running /\ s \in inhibitors
    /\ waits' = TRUE
    /\ inhibitors' = inhibitors \ {s}
    /\ UNCHANGED <<place, inhibited, asked, quiet, running>>

UpdateLater ==
    /\ running /\ waits
    /\ waits' = FALSE
    /\ Update(inhibitors)
    /\ UNCHANGED <<place, inhibitors, asked>>

(* cwc_output_update_visible, of a scheduled output.                       *)
UpdateVisible ==
    /\ running /\ asked
    /\ asked' = FALSE
    /\ Update(inhibitors)
    /\ UNCHANGED <<place, inhibitors, waits>>

(* Another view, or other tags of a container: both schedule the output.   *)
ViewChange ==
    /\ running
    /\ place' \in {p \in [Window -> {"unmapped", "hidden", "shown"}] :
                      \A w \in Window : p[w] = "unmapped" <=> place[w] = "unmapped"}
    /\ asked' = TRUE
    /\ UNCHANGED <<inhibitors, inhibited, waits, quiet, running>>

(* Minimizing and restoring, another front of a container, sticky, another *)
(* output, mapping and unmapping: they schedule tags or nothing.           *)
QuietChange(w) ==
    /\ running
    /\ \E p \in {"unmapped", "hidden", "shown"} \ {place[w]} : place' = [place EXCEPT ![w] = p]
    /\ quiet' = TRUE
    /\ UNCHANGED <<inhibitors, inhibited, waits, asked, running>>

IdleInit ==
    /\ place = [w \in Window |-> "unmapped"]
    /\ inhibitors = {}
    /\ inhibited = FALSE /\ waits = FALSE /\ asked = FALSE /\ quiet = FALSE
    /\ running = TRUE

IdleNext ==
    \/ \E s \in Window \cup Layer : OnNewInhibitor(s) \/ OnDestroyInhibitor(s)
    \/ UpdateLater
    \/ UpdateVisible
    \/ ViewChange
    \/ \E w \in Window : QuietChange(w)

(* The notifier is never held by nobody: when the last inhibitor is gone   *)
(* an update waits.  A surface that is no toplevel holds it as long as it  *)
(* wants.  And where the notifier differs from what can be seen, an update *)
(* is to come or a toplevel came or went without asking for one.           *)
InhibitionFollows ==
    running =>
        /\ inhibited => inhibitors # {} \/ waits
        /\ inhibitors \cap Layer # {} => inhibited
        /\ inhibited # (Valid(inhibitors) # {}) => waits \/ asked \/ quiet
=============================================================================
