----------------------------- MODULE TextInputs ------------------------------
(***************************************************************************)
(* The text fields of clients and the input method that writes into them   *)
(* (text_input.c), as the keyboard focus moves, the input method comes and *)
(* goes and either side answers late.  Module Focus says where the focus   *)
(* goes; here it moves at will, and a guarded move is one to a lock        *)
(* surface or an exclusive layer surface, of which no text input is told.  *)
(* Each client has one surface.  What is written is left out.              *)
(***************************************************************************)
EXTENDS Integers, Lists

CONSTANTS TextInput, Surface,
          Owner,   \* text input -> the surface of its client
          None

VARIABLES method,    \* the input method: "none", "idle" or "active"
          inputs,    \* seat.text_inputs, newest first
          entered,   \* text input -> its focused_surface
          enabled,   \* those that were enabled last, even if they have gone
          focus,     \* the keyboard focus
          focused,   \* seat.focused_text_input
          aside,     \* the focus has moved and the text inputs were not told
          extras     \* seat.kbd_grab, and the popup of the input method

textVars == <<method, inputs, entered, enabled, focus, focused, aside, extras>>

Members == {inputs[i] : i \in DOMAIN inputs}
Deactivated == IF method = "none" THEN "none" ELSE "idle"
NoExtras == [grab |-> FALSE, popup |-> FALSE]

(***************************************************************************)
(* text_input_try_focus_surface, when t -> e[t] is what they have entered: *)
(* the last of the list wins                                               *)
(***************************************************************************)

LastOf(s) ==
    LET own == {i \in DOMAIN inputs : Owner[inputs[i]] = s}
    IN IF own = {} THEN focused ELSE inputs[CHOOSE i \in own : \A j \in own : j <= i]

TryFocus(s, e) ==
    /\ entered' = [t \in TextInput |-> IF t \in Members /\ Owner[t] = s THEN s ELSE None]
    /\ method' = IF \E t \in Members : e[t] # None THEN Deactivated ELSE method
    /\ focused' = LastOf(s)
    /\ aside' = FALSE

(* on_keyboard_focus_change                                                *)
FocusChange(s, e, guarded) ==
    /\ focus' = s
    /\ IF guarded \/ method = "none"
       THEN /\ entered' = e
            /\ aside' = TRUE
            /\ UNCHANGED <<method, focused>>
       ELSE TryFocus(s, e)

MoveFocus(s, guarded) ==
    /\ s # focus
    /\ FocusChange(s, entered, guarded)
    /\ UNCHANGED <<inputs, enabled, extras>>

(* A surface that goes away is left by its text inputs, and then by the    *)
(* keyboard.                                                               *)
SurfaceDestroy(s, guarded) ==
    /\ focus = s
    /\ FocusChange(None, [t \in TextInput |-> IF entered[t] = s THEN None ELSE entered[t]],
                   guarded)
    /\ UNCHANGED <<inputs, enabled, extras>>

(***************************************************************************)
(* Text inputs                                                             *)
(***************************************************************************)

(* Bound: one that has gone while it was enabled does not come again.      *)
NewTextInput(t) ==
    /\ t \notin Members \cup enabled
    /\ inputs' = <<t>> \o inputs
    /\ UNCHANGED <<method, entered, enabled, focus, focused, aside, extras>>

(* The enabling, and the disabling of one that has been left, may come     *)
(* after that of another client.                                           *)
Enable(t) ==
    /\ t \in Members \ enabled
    /\ enabled' = enabled \cup {t}
    /\ method' = IF method = "none" THEN "none" ELSE "active"
    /\ UNCHANGED <<inputs, entered, focus, focused, aside, extras>>

Disable(t) ==
    /\ t \in Members \cap enabled
    /\ enabled' = enabled \ {t}
    /\ method' = Deactivated
    /\ UNCHANGED <<inputs, entered, focus, focused, aside, extras>>

TextInputDestroy(t) ==
    /\ t \in Members
    /\ inputs' = RemoveAt(inputs, CHOOSE i \in DOMAIN inputs : inputs[i] = t)
    /\ entered' = [entered EXCEPT ![t] = None]
    /\ focused' = IF focused = t THEN None ELSE focused
    /\ UNCHANGED <<method, enabled, focus, aside, extras>>

(***************************************************************************)
(* The input method                                                        *)
(***************************************************************************)

(* Another one is told that it is unavailable.                             *)
NewInputMethod ==
    /\ method = "none"
    /\ IF focused # None
       THEN /\ method' = "idle"
            /\ UNCHANGED <<entered, focused, aside>>
       ELSE /\ entered' = [t \in TextInput |->
                              IF t \in Members /\ Owner[t] = focus THEN focus ELSE None]
            /\ method' = "idle"
            /\ focused' = LastOf(focus)
            /\ aside' = FALSE
    /\ UNCHANGED <<inputs, enabled, focus, extras>>

(* Its popup and its grab go with it.                                      *)
InputMethodDestroy ==
    /\ method # "none"
    /\ method' = "none"
    /\ extras' = NoExtras
    /\ UNCHANGED <<inputs, entered, enabled, focus, focused, aside>>

(* A second grab is refused.                                               *)
GrabKeyboard ==
    /\ method # "none" /\ ~extras.grab
    /\ extras' = [extras EXCEPT !.grab = TRUE]
    /\ UNCHANGED <<method, inputs, entered, enabled, focus, focused, aside>>

GrabDestroy ==
    /\ extras.grab
    /\ extras' = [extras EXCEPT !.grab = FALSE]
    /\ UNCHANGED <<method, inputs, entered, enabled, focus, focused, aside>>

Popup ==
    /\ method # "none"
    /\ extras' = [extras EXCEPT !.popup = ~@]
    /\ UNCHANGED <<method, inputs, entered, enabled, focus, focused, aside>>

TextInit ==
    /\ method = "none" /\ inputs = <<>> /\ entered = [t \in TextInput |-> None]
    /\ enabled = {} /\ focus = None /\ focused = None /\ aside = FALSE
    /\ extras = NoExtras

TextNext ==
    \/ \E s \in Surface \cup {None}, guarded \in BOOLEAN : MoveFocus(s, guarded)
    \/ \E s \in Surface, guarded \in BOOLEAN : SurfaceDestroy(s, guarded)
    \/ \E t \in TextInput : NewTextInput(t) \/ Enable(t) \/ Disable(t) \/ TextInputDestroy(t)
    \/ NewInputMethod \/ InputMethodDestroy \/ GrabKeyboard \/ GrabDestroy \/ Popup

(***************************************************************************)
(* Properties                                                              *)
(***************************************************************************)

(* Unless the focus has moved without the text inputs being told, one has  *)
(* entered the focused surface or none, and what the input method writes   *)
(* goes to one that has, if there is one; the one it goes to is there; the *)
(* input method is active only for a text input that was enabled and not   *)
(* disabled, and grabs the keyboard only while it is there.                *)
TextFollowsFocus ==
    /\ focused \in Members \cup {None}
    /\ ~aside =>
         /\ \A t \in Members : entered[t] \in {None, focus}
         /\ (\E t \in Members : entered[t] # None) /\ focused # None =>
                entered[focused] # None
    /\ method = "active" => enabled # {}
    /\ method = "none" => extras = NoExtras

============================================================================
