------------------------------- MODULE Signals -------------------------------
(***************************************************************************)
(* The signals that tie C and Lua together (signal.c).  A signal has a     *)
(* list of C callbacks and one of Lua callbacks; an emission walks the     *)
(* first, then the second, and the callbacks it calls may connect and      *)
(* disconnect others and emit the signal again while it is being walked.   *)
(* The lists are walked without a guard against a callback that takes      *)
(* itself out: the node an emission stands on is read after the callback   *)
(* has returned, so one that removes such a node is not followed.  A slot  *)
(* is a node of a list; it is reused when it has been freed.               *)
(***************************************************************************)
EXTENDS Integers, Lists

CONSTANTS Callback, Slot,
          MaxDepth,  \* bound: emissions inside one another
          None       \* NULL

VARIABLES
  lists,      \* the lists of slots, of C and of Lua callbacks
  of,         \* the callback in every slot
  emissions   \* the emissions under way, innermost first

signalVars == <<lists, of, emissions>>

Part == {"c", "lua"}
Connected == ToSet(lists.c) \cup ToSet(lists.lua)
StoodOn == {e.at : e \in ToSet(emissions)}

(* cwc_signal_connect and cwc_signal_connect_lua: at the end of the list.  *)
Connect(p, cb) ==
    \E s \in Slot \ Connected :
        /\ lists' = [lists EXCEPT ![p] = Append(@, s)]
        /\ of' = [of EXCEPT ![s] = cb]
        /\ UNCHANGED emissions

(* What an emission knows of slots that are freed.                         *)
Free(slots) ==
    /\ emissions' = [i \in DOMAIN emissions |->
           [emissions[i] EXCEPT !.all = @ \ slots,
              !.calls = [s \in Slot |-> IF s \in slots THEN 0 ELSE @[s]]]]
    /\ of' = [s \in Slot |-> IF s \in slots THEN None ELSE of[s]]

(* The last slot with the callback is removed.                             *)
Disconnect(p, cb) ==
    LET at == {i \in DOMAIN lists[p] : of[lists[p][i]] = cb}
    IN \E i \in at :
        /\ \A j \in at : j <= i
        /\ lists[p][i] \notin StoodOn
        /\ lists' = [lists EXCEPT ![p] = RemoveAt(@, i)]
        /\ Free({lists[p][i]})

(* cwc_lua_signal_clear, when the configuration is loaded anew.            *)
WipeLua ==
    /\ emissions = <<>>
    /\ lists' = [lists EXCEPT !.lua = <<>>]
    /\ Free(ToSet(lists.lua))

(***************************************************************************)
(* An emission: the slot it stands on, how often it called each slot since *)
(* it was connected, and the slots that were there when it began and still *)
(* are.                                                                    *)
(***************************************************************************)

(* Going on to place i of the list p, if there is one, and calling it.     *)
To(e, p, i) ==
    IF i \in DOMAIN lists[p]
    THEN [e EXCEPT !.part = p, !.at = lists[p][i], !.calls[lists[p][i]] = @ + 1]
    ELSE IF p = "c" /\ 1 \in DOMAIN lists.lua
    THEN [e EXCEPT !.part = "lua", !.at = lists.lua[1],
                   !.calls[lists.lua[1]] = @ + 1]
    ELSE [e EXCEPT !.part = "done", !.at = None]

Emit ==
    /\ Len(emissions) < MaxDepth
    /\ None \notin StoodOn
    /\ LET e == [part |-> "c", at |-> None, calls |-> [s \in Slot |-> 0],
                 all |-> Connected]
       IN emissions' = <<To(e, "c", 1)>> \o emissions
    /\ UNCHANGED <<lists, of>>

(* The place behind the slot that the emission stands on.                  *)
Behind(e) == 1 + CHOOSE i \in DOMAIN lists[e.part] : lists[e.part][i] = e.at

(* A variant in which the error of a Lua callback ends the emission.       *)
ReturnedOrEnded(e, failed) ==
    IF failed THEN [e EXCEPT !.part = "done", !.at = None]
    ELSE To(e, e.part, Behind(e))

(* The callback has returned, or failed with an error that was logged.     *)
Returned(e, failed) == To(e, e.part, Behind(e))

Call(failed) ==
    /\ emissions # <<>> /\ Head(emissions).at # None
    /\ failed => Head(emissions).part = "lua"
    /\ emissions' = <<Returned(Head(emissions), failed)>> \o Tail(emissions)
    /\ UNCHANGED <<lists, of>>

EndEmission ==
    /\ emissions # <<>> /\ Head(emissions).at = None
    /\ emissions' = Tail(emissions)
    /\ UNCHANGED <<lists, of>>

SignalsInit == /\ lists = [p \in Part |-> <<>>]
               /\ of = [s \in Slot |-> None]
               /\ emissions = <<>>

SignalsNext ==
    \/ \E p \in Part, cb \in Callback : Connect(p, cb) \/ Disconnect(p, cb)
    \/ WipeLua
    \/ Emit
    \/ \E failed \in BOOLEAN : Call(failed)
    \/ EndEmission

(***************************************************************************)
(* Properties                                                              *)
(***************************************************************************)

(* When an emission ends, it has called every callback that was connected  *)
(* from its beginning to its end exactly once, whatever other callbacks    *)
(* were connected and disconnected by the callbacks it called, whatever    *)
(* they emitted and whether they failed (signal.c _emit_c and _emit_lua).  *)
EmissionIsComplete ==
    \A i \in DOMAIN emissions :
        emissions[i].part = "done" =>
            \A s \in emissions[i].all : emissions[i].calls[s] = 1

=============================================================================
