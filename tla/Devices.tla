------------------------------- MODULE Devices -------------------------------
(***************************************************************************)
(* Input devices and outputs that come and go: what the clients are told   *)
(* of the devices of the seat (seat.c), which output a touch screen or a   *)
(* tablet is mapped to (seat.c, manager.c), and the order of the outputs   *)
(* (output.c), which a source of the event loop brings up to date later.   *)
(*                                                                         *)
(* There is one seat.  A touch screen or pointer may have the name of an   *)
(* output of its own.  The cursor forgets an output that is gone.          *)
(***************************************************************************)
EXTENDS Integers, Sequences

CONSTANTS Keyboard, Pointer, Touch, Tablet, Other,  \* input devices
          Libinput,      \* those of them that are in the list of the manager
          Named,         \* device -> the output it has the name of
          Output, Builtin, Place,
          None

VARIABLES plugged,   \* the devices
          target,    \* device -> the output it is mapped to
          caps,      \* the capabilities of the seat
          untold,    \* keyboards that came after the capabilities were set
          outputs,   \* server.outputs, in order
          place,     \* output -> output_layout_box, the top left corner
          pending,   \* _sort_output_index is a source of the event loop
          adrift     \* devices whose output has gone since the last mapping

devicesVars == <<plugged, target, caps, untold, outputs, place, pending, adrift>>

Device == Keyboard \cup Pointer \cup Touch \cup Tablet \cup Other
Nowhere == [x |-> 0, y |-> 0]  \* of an output that is not there
Plugged == {outputs[i] : i \in DOMAIN outputs}

(***************************************************************************)
(* cwc_seat_map_input_device                                               *)
(***************************************************************************)

(* find_builtin_output, among the outputs outs                             *)
FirstBuiltin(outs) ==
    LET found == {i \in DOMAIN outs : outs[i] \in Builtin}
    IN IF found = {} THEN None
       ELSE outs[CHOOSE i \in found : \A j \in found : i <= j]

OutputName(d, outs) ==
    IF d \in DOMAIN Named THEN Named[d]
    ELSE IF d \in Touch \cup Tablet THEN FirstBuiltin(outs) ELSE None

Mapped(ds, outs) ==
    [d \in Device |->
        IF d \in ds /\ \E i \in DOMAIN outs : outs[i] = OutputName(d, outs)
        THEN OutputName(d, outs) ELSE target[d]]

(***************************************************************************)
(* Devices                                                                 *)
(***************************************************************************)

(* cwc_seat_update_capabilities, with the devices ds                       *)
Capabilities(ds) ==
    {"pointer"} \cup (IF ds \cap Keyboard # {} THEN {"keyboard"} ELSE {})
                \cup (IF ds \cap Touch # {} THEN {"touch"} ELSE {})

(* on_new_input                                                            *)
NewPointerOrTouch(d) ==
    /\ d \in (Pointer \cup Touch) \ plugged
    /\ plugged' = plugged \cup {d}
    /\ target' = Mapped({d}, outputs)
    /\ caps' = Capabilities(plugged') /\ untold' = {}
    /\ UNCHANGED <<outputs, place, pending, adrift>>

NewTablet(d) ==
    /\ d \in Tablet \ plugged
    /\ plugged' = plugged \cup {d}
    /\ target' = Mapped({d}, outputs)
    /\ UNCHANGED <<caps, untold, outputs, place, pending, adrift>>

(* The capabilities are left as they are; a switch or a pad is ignored.    *)
NewKeyboardOrOther(d) ==
    /\ d \in (Keyboard \cup Other) \ plugged
    /\ plugged' = plugged \cup {d}
    /\ untold' = untold \cup ({d} \cap Keyboard)
    /\ UNCHANGED <<target, caps, outputs, place, pending, adrift>>

DeviceDestroy(d) ==
    /\ d \in plugged
    /\ plugged' = plugged \ {d} /\ untold' = untold \ {d} /\ adrift' = adrift \ {d}
    /\ target' = [target EXCEPT ![d] = None]
    /\ UNCHANGED <<caps, outputs, place, pending>>

(***************************************************************************)
(* Outputs                                                                 *)
(***************************************************************************)

(* cwc_input_manager_configure_all_input_mapping                           *)
Configured(o) == Mapped(plugged \cap Libinput, <<o>> \o outputs)

NewOutput(o, at) ==
    /\ o \notin Plugged
    /\ outputs' = <<o>> \o outputs
    /\ place' = [place EXCEPT ![o] = at]
    /\ pending' = TRUE
    /\ target' = Configured(o)
    /\ adrift' = adrift \ Libinput
    /\ UNCHANGED <<plugged, caps, untold>>

OutputDestroy(o) ==
    /\ o \in Plugged
    /\ LET i == CHOOSE i \in DOMAIN outputs : outputs[i] = o
       IN outputs' = SubSeq(outputs, 1, i - 1) \o SubSeq(outputs, i + 1, Len(outputs))
    /\ target' = [d \in Device |-> IF target[d] = o THEN None ELSE target[d]]
    /\ adrift' = adrift \cup {d \in plugged : target[d] = o}
    /\ place' = [place EXCEPT ![o] = Nowhere]
    /\ pending' = TRUE
    /\ UNCHANGED <<plugged, caps, untold>>

(* A new position or size, by cwc_output_update_outputs_state.             *)
Move(o, at) ==
    /\ o \in Plugged
    /\ place' = [place EXCEPT ![o] = at]
    /\ pending' = TRUE
    /\ UNCHANGED <<plugged, target, caps, untold, outputs, adrift>>

(* sort_output_index: o goes in front of the first that is not above or    *)
(* left of it, or to the end.                                              *)
InFront(o, p) == place[o].y <= place[p].y /\ place[o].x <= place[p].x

Inserted(sorted, o) ==
    LET behind == {i \in DOMAIN sorted : InFront(o, sorted[i])}
        at == IF behind = {} THEN Len(sorted) + 1
              ELSE CHOOSE i \in behind : \A j \in behind : i <= j
    IN SubSeq(sorted, 1, at - 1) \o <<o>> \o SubSeq(sorted, at, Len(sorted))

Sorted == LET upto[i \in 0 .. Len(outputs)] ==
                  IF i = 0 THEN <<>> ELSE Inserted(upto[i - 1], outputs[i])
          IN upto[Len(outputs)]

SortOutputIndex ==
    /\ pending
    /\ outputs' = Sorted
    /\ pending' = FALSE
    /\ UNCHANGED <<plugged, target, caps, untold, place, adrift>>

DevicesInit ==
    /\ plugged = {} /\ target = [d \in Device |-> None]
    /\ caps = {"pointer"} /\ untold = {}
    /\ outputs = <<>> /\ place = [o \in Output |-> Nowhere]
    /\ pending = FALSE /\ adrift = {}

DevicesNext ==
    \/ \E d \in Device : \/ NewPointerOrTouch(d) \/ NewTablet(d)
                         \/ NewKeyboardOrOther(d) \/ DeviceDestroy(d)
    \/ \E o \in Output, at \in Place : NewOutput(o, at) \/ Move(o, at)
    \/ \E o \in Output : OutputDestroy(o)
    \/ SortOutputIndex

(***************************************************************************)
(* Properties                                                              *)
(***************************************************************************)

(* The output a device is for: the one whose name it has, or a screen that *)
(* is built in.                                                            *)
IsFor(d, o) ==
    IF d \in DOMAIN Named THEN o = Named[d] ELSE d \in Touch \cup Tablet /\ o \in Builtin

(* A device of the list of the manager is mapped to an output it is for    *)
(* while there is one, but for a device whose output has gone since an     *)
(* output was plugged; no device is mapped to another output; the clients  *)
(* know of every touch screen, and of the keyboards but for those that     *)
(* came after the last pointer or touch screen; and when no source is      *)
(* waiting no output is listed behind one that it is left of and above.    *)
DevicesAreKnown ==
    /\ \A d \in plugged :
         /\ target[d] # None => target[d] \in Plugged /\ IsFor(d, target[d])
         /\ d \in Libinput \ adrift /\ (\E o \in Plugged : IsFor(d, o)) => target[d] # None
    /\ plugged \cap Touch # {} => "touch" \in caps
    /\ (plugged \cap Keyboard) \ untold # {} => "keyboard" \in caps
    /\ ~pending =>
         \A i, j \in DOMAIN outputs :
            i < j /\ InFront(outputs[j], outputs[i]) => InFront(outputs[i], outputs[j])

============================================================================
