-------------------------------- MODULE Homes --------------------------------
(***************************************************************************)
(* What hotplugging promises the user.  Every window has a home, the tag   *)
(* it was put on.  It is on the output of its home whenever that output is *)
(* plugged; meanwhile it is a guest somewhere else, and what is done to it *)
(* there does not change where it belongs.  Only a window that was opened  *)
(* while there was no output at all makes its home on the first one.       *)
(***************************************************************************)

CONSTANTS Output, Container, Index, Fallback, NONE

Place == Output \cup {Fallback}

VARIABLES
  up,     \* the outputs that are plugged
  place,  \* where every window is, NONE while it is not open
  home    \* the tag it belongs on

vars == <<up, place, home>>

IsGuest(c) == place[c] # home[c][1]

Init ==
  /\ up = {}
  /\ place = [c \in Container |-> NONE]
  /\ home = [c \in Container |-> <<NONE, NONE>>]

Open(c) ==
  /\ place[c] = NONE
  /\ \E p \in (IF up = {} THEN {Fallback} ELSE up), i \in Index :
       /\ place' = [place EXCEPT ![c] = p]
       /\ home' = [home EXCEPT ![c] = <<p, i>>]
  /\ UNCHANGED up

Close(c) ==
  /\ place' = [place EXCEPT ![c] = NONE]
  /\ home' = [home EXCEPT ![c] = <<NONE, NONE>>]
  /\ UNCHANGED up

(* A window is given another output, another tag, or both.                 *)
Move(c) ==
  /\ place[c] # NONE
  /\ \E p \in up \cup {place[c]}, i \in Index :
       /\ place' = [place EXCEPT ![c] = p]
       /\ home' = IF IsGuest(c) THEN home ELSE [home EXCEPT ![c] = <<p, i>>]
  /\ UNCHANGED up

Plug(o) ==
  /\ o \notin up
  /\ up' = up \cup {o}
  /\ \E i \in Index :
       home' = [c \in Container |->
                  IF home[c][1] = Fallback THEN <<o, i>> ELSE home[c]]
  /\ place' = [c \in Container |->
                 IF home'[c][1] = o \/ place[c] = Fallback THEN o ELSE place[c]]

Unplug(o) ==
  /\ o \in up
  /\ up' = up \ {o}
  /\ \E p \in (IF up' = {} THEN {Fallback} ELSE up') :
       place' = [c \in Container |-> IF place[c] = o THEN p ELSE place[c]]
  /\ UNCHANGED home

Next ==
  \/ \E c \in Container : Open(c) \/ Close(c) \/ Move(c)
  \/ \E o \in Output : Plug(o) \/ Unplug(o)

Spec == Init /\ [][Next]_vars
============================================================================
