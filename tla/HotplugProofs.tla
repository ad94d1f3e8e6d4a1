---------------------------- MODULE HotplugProofs ----------------------------
(***************************************************************************)
(* Whatever outputs come and go and whatever is done to the windows        *)
(* meanwhile, nobody is stranded and hotplugging keeps the promise of      *)
(* module Homes, for every number of outputs, tags and windows.            *)
(***************************************************************************)
EXTENDS Hotplug, WellFoundedInduction, TLAPS

(* The types of what the operations on a container read.                   *)
Typed ==
  /\ view \in [Place -> Index]
  /\ seen \in [Place -> SUBSET Index]

(* The leaf of a container is where it is looked up, and so is the one it  *)
(* left behind.                                                            *)
Sound(w) ==
  /\ w \in Windows
  /\ w.leaf \in {NONE, <<w.at, w.ws>>}
  /\ w.old # NONE => w.old.leaf \in {NONE, <<w.old.out, w.old.ws>>}

----------------------------------------------------------------------------
(* Operations on one container                                             *)

(* bsp_insert_container moves a container nowhere.                         *)
LEMMA InsertKeeps ==
  ASSUME NEW w, Sound(w)
  PROVE  /\ Sound(Insert(w))
         /\ Insert(w).at = w.at /\ Insert(w).ws = w.ws /\ Insert(w).old = w.old
BY DEF Sound, Insert, Windows, Tag

(* cwc_container_move_to_output puts a container on the output and nothing *)
(* else becomes of where it waits to return to.                            *)
LEMMA MoveToOutputKeeps ==
  ASSUME Typed, NEW w, Sound(w), NEW o \in Place
  PROVE  LET r == MoveToOutput(w, o)
         IN  Sound(r) /\ r.at = o /\ r.old = w.old
<1> DEFINE moved == [w EXCEPT !.at = o, !.ws = view[o], !.tags = seen[o],
                              !.leaf = NONE]
<1>1. Sound(moved) /\ moved.at = o /\ moved.old = w.old
  BY DEF Sound, Windows, Typed
<1>2. Sound(Insert(moved)) /\ Insert(moved).at = o /\ Insert(moved).old = w.old
  BY <1>1, InsertKeeps
<1>3. MoveToOutput(w, o) \in {w, moved, Insert(moved)}
      /\ (MoveToOutput(w, o) = w => w.at = o \/ w = moved \/ w = Insert(moved))
  BY DEF MoveToOutput
<1> QED
  BY <1>1, <1>2, <1>3

(* cwc_container_move_to_tag leaves a container on its output.             *)
LEMMA MoveToTagKeeps ==
  ASSUME Typed, NEW w, Sound(w), NEW i \in Index
  PROVE  LET r == MoveToTag(w, i)
         IN  Sound(r) /\ r.at = w.at /\ r.ws = i /\ r.old = w.old
<1> DEFINE moved  == [w EXCEPT !.ws = i, !.tags = {i}, !.leaf = NONE]
           placed == IF layout[<<w.at, i>>] = "bsp" /\ ~w.floating
                       THEN Insert(moved) ELSE moved
<1>1. Sound(moved) /\ moved.at = w.at /\ moved.ws = i /\ moved.old = w.old
  BY DEF Sound, Windows
<1>2. /\ Sound(Insert(moved)) /\ Insert(moved).at = w.at
      /\ Insert(moved).ws = i /\ Insert(moved).old = w.old
  BY <1>1, InsertKeeps
<1>3. Sound(placed) /\ placed.at = w.at /\ placed.ws = i /\ placed.old = w.old
  BY <1>1, <1>2
<1> HIDE DEF placed
<1>4. Visible(placed) \in BOOLEAN
  BY DEF Visible
<1>5. LET r == [placed EXCEPT !.shown = Visible(placed)]
      IN  Sound(r) /\ r.at = w.at /\ r.ws = i /\ r.old = w.old
  BY <1>3, <1>4 DEF Sound, Windows
<1>6. MoveToTag(w, i) = IF w.ws = i THEN w
                        ELSE [placed EXCEPT !.shown = Visible(placed)]
  BY DEF MoveToTag, placed
<1> QED
  BY <1>5, <1>6

(* The layout modes set again when an output went only give out leaves.    *)
LEMMA InsertTiledKeeps ==
  ASSUME NEW w, Sound(w), NEW o, NEW I, NEW lay
  PROVE  LET r == InsertTiled(w, o, I, lay)
         IN  Sound(r) /\ r.at = w.at /\ r.ws = w.ws /\ r.old = w.old
BY InsertKeeps DEF InsertTiled

(* What a container remembers of where it was.                             *)
LEMMA RememberKeeps ==
  ASSUME NEW w, Sound(w)
  PROVE  LET r == Remember(w)
         IN  /\ Sound(r)
             /\ r.at = w.at
             /\ r.old = IF w.old # NONE \/ w.at = Fallback THEN w.old
                        ELSE [out |-> w.at, ws |-> w.ws,
                              tags |-> w.tags, leaf |-> w.leaf]
<1>1. CASE w.old # NONE \/ w.at = Fallback
  BY <1>1 DEF Remember, Sound
<1>2. CASE ~(w.old # NONE \/ w.at = Fallback)
  <2> DEFINE saved == [out |-> w.at, ws |-> w.ws, tags |-> w.tags, leaf |-> w.leaf]
             r     == [w EXCEPT !.old = saved, !.leaf = NONE]
  <2>1. Remember(w) = r
    BY <1>2 DEF Remember
  <2>2. w.at \in Output
    BY <1>2 DEF Sound, Windows, Place
  <2>3. saved \in OldProp /\ saved.leaf \in {NONE, <<saved.out, saved.ws>>}
    BY <2>2 DEF Sound, Windows, OldProp
  <2> HIDE DEF saved
  <2>4. Sound(r) /\ r.at = w.at /\ r.old = saved
    BY <2>3 DEF Sound, Windows
  <2> QED
    BY <1>2, <2>1, <2>4 DEF saved
<1> QED
  BY <1>1, <1>2

(* A rescued container is on the output that took it in.  It remembers     *)
(* where it belongs unless it was opened on the fallback output; then it   *)
(* is on the tag in view.                                                  *)
LEMMA RescueKeeps ==
  ASSUME Typed, NEW w, Sound(w), NEW a \in Place
  PROVE  LET r == Rescue(w, a)
         IN  /\ Sound(r)
             /\ r.at = a
             /\ r.old = Remember(w).old
             /\ r.old = NONE /\ w.at # a => r.ws = view[a]
<1> DEFINE kept == Remember(w)
           moved == MoveToOutput(kept, a)
<1>1. Sound(kept) /\ kept.at = w.at
  BY RememberKeeps
<1>2. Sound(moved) /\ moved.at = a /\ moved.old = kept.old
  BY <1>1, MoveToOutputKeeps
<1>3. CASE kept.old = NONE
  <2>1. Rescue(w, a) = moved
    BY <1>3 DEF Rescue
  <2>2. w.at # a => moved.ws = view[a]
    BY <1>1 DEF MoveToOutput, Insert, Sound, Windows
  <2> QED
    BY <1>2, <1>3, <2>1, <2>2
<1>4. CASE kept.old # NONE
  <2>1. Rescue(w, a) = MoveToTag(moved, moved.old.ws)
    BY <1>4 DEF Rescue
  <2>2. moved.old \in OldProp
    BY <1>2, <1>4 DEF Sound, Windows
  <2>3. moved.old.ws \in Index
    BY <2>2 DEF OldProp
  <2> HIDE DEF moved, kept
  <2>4. LET r == MoveToTag(moved, moved.old.ws)
        IN  Sound(r) /\ r.at = moved.at /\ r.old = moved.old
    BY <1>2, <2>3, MoveToTagKeeps
  <2> QED
    BY <1>2, <1>4, <2>1, <2>4 DEF moved, kept
<1> QED
  BY <1>3, <1>4

(* A container that waited for an output is back on its tag.               *)
LEMMA RestoreKeeps ==
  ASSUME Typed, NEW w, Sound(w), NEW o \in Output,
         w.old # NONE, w.old.out = o
  PROVE  LET r == Restore(w, o)
         IN  Sound(r) /\ r.at = o /\ r.ws = w.old.ws /\ r.old = NONE
<1> DEFINE moved == MoveToOutput(w, o)
<1>1. Sound(moved) /\ moved.at = o
  BY MoveToOutputKeeps DEF Place
<1>2. w.old \in OldProp
  BY DEF Sound, Windows
<1>3. Restore(w, o) = [moved EXCEPT !.leaf = w.old.leaf, !.tags = w.old.tags,
                                    !.ws = w.old.ws, !.old = NONE]
  BY DEF Restore
<1> HIDE DEF moved
<1> QED
  BY <1>1, <1>2, <1>3 DEF Sound, Windows, OldProp

----------------------------------------------------------------------------
(* The inductive invariant                                                 *)

Shape ==
  /\ plug \in [Output -> {"never", "in", "out"}]
  /\ focused \in Place
  /\ Typed
  /\ layout \in [Tag -> Layouts]
  /\ pending \subseteq Output

AllSound ==
  /\ win \in [Container -> Windows \cup {NONE}]
  /\ \A c \in Open : Sound(win[c])

IInv == Shape /\ AllSound /\ NobodyIsStranded /\ GuestsWait

(* The tag that cwc_output_set_active_tag takes for the workspace exists.  *)
LEMMA FirstTagIsATag ==
  ASSUME NEW T \in TagSets, T # {}
  PROVE  T \subseteq Index /\ FirstTag(T) \in T
<1>1. T \subseteq Index /\ T \subseteq Nat /\ T # {}
  BY HotplugAssumption
<1> DEFINE R == OpToRel(<, Nat)
<1>2. IsWellFoundedOn(R, Nat)
  BY NatLessThanWellFounded
<1>3. \A x, y \in Nat : <<y, x>> \in R <=> y < x
  BY DEF OpToRel
<1> HIDE DEF R
<1>4. \E x \in T : \A y \in T : ~ (<<y, x>> \in R)
  BY <1>1, <1>2, WFMin
<1>5. PICK x \in T : \A y \in T : ~ (<<y, x>> \in R)
  BY <1>4
<1>6. \A y \in T : x <= y
  <2> TAKE y \in T
  <2>1. x \in Nat /\ y \in Nat
    BY <1>1
  <2>2. ~ (y < x)
    BY <1>3, <1>5, <2>1
  <2> QED
    BY <2>1, <2>2
<1> QED
  BY <1>1, <1>6 DEF FirstTag

(* A window on an output that is there is a guest just when it remembers   *)
(* another one.                                                            *)
LEMMA GuestsRemember ==
  ASSUME IInv, NEW c \in Open
  PROVE  /\ c \in Container /\ Sound(win[c]) /\ win[c] \in Windows
         /\ win[c].at \in Plugged \cup {Fallback}
         /\ win[c].old # NONE => /\ win[c].old \in OldProp
                                /\ win[c].old.out \notin Plugged \cup {Fallback}
<1>1. c \in Container /\ Sound(win[c]) /\ win[c] \in Windows
  BY DEF IInv, AllSound, Open, Sound
<1>2. win[c].at \in Plugged \cup {Fallback}
  BY DEF IInv, NobodyIsStranded
<1>3. ASSUME win[c].old # NONE
      PROVE  win[c].old \in OldProp /\ win[c].old.out \notin Plugged \cup {Fallback}
  <2>1. win[c].old \in OldProp
    BY <1>1, <1>3 DEF Windows
  <2>2. win[c].old.out \in Output /\ plug[win[c].old.out] = "out"
    BY <1>3, <2>1 DEF IInv, GuestsWait, OldProp
  <2> QED
    BY <2>1, <2>2, HotplugAssumption DEF Plugged
<1> QED
  BY <1>1, <1>2, <1>3

(* No open window is taken for a closed one.                               *)
LEMMA OnlyWindowsAreOpen ==
  ASSUME win' = [c \in Container |-> win'[c]],
         \A c \in Open : Sound(win'[c]),
         \A c \in Container \ Open : win'[c] = NONE
  PROVE  win' \in [Container -> Windows \cup {NONE}] /\ Open' = Open
<1>1. \A c \in Open : win'[c] \in Windows /\ win'[c] # NONE /\ c \in Container
  BY NoneIsNoStruct DEF Sound, Open
<1> QED
  BY <1>1 DEF Open

(* A function that differs from another in one place is an update of it.   *)
LEMMA UpdateIs ==
  ASSUME NEW S, NEW c \in S, NEW v, NEW f, NEW g,
         f = [x \in S |-> f[x]], g = [x \in S |-> g[x]],
         g[c] = v, \A x \in S \ {c} : g[x] = f[x]
  PROVE  g = [f EXCEPT ![c] = v]
OBVIOUS

(* What is done to one window is, for module Homes, at most a move.        *)
LEMMA HandlingIsAMove ==
  ASSUME IInv, NEW c \in Open, NEW r, Sound(r), r.old = win[c].old,
         r.at \in Plugged \cup {win[c].at},
         win' = [win EXCEPT ![c] = r], UNCHANGED <<plug, focused>>
  PROVE  AllSound' /\ NobodyIsStranded' /\ GuestsWait' /\ Promise!Move(c)
<1>1. c \in Container /\ win[c] # NONE /\ r \in Windows /\ r # NONE
  BY NoneIsNoStruct DEF Open, Sound
<1>2. \A d \in Container : win'[d] = IF d = c THEN r ELSE win[d]
  BY DEF IInv, AllSound
<1>3. Open' = Open /\ Plugged' = Plugged
  BY <1>1, <1>2 DEF Open, Plugged
<1>4. AllSound'
  <2>1. win' \in [Container -> Windows \cup {NONE}]
    BY <1>1 DEF IInv, AllSound
  <2>2. \A d \in Open : Sound(win'[d])
    BY <1>2 DEF IInv, AllSound, Open
  <2> QED
    BY <1>3, <2>1, <2>2 DEF AllSound, Sound
<1>5. NobodyIsStranded'
  <2> DEFINE present == IF Plugged = {} THEN {Fallback} ELSE Plugged
  <2>1. focused \in present /\ \A d \in Open : win[d].at \in present
    BY DEF IInv, NobodyIsStranded
  <2>2. \A d \in Open : win'[d].at \in present
    BY <1>2, <2>1 DEF Open
  <2> QED
    BY <1>3, <2>1, <2>2 DEF NobodyIsStranded
<1>6. GuestsWait'
  BY <1>2, <1>3 DEF IInv, GuestsWait, Open
<1>7. Promise!Move(c)
  <2>1. PlaceOf' = [PlaceOf EXCEPT ![c] = r.at]
    <3>1. win'[c] = r
      BY <1>1, <1>2
    <3>2. \A d \in Container \ {c} : win'[d] = win[d]
      BY <1>2
    <3>3. PlaceOf'[c] = r.at
      BY <1>1, <3>1 DEF PlaceOf
    <3>4. \A d \in Container \ {c} : PlaceOf'[d] = PlaceOf[d]
      BY <3>2 DEF PlaceOf
    <3>5. /\ PlaceOf = [d \in Container |-> PlaceOf[d]]
          /\ PlaceOf' = [d \in Container |-> PlaceOf'[d]]
      BY DEF PlaceOf
    <3> QED
      BY <1>1, <3>3, <3>4, <3>5, UpdateIs
  <2>2. PlaceOf[c] = win[c].at /\ win[c].at # NONE
    BY <1>1, GuestsRemember, HotplugAssumption DEF PlaceOf, Plugged
  <2>3. r.ws \in Index
    BY <1>1 DEF Windows
  <2>4. HomeOf[c] = IF win[c].old # NONE
                      THEN <<win[c].old.out, win[c].old.ws>>
                      ELSE <<win[c].at, win[c].ws>>
    BY <1>1 DEF HomeOf
  <2>5. HomeOf' = [HomeOf EXCEPT ![c] = IF win[c].old # NONE
                                          THEN <<win[c].old.out, win[c].old.ws>>
                                          ELSE <<r.at, r.ws>>]
    <3>1. win'[c] = r
      BY <1>1, <1>2
    <3>2. \A d \in Container \ {c} : win'[d] = win[d]
      BY <1>2
    <3>3. HomeOf'[c] = IF win[c].old # NONE
                         THEN <<win[c].old.out, win[c].old.ws>> ELSE <<r.at, r.ws>>
      BY <1>1, <3>1 DEF HomeOf
    <3>4. \A d \in Container \ {c} : HomeOf'[d] = HomeOf[d]
      BY <3>2 DEF HomeOf
    <3>5. /\ HomeOf = [d \in Container |-> HomeOf[d]]
          /\ HomeOf' = [d \in Container |-> HomeOf'[d]]
      BY DEF HomeOf
    <3> QED
      BY <1>1, <3>3, <3>4, <3>5, UpdateIs
  <2>6. PlaceOf[c] # HomeOf[c][1] <=> win[c].old # NONE
    BY <2>2, <2>4, GuestsRemember
  <2>7. HomeOf' = IF PlaceOf[c] # HomeOf[c][1] THEN HomeOf
                  ELSE [HomeOf EXCEPT ![c] = <<r.at, r.ws>>]
    <3>1. CASE win[c].old # NONE
      <4>1. PlaceOf[c] # HomeOf[c][1]
        BY <2>6, <3>1
      <4>2. HomeOf' = [HomeOf EXCEPT ![c] = HomeOf[c]]
        BY <2>4, <2>5, <3>1
      <4>3. HomeOf = [x \in Container |-> HomeOf[x]]
        BY DEF HomeOf
      <4>4. HomeOf' = HomeOf
        BY <4>2, <4>3
      <4> QED
        BY <4>1, <4>4
    <3>2. CASE ~(win[c].old # NONE)
      BY <2>5, <2>6, <3>2
    <3> QED
      BY <3>1, <3>2
  <2> QED
    BY <1>3, <2>1, <2>2, <2>3, <2>7 DEF Promise!Move, Promise!IsGuest
<1> QED
  BY <1>4, <1>5, <1>6, <1>7

(* What leaves every window where it is and where it belongs does not show *)
(* in module Homes.                                                        *)
LEMMA LeavingIsAStutter ==
  ASSUME IInv,
         win' \in [Container -> Windows \cup {NONE}], Open' = Open,
         \A c \in Open : /\ Sound(win'[c]) /\ win'[c].at = win[c].at
                         /\ win'[c].ws = win[c].ws /\ win'[c].old = win[c].old,
         UNCHANGED <<plug, focused>>
  PROVE  /\ AllSound' /\ NobodyIsStranded' /\ GuestsWait'
         /\ UNCHANGED <<Plugged, PlaceOf, HomeOf>>
<1>1. Plugged' = Plugged
  BY DEF Plugged
<1>2. AllSound'
  BY DEF AllSound, Sound
<1>3. NobodyIsStranded'
  BY <1>1 DEF IInv, NobodyIsStranded
<1>4. GuestsWait'
  BY DEF IInv, GuestsWait
<1>5. \A c \in Container : /\ (win'[c] = NONE) = (win[c] = NONE)
                           /\ win[c] # NONE => /\ win'[c].at = win[c].at
                                               /\ win'[c].ws = win[c].ws
                                               /\ win'[c].old = win[c].old
  BY DEF Open
<1>6. PlaceOf' = PlaceOf
  BY <1>5 DEF PlaceOf
<1>7. HomeOf' = HomeOf
  BY <1>5 DEF HomeOf
<1> QED
  BY <1>1, <1>2, <1>3, <1>4, <1>6, <1>7

----------------------------------------------------------------------------
(* One step each.  The step of module Homes, or none of its steps:         *)

Kept == IInv' /\ [Promise!Next]_(Promise!vars)

(* A window is opened where there is an output, if there is any.           *)
LEMMA OpenStep ==
  ASSUME IInv, NEW c \in Container, NEW floating \in BOOLEAN,
         OpenWindow(c, floating)
  PROVE  Kept
<1> DEFINE tags == IF seen[focused] = {} THEN {First} ELSE seen[focused]
           new == [ at |-> focused, ws |-> view[focused], tags |-> tags,
                    floating |-> floating, leaf |-> NONE, old |-> NONE,
                    shown |-> TRUE ]
           r == win'[c]
<1>1. Sound(new) /\ new.at = focused /\ new.ws \in Index /\ new.old = NONE
  BY HotplugAssumption DEF IInv, Shape, Typed, Sound, Windows
<1>2. /\ Sound(Insert(new)) /\ Insert(new).at = focused
      /\ Insert(new).ws = new.ws /\ Insert(new).old = NONE
  BY <1>1, InsertKeeps
<1>3. win[c] = NONE /\ UNCHANGED <<plug, focused, view, seen, layout, pending>>
  BY DEF OpenWindow
<1>4. /\ r \in {new, Insert(new)}
      /\ \A d \in Container \ {c} : win'[d] = win[d]
      /\ DOMAIN win' = Container /\ win' = [d \in Container |-> win'[d]]
  BY DEF OpenWindow, IInv, AllSound
<1> HIDE DEF new
<1>5. /\ Sound(r) /\ r.at = focused /\ r.ws \in Index
      /\ r.old = NONE /\ r # NONE /\ r \in Windows
  BY <1>1, <1>2, <1>4, NoneIsNoStruct DEF Sound
<1> HIDE DEF r
<1>6. Open' = Open \cup {c} /\ c \notin Open /\ Plugged' = Plugged
  BY <1>3, <1>4, <1>5 DEF Open, Plugged, r
<1>7. Shape'
  BY <1>3 DEF IInv, Shape, Typed
<1>8. AllSound'
  <2>1. \A d \in Open' : Sound(win'[d])
    BY <1>4, <1>5, <1>6 DEF IInv, AllSound, Open, r
  <2>2. win' \in [Container -> Windows \cup {NONE}]
    BY <1>4, <1>5 DEF IInv, AllSound, r
  <2> QED
    BY <2>1, <2>2 DEF AllSound, Sound
<1>9. NobodyIsStranded'
  BY <1>3, <1>4, <1>5, <1>6 DEF IInv, NobodyIsStranded, Open, r
<1>10. GuestsWait'
  BY <1>3, <1>4, <1>5, <1>6 DEF IInv, GuestsWait, Open, r
<1>11. Promise!Open(c)
  <2>1. PlaceOf' = [PlaceOf EXCEPT ![c] = focused]
    <3>1. PlaceOf'[c] = focused
      BY <1>5 DEF PlaceOf, r
    <3>2. \A d \in Container \ {c} : PlaceOf'[d] = PlaceOf[d]
      BY <1>4 DEF PlaceOf
    <3>3. /\ PlaceOf = [d \in Container |-> PlaceOf[d]]
          /\ PlaceOf' = [d \in Container |-> PlaceOf'[d]]
      BY DEF PlaceOf
    <3> QED
      BY <3>1, <3>2, <3>3, UpdateIs
  <2>2. HomeOf' = [HomeOf EXCEPT ![c] = <<focused, r.ws>>]
    <3>1. HomeOf'[c] = <<focused, r.ws>>
      BY <1>5 DEF HomeOf, r
    <3>2. \A d \in Container \ {c} : HomeOf'[d] = HomeOf[d]
      BY <1>4 DEF HomeOf
    <3>3. /\ HomeOf = [d \in Container |-> HomeOf[d]]
          /\ HomeOf' = [d \in Container |-> HomeOf'[d]]
      BY DEF HomeOf
    <3> QED
      BY <3>1, <3>2, <3>3, UpdateIs
  <2>3. PlaceOf[c] = NONE
    BY <1>3 DEF PlaceOf
  <2>4. focused \in (IF Plugged = {} THEN {Fallback} ELSE Plugged)
    BY DEF IInv, NobodyIsStranded
  <2> QED
    BY <1>5, <1>6, <2>1, <2>2, <2>3, <2>4 DEF Promise!Open
<1> QED
  BY <1>7, <1>8, <1>9, <1>10, <1>11 DEF Kept, IInv, Promise!Next

(* A closed window is gone.                                                *)
LEMMA CloseStep ==
  ASSUME IInv, NEW c \in Container, CloseWindow(c)
  PROVE  Kept
<1>1. /\ UNCHANGED <<plug, focused, view, seen, layout, pending>>
      /\ win' = [win EXCEPT ![c] = NONE]
  BY DEF CloseWindow
<1>2. \A d \in Container : win'[d] = IF d = c THEN NONE ELSE win[d]
  BY <1>1 DEF IInv, AllSound
<1>3. Open' = Open \ {c} /\ Plugged' = Plugged
  BY <1>1, <1>2 DEF Open, Plugged
<1>4. Shape'
  BY <1>1 DEF IInv, Shape, Typed
<1>5. AllSound'
  <2>1. \A d \in Open' : Sound(win'[d])
    BY <1>2, <1>3 DEF IInv, AllSound, Open
  <2>2. win' \in [Container -> Windows \cup {NONE}]
    BY <1>1 DEF IInv, AllSound
  <2> QED
    BY <2>1, <2>2 DEF AllSound, Sound
<1>6. NobodyIsStranded'
  BY <1>1, <1>2, <1>3 DEF IInv, NobodyIsStranded, Open
<1>7. GuestsWait'
  BY <1>1, <1>2, <1>3 DEF IInv, GuestsWait, Open
<1>8. Promise!Close(c)
  <2>1. PlaceOf' = [PlaceOf EXCEPT ![c] = NONE]
    BY <1>2 DEF PlaceOf
  <2>2. HomeOf' = [HomeOf EXCEPT ![c] = <<NONE, NONE>>]
    BY <1>2 DEF HomeOf
  <2> QED
    BY <1>3, <2>1, <2>2 DEF Promise!Close
<1> QED
  BY <1>4, <1>5, <1>6, <1>7, <1>8 DEF Kept, IInv, Promise!Next

(* client:move_to_screen                                                   *)
LEMMA MoveToOutputStep ==
  ASSUME IInv, NEW c \in Container, NEW o \in Output, MoveWindowToOutput(c, o)
  PROVE  Kept
<1> DEFINE r == MoveToOutput(win[c], o)
<1>1. /\ c \in Open /\ o \in Plugged /\ win' = [win EXCEPT ![c] = r]
      /\ UNCHANGED <<plug, focused, view, seen, layout, pending>>
  BY DEF MoveWindowToOutput, Open
<1>2. Sound(r) /\ r.at = o /\ r.old = win[c].old
  BY <1>1, MoveToOutputKeeps DEF IInv, Shape, AllSound, Place
<1> HIDE DEF r
<1>3. AllSound' /\ NobodyIsStranded' /\ GuestsWait' /\ Promise!Move(c)
  BY <1>1, <1>2, HandlingIsAMove
<1>4. Shape'
  BY <1>1 DEF IInv, Shape, Typed
<1> QED
  BY <1>3, <1>4 DEF Kept, IInv, Promise!Next

(* client:move_to_tag                                                      *)
LEMMA MoveToTagStep ==
  ASSUME IInv, NEW c \in Container, NEW i \in Index, MoveWindowToTag(c, i)
  PROVE  Kept
<1> DEFINE r == MoveToTag(win[c], i)
<1>1. /\ c \in Open /\ win' = [win EXCEPT ![c] = r]
      /\ pending' = pending \cup AskedByMove(win[c], i)
      /\ UNCHANGED <<plug, focused, view, seen, layout>>
  BY DEF MoveWindowToTag, Open
<1>2. Sound(r) /\ r.at = win[c].at /\ r.old = win[c].old
  BY <1>1, MoveToTagKeeps DEF IInv, Shape, AllSound
<1> HIDE DEF r
<1>3. AllSound' /\ NobodyIsStranded' /\ GuestsWait' /\ Promise!Move(c)
  BY <1>1, <1>2, HandlingIsAMove
<1>4. Shape'
  BY <1>1 DEF IInv, Shape, Typed, AskedByMove
<1> QED
  BY <1>3, <1>4 DEF Kept, IInv, Promise!Next

(* cwc_container_set_tag                                                   *)
LEMMA SetTagsStep ==
  ASSUME IInv, NEW c \in Container, NEW T \in TagSets, SetWindowTags(c, T)
  PROVE  Kept
<1> DEFINE visible == seen[win[c].at] \cap T # {}
           r == [win[c] EXCEPT !.tags = T, !.shown = visible]
<1>1. /\ c \in Open /\ pending' = pending \cup ({win[c].at} \cap Output)
      /\ UNCHANGED <<plug, focused, view, seen, layout>>
  BY DEF SetWindowTags, Open
<1>2. win' = [win EXCEPT ![c] = r]
  BY DEF SetWindowTags, IInv, AllSound, Windows
<1>3. visible \in BOOLEAN /\ T \subseteq Index
  BY HotplugAssumption
<1> HIDE DEF visible
<1>4. Sound(r) /\ r.at = win[c].at /\ r.old = win[c].old
  BY <1>1, <1>3 DEF IInv, AllSound, Sound, Windows
<1> HIDE DEF r
<1>5. AllSound' /\ NobodyIsStranded' /\ GuestsWait' /\ Promise!Move(c)
  BY <1>1, <1>2, <1>4, HandlingIsAMove
<1>6. Shape'
  BY <1>1 DEF IInv, Shape, Typed
<1> QED
  BY <1>5, <1>6 DEF Kept, IInv, Promise!Next

(* cwc_container_set_floating                                              *)
LEMMA SetFloatingStep ==
  ASSUME IInv, NEW c \in Container, NEW set \in BOOLEAN, SetFloating(c, set)
  PROVE  Kept
<1> DEFINE up == [win[c] EXCEPT !.floating = TRUE]
           tiled == [win[c] EXCEPT !.floating = FALSE]
<1>1. c \in Open /\ UNCHANGED <<plug, focused, view, seen, layout, pending>>
  BY DEF SetFloating, Open
<1>2. PICK r \in {up, tiled, Insert(tiled)} : win' = [win EXCEPT ![c] = r]
  BY <1>1 DEF SetFloating, IInv, AllSound, Windows
<1>3. /\ Sound(up) /\ up.at = win[c].at /\ up.old = win[c].old
      /\ Sound(tiled) /\ tiled.at = win[c].at /\ tiled.old = win[c].old
  BY <1>1 DEF IInv, AllSound, Sound, Windows
<1> HIDE DEF up, tiled
<1>4. Sound(r) /\ r.at = win[c].at /\ r.old = win[c].old
  BY <1>3, InsertKeeps
<1>5. AllSound' /\ NobodyIsStranded' /\ GuestsWait' /\ Promise!Move(c)
  BY <1>1, <1>2, <1>4, HandlingIsAMove
<1>6. Shape'
  BY <1>1 DEF IInv, Shape, Typed
<1> QED
  BY <1>5, <1>6 DEF Kept, IInv, Promise!Next

(* What changes only the outputs' views leaves every window where it is.   *)
LEMMA ViewStep ==
  ASSUME IInv, Shape', UNCHANGED <<plug, focused, win>>
  PROVE  Kept
<1>1. Open' = Open
  BY DEF Open
<1>2. win' \in [Container -> Windows \cup {NONE}] /\ \A c \in Open : Sound(win'[c])
  BY DEF IInv, AllSound
<1>3. /\ AllSound' /\ NobodyIsStranded' /\ GuestsWait'
      /\ UNCHANGED <<Plugged, PlaceOf, HomeOf>>
  BY <1>1, <1>2, LeavingIsAStutter
<1> QED
  BY <1>3 DEF Kept, IInv, Promise!vars

(* cwc_output_set_view_only                                                *)
LEMMA SetViewOnlyStep ==
  ASSUME IInv, NEW o \in Output, NEW i \in Index, SetViewOnly(o, i)
  PROVE  Kept
<1>1. /\ view' = [view EXCEPT ![o] = i] /\ seen' = [seen EXCEPT ![o] = {i}]
      /\ pending' = pending \cup ({o} \cap Plugged)
      /\ UNCHANGED <<plug, focused, layout, win>>
  BY DEF SetViewOnly
<1>2. Shape'
  BY <1>1 DEF IInv, Shape, Typed
<1> QED
  BY <1>1, <1>2, ViewStep

(* cwc_output_set_active_tag                                               *)
LEMMA SetActiveTagStep ==
  ASSUME IInv, NEW o \in Output, NEW T \in TagSets, SetActiveTag(o, T)
  PROVE  Kept
<1>1. /\ seen' = [seen EXCEPT ![o] = T]
      /\ view' = [view EXCEPT ![o] = IF @ \in T THEN @ ELSE FirstTag(T)]
      /\ pending' = pending \cup ({o} \cap Plugged)
      /\ UNCHANGED <<plug, focused, layout, win>>
  BY DEF SetActiveTag
<1>2. T \subseteq Index /\ FirstTag(T) \in Index
  BY FirstTagIsATag DEF SetActiveTag
<1>3. Shape'
  BY <1>1, <1>2 DEF IInv, Shape, Typed
<1> QED
  BY <1>1, <1>3, ViewStep

(* luaC_tag_set_selected                                                   *)
LEMMA SetSelectedStep ==
  ASSUME IInv, NEW o \in Output, NEW i \in Index, NEW activate \in BOOLEAN,
         SetSelected(o, i, activate)
  PROVE  Kept
<1>1. /\ seen' = [seen EXCEPT ![o] = IF activate THEN @ \cup {i} ELSE @ \ {i}]
      /\ pending' = pending \cup ({o} \cap Plugged)
      /\ UNCHANGED <<plug, focused, view, layout, win>>
  BY DEF SetSelected
<1>2. Shape'
  BY <1>1 DEF IInv, Shape, Typed
<1> QED
  BY <1>1, <1>2, ViewStep

(* cwc_output_set_layout_mode                                              *)
LEMMA SetLayoutModeStep ==
  ASSUME IInv, NEW o \in Output, NEW i \in Index, NEW l \in Layouts,
         SetLayoutMode(o, i, l)
  PROVE  Kept
<1>1. /\ layout' = [layout EXCEPT ![<<o, i>>] = l]
      /\ UNCHANGED <<plug, focused, view, seen, pending>>
  BY DEF SetLayoutMode
<1>2. win' = [c \in Container |->
                IF c \in Open THEN InsertTiled(win[c], o, {i}, layout') ELSE win[c]]
  BY DEF SetLayoutMode
<1>3. \A c \in Open : /\ Sound(win'[c]) /\ win'[c].at = win[c].at
                      /\ win'[c].ws = win[c].ws /\ win'[c].old = win[c].old
  <2> TAKE c \in Open
  <2>1. win'[c] = InsertTiled(win[c], o, {i}, layout') /\ Sound(win[c])
    BY <1>2 DEF IInv, AllSound, Open
  <2> QED
    BY <2>1, InsertTiledKeeps
<1>4. \A c \in Container \ Open : win'[c] = NONE
  BY <1>2 DEF Open
<1>5. win' \in [Container -> Windows \cup {NONE}] /\ Open' = Open
  BY <1>2, <1>3, <1>4, OnlyWindowsAreOpen
<1>6. Shape'
  BY <1>1 DEF IInv, Shape, Typed
<1>7. /\ AllSound' /\ NobodyIsStranded' /\ GuestsWait'
      /\ UNCHANGED <<Plugged, PlaceOf, HomeOf>>
  BY <1>1, <1>3, <1>5, LeavingIsAStutter
<1> QED
  BY <1>6, <1>7 DEF Kept, IInv, Promise!vars

(* cwc_output_update_visible                                               *)
LEMMA UpdateVisibleStep ==
  ASSUME IInv, NEW o \in Output, UpdateVisible(o)
  PROVE  Kept
<1>1. pending' = pending \ {o} /\ UNCHANGED <<plug, focused, view, seen, layout>>
  BY DEF UpdateVisible
<1>2. win' = [c \in Container |->
                IF c \in WinsAt(o) THEN [win[c] EXCEPT !.shown = Visible(win[c])]
                                  ELSE win[c]]
  BY DEF UpdateVisible
<1>3. \A c \in Open : /\ Sound(win'[c]) /\ win'[c].at = win[c].at
                      /\ win'[c].ws = win[c].ws /\ win'[c].old = win[c].old
  <2> TAKE c \in Open
  <2>1. Visible(win[c]) \in BOOLEAN /\ Sound(win[c])
    BY DEF Visible, IInv, AllSound
  <2>2. win'[c] = win[c] \/ win'[c] = [win[c] EXCEPT !.shown = Visible(win[c])]
    BY <1>2 DEF Open
  <2> QED
    BY <2>1, <2>2 DEF Sound, Windows
<1>4. \A c \in Container \ Open : win'[c] = NONE
  BY <1>2 DEF Open, WinsAt
<1>5. win' \in [Container -> Windows \cup {NONE}] /\ Open' = Open
  BY <1>2, <1>3, <1>4, OnlyWindowsAreOpen
<1>6. Shape'
  BY <1>1 DEF IInv, Shape, Typed
<1>7. /\ AllSound' /\ NobodyIsStranded' /\ GuestsWait'
      /\ UNCHANGED <<Plugged, PlaceOf, HomeOf>>
  BY <1>1, <1>3, <1>5, LeavingIsAStutter
<1> QED
  BY <1>6, <1>7 DEF Kept, IInv, Promise!vars

----------------------------------------------------------------------------
(* Outputs come and go                                                     *)

(* Once the windows of an output are rescued to one that remains, nobody   *)
(* is stranded and everybody still belongs where they did.                 *)
LEMMA RescuingIsAnUnplug ==
  ASSUME IInv, NEW o \in Plugged,
         NEW a \in (IF Plugged \ {o} = {} THEN {Fallback} ELSE Plugged \ {o}),
         plug' = [plug EXCEPT ![o] = "out"], focused' = a,
         win' \in [Container -> Windows \cup {NONE}], Open' = Open,
         \A c \in Open :
           LET w == win[c]
           IN  /\ Sound(win'[c])
               /\ win'[c].at = IF w.at = o THEN a ELSE w.at
               /\ win'[c].old = IF w.at = o THEN Remember(w).old ELSE w.old
               /\ w.at # o => win'[c].ws = w.ws
  PROVE  AllSound' /\ NobodyIsStranded' /\ GuestsWait' /\ Promise!Unplug(o)
<1>1. Plugged' = Plugged \ {o} /\ o \in Output /\ o # Fallback
  BY HotplugAssumption DEF Plugged, IInv, Shape
<1>2. AllSound'
  BY DEF AllSound, Sound
<1>3. NobodyIsStranded'
  <2> DEFINE present == IF Plugged \ {o} = {} THEN {Fallback} ELSE Plugged \ {o}
  <2>1. \A c \in Open : win[c].at \in Plugged
    BY DEF IInv, NobodyIsStranded
  <2>2. \A c \in Open : win'[c].at \in present
    BY <2>1
  <2> QED
    BY <1>1, <2>2 DEF NobodyIsStranded
<1>4. \A c \in Open :
        win'[c].old = IF win[c].at = o /\ win[c].old = NONE
                        THEN [out |-> o, ws |-> win[c].ws, tags |-> win[c].tags,
                              leaf |-> win[c].leaf]
                        ELSE win[c].old
  BY <1>1, RememberKeeps, GuestsRemember
<1>5. ASSUME NEW c \in Open, win[c].at = o, win[c].old = NONE
      PROVE  /\ win'[c].old # NONE
             /\ win'[c].old.out = o /\ win'[c].old.ws = win[c].ws
  <2> DEFINE saved == [out |-> o, ws |-> win[c].ws, tags |-> win[c].tags,
                       leaf |-> win[c].leaf]
  <2>1. saved \in OldProp
    BY <1>1, GuestsRemember DEF Windows, OldProp
  <2>2. win'[c].old = saved
    BY <1>4, <1>5
  <2>3. saved.out = o /\ saved.ws = win[c].ws
    OBVIOUS
  <2> HIDE DEF saved
  <2> QED
    BY <2>1, <2>2, <2>3, NoneIsNoStruct
<1>6. GuestsWait'
  <2> SUFFICES ASSUME NEW c \in Open, win'[c].old # NONE
               PROVE  plug'[win'[c].old.out] = "out"
    BY DEF GuestsWait
  <2>1. CASE win[c].at = o /\ win[c].old = NONE
    BY <1>1, <1>5, <2>1 DEF IInv, Shape
  <2>2. CASE ~(win[c].at = o /\ win[c].old = NONE)
    <3>1. win'[c].old = win[c].old
      BY <1>4, <2>2
    <3>2. win[c].old.out \in Output /\ plug[win[c].old.out] = "out"
      BY <3>1, GuestsRemember DEF IInv, GuestsWait, OldProp
    <3> QED
      BY <3>1, <3>2 DEF IInv, Shape
  <2> QED
    BY <2>1, <2>2
<1>7. Promise!Unplug(o)
  <2>1. \A c \in Container : (win'[c] = NONE) = (win[c] = NONE)
    BY DEF Open
  <2>2. o # NONE
    BY <1>1, HotplugAssumption
  <2>3. PlaceOf' = [c \in Container |-> IF PlaceOf[c] = o THEN a ELSE PlaceOf[c]]
    <3>1. \A c \in Container :
            PlaceOf'[c] = IF PlaceOf[c] = o THEN a ELSE PlaceOf[c]
      BY <2>1, <2>2 DEF PlaceOf, Open
    <3> QED
      BY <3>1 DEF PlaceOf
  <2>4. \A c \in Container : HomeOf'[c] = HomeOf[c]
    <3> SUFFICES ASSUME NEW c \in Open
                 PROVE  HomeOf'[c] = HomeOf[c]
      BY <2>1 DEF HomeOf, Open
    <3>1. c \in Container /\ win[c] # NONE /\ win'[c] # NONE
      BY <2>1 DEF Open
    <3>2. CASE win[c].at = o /\ win[c].old = NONE
      BY <1>5, <3>1, <3>2 DEF HomeOf
    <3>3. CASE ~(win[c].at = o /\ win[c].old = NONE)
      BY <1>4, <3>1, <3>3 DEF HomeOf
    <3> QED
      BY <3>2, <3>3
  <2>5. HomeOf' = HomeOf
    BY <2>4 DEF HomeOf
  <2> QED
    BY <1>1, <2>3, <2>5 DEF Promise!Unplug
<1> QED
  BY <1>2, <1>3, <1>6, <1>7

(* on_output_destroy while another output remains                          *)
LEMMA OutputDestroyStep ==
  ASSUME IInv, NEW o \in Output, NEW a \in Output, OutputDestroy(o, a)
  PROVE  Kept
<1>1. /\ o \in Plugged /\ a \in Plugged \ {o}
      /\ plug' = [plug EXCEPT ![o] = "out"] /\ focused' = a
      /\ pending' = (pending \ {o}) \cup {a} /\ UNCHANGED <<view, seen, layout>>
  BY DEF OutputDestroy
<1>2. win' = [c \in Container |->
                IF c \in WinsAt(o)
                  THEN InsertTiled(Rescue(win[c], a), a, Index, layout)
                ELSE IF c \in Open THEN InsertTiled(win[c], a, Index, layout)
                ELSE win[c]]
  BY DEF OutputDestroy
<1>3. \A c \in Open :
        LET w == win[c]
        IN  /\ Sound(win'[c])
            /\ win'[c].at = IF w.at = o THEN a ELSE w.at
            /\ win'[c].old = IF w.at = o THEN Remember(w).old ELSE w.old
            /\ w.at # o => win'[c].ws = w.ws
  <2> TAKE c \in Open
  <2>1. c \in Container /\ Sound(win[c])
    BY DEF IInv, AllSound, Open
  <2>2. CASE win[c].at = o
    <3> DEFINE r == Rescue(win[c], a)
    <3>1. Sound(r) /\ r.at = a /\ r.old = Remember(win[c]).old
      BY <2>1, RescueKeeps DEF IInv, Shape, Place
    <3>2. win'[c] = InsertTiled(r, a, Index, layout)
      BY <1>2, <2>1, <2>2 DEF WinsAt
    <3> HIDE DEF r
    <3> QED
      BY <2>2, <3>1, <3>2, InsertTiledKeeps
  <2>3. CASE win[c].at # o
    <3>1. win'[c] = InsertTiled(win[c], a, Index, layout)
      BY <1>2, <2>1, <2>3 DEF WinsAt
    <3> QED
      BY <2>1, <2>3, <3>1, InsertTiledKeeps
  <2> QED
    BY <2>2, <2>3
<1>4. \A c \in Container \ Open : win'[c] = NONE
  BY <1>2 DEF Open, WinsAt
<1>5. win' \in [Container -> Windows \cup {NONE}] /\ Open' = Open
  BY <1>2, <1>3, <1>4, OnlyWindowsAreOpen
<1>6. a \in (IF Plugged \ {o} = {} THEN {Fallback} ELSE Plugged \ {o})
  BY <1>1
<1>7. AllSound' /\ NobodyIsStranded' /\ GuestsWait' /\ Promise!Unplug(o)
  BY <1>1, <1>3, <1>5, <1>6, RescuingIsAnUnplug
<1>8. Shape'
  BY <1>1 DEF IInv, Shape, Typed, Place
<1> QED
  BY <1>7, <1>8 DEF Kept, IInv, Promise!Next

(* on_output_destroy of the only output                                    *)
LEMMA LastOutputDestroyStep ==
  ASSUME IInv, NEW o \in Output, LastOutputDestroy(o)
  PROVE  Kept
<1>1. /\ Plugged = {o}
      /\ plug' = [plug EXCEPT ![o] = "out"] /\ focused' = Fallback
      /\ pending' = {} /\ UNCHANGED <<view, seen, layout>>
  BY DEF LastOutputDestroy
<1>2. win' = [c \in Container |->
                IF c \in WinsAt(o) THEN Rescue(win[c], Fallback) ELSE win[c]]
  BY DEF LastOutputDestroy
<1>3. \A c \in Open :
        LET w == win[c]
        IN  /\ Sound(win'[c])
            /\ win'[c].at = IF w.at = o THEN Fallback ELSE w.at
            /\ win'[c].old = IF w.at = o THEN Remember(w).old ELSE w.old
            /\ w.at # o => win'[c].ws = w.ws
  <2> TAKE c \in Open
  <2>1. c \in Container /\ Sound(win[c])
    BY DEF IInv, AllSound, Open
  <2>2. CASE win[c].at = o
    <3>1. win'[c] = Rescue(win[c], Fallback)
      BY <1>2, <2>1, <2>2 DEF WinsAt
    <3> QED
      BY <2>1, <2>2, <3>1, RescueKeeps DEF IInv, Shape, Place
  <2>3. CASE win[c].at # o
    <3>1. win'[c] = win[c]
      BY <1>2, <2>1, <2>3 DEF WinsAt
    <3> QED
      BY <2>1, <2>3, <3>1
  <2> QED
    BY <2>2, <2>3
<1>4. \A c \in Container \ Open : win'[c] = NONE
  BY <1>2 DEF Open, WinsAt
<1>5. win' \in [Container -> Windows \cup {NONE}] /\ Open' = Open
  BY <1>2, <1>3, <1>4, OnlyWindowsAreOpen
<1>6. /\ o \in Plugged
      /\ Fallback \in (IF Plugged \ {o} = {} THEN {Fallback} ELSE Plugged \ {o})
  BY <1>1
<1>7. AllSound' /\ NobodyIsStranded' /\ GuestsWait' /\ Promise!Unplug(o)
  BY <1>1, <1>3, <1>5, <1>6, RescuingIsAnUnplug
<1>8. Shape'
  BY <1>1 DEF IInv, Shape, Typed, Place
<1> QED
  BY <1>7, <1>8 DEF Kept, IInv, Promise!Next

(* on_new_output: those that waited for the output return, and those on    *)
(* the fallback output move to it.                                         *)
LEMMA NewOutputStep ==
  ASSUME IInv, NEW o \in Output, NewOutput(o)
  PROVE  Kept
<1>1. /\ plug[o] # "in" /\ plug' = [plug EXCEPT ![o] = "in"]
      /\ focused' = IF Plugged = {} THEN o ELSE focused
      /\ pending' = (pending \ {o}) \cup
                       UNION { AskedByRescue(win[c], o) : c \in Adopted(o) }
      /\ UNCHANGED <<view, seen, layout>>
  BY DEF NewOutput
<1>2. win' = [c \in Container |->
                IF c \in WaitingFor(o) THEN Restore(win[c], o)
                ELSE IF c \in Adopted(o) THEN Rescue(win[c], o) ELSE win[c]]
  BY DEF NewOutput
<1>3. o # Fallback /\ o # NONE /\ o \in Place /\ Fallback # NONE
  BY HotplugAssumption DEF Place
<1>4. Plugged' = Plugged \cup {o} /\ o \notin Plugged
  BY <1>1 DEF Plugged, IInv, Shape
(* Those that belong to the output.                                        *)
<1>5. ASSUME NEW c \in Open, c \in WaitingFor(o)
      PROVE  /\ Sound(win'[c]) /\ win'[c].at = o /\ win'[c].old = NONE
             /\ win[c].old # NONE /\ win[c].old.out = o
             /\ win'[c].ws = win[c].old.ws
  <2>1. c \in Container /\ Sound(win[c])
    BY GuestsRemember
  <2>2. win[c].old # NONE /\ win[c].old.out = o
    BY <1>5 DEF WaitingFor
  <2>3. win'[c] = Restore(win[c], o)
    BY <1>2, <1>5, <2>1
  <2> QED
    BY <2>1, <2>2, <2>3, RestoreKeeps DEF IInv, Shape
(* Those that have nowhere else to be.                                     *)
<1>6. ASSUME NEW c \in Open, c \notin WaitingFor(o), win[c].at = Fallback
      PROVE  /\ Sound(win'[c]) /\ win'[c].at = o /\ win'[c].old = win[c].old
             /\ win[c].old = NONE => win'[c].ws = view[o]
  <2>1. c \in Container /\ Sound(win[c])
    BY GuestsRemember
  <2>2. win'[c] = Rescue(win[c], o)
    BY <1>2, <1>6, <2>1 DEF Adopted, WinsAt
  <2>3. Remember(win[c]).old = win[c].old
    BY <1>6 DEF Remember
  <2>4. Typed
    BY DEF IInv, Shape
  <2>5. LET r == Rescue(win[c], o)
        IN  /\ Sound(r) /\ r.at = o /\ r.old = win[c].old
            /\ r.old = NONE /\ win[c].at # o => r.ws = view[o]
    BY <1>3, <2>1, <2>3, <2>4, RescueKeeps
  <2> QED
    BY <1>3, <1>6, <2>2, <2>5
(* The others.                                                             *)
<1>7. ASSUME NEW c \in Open, c \notin WaitingFor(o), win[c].at # Fallback
      PROVE  win'[c] = win[c] /\ Sound(win[c]) /\ win[c].at \in Plugged
  BY <1>2, <1>7, GuestsRemember DEF Adopted, WinsAt
<1>8. \A c \in Open : Sound(win'[c])
  BY <1>5, <1>6, <1>7
<1>9. \A c \in Container \ Open : win'[c] = NONE
  BY <1>2 DEF Open, WinsAt, WaitingFor, Adopted
<1>10. win' \in [Container -> Windows \cup {NONE}] /\ Open' = Open
  BY <1>2, <1>8, <1>9, OnlyWindowsAreOpen
<1>11. Shape'
  <2>1. \A c \in Adopted(o) : AskedByRescue(win[c], o) \subseteq Output
    BY DEF AskedByRescue, AskedByMove
  <2>2. pending' \subseteq Output
    BY <1>1, <2>1 DEF IInv, Shape
  <2> QED
    BY <1>1, <1>3, <2>2 DEF IInv, Shape, Typed
<1>12. AllSound'
  BY <1>8, <1>10 DEF AllSound, Sound
<1>13. NobodyIsStranded'
  <2>1. \A c \in Open : win'[c].at \in Plugged \cup {o}
    BY <1>5, <1>6, <1>7
  <2>2. focused' \in Plugged \cup {o}
    BY <1>1 DEF IInv, NobodyIsStranded
  <2> QED
    BY <1>4, <1>10, <2>1, <2>2 DEF NobodyIsStranded
<1>14. GuestsWait'
  <2> SUFFICES ASSUME NEW c \in Open, win'[c].old # NONE
               PROVE  plug'[win'[c].old.out] = "out"
    BY <1>10 DEF GuestsWait
  <2>1. c \notin WaitingFor(o) /\ win'[c].old = win[c].old
    BY <1>5, <1>6, <1>7
  <2>2. win[c].old.out # o /\ win[c].old.out \in Output
    BY <2>1, GuestsRemember DEF WaitingFor, OldProp
  <2>3. plug[win[c].old.out] = "out"
    BY <2>1 DEF IInv, GuestsWait
  <2> QED
    BY <1>1, <2>1, <2>2, <2>3 DEF IInv, Shape
<1>15. Promise!Plug(o)
  <2>1. view[o] \in Index
    BY <1>3 DEF IInv, Shape, Typed
  <2>2. \A c \in Container : (win'[c] = NONE) = (win[c] = NONE)
    BY <1>10 DEF Open
  <2>3. ASSUME NEW c \in Container
        PROVE  /\ HomeOf'[c] = IF HomeOf[c][1] = Fallback
                                 THEN <<o, view[o]>> ELSE HomeOf[c]
               /\ PlaceOf'[c] = IF HomeOf'[c][1] = o \/ PlaceOf[c] = Fallback
                                  THEN o ELSE PlaceOf[c]
    <3>1. CASE c \notin Open
      <4>1. win[c] = NONE /\ win'[c] = NONE
        BY <2>2, <3>1 DEF Open
      <4> QED
        BY <1>3, <4>1 DEF HomeOf, PlaceOf
    <3>2. CASE c \in Open /\ c \in WaitingFor(o)
      <4>1. win[c] # NONE /\ win'[c] # NONE
        BY <2>2, <3>2 DEF Open
      <4>2. HomeOf[c] = <<o, win[c].old.ws>> /\ HomeOf'[c] = <<o, win[c].old.ws>>
        BY <1>5, <3>2, <4>1 DEF HomeOf
      <4>3. PlaceOf'[c] = o
        BY <1>5, <3>2, <4>1 DEF PlaceOf
      <4> QED
        BY <1>3, <4>2, <4>3
    <3>3. CASE c \in Open /\ c \notin WaitingFor(o) /\ win[c].at = Fallback
      <4>1. win[c] # NONE /\ win'[c] # NONE
        BY <2>2, <3>3 DEF Open
      <4>2. PlaceOf[c] = Fallback /\ PlaceOf'[c] = o
        BY <1>6, <3>3, <4>1 DEF PlaceOf
      <4>3. CASE win[c].old = NONE
        <5>1. HomeOf[c][1] = Fallback /\ HomeOf'[c] = <<o, view[o]>>
          BY <1>6, <3>3, <4>1, <4>3 DEF HomeOf
        <5> QED
          BY <4>2, <5>1
      <4>4. CASE win[c].old # NONE
        <5>1. HomeOf'[c] = HomeOf[c] /\ HomeOf[c][1] = win[c].old.out
          BY <1>6, <3>3, <4>1, <4>4 DEF HomeOf
        <5>2. win[c].old.out # Fallback
          BY <3>3, <4>4, GuestsRemember
        <5> QED
          BY <4>2, <5>1, <5>2
      <4> QED
        BY <4>3, <4>4
    <3>4. CASE c \in Open /\ c \notin WaitingFor(o) /\ win[c].at # Fallback
      <4>1. win[c] # NONE /\ win'[c] = win[c] /\ win[c].at \in Plugged
        BY <1>7, <3>4 DEF Open
      <4>2. HomeOf'[c] = HomeOf[c] /\ PlaceOf'[c] = PlaceOf[c] /\ PlaceOf[c] # Fallback
        BY <3>4, <4>1 DEF HomeOf, PlaceOf
      <4>3. HomeOf[c][1] # o /\ HomeOf[c][1] # Fallback
        <5>1. CASE win[c].old = NONE
          <6>1. HomeOf[c][1] = win[c].at
            BY <4>1, <5>1 DEF HomeOf
          <6> QED
            BY <1>4, <3>4, <4>1, <6>1
        <5>2. CASE win[c].old # NONE
          <6>1. HomeOf[c][1] = win[c].old.out /\ win[c].old.out # o
            BY <3>4, <4>1, <5>2 DEF HomeOf, WaitingFor
          <6>2. win[c].old.out # Fallback
            BY <3>4, <5>2, GuestsRemember
          <6> QED
            BY <6>1, <6>2
        <5> QED
          BY <5>1, <5>2
      <4> QED
        BY <4>2, <4>3
    <3> QED
      BY <3>1, <3>2, <3>3, <3>4
  <2>4. HomeOf' = [c \in Container |-> IF HomeOf[c][1] = Fallback
                                         THEN <<o, view[o]>> ELSE HomeOf[c]]
    <3>1. HomeOf' = [c \in Container |-> HomeOf'[c]]
      BY DEF HomeOf
    <3> QED
      BY <2>3, <3>1
  <2>5. PlaceOf' = [c \in Container |->
                      IF HomeOf'[c][1] = o \/ PlaceOf[c] = Fallback
                        THEN o ELSE PlaceOf[c]]
    <3>1. PlaceOf' = [c \in Container |-> PlaceOf'[c]]
      BY DEF PlaceOf
    <3> QED
      BY <2>3, <3>1
  <2> QED
    BY <1>4, <2>1, <2>4, <2>5 DEF Promise!Plug
<1> QED
  BY <1>11, <1>12, <1>13, <1>14, <1>15 DEF Kept, IInv, Promise!Next

----------------------------------------------------------------------------
(* Theorems                                                                *)

(* The program starts with no output but the fallback output, and no       *)
(* window.                                                                 *)
LEMMA Start ==
  ASSUME Init
  PROVE  IInv /\ Promise!Init
<1>1. Open = {} /\ Plugged = {}
  BY DEF Init, Open, Plugged
<1>2. Shape
  BY HotplugAssumption DEF Init, Shape, Typed, Place, Tag
<1>3. AllSound /\ NobodyIsStranded /\ GuestsWait
  BY <1>1 DEF Init, AllSound, NobodyIsStranded, GuestsWait
<1>4. Promise!Init
  BY <1>1 DEF Init, PlaceOf, HomeOf, Promise!Init
<1> QED
  BY <1>2, <1>3, <1>4 DEF IInv

(* Every step of cwc keeps the invariant and is, for module Homes, one of   *)
(* its steps or none.                                                      *)
LEMMA Step ==
  ASSUME IInv, [Next]_vars
  PROVE  Kept
<1>1. CASE UNCHANGED vars
  BY <1>1, ViewStep DEF vars, IInv, Shape, Typed
<1>2. CASE Next
  BY <1>2, OpenStep, CloseStep, MoveToOutputStep, MoveToTagStep, SetTagsStep,
     SetFloatingStep, SetViewOnlyStep, SetActiveTagStep, SetSelectedStep,
     SetLayoutModeStep, UpdateVisibleStep, OutputDestroyStep,
     LastOutputDestroyStep, NewOutputStep
     DEF Next
<1> QED
  BY <1>1, <1>2

(* The invariant always holds.                                             *)
LEMMA Invariance == Spec => []IInv
<1>1. IInv /\ [Next]_vars => IInv'
  BY Step DEF Kept
<1> QED
  BY <1>1, Start, PTL DEF Spec

(* The variables have their types.                                         *)
THEOREM HotplugTypes == Spec => []TypeOK
<1>1. IInv => TypeOK
  BY DEF IInv, Shape, Typed, AllSound, TypeOK
<1> QED
  BY <1>1, Invariance, PTL

(* Whatever comes and goes, nobody is on an output that is gone, nor on    *)
(* the fallback output while there is another.                             *)
THEOREM NobodyStaysStranded == Spec => []NobodyIsStranded
<1>1. IInv => NobodyIsStranded
  BY DEF IInv
<1> QED
  BY <1>1, Invariance, PTL

(* The leaf of every container is in the tree where it is looked up.       *)
THEOREM LeavesStayFound == Spec => []LeavesAreFound
<1>1. IInv => LeavesAreFound
  BY DEF IInv, AllSound, LeavesAreFound, Sound
<1> QED
  BY <1>1, Invariance, PTL

(* No output is back without the containers that waited for it.            *)
THEOREM GuestsKeepWaiting == Spec => []GuestsWait
<1>1. IInv => GuestsWait
  BY DEF IInv
<1> QED
  BY <1>1, Invariance, PTL

(* Hotplugging implements module Homes: every window is on the output of   *)
(* its home whenever that is plugged, and being rescued, rescued again,    *)
(* moved or retagged as a guest does not change where it belongs.          *)
THEOREM HomesStayKept == Spec => HomesAreKept
<1>1. Init => Promise!Init
  BY Start
<1>2. IInv /\ [Next]_vars => [Promise!Next]_(Promise!vars)
  BY Step DEF Kept
<1> QED
  BY <1>1, <1>2, Invariance, PTL DEF Spec, HomesAreKept, Promise!Spec
============================================================================
