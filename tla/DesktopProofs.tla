---------------------------- MODULE DesktopProofs ----------------------------
(***************************************************************************)
(* The parts of the desktop and its seat, proved for any number of         *)
(* surfaces, fingers, windows, outputs and clients.  Each part has         *)
(* variables of its own here; ServicesProofs carries the results over to   *)
(* the composition that TLC checks.                                        *)
(***************************************************************************)
EXTENDS ListProofs, FiniteSets, FiniteSetTheorems

(***************************************************************************)
(* Fingers, buttons and the pen: module Touch                              *)
(***************************************************************************)

CONSTANTS Finger, Button, Surface, Aware, None

VARIABLES held, points, down, alive

U == INSTANCE Touch

(* Fingers, buttons and the pen are told from one another by their names.  *)
TouchAssumption ==
    Finger \cap Button = {} /\ "pen" \notin Finger /\ "pen" \notin Button

(* What the fields hold.                                                   *)
TouchTyped ==
    /\ down \in [is : BOOLEAN, by : {"pointer", "touch", "tablet"},
                 on : Surface \cup {None}]
    /\ alive \subseteq Surface

(* Only a finger that is down is tracked, and the surface that the seat is *)
(* down on exists.                                                         *)
TouchInv ==
    /\ TouchTyped
    /\ points \subseteq held \cap Finger
    /\ U!SeatIsReleased
    /\ U!DownOnLiving

LEMMA BeginDownIsTyped ==
  ASSUME NEW s \in alive \cup {None}, NEW m \in {"touch", "tablet", "pointer"}, TouchInv
  PROVE  LET d == U!BeginDown(down, s, m)
         IN /\ d \in [is : BOOLEAN, by : {"pointer", "touch", "tablet"},
                      on : Surface \cup {None}]
            /\ d.on \in alive \cup {None}
BY DEF U!BeginDown, TouchInv, TouchTyped, U!DownOnLiving

LEMMA NothingIsTyped ==
  /\ U!Nothing \in [is : BOOLEAN, by : {"pointer", "touch", "tablet"},
                  on : Surface \cup {None}]
  /\ U!Nothing.on = None /\ ~U!Nothing.is
BY DEF U!Nothing

LEMMA TouchStep == ASSUME TouchAssumption, TouchInv, U!TouchNext PROVE TouchInv'
<1> USE NothingIsTyped
<1>1. ASSUME NEW s \in alive \cup {None}, NEW f \in Finger, U!FingerDown(f, s)
      PROVE  TouchInv'
  <2>1. /\ TouchTyped' /\ U!DownOnLiving'
    BY <1>1, BeginDownIsTyped
       DEF U!FingerDown, U!PressOrRelease, TouchInv, TouchTyped, U!DownOnLiving
  <2> QED
    BY <1>1, <2>1 DEF U!FingerDown, TouchInv, U!SeatIsReleased
<1>2. ASSUME NEW s \in alive \cup {None}, NEW b \in Button, U!ButtonPress(b, s)
      PROVE  TouchInv'
  <2>1. /\ TouchTyped' /\ U!DownOnLiving'
    BY <1>2, BeginDownIsTyped
       DEF U!ButtonPress, U!PressOrRelease, TouchInv, TouchTyped, U!DownOnLiving
  <2> QED
    BY <1>2, <2>1 DEF U!ButtonPress, TouchInv, U!SeatIsReleased
<1>3. ASSUME NEW s \in alive \cup {None}, U!TipDown(s)
      PROVE  TouchInv'
  <2>1. /\ TouchTyped' /\ U!DownOnLiving'
    BY <1>3, BeginDownIsTyped
       DEF U!TipDown, U!PressOrRelease, TouchInv, TouchTyped, U!DownOnLiving
  <2> QED
    BY <1>3, <2>1 DEF U!TipDown, TouchInv, U!SeatIsReleased
<1>4. ASSUME NEW f \in Finger, U!FingerUp(f)
      PROVE  TouchInv'
  <2>1. TouchTyped' /\ U!DownOnLiving'
    BY <1>4 DEF U!FingerUp, U!Forget, U!PressOrRelease, TouchInv, TouchTyped, U!DownOnLiving
  <2>2. U!SeatIsReleased'
    BY <1>4 DEF U!FingerUp, U!Forget, TouchInv, U!SeatIsReleased
  <2> QED
    BY <1>4, <2>1, <2>2 DEF U!FingerUp, TouchInv
<1>5. ASSUME NEW f \in Finger, U!FingerCancel(f)
      PROVE  TouchInv'
  <2>1. TouchTyped' /\ U!DownOnLiving'
    BY <1>5 DEF U!FingerCancel, U!Forget, TouchInv, TouchTyped, U!DownOnLiving
  <2>2. U!SeatIsReleased'
    BY <1>5 DEF U!FingerCancel, U!Forget, TouchInv, U!SeatIsReleased
  <2> QED
    BY <1>5, <2>1, <2>2 DEF U!FingerCancel, TouchInv
<1>6. ASSUME NEW b \in Button, U!ButtonRelease(b)
      PROVE  TouchInv'
  BY <1>6 DEF U!ButtonRelease, U!PressOrRelease, TouchInv, TouchTyped, U!SeatIsReleased,
              U!DownOnLiving, TouchAssumption
<1>7. ASSUME NEW s \in Surface, U!NewSurface(s)
      PROVE  TouchInv'
  BY <1>7 DEF U!NewSurface, TouchInv, TouchTyped, U!SeatIsReleased, U!DownOnLiving
<1>8. ASSUME NEW s \in Surface, U!DestroySurface(s)
      PROVE  TouchInv'
  BY <1>8 DEF U!DestroySurface, TouchInv, TouchTyped, U!SeatIsReleased, U!DownOnLiving
<1>9. CASE U!TipUp
  BY <1>9 DEF U!TipUp, TouchInv, TouchTyped, U!SeatIsReleased, U!DownOnLiving, TouchAssumption
<1>10. CASE U!StartDrag
  BY <1>10 DEF U!StartDrag, TouchInv, TouchTyped, U!SeatIsReleased, U!DownOnLiving
<1> QED
  BY <1>1, <1>2, <1>3, <1>4, <1>5, <1>6, <1>7, <1>8, <1>9, <1>10 DEF U!TouchNext

LEMMA TouchStart == U!TouchInit => TouchInv
BY NothingIsTyped DEF U!TouchInit, TouchInv, TouchTyped, U!SeatIsReleased, U!DownOnLiving

LEMMA TouchStutter == TouchInv /\ UNCHANGED U!touchVars => TouchInv'
BY DEF TouchInv, TouchTyped, U!SeatIsReleased, U!DownOnLiving, U!touchVars

(***************************************************************************)
(* The keyboard focus: module Focus                                        *)
(***************************************************************************)

CONSTANTS Window, Layer, Output, OutputOf, Zoned

VARIABLES seat, stack, layers, lock

F == INSTANCE Focus

LEMMA InSet ==
  ASSUME NEW S, NEW s \in Seq(S)
  PROVE  \A t : t \in F!ToSet(s) <=> \E i \in 1 .. Len(s) : s[i] = t
BY DEF F!ToSet

(* What is taken out of a list leaves the rest in it, and what is put at   *)
(* its head is added to it.                                                *)
LEMMA UnlinkedIs ==
  ASSUME NEW S, NEW s \in Seq(S), NEW t \in F!ToSet(s)
  PROVE  /\ F!Unlinked(s, t) \in Seq(S)
         /\ \A u \in F!ToSet(s) \ {t} : u \in F!ToSet(F!Unlinked(s, t))
<1> DEFINE i == CHOOSE i \in DOMAIN s : s[i] = t
           r == SubSeq(s, 1, i - 1) \o SubSeq(s, i + 1, Len(s))
<1>1. i \in 1 .. Len(s) /\ s[i] = t
  <2>1. \E j \in DOMAIN s : s[j] = t
    BY DEF F!ToSet
  <2>2. i \in DOMAIN s /\ s[i] = t
    BY <2>1
  <2> QED
    BY <2>2
<1>2. F!Unlinked(s, t) = r
  BY DEF F!Unlinked, F!RemoveAt
<1> HIDE DEF i
<1>3. /\ r \in Seq(S)
      /\ \A j \in 1 .. Len(s) : j # i => \E k \in 1 .. Len(r) : r[k] = s[j]
  BY <1>1, RemovedIs, ListWithout
<1> HIDE DEF r
<1> QED
  BY <1>1, <1>2, <1>3, InSet

LEMMA LinkedIs ==
  ASSUME NEW S, NEW s \in Seq(S), NEW t \in S
  PROVE  /\ <<t>> \o s \in Seq(S)
         /\ \A u \in F!ToSet(s) \cup {t} : u \in F!ToSet(<<t>> \o s)
<1> DEFINE r == <<t>> \o s
<1>1. /\ r \in Seq(S) /\ Len(r) = Len(s) + 1 /\ r[1] = t
      /\ \A j \in 1 .. Len(s) : r[j + 1] = s[j]
  BY ListWith
<1> HIDE DEF r
<1>2. ASSUME NEW j \in 1 .. Len(s)
      PROVE  s[j] \in F!ToSet(r)
  BY <1>1, InSet
<1>3. t \in F!ToSet(r)
  BY <1>1, InSet
<1> QED
  BY <1>1, <1>2, <1>3, InSet DEF r

(* The first of a list that is one of those is one of them.                *)
LEMMA FirstIs ==
  ASSUME NEW S, NEW s \in Seq(S), NEW those, NEW x \in those, x \in F!ToSet(s)
  PROVE  F!FirstOf(s, those) \in those \cap F!ToSet(s)
<1> DEFINE T == {i \in DOMAIN s : s[i] \in those}
           k == CHOOSE k \in T : \A j \in T : k <= j
<1>1. T \subseteq Nat /\ T # {}
  <2>1. PICK i \in 1 .. Len(s) : s[i] = x
    BY InSet
  <2> QED
    BY <2>1
<1> HIDE DEF T
<1>2. k \in T
  BY <1>1, FirstPlace
<1> HIDE DEF k
<1> QED
  BY <1>2 DEF F!FirstOf, F!ToSet, T, k

(* The seat, the lists and the lock, as the operators pass them on.        *)
Seats == [focus : Window \cup Layer \cup Output \cup {None}, output : Output,
          exclusive : Layer \cup {None}, inputs : SUBSET Window,
          entered : Window \cup {None}]
Kinds == {"none", "passive", "demand", "exclusive"}
Layers == [order : Seq(Layer), kind : [Layer -> Kinds]]
Locks == [locked : BOOLEAN, locker : BOOLEAN,
          of : [Output -> {"none", "made", "shown", "stale"}]]
Worlds == [seat : Seats, stack : Seq(Window), layers : Layers, lock : Locks]

(* The surfaces there are.                                                 *)
Surfaces(d) == F!ToSet(d.stack) \cup F!ToSet(d.layers.order) \cup {None}
               \cup {o \in Output : d.lock.of[o] # "none"}

(* What the seat points to besides the focus, and that a surface is mapped *)
(* only while it exists.                                                   *)
Kept(d) ==
    /\ d.seat.exclusive # None =>
         d.seat.exclusive \in F!ToSet(d.layers.order)
           /\ d.layers.kind[d.seat.exclusive] # "none"
    /\ d.seat.entered \in d.seat.inputs \cup {None}
    /\ \A l \in Layer : d.layers.kind[l] # "none" => l \in F!ToSet(d.layers.order)

Sound(d) == d \in Worlds /\ Kept(d) /\ d.seat.focus \in Surfaces(d)

(* All but the focus, and the stack up to its order, is the same.          *)
OnlyFocus(d, e) ==
    /\ e.layers = d.layers /\ e.lock = d.lock
    /\ e.seat.output = d.seat.output /\ e.seat.exclusive = d.seat.exclusive

Somebody == Window \cup Layer \cup Output \cup {None}

(* NULL is no surface.                                                     *)
FocusAssumption == None \notin Window \cup Layer \cup Output /\ Output # {}

LEMMA GuardExists ==
  ASSUME NEW d \in Worlds, Kept(d)
  PROVE  F!Guard(d) \in Somebody /\ F!Guard(d) \in Surfaces(d)
BY DEF F!Guard, Kept, Surfaces, Worlds, Seats, Locks, Somebody

LEMMA WithFocus ==
  ASSUME NEW d \in Worlds, NEW s \in Somebody
  PROVE  LET e == [d EXCEPT !.seat.focus = s]
         IN /\ e \in Worlds /\ OnlyFocus(d, e)
            /\ e.stack = d.stack /\ e.seat.focus = s
            /\ e.seat.inputs = d.seat.inputs /\ e.seat.entered = d.seat.entered
BY DEF Worlds, Seats, OnlyFocus, Somebody

LEMMA WithEntered ==
  ASSUME NEW d \in Worlds, NEW s \in Window
  PROVE  LET e == [d EXCEPT !.seat.entered = s]
         IN /\ e \in Worlds /\ OnlyFocus(d, e)
            /\ e.stack = d.stack /\ e.seat.focus = d.seat.focus
            /\ e.seat.inputs = d.seat.inputs /\ e.seat.entered = s
BY DEF Worlds, Seats, OnlyFocus

(* Whoever asks for the focus, a guard has it afterwards, or else he.      *)
LEMMA EnterIsSound ==
  ASSUME NEW d \in Worlds, Kept(d), NEW s \in Somebody, s \in Surfaces(d)
  PROVE  LET e == F!Enter(d, s)
         IN /\ Sound(e) /\ OnlyFocus(d, e) /\ e.stack = d.stack
            /\ IF F!Guard(d) # None THEN e.seat.focus \in {d.seat.focus, F!Guard(d)}
               ELSE e.seat.focus = s
<1> DEFINE e == F!Enter(d, s)
<1>1. CASE s = d.seat.focus
  <2>1. e = d
    BY <1>1 DEF F!Enter
  <2> QED
    BY <1>1, <2>1 DEF Sound, OnlyFocus
<1>2. CASE s # d.seat.focus /\ F!Guard(d) # None
  <2> DEFINE g == F!Guard(d)
  <2>1. e = [d EXCEPT !.seat.focus = g]
    BY <1>2 DEF F!Enter
  <2>2. g \in Somebody /\ g \in Surfaces(d)
    BY GuardExists
  <2> HIDE DEF g
  <2>3. /\ e \in Worlds /\ OnlyFocus(d, e)
        /\ e.stack = d.stack /\ e.seat.focus = g
        /\ e.seat.inputs = d.seat.inputs /\ e.seat.entered = d.seat.entered
    BY <2>1, <2>2, WithFocus
  <2> HIDE DEF e
  <2> QED
    BY <1>2, <2>2, <2>3 DEF Sound, OnlyFocus, Kept, Surfaces, g, e
<1>3. CASE s # d.seat.focus /\ F!Guard(d) = None
  <2> DEFINE m == [d EXCEPT !.seat.focus = s]
  <2>1. e = IF s \in m.seat.inputs THEN [m EXCEPT !.seat.entered = s] ELSE m
    BY <1>3 DEF F!Enter, F!TryTextInput
  <2>2. /\ m \in Worlds /\ OnlyFocus(d, m)
        /\ m.stack = d.stack /\ m.seat.focus = s
        /\ m.seat.inputs = d.seat.inputs /\ m.seat.entered = d.seat.entered
    BY WithFocus
  <2> HIDE DEF m
  <2>3. CASE s \in m.seat.inputs
    <3>1. s \in Window
      BY <2>2, <2>3 DEF Worlds, Seats
    <3>2. /\ e \in Worlds /\ OnlyFocus(m, e)
          /\ e.stack = m.stack /\ e.seat.focus = m.seat.focus
          /\ e.seat.inputs = m.seat.inputs /\ e.seat.entered = s
      BY <2>1, <2>2, <2>3, <3>1, WithEntered
    <3> HIDE DEF e
    <3> QED
      BY <1>3, <2>2, <2>3, <3>2 DEF Sound, OnlyFocus, Kept, Surfaces, e
  <2>4. CASE s \notin m.seat.inputs
    <3>1. e = m
      BY <2>1, <2>4
    <3> HIDE DEF e
    <3> QED
      BY <1>3, <2>2, <3>1 DEF Sound, OnlyFocus, Kept, Surfaces, e
  <2> QED
    BY <2>3, <2>4
<1> QED
  BY <1>1, <1>2, <1>3

LEMMA WithStack ==
  ASSUME NEW d \in Worlds, NEW s \in Seq(Window), F!ToSet(d.stack) \subseteq F!ToSet(s),
         Kept(d)
  PROVE  LET e == [d EXCEPT !.stack = s]
         IN /\ e \in Worlds /\ Kept(e) /\ OnlyFocus(d, e)
            /\ e.stack = s /\ e.seat = d.seat /\ Surfaces(d) \subseteq Surfaces(e)
<1> DEFINE e == [d EXCEPT !.stack = s]
<1>1. e \in Worlds /\ OnlyFocus(d, e) /\ e.stack = s /\ e.seat = d.seat
  BY DEF Worlds, OnlyFocus
<1> HIDE DEF e
<1> QED
  BY <1>1 DEF e, Kept, OnlyFocus, Surfaces

(* What moves the focus keeps all else, and leaves it with a guard.        *)
Moves(d, e) ==
    /\ Sound(e) /\ OnlyFocus(d, e)
    /\ F!Guard(d) # None => e.seat.focus \in {d.seat.focus, F!Guard(d)}

LEMMA FocusToplevelMoves ==
  ASSUME NEW d \in Worlds, Kept(d), NEW w \in F!ToSet(d.stack)
  PROVE  Moves(d, F!FocusToplevel(d, w))
<1> DEFINE s == <<w>> \o F!Unlinked(d.stack, w)
           m == [d EXCEPT !.stack = s]
<1>1. d.stack \in Seq(Window) /\ w \in Window
  <2>1. d.stack \in Seq(Window)
    BY DEF Worlds
  <2> QED
    BY <2>1, InSet
<1>2. /\ s \in Seq(Window) /\ w \in F!ToSet(s)
      /\ F!ToSet(d.stack) \subseteq F!ToSet(s)
  <2>1. /\ F!Unlinked(d.stack, w) \in Seq(Window)
        /\ \A u \in F!ToSet(d.stack) \ {w} : u \in F!ToSet(F!Unlinked(d.stack, w))
    BY <1>1, UnlinkedIs
  <2> QED
    BY <1>1, <2>1, LinkedIs
<1> HIDE DEF s
<1>3. /\ m \in Worlds /\ Kept(m) /\ OnlyFocus(d, m)
      /\ m.stack = s /\ m.seat = d.seat
  BY <1>2, WithStack
<1>4. F!FocusToplevel(d, w) = F!Enter(m, w)
  BY DEF F!FocusToplevel, s
<1> HIDE DEF m
<1>5. w \in Somebody /\ w \in Surfaces(m)
  BY <1>1, <1>2, <1>3 DEF Somebody, Surfaces
<1>6. F!Guard(m) = F!Guard(d)
  BY <1>3 DEF F!Guard, OnlyFocus
<1> QED
  BY <1>3, <1>4, <1>5, <1>6, EnterIsSound DEF Moves, OnlyFocus

LEMMA EnterMoves ==
  ASSUME NEW d \in Worlds, Kept(d), NEW s \in Somebody, s \in Surfaces(d)
  PROVE  Moves(d, F!Enter(d, s))
BY EnterIsSound DEF Moves

LEMMA NobodyMoves ==
  ASSUME NEW d \in Worlds, Kept(d)
  PROVE  Moves(d, F!Enter(d, None))
BY EnterMoves DEF Somebody, Surfaces

LEMMA FocusNewestMoves ==
  ASSUME NEW d \in Worlds, Kept(d), NEW o
  PROVE  Moves(d, F!FocusNewest(d, o))
<1> DEFINE here == {w \in F!ToSet(d.stack) : OutputOf[w] = o}
<1>1. CASE here = {}
  BY <1>1, NobodyMoves DEF F!FocusNewest
<1>2. CASE here # {}
  <2>1. PICK w \in here : TRUE
    BY <1>2
  <2>2. d.stack \in Seq(Window) /\ w \in F!ToSet(d.stack)
    BY <2>1 DEF Worlds
  <2> HIDE DEF here
  <2>3. F!FirstOf(d.stack, here) \in F!ToSet(d.stack)
    BY <2>1, <2>2, FirstIs
  <2> QED
    BY <1>2, <2>3, FocusToplevelMoves DEF F!FocusNewest, here
<1> QED
  BY <1>1, <1>2

(* Of all layer surfaces that ask for the exclusive focus one is given it. *)
LEMMA ArrangeIsSound ==
  ASSUME NEW d, Sound(d)
  PROVE  LET e == F!Arrange(d)
         IN /\ Sound(e) /\ e.layers = d.layers /\ e.lock = d.lock
            /\ e.seat.output = d.seat.output
            /\ \/ e = d
               \/ /\ e.seat.exclusive \in {l \in Layer : d.layers.kind[l] = "exclusive"}
                  /\ IF F!Guard(d) # None
                     THEN e.seat.focus \in {d.seat.focus, F!Guard(d)}
                     ELSE e.seat.focus = e.seat.exclusive
<1> DEFINE all == {l \in F!ToSet(d.layers.order) : d.layers.kind[l] = "exclusive"}
           l == F!FirstOf(d.layers.order, all)
           m == F!Enter(d, l)
           e == F!Arrange(d)
<1>1. CASE all = {}
  BY <1>1 DEF F!Arrange
<1>2. CASE all # {}
  <2>1. e = [m EXCEPT !.seat.exclusive = l]
    BY <1>2 DEF F!Arrange
  <2>2. d.layers.order \in Seq(Layer)
    BY DEF Sound, Worlds, Layers
  <2>3. l \in all
    <3>1. PICK x \in all : TRUE
      BY <1>2
    <3> HIDE DEF all
    <3>2. x \in F!ToSet(d.layers.order)
      BY DEF all
    <3> QED
      BY <2>2, <3>1, <3>2, FirstIs
  <2>4. /\ l \in Layer /\ l \in F!ToSet(d.layers.order)
        /\ d.layers.kind[l] = "exclusive"
    BY <2>2, <2>3, InSet
  <2> HIDE DEF all, l
  <2>5. l \in Somebody /\ l \in Surfaces(d) /\ d \in Worlds /\ Kept(d)
    BY <2>4 DEF Somebody, Surfaces, Sound
  <2>6. /\ Sound(m) /\ OnlyFocus(d, m)
        /\ IF F!Guard(d) # None THEN m.seat.focus \in {d.seat.focus, F!Guard(d)}
           ELSE m.seat.focus = l
    BY <2>5, EnterIsSound
  <2> HIDE DEF m
  <2>7. m \in Worlds
    BY <2>6 DEF Sound
  <2>8. /\ e \in Worlds /\ e.layers = m.layers /\ e.lock = m.lock
        /\ e.stack = m.stack
        /\ e.seat.output = m.seat.output /\ e.seat.focus = m.seat.focus
        /\ e.seat.exclusive = l
        /\ e.seat.inputs = m.seat.inputs /\ e.seat.entered = m.seat.entered
    BY <2>1, <2>4, <2>7 DEF Worlds, Seats
  <2> HIDE DEF e
  <2>9. Sound(e)
    BY <2>4, <2>6, <2>8 DEF Sound, Kept, OnlyFocus, Surfaces
  <2> QED
    BY <2>4, <2>6, <2>8, <2>9 DEF OnlyFocus, e
<1> QED
  BY <1>1, <1>2

(***************************************************************************)
(* How the focus passes through the operators of one step, which began     *)
(* when f had it and x had the exclusive one: it stays with f, or the lock *)
(* surface or an exclusive layer surface has it.                           *)
(***************************************************************************)

Locked(d) == d.lock.locked /\ d.lock.of[d.seat.output] # "none"

Others(x, d) == ({x} \ {None}) \cup {l \in Layer : d.layers.kind[l] = "exclusive"}

Tracks(x, f, d) ==
    IF Locked(d) THEN d.seat.focus \in {f, d.seat.output}
    ELSE d.seat.exclusive # None =>
           d.seat.focus \in {f} \cup Others(x, d) /\ d.seat.exclusive \in Others(x, d)

LEMMA MovesTracks ==
  ASSUME FocusAssumption, NEW d \in Worlds, NEW e, Moves(d, e), NEW x, NEW f,
         Tracks(x, f, d)
  PROVE  Tracks(x, f, e)
<1>1. /\ Locked(e) <=> Locked(d)
      /\ Others(x, e) = Others(x, d)
      /\ e.seat.output = d.seat.output /\ e.seat.exclusive = d.seat.exclusive
      /\ F!Guard(d) # None => e.seat.focus \in {d.seat.focus, F!Guard(d)}
  BY DEF Moves, OnlyFocus, Locked, Others
<1>2. CASE Locked(d)
  <2>1. F!Guard(d) = d.seat.output /\ d.seat.output # None
    BY <1>2 DEF F!Guard, Locked, Worlds, Seats, FocusAssumption
  <2> QED
    BY <1>1, <1>2, <2>1 DEF Tracks
<1>3. CASE ~Locked(d)
  <2>1. F!Guard(d) = d.seat.exclusive
    BY <1>3 DEF F!Guard, Locked
  <2> QED
    BY <1>1, <1>3, <2>1 DEF Tracks
<1> QED
  BY <1>2, <1>3

LEMMA ArrangeTracks ==
  ASSUME FocusAssumption, NEW d, Sound(d), NEW x, NEW f, Tracks(x, f, d)
  PROVE  Tracks(x, f, F!Arrange(d))
<1> DEFINE e == F!Arrange(d)
<1>1. /\ e.layers = d.layers /\ e.lock = d.lock
      /\ e.seat.output = d.seat.output
      /\ \/ e = d
         \/ /\ e.seat.exclusive \in {l \in Layer : d.layers.kind[l] = "exclusive"}
            /\ IF F!Guard(d) # None
               THEN e.seat.focus \in {d.seat.focus, F!Guard(d)}
               ELSE e.seat.focus = e.seat.exclusive
  BY ArrangeIsSound
<1> HIDE DEF e
<1>2. (Locked(e) <=> Locked(d)) /\ Others(x, e) = Others(x, d)
  BY <1>1 DEF Locked, Others
<1>3. CASE e = d
  BY <1>3 DEF e
<1>4. CASE e # d /\ Locked(d)
  <2>1. F!Guard(d) = d.seat.output /\ d.seat.output # None
    BY <1>4 DEF F!Guard, Locked, Sound, Worlds, Seats, FocusAssumption
  <2> QED
    BY <1>1, <1>2, <1>4, <2>1 DEF Tracks, e
<1>5. CASE e # d /\ ~Locked(d)
  <2>1. F!Guard(d) = d.seat.exclusive
    BY <1>5 DEF F!Guard, Locked
  <2>2. e.seat.exclusive \in Others(x, d)
    BY <1>1, <1>5 DEF Others
  <2>3. e.seat.focus \in {f} \cup Others(x, d)
    BY <1>1, <1>5, <2>1, <2>2 DEF Tracks
  <2> QED
    BY <1>2, <1>5, <2>2, <2>3 DEF Tracks, e
<1> QED
  BY <1>3, <1>4, <1>5

LEMMA StartTracks ==
  ASSUME NEW d, NEW x, d.seat.exclusive \in {x, None}
  PROVE  Tracks(x, d.seat.focus, d)
BY DEF Tracks, Others

(* A step from d to e that keeps what the seat points to, and the guards.  *)
Steps(d, e) == Sound(e) /\ Tracks(d.seat.exclusive, d.seat.focus, e)

LEMMA StepsByMoving ==
  ASSUME FocusAssumption, NEW d, NEW b \in Worlds, Kept(b), NEW e, Moves(b, e),
         b.seat.focus = d.seat.focus, b.seat.exclusive \in {d.seat.exclusive, None}
  PROVE  Steps(d, e)
BY MovesTracks, StartTracks DEF Steps, Moves

LEMMA StepsByNothing ==
  ASSUME NEW d, NEW e, Sound(e),
         e.seat.focus = d.seat.focus, e.seat.exclusive \in {d.seat.exclusive, None}
  PROVE  Steps(d, e)
BY StartTracks DEF Steps

LEMMA StepsByArranging ==
  ASSUME FocusAssumption, NEW d, NEW m, Steps(d, m)
  PROVE  Steps(d, F!Arrange(m))
BY ArrangeTracks, ArrangeIsSound DEF Steps

(***************************************************************************)
(* The actions                                                             *)
(***************************************************************************)

FocusInv == Sound(F!World)

LEMMA WorldIs ==
  /\ F!World.seat = seat /\ F!World.stack = stack
  /\ F!World.layers = layers /\ F!World.lock = lock
BY DEF F!World

LEMMA BecomesIs ==
  ASSUME NEW e \in Worlds, F!Becomes(e)
  PROVE  F!World' = e
BY DEF F!Becomes, F!World, Worlds

LEMMA InvIs ==
  ASSUME FocusInv
  PROVE  /\ F!World \in Worlds /\ Kept(F!World)
         /\ seat \in Seats /\ stack \in Seq(Window) /\ layers \in Layers /\ lock \in Locks
         /\ layers.order \in Seq(Layer)
BY DEF FocusInv, Sound, Worlds, F!World, Layers

LEMMA WindowSteps ==
  ASSUME FocusAssumption, FocusInv, NEW w \in Window,
         F!Focus(w) \/ F!MapWindow(w) \/ F!CloseWindow(w)
           \/ F!NewTextInput(w) \/ F!DestroyTextInput(w)
  PROVE  Steps(F!World, F!World')
<1> DEFINE W == F!World
<1>1. /\ W \in Worlds /\ Kept(W) /\ W.stack = stack /\ W.seat = seat
      /\ stack \in Seq(Window) /\ Sound(W)
  BY InvIs, WorldIs DEF FocusInv
<1>2. CASE F!Focus(w)
  <2>1. Moves(W, F!FocusToplevel(W, w))
    BY <1>1, <1>2, FocusToplevelMoves DEF F!Focus
  <2>2. F!World' = F!FocusToplevel(W, w)
    BY <1>2, <2>1, BecomesIs DEF F!Focus, Moves, Sound
  <2> QED
    BY <1>1, <2>1, <2>2, StepsByMoving
<1>3. CASE F!MapWindow(w)
  <2> DEFINE s == <<w>> \o stack
             m == [W EXCEPT !.stack = s]
  <2>1. s \in Seq(Window) /\ F!ToSet(stack) \subseteq F!ToSet(s)
    BY <1>1, LinkedIs
  <2>2. F!Becomes(m)
    BY <1>1, <1>3 DEF F!MapWindow
  <2> HIDE DEF s
  <2>3. /\ m \in Worlds /\ Kept(m) /\ m.seat = W.seat /\ Surfaces(W) \subseteq Surfaces(m)
    BY <1>1, <2>1, WithStack
  <2> HIDE DEF m
  <2>4. Sound(m) /\ F!World' = m
    BY <1>1, <2>2, <2>3, BecomesIs DEF Sound
  <2> QED
    BY <2>3, <2>4, StepsByNothing
<1>4. CASE F!CloseWindow(w)
  <2> DEFINE s == F!Unlinked(stack, w)
             m == [W EXCEPT !.stack = s]
  <2>1. s \in Seq(Window) /\ \A u \in F!ToSet(stack) \ {w} : u \in F!ToSet(s)
    BY <1>1, <1>4, UnlinkedIs DEF F!CloseWindow
  <2>2. F!Becomes(IF seat.focus = w THEN F!Enter(m, None) ELSE m)
    BY <1>1, <1>4 DEF F!CloseWindow
  <2> HIDE DEF s
  <2>3. m \in Worlds /\ m.seat = W.seat /\ m.stack = s
        /\ m.layers = W.layers /\ m.lock = W.lock
    BY <1>1, <2>1 DEF Worlds
  <2> HIDE DEF m
  <2>4. Kept(m)
    BY <1>1, <2>3 DEF Kept
  <2>5. CASE seat.focus = w
    <3>1. Moves(m, F!Enter(m, None))
      BY <2>3, <2>4, NobodyMoves
    <3>2. F!World' = F!Enter(m, None)
      BY <2>2, <2>5, <3>1, BecomesIs DEF Moves, Sound
    <3> QED
      BY <2>3, <2>4, <3>1, <3>2, StepsByMoving
  <2>6. CASE seat.focus # w
    <3>1. F!World' = m
      BY <2>2, <2>3, <2>6, BecomesIs
    <3>2. Sound(m)
      BY <1>1, <2>1, <2>3, <2>4, <2>6 DEF Sound, Surfaces
    <3> QED
      BY <2>3, <3>1, <3>2, StepsByNothing
  <2> QED
    BY <2>5, <2>6
<1>5. CASE F!NewTextInput(w)
  <2> DEFINE n == [seat EXCEPT !.inputs = @ \cup {w}]
  <2>1. seat' = n /\ stack' = stack /\ layers' = layers /\ lock' = lock
    BY <1>5 DEF F!NewTextInput
  <2>2. n \in Seats /\ n.inputs = seat.inputs \cup {w} /\ n.entered = seat.entered
        /\ n.focus = seat.focus /\ n.exclusive = seat.exclusive
    BY InvIs DEF Seats
  <2> HIDE DEF n
  <2>3. Sound(F!World') /\ F!World'.seat = n
    BY <1>1, <2>1, <2>2 DEF F!World, Sound, Kept, Surfaces, Worlds
  <2> QED
    BY <1>1, <2>2, <2>3, StepsByNothing
<1>6. CASE F!DestroyTextInput(w)
  <2> DEFINE v == IF seat.entered = w THEN None ELSE seat.entered
             n == [seat EXCEPT !.inputs = @ \ {w}, !.entered = v]
  <2>1. seat' = n /\ stack' = stack /\ layers' = layers /\ lock' = lock
    BY <1>6 DEF F!DestroyTextInput
  <2>2. v \in Window \cup {None} /\ v \in (seat.inputs \ {w}) \cup {None}
    BY <1>1, InvIs DEF Seats, Kept
  <2> HIDE DEF v
  <2>3. n \in Seats /\ n.inputs = seat.inputs \ {w} /\ n.entered = v
        /\ n.focus = seat.focus /\ n.exclusive = seat.exclusive
    BY <2>2, InvIs DEF Seats
  <2> HIDE DEF n
  <2>4. Sound(F!World') /\ F!World'.seat = n
    BY <1>1, <2>1, <2>2, <2>3 DEF F!World, Sound, Kept, Surfaces, Worlds
  <2> QED
    BY <1>1, <2>3, <2>4, StepsByNothing
<1> QED
  BY <1>2, <1>3, <1>4, <1>5, <1>6

(* A layer surface changes its kind, or is no longer mapped.               *)
LEMMA WithKind ==
  ASSUME NEW d \in Worlds, NEW l \in Layer, NEW k \in Kinds
  PROVE  LET e == [d EXCEPT !.layers.kind[l] = k]
         IN /\ e \in Worlds /\ e.seat = d.seat /\ e.stack = d.stack /\ e.lock = d.lock
            /\ e.layers.order = d.layers.order
            /\ \A i \in Layer : e.layers.kind[i] = IF i = l THEN k ELSE d.layers.kind[i]
            /\ Surfaces(e) = Surfaces(d)
<1> DEFINE n == [d.layers EXCEPT !.kind = [d.layers.kind EXCEPT ![l] = k]]
           e == [d EXCEPT !.layers = n]
<1>1. /\ n \in Layers /\ n.order = d.layers.order
      /\ \A i \in Layer : n.kind[i] = IF i = l THEN k ELSE d.layers.kind[i]
  BY DEF Worlds, Layers
<1> HIDE DEF n
<1>2. e \in Worlds /\ e.seat = d.seat /\ e.stack = d.stack /\ e.lock = d.lock
      /\ e.layers = n
  BY <1>1 DEF Worlds
<1> HIDE DEF e
<1>3. e = [d EXCEPT !.layers.kind[l] = k]
  BY DEF e, n
<1>4. Surfaces(e) = Surfaces(d)
  BY <1>1, <1>2 DEF Surfaces
<1> QED
  BY <1>1, <1>2, <1>3, <1>4

LEMMA CommitSteps ==
  ASSUME FocusAssumption, FocusInv, NEW l \in Layer, NEW k \in Kinds \ {"none"},
         F!CommitLayer(l, k)
  PROVE  Steps(F!World, F!World')
<1> DEFINE W == F!World
           m == IF layers.kind[l] = "none" /\ k # "passive"
                THEN F!Arrange(F!Enter(W, l)) ELSE W
           n == [m EXCEPT !.layers.kind[l] = k]
<1>1. /\ W \in Worlds /\ Kept(W) /\ W.layers = layers /\ W.seat = seat /\ Sound(W)
      /\ l \in F!ToSet(layers.order)
  BY InvIs, WorldIs DEF FocusInv, F!CommitLayer, F!Alive
<1>2. F!Becomes(F!Arrange(n))
  BY <1>1 DEF F!CommitLayer
<1>3. Steps(W, m) /\ m.layers = layers
  <2>1. CASE layers.kind[l] = "none" /\ k # "passive"
    <3>1. Moves(W, F!Enter(W, l))
      BY <1>1, EnterMoves DEF Somebody, Surfaces
    <3>2. Steps(W, F!Enter(W, l))
      BY <1>1, <3>1, StepsByMoving
    <3>3. Steps(W, F!Arrange(F!Enter(W, l)))
      BY <3>2, StepsByArranging
    <3>4. /\ F!Arrange(F!Enter(W, l)).layers = F!Enter(W, l).layers
          /\ F!Enter(W, l).layers = layers
      BY <1>1, <3>1, ArrangeIsSound DEF Moves, OnlyFocus
    <3> QED
      BY <2>1, <3>3, <3>4
  <2>2. CASE ~(layers.kind[l] = "none" /\ k # "passive")
    BY <1>1, <2>2, StepsByNothing
  <2> QED
    BY <2>1, <2>2
<1> HIDE DEF m
<1>4. /\ n \in Worlds /\ n.seat = m.seat /\ n.stack = m.stack /\ n.lock = m.lock
      /\ n.layers.order = m.layers.order /\ Surfaces(n) = Surfaces(m)
      /\ \A i \in Layer : n.layers.kind[i] = IF i = l THEN k ELSE m.layers.kind[i]
  BY <1>3, WithKind DEF Steps, Sound
<1> HIDE DEF n
<1>5. Sound(n)
  <2>1. /\ m \in Worlds /\ Kept(m) /\ m.seat.focus \in Surfaces(m)
        /\ m.seat.exclusive \in Layer \cup {None}
    BY <1>3 DEF Steps, Sound, Worlds, Seats
  <2>2. Kept(n)
    BY <1>1, <1>3, <1>4, <2>1 DEF Kept
  <2> QED
    BY <1>4, <2>1, <2>2 DEF Sound
<1>6. Tracks(W.seat.exclusive, W.seat.focus, n)
  <2>1. CASE m = W
    BY <1>4, <2>1, StartTracks
  <2>2. CASE layers.kind[l] = "none"
    <3>1. /\ Locked(n) <=> Locked(m)
          /\ Others(W.seat.exclusive, m) \subseteq Others(W.seat.exclusive, n)
      BY <1>3, <1>4, <2>2 DEF Locked, Others
    <3> QED
      BY <1>3, <1>4, <3>1 DEF Steps, Tracks
  <2> QED
    BY <2>1, <2>2 DEF m
<1>7. Steps(W, F!Arrange(n))
  BY <1>5, <1>6, StepsByArranging DEF Steps
<1> QED
  BY <1>2, <1>7, BecomesIs DEF Steps, Sound

LEMMA UnmapSteps ==
  ASSUME FocusAssumption, FocusInv, NEW l \in Layer, F!UnmapLayer(l)
  PROVE  Steps(F!World, F!World')
<1> DEFINE W == F!World
           gone == [W EXCEPT !.layers.kind[l] = "none"]
           off == [gone EXCEPT !.seat.exclusive = None]
           free == IF seat.exclusive = l THEN F!FocusNewest(off, OutputOf[l]) ELSE gone
<1>1. /\ W \in Worlds /\ Kept(W) /\ W.layers = layers /\ W.seat = seat /\ Sound(W)
  BY InvIs, WorldIs DEF FocusInv
<1>2. F!Becomes(IF l \in Zoned THEN F!Arrange(free) ELSE free)
  BY <1>1 DEF F!UnmapLayer
<1>3. /\ gone \in Worlds /\ gone.seat = W.seat /\ gone.stack = W.stack
      /\ gone.lock = W.lock
      /\ gone.layers.order = W.layers.order /\ Surfaces(gone) = Surfaces(W)
      /\ \A i \in Layer : gone.layers.kind[i] = IF i = l THEN "none" ELSE W.layers.kind[i]
  BY <1>1, WithKind DEF Kinds
<1> HIDE DEF gone
<1>4. Steps(W, free)
  <2>1. CASE seat.exclusive = l
    <3>1. /\ off \in Worlds /\ off.seat.exclusive = None /\ off.seat.focus = gone.seat.focus
          /\ off.seat.inputs = gone.seat.inputs /\ off.seat.entered = gone.seat.entered
          /\ off.layers = gone.layers
      BY <1>3 DEF Worlds, Seats
    <3> HIDE DEF off
    <3>2. Kept(off)
      BY <1>1, <1>3, <3>1 DEF Kept
    <3>3. Moves(off, F!FocusNewest(off, OutputOf[l]))
      BY <3>1, <3>2, FocusNewestMoves
    <3> QED
      BY <1>3, <2>1, <3>1, <3>2, <3>3, StepsByMoving
  <2>2. CASE seat.exclusive # l
    <3>1. seat.exclusive \in Layer \cup {None}
      BY InvIs DEF Seats
    <3>2. Kept(gone)
      BY <1>1, <1>3, <2>2, <3>1 DEF Kept
    <3>3. Sound(gone)
      BY <1>1, <1>3, <3>2 DEF Sound
    <3> QED
      BY <1>3, <2>2, <3>3, StepsByNothing
  <2> QED
    BY <2>1, <2>2
<1> HIDE DEF free
<1>5. Steps(W, IF l \in Zoned THEN F!Arrange(free) ELSE free)
  BY <1>4, StepsByArranging
<1> QED
  BY <1>2, <1>5, BecomesIs DEF Steps, Sound

LEMMA LayerSteps ==
  ASSUME FocusAssumption, FocusInv, NEW l \in Layer, F!NewLayer(l) \/ F!DestroyLayer(l)
  PROVE  Steps(F!World, F!World')
<1> DEFINE W == F!World
<1>1. /\ W \in Worlds /\ Kept(W) /\ W.layers = layers /\ W.seat = seat /\ Sound(W)
      /\ layers.order \in Seq(Layer)
  BY InvIs, WorldIs DEF FocusInv
<1>2. CASE F!NewLayer(l)
  <2> DEFINE s == <<l>> \o layers.order
             n == [layers EXCEPT !.order = s]
  <2>1. s \in Seq(Layer) /\ F!ToSet(layers.order) \subseteq F!ToSet(s)
    BY <1>1, LinkedIs
  <2>2. layers' = n /\ seat' = seat /\ stack' = stack /\ lock' = lock
    BY <1>2 DEF F!NewLayer
  <2> HIDE DEF s
  <2>3. n \in Layers /\ n.order = s /\ n.kind = layers.kind
    BY <2>1, InvIs DEF Layers
  <2> HIDE DEF n
  <2>4. Sound(F!World') /\ F!World'.seat = W.seat
    BY <1>1, <2>1, <2>2, <2>3 DEF F!World, Sound, Kept, Surfaces, Worlds
  <2> QED
    BY <2>4, StepsByNothing
<1>3. CASE F!DestroyLayer(l)
  <2> DEFINE s == F!Unlinked(layers.order, l)
             m == [W EXCEPT !.layers.order = s]
  <2>1. /\ s \in Seq(Layer) /\ \A u \in F!ToSet(layers.order) \ {l} : u \in F!ToSet(s)
        /\ layers.kind[l] = "none"
    BY <1>1, <1>3, UnlinkedIs DEF F!DestroyLayer, F!Alive
  <2>2. F!Becomes(IF seat.focus = l THEN F!Enter(m, None) ELSE m)
    BY <1>1, <1>3 DEF F!DestroyLayer
  <2> HIDE DEF s
  <2>3. m \in Worlds /\ m.seat = W.seat /\ m.stack = W.stack /\ m.lock = W.lock
        /\ m.layers.order = s /\ m.layers.kind = layers.kind
    BY <1>1, <2>1 DEF Worlds, Layers
  <2> HIDE DEF m
  <2>4. Kept(m)
    BY <1>1, <2>1, <2>3 DEF Kept
  <2>5. CASE seat.focus = l
    <3>1. Moves(m, F!Enter(m, None))
      BY <2>3, <2>4, NobodyMoves
    <3>2. F!World' = F!Enter(m, None)
      BY <2>2, <2>5, <3>1, BecomesIs DEF Moves, Sound
    <3> QED
      BY <2>3, <2>4, <3>1, <3>2, StepsByMoving
  <2>6. CASE seat.focus # l
    <3>1. F!World' = m
      BY <2>2, <2>3, <2>6, BecomesIs
    <3>2. Sound(m)
      BY <1>1, <2>1, <2>3, <2>4, <2>6 DEF Sound, Surfaces
    <3> QED
      BY <2>3, <3>1, <3>2, StepsByNothing
  <2> QED
    BY <2>5, <2>6
<1> QED
  BY <1>2, <1>3

(* The lock changes, and no surface that has the focus goes with it.       *)
LEMMA WithLock ==
  ASSUME NEW d \in Worlds, Kept(d), NEW k \in Locks
  PROVE  LET e == [d EXCEPT !.lock = k]
         IN /\ e \in Worlds /\ Kept(e) /\ e.seat = d.seat /\ e.stack = d.stack
            /\ e.layers = d.layers /\ e.lock = k
<1> DEFINE e == [d EXCEPT !.lock = k]
<1>1. /\ e \in Worlds /\ e.seat = d.seat /\ e.stack = d.stack
      /\ e.layers = d.layers /\ e.lock = k
  BY DEF Worlds
<1> HIDE DEF e
<1>2. Kept(e)
  BY <1>1 DEF Kept
<1> QED
  BY <1>1, <1>2 DEF e

LEMMA OutputSteps ==
  ASSUME FocusAssumption, FocusInv, NEW o \in Output,
         F!FocusOutput(o) \/ F!NewLockSurface(o)
           \/ F!MapLockSurface(o) \/ F!DestroyLockSurface(o)
  PROVE  Steps(F!World, F!World')
<1> DEFINE W == F!World
<1>1. /\ W \in Worlds /\ Kept(W) /\ W.layers = layers /\ W.seat = seat /\ Sound(W)
      /\ W.lock = lock /\ W.stack = stack /\ lock \in Locks
  BY InvIs, WorldIs DEF FocusInv
<1>2. CASE F!FocusOutput(o)
  <2> DEFINE b == [W EXCEPT !.seat.output = o]
             n == [W.seat EXCEPT !.output = o]
  <2>1. n \in Seats /\ n.focus = seat.focus /\ n.exclusive = seat.exclusive
        /\ n.inputs = seat.inputs /\ n.entered = seat.entered
    BY <1>1, InvIs DEF Seats
  <2>2. b = [W EXCEPT !.seat = n]
    OBVIOUS
  <2> HIDE DEF n
  <2>3. b \in Worlds /\ b.seat = n /\ b.layers = W.layers
    BY <1>1, <2>1, <2>2 DEF Worlds
  <2>4. F!Becomes(F!FocusNewest(b, o))
    BY <1>2 DEF F!FocusOutput
  <2> HIDE DEF b
  <2>5. Kept(b)
    BY <1>1, <2>1, <2>3 DEF Kept
  <2>6. Moves(b, F!FocusNewest(b, o))
    BY <2>3, <2>5, FocusNewestMoves
  <2>7. F!World' = F!FocusNewest(b, o)
    BY <2>4, <2>6, BecomesIs DEF Moves, Sound
  <2> QED
    BY <1>1, <2>1, <2>3, <2>5, <2>6, <2>7, StepsByMoving
<1>3. CASE F!NewLockSurface(o)
  <2> DEFINE k == [lock EXCEPT !.of[o] = "made"]
  <2>1. lock' = k /\ seat' = seat /\ stack' = stack /\ layers' = layers
    BY <1>3 DEF F!NewLockSurface
  <2>2. k \in Locks /\ \A p \in Output : lock.of[p] # "none" => k.of[p] # "none"
    BY <1>1 DEF Locks
  <2> HIDE DEF k
  <2>3. Sound(F!World') /\ F!World'.seat = W.seat
    BY <1>1, <2>1, <2>2 DEF F!World, Sound, Kept, Surfaces, Worlds
  <2> QED
    BY <2>3, StepsByNothing
<1>4. CASE F!MapLockSurface(o)
  <2> DEFINE k == [W.lock EXCEPT !.of[o] = "shown"]
             b == [W EXCEPT !.lock = k]
  <2>1. k \in Locks /\ k.of[o] = "shown"
    BY <1>1 DEF Locks
  <2>2. F!Becomes(F!Enter(b, o))
    BY <1>4 DEF F!MapLockSurface
  <2> HIDE DEF k
  <2>3. b \in Worlds /\ Kept(b) /\ b.seat = W.seat /\ b.lock = k
    BY <1>1, <2>1, WithLock
  <2> HIDE DEF b
  <2>4. o \in Somebody /\ o \in Surfaces(b)
    BY <2>1, <2>3 DEF Somebody, Surfaces
  <2>5. Moves(b, F!Enter(b, o))
    BY <2>3, <2>4, EnterMoves
  <2>6. F!World' = F!Enter(b, o)
    BY <2>2, <2>5, BecomesIs DEF Moves, Sound
  <2> QED
    BY <2>3, <2>5, <2>6, StepsByMoving
<1>5. CASE F!DestroyLockSurface(o)
  <2> DEFINE k == [W.lock EXCEPT !.of[o] = "none"]
             b == [W EXCEPT !.lock = k]
  <2>1. k \in Locks /\ \A p \in Output \ {o} : k.of[p] = lock.of[p]
    BY <1>1 DEF Locks
  <2>2. F!Becomes(IF b.seat.focus = o THEN F!Enter(b, None) ELSE b)
    BY <1>5 DEF F!DestroyLockSurface, F!Gone
  <2> HIDE DEF k
  <2>3. /\ b \in Worlds /\ Kept(b) /\ b.seat = W.seat /\ b.lock = k
        /\ b.stack = W.stack /\ b.layers = W.layers
    BY <1>1, <2>1, WithLock
  <2> HIDE DEF b
  <2>4. CASE b.seat.focus = o
    <3>1. Moves(b, F!Enter(b, None))
      BY <2>3, NobodyMoves
    <3>2. F!World' = F!Enter(b, None)
      BY <2>2, <2>4, <3>1, BecomesIs DEF Moves, Sound
    <3> QED
      BY <2>3, <3>1, <3>2, StepsByMoving
  <2>5. CASE b.seat.focus # o
    <3>1. F!World' = b
      BY <2>2, <2>3, <2>5, BecomesIs
    <3>2. Sound(b)
      BY <1>1, <2>1, <2>3, <2>5 DEF Sound, Surfaces
    <3> QED
      BY <2>3, <3>1, <3>2, StepsByNothing
  <2> QED
    BY <2>4, <2>5
<1> QED
  BY <1>2, <1>3, <1>4, <1>5

LEMMA LockSteps ==
  ASSUME FocusAssumption, FocusInv, F!NewLock \/ F!Unlock \/ F!LockerDies
  PROVE  Steps(F!World, F!World')
<1> DEFINE W == F!World
<1>1. /\ W \in Worlds /\ Kept(W) /\ W.layers = layers /\ W.seat = seat /\ Sound(W)
      /\ W.lock = lock /\ W.stack = stack /\ lock \in Locks /\ seat \in Seats
  BY InvIs, WorldIs DEF FocusInv
<1>2. CASE F!NewLock
  <2> DEFINE k == [lock EXCEPT !.locked = TRUE, !.locker = TRUE]
  <2>1. lock' = k /\ seat' = seat /\ stack' = stack /\ layers' = layers
    BY <1>2 DEF F!NewLock
  <2>2. k \in Locks /\ k.of = lock.of
    BY <1>1 DEF Locks
  <2> HIDE DEF k
  <2>3. Sound(F!World') /\ F!World'.seat = W.seat
    BY <1>1, <2>1, <2>2 DEF F!World, Sound, Kept, Surfaces, Worlds
  <2> QED
    BY <2>3, StepsByNothing
<1>3. CASE F!Unlock
  <2> DEFINE k == [W.lock EXCEPT !.locked = FALSE]
             b == [W EXCEPT !.lock = k]
             m == F!FocusNewest(b, seat.output)
             of == [o \in Output |-> IF m.lock.of[o] = "none" THEN "none" ELSE "stale"]
             e == [m EXCEPT !.lock.locker = FALSE, !.lock.of = of]
             j == [m.lock EXCEPT !.locker = FALSE, !.of = of]
  <2>1. k \in Locks /\ k.locked = FALSE
    BY <1>1 DEF Locks
  <2>2. F!Becomes(e)
    BY <1>3 DEF F!Unlock
  <2> HIDE DEF k
  <2>3. b \in Worlds /\ Kept(b) /\ b.seat = W.seat /\ b.lock = k
    BY <1>1, <2>1, WithLock
  <2> HIDE DEF b
  <2>4. Moves(b, m)
    BY <2>3, FocusNewestMoves
  <2> HIDE DEF m
  <2>5. Steps(W, m) /\ m.lock = k
    BY <2>3, <2>4, StepsByMoving DEF Moves, OnlyFocus
  <2>6. m \in Worlds /\ Kept(m) /\ m.lock \in Locks
    BY <2>1, <2>5 DEF Steps, Sound
  <2>7. /\ of \in [Output -> {"none", "made", "shown", "stale"}]
        /\ \A o \in Output : m.lock.of[o] # "none" => of[o] # "none"
    OBVIOUS
  <2>8. e = [m EXCEPT !.lock = j]
    BY <2>6 DEF Worlds
  <2> HIDE DEF of, e
  <2>9. j \in Locks /\ j.locked = FALSE /\ j.of = of
    BY <2>1, <2>5, <2>6, <2>7 DEF Locks
  <2> HIDE DEF j
  <2>10. /\ e \in Worlds /\ Kept(e) /\ e.seat = m.seat /\ e.stack = m.stack
         /\ e.layers = m.layers /\ e.lock = j
    BY <2>6, <2>8, <2>9, WithLock
  <2>11. Sound(e)
    BY <2>5, <2>7, <2>9, <2>10 DEF Steps, Sound, Surfaces
  <2>12. Tracks(W.seat.exclusive, W.seat.focus, e)
    BY <2>1, <2>5, <2>9, <2>10 DEF Steps, Tracks, Locked, Others
  <2> QED
    BY <2>2, <2>10, <2>11, <2>12, BecomesIs DEF Steps
<1>4. CASE F!LockerDies
  <2> DEFINE none == [o \in Output |-> "none"]
             k == [W.lock EXCEPT !.locker = FALSE, !.of = none]
             b == [W EXCEPT !.lock.locker = FALSE, !.lock.of = none]
  <2>1. F!Becomes(IF seat.focus \in Output THEN F!Enter(b, None) ELSE b)
    BY <1>4 DEF F!LockerDies
  <2>2. k \in Locks
    BY <1>1 DEF Locks
  <2>3. b = [W EXCEPT !.lock = k]
    BY <1>1 DEF Worlds
  <2> HIDE DEF k
  <2>4. /\ b \in Worlds /\ Kept(b) /\ b.seat = W.seat
        /\ b.stack = W.stack /\ b.layers = W.layers
    BY <1>1, <2>2, <2>3, WithLock
  <2> HIDE DEF b
  <2>5. CASE seat.focus \in Output
    <3>1. Moves(b, F!Enter(b, None))
      BY <2>4, NobodyMoves
    <3>2. F!World' = F!Enter(b, None)
      BY <2>1, <2>5, <3>1, BecomesIs DEF Moves, Sound
    <3> QED
      BY <2>4, <3>1, <3>2, StepsByMoving
  <2>6. CASE seat.focus \notin Output
    <3>1. F!World' = b
      BY <2>1, <2>4, <2>6, BecomesIs
    <3>2. Sound(b)
      BY <1>1, <2>4, <2>6 DEF Sound, Surfaces
    <3> QED
      BY <2>4, <3>1, <3>2, StepsByNothing
  <2> QED
    BY <2>5, <2>6
<1> QED
  BY <1>2, <1>3, <1>4

LEMMA FocusSteps ==
  ASSUME FocusAssumption, FocusInv, F!FocusNext
  PROVE  Steps(F!World, F!World')
<1>1. ASSUME NEW l \in Layer, NEW k \in {"passive", "demand", "exclusive"}, F!CommitLayer(l, k)
      PROVE  Steps(F!World, F!World')
  BY <1>1, CommitSteps DEF Kinds
<1> QED
  BY <1>1, WindowSteps, UnmapSteps, LayerSteps, OutputSteps, LockSteps DEF F!FocusNext

LEMMA FocusStep == FocusAssumption /\ FocusInv /\ F!FocusNext => FocusInv'
BY FocusSteps DEF Steps, FocusInv

LEMMA FocusStutter == FocusInv /\ UNCHANGED F!focusVars => FocusInv'
<1>1. UNCHANGED F!focusVars => F!World' = F!World
  BY DEF F!focusVars, F!World
<1> QED
  BY <1>1 DEF FocusInv

LEMMA FocusStart == FocusAssumption /\ F!FocusInit => FocusInv
<1> SUFFICES ASSUME FocusAssumption, F!FocusInit PROVE FocusInv
  OBVIOUS
<1>1. (CHOOSE o \in Output : TRUE) \in Output
  BY DEF FocusAssumption
<1>2. /\ seat \in Seats /\ seat.focus = None /\ seat.exclusive = None
      /\ seat.entered = None
  BY <1>1 DEF F!FocusInit, Seats
<1>3. stack \in Seq(Window) /\ lock \in Locks
  BY DEF F!FocusInit, Locks
<1>4. /\ layers \in Layers /\ \A l \in Layer : layers.kind[l] = "none"
  <2> DEFINE kind == [l \in Layer |-> "none"]
  <2>1. kind \in [Layer -> Kinds] /\ \A l \in Layer : kind[l] = "none"
    BY DEF Kinds
  <2>2. layers = [order |-> <<>>, kind |-> kind]
    BY DEF F!FocusInit
  <2> HIDE DEF kind
  <2>3. layers.order = <<>> /\ layers.kind = kind /\ <<>> \in Seq(Layer)
    BY <2>2
  <2> QED
    BY <2>1, <2>2, <2>3 DEF Layers
<1> QED
  <2>1. F!World \in Worlds
    BY <1>2, <1>3, <1>4 DEF Worlds, F!World
  <2>2. Kept(F!World) /\ seat.focus \in Surfaces(F!World)
    BY <1>2, <1>4, WorldIs DEF Kept, Surfaces
  <2> QED
    BY <2>1, <2>2, WorldIs DEF FocusInv, Sound

LEMMA FocusImplies == FocusInv => F!NothingDangles
BY DEF FocusInv, Sound, Kept, Surfaces, F!NothingDangles, F!World, F!Alive

LEMMA FocusGuards ==
  ASSUME FocusAssumption, FocusInv, F!FocusNext
  PROVE  F!GuardsKeepFocus
<1>1. Tracks(seat.exclusive, seat.focus, F!World')
  BY FocusSteps, WorldIs DEF Steps
<1>2. /\ (F!World').seat = seat' /\ (F!World').lock = lock'
      /\ (F!World').layers = layers'
  BY DEF F!World
<1> QED
  BY <1>1, <1>2 DEF Tracks, Locked, Others, F!GuardsKeepFocus

(***************************************************************************)
(* Text inputs and the input method: module TextInputs                     *)
(***************************************************************************)

CONSTANTS TextInput, Owner

VARIABLES method, inputs, entered, enabled, focus, focused, aside, extras

I == INSTANCE TextInputs

(* What the fields hold, and that a text input that is not in the list has *)
(* entered nothing, so that a new one begins with nothing.                 *)
TextInv ==
    /\ inputs \in Seq(TextInput)
    /\ entered \in [TextInput -> Surface \cup {None}]
    /\ focus \in Surface \cup {None}
    /\ \A t \in TextInput \ I!Members : entered[t] = None
    /\ I!TextFollowsFocus

LEMMA MembersAre ==
  ASSUME inputs \in Seq(TextInput)
  PROVE  /\ I!Members \subseteq TextInput
         /\ \A t : t \in I!Members <=> \E i \in 1 .. Len(inputs) : inputs[i] = t
BY DEF I!Members

(* Of the text inputs of a surface the last one is written to.             *)
LEMMA LastOfIs ==
  ASSUME inputs \in Seq(TextInput), NEW s
  PROVE  IF \E t \in I!Members : Owner[t] = s
         THEN I!LastOf(s) \in I!Members /\ Owner[I!LastOf(s)] = s
         ELSE I!LastOf(s) = focused
<1> DEFINE own == {i \in DOMAIN inputs : Owner[inputs[i]] = s}
           k == CHOOSE i \in own : \A j \in own : j <= i
<1>1. own # {} <=> \E t \in I!Members : Owner[t] = s
  BY MembersAre
<1>2. CASE own = {}
  BY <1>1, <1>2 DEF I!LastOf
<1>3. CASE own # {}
  <2>1. own \subseteq 1 .. Len(inputs) /\ Len(inputs) \in Nat
    OBVIOUS
  <2>2. I!LastOf(s) = inputs[k]
    BY <1>3 DEF I!LastOf
  <2>3. k \in own
    <3> HIDE DEF own
    <3>1. \E i \in own : \A j \in own : j <= i
      BY <1>3, <2>1, LastPlace
    <3> QED
      BY <3>1
  <2> HIDE DEF k
  <2> QED
    BY <1>1, <1>3, <2>2, <2>3, MembersAre
<1> QED
  BY <1>2, <1>3

(* A surface that the text inputs are told of is entered by its own.       *)
LEMMA EnteringKeeps ==
  ASSUME TextInv, NEW s \in Surface \cup {None},
         entered' = [t \in TextInput |->
                        IF t \in I!Members /\ Owner[t] = s THEN s ELSE None],
         focused' = I!LastOf(s), focus' = s, UNCHANGED inputs
  PROVE  /\ entered' \in [TextInput -> Surface \cup {None}]
         /\ I!Members' = I!Members
         /\ \A t \in TextInput \ I!Members : entered'[t] = None
         /\ focused' \in I!Members \cup {None}
         /\ \A t \in I!Members : entered'[t] \in {None, focus'}
         /\ (\E t \in I!Members : entered'[t] # None) /\ focused' # None =>
               entered'[focused'] # None
<1>1. /\ I!Members' = I!Members /\ I!Members \subseteq TextInput
      /\ focused \in I!Members \cup {None}
  BY MembersAre DEF I!Members, TextInv, I!TextFollowsFocus
<1>2. \A t \in TextInput :
         entered'[t] = IF t \in I!Members /\ Owner[t] = s THEN s ELSE None
  OBVIOUS
<1>3. entered' \in [TextInput -> Surface \cup {None}]
  OBVIOUS
<1>4. CASE \E t \in I!Members : Owner[t] = s
  <2>1. I!LastOf(s) \in I!Members /\ Owner[I!LastOf(s)] = s
    BY <1>4, LastOfIs DEF TextInv
  <2> QED
    BY <1>1, <1>2, <1>3, <2>1
<1>5. CASE ~ \E t \in I!Members : Owner[t] = s
  <2>1. I!LastOf(s) = focused
    BY <1>5, LastOfIs DEF TextInv
  <2> QED
    BY <1>1, <1>2, <1>3, <1>5, <2>1
<1> QED
  BY <1>4, <1>5

LEMMA FocusChangeKeeps ==
  ASSUME TextInv, NEW s \in Surface \cup {None}, NEW e, NEW guarded,
         e \in [TextInput -> Surface \cup {None}],
         \A t \in TextInput \ I!Members : e[t] = None,
         I!FocusChange(s, e, guarded), UNCHANGED <<inputs, enabled, extras>>
  PROVE  TextInv'
<1>1. CASE guarded \/ method = "none"
  <2>1. /\ focus' = s /\ entered' = e /\ aside' = TRUE
        /\ method' = method /\ focused' = focused
    BY <1>1 DEF I!FocusChange
  <2>2. I!Members' = I!Members
    BY DEF I!Members
  <2> QED
    BY <2>1, <2>2 DEF TextInv, I!TextFollowsFocus
<1>2. CASE ~(guarded \/ method = "none")
  <2>1. /\ focus' = s /\ focused' = I!LastOf(s) /\ aside' = FALSE
        /\ entered' = [t \in TextInput |->
                          IF t \in I!Members /\ Owner[t] = s THEN s ELSE None]
        /\ method' \in {"idle", method}
    BY <1>2 DEF I!FocusChange, I!TryFocus, I!Deactivated
  <2>2. /\ entered' \in [TextInput -> Surface \cup {None}]
        /\ I!Members' = I!Members
        /\ \A t \in TextInput \ I!Members : entered'[t] = None
        /\ focused' \in I!Members \cup {None}
        /\ \A t \in I!Members : entered'[t] \in {None, focus'}
        /\ (\E t \in I!Members : entered'[t] # None) /\ focused' # None =>
              entered'[focused'] # None
    BY <2>1, EnteringKeeps
  <2> QED
    BY <1>2, <2>1, <2>2 DEF TextInv, I!TextFollowsFocus, I!NoExtras
<1> QED
  BY <1>1, <1>2

LEMMA TextStep == TextInv /\ I!TextNext => TextInv'
<1> SUFFICES ASSUME TextInv, I!TextNext PROVE TextInv'
  OBVIOUS
<1>1. I!Members \subseteq TextInput
  BY MembersAre DEF TextInv
<1>2. ASSUME NEW s \in Surface \cup {None}, NEW guarded \in BOOLEAN, I!MoveFocus(s, guarded)
      PROVE  TextInv'
  BY <1>2, FocusChangeKeeps DEF I!MoveFocus, TextInv
<1>3. ASSUME NEW s \in Surface, NEW guarded \in BOOLEAN, I!SurfaceDestroy(s, guarded)
      PROVE  TextInv'
  <2> DEFINE e == [t \in TextInput |-> IF entered[t] = s THEN None ELSE entered[t]]
  <2>1. e \in [TextInput -> Surface \cup {None}] /\ \A t \in TextInput \ I!Members : e[t] = None
    BY DEF TextInv
  <2>2. I!FocusChange(None, e, guarded) /\ UNCHANGED <<inputs, enabled, extras>>
    BY <1>3 DEF I!SurfaceDestroy
  <2> HIDE DEF e
  <2> QED
    BY <2>1, <2>2, FocusChangeKeeps
<1>4. ASSUME NEW t \in TextInput, I!NewTextInput(t)
      PROVE  TextInv'
  <2> DEFINE r == <<t>> \o inputs
  <2>1. /\ r \in Seq(TextInput) /\ Len(r) = Len(inputs) + 1 /\ r[1] = t
        /\ \A j \in 1 .. Len(inputs) : r[j + 1] = inputs[j]
        /\ \A k \in 2 .. Len(r) : k - 1 \in 1 .. Len(inputs) /\ r[k] = inputs[k - 1]
    BY ListWith DEF TextInv
  <2>2. /\ inputs' = r
        /\ UNCHANGED <<method, entered, enabled, focus, focused, aside, extras>>
        /\ t \notin I!Members
    BY <1>4 DEF I!NewTextInput
  <2> HIDE DEF r
  <2>3. I!Members' = I!Members \cup {t}
    <3>1. ASSUME NEW u \in I!Members
          PROVE  u \in I!Members'
      <4>1. PICK j \in 1 .. Len(inputs) : inputs[j] = u
        BY MembersAre DEF TextInv
      <4>2. j + 1 \in 1 .. Len(r) /\ r[j + 1] = u
        BY <2>1, <4>1
      <4>3. I!Members' = {r[n] : n \in DOMAIN r}
        BY <2>2 DEF I!Members
      <4>4. DOMAIN r = 1 .. Len(r)
        BY <2>1
      <4> QED
        BY <4>2, <4>3, <4>4
    <3>2. ASSUME NEW u \in I!Members'
          PROVE  u \in I!Members \cup {t}
      <4>1. PICK k \in 1 .. Len(r) : r[k] = u
        BY <2>1, <2>2 DEF I!Members
      <4>2. CASE k = 1
        BY <2>1, <4>1, <4>2
      <4>3. CASE k # 1
        <5>1. k \in 2 .. Len(r)
          BY <2>1, <4>3
        <5> QED
          BY <2>1, <4>1, <5>1, MembersAre DEF TextInv
      <4> QED
        BY <4>2, <4>3
    <3>3. t \in I!Members'
      BY <2>1, <2>2 DEF I!Members
    <3> QED
      BY <3>1, <3>2, <3>3
  <2> QED
    BY <2>1, <2>2, <2>3 DEF TextInv, I!TextFollowsFocus
<1>5. ASSUME NEW t \in TextInput, I!TextInputDestroy(t)
      PROVE  TextInv'
  <2> DEFINE i == CHOOSE i \in DOMAIN inputs : inputs[i] = t
             r == SubSeq(inputs, 1, i - 1) \o SubSeq(inputs, i + 1, Len(inputs))
  <2>1. i \in 1 .. Len(inputs) /\ inputs[i] = t
    <3>1. \E j \in DOMAIN inputs : inputs[j] = t
      BY <1>5, MembersAre DEF I!TextInputDestroy, TextInv
    <3>2. i \in DOMAIN inputs /\ inputs[i] = t
      BY <3>1
    <3> QED
      BY <3>2 DEF TextInv
  <2>2. inputs' = r
    BY <1>5 DEF I!TextInputDestroy, I!RemoveAt
  <2> HIDE DEF i
  <2>3. /\ r \in Seq(TextInput)
        /\ \A k \in 1 .. Len(r) : \E j \in 1 .. Len(inputs) : r[k] = inputs[j]
        /\ \A j \in 1 .. Len(inputs) : j # i => \E k \in 1 .. Len(r) : r[k] = inputs[j]
    BY <2>1, RemovedIs, ListWithout DEF TextInv
  <2> HIDE DEF r
  <2>4. I!Members' \subseteq I!Members
    BY <2>2, <2>3, MembersAre DEF TextInv, I!Members
  <2>5. ASSUME NEW u \in I!Members, u # t
        PROVE  u \in I!Members'
    <3>1. PICK j \in 1 .. Len(inputs) : inputs[j] = u
      BY MembersAre DEF TextInv
    <3>2. PICK k \in 1 .. Len(r) : r[k] = u
      BY <2>1, <2>3, <2>5, <3>1
    <3> QED
      BY <2>2, <2>3, <3>2 DEF I!Members
  <2>6. /\ entered' = [entered EXCEPT ![t] = None]
        /\ focused' = IF focused = t THEN None ELSE focused
        /\ UNCHANGED <<method, enabled, focus, aside, extras>>
    BY <1>5 DEF I!TextInputDestroy
  <2>7. /\ entered' \in [TextInput -> Surface \cup {None}]
        /\ \A u \in TextInput : entered'[u] = IF u = t THEN None ELSE entered[u]
    BY <2>6 DEF TextInv
  <2> QED
    BY <1>1, <2>2, <2>3, <2>4, <2>5, <2>6, <2>7 DEF TextInv, I!TextFollowsFocus
<1>6. ASSUME NEW t \in TextInput, I!Enable(t) \/ I!Disable(t)
      PROVE  TextInv'
  <2>1. I!Members' = I!Members
    BY <1>6 DEF I!Enable, I!Disable, I!Members
  <2> QED
    BY <1>6, <2>1 DEF I!Enable, I!Disable, I!Deactivated, TextInv, I!TextFollowsFocus
<1>7. CASE I!NewInputMethod
  <2>1. CASE focused # None
    <3>1. I!Members' = I!Members
      BY <1>7 DEF I!NewInputMethod, I!Members
    <3> QED
      BY <1>7, <2>1, <3>1 DEF I!NewInputMethod, TextInv, I!TextFollowsFocus
  <2>2. CASE focused = None
    <3>1. /\ focus' = focus /\ focused' = I!LastOf(focus) /\ aside' = FALSE
          /\ entered' = [t \in TextInput |->
                            IF t \in I!Members /\ Owner[t] = focus THEN focus ELSE None]
          /\ method' = "idle" /\ UNCHANGED <<inputs, enabled, extras>>
      BY <1>7, <2>2 DEF I!NewInputMethod
    <3>2. focus \in Surface \cup {None}
      BY DEF TextInv
    <3>3. /\ entered' \in [TextInput -> Surface \cup {None}]
          /\ I!Members' = I!Members
          /\ \A t \in TextInput \ I!Members : entered'[t] = None
          /\ focused' \in I!Members \cup {None}
          /\ \A t \in I!Members : entered'[t] \in {None, focus'}
          /\ (\E t \in I!Members : entered'[t] # None) /\ focused' # None =>
                entered'[focused'] # None
      BY <3>1, <3>2, EnteringKeeps
    <3> QED
      BY <3>1, <3>2, <3>3 DEF TextInv, I!TextFollowsFocus
  <2> QED
    BY <2>1, <2>2
<1>8. CASE I!InputMethodDestroy \/ I!GrabKeyboard \/ I!GrabDestroy \/ I!Popup
  <2>1. I!Members' = I!Members
    BY <1>8 DEF I!InputMethodDestroy, I!GrabKeyboard, I!GrabDestroy, I!Popup, I!Members
  <2> QED
    BY <1>8, <2>1 DEF I!InputMethodDestroy, I!GrabKeyboard, I!GrabDestroy, I!Popup,
                      I!NoExtras, TextInv, I!TextFollowsFocus
<1> QED
  BY <1>2, <1>3, <1>4, <1>5, <1>6, <1>7, <1>8 DEF I!TextNext

LEMMA TextStart == I!TextInit => TextInv
BY DEF I!TextInit, TextInv, I!TextFollowsFocus, I!Members

LEMMA TextStutter == TextInv /\ UNCHANGED I!textVars => TextInv'
<1>1. UNCHANGED I!textVars => I!Members' = I!Members
  BY DEF I!textVars, I!Members
<1> QED
  BY <1>1 DEF TextInv, I!TextFollowsFocus, I!textVars

(***************************************************************************)
(* Windows and the outputs they are on: module Toplevels                   *)
(***************************************************************************)

CONSTANTS Toplevel, X11, Container

VARIABLES surface, managed, container, place, mark, listed, handle, outputs

W == INSTANCE Toplevels WITH Window <- Toplevel, entered <- handle

(* NULL is told from everything else.                                      *)
Places == [on : Output, home : Output \cup {None}]
ToplevelsAssumption ==
    /\ None \notin Container \cup Output \cup Places
    /\ Output # {}

ToplevelsType ==
    /\ surface \in [Toplevel -> {"none", "new", "attached", "mapped"}]
    /\ managed \subseteq Toplevel
    /\ container \in [Toplevel -> Container \cup {None}]
    /\ place \in [Container -> Places \cup {None}]
    /\ mark \in Container \cup {None}
    /\ listed \in [Toplevel -> Output \cup {None}]
    /\ handle \in [Toplevel -> SUBSET Output]
    /\ outputs \in [plugged : SUBSET Output, focused : Output,
                    astray : SUBSET Toplevel, mislaid : SUBSET Toplevel]
    /\ outputs.focused \in outputs.plugged

(* The windows of a container are all managed or none is, and only one.    *)
Alike == \A v, w \in Toplevel :
            container[v] = container[w] /\ container[v] # None
                => (v \in managed <=> w \in managed)

ToplevelsInv == ToplevelsType /\ Alike /\ W!WindowsAreListed

LEMMA TiledIs ==
  ASSUME ToplevelsAssumption, ToplevelsInv
  PROVE  /\ \A w \in Toplevel \cap managed : container[w] # None => W!Tiled(container[w])
         /\ \A c \in Container : W!Tiled(c) => place[c] \in Places
         /\ \A w \in W!Shown : container[w] \in Container /\ place[container[w]] \in Places
         /\ \A c \in Container : W!Tiled(c) => place[c].on \in outputs.plugged
<1> USE DEF ToplevelsInv, ToplevelsType
<1>1. \A w \in Toplevel \cap managed : container[w] # None => W!Tiled(container[w])
  BY DEF Alike, W!Tiled, W!TabsOf
<1>2. \A c \in Container : W!TabsOf(c) # {} => place[c] \in Places
  BY DEF W!WindowsAreListed
<1>3. \A w \in W!Shown : container[w] \in Container /\ w \in W!TabsOf(container[w])
  BY DEF W!WindowsAreListed, W!Shown, W!TabsOf
<1>4. ASSUME NEW c \in Container, W!Tiled(c)
      PROVE  place[c].on \in outputs.plugged
  <2>1. PICK w \in Toplevel \cap managed : container[w] = c
    BY <1>4 DEF W!Tiled, W!TabsOf
  <2>2. w \in W!Shown
    BY <2>1 DEF W!WindowsAreListed, ToplevelsAssumption
  <2> QED
    BY <2>1, <2>2 DEF W!WindowsAreListed, W!Live
<1> QED
  BY <1>1, <1>2, <1>3, <1>4 DEF W!Tiled

LEMMA SurfaceKeeps ==
  ASSUME ToplevelsAssumption, ToplevelsInv, NEW w \in Toplevel,
         W!New(w) \/ W!Associate(w) \/ W!Dissociate(w) \/ W!Destroy(w)
           \/ W!SetOverrideRedirect(w)
  PROVE  ToplevelsInv'
<1>1. /\ UNCHANGED <<container, place, mark, listed, handle, outputs>>
      /\ surface[w] # "mapped" /\ surface'[w] # "mapped"
      /\ surface' \in [Toplevel -> {"none", "new", "attached", "mapped"}]
      /\ \A v \in Toplevel \ {w} : surface'[v] = surface[v]
      /\ managed' \subseteq Toplevel
      /\ \A v \in Toplevel \ {w} : v \in managed' <=> v \in managed
  BY DEF W!New, W!Associate, W!Dissociate, W!Destroy, W!SetOverrideRedirect, W!Unmoved,
         ToplevelsInv, ToplevelsType
<1>2. container[w] = None /\ listed[w] = None /\ w \notin W!Shown
  BY <1>1 DEF ToplevelsInv, W!WindowsAreListed, W!Shown
<1>3. W!Shown' = W!Shown /\ W!Shown' \cap managed' = W!Shown \cap managed
  BY <1>1 DEF W!Shown
<1>4. Alike'
  BY <1>1, <1>2 DEF ToplevelsInv, Alike
<1>5. ASSUME NEW c \in Container
      PROVE  W!TabsOf(c)' = W!TabsOf(c) /\ (W!Tiled(c)' <=> W!Tiled(c))
  BY <1>1, <1>2 DEF W!TabsOf, W!Tiled, ToplevelsAssumption
<1>6. mark' # None => W!Tiled(mark)'
  BY <1>1, <1>5 DEF ToplevelsInv, ToplevelsType, W!WindowsAreListed
<1>7. W!WindowsAreListed'
  BY <1>1, <1>3, <1>5, <1>6 DEF ToplevelsInv, W!WindowsAreListed, W!Live
<1> QED
  BY <1>1, <1>4, <1>7 DEF ToplevelsInv, ToplevelsType

LEMMA MapKeeps ==
  ASSUME ToplevelsAssumption, ToplevelsInv, NEW w \in Toplevel, W!Map(w)
  PROVE  ToplevelsInv'
<1> USE DEF ToplevelsAssumption
<1>1. /\ surface[w] = "attached" /\ surface' = [surface EXCEPT ![w] = "mapped"]
      /\ managed' = managed /\ mark' = mark
      /\ container[w] = None /\ w \notin W!Shown
  BY DEF W!Map, ToplevelsInv, W!WindowsAreListed, W!Shown
<1>2. W!Shown' = W!Shown \cup {w}
  BY <1>1 DEF W!Shown, ToplevelsInv, ToplevelsType
<1>3. CASE mark # None /\ w \in managed
  <2>1. /\ listed' = [listed EXCEPT ![w] = W!Here]
        /\ handle' = [handle EXCEPT ![w] = {W!Here}]
        /\ container' = [container EXCEPT ![w] = mark]
        /\ place' = place
        /\ outputs' = IF place[mark].on = W!Here THEN outputs
                      ELSE [outputs EXCEPT !.astray = @ \cup {w}, !.mislaid = @ \cup {w}]
    BY <1>3 DEF W!Map
  <2>2. /\ outputs'.plugged = outputs.plugged /\ outputs'.focused = outputs.focused
        /\ outputs.astray \subseteq outputs'.astray
        /\ outputs.mislaid \subseteq outputs'.mislaid
        /\ outputs' \in [plugged : SUBSET Output, focused : Output,
                         astray : SUBSET Toplevel, mislaid : SUBSET Toplevel]
        /\ place[mark].on = W!Here \/ (w \in outputs'.astray /\ w \in outputs'.mislaid)
    BY <2>1 DEF ToplevelsInv, ToplevelsType
  <2>3. W!Tiled(mark) /\ mark \in Container
    BY <1>3 DEF ToplevelsInv, ToplevelsType, W!WindowsAreListed
  <2>4. ToplevelsType' /\ Alike'
    BY <1>1, <1>3, <2>1, <2>2, <2>3
       DEF ToplevelsInv, ToplevelsType, Alike, W!Tiled, W!TabsOf, W!Here
  <2>5. /\ W!TabsOf(mark)' = W!TabsOf(mark) \cup {w}
        /\ \A c \in Container \ {mark} : W!TabsOf(c)' = W!TabsOf(c)
    BY <1>1, <2>1, <2>3 DEF ToplevelsInv, ToplevelsType, W!TabsOf
  <2>6. W!Tiled(mark)'
    BY <1>1, <1>3, <2>3, <2>5 DEF W!Tiled
  <2>7. place[mark].on \in outputs.plugged
    BY <2>3, TiledIs
  <2>8. \A v \in Toplevel :
          /\ (container'[v] # None) = (v \in W!Shown')
          /\ (listed'[v] # None) = (v \in W!Shown' \cap managed')
          /\ listed'[v] \in outputs'.plugged \cup {None}
    BY <1>1, <1>2, <1>3, <2>1, <2>2, <2>3
       DEF ToplevelsInv, ToplevelsType, W!WindowsAreListed, W!Here, W!Live
  <2>9. ASSUME NEW v \in W!Shown' \cap managed'
        PROVE  LET o == place'[container'[v]].on
               IN /\ o \in outputs'.plugged
                  /\ v \in outputs'.astray \/ listed'[v] = o
                  /\ v \in outputs'.mislaid \/ handle'[v] = {o}
    <3>1. CASE v = w
      BY <2>1, <2>2, <2>7, <3>1 DEF ToplevelsInv, ToplevelsType
    <3>2. CASE v # w
      <4>1. v \in W!Shown \cap managed /\ v \in Toplevel
        BY <1>1, <1>2, <2>9, <3>2 DEF W!Shown
      <4>2. container'[v] = container[v] /\ listed'[v] = listed[v] /\ handle'[v] = handle[v]
        BY <2>1, <3>2, <4>1 DEF ToplevelsInv, ToplevelsType
      <4> QED
        BY <2>1, <2>2, <4>1, <4>2 DEF ToplevelsInv, W!WindowsAreListed, W!Live
    <3> QED
      BY <3>1, <3>2
  <2>10. \A c \in Container : (place'[c] # None) = (W!TabsOf(c)' # {})
    <3>1. \A c \in Container : (place[c] # None) = (W!TabsOf(c) # {})
      BY DEF ToplevelsInv, W!WindowsAreListed
    <3>2. W!TabsOf(mark) # {} /\ W!TabsOf(mark)' # {}
      BY <2>3, <2>6 DEF W!Tiled
    <3> QED
      BY <1>1, <2>1, <2>3, <2>5, <3>1, <3>2
  <2>11. W!WindowsAreListed'
    BY <1>1, <2>6, <2>8, <2>9, <2>10 DEF W!WindowsAreListed, W!Live
  <2> QED
    BY <2>4, <2>11 DEF ToplevelsInv
<1>4. CASE ~(mark # None /\ w \in managed)
  <2>1. PICK c \in Container :
          /\ W!TabsOf(c) = {}
          /\ container' = [container EXCEPT ![w] = c]
          /\ place' = [place EXCEPT ![c] = [on |-> W!Here, home |-> None]]
    BY <1>4 DEF W!Map
  <2>2. outputs' = outputs
    BY <1>4 DEF W!Map
  <2>3. /\ listed' = [listed EXCEPT ![w] = IF w \in managed THEN W!Here ELSE @]
        /\ handle' = [handle EXCEPT ![w] = IF w \in managed THEN {W!Here} ELSE @]
    BY DEF W!Map, ToplevelsInv, ToplevelsType
  <2>4. /\ [on |-> W!Here, home |-> None] \in Places
        /\ W!Here \in outputs.plugged /\ W!Here \in Output /\ W!Here # None
    BY DEF ToplevelsInv, ToplevelsType, W!Here, Places
  <2>5. ToplevelsType'
    BY <1>1, <2>1, <2>2, <2>3, <2>4 DEF ToplevelsInv, ToplevelsType
  <2>6. Alike'
    BY <1>1, <2>1 DEF ToplevelsInv, ToplevelsType, Alike, W!TabsOf
  <2>7. /\ W!TabsOf(c)' = {w}
        /\ \A d \in Container \ {c} : W!TabsOf(d)' = W!TabsOf(d)
    BY <1>1, <2>1 DEF ToplevelsInv, ToplevelsType, W!TabsOf
  <2>8. mark # None => W!Tiled(mark)'
    <3>1. mark # None => mark # c /\ mark \in Container /\ W!Tiled(mark)
      BY <2>1 DEF ToplevelsInv, ToplevelsType, W!WindowsAreListed, W!Tiled
    <3> QED
      BY <1>1, <2>7, <3>1 DEF W!Tiled
  <2>9. \A v \in Toplevel :
          /\ (container'[v] # None) = (v \in W!Shown')
          /\ (listed'[v] # None) = (v \in W!Shown' \cap managed')
          /\ listed'[v] \in outputs'.plugged \cup {None}
    BY <1>1, <1>2, <2>1, <2>2, <2>3, <2>4
       DEF ToplevelsInv, ToplevelsType, W!WindowsAreListed, W!Live
  <2>10. ASSUME NEW v \in W!Shown' \cap managed'
         PROVE  LET o == place'[container'[v]].on
                IN /\ o \in outputs'.plugged
                   /\ v \in outputs'.astray \/ listed'[v] = o
                   /\ v \in outputs'.mislaid \/ handle'[v] = {o}
    <3>1. CASE v = w
      <4>1. container'[v] = c /\ listed'[v] = W!Here /\ handle'[v] = {W!Here}
        BY <1>1, <2>1, <2>3, <2>10, <3>1 DEF ToplevelsInv, ToplevelsType
      <4>2. place'[c].on = W!Here
        BY <2>1, <2>4 DEF ToplevelsInv, ToplevelsType
      <4> QED
        BY <2>2, <2>4, <4>1, <4>2
    <3>2. CASE v # w
      <4>1. v \in W!Shown \cap managed /\ v \in Toplevel
        BY <1>1, <1>2, <2>10, <3>2 DEF W!Shown
      <4>2. container'[v] = container[v] /\ listed'[v] = listed[v] /\ handle'[v] = handle[v]
        BY <2>1, <2>3, <3>2, <4>1 DEF ToplevelsInv, ToplevelsType
      <4>3. container[v] # c /\ container[v] \in Container
        BY <2>1, <4>1, TiledIs DEF W!TabsOf
      <4>4. place'[container[v]] = place[container[v]]
        BY <2>1, <4>3 DEF ToplevelsInv, ToplevelsType
      <4> QED
        BY <2>2, <4>1, <4>2, <4>4 DEF ToplevelsInv, W!WindowsAreListed, W!Live
    <3> QED
      BY <3>1, <3>2
  <2>11. \A d \in Container : (place'[d] # None) = (W!TabsOf(d)' # {})
    BY <2>1, <2>4, <2>7 DEF ToplevelsInv, ToplevelsType, W!WindowsAreListed
  <2>12. W!WindowsAreListed'
    BY <1>1, <2>8, <2>9, <2>10, <2>11 DEF W!WindowsAreListed, W!Live
  <2> QED
    BY <2>5, <2>6, <2>12 DEF ToplevelsInv
<1> QED
  BY <1>3, <1>4

LEMMA UnmapKeeps ==
  ASSUME ToplevelsAssumption, ToplevelsInv, NEW w \in Toplevel, W!Unmap(w)
  PROVE  ToplevelsInv'
<1> USE DEF ToplevelsAssumption
<1>0. PICK c \in Container : c = container[w]
  BY TiledIs DEF W!Unmap
<1>1. /\ w \in W!Shown /\ surface[w] = "mapped"
      /\ container[w] = c /\ w \in W!TabsOf(c)
      /\ managed' = managed
      /\ surface' = [surface EXCEPT ![w] = "attached"]
      /\ listed' = [listed EXCEPT ![w] = None]
      /\ handle' = [handle EXCEPT ![w] = {}]
      /\ container' = [container EXCEPT ![w] = None]
      /\ outputs' = [outputs EXCEPT !.astray = @ \ {w}, !.mislaid = @ \ {w}]
  BY <1>0, TiledIs DEF W!Unmap, W!Shown, W!TabsOf
<1>2. W!Shown' = W!Shown \ {w}
  BY <1>1 DEF W!Shown, ToplevelsInv, ToplevelsType
<1>3. /\ place' \in [Container -> Places \cup {None}]
      /\ mark' \in Container \cup {None}
      /\ \A d \in Container \ {c} : place'[d] = place[d]
      /\ W!TabsOf(c) = {w} => place'[c] = None /\ mark' # c
      /\ W!TabsOf(c) # {w} => place'[c] = place[c]
      /\ mark' # None => mark' = mark
  BY <1>1 DEF W!Unmap, ToplevelsInv, ToplevelsType
<1>4. /\ outputs'.plugged = outputs.plugged /\ outputs'.focused = outputs.focused
      /\ outputs'.astray = outputs.astray \ {w}
      /\ outputs'.mislaid = outputs.mislaid \ {w}
      /\ outputs' \in [plugged : SUBSET Output, focused : Output,
                       astray : SUBSET Toplevel, mislaid : SUBSET Toplevel]
  BY <1>1 DEF ToplevelsInv, ToplevelsType
<1>5. ToplevelsType'
  BY <1>1, <1>3, <1>4 DEF ToplevelsInv, ToplevelsType
<1>6. Alike'
  BY <1>1 DEF ToplevelsInv, ToplevelsType, Alike
<1>7. /\ W!TabsOf(c)' = W!TabsOf(c) \ {w}
      /\ \A d \in Container \ {c} : W!TabsOf(d)' = W!TabsOf(d)
  BY <1>1 DEF ToplevelsInv, ToplevelsType, W!TabsOf
<1>8. \A v \in Toplevel :
          /\ (container'[v] # None) = (v \in W!Shown')
          /\ (listed'[v] # None) = (v \in W!Shown' \cap managed')
          /\ listed'[v] \in outputs'.plugged \cup {None}
  BY <1>1, <1>2, <1>4 DEF ToplevelsInv, ToplevelsType, W!WindowsAreListed, W!Live
<1>9. ASSUME NEW v \in W!Shown' \cap managed'
      PROVE  LET o == place'[container'[v]].on
             IN /\ o \in outputs'.plugged
                /\ v \in outputs'.astray \/ listed'[v] = o
                /\ v \in outputs'.mislaid \/ handle'[v] = {o}
  <2>1. v \in W!Shown \cap managed /\ v \in Toplevel /\ v # w
    BY <1>1, <1>2, <1>9 DEF W!Shown
  <2>2. container'[v] = container[v] /\ listed'[v] = listed[v] /\ handle'[v] = handle[v]
    BY <1>1, <2>1 DEF ToplevelsInv, ToplevelsType
  <2>3. container[v] \in Container /\ (container[v] = c => v \in W!TabsOf(c))
    BY <2>1, TiledIs DEF W!TabsOf
  <2>4. place'[container[v]] = place[container[v]]
    BY <1>3, <2>1, <2>3
  <2> QED
    BY <1>4, <2>1, <2>2, <2>4 DEF ToplevelsInv, W!WindowsAreListed, W!Live
<1>10. \A d \in Container : (place'[d] # None) = (W!TabsOf(d)' # {})
  <2>1. \A d \in Container : (place[d] # None) = (W!TabsOf(d) # {})
    BY DEF ToplevelsInv, W!WindowsAreListed
  <2> QED
    BY <1>1, <1>3, <1>7, <2>1
<1>11. mark' # None => W!Tiled(mark)'
  <2> SUFFICES ASSUME mark' # None PROVE W!Tiled(mark)'
    OBVIOUS
  <2>1. mark' = mark /\ mark \in Container /\ W!Tiled(mark)
    BY <1>3 DEF ToplevelsInv, W!WindowsAreListed
  <2>2. W!TabsOf(mark)' # {}
    <3>1. CASE mark = c
      BY <1>1, <1>3, <1>7, <2>1, <3>1
    <3>2. CASE mark # c
      BY <1>7, <2>1, <3>2 DEF W!Tiled
    <3> QED
      BY <3>1, <3>2
  <2>3. W!TabsOf(mark)' \subseteq managed
    BY <1>7, <2>1 DEF W!Tiled
  <2> QED
    BY <1>1, <2>1, <2>2, <2>3 DEF W!Tiled
<1>12. W!WindowsAreListed'
  BY <1>8, <1>9, <1>10, <1>11 DEF W!WindowsAreListed, W!Live
<1> QED
  BY <1>5, <1>6, <1>12 DEF ToplevelsInv

LEMMA SwapKeeps ==
  ASSUME ToplevelsAssumption, ToplevelsInv, NEW a \in Toplevel, NEW b \in Toplevel, W!Swap(a, b)
  PROVE  ToplevelsInv'
<1> USE DEF ToplevelsAssumption
<1> DEFINE sides == [w \in Toplevel |-> CASE w = a -> b [] w = b -> a [] OTHER -> w]
           apart == place[container[a]].on # place[container[b]].on
<1>1. /\ {a, b} \subseteq W!Shown \cap managed /\ container[a] # container[b]
      /\ container' = [w \in Toplevel |-> container[sides[w]]]
      /\ listed' = [w \in Toplevel |-> listed[sides[w]]]
      /\ UNCHANGED <<surface, managed, place, mark, handle>>
      /\ outputs' = [outputs EXCEPT !.astray = {w \in Toplevel : sides[w] \in @},
                                    !.mislaid = IF apart THEN @ \cup {a, b} ELSE @]
  BY DEF W!Swap
<1>2. /\ \A w \in Toplevel : sides[w] \in Toplevel /\ sides[sides[w]] = w
      /\ \A w \in Toplevel : sides[w] \in managed <=> w \in managed
      /\ \A w \in Toplevel : sides[w] \in W!Shown <=> w \in W!Shown
      /\ \A w \in Toplevel : sides[w] # w => w \in {a, b} /\ sides[w] \in {a, b}
  BY <1>1
<1>3. W!Shown' = W!Shown
  BY <1>1 DEF W!Shown
<1>4. /\ outputs'.plugged = outputs.plugged /\ outputs'.focused = outputs.focused
      /\ outputs'.astray = {w \in Toplevel : sides[w] \in outputs.astray}
      /\ outputs.mislaid \subseteq outputs'.mislaid
      /\ apart => {a, b} \subseteq outputs'.mislaid
      /\ outputs' \in [plugged : SUBSET Output, focused : Output,
                       astray : SUBSET Toplevel, mislaid : SUBSET Toplevel]
  <2>1. {w \in Toplevel : sides[w] \in outputs.astray} \subseteq Toplevel
    OBVIOUS
  <2> HIDE DEF sides, apart
  <2> QED
    BY <1>1, <2>1 DEF ToplevelsInv, ToplevelsType
<1>5. /\ \A w \in Toplevel : container'[w] = container[sides[w]] /\ listed'[w] = listed[sides[w]]
      /\ UNCHANGED <<surface, managed, place, mark, handle>>
  BY <1>1
<1> HIDE DEF sides, apart
<1>6. ToplevelsType'
  <2>1. /\ container' \in [Toplevel -> Container \cup {None}]
        /\ listed' \in [Toplevel -> Output \cup {None}]
    BY <1>1, <1>2 DEF ToplevelsInv, ToplevelsType
  <2> QED
    BY <1>1, <1>4, <2>1 DEF ToplevelsInv, ToplevelsType
<1>7. Alike'
  BY <1>1, <1>2, <1>5 DEF ToplevelsInv, Alike
<1>8. \A c \in Container : /\ \A w \in Toplevel : w \in W!TabsOf(c)' <=> sides[w] \in W!TabsOf(c)
                          /\ (W!TabsOf(c)' # {}) = (W!TabsOf(c) # {})
                          /\ W!Tiled(c)' = W!Tiled(c)
  <2> TAKE c \in Container
  <2>1. \A w \in Toplevel : w \in W!TabsOf(c)' <=> sides[w] \in W!TabsOf(c)
    BY <1>2, <1>5 DEF W!TabsOf
  <2>2. W!TabsOf(c) \subseteq Toplevel /\ W!TabsOf(c)' \subseteq Toplevel
    BY DEF W!TabsOf
  <2> QED
    BY <1>2, <1>5, <2>1, <2>2 DEF W!Tiled
<1>9. \A v \in Toplevel :
          /\ (container'[v] # None) = (v \in W!Shown')
          /\ (listed'[v] # None) = (v \in W!Shown' \cap managed')
          /\ listed'[v] \in outputs'.plugged \cup {None}
  <2> TAKE v \in Toplevel
  <2>1. /\ (container[sides[v]] # None) = (sides[v] \in W!Shown)
        /\ (listed[sides[v]] # None) = (sides[v] \in W!Shown \cap managed)
        /\ listed[sides[v]] \in outputs.plugged \cup {None}
    BY <1>2 DEF ToplevelsInv, W!WindowsAreListed, W!Live
  <2>2. /\ sides[v] \in W!Shown <=> v \in W!Shown'
        /\ sides[v] \in managed <=> v \in managed'
    BY <1>2, <1>3, <1>5
  <2> QED
    BY <1>4, <1>5, <2>1, <2>2
<1>10. ASSUME NEW v \in W!Shown' \cap managed'
       PROVE  LET o == place'[container'[v]].on
              IN /\ o \in outputs'.plugged
                 /\ v \in outputs'.astray \/ listed'[v] = o
                 /\ v \in outputs'.mislaid \/ handle'[v] = {o}
  <2> DEFINE u == sides[v]
             o == place[container[u]].on
  <2>1. v \in Toplevel /\ u \in Toplevel /\ {u, v} \subseteq W!Shown \cap managed
    BY <1>1, <1>2, <1>3, <1>10 DEF W!Shown
  <2>2. o \in outputs.plugged /\ (u \in outputs.astray \/ listed[u] = o)
    BY <2>1 DEF ToplevelsInv, W!WindowsAreListed, W!Live
  <2>3. v \in outputs.mislaid \/ handle[v] = {place[container[v]].on}
    BY <2>1 DEF ToplevelsInv, W!WindowsAreListed, W!Live
  <2>4. v \in outputs'.mislaid \/ place[container[v]].on = o
    BY <1>2, <1>4, <2>1 DEF apart
  <2>5. place'[container'[v]].on = o
    BY <1>1, <1>5, <2>1
  <2> HIDE DEF o, u
  <2>6. v \in outputs'.astray \/ listed'[v] = o
    BY <1>4, <1>5, <2>1, <2>2 DEF u
  <2> QED
    BY <1>1, <1>4, <2>2, <2>3, <2>4, <2>5, <2>6
<1>11. \A d \in Container : (place'[d] # None) = (W!TabsOf(d)' # {})
  BY <1>5, <1>8 DEF ToplevelsInv, W!WindowsAreListed
<1>12. mark' # None => W!Tiled(mark)'
  <2> SUFFICES ASSUME mark' # None PROVE W!Tiled(mark)'
    OBVIOUS
  <2>1. mark' = mark /\ mark \in Container /\ W!Tiled(mark)
    BY <1>5 DEF ToplevelsInv, ToplevelsType, W!WindowsAreListed
  <2>2. ASSUME NEW d \in Container, d = mark
        PROVE  W!Tiled(d)'
    BY <1>8, <2>1, <2>2
  <2> QED
    BY <2>1, <2>2
<1>13. W!WindowsAreListed'
  BY <1>9, <1>10, <1>11, <1>12 DEF W!WindowsAreListed, W!Live
<1> QED
  BY <1>6, <1>7, <1>13 DEF ToplevelsInv

(* Containers cs move to the output o with the windows in them; a window   *)
(* that is astray may be listed there too.                                 *)
Moved(cs, o) ==
    /\ cs \subseteq Container /\ \A c \in cs : W!Tiled(c)
    /\ UNCHANGED <<surface, managed, container, mark>>
    /\ place' \in [Container -> Places \cup {None}]
    /\ \A c \in Container : (place'[c] # None) = (place[c] # None)
    /\ \A c \in cs : place'[c].on = o
    /\ \A c \in Container \ cs : /\ place'[c] = place[c]
                                 /\ W!Tiled(c) => place[c].on \in outputs'.plugged
    /\ outputs' \in [plugged : SUBSET Output, focused : Output,
                     astray : SUBSET Toplevel, mislaid : SUBSET Toplevel]
    /\ outputs'.focused \in outputs'.plugged /\ o \in outputs'.plugged
    /\ outputs'.mislaid = outputs.mislaid
    /\ \A w \in outputs.astray : container[w] \notin cs => w \in outputs'.astray
    /\ listed' \in [Toplevel -> Output \cup {None}]
    /\ \A w \in Toplevel : container[w] \in cs => listed'[w] = o
    /\ \A w \in Toplevel : container[w] \notin cs =>
          \/ listed'[w] = listed[w] /\ listed[w] \in outputs'.plugged \cup {None}
          \/ w \in outputs.astray /\ listed[w] # None /\ listed'[w] = o
    /\ handle' \in [Toplevel -> SUBSET Output]
    /\ \A w \in W!Shown \cap managed : w \notin outputs.mislaid =>
          handle'[w] = IF container[w] \in cs THEN {o} ELSE handle[w]

LEMMA MovedKeep ==
  ASSUME ToplevelsAssumption, ToplevelsInv, NEW cs, NEW o \in Output, Moved(cs, o)
  PROVE  ToplevelsInv'
<1> USE DEF ToplevelsAssumption, Moved
<1>1. W!Shown' = W!Shown /\ managed' = managed
  BY DEF W!Shown
<1>2. \A c \in Container : /\ (W!TabsOf(c)' # {}) = (W!TabsOf(c) # {})
                           /\ W!Tiled(c)' = W!Tiled(c)
  BY DEF W!TabsOf, W!Tiled
<1>3. ToplevelsType' /\ Alike'
  BY DEF ToplevelsInv, ToplevelsType, Alike
<1>4. \A w \in Toplevel : container[w] \in cs => w \in W!Shown \cap managed
  BY DEF ToplevelsInv, W!WindowsAreListed, W!Tiled, W!TabsOf
<1>5. \A v \in Toplevel :
          /\ (container'[v] # None) = (v \in W!Shown')
          /\ (listed'[v] # None) = (v \in W!Shown' \cap managed')
          /\ listed'[v] \in outputs'.plugged \cup {None}
  <2> TAKE v \in Toplevel
  <2>1. /\ (container[v] # None) = (v \in W!Shown)
        /\ (listed[v] # None) = (v \in W!Shown \cap managed)
    BY DEF ToplevelsInv, W!WindowsAreListed
  <2>2. CASE container[v] \in cs
    BY <1>1, <1>4, <2>1, <2>2
  <2>3. CASE container[v] \notin cs
    BY <1>1, <2>1, <2>3
  <2> QED
    BY <2>2, <2>3
<1>6. ASSUME NEW v \in W!Shown' \cap managed'
      PROVE  LET p == place'[container'[v]].on
             IN /\ p \in outputs'.plugged
                /\ v \in outputs'.astray \/ listed'[v] = p
                /\ v \in outputs'.mislaid \/ handle'[v] = {p}
  <2>1. /\ v \in Toplevel /\ v \in W!Shown \cap managed /\ container'[v] = container[v]
        /\ container[v] \in Container /\ W!Tiled(container[v])
    BY <1>1, <1>6, TiledIs DEF W!Shown
  <2>2. CASE container[v] \in cs
    BY <2>1, <2>2
  <2>3. CASE container[v] \notin cs
    <3>1. /\ v \in outputs.astray \/ listed[v] = place[container[v]].on
          /\ v \in outputs.mislaid \/ handle[v] = {place[container[v]].on}
      BY <2>1 DEF ToplevelsInv, W!WindowsAreListed
    <3>2. v \in outputs.astray => v \in outputs'.astray
      BY <2>3
    <3> QED
      BY <2>1, <2>3, <3>1, <3>2
  <2> QED
    BY <2>2, <2>3
<1>7. \A d \in Container : (place'[d] # None) = (W!TabsOf(d)' # {})
  BY <1>2 DEF ToplevelsInv, W!WindowsAreListed
<1>8. mark' # None => W!Tiled(mark)'
  <2>1. ASSUME NEW d \in Container, d = mark
        PROVE  W!Tiled(d)'
    <3>1. W!Tiled(d)
      BY <2>1 DEF ToplevelsInv, W!WindowsAreListed
    <3> QED
      BY <1>2, <3>1
  <2> QED
    BY <2>1 DEF ToplevelsInv, ToplevelsType
<1>9. W!WindowsAreListed'
  BY <1>5, <1>6, <1>7, <1>8 DEF W!WindowsAreListed, W!Live
<1> QED
  BY <1>3, <1>9 DEF ToplevelsInv

LEMMA MoveToOutputKeeps ==
  ASSUME ToplevelsAssumption, ToplevelsInv, NEW c \in Container, NEW o \in Output,
         W!MoveToOutput(c, o)
  PROVE  ToplevelsInv'
<1> DEFINE cs == {c}
<1>1. /\ UNCHANGED <<surface, managed, container, mark>> /\ W!Tiled(c)
      /\ o \in outputs.plugged
      /\ place' = [place EXCEPT ![c].on = o]
      /\ listed' = [w \in Toplevel |-> IF container[w] \in cs THEN o ELSE listed[w]]
      /\ handle' = [w \in Toplevel |-> IF container[w] \in cs
                      THEN (handle[w] \ {place[container[w]].on}) \cup {o} ELSE handle[w]]
      /\ outputs' = [outputs EXCEPT !.astray = W!Found(cs)]
  BY DEF W!MoveToOutput, W!Relist, W!Reenter, W!Live
<1>2. /\ place[c] \in Places
      /\ place'[c] \in Places /\ place'[c].on = o
      /\ \A d \in Container \ cs : place'[d] = place[d]
      /\ place' \in [Container -> Places \cup {None}]
  BY <1>1, TiledIs DEF ToplevelsInv, ToplevelsType, Places
<1>3. W!Found(cs) \subseteq Toplevel
  BY DEF W!Found, ToplevelsInv, ToplevelsType
<1>4. /\ outputs'.plugged = outputs.plugged /\ outputs'.focused = outputs.focused
      /\ outputs'.astray = W!Found(cs) /\ outputs'.mislaid = outputs.mislaid
      /\ outputs' \in [plugged : SUBSET Output, focused : Output,
                       astray : SUBSET Toplevel, mislaid : SUBSET Toplevel]
      /\ outputs'.focused \in outputs'.plugged
  BY <1>1, <1>3 DEF ToplevelsInv, ToplevelsType
<1>5. \A w \in Toplevel : container[w] \notin cs =>
         listed'[w] = listed[w] /\ listed[w] \in outputs'.plugged \cup {None}
  BY <1>1, <1>4 DEF ToplevelsInv, W!WindowsAreListed, W!Live
<1>6. \A w \in W!Shown \cap managed : w \notin outputs.mislaid =>
         handle'[w] = IF container[w] \in cs THEN {o} ELSE handle[w]
  BY <1>1 DEF ToplevelsInv, W!WindowsAreListed, W!Shown
<1>7. \A d \in Container : W!Tiled(d) => place[d].on \in outputs'.plugged
  BY <1>4, TiledIs
<1>8. /\ listed' \in [Toplevel -> Output \cup {None}]
      /\ handle' \in [Toplevel -> SUBSET Output]
  BY <1>1 DEF ToplevelsInv, ToplevelsType
<1>9. \A d \in Container : (place'[d] # None) = (place[d] # None)
  BY <1>2 DEF ToplevelsAssumption
<1> QED
  <2>1. /\ cs \in SUBSET Container /\ \A d \in cs : W!Tiled(d)
        /\ o \in outputs'.plugged
        /\ \A d \in cs : place'[d].on = o
        /\ \A d \in Container \ cs : place'[d] = place[d]
        /\ \A d \in Container \ cs : W!Tiled(d) => place[d].on \in outputs'.plugged
        /\ \A w \in outputs.astray : container[w] \notin cs => w \in outputs'.astray
    BY <1>1, <1>2, <1>4, <1>5, <1>6, <1>7, <1>8, <1>9 DEF W!Found
  <2>2. /\ \A w \in Toplevel : container[w] \in cs => listed'[w] = o
        /\ \A w \in Toplevel : container[w] \notin cs =>
              \/ listed'[w] = listed[w] /\ listed[w] \in outputs'.plugged \cup {None}
              \/ w \in outputs.astray /\ listed[w] # None /\ listed'[w] = o
    BY <1>1, <1>2, <1>4, <1>5, <1>6, <1>7, <1>8, <1>9
  <2> HIDE DEF cs
  <2>3. /\ UNCHANGED <<surface, managed, container, mark>>
        /\ place' \in [Container -> Places \cup {None}]
        /\ \A d \in Container : (place'[d] # None) = (place[d] # None)
        /\ listed' \in [Toplevel -> Output \cup {None}]
        /\ handle' \in [Toplevel -> SUBSET Output]
        /\ outputs'.focused \in outputs'.plugged
        /\ outputs'.mislaid = outputs.mislaid
        /\ outputs' \in [plugged : SUBSET Output, focused : Output,
                         astray : SUBSET Toplevel, mislaid : SUBSET Toplevel]
    BY <1>1, <1>2, <1>4, <1>5, <1>6, <1>7, <1>8, <1>9
  <2>4. Moved(cs, o)
    BY <2>1, <2>2, <2>3, <1>6 DEF Moved
  <2> QED
    BY <2>4, MovedKeep

LEMMA UnplugKeeps ==
  ASSUME ToplevelsAssumption, ToplevelsInv, NEW s \in Output, NEW o \in Output, W!Unplug(s, o)
  PROVE  ToplevelsInv'
<1>0. PICK cs \in SUBSET Container : cs = W!OnOutput(s)
  BY DEF W!OnOutput
<1>1. /\ UNCHANGED <<surface, managed, container, mark>>
      /\ s \in outputs.plugged /\ o \in outputs.plugged /\ o # s
      /\ place' = [c \in Container |->
                     IF c \notin cs THEN place[c]
                     ELSE [on |-> o, home |-> IF place[c].home = None THEN s
                                              ELSE place[c].home]]
      /\ listed' = [w \in Toplevel |-> IF W!Relist(cs, o)[w] = s THEN o
                                     ELSE W!Relist(cs, o)[w]]
      /\ handle' = [w \in Toplevel |-> W!Reenter(cs, o)[w] \ {s}]
      /\ outputs' = [outputs EXCEPT !.plugged = @ \ {s}, !.focused = o,
                                    !.astray = W!Found(cs)]
  BY <1>0 DEF W!Unplug, W!Live
<1>2. /\ cs \subseteq Container /\ \A c \in cs : W!Tiled(c)
      /\ \A c \in Container \ cs : W!Tiled(c) => place[c].on # s
  BY <1>0 DEF W!OnOutput
<1>3. /\ \A c \in cs : place[c] \in Places /\ place'[c] \in Places /\ place'[c].on = o
      /\ \A d \in Container \ cs : place'[d] = place[d]
      /\ place' \in [Container -> Places \cup {None}]
  <2>1. \A c \in cs : place[c] \in Places
    BY <1>2, TiledIs
  <2>2. \A c \in cs : place'[c] \in Places /\ place'[c].on = o
    BY <1>1, <1>2, <2>1 DEF Places
  <2> QED
    BY <1>1, <1>2, <2>1, <2>2 DEF ToplevelsInv, ToplevelsType
<1>4. W!Found(cs) \subseteq Toplevel
  BY DEF W!Found, ToplevelsInv, ToplevelsType
<1>5. /\ outputs'.plugged = outputs.plugged \ {s} /\ outputs'.focused = o
      /\ outputs'.astray = W!Found(cs) /\ outputs'.mislaid = outputs.mislaid
      /\ outputs' \in [plugged : SUBSET Output, focused : Output,
                       astray : SUBSET Toplevel, mislaid : SUBSET Toplevel]
      /\ outputs'.focused \in outputs'.plugged
  BY <1>1, <1>4 DEF ToplevelsInv, ToplevelsType
<1>6. ASSUME NEW w \in Toplevel
      PROVE  /\ container[w] \in cs => listed'[w] = o
             /\ container[w] \notin cs =>
                  listed'[w] = IF listed[w] = s THEN o ELSE listed[w]
             /\ handle'[w] = (IF container[w] \in cs
                      THEN (handle[w] \ {place[container[w]].on}) \cup {o} ELSE handle[w]) \ {s}
  BY <1>1 DEF W!Relist, W!Reenter
<1>7. ASSUME NEW w \in Toplevel, container[w] \notin cs
      PROVE  \/ listed'[w] = listed[w] /\ listed[w] \in outputs'.plugged \cup {None}
             \/ w \in outputs.astray /\ listed[w] # None /\ listed'[w] = o
  <2>1. CASE listed[w] = s
    <3>1. w \in W!Shown \cap managed /\ listed[w] # None
      BY <2>1 DEF ToplevelsInv, W!WindowsAreListed, ToplevelsAssumption
    <3>2. container[w] \in Container /\ W!Tiled(container[w])
      BY <3>1, TiledIs, ToplevelsAssumption DEF ToplevelsAssumption
    <3>3. w \in outputs.astray
      BY <1>2, <1>7, <2>1, <3>1, <3>2 DEF ToplevelsInv, W!WindowsAreListed
    <3> QED
      BY <1>6, <1>7, <2>1, <3>1, <3>3
  <2>2. CASE listed[w] # s
    BY <1>5, <1>6, <1>7, <2>2 DEF ToplevelsInv, W!WindowsAreListed, W!Live
  <2> QED
    BY <2>1, <2>2
<1>8. ASSUME NEW w \in W!Shown \cap managed, w \notin outputs.mislaid
      PROVE  handle'[w] = IF container[w] \in cs THEN {o} ELSE handle[w]
  <2>1. /\ w \in Toplevel /\ handle[w] = {place[container[w]].on}
        /\ container[w] \in Container /\ W!Tiled(container[w])
    BY <1>8, TiledIs DEF ToplevelsInv, W!WindowsAreListed, W!Shown, ToplevelsAssumption
  <2>2. container[w] \notin cs => place[container[w]].on # s
    BY <1>2, <2>1
  <2> QED
    BY <1>1, <1>6, <2>1, <2>2
<1>9. \A d \in Container \ cs : W!Tiled(d) => place[d].on \in outputs'.plugged
  BY <1>2, <1>5, TiledIs
<1>10. listed' \in [Toplevel -> Output \cup {None}]
  BY <1>1, <1>6 DEF ToplevelsInv, ToplevelsType
<1>11. handle' \in [Toplevel -> SUBSET Output]
  BY <1>1, <1>6 DEF ToplevelsInv, ToplevelsType
<1>12. \A d \in Container : (place'[d] # None) = (place[d] # None)
  BY <1>3 DEF ToplevelsAssumption
<1>13. o \in outputs'.plugged
  BY <1>1, <1>5
<1> QED
  <2>1. /\ cs \in SUBSET Container /\ \A c \in cs : W!Tiled(c)
        /\ o \in outputs'.plugged
        /\ \A c \in cs : place'[c].on = o
        /\ \A c \in Container \ cs : place'[c] = place[c]
        /\ \A c \in Container \ cs : W!Tiled(c) => place[c].on \in outputs'.plugged
        /\ \A w \in outputs.astray : container[w] \notin cs => w \in outputs'.astray
    BY <1>1, <1>2, <1>3, <1>5, <1>6, <1>7, <1>8, <1>9, <1>10, <1>11, <1>12, <1>13 DEF W!Found
  <2>2. /\ \A w \in Toplevel : container[w] \in cs => listed'[w] = o
        /\ \A w \in Toplevel : container[w] \notin cs =>
              \/ listed'[w] = listed[w] /\ listed[w] \in outputs'.plugged \cup {None}
              \/ w \in outputs.astray /\ listed[w] # None /\ listed'[w] = o
    BY <1>1, <1>2, <1>3, <1>5, <1>6, <1>7, <1>8, <1>9, <1>10, <1>11, <1>12, <1>13
  <2>3. /\ UNCHANGED <<surface, managed, container, mark>>
        /\ place' \in [Container -> Places \cup {None}]
        /\ \A d \in Container : (place'[d] # None) = (place[d] # None)
        /\ listed' \in [Toplevel -> Output \cup {None}]
        /\ handle' \in [Toplevel -> SUBSET Output]
        /\ outputs'.focused \in outputs'.plugged
        /\ outputs'.mislaid = outputs.mislaid
        /\ outputs' \in [plugged : SUBSET Output, focused : Output,
                         astray : SUBSET Toplevel, mislaid : SUBSET Toplevel]
    BY <1>1, <1>2, <1>3, <1>5, <1>6, <1>7, <1>8, <1>9, <1>10, <1>11, <1>12, <1>13
  <2>4. Moved(cs, o)
    BY <2>1, <2>2, <2>3, <1>8 DEF Moved
  <2> QED
    BY <2>4, MovedKeep

LEMMA PlugKeeps ==
  ASSUME ToplevelsAssumption, ToplevelsInv, NEW s \in Output, W!Plug(s)
  PROVE  ToplevelsInv'
<1>0. PICK cs \in SUBSET Container :
         cs = {c \in Container : W!Tiled(c) /\ place[c].home = s}
  OBVIOUS
<1>1. /\ UNCHANGED <<surface, managed, container, mark>>
      /\ place' = [c \in Container |-> IF c \in cs THEN [on |-> s, home |-> None]
                                       ELSE place[c]]
      /\ listed' = [w \in Toplevel |-> IF container[w] \in cs THEN s ELSE listed[w]]
      /\ handle' = [w \in Toplevel |-> IF container[w] \in cs
                      THEN (handle[w] \ {place[container[w]].on}) \cup {s} ELSE handle[w]]
      /\ outputs' = [outputs EXCEPT !.plugged = @ \cup {s}, !.astray = W!Found(cs)]
  BY <1>0 DEF W!Plug, W!Relist, W!Reenter
<1>2. cs \subseteq Container /\ \A c \in cs : W!Tiled(c)
  BY <1>0
<1>3. /\ \A c \in cs : place[c] \in Places /\ place'[c] \in Places /\ place'[c].on = s
      /\ \A d \in Container \ cs : place'[d] = place[d]
      /\ place' \in [Container -> Places \cup {None}]
  <2>1. \A c \in cs : place[c] \in Places
    BY <1>2, TiledIs
  <2>2. \A c \in cs : place'[c] \in Places /\ place'[c].on = s
    BY <1>1, <1>2, <2>1 DEF Places
  <2> QED
    BY <1>1, <1>2, <2>1, <2>2 DEF ToplevelsInv, ToplevelsType
<1>4. W!Found(cs) \subseteq Toplevel
  BY DEF W!Found, ToplevelsInv, ToplevelsType
<1>5. /\ outputs'.plugged = outputs.plugged \cup {s} /\ outputs'.focused = outputs.focused
      /\ outputs'.astray = W!Found(cs) /\ outputs'.mislaid = outputs.mislaid
      /\ outputs' \in [plugged : SUBSET Output, focused : Output,
                       astray : SUBSET Toplevel, mislaid : SUBSET Toplevel]
      /\ outputs'.focused \in outputs'.plugged
  BY <1>1, <1>4 DEF ToplevelsInv, ToplevelsType
<1>6. \A w \in Toplevel : container[w] \notin cs =>
         listed'[w] = listed[w] /\ listed[w] \in outputs'.plugged \cup {None}
  BY <1>1, <1>5 DEF ToplevelsInv, W!WindowsAreListed, W!Live
<1>7. \A w \in W!Shown \cap managed : w \notin outputs.mislaid =>
         handle'[w] = IF container[w] \in cs THEN {s} ELSE handle[w]
  BY <1>1 DEF ToplevelsInv, W!WindowsAreListed, W!Shown
<1>8. \A d \in Container : W!Tiled(d) => place[d].on \in outputs'.plugged
  BY <1>5, TiledIs
<1>9. /\ listed' \in [Toplevel -> Output \cup {None}]
      /\ handle' \in [Toplevel -> SUBSET Output]
  BY <1>1 DEF ToplevelsInv, ToplevelsType
<1>10. \A d \in Container : (place'[d] # None) = (place[d] # None)
  BY <1>3 DEF ToplevelsAssumption
<1> QED
  <2>1. /\ cs \in SUBSET Container /\ \A c \in cs : W!Tiled(c)
        /\ s \in outputs'.plugged
        /\ \A c \in cs : place'[c].on = s
        /\ \A c \in Container \ cs : place'[c] = place[c]
        /\ \A c \in Container \ cs : W!Tiled(c) => place[c].on \in outputs'.plugged
        /\ \A w \in outputs.astray : container[w] \notin cs => w \in outputs'.astray
    BY <1>1, <1>2, <1>3, <1>5, <1>6, <1>7, <1>8, <1>9, <1>10 DEF W!Found
  <2>2. /\ \A w \in Toplevel : container[w] \in cs => listed'[w] = s
        /\ \A w \in Toplevel : container[w] \notin cs =>
              \/ listed'[w] = listed[w] /\ listed[w] \in outputs'.plugged \cup {None}
              \/ w \in outputs.astray /\ listed[w] # None /\ listed'[w] = s
    BY <1>1, <1>2, <1>3, <1>5, <1>6, <1>7, <1>8, <1>9, <1>10
  <2>3. /\ UNCHANGED <<surface, managed, container, mark>>
        /\ place' \in [Container -> Places \cup {None}]
        /\ \A d \in Container : (place'[d] # None) = (place[d] # None)
        /\ listed' \in [Toplevel -> Output \cup {None}]
        /\ handle' \in [Toplevel -> SUBSET Output]
        /\ outputs'.focused \in outputs'.plugged
        /\ outputs'.mislaid = outputs.mislaid
        /\ outputs' \in [plugged : SUBSET Output, focused : Output,
                         astray : SUBSET Toplevel, mislaid : SUBSET Toplevel]
    BY <1>1, <1>2, <1>3, <1>5, <1>6, <1>7, <1>8, <1>9, <1>10
  <2>4. Moved(cs, s)
    BY <2>1, <2>2, <2>3, <1>7 DEF Moved
  <2> QED
    BY <2>4, MovedKeep

LEMMA ToplevelsStart == ASSUME ToplevelsAssumption, W!ToplevelsInit PROVE ToplevelsInv
<1>1. ToplevelsType
  BY DEF W!ToplevelsInit, ToplevelsType, ToplevelsAssumption
<1>2. W!Shown = {} /\ \A c \in Container : W!TabsOf(c) = {}
  BY DEF W!ToplevelsInit, W!Shown, W!TabsOf, ToplevelsAssumption
<1>3. Alike /\ W!WindowsAreListed
  BY <1>2 DEF W!ToplevelsInit, Alike, W!WindowsAreListed
<1> QED
  BY <1>1, <1>3 DEF ToplevelsInv

LEMMA ToplevelsStep == ASSUME ToplevelsAssumption, ToplevelsInv, W!ToplevelsNext PROVE ToplevelsInv'
<1>1. ASSUME NEW c \in Container \cup {None}, W!SetMark(c)
      PROVE  ToplevelsInv'
  <2>1. W!Shown' = W!Shown
    BY <1>1 DEF W!SetMark, W!Shown
  <2>2. \A d \in Container : W!TabsOf(d)' = W!TabsOf(d) /\ W!Tiled(d)' = W!Tiled(d)
    BY <1>1 DEF W!SetMark, W!TabsOf, W!Tiled
  <2>3. mark' # None => W!Tiled(mark)'
    <3>1. ASSUME NEW d \in Container, d = mark'
          PROVE  W!Tiled(d)'
      BY <1>1, <2>2, <3>1 DEF W!SetMark, ToplevelsAssumption
    <3> QED
      BY <1>1, <3>1 DEF W!SetMark
  <2>4. ToplevelsType' /\ Alike'
    BY <1>1 DEF W!SetMark, ToplevelsInv, ToplevelsType, Alike
  <2>5. W!WindowsAreListed'
    BY <1>1, <2>1, <2>2, <2>3 DEF W!SetMark, ToplevelsInv, W!WindowsAreListed, W!Live
  <2> QED
    BY <2>4, <2>5 DEF ToplevelsInv
<1>2. ASSUME NEW o \in Output, W!FocusOutput(o)
      PROVE  ToplevelsInv'
  <2>1. /\ UNCHANGED <<surface, managed, container, place, mark, listed, handle>>
        /\ outputs'.plugged = outputs.plugged /\ outputs'.focused \in outputs'.plugged
        /\ outputs'.astray = outputs.astray /\ outputs'.mislaid = outputs.mislaid
        /\ outputs' \in [plugged : SUBSET Output, focused : Output,
                         astray : SUBSET Toplevel, mislaid : SUBSET Toplevel]
    BY <1>2 DEF W!FocusOutput, W!Live, ToplevelsInv, ToplevelsType
  <2>2. ToplevelsType' /\ Alike'
    BY <2>1 DEF ToplevelsInv, ToplevelsType, Alike
  <2>3. W!Shown' = W!Shown
    BY <2>1 DEF W!Shown
  <2>4. \A d \in Container : W!TabsOf(d)' = W!TabsOf(d) /\ W!Tiled(d)' = W!Tiled(d)
    BY <2>1 DEF W!TabsOf, W!Tiled
  <2>5. mark' # None => W!Tiled(mark)'
    BY <2>1 DEF W!TabsOf, W!Tiled, ToplevelsInv, W!WindowsAreListed
  <2>6. W!WindowsAreListed'
    BY <2>1, <2>3, <2>4, <2>5 DEF ToplevelsInv, W!WindowsAreListed, W!Live
  <2> QED
    BY <2>2, <2>6 DEF ToplevelsInv
<1> QED
  BY <1>1, <1>2, SurfaceKeeps, MapKeeps, UnmapKeeps, SwapKeeps, MoveToOutputKeeps,
     UnplugKeeps, PlugKeeps DEF W!ToplevelsNext

LEMMA ToplevelsStutter ==
  ASSUME ToplevelsInv, UNCHANGED W!toplevelVars
  PROVE  ToplevelsInv'
BY DEF W!toplevelVars, ToplevelsInv, ToplevelsType, Alike, W!WindowsAreListed,
       W!Shown, W!TabsOf, W!Tiled, W!Live

(***************************************************************************)
(* Idle inhibition                                                         *)
(***************************************************************************)

CONSTANTS Panel

VARIABLES seen, inhibitors, inhibited, waits, asked, quiet, running

E == INSTANCE Idle WITH place <- seen, Layer <- Panel

(* A surface that is no toplevel is told from those that are.              *)
IdleAssumption == Window \cap Panel = {}

IdleInv ==
    /\ IsFiniteSet(inhibitors)
    /\ {inhibited, waits, asked, quiet, running} \subseteq BOOLEAN
    /\ E!InhibitionFollows

LEMMA IdleStart == E!IdleInit => IdleInv
BY FS_EmptySet DEF E!IdleInit, IdleInv, E!InhibitionFollows, E!Valid

LEMMA IdleStutter == IdleInv /\ UNCHANGED E!idleVars => IdleInv'
BY DEF E!idleVars, IdleInv, E!InhibitionFollows, E!Valid

(* Counting the inhibitors that count is asking whether there is one.      *)
LEMMA SomeIsCounted ==
  ASSUME NEW S, IsFiniteSet(S)
  PROVE  E!Cardinality(S) >= 1 <=> S # {}
<1>1. E!Cardinality(S) = Cardinality(S)
  BY DEF E!Cardinality, Cardinality, E!IsFiniteSet, IsFiniteSet
<1> QED
  BY <1>1, FS_CardinalityType, FS_EmptySet

(* After an update the notifier agrees with what is seen.                  *)
LEMMA UpdateAgrees ==
  ASSUME IdleAssumption, IsFiniteSet(inhibitors'), E!Update(inhibitors'),
         inhibited \in BOOLEAN, UNCHANGED seen
  PROVE  /\ {inhibited', running'} \subseteq BOOLEAN /\ ~quiet'
         /\ running' => inhibited' = (E!Valid(inhibitors)' # {})
<1>1. E!Valid(inhibitors)' = E!Valid(inhibitors') /\ IsFiniteSet(E!Valid(inhibitors'))
  BY FS_Subset DEF E!Valid
<1>2. E!Cardinality(E!Valid(inhibitors')) >= 1 <=> E!Valid(inhibitors') # {}
  BY <1>1, SomeIsCounted
<1>3. running' \in BOOLEAN /\ ~quiet'
  BY DEF E!Update
<1>4. CASE running'
  <2>1. inhibited' = (E!Cardinality(E!Valid(inhibitors')) >= 1)
    BY <1>4 DEF E!Update
  <2> QED
    BY <1>1, <1>2, <1>3, <2>1
<1>5. CASE ~running'
  BY <1>3, <1>5 DEF E!Update
<1> QED
  BY <1>3, <1>4, <1>5

LEMMA IdleStep == IdleAssumption /\ IdleInv /\ E!IdleNext => IdleInv'
<1> SUFFICES ASSUME IdleAssumption, IdleInv, E!IdleNext PROVE IdleInv'
  OBVIOUS
<1> USE DEF IdleInv
(* An update sees every surface that is no toplevel.                       *)
<1>u. ASSUME IsFiniteSet(inhibitors'), E!Update(inhibitors'), UNCHANGED seen,
             {waits', asked'} \subseteq BOOLEAN
      PROVE  IdleInv'
  <2>1. /\ {inhibited', running'} \subseteq BOOLEAN /\ ~quiet'
        /\ running' => inhibited' = (E!Valid(inhibitors)' # {})
    BY <1>u, UpdateAgrees
  <2>2. inhibitors' \cap Panel \subseteq E!Valid(inhibitors)'
    BY DEF E!Valid, IdleAssumption
  <2>3. E!Valid(inhibitors)' \subseteq inhibitors'
    BY DEF E!Valid
  <2>4. quiet' \in BOOLEAN
    BY <1>u DEF E!Update
  <2> QED
    BY <1>u, <2>1, <2>2, <2>3, <2>4 DEF E!InhibitionFollows
<1>1. ASSUME NEW s \in Window \cup Panel, E!OnNewInhibitor(s) PROVE IdleInv'
  BY <1>1, <1>u, FS_AddElement DEF E!OnNewInhibitor
<1>2. ASSUME NEW s \in Window \cup Panel, E!OnDestroyInhibitor(s) PROVE IdleInv'
  BY <1>2, FS_RemoveElement DEF E!OnDestroyInhibitor, E!InhibitionFollows, E!Valid
<1>3. CASE E!UpdateLater
  <2>1. inhibitors' = inhibitors /\ E!Update(inhibitors') /\ waits' = FALSE
    BY <1>3 DEF E!UpdateLater
  <2> QED
    BY <1>3, <2>1, <1>u DEF E!UpdateLater
<1>4. CASE E!UpdateVisible
  <2>1. inhibitors' = inhibitors /\ E!Update(inhibitors') /\ asked' = FALSE
    BY <1>4 DEF E!UpdateVisible
  <2> QED
    BY <1>4, <2>1, <1>u DEF E!UpdateVisible
<1>5. CASE E!ViewChange
  BY <1>5 DEF E!ViewChange, E!InhibitionFollows, E!Valid
<1>6. ASSUME NEW w \in Window, E!QuietChange(w) PROVE IdleInv'
  BY <1>6 DEF E!QuietChange, E!InhibitionFollows, E!Valid
<1> QED
  BY <1>1, <1>2, <1>3, <1>4, <1>5, <1>6 DEF E!IdleNext

(***************************************************************************)
(* Resizes                                                                 *)
(***************************************************************************)

CONSTANTS Monitor, Floating, Width, Least

VARIABLES state, shown, client, owes, box, drag, sync, waiting

V == INSTANCE Resizes WITH Output <- Monitor

(* Windows are asked for widths, and 0 is none.                            *)
ResizesAssumption ==
    /\ Width \in [Window -> SUBSET (Nat \ {0})]
    /\ Least \in Nat
    /\ None \notin Window

Clients == [width : Int, asked : Int, answered : BOOLEAN, resizing : BOOLEAN,
            astray : BOOLEAN, loose : BOOLEAN]

Counts == [count : Nat, for : SUBSET Window, late : BOOLEAN, lost : Nat]

ResizesType ==
    /\ state \in [Window -> {"unmapped", "mapped", "gone"}]
    /\ client \in [Window -> Clients]
    /\ box \in [Window -> Int]
    /\ drag \in [window : Window \cup {None}, pending : Int, stale : BOOLEAN]

(***************************************************************************)
(* Frames                                                                  *)
(***************************************************************************)

(* A count and those it waits for, when the windows of o owe an answer.    *)
Waits(s, o) ==
    /\ IsFiniteSet(o) /\ o \subseteq Window /\ s \in Counts
    /\ s.count <= Cardinality(o) + s.lost
    /\ s.for \subseteq o
    /\ s.for # {} /\ ~s.late => s.count >= Cardinality(s.for)

LEMMA SameCount == \A S : V!Cardinality(S) = Cardinality(S)
BY DEF V!Cardinality, Cardinality, V!IsFiniteSet, IsFiniteSet

LEMMA GivenUpWaits ==
  ASSUME NEW o, IsFiniteSet(o), o \subseteq Window
  PROVE  Waits(V!GivenUp, o)
BY FS_CardinalityType, FS_EmptySet DEF Waits, V!GivenUp, Counts

(* One more owes an answer, and is waited for, if it did not before.       *)
LEMMA OwedWaits ==
  ASSUME NEW s, Waits(s, owes), NEW w \in Window, NEW width, V!Owed(w, width, s)
  PROVE  Waits(sync', owes')
<1>1. CASE V!Asks(w, width) /\ w \in shown /\ w \notin owes
  <2>1. /\ owes' = owes \cup {w}
        /\ sync' = [s EXCEPT !.count = @ + 1, !.for = @ \cup {w}]
    BY <1>1 DEF V!Owed, V!Counted
  <2>2. /\ sync' \in Counts /\ sync'.count = s.count + 1 /\ sync'.lost = s.lost
        /\ sync'.for = s.for \cup {w} /\ sync'.late = s.late
    <3> DEFINE for == s.for \cup {w}
               count == s.count + 1
    <3>1. for \subseteq Window /\ count \in Nat /\ s \in Counts
      BY DEF Waits, Counts
    <3>2. sync' = [s EXCEPT !.count = count, !.for = for]
      BY <2>1
    <3> HIDE DEF for, count
    <3>3. /\ sync' \in Counts /\ sync'.count = count /\ sync'.lost = s.lost
          /\ sync'.for = for /\ sync'.late = s.late
      BY <3>1, <3>2 DEF Counts
    <3> QED
      BY <3>3 DEF for, count
  <2>3. IsFiniteSet(s.for) /\ w \notin s.for
    BY <1>1, FS_Subset DEF Waits
  <2>4. /\ IsFiniteSet(owes') /\ Cardinality(owes') = Cardinality(owes) + 1
        /\ Cardinality(s.for \cup {w}) = Cardinality(s.for) + 1
    BY <1>1, <2>1, <2>3, FS_AddElement DEF Waits
  <2>5. Cardinality(owes) \in Nat /\ Cardinality(s.for) \in Nat
    BY <2>3, FS_CardinalityType DEF Waits
  <2>6. s.for = {} => Cardinality(s.for) = 0
    BY FS_EmptySet
  <2>7. s.count \in Nat /\ s.lost \in Nat
    BY DEF Waits, Counts
  <2> QED
    BY <2>1, <2>2, <2>4, <2>5, <2>6, <2>7 DEF Waits
<1>2. CASE ~(V!Asks(w, width) /\ w \in shown /\ w \notin owes)
  <2>1. owes' = owes /\ sync' = s
    BY <1>2 DEF V!Owed, V!Counted
  <2> QED
    BY <2>1
<1> QED
  BY <1>1, <1>2

(* An answer is taken from the count, waited for or not.                   *)
LEMMA AnsweredWaits ==
  ASSUME Waits(sync, owes), NEW w \in Window, V!Answered(w)
  PROVE  Waits(sync', owes')
<1>1. CASE w \notin owes
  BY <1>1 DEF V!Answered
<1>2. CASE w \in owes
  <2> DEFINE rest == sync.for \ {w}
             late == rest # {} /\ (sync.late \/ w \notin sync.for)
             count == IF sync.count = 0 THEN 0 ELSE sync.count - 1
  <2>1. sync \in Counts /\ late \in BOOLEAN
    BY DEF Waits
  <2>2. V!Larger(0, sync.count - 1) = count
    BY <2>1 DEF V!Larger, Counts
  <2>3. owes' = owes \ {w} /\ sync' = [sync EXCEPT !.count = count, !.for = rest, !.late = late]
    BY <1>2, <2>2 DEF V!Answered
  <2>4. IsFiniteSet(sync.for) /\ rest \subseteq owes \ {w}
    BY FS_Subset DEF Waits
  <2>5. /\ IsFiniteSet(owes') /\ Cardinality(owes') = Cardinality(owes) - 1
        /\ w \in sync.for => Cardinality(rest) = Cardinality(sync.for) - 1
    BY <1>2, <2>3, <2>4, FS_RemoveElement DEF Waits
  <2>6. Cardinality(owes) \in Nat /\ Cardinality(sync.for) \in Nat /\ Cardinality(owes') \in Nat
    BY <2>4, <2>5, FS_CardinalityType DEF Waits
  <2>7. rest # {} /\ ~late => w \in sync.for /\ ~sync.late
    OBVIOUS
  <2>8. /\ count \in Nat /\ sync.lost \in Nat /\ rest \subseteq Window
        /\ count <= Cardinality(owes) - 1 + sync.lost
        /\ count >= sync.count - 1
    BY <2>1, <2>5, <2>6 DEF Waits, Counts
  <2> HIDE DEF late, count
  <2>9. /\ sync' \in Counts /\ sync'.count = count /\ sync'.for = rest
        /\ sync'.late = late /\ sync'.lost = sync.lost
    <3> HIDE DEF rest
    <3> QED
      BY <2>1, <2>3, <2>8 DEF Counts
  <2>10. rest # {} /\ ~late => count >= Cardinality(rest)
    <3>1. sync.count \in Nat
      BY <2>1 DEF Counts
    <3> QED
      BY <2>5, <2>6, <2>7, <2>8, <3>1 DEF Waits
  <2> QED
    BY <2>3, <2>4, <2>5, <2>8, <2>9, <2>10 DEF Waits
<1> QED
  BY <1>1, <1>2

(* The window is gone, and with it the answer.                             *)
LEMMA DestroyWaits ==
  ASSUME Waits(sync, owes), NEW w \in Window, V!Destroy(w)
  PROVE  Waits(sync', owes')
<1> DEFINE lost == IF w \in owes /\ sync.count > 0 THEN sync.lost + 1 ELSE sync.lost
           rest == sync.for \ {w}
<1>1. sync' = [sync EXCEPT !.for = rest, !.lost = lost] /\ owes' = owes \ {w}
  BY DEF V!Destroy
<1>2. sync \in Counts /\ lost \in Nat /\ rest \subseteq owes \ {w} /\ rest \subseteq Window
  BY DEF Waits, Counts
<1>3. IsFiniteSet(sync.for) /\ IsFiniteSet(owes')
  BY <1>1, FS_Subset, FS_RemoveElement DEF Waits
<1>4. /\ Cardinality(rest) <= Cardinality(sync.for) /\ Cardinality(rest) \in Nat
      /\ Cardinality(owes') = IF w \in owes THEN Cardinality(owes) - 1 ELSE Cardinality(owes)
  BY <1>1, <1>3, FS_RemoveElement, FS_Subset, FS_CardinalityType DEF Waits
<1>5. Cardinality(owes') \in Nat /\ Cardinality(owes) \in Nat /\ Cardinality(sync.for) \in Nat
  BY <1>3, FS_CardinalityType DEF Waits
<1>6. sync.count <= Cardinality(owes') + lost
  BY <1>2, <1>4, <1>5 DEF Waits, Counts
<1>7. rest # {} /\ ~sync.late => sync.count >= Cardinality(rest)
  BY <1>2, <1>4, <1>5 DEF Waits, Counts
<1> HIDE DEF lost, rest
<1>8. /\ sync' \in Counts /\ sync'.count = sync.count /\ sync'.for = rest
      /\ sync'.late = sync.late /\ sync'.lost = lost
  BY <1>1, <1>2 DEF Counts
<1> QED
  BY <1>1, <1>2, <1>3, <1>6, <1>7, <1>8 DEF Waits

(***************************************************************************)
(* Sizes                                                                   *)
(***************************************************************************)

(* What is known of a window with the record r in a container as wide as b.*)
(* A tiled client that was never asked has the width of its container.     *)
Agrees(w, r, b) ==
    /\ ~r.astray => r.asked \in {0, b} /\ (r.answered /\ ~r.loose => r.width = b)
    /\ w \notin Floating /\ r.asked = 0 => r.width = b

ResizesInv ==
    /\ ResizesType
    /\ Waits(sync, owes)
    /\ \A w \in Window : state[w] = "mapped" => Agrees(w, client[w], box[w])

LEMMA ResizesImply ==
  ResizesInv => V!FramesWait /\ V!SizesAgree
<1> SUFFICES ASSUME ResizesInv PROVE V!FramesWait /\ V!SizesAgree
  OBVIOUS
<1>1. V!FramesWait
  BY SameCount DEF ResizesInv, Waits, V!FramesWait
<1>2. V!SizesAgree
  BY DEF ResizesInv, Agrees, V!SizesAgree, V!Mapped
<1> QED
  BY <1>1, <1>2

(* What a window has been told agrees with the box it is given.            *)
LEMMA ToldAgrees ==
  ASSUME ResizesAssumption, ResizesType, NEW w \in Window, NEW width \in Int,
         w \in Floating \/ width # 0
  PROVE  \E r \in Clients :
            LET b == IF V!Asks(w, width) THEN V!Clamped(w, width) ELSE width
            IN /\ V!Told(w, width) = [client EXCEPT ![w] = r]
               /\ b \in Int /\ Agrees(w, r, b)
<1>1. client[w] \in Clients /\ DOMAIN client = Window
  BY DEF ResizesType
<1>2. V!Clamped(w, width) \in Int
  BY DEF V!Clamped, V!Larger, ResizesAssumption
<1>3. CASE V!Asks(w, width)
  <2> DEFINE r == [client[w] EXCEPT !.asked = V!Clamped(w, width), !.answered = FALSE,
                                    !.astray = FALSE]
  <2>1. V!Told(w, width) = [client EXCEPT ![w] = r]
    BY <1>3 DEF V!Told
  <2>2. /\ r \in Clients /\ r.asked = V!Clamped(w, width)
        /\ ~r.answered /\ ~r.astray
    BY <1>1, <1>2 DEF Clients
  <2>3. w \notin Floating => V!Clamped(w, width) # 0
    BY DEF V!Clamped
  <2> QED
    BY <1>2, <1>3, <2>1, <2>2, <2>3 DEF Agrees
<1>4. CASE ~V!Asks(w, width)
  <2> DEFINE astray == client[w].asked \notin {0, width}
             r == [client[w] EXCEPT !.astray = astray, !.loose = FALSE]
  <2>1. V!Told(w, width) = [client EXCEPT ![w] = r]
    BY <1>4 DEF V!Told
  <2>2. astray \in BOOLEAN
    OBVIOUS
  <2>3. ~astray => client[w].asked \in {0, width}
    OBVIOUS
  <2> HIDE DEF astray
  <2>4. /\ r \in Clients /\ r.astray = astray /\ ~r.loose
        /\ r.width = client[w].width /\ r.asked = client[w].asked
    BY <1>1, <2>2 DEF Clients
  <2>5. client[w].width = width
    BY <1>4 DEF V!Asks
  <2> HIDE DEF r
  <2>6. Agrees(w, r, width)
    BY <2>3, <2>4, <2>5 DEF Agrees
  <2> QED
    BY <1>4, <2>1, <2>4, <2>6
<1> QED
  BY <1>3, <1>4

(* A window whose answer is awaited anew still agrees.                     *)
LEMMA AwaitedAgrees ==
  ASSUME NEW w, NEW r \in Clients, NEW b, Agrees(w, r, b)
  PROVE  LET q == [r EXCEPT !.answered = FALSE]
         IN q \in Clients /\ Agrees(w, q, b)
BY DEF Agrees, Clients

(* Changing what is known of one window.                                   *)
LEMMA OneChanges ==
  ASSUME ResizesInv, NEW w \in Window, NEW r \in Clients, NEW b \in Int,
         client' = [client EXCEPT ![w] = r], box' = [box EXCEPT ![w] = b],
         state' \in [Window -> {"unmapped", "mapped", "gone"}],
         \A v \in Window : v # w => state'[v] = state[v],
         state'[w] = "mapped" => Agrees(w, r, b)
  PROVE  /\ client' \in [Window -> Clients] /\ box' \in [Window -> Int]
         /\ \A v \in Window : state'[v] = "mapped" => Agrees(v, client'[v], box'[v])
<1>1. client' \in [Window -> Clients] /\ box' \in [Window -> Int]
  BY DEF ResizesInv, ResizesType
<1>2. /\ client'[w] = r /\ box'[w] = b
      /\ \A v \in Window : v # w => client'[v] = client[v] /\ box'[v] = box[v]
  BY DEF ResizesInv, ResizesType
<1>3. ASSUME NEW v \in Window, state'[v] = "mapped"
      PROVE  Agrees(v, client'[v], box'[v])
  BY <1>2, <1>3 DEF ResizesInv
<1> QED
  BY <1>1, <1>3

LEMMA ResizesStart == ResizesAssumption /\ V!ResizeInit => ResizesInv
<1> SUFFICES ASSUME ResizesAssumption, V!ResizeInit PROVE ResizesInv
  OBVIOUS
<1>1. Waits(sync, owes)
  BY GivenUpWaits, FS_EmptySet DEF V!ResizeInit
<1>2. ResizesType /\ \A w \in Window : state[w] # "mapped"
  BY DEF V!ResizeInit, ResizesType, Clients, V!Fresh, V!NoDrag
<1> QED
  BY <1>1, <1>2 DEF ResizesInv

LEMMA ResizesStutter == ResizesInv /\ UNCHANGED V!resizeVars => ResizesInv'
BY DEF V!resizeVars, ResizesInv, ResizesType, Waits, Agrees, V!Mapped

(* A window is given a size: by a layout, by the pointer, by its release.  *)
LEMMA SetSizeKeeps ==
  ASSUME ResizesAssumption, ResizesInv, NEW w \in Window, NEW width \in Int,
         w \in Floating \/ width # 0, NEW s, Waits(s, owes),
         \/ client' = V!Told(w, width)
         \/ client' = [V!Told(w, width) EXCEPT ![w].answered = FALSE],
         V!SetSize(w, width, s), UNCHANGED state,
         drag' \in [window : Window \cup {None}, pending : Int, stale : BOOLEAN]
  PROVE  ResizesInv'
<1> DEFINE b == IF V!Asks(w, width) THEN V!Clamped(w, width) ELSE width
<1>1. PICK r \in Clients : /\ V!Told(w, width) = [client EXCEPT ![w] = r]
                           /\ b \in Int /\ Agrees(w, r, b)
  BY ToldAgrees DEF ResizesInv
<1>2. box' = [box EXCEPT ![w] = b]
  BY DEF V!SetSize
<1> HIDE DEF b
<1>3. \E q \in Clients : client' = [client EXCEPT ![w] = q] /\ Agrees(w, q, b)
  <2>1. CASE client' = V!Told(w, width)
    BY <1>1, <2>1
  <2>2. CASE client' = [V!Told(w, width) EXCEPT ![w].answered = FALSE]
    <3> DEFINE q == [r EXCEPT !.answered = FALSE]
    <3>1. q \in Clients /\ Agrees(w, q, b)
      BY <1>1, AwaitedAgrees
    <3>2. [client EXCEPT ![w] = r][w] = r
      BY DEF ResizesInv, ResizesType
    <3>3. client' = [[client EXCEPT ![w] = r] EXCEPT ![w] = q]
      BY <1>1, <2>2, <3>2
    <3> HIDE DEF q
    <3>4. client' = [client EXCEPT ![w] = q]
      BY <3>3 DEF ResizesInv, ResizesType
    <3> QED
      BY <3>1, <3>4
  <2> QED
    BY <2>1, <2>2
<1>4. PICK q \in Clients : client' = [client EXCEPT ![w] = q] /\ Agrees(w, q, b)
  BY <1>3
<1>5. Waits(sync', owes')
  BY OwedWaits DEF V!SetSize
<1>6. state' = state /\ state \in [Window -> {"unmapped", "mapped", "gone"}]
  BY DEF ResizesInv, ResizesType
<1>a. /\ b \in Int /\ client' = [client EXCEPT ![w] = q] /\ box' = [box EXCEPT ![w] = b]
      /\ state' \in [Window -> {"unmapped", "mapped", "gone"}]
      /\ \A v \in Window : v # w => state'[v] = state[v]
      /\ state'[w] = "mapped" => Agrees(w, q, b)
  BY <1>1, <1>2, <1>4, <1>6
<1>7. /\ client' \in [Window -> Clients] /\ box' \in [Window -> Int]
      /\ \A v \in Window : state'[v] = "mapped" => Agrees(v, client'[v], box'[v])
  BY <1>a, OneChanges
<1> QED
  BY <1>5, <1>6, <1>7 DEF ResizesInv, ResizesType

(* Answers stay away, or none is awaited any more, and nothing else.       *)
LEMMA OthersKeep ==
  ASSUME ResizesInv, Waits(sync', owes'), UNCHANGED <<state, box>>,
         \/ UNCHANGED client
         \/ \E w \in Window : client' = [client EXCEPT ![w].answered = FALSE],
         drag' \in [window : Window \cup {None}, pending : Int, stale : BOOLEAN]
  PROVE  ResizesInv'
<1>1. CASE UNCHANGED client
  BY <1>1 DEF ResizesInv, ResizesType, Agrees
<1>2. ASSUME NEW w \in Window, client' = [client EXCEPT ![w].answered = FALSE]
      PROVE  ResizesInv'
  <2> DEFINE q == [client[w] EXCEPT !.answered = FALSE]
  <2>1. client[w] \in Clients /\ box[w] \in Int
    BY DEF ResizesInv, ResizesType
  <2>2. q \in Clients
    BY <2>1 DEF Clients
  <2>3. state[w] = "mapped" => Agrees(w, q, box[w])
    BY <2>1, AwaitedAgrees DEF ResizesInv
  <2>4. client' = [client EXCEPT ![w] = q] /\ box' = [box EXCEPT ![w] = box[w]]
    BY <1>2 DEF ResizesInv, ResizesType
  <2> HIDE DEF q
  <2>5. /\ client' \in [Window -> Clients] /\ box' \in [Window -> Int]
        /\ \A v \in Window : state'[v] = "mapped" => Agrees(v, client'[v], box'[v])
    BY <2>1, <2>2, <2>3, <2>4, OneChanges DEF ResizesInv, ResizesType
  <2> QED
    BY <2>5 DEF ResizesInv, ResizesType
<1> QED
  BY <1>1, <1>2

LEMMA CommitKeeps ==
  ASSUME ResizesAssumption, ResizesInv, NEW w \in Window, NEW last \in BOOLEAN,
         NEW width \in Width[w], V!Commit(w, width, last)
  PROVE  ResizesInv'
<1> DEFINE c == client[w]
           resizing == IF last THEN drag.window = w /\ w \in Floating ELSE c.resizing
           follows == w \in Floating /\ width # c.width /\ ~resizing
           answered == c.answered \/ last
           astray == IF follows THEN c.asked \notin {0, width} ELSE c.astray
           loose == w \in Floating /\ ~follows /\ width # box[w]
           r == [width |-> width, asked |-> c.asked, resizing |-> resizing,
                 answered |-> answered, astray |-> astray, loose |-> loose]
           b == IF follows THEN width ELSE box[w]
<1>1. /\ w \in V!Mapped
      /\ w \in Floating \/ ~c.answered
      /\ w \notin Floating /\ c.asked = 0 => width = c.width
      /\ w \notin Floating /\ c.asked # 0 /\ last => width = c.asked
      /\ IF last THEN V!Answered(w) ELSE UNCHANGED <<owes, sync>>
      /\ box' = IF follows THEN [box EXCEPT ![w] = width] ELSE box
      /\ client' = [client EXCEPT ![w] = r]
      /\ UNCHANGED <<state, shown, drag, waiting>>
  BY Zenon DEF V!Commit
<1>2. c \in Clients /\ box[w] \in Int /\ width \in Int /\ Agrees(w, c, box[w])
  BY <1>1 DEF ResizesInv, ResizesType, ResizesAssumption, V!Mapped
<1>3. {resizing, follows, answered, astray, loose} \subseteq BOOLEAN
  BY <1>2 DEF Clients
<1>4. box' = [box EXCEPT ![w] = b]
  BY <1>1 DEF ResizesInv, ResizesType
<1>5. /\ follows => astray = (c.asked \notin {0, width}) /\ ~loose /\ w \in Floating
      /\ ~follows => astray = c.astray
      /\ ~follows /\ w \in Floating /\ ~loose => width = box[w]
      /\ w \notin Floating => ~loose /\ ~follows
      /\ w \notin Floating /\ answered => last
  BY <1>1
<1> HIDE DEF resizing, answered, astray, loose, follows
<1>6. b \in Int /\ r \in Clients
  BY <1>2, <1>3 DEF Clients
<1>7. Agrees(w, r, b)
  <2>1. ~astray => c.asked \in {0, b}
    BY <1>2, <1>5 DEF Agrees
  <2>2. ~astray /\ answered /\ ~loose => width = b
    BY <1>1, <1>2, <1>5 DEF Agrees
  <2>3. w \notin Floating /\ c.asked = 0 => width = b
    BY <1>1, <1>2, <1>5 DEF Agrees
  <2> QED
    BY <2>1, <2>2, <2>3 DEF Agrees
<1> HIDE DEF r, b
<1>8. Waits(sync', owes')
  BY <1>1, AnsweredWaits DEF ResizesInv
<1>9. state' = state /\ drag' = drag
  BY <1>1
<1>10. /\ client' \in [Window -> Clients] /\ box' \in [Window -> Int]
       /\ \A v \in Window : state'[v] = "mapped" => Agrees(v, client'[v], box'[v])
  BY <1>1, <1>4, <1>6, <1>7, <1>9, OneChanges DEF ResizesInv, ResizesType
<1> QED
  BY <1>8, <1>9, <1>10 DEF ResizesInv, ResizesType

LEMMA ResizesStep == ResizesAssumption /\ ResizesInv /\ V!ResizeNext => ResizesInv'
<1> SUFFICES ASSUME ResizesAssumption, ResizesInv, V!ResizeNext PROVE ResizesInv'
  OBVIOUS
<1>d. /\ drag \in [window : Window \cup {None}, pending : Int, stale : BOOLEAN]
      /\ V!NoDrag \in [window : Window \cup {None}, pending : Int, stale : BOOLEAN]
      /\ \A w \in Window : box[w] \in Int /\ Width[w] \subseteq Nat \ {0}
  BY DEF ResizesInv, ResizesType, V!NoDrag, ResizesAssumption
<1>g. Waits(sync, owes) /\ Waits(V!GivenUp, owes)
  BY GivenUpWaits DEF ResizesInv, Waits
<1>1. ASSUME NEW w \in Window, NEW width \in Width[w], V!Resize(w, width)
      PROVE  ResizesInv'
  BY <1>1, <1>d, <1>g, SetSizeKeeps DEF V!Resize
<1>2. ASSUME NEW w \in Window, NEW width \in Width[w], V!Map(w, width)
      PROVE  ResizesInv'
  <2> DEFINE r == V!Fresh(width)
  <2>1. width \in Int /\ r \in Clients /\ Agrees(w, r, width)
    BY <1>d DEF V!Fresh, Clients, Agrees
  <2>2. /\ state' \in [Window -> {"unmapped", "mapped", "gone"}]
        /\ \A v \in Window : v # w => state'[v] = state[v]
    BY <1>2 DEF V!Map, ResizesInv, ResizesType
  <2>3. client' = [client EXCEPT ![w] = r] /\ box' = [box EXCEPT ![w] = width]
    BY <1>2 DEF V!Map
  <2> HIDE DEF r
  <2>4. /\ client' \in [Window -> Clients] /\ box' \in [Window -> Int]
        /\ \A v \in Window : state'[v] = "mapped" => Agrees(v, client'[v], box'[v])
    BY <2>1, <2>2, <2>3, OneChanges
  <2>5. Waits(sync', owes') /\ drag' = drag
    BY <1>2, <1>g, AnsweredWaits DEF V!Map
  <2> QED
    BY <1>d, <2>2, <2>4, <2>5 DEF ResizesInv, ResizesType
<1>3. ASSUME NEW w \in Window, NEW last \in BOOLEAN, NEW width \in Width[w],
             V!Commit(w, width, last)
      PROVE  ResizesInv'
  BY <1>3, CommitKeeps
<1>4. ASSUME NEW w \in Window, V!Unmap(w) PROVE ResizesInv'
  <2> DEFINE r == V!Fresh(0)
  <2>1. 0 \in Int /\ r \in Clients
    BY DEF V!Fresh, Clients
  <2>2. /\ state' \in [Window -> {"unmapped", "mapped", "gone"}]
        /\ state'[w] = "unmapped"
        /\ \A v \in Window : v # w => state'[v] = state[v]
    BY <1>4 DEF V!Unmap, ResizesInv, ResizesType
  <2>3. client' = [client EXCEPT ![w] = r] /\ box' = [box EXCEPT ![w] = 0]
    BY <1>4 DEF V!Unmap
  <2> HIDE DEF r
  <2>4. /\ client' \in [Window -> Clients] /\ box' \in [Window -> Int]
        /\ \A v \in Window : state'[v] = "mapped" => Agrees(v, client'[v], box'[v])
    BY <2>1, <2>2, <2>3, OneChanges
  <2>5. Waits(sync', owes')
    <3>1. CASE V!Owed(w, drag.pending, sync)
      BY <1>g, <3>1, OwedWaits
    <3>2. CASE UNCHANGED <<owes, sync>>
      BY <1>g, <3>2
    <3> QED
      BY <1>4, <3>1, <3>2 DEF V!Unmap
  <2>6. drag' \in [window : Window \cup {None}, pending : Int, stale : BOOLEAN]
    BY <1>4, <1>d DEF V!Unmap
  <2> QED
    BY <2>2, <2>4, <2>5, <2>6 DEF ResizesInv, ResizesType
<1>5. ASSUME NEW w \in Window, V!Destroy(w) PROVE ResizesInv'
  <2>1. /\ state' \in [Window -> {"unmapped", "mapped", "gone"}]
        /\ \A v \in Window : state'[v] = "mapped" => state[v] = "mapped"
        /\ UNCHANGED <<client, box, drag>>
    BY <1>5 DEF V!Destroy, ResizesInv, ResizesType
  <2>2. Waits(sync', owes')
    BY <1>5, <1>g, DestroyWaits
  <2> QED
    BY <2>1, <2>2 DEF ResizesInv, ResizesType
<1>6. ASSUME NEW w \in Window, V!Hide(w) PROVE ResizesInv'
  <2>1. UNCHANGED <<state, client, owes, box, drag, sync>>
    BY <1>6 DEF V!Hide
  <2> QED
    BY <2>1 DEF ResizesInv, ResizesType, Waits, Agrees
<1>7. ASSUME NEW w \in Window, NEW due \in BOOLEAN, V!Start(w, due) PROVE ResizesInv'
  <2>1. drag' \in [window : Window \cup {None}, pending : Int, stale : BOOLEAN]
    <3>1. \E p \in {box[w], 0} : drag' = [window |-> w, pending |-> p, stale |-> FALSE]
      BY <1>7 DEF V!Start, V!NoDrag
    <3>2. {box[w], 0} \subseteq Int
      BY <1>d
    <3>3. PICK p \in {box[w], 0} : drag' = [window |-> w, pending |-> p, stale |-> FALSE]
      BY <3>1
    <3> QED
      BY <3>2, <3>3
  <2>2. CASE due /\ w \in Floating
    <3>1. /\ client' = [V!Told(w, box[w]) EXCEPT ![w].answered = FALSE]
          /\ V!SetSize(w, box[w], sync) /\ state' = state
      BY <1>7, <2>2 DEF V!Start
    <3> QED
      BY <1>d, <1>g, <2>1, <2>2, <3>1, SetSizeKeeps
  <2>3. CASE ~(due /\ w \in Floating)
    <3>1. /\ client' = [client EXCEPT ![w].answered = FALSE]
          /\ UNCHANGED <<state, box, owes, sync>>
      BY <1>7, <2>3 DEF V!Start
    <3> QED
      BY <1>g, <2>1, <3>1, OthersKeep
  <2> QED
    BY <2>2, <2>3
<1>8. ASSUME NEW w \in {drag.window} \cap Window, NEW due \in BOOLEAN,
             NEW width \in Width[w], V!Motion(width, due)
      PROVE  ResizesInv'
  <2>1. w = drag.window /\ w \in Window /\ w \in Floating /\ width \in Int /\ state' = state
    BY <1>8, <1>d DEF V!Motion
  <2>2. CASE due
    <3> DEFINE stale == width # drag.pending
    <3>1. /\ client' = V!Told(w, width) /\ V!SetSize(w, width, V!GivenUp)
          /\ drag' = [drag EXCEPT !.stale = stale]
      BY <1>8, <2>1, <2>2 DEF V!Motion
    <3>2. stale \in BOOLEAN
      OBVIOUS
    <3> HIDE DEF stale
    <3>3. drag' \in [window : Window \cup {None}, pending : Int, stale : BOOLEAN]
      BY <1>d, <3>1, <3>2
    <3> QED
      BY <1>g, <2>1, <3>1, <3>3, SetSizeKeeps
  <2>3. CASE ~due
    <3>1. /\ drag' = [drag EXCEPT !.pending = width, !.stale = FALSE]
          /\ sync' = V!GivenUp /\ UNCHANGED <<client, owes, box>>
      BY <1>8, <2>1, <2>3 DEF V!Motion
    <3>2. drag' \in [window : Window \cup {None}, pending : Int, stale : BOOLEAN]
      BY <1>d, <2>1, <3>1
    <3>3. Waits(sync', owes')
      BY <1>g, <3>1
    <3> QED
      BY <2>1, <3>1, <3>2, <3>3, OthersKeep
  <2> QED
    BY <2>2, <2>3
<1>9. CASE V!MotionTiled
  <2>1. /\ UNCHANGED <<state, client, owes, box, drag>> /\ sync' = V!GivenUp
    BY <1>9 DEF V!MotionTiled
  <2>2. Waits(sync', owes')
    BY <1>g, <2>1
  <2> QED
    BY <1>d, <2>1, <2>2, OthersKeep
<1>10. CASE V!Stop
  <2> DEFINE w == drag.window
  <2>1. w \in Window /\ drag' = V!NoDrag /\ state' = state
    BY <1>10, <1>d DEF V!Stop
  <2>2. CASE w \in Floating
    <3>1. /\ client' = [V!Told(w, drag.pending) EXCEPT ![w].answered = FALSE]
          /\ V!SetSize(w, drag.pending, sync)
      BY <1>10, <2>2 DEF V!Stop
    <3>2. drag.pending \in Int
      BY <1>d
    <3> HIDE DEF w
    <3> QED
      BY <1>d, <1>g, <2>1, <2>2, <3>1, <3>2, SetSizeKeeps
  <2>3. CASE w \notin Floating
    <3>1. /\ client' = [client EXCEPT ![w].answered = FALSE]
          /\ UNCHANGED <<owes, box, sync>>
      BY <1>10, <2>3 DEF V!Stop, V!Released
    <3> HIDE DEF w
    <3> QED
      BY <1>d, <1>g, <2>1, <3>1, OthersKeep
  <2> QED
    BY <2>2, <2>3
<1>11. ASSUME NEW o \in Monitor, NEW over \in BOOLEAN, V!Frame(o, over)
       PROVE  ResizesInv'
  <2>1. /\ UNCHANGED <<state, client, owes, box, drag>>
        /\ sync' = V!GivenUp \/ sync' = sync
    BY <1>11 DEF V!Frame
  <2>2. Waits(sync', owes')
    BY <1>g, <2>1
  <2> QED
    BY <1>d, <2>1, <2>2, OthersKeep
<1> QED
  BY <1>1, <1>2, <1>3, <1>4, <1>5, <1>6, <1>7, <1>8, <1>9, <1>10, <1>11 DEF V!ResizeNext

(***************************************************************************)
(* The image of the pointer                                                *)
(***************************************************************************)

CONSTANTS Pointed, Image, Shape, Themed, Animated

VARIABLES theme, cursor, hovered, living, wanted, lost

C == INSTANCE Pointer WITH Window <- Pointed, focus <- hovered, asked <- wanted

Names == Shape \cup {"default", "grabbing", "resize"}

(* NULL, the names of images and the surfaces of clients are told apart.   *)
PointerAssumption == None \notin Names \cup Image /\ Names \cap Image = {}

Cursor == [dragging : BOOLEAN, hidden : BOOLEAN, name : Names \cup {None},
           beforeHidden : Names \cup {None}, beforeDrag : Names \cup {None},
           client : Image \cup {None}, watched : Image \cup {None},
           image : Names \cup Image \cup {None}, frames : Names \cup {None},
           ticking : BOOLEAN]

(* The name that comes back after a moving, after hiding, or is shown.       *)
Owed(c) == IF c.dragging THEN c.beforeDrag ELSE IF c.hidden THEN c.beforeHidden ELSE c.name

(***************************************************************************)
(* What makes CursorFollows inductive, of the cursor c while a is what was *)
(* wanted for and l are the living surfaces: the image that will be seen is *)
(* the name that is owed or else the surface of the client, which is       *)
(* listened to, except one that was set while the pointer was hidden.      *)
(***************************************************************************)
SoundImage(c) ==
    /\ c.hidden => ~c.dragging /\ c.name = None
    /\ ~c.hidden => c.beforeHidden = None
    /\ c.name # None => c.image = c.name /\ c.frames \in {None, c.name}

KeptImage(c, a, l) ==
    /\ c.hidden => c.image = None
    /\ ~c.hidden /\ ~c.dragging => c.image = a
    /\ Owed(c) # None => a = Owed(c)
    /\ Owed(c) = None =>
          \/ a = c.client /\ (c.client # None /\ ~c.hidden => c.watched = c.client)
          \/ c.hidden /\ c.client \notin l /\ c.client # None

Good(c, a, l) == SoundImage(c) /\ (~theme => KeptImage(c, a, l))

PointerType ==
    /\ theme \in BOOLEAN
    /\ cursor \in Cursor
    /\ living \subseteq Image
    /\ wanted \in Names \cup Image \cup {None}
    /\ lost \in BOOLEAN
    /\ ~theme => cursor.frames = None

PointerInv == PointerType /\ (~lost => Good(cursor, wanted, living))

LEMMA PointerImplies == PointerInv => C!CursorFollows
BY DEF PointerInv, C!CursorFollows, Good, SoundImage, KeptImage

LEMMA PointerStart == PointerAssumption /\ C!PointerInit => PointerInv
<1> SUFFICES ASSUME PointerAssumption, C!PointerInit PROVE PointerInv
  OBVIOUS
<1>1. cursor \in Cursor
  BY DEF C!PointerInit, Cursor
<1>2. Good(cursor, wanted, living)
  BY DEF PointerAssumption, C!PointerInit, Good, SoundImage, KeptImage, Owed
<1> QED
  BY <1>1, <1>2 DEF C!PointerInit, PointerInv, PointerType

LEMMA PointerStutter == PointerInv /\ UNCHANGED C!pointerVars => PointerInv'
BY DEF PointerInv, PointerType, C!pointerVars, Good, SoundImage, KeptImage, Owed

(* The functions of cursor.c, field by field.                              *)
SameHidden(r, c) == r.dragging = c.dragging /\ r.hidden = c.hidden /\ r.beforeDrag = c.beforeDrag

LEMMA HideFields ==
  ASSUME PointerAssumption, NEW c \in Cursor
  PROVE  /\ C!HideCursor(c) \in Cursor
         /\ c.dragging => C!HideCursor(c) = c
         /\ ~c.dragging =>
              /\ SameHidden(C!HideCursor(c), c)
              /\ C!HideCursor(c).name = None /\ C!HideCursor(c).image = None
              /\ C!HideCursor(c).client = c.client /\ C!HideCursor(c).watched = c.watched
              /\ C!HideCursor(c).beforeHidden = c.beforeHidden
              /\ C!HideCursor(c).frames = c.frames
BY DEF PointerAssumption, C!HideCursor, Cursor, SameHidden

LEMMA StyleFields ==
  ASSUME PointerAssumption, NEW c \in Cursor
  PROVE  /\ ~theme => C!ChangeStyle(c) = c
         /\ C!ChangeStyle(c) \in Cursor /\ SameHidden(C!ChangeStyle(c), c)
         /\ theme => C!ChangeStyle(c).name = None /\ C!ChangeStyle(c).frames = None
<1>1. CASE ~theme
  BY <1>1 DEF C!ChangeStyle, SameHidden
<1>2. CASE theme
  <2> DEFINE r == [c EXCEPT !.name = None, !.frames = None]
  <2>1. r \in Cursor /\ r.name = None /\ r.frames = None
    BY DEF Cursor
  <2>2. r.dragging = c.dragging /\ r.hidden = c.hidden /\ r.beforeDrag = c.beforeDrag
    BY DEF Cursor
  <2>3. C!ChangeStyle(c) = r
    BY <1>2 DEF C!ChangeStyle
  <2> HIDE DEF r
  <2> QED
    BY <1>2, <2>1, <2>2, <2>3 DEF SameHidden
<1> QED
  BY <1>1, <1>2

LEMMA LoadFields ==
  ASSUME PointerAssumption, NEW c \in Cursor, NEW n \in Names
  PROVE  LET r == C!Load(c, n)
         IN  /\ r \in Cursor /\ SameHidden(r, c)
             /\ r.name = n /\ r.image = n /\ r.beforeHidden = None
             /\ r.client = c.client /\ r.watched = c.watched
             /\ r.frames \in {None, n} /\ (~theme => r.frames = None)
<1> DEFINE animated == n \in Animated
<1>1. animated \in BOOLEAN
  OBVIOUS
<1>2. CASE theme /\ n \in Themed
  <2>1. C!Load(c, n) = [c EXCEPT !.name = n, !.beforeHidden = None, !.image = n,
                                 !.frames = n, !.ticking = animated]
    BY <1>2 DEF C!Load, Cursor
  <2> HIDE DEF animated
  <2> QED
    BY <1>1, <1>2, <2>1 DEF Cursor, SameHidden, Names
<1>3. CASE ~(theme /\ n \in Themed)
  <2>1. C!Load(c, n) = [c EXCEPT !.name = n, !.beforeHidden = None, !.image = n,
                                 !.frames = None]
    BY <1>3 DEF C!Load, Cursor
  <2> QED
    BY <2>1 DEF Cursor, SameHidden, Names
<1> QED
  BY <1>2, <1>3

LEMMA NameFields ==
  ASSUME PointerAssumption, NEW c \in Cursor, NEW n \in Names
  PROVE  LET r == C!SetImageByName(c, n)
         IN  /\ r \in Cursor /\ SameHidden(r, c)
             /\ c.dragging \/ (~c.hidden /\ n = c.name) => r = c
             /\ ~c.dragging /\ c.hidden =>
                  /\ r.beforeHidden = n /\ r.client = None /\ r.watched = c.watched
                  /\ r.name = c.name /\ r.image = c.image /\ r.frames = c.frames
             /\ ~c.dragging /\ ~c.hidden /\ n # c.name =>
                  /\ r.name = n /\ r.image = n /\ r.beforeHidden = None
                  /\ r.client = c.client /\ r.watched = c.watched
                  /\ r.frames \in {None, n} /\ (~theme => r.frames = None)
<1>0. n # None
  BY DEF PointerAssumption
<1>1. CASE c.dragging
  BY <1>1 DEF C!SetImageByName, SameHidden
<1>2. CASE ~c.dragging /\ c.hidden
  <2>1. C!SetImageByName(c, n) = [c EXCEPT !.beforeHidden = n, !.client = None]
    BY <1>2 DEF C!SetImageByName
  <2> QED
    BY <1>2, <2>1 DEF Cursor, SameHidden
<1>3. CASE ~c.dragging /\ ~c.hidden /\ n = c.name
  BY <1>0, <1>3 DEF C!SetImageByName, SameHidden
<1>4. CASE ~c.dragging /\ ~c.hidden /\ n # c.name
  <2>1. C!SetImageByName(c, n) = C!Load(c, n)
    BY <1>0, <1>4 DEF C!SetImageByName
  <2> QED
    BY <1>4, <2>1, LoadFields
<1> QED
  BY <1>1, <1>2, <1>3, <1>4 DEF Cursor

LEMMA SurfaceFields ==
  ASSUME PointerAssumption, NEW c \in Cursor, NEW s \in Image \cup {None}
  PROVE  LET r == C!SetSurface(c, s)
         IN  /\ r \in Cursor /\ SameHidden(r, c) /\ r.frames = c.frames
             /\ c.dragging => r = c
             /\ ~c.dragging /\ c.hidden =>
                  /\ r.beforeHidden = None /\ r.client = s /\ r.watched = c.watched
                  /\ r.name = c.name /\ r.image = c.image
             /\ ~c.dragging /\ ~c.hidden =>
                  /\ r.name = None /\ r.image = s /\ r.beforeHidden = c.beforeHidden
                  /\ r.client = s /\ r.watched = s
<1>0. c.dragging \in BOOLEAN /\ c.hidden \in BOOLEAN
  BY DEF Cursor
<1>1. CASE c.dragging
  BY <1>1 DEF C!SetSurface, SameHidden
<1>2. CASE ~c.dragging /\ c.hidden
  <2>1. C!SetSurface(c, s) = [c EXCEPT !.client = s, !.beforeHidden = None]
    BY <1>2 DEF C!SetSurface
  <2> QED
    BY <1>2, <2>1 DEF Cursor, SameHidden
<1>3. CASE ~c.dragging /\ ~c.hidden
  <2> DEFINE r == [c EXCEPT !.client = s, !.watched = s, !.name = None, !.image = s]
  <2>1. C!SetSurface(c, s) = r
    BY <1>3 DEF C!SetSurface
  <2>2. r \in Cursor /\ r.client = s /\ r.watched = s /\ r.name = None /\ r.image = s
    BY DEF Cursor
  <2>3. /\ r.frames = c.frames /\ r.beforeHidden = c.beforeHidden /\ r.dragging = c.dragging
        /\ r.hidden = c.hidden /\ r.beforeDrag = c.beforeDrag
    BY DEF Cursor
  <2> HIDE DEF r
  <2> QED
    BY <1>3, <2>1, <2>2, <2>3 DEF SameHidden
<1> QED
  BY <1>0, <1>1, <1>2, <1>3

(* A cursor that is not dragged with is sound once it is wanted for a name, *)
(* or for a surface.                                                       *)
LEMMA NameGood ==
  ASSUME PointerAssumption, theme \in BOOLEAN, NEW c \in Cursor, NEW n \in Names,
         NEW a, NEW l, ~c.dragging, ~theme => c.frames = None,
         Good(c, a, l) \/ (~c.hidden /\ c.name # n)
  PROVE  /\ Good(C!SetImageByName(c, n), n, l)
         /\ ~theme => C!SetImageByName(c, n).frames = None
<1> PICK r : r = C!SetImageByName(c, n)
  OBVIOUS
<1>0. n # None
  BY DEF PointerAssumption
<1>1. CASE c.hidden
  BY <1>0, <1>1, NameFields DEF Good, SoundImage, KeptImage, Owed, SameHidden
<1>2. CASE ~c.hidden /\ n = c.name
  BY <1>0, <1>2, NameFields DEF Good, SoundImage, KeptImage, Owed, SameHidden
<1>3. CASE ~c.hidden /\ n # c.name
  BY <1>0, <1>3, NameFields DEF Good, SoundImage, KeptImage, Owed, SameHidden
<1> QED
  BY <1>1, <1>2, <1>3

LEMMA SurfaceGood ==
  ASSUME PointerAssumption, theme \in BOOLEAN, NEW c \in Cursor, NEW s \in Image \cup {None},
         NEW a, NEW l, ~c.dragging, ~theme => c.frames = None,
         Good(c, a, l) \/ (~c.hidden /\ c.beforeHidden = None)
  PROVE  /\ Good(C!SetSurface(c, s), s, l)
         /\ ~theme => C!SetSurface(c, s).frames = None
<1>1. CASE c.hidden
  BY <1>1, SurfaceFields DEF Good, SoundImage, KeptImage, Owed, SameHidden
<1>2. CASE ~c.hidden
  BY <1>2, SurfaceFields DEF Good, SoundImage, KeptImage, Owed, SameHidden
<1> QED
  BY <1>1, <1>2

(* What is shown again was wanted for.                                      *)
LEMMA UnhideGood ==
  ASSUME PointerAssumption, theme \in BOOLEAN, NEW c \in Cursor,
         NEW a, ~theme => c.frames = None, C!Followed(c)
  PROVE  /\ C!Unhide(c) \in Cursor
         /\ C!Unhide(c).dragging = c.dragging
         /\ ~theme => C!Unhide(c).frames = None
         /\ Good(c, a, living) => Good(C!Unhide(c), a, living)
         /\ ~c.hidden => C!Unhide(c) = c
<1>0. CASE ~c.hidden
  BY <1>0 DEF C!Unhide
<1> SUFFICES ASSUME c.hidden PROVE
         /\ C!Unhide(c) \in Cursor
         /\ C!Unhide(c).dragging = c.dragging
         /\ ~theme => C!Unhide(c).frames = None
         /\ Good(c, a, living) => Good(C!Unhide(c), a, living)
  BY <1>0
<1> DEFINE e == [c EXCEPT !.hidden = FALSE]
<1>1. /\ e \in Cursor /\ ~e.hidden /\ e.dragging = c.dragging /\ e.name = c.name
      /\ e.beforeHidden = c.beforeHidden /\ e.client = c.client /\ e.watched = c.watched
      /\ e.image = c.image /\ e.frames = c.frames
  <2>1. e \in Cursor /\ ~e.hidden
    BY DEF Cursor
  <2>2. e.dragging = c.dragging /\ e.name = c.name /\ e.beforeHidden = c.beforeHidden
    BY DEF Cursor
  <2>3. e.client = c.client /\ e.watched = c.watched /\ e.image = c.image /\ e.frames = c.frames
    BY DEF Cursor
  <2> QED
    BY <2>1, <2>2, <2>3
<1>d. C!Unhide(c) = CASE c.beforeHidden # None -> C!SetImageByName(e, c.beforeHidden)
                      [] c.beforeHidden = None /\ c.client # None -> C!SetSurface(e, c.client)
                      [] OTHER -> e
  BY DEF C!Unhide
<1> HIDE DEF e
<1> PICK b : b = e
  OBVIOUS
<1>2. CASE c.beforeHidden # None
  <2>1. C!Unhide(c) = C!SetImageByName(b, c.beforeHidden) /\ c.beforeHidden \in Names
    BY <1>2, <1>d DEF Cursor
  <2>2. /\ C!Unhide(c) \in Cursor /\ SameHidden(C!Unhide(c), b)
        /\ ~theme => C!Unhide(c).frames = None
    BY <1>1, <2>1, NameFields
  <2>3. ASSUME Good(c, a, living) PROVE Good(C!Unhide(c), a, living)
    <3>1. ~b.dragging /\ ~b.hidden /\ b.name = None
      BY <1>1, <2>3 DEF Good, SoundImage
    <3>2. Good(C!Unhide(c), c.beforeHidden, living)
      BY <1>1, <2>1, <3>1, NameGood DEF PointerAssumption
    <3>3. theme \/ a = c.beforeHidden
      BY <1>2, <2>3, <3>1, <1>1 DEF Good, KeptImage, Owed
    <3> QED
      BY <3>2, <3>3 DEF Good
  <2> QED
    BY <1>1, <2>2, <2>3 DEF SameHidden
<1>3. CASE c.beforeHidden = None /\ c.client # None
  <2>1. C!Unhide(c) = C!SetSurface(b, c.client) /\ c.client \in Image \cup {None}
    BY <1>3, <1>d DEF Cursor
  <2>2. /\ C!Unhide(c) \in Cursor /\ SameHidden(C!Unhide(c), b)
        /\ ~theme => C!Unhide(c).frames = None
    BY <1>1, <2>1, SurfaceFields
  <2>3. ASSUME Good(c, a, living) PROVE Good(C!Unhide(c), a, living)
    <3>1. ~b.dragging /\ ~b.hidden /\ b.beforeHidden = None
      BY <1>1, <1>3, <2>3 DEF Good, SoundImage
    <3>2. Good(C!Unhide(c), c.client, living)
      BY <1>1, <2>1, <3>1, SurfaceGood
    <3>3. theme \/ a = c.client
      BY <1>3, <2>3, <3>1, <1>1 DEF Good, SoundImage, KeptImage, Owed, C!Followed
    <3> QED
      BY <3>2, <3>3 DEF Good
  <2> QED
    BY <1>1, <2>2, <2>3 DEF SameHidden
<1>4. CASE c.beforeHidden = None /\ c.client = None
  <2>1. C!Unhide(c) = b
    BY <1>4, <1>d
  <2> QED
    BY <1>1, <1>4, <2>1 DEF Good, SoundImage, KeptImage, Owed
<1> QED
  BY <1>2, <1>3, <1>4

LEMMA MotionKeeps ==
  ASSUME PointerAssumption, PointerInv, NEW over, C!Motion(over) PROVE PointerInv'
<1> PICK c : c = cursor
  OBVIOUS
<1> PICK a : a = wanted
  OBVIOUS
<1>0. /\ c \in Cursor /\ theme \in BOOLEAN /\ (~theme => c.frames = None)
      /\ a \in Names \cup Image \cup {None} /\ lost \in BOOLEAN
      /\ C!Followed(c) /\ UNCHANGED <<theme, living>>
      /\ ~lost => Good(c, a, living)
      /\ "default" \in Names
  BY DEF PointerInv, PointerType, C!Motion, Names
<1> PICK r : r = C!Unhide(c)
  OBVIOUS
<1>1. /\ r \in Cursor /\ r.dragging = c.dragging /\ (~theme => r.frames = None)
      /\ Good(c, a, living) => Good(r, a, living)
      /\ ~c.hidden => r = c
  BY <1>0, UnhideGood
<1>2. CASE r.dragging \/ over # None
  <2>1. cursor' = r /\ wanted' = a
    BY <1>2 DEF C!Motion
  <2>2. lost' = lost
    BY <1>0, <1>1, <1>2 DEF C!Motion, C!Stays
  <2> QED
    BY <1>0, <1>1, <2>1, <2>2 DEF PointerInv, PointerType, Good, KeptImage
<1>3. CASE ~r.dragging /\ over = None
  <2> PICK n : n = C!SetImageByName(r, "default")
    OBVIOUS
  <2>1. /\ cursor' = n /\ wanted' = "default"
        /\ lost' = (lost /\ C!Stays("default"))
    BY <1>3 DEF C!Motion
  <2>2. n \in Cursor /\ (~theme => n.frames = None)
    BY <1>0, <1>1, NameFields
  <2>3. ASSUME ~lost' PROVE Good(n, "default", living)
    <3>1. Good(r, a, living) \/ (~r.hidden /\ r.name # "default")
      BY <1>0, <1>1, <2>1, <2>3 DEF C!Stays
    <3> QED
      BY <1>0, <1>1, <1>3, <3>1, NameGood
  <2> QED
    BY <1>0, <2>1, <2>2, <2>3 DEF PointerInv, PointerType, Good, KeptImage
<1> QED
  BY <1>2, <1>3

(* A client, or the compositor, asks for an image.                         *)
LEMMA AskKeeps ==
  ASSUME PointerAssumption, PointerInv, NEW n \in Names \cup Image \cup {None}, NEW r,
         \/ n \in Names /\ r = C!SetImageByName(cursor, n)
         \/ n \in living \cup {None} /\ r = C!SetSurface(cursor, n),
         cursor' = r, wanted' = IF cursor.dragging THEN wanted ELSE n,
         lost' = (lost /\ C!Stays(n)), UNCHANGED <<theme, living>>
  PROVE  PointerInv'
<1> PICK c : c = cursor
  OBVIOUS
<1> PICK a : a = wanted
  OBVIOUS
<1>0. /\ c \in Cursor /\ theme \in BOOLEAN /\ (~theme => c.frames = None)
      /\ a \in Names \cup Image \cup {None} /\ lost \in BOOLEAN /\ living \subseteq Image
      /\ ~lost => Good(c, a, living)
  BY DEF PointerInv, PointerType
<1>1. r \in Cursor /\ (~theme => r.frames = None) /\ (c.dragging => r = c)
  BY <1>0, NameFields, SurfaceFields
<1>2. ASSUME ~lost', ~c.dragging PROVE Good(r, n, living)
  <2>1. Good(c, a, living) \/ (~c.hidden /\ c.name # n /\ c.beforeHidden = None)
    BY <1>0, <1>2 DEF C!Stays
  <2> QED
    BY <1>0, <1>2, <2>1, NameGood, SurfaceGood
<1>3. (lost' \in BOOLEAN) /\ (c.dragging => lost' = lost)
  BY <1>0 DEF C!Stays
<1> QED
  BY <1>0, <1>1, <1>2, <1>3 DEF PointerInv, PointerType, Good, KeptImage

(* Two fields of the cursor change.                                        *)
HiddenOf(c, b) == [c EXCEPT !.hidden = TRUE, !.beforeHidden = b]
DraggedOf(c, b, m) == [c EXCEPT !.beforeDrag = b, !.dragging = m]

LEMMA HiddenIs ==
  ASSUME NEW c \in Cursor, NEW b \in Names \cup {None}
  PROVE  LET e == HiddenOf(c, b)
         IN /\ e \in Cursor /\ e.hidden /\ e.dragging = c.dragging /\ e.name = c.name
            /\ e.beforeHidden = b /\ e.beforeDrag = c.beforeDrag
            /\ e.client = c.client /\ e.watched = c.watched
            /\ e.image = c.image /\ e.frames = c.frames
<1>1. HiddenOf(c, b) \in Cursor
  BY DEF Cursor, HiddenOf
<1>2. LET e == HiddenOf(c, b)
      IN /\ e.hidden /\ e.dragging = c.dragging /\ e.name = c.name
         /\ e.beforeHidden = b /\ e.beforeDrag = c.beforeDrag
  BY DEF Cursor, HiddenOf
<1>3. LET e == HiddenOf(c, b)
      IN /\ e.client = c.client /\ e.watched = c.watched
         /\ e.image = c.image /\ e.frames = c.frames
  BY DEF Cursor, HiddenOf
<1> QED
  BY <1>1, <1>2, <1>3

LEMMA DraggedIs ==
  ASSUME NEW c \in Cursor, NEW b \in Names \cup {None}, NEW m \in BOOLEAN
  PROVE  LET e == DraggedOf(c, b, m)
         IN /\ e \in Cursor /\ e.beforeDrag = b /\ e.dragging = m /\ e.hidden = c.hidden
            /\ e.name = c.name /\ e.beforeHidden = c.beforeHidden /\ e.client = c.client
            /\ e.watched = c.watched /\ e.image = c.image /\ e.frames = c.frames
<1>1. DraggedOf(c, b, m) \in Cursor
  BY DEF Cursor, DraggedOf
<1>2. LET e == DraggedOf(c, b, m)
      IN /\ e.beforeDrag = b /\ e.dragging = m /\ e.hidden = c.hidden
         /\ e.name = c.name /\ e.beforeHidden = c.beforeHidden
  BY DEF Cursor, DraggedOf
<1>3. LET e == DraggedOf(c, b, m)
      IN /\ e.client = c.client /\ e.watched = c.watched
         /\ e.image = c.image /\ e.frames = c.frames
  BY DEF Cursor, DraggedOf
<1> QED
  BY <1>1, <1>2, <1>3

LEMMA InactiveKeeps ==
  ASSUME PointerAssumption, PointerInv, C!Inactive PROVE PointerInv'
<1> PICK c : c = cursor
  OBVIOUS
<1> PICK a : a = wanted
  OBVIOUS
<1>0. /\ c \in Cursor /\ theme \in BOOLEAN /\ (~theme => c.frames = None)
      /\ a \in Names \cup Image \cup {None} /\ lost \in BOOLEAN /\ living \subseteq Image
      /\ ~lost => Good(c, a, living)
  BY DEF PointerInv, PointerType
<1> PICK b : b = IF c.hidden \/ c.name = None THEN c.beforeHidden ELSE c.name
  OBVIOUS
<1> PICK e : e = HiddenOf(c, b)
  OBVIOUS
<1>1. /\ e \in Cursor /\ e.hidden /\ e.dragging = c.dragging /\ e.name = c.name
      /\ e.beforeHidden = b /\ e.beforeDrag = c.beforeDrag
      /\ e.client = c.client /\ e.watched = c.watched
      /\ e.image = c.image /\ e.frames = c.frames
  <2>1. b \in Names \cup {None}
    BY <1>0 DEF Cursor
  <2> QED
    BY <1>0, <2>1, HiddenIs
<1>2. /\ cursor' = C!HideCursor(e) /\ lost' = (lost \/ c.dragging)
      /\ UNCHANGED <<theme, living, wanted>>
  BY DEF C!Inactive, HiddenOf
<1> PICK r : r = C!HideCursor(e)
  OBVIOUS
<1>3. r \in Cursor /\ (~theme => r.frames = None)
  BY <1>0, <1>1, HideFields
<1>4. ASSUME ~lost' PROVE Good(r, a, living)
  <2>1. Good(c, a, living) /\ ~c.dragging
    BY <1>0, <1>2, <1>4
  <2> QED
    BY <1>0, <1>1, <2>1, HideFields DEF Good, SoundImage, KeptImage, Owed, SameHidden
<1> QED
  BY <1>0, <1>2, <1>3, <1>4 DEF PointerInv, PointerType, Good, KeptImage

LEMMA StartKeeps ==
  ASSUME PointerAssumption, PointerInv,
         C!StartMove \/ \E d \in BOOLEAN : C!StartResize(d)
  PROVE  PointerInv'
<1> PICK c : c = cursor
  OBVIOUS
<1> PICK a : a = wanted
  OBVIOUS
<1>0. /\ c \in Cursor /\ theme \in BOOLEAN /\ (~theme => c.frames = None)
      /\ a \in Names \cup Image \cup {None} /\ lost \in BOOLEAN /\ living \subseteq Image
      /\ ~lost => Good(c, a, living)
  BY DEF PointerInv, PointerType
<1>1. PICK n \in {"grabbing", "resize"}, d \in BOOLEAN :
         /\ cursor' = [C!SetImageByName(c, n) EXCEPT !.beforeDrag = c.name, !.dragging = @ \/ d]
         /\ wanted' = (IF d \/ c.dragging THEN a ELSE n)
         /\ lost' = (lost \/ c.hidden \/ c.dragging)
         /\ UNCHANGED <<theme, living>>
  <2>1. CASE C!StartMove
    <3>1. C!SetImageByName(c, "grabbing").dragging \in BOOLEAN
      BY <1>0, NameFields DEF Names, Cursor
    <3> QED
      BY <2>1, <3>1 DEF C!StartMove
  <2>2. CASE \E d \in BOOLEAN : C!StartResize(d)
    BY <2>2 DEF C!StartResize
  <2> QED
    BY <2>1, <2>2
<1> PICK e : e = C!SetImageByName(c, n)
  OBVIOUS
<1>2. n \in Names /\ e \in Cursor /\ SameHidden(e, c)
  BY <1>0, NameFields DEF Names
<1>3. PICK moving \in BOOLEAN : moving = (e.dragging \/ d)
  OBVIOUS
<1>4. cursor' = DraggedOf(e, c.name, moving)
  BY <1>1, <1>3 DEF DraggedOf
<1>5. PICK r : r = DraggedOf(e, c.name, moving)
  OBVIOUS
<1>6. /\ r \in Cursor /\ r.beforeDrag = c.name /\ r.dragging = moving /\ r.hidden = c.hidden
      /\ r.name = e.name /\ r.beforeHidden = e.beforeHidden /\ r.client = e.client
      /\ r.watched = e.watched /\ r.image = e.image /\ r.frames = e.frames
  <2> PICK b : b = c.name
    OBVIOUS
  <2>1. b \in Names \cup {None} /\ moving \in BOOLEAN /\ e \in Cursor
    BY <1>0, <1>2, <1>3 DEF Cursor
  <2>2. r = DraggedOf(e, b, moving)
    BY <1>5
  <2>3. /\ r \in Cursor /\ r.beforeDrag = b /\ r.dragging = moving /\ r.hidden = e.hidden
        /\ r.name = e.name /\ r.beforeHidden = e.beforeHidden /\ r.client = e.client
        /\ r.watched = e.watched /\ r.image = e.image /\ r.frames = e.frames
    BY <2>1, <2>2, DraggedIs
  <2> QED
    BY <1>2, <2>3 DEF SameHidden
<1>7. ~theme => r.frames = None
  BY <1>0, <1>2, <1>6, NameFields DEF Names
<1>8. ASSUME ~lost' PROVE Good(r, IF d THEN a ELSE n, living)
  <2>1. Good(c, a, living) /\ ~c.dragging /\ ~c.hidden
    BY <1>0, <1>1, <1>8
  <2>2. Good(e, n, living)
    BY <1>0, <1>2, <2>1, NameGood
  <2>3. CASE ~d
    BY <1>2, <1>3, <1>6, <2>1, <2>2, <2>3 DEF Good, SoundImage, KeptImage, Owed, SameHidden
  <2>4. CASE d
    <3>1. moving /\ e.client = c.client /\ e.watched = c.watched
      BY <1>0, <1>2, <1>3, <2>1, <2>4, NameFields
    <3>2. /\ SoundImage(c) /\ (~theme => KeptImage(c, a, living))
          /\ SoundImage(e) /\ (~theme => KeptImage(e, n, living))
      BY <2>1, <2>2 DEF Good
    <3>3. SoundImage(r)
      BY <1>2, <1>6, <2>1, <3>1, <3>2 DEF SoundImage, SameHidden
    <3>4. ASSUME ~theme PROVE KeptImage(r, a, living)
      <4>1. /\ r.dragging /\ ~r.hidden /\ r.client = c.client /\ r.watched = c.watched
            /\ Owed(c) = c.name /\ Owed(r) = c.name
        BY <1>6, <2>1, <3>1 DEF Owed
      <4>2. /\ c.name # None => a = c.name
            /\ c.name = None => a = c.client /\ (c.client # None => c.watched = c.client)
        BY <2>1, <3>2, <3>4, <4>1 DEF KeptImage
      <4> QED
        BY <4>1, <4>2 DEF KeptImage
    <3> QED
      BY <2>4, <3>3, <3>4 DEF Good
  <2> QED
    BY <2>3, <2>4
<1>9. /\ cursor' = r /\ theme' = theme /\ living' = living /\ lost' \in BOOLEAN
      /\ wanted' = (IF d THEN a ELSE n) \/ (c.dragging /\ lost')
      /\ wanted' \in Names \cup Image \cup {None}
  BY <1>0, <1>1, <1>2, <1>4, <1>5 DEF Cursor
<1>a. PointerType'
  BY <1>0, <1>6, <1>7, <1>9 DEF PointerType
<1>b. ASSUME ~lost' PROVE Good(cursor, wanted, living)'
  BY <1>8, <1>9, <1>b DEF Good
<1> QED
  BY <1>a, <1>b DEF PointerInv

LEMMA StopKeeps ==
  ASSUME PointerAssumption, PointerInv, C!StopInteractive PROVE PointerInv'
<1> PICK c : c = cursor
  OBVIOUS
<1> PICK a : a = wanted
  OBVIOUS
<1>0. /\ c \in Cursor /\ theme \in BOOLEAN /\ (~theme => c.frames = None)
      /\ a \in Names \cup Image \cup {None} /\ lost \in BOOLEAN /\ living \subseteq Image
      /\ ~lost => Good(c, a, living)
  BY DEF PointerInv, PointerType
<1> DEFINE e == [c EXCEPT !.dragging = FALSE]
<1>1. /\ e \in Cursor /\ ~e.dragging /\ e.hidden = c.hidden /\ e.name = c.name
      /\ e.beforeHidden = c.beforeHidden /\ e.beforeDrag = c.beforeDrag
      /\ e.client = c.client /\ e.watched = c.watched
      /\ e.image = c.image /\ e.frames = c.frames
  BY <1>0 DEF Cursor
<1>2. /\ cursor' = C!Restore(e) /\ c.dragging /\ C!Followed(c)
      /\ UNCHANGED <<theme, living, wanted, lost>>
  BY DEF C!StopInteractive
<1> HIDE DEF e
<1> PICK b : b = e
  OBVIOUS
<1> PICK r : r = C!Restore(b)
  OBVIOUS
<1>3. CASE b.beforeDrag # None
  <2>1. r = C!SetImageByName(b, b.beforeDrag) /\ b.beforeDrag \in Names
    BY <1>1, <1>3 DEF C!Restore, Cursor
  <2>2. r \in Cursor /\ (~theme => r.frames = None)
    BY <1>0, <1>1, <2>1, NameFields
  <2>3. ASSUME ~lost PROVE Good(r, a, living)
    <3>1. ~b.hidden /\ Good(c, a, living)
      BY <1>0, <1>1, <1>2, <2>3 DEF Good, SoundImage
    <3>2. CASE b.name = b.beforeDrag
      <4>1. r = b
        BY <1>1, <2>1, <3>1, <3>2, NameFields
      <4> QED
        BY <1>1, <1>2, <1>3, <3>1, <3>2, <4>1 DEF Good, SoundImage, KeptImage, Owed
    <3>3. CASE b.name # b.beforeDrag
      <4>1. Good(r, b.beforeDrag, living)
        BY <1>0, <1>1, <2>1, <3>1, <3>3, NameGood
      <4>2. theme \/ a = b.beforeDrag
        BY <1>1, <1>2, <1>3, <3>1 DEF Good, KeptImage, Owed
      <4> QED
        BY <4>1, <4>2 DEF Good
    <3> QED
      BY <3>2, <3>3
  <2> QED
    BY <1>0, <1>2, <2>2, <2>3 DEF PointerInv, PointerType, Good, KeptImage
<1>4. CASE b.beforeDrag = None
  <2>0. PICK s \in Image \cup {None} : s = b.client
    BY <1>1 DEF Cursor
  <2>1. CASE s # None
    <3>1. r = C!SetSurface(b, s)
      BY <1>4, <2>0, <2>1 DEF C!Restore
    <3>2. r \in Cursor /\ (~theme => r.frames = None)
      BY <1>0, <1>1, <3>1, SurfaceFields
    <3>3. ASSUME ~lost PROVE Good(r, a, living)
      <4>1. ~b.hidden /\ b.beforeHidden = None /\ Good(c, a, living)
        BY <1>0, <1>1, <1>2, <3>3 DEF Good, SoundImage
      <4>2. Good(r, s, living)
        BY <1>0, <1>1, <3>1, <4>1, SurfaceGood
      <4>3. theme \/ a = s
        BY <1>1, <1>2, <1>4, <2>0, <4>1 DEF Good, KeptImage, Owed
      <4> QED
        BY <4>2, <4>3 DEF Good
    <3> QED
      BY <1>0, <1>2, <3>2, <3>3 DEF PointerInv, PointerType, Good, KeptImage
  <2>2. CASE s = None
    <3>1. r = C!SetImageByName(b, None)
      BY <1>4, <2>0, <2>2 DEF C!Restore
    <3>2. CASE b.hidden
      <4>1. r = [b EXCEPT !.beforeHidden = None, !.client = None]
        BY <1>1, <3>1, <3>2 DEF C!SetImageByName
      <4>2. r \in Cursor /\ r.frames = b.frames
        BY <1>1, <4>1 DEF Cursor
      <4>3. lost
        BY <1>0, <1>1, <1>2, <3>2 DEF Good, SoundImage
      <4> QED
        BY <1>0, <1>1, <1>2, <4>2, <4>3 DEF PointerInv, PointerType
    <3>3. CASE ~b.hidden
      <4>1. r = C!HideCursor(b)
        BY <1>1, <3>1, <3>3 DEF C!SetImageByName
      <4>2. r \in Cursor /\ (~theme => r.frames = None)
        BY <1>0, <1>1, <4>1, HideFields
      <4>3. ASSUME ~lost PROVE Good(r, a, living)
        BY <1>0, <1>1, <1>2, <1>4, <2>0, <2>2, <3>3, <4>1, <4>3, HideFields
           DEF Good, SoundImage, KeptImage, Owed, SameHidden
      <4> QED
        BY <1>0, <1>2, <4>2, <4>3 DEF PointerInv, PointerType, Good, KeptImage
    <3> QED
      BY <3>2, <3>3
  <2> QED
    BY <2>1, <2>2
<1> QED
  BY <1>2, <1>3, <1>4

LEMMA CreateImageKeeps ==
  ASSUME PointerAssumption, PointerInv, NEW s \in Image, C!CreateImage(s) PROVE PointerInv'
BY DEF PointerAssumption, PointerInv, PointerType, Good, SoundImage, KeptImage, Owed, C!CreateImage

LEMMA DestroyImageKeeps ==
  ASSUME PointerAssumption, PointerInv, NEW s \in Image, C!DestroyImage(s) PROVE PointerInv'
<1> PICK c : c = cursor
  OBVIOUS
<1> PICK a : a = wanted
  OBVIOUS
<1>0. /\ c \in Cursor /\ theme \in BOOLEAN /\ (~theme => c.frames = None)
      /\ a \in Names \cup Image \cup {None} /\ lost \in BOOLEAN /\ living \subseteq Image
      /\ ~lost => Good(c, a, living)
  BY DEF PointerInv, PointerType
<1> DEFINE e == [c EXCEPT !.image = IF @ = s THEN None ELSE @]
           r == IF e.watched = s THEN [e EXCEPT !.client = None, !.watched = None] ELSE e
<1>1. /\ e \in Cursor /\ e.dragging = c.dragging /\ e.hidden = c.hidden /\ e.name = c.name
      /\ e.beforeHidden = c.beforeHidden /\ e.beforeDrag = c.beforeDrag
      /\ e.client = c.client /\ e.watched = c.watched /\ e.frames = c.frames
      /\ e.image = (IF c.image = s THEN None ELSE c.image)
  BY <1>0 DEF Cursor
<1>2. /\ cursor' = r /\ wanted' = (IF a = s THEN None ELSE a) /\ living' = living \ {s}
      /\ lost' = (lost \/ (c.watched = s /\ c.client # s)) /\ theme' = theme
  BY DEF C!DestroyImage
<1> HIDE DEF e
<1>3. /\ r \in Cursor /\ r.dragging = c.dragging /\ r.hidden = c.hidden /\ r.name = c.name
      /\ r.beforeHidden = c.beforeHidden /\ r.beforeDrag = c.beforeDrag /\ r.frames = c.frames
      /\ r.image = e.image
      /\ r.client = (IF c.watched = s THEN None ELSE c.client)
      /\ r.watched = (IF c.watched = s THEN None ELSE c.watched)
  <2>1. CASE e.watched = s
    <3>1. r = [e EXCEPT !.client = None, !.watched = None]
      BY <2>1
    <3> QED
      BY <1>1, <2>1, <3>1 DEF Cursor
  <2>2. CASE e.watched # s
    BY <1>1, <2>2
  <2> QED
    BY <2>1, <2>2
<1> HIDE DEF r
<1>4. s \notin Names /\ s # None /\ c.name \in Names \cup {None} /\ c.beforeHidden \in Names \cup {None}
      /\ c.beforeDrag \in Names \cup {None}
  BY <1>0 DEF PointerAssumption, Cursor
<1>5. ASSUME ~lost' PROVE Good(r, wanted', living')
  <2>1. Good(c, a, living) /\ (c.watched = s => c.client = s)
    BY <1>0, <1>2, <1>5
  <2>2. SoundImage(r)
    BY <1>1, <1>3, <1>4, <2>1 DEF Good, SoundImage
  <2>3. ASSUME ~theme PROVE KeptImage(r, wanted', living')
    <3>1. Owed(r) = Owed(c) /\ Owed(c) # s
      BY <1>3, <1>4 DEF Owed
    <3> QED
      <4> PICK b : b = wanted'
        OBVIOUS
      <4> PICK l : l = living'
        OBVIOUS
      <4>1. b = (IF a = s THEN None ELSE a) /\ l = living \ {s}
        BY <1>2
      <4>2. KeptImage(c, a, living) /\ SoundImage(c)
        BY <2>1, <2>3 DEF Good
      <4>3. CASE Owed(c) # None
        BY <1>1, <1>3, <1>4, <3>1, <4>1, <4>2, <4>3 DEF KeptImage, SoundImage
      <4>4. CASE Owed(c) = None /\ c.hidden
        <5>1. s \in living
          BY DEF C!DestroyImage
        <5>2. CASE a = c.client
          BY <1>1, <1>3, <1>4, <2>1, <3>1, <4>1, <4>2, <4>4, <5>2 DEF KeptImage, SoundImage
        <5>3. CASE c.client \notin living /\ c.client # None
          BY <1>1, <1>3, <1>4, <2>1, <3>1, <4>1, <4>2, <4>4, <5>1, <5>3 DEF KeptImage, SoundImage
        <5> QED
          BY <4>2, <4>4, <5>2, <5>3 DEF KeptImage
      <4>5. CASE Owed(c) = None /\ ~c.hidden
        <5>1. a = c.client /\ (c.client # None => c.watched = c.client)
          BY <4>2, <4>5 DEF KeptImage
        <5>2. b = r.client /\ (r.client # None => r.watched = r.client)
          BY <1>3, <1>4, <2>1, <4>1, <5>1
        <5>3. ~c.dragging => r.image = b
          BY <1>1, <1>3, <1>4, <4>1, <4>2, <4>5 DEF KeptImage
        <5> QED
          BY <1>1, <1>3, <3>1, <4>2, <4>5, <5>2, <5>3 DEF KeptImage
      <4> QED
        BY <4>3, <4>4, <4>5
  <2> QED
    BY <2>2, <2>3 DEF Good
<1> QED
  BY <1>0, <1>2, <1>3, <1>5 DEF PointerInv, PointerType, Good

LEMMA ScaleKeeps ==
  ASSUME PointerAssumption, PointerInv, NEW d \in BOOLEAN, C!UpdateScale(d) PROVE PointerInv'
<1> PICK c : c = cursor
  OBVIOUS
<1> PICK a : a = wanted
  OBVIOUS
<1>0. /\ c \in Cursor /\ theme \in BOOLEAN /\ (~theme => c.frames = None)
      /\ a \in Names \cup Image \cup {None} /\ lost \in BOOLEAN /\ living \subseteq Image
      /\ ~lost => Good(c, a, living)
  BY DEF PointerInv, PointerType
<1> PICK e : e = IF d THEN C!ChangeStyle(c) ELSE c
  OBVIOUS
<1> PICK h : h = C!HideCursor(e)
  OBVIOUS
<1> PICK r : r = C!SetImageByName(h, e.name)
  OBVIOUS
<1>1. /\ e \in Cursor /\ SameHidden(e, c) /\ (~theme => e.frames = None)
      /\ ~theme \/ ~d => e = c
  BY <1>0, StyleFields DEF SameHidden
<1>2. /\ cursor' = r /\ lost' = (lost \/ c.name = None \/ (theme /\ d))
      /\ UNCHANGED <<theme, living, wanted>>
  BY DEF C!UpdateScale
<1>3. h \in Cursor /\ (~theme => h.frames = None)
  BY <1>0, <1>1, HideFields
<1>4. r \in Cursor /\ (~theme => r.frames = None)
  <2>1. CASE e.name \in Names
    BY <1>0, <1>3, <2>1, NameFields
  <2>2. CASE e.name = None
    <3>1. \/ r = h \/ r = C!HideCursor(h)
          \/ r = [h EXCEPT !.beforeHidden = None, !.client = None]
      BY <1>1, <2>2 DEF C!SetImageByName
    <3> QED
      <4>1. CASE r = [h EXCEPT !.beforeHidden = None, !.client = None]
        BY <1>3, <4>1 DEF Cursor
      <4>2. CASE r = h \/ r = C!HideCursor(h)
        BY <1>3, <4>2, HideFields DEF SameHidden
      <4> QED
        BY <3>1, <4>1, <4>2
  <2> QED
    BY <1>1, <2>1, <2>2 DEF Cursor
<1>5. ASSUME ~lost' PROVE Good(r, a, living)
  <2>1. e = c /\ Good(c, a, living) /\ c.name # None
    BY <1>0, <1>1, <1>2, <1>5
  <2>2. c.name \in Names /\ ~c.hidden
    BY <1>0, <2>1 DEF Cursor, Good, SoundImage
  <2>3. CASE c.dragging
    BY <1>0, <1>3, <2>1, <2>2, <2>3, HideFields, NameFields
  <2>4. CASE ~c.dragging
    <3>1. ~h.dragging /\ ~h.hidden /\ h.name = None
      BY <1>0, <2>1, <2>2, <2>4, HideFields DEF SameHidden
    <3>2. Good(r, c.name, living)
      BY <1>0, <1>3, <2>1, <2>2, <3>1, NameGood DEF PointerAssumption
    <3>3. theme \/ a = c.name
      BY <2>1, <2>2, <2>4 DEF Good, KeptImage, Owed
    <3> QED
      BY <3>2, <3>3 DEF Good
  <2> QED
    BY <2>3, <2>4
<1> QED
  BY <1>0, <1>2, <1>4, <1>5 DEF PointerInv, PointerType, Good, KeptImage

LEMMA ConfigKeeps ==
  ASSUME PointerAssumption, PointerInv, C!ConfigCommit PROVE PointerInv'
<1> PICK c : c = cursor
  OBVIOUS
<1> PICK a : a = wanted
  OBVIOUS
<1>0. /\ c \in Cursor /\ theme \in BOOLEAN /\ (~theme => c.frames = None)
      /\ a \in Names \cup Image \cup {None} /\ living \subseteq Image
      /\ "default" \in Names
  BY DEF PointerInv, PointerType, Names
<1> DEFINE b == [c EXCEPT !.image = "default"]
<1>b. b \in Cursor /\ SameHidden(b, c) /\ b.frames = c.frames
  BY <1>0 DEF Cursor, SameHidden
<1> HIDE DEF b
<1> PICK e : e = C!ChangeStyle(b)
  OBVIOUS
<1> PICK h : h = C!HideCursor(e)
  OBVIOUS
<1> PICK r : r = C!SetImageByName(h, "default")
  OBVIOUS
<1>1. /\ e \in Cursor /\ SameHidden(e, c) /\ (~theme => e.frames = None)
  <2>1. e \in Cursor /\ SameHidden(e, b) /\ (~theme => e = b)
    BY <1>b, StyleFields
  <2> QED
    BY <1>0, <1>b, <2>1 DEF SameHidden
<1>2. /\ cursor' = r /\ lost' = c.dragging /\ wanted' = (IF c.dragging THEN a ELSE "default")
      /\ UNCHANGED <<theme, living>>
  BY DEF C!ConfigCommit, b
<1>3. /\ h \in Cursor /\ (~theme => h.frames = None) /\ SameHidden(h, c)
      /\ ~c.dragging => h.name = None /\ h.image = None
  BY <1>0, <1>1, HideFields DEF SameHidden
<1>4. r \in Cursor /\ (~theme => r.frames = None)
  <2>1. \A n \in Names : /\ C!SetImageByName(h, n) \in Cursor
                         /\ ~theme => C!SetImageByName(h, n).frames = None
    <3> SUFFICES ASSUME NEW n \in Names
                 PROVE  /\ C!SetImageByName(h, n) \in Cursor
                        /\ ~theme => C!SetImageByName(h, n).frames = None
      OBVIOUS
    <3>1. h.dragging \in BOOLEAN /\ h.hidden \in BOOLEAN
      BY <1>3 DEF Cursor
    <3> QED
      BY <1>3, <3>1, NameFields
  <2> QED
    BY <1>0, <2>1
<1>5. ASSUME ~c.dragging PROVE Good(r, "default", living)
  <2>1. "default" # None /\ ~h.dragging /\ h.hidden = c.hidden
    BY <1>0, <1>3, <1>5 DEF PointerAssumption, SameHidden
  <2>2. CASE ~c.hidden
    BY <1>0, <1>3, <1>5, <2>1, <2>2, NameGood
  <2>3. CASE c.hidden
    <3>1. /\ r.hidden /\ ~r.dragging /\ r.name = None /\ r.image = None
          /\ r.beforeHidden = "default"
      <4>0. \A n \in Names :
              LET q == C!SetImageByName(h, n)
              IN  /\ SameHidden(q, h)
                  /\ ~h.dragging /\ h.hidden =>
                       q.beforeHidden = n /\ q.name = h.name /\ q.image = h.image
        BY <1>3, NameFields
      <4>1. SameHidden(r, h) /\ r.beforeHidden = "default" /\ r.name = h.name /\ r.image = h.image
        BY <1>0, <2>1, <2>3, <4>0
      <4> QED
        BY <1>3, <1>5, <2>1, <2>3, <4>1 DEF SameHidden
    <3> QED
      BY <2>1, <3>1 DEF Good, SoundImage, KeptImage, Owed
  <2> QED
    BY <2>2, <2>3
<1> QED
  BY <1>0, <1>2, <1>4, <1>5 DEF PointerInv, PointerType, Good, KeptImage, Cursor

LEMMA AnimationKeeps ==
  ASSUME PointerAssumption, PointerInv, C!AnimationLoop PROVE PointerInv'
BY DEF PointerAssumption, PointerInv, PointerType, Cursor, Good, SoundImage, KeptImage, Owed, C!AnimationLoop

LEMMA PointerStep == PointerAssumption /\ PointerInv /\ C!PointerNext => PointerInv'
<1> SUFFICES ASSUME PointerAssumption, PointerInv, C!PointerNext PROVE PointerInv'
  OBVIOUS
<1>0. Shape \subseteq Names /\ "default" \in Names /\ living \subseteq Image
  BY DEF Names, PointerInv, PointerType
<1>1. ASSUME NEW s \in living \cup {None}, C!RequestSetCursor(s) PROVE PointerInv'
  BY <1>0, <1>1, AskKeeps DEF C!RequestSetCursor, C!Ask
<1>2. ASSUME NEW n \in Shape, C!RequestSetShape(n) PROVE PointerInv'
  BY <1>0, <1>2, AskKeeps DEF C!RequestSetShape, C!Ask
<1>3. CASE C!FocusGone
  BY <1>0, <1>3, AskKeeps DEF C!FocusGone
<1> QED
  BY <1>1, <1>2, <1>3, MotionKeeps, CreateImageKeeps, DestroyImageKeeps, InactiveKeeps,
     StartKeeps, StopKeeps, ScaleKeeps, ConfigKeeps, AnimationKeeps DEF C!PointerNext

(***************************************************************************)
(* Keys and their bindings: module Keys                                    *)
(***************************************************************************)

CONSTANTS Key, MapList, Binding

VARIABLES maps, board, grab, barred

K == INSTANCE Keys WITH NoKey <- None

MapNames == K!MapNames

(* There is a main map, and bindings are what their callbacks do.          *)
KeysAssumption ==
    /\ MapList \in Seq(MapNames) /\ MapList # <<>>
    /\ Binding \subseteq [press : {"nothing", "focus", "toggle"},
                          release : {"nothing", "focus", "toggle"},
                          pass : BOOLEAN, repeat : BOOLEAN, exclusive : BOOLEAN]

KeyMaps == [active : BOOLEAN, repeated : Key \cup {None},
            table : [Key -> Binding \cup {None}]]
Boards  == [down : SUBSET Key, tracker : Seq(Key), focus : Surface \cup {None},
            view : SUBSET Key, im : SUBSET Key]
KeyWorlds == [maps : [MapNames -> KeyMaps], board : Boards, handled : BOOLEAN]

(* The keys that no binding has taken.                                     *)
Untaken(b) == b.down \ K!ToSet(b.tracker)

(* Who holds them, but for the keys of S, which are on their way.          *)
Known(b, S) ==
    /\ b.focus # None => (b.view \cup b.im) \ S = Untaken(b)
    /\ b.focus = None => b.view = {}
    /\ b.im \ S \subseteq Untaken(b)
    /\ Untaken(b) \cap S = {}

(* Only a binding that is there is repeated, and for a key of D.           *)
Repeats(f, D) ==
    \A m \in MapNames : f[m].repeated # None =>
        f[m].repeated \in D /\ f[m].table[f[m].repeated] # None

(* The tracker remembers keys that are held, each once.                    *)
Remembers(b) ==
    /\ K!ToSet(b.tracker) \subseteq b.down
    /\ \A i, j \in 1 .. Len(b.tracker) : b.tracker[i] = b.tracker[j] => i = j

KeysWell(f, b) ==
    /\ f \in [MapNames -> KeyMaps] /\ b \in Boards
    /\ Repeats(f, b.down) /\ Known(b, {}) /\ Remembers(b)

KeysInv == KeysWell(maps, board) /\ barred \in BOOLEAN /\ grab \in BOOLEAN

(* A surface that enters is told of every key that is held and not taken.  *)
LEMMA EnterKnows ==
  ASSUME NEW b \in Boards, NEW s \in Surface \cup {None}, NEW S, Known(b, S)
  PROVE  /\ K!Enter(b, s) \in Boards /\ Known(K!Enter(b, s), S)
         /\ K!Enter(b, s).down = b.down /\ K!Enter(b, s).tracker = b.tracker
<1> DEFINE v == IF s = None THEN {} ELSE Untaken(b)
<1>1. K!Enter(b, s) = IF s = b.focus THEN b ELSE [b EXCEPT !.focus = s, !.view = v]
  BY DEF K!Enter, Untaken
<1>2. v \in SUBSET Key /\ (s = None => v = {}) /\ (s # None => v = Untaken(b))
  BY DEF Untaken, Boards
<1> HIDE DEF v
<1> DEFINE c == [b EXCEPT !.focus = s, !.view = v]
<1>3. /\ c \in Boards /\ c.down = b.down /\ c.tracker = b.tracker /\ c.im = b.im
      /\ c.focus = s /\ c.view = v
  BY <1>2 DEF Boards
<1>4. Untaken(c) = Untaken(b)
  BY <1>3 DEF Untaken
<1> HIDE DEF c
<1>5. Known(c, S)
  BY <1>2, <1>3, <1>4 DEF Known
<1> QED
  BY <1>1, <1>3, <1>5 DEF c

(* A key that is notified gets to the surface, one that is released is     *)
(* nobody's any more.                                                      *)
LEMMA EffectKeeps ==
  ASSUME NEW s \in KeyWorlds, NEW what \in {"nothing", "focus", "toggle"}, NEW S,
         Known(s.board, S)
  PROVE  LET r == K!Effect(s, what)
         IN  /\ r \in KeyWorlds /\ Known(r.board, S)
             /\ r.board.down = s.board.down /\ r.board.tracker = s.board.tracker
             /\ r.handled = s.handled
             /\ \A m \in MapNames : /\ r.maps[m].repeated = s.maps[m].repeated
                                    /\ r.maps[m].table = s.maps[m].table
<1>1. CASE what = "nothing"
  BY <1>1 DEF K!Effect
<1>2. CASE what = "focus"
  <2> DEFINE t == K!Another(s.board.focus)
             e == K!Enter(s.board, t)
  <2>1. s.board \in Boards /\ t \in Surface \cup {None}
    BY DEF K!Another, KeyWorlds, Boards
  <2>2. e \in Boards /\ Known(e, S) /\ e.down = s.board.down /\ e.tracker = s.board.tracker
    BY <2>1, EnterKnows
  <2>3. K!Effect(s, what) = [s EXCEPT !.board = e]
    BY <1>2 DEF K!Effect
  <2> HIDE DEF e
  <2> QED
    BY <2>2, <2>3 DEF KeyWorlds
<1>3. CASE what = "toggle"
  <2> DEFINE f == K!Toggled(s.maps)
  <2>1. K!Effect(s, what) = [s EXCEPT !.maps = f]
    BY <1>3 DEF K!Effect
  <2>2. /\ f \in [MapNames -> KeyMaps]
        /\ \A m \in MapNames : /\ f[m].repeated = s.maps[m].repeated
                               /\ f[m].table = s.maps[m].table
    BY DEF KeyWorlds, KeyMaps, K!Toggled, MapNames
  <2> HIDE DEF f
  <2> QED
    BY <2>1, <2>2 DEF KeyWorlds
<1> QED
  BY <1>1, <1>2, <1>3

(* A binding that runs for the key k.                                      *)
LEMMA ExecuteKeeps ==
  ASSUME KeysAssumption, NEW s \in KeyWorlds, NEW m \in MapNames, NEW k \in Key,
         NEW press \in BOOLEAN, s.maps[m].table[k] # None, NEW S, Known(s.board, S),
         NEW D, Repeats(s.maps, D), press => k \in D
  PROVE  LET r == K!Execute(s, m, k, press)
         IN  /\ r \in KeyWorlds /\ Known(r.board, S) /\ Repeats(r.maps, D)
             /\ r.board.down = s.board.down /\ r.board.tracker = s.board.tracker
             /\ ~press => \A n \in MapNames : r.maps[n].repeated = s.maps[n].repeated
<1> DEFINE bind == s.maps[m].table[k]
           done == K!Effect(s, IF press THEN bind.press ELSE bind.release)
           old == done.maps[m].repeated
           new == IF press /\ bind.repeat /\ old = None THEN k ELSE old
           f == [done.maps EXCEPT ![m].repeated = new]
           h == done.handled \/ ~bind.pass
           r == K!Execute(s, m, k, press)
<1>1. bind \in Binding /\ bind # None
  BY DEF KeyWorlds, KeyMaps
<1>2. PICK what \in {"nothing", "focus", "toggle"} :
        what = IF press THEN bind.press ELSE bind.release
  BY <1>1 DEF KeysAssumption
<1>3. /\ done \in KeyWorlds /\ Known(done.board, S)
      /\ done.board.down = s.board.down /\ done.board.tracker = s.board.tracker
      /\ \A n \in MapNames : /\ done.maps[n].repeated = s.maps[n].repeated
                             /\ done.maps[n].table = s.maps[n].table
  BY <1>2, EffectKeeps
<1>4. r = [done EXCEPT !.maps[m].repeated = new, !.handled = h]
  BY Zenon DEF K!Execute, K!Armed
<1>5. h \in BOOLEAN
  OBVIOUS
<1> HIDE DEF bind, done, h
<1>6. new \in Key \cup {None} /\ ((new = k /\ press) \/ new = old) /\ (~press => new = old)
  BY <1>3 DEF KeyWorlds, KeyMaps
<1> HIDE DEF new
<1>7. /\ f \in [MapNames -> KeyMaps]
      /\ \A n \in MapNames : f[n].table = s.maps[n].table
      /\ \A n \in MapNames : n # m => f[n].repeated = s.maps[n].repeated
      /\ f[m].repeated = new
  BY <1>3, <1>6 DEF KeyWorlds, KeyMaps
<1>8. r = [done EXCEPT !.maps = f, !.handled = h]
  BY <1>3, <1>4 DEF KeyWorlds
<1> HIDE DEF f, r
<1>9. r \in KeyWorlds /\ r.board = done.board /\ r.maps = f
  BY <1>3, <1>5, <1>7, <1>8 DEF KeyWorlds
<1>10. Repeats(f, D)
  BY <1>3, <1>6, <1>7 DEF Repeats
<1> QED
  BY <1>3, <1>6, <1>7, <1>9, <1>10 DEF r

(* One map of those a key is looked up in.                                 *)
Going(s, d, t, S, D) ==
    /\ s \in KeyWorlds /\ Known(s.board, S) /\ Repeats(s.maps, D)
    /\ s.board.down = d /\ s.board.tracker = t

LEMMA VisitKeeps ==
  ASSUME KeysAssumption, NEW s, NEW d, NEW t, NEW S, NEW D, Going(s, d, t, S, D),
         NEW m \in MapNames, NEW k \in Key, NEW press \in BOOLEAN, press => k \in D
  PROVE  LET r == K!Visit(s, m, k, press)
         IN  /\ Going(r, d, t, S, D)
             /\ ~press => /\ r.handled = s.handled /\ r.maps[m].repeated = None
                          /\ \A n \in MapNames :
                               s.maps[n].repeated = None => r.maps[n].repeated = None
<1> DEFINE l == K!Look(s, m, k, press)
<1>1. /\ Going(l, d, t, S, D)
      /\ ~press => \A n \in MapNames : l.maps[n].repeated = s.maps[n].repeated
  <2>1. CASE l = s
    BY <2>1
  <2>2. CASE l # s
    <3>1. l = K!Execute(s, m, k, press) /\ s.maps[m].table[k] # None
      BY <2>2 DEF K!Look, K!Bound
    <3> HIDE DEF l
    <3> QED
      BY <3>1, ExecuteKeeps DEF Going
  <2> QED
    BY <2>1, <2>2
<1>2. CASE press
  BY <1>1, <1>2 DEF K!Visit
<1>3. CASE ~press
  <2> DEFINE f == [l.maps EXCEPT ![m].repeated = None]
             r == [l EXCEPT !.handled = s.handled, !.maps = f]
  <2>1. l \in KeyWorlds /\ s \in KeyWorlds /\ l = K!Look(s, m, k, FALSE)
    BY <1>1, <1>3 DEF Going
  <2>2. K!Visit(s, m, k, press) = [l EXCEPT !.handled = s.handled, !.maps[m].repeated = None]
    BY <1>3, <2>1 DEF K!Visit
  <2> HIDE DEF l
  <2>3. K!Visit(s, m, k, press) = r
    BY <2>1, <2>2 DEF KeyWorlds
  <2>4. /\ f \in [MapNames -> KeyMaps] /\ f[m].repeated = None
        /\ \A n \in MapNames : f[n].table = l.maps[n].table
        /\ \A n \in MapNames : n # m => f[n].repeated = l.maps[n].repeated
    <3> DEFINE o == [l.maps[m] EXCEPT !.repeated = None]
    <3>1. l.maps \in [MapNames -> KeyMaps] /\ m \in MapNames
      BY <2>1 DEF KeyWorlds
    <3>2. o \in KeyMaps /\ o.repeated = None /\ o.table = l.maps[m].table
      BY <3>1 DEF KeyMaps
    <3>3. f = [l.maps EXCEPT ![m] = o]
      OBVIOUS
    <3> HIDE DEF f, o
    <3>4. f \in [MapNames -> KeyMaps] /\ f[m] = o
      BY <3>1, <3>2, <3>3
    <3>5. \A n \in MapNames : n # m => f[n] = l.maps[n]
      BY <3>1, <3>3
    <3> QED
      BY <3>2, <3>4, <3>5
  <2>5. s.handled \in BOOLEAN
    BY <2>1 DEF KeyWorlds
  <2> HIDE DEF f
  <2>6. r \in KeyWorlds /\ r.board = l.board /\ r.maps = f /\ r.handled = s.handled
    BY <2>1, <2>4, <2>5 DEF KeyWorlds
  <2> HIDE DEF r
  <2>7. Repeats(f, D)
    BY <1>1, <2>4 DEF Repeats, Going
  <2> QED
    BY <1>1, <1>3, <2>3, <2>4, <2>6, <2>7 DEF Going
<1> QED
  BY <1>2, <1>3

(* The maps are gone through in their order: there is such a function, and *)
(* what the search comes to is its last value.                             *)
Goes(f, n, s, k, press) ==
    f = [i \in 0 .. n |-> IF i = 0 THEN s ELSE K!Visit(f[i - 1], MapList[i], k, press)]

Strides(f, n, s, k, press) ==
    /\ f[0] = s
    /\ \A i \in 1 .. n : f[i] = K!Visit(f[i - 1], MapList[i], k, press)

LEMMA GoesAt ==
  ASSUME NEW f, NEW n \in Nat, NEW s, NEW k, NEW press \in BOOLEAN
  PROVE  Goes(f, n, s, k, press) <=>
           f = [i \in 0 .. n |-> f[i]] /\ Strides(f, n, s, k, press)
<1> DEFINE Value(i) == K!Visit(f[i - 1], MapList[i], k, press)
<1>1. Goes(f, n, s, k, press) <=> f = [i \in 0 .. n |-> IF i = 0 THEN s ELSE Value(i)]
  BY Zenon DEF Goes
<1> HIDE DEF Value
<1>2. /\ 0 \in 0 .. n /\ 1 .. n \subseteq 0 .. n /\ \A i \in 1 .. n : i # 0
      /\ \A i \in 0 .. n : i = 0 \/ i \in 1 .. n
  OBVIOUS
<1>3. ASSUME f = [i \in 0 .. n |-> IF i = 0 THEN s ELSE Value(i)]
      PROVE  f = [i \in 0 .. n |-> f[i]] /\ f[0] = s /\ \A i \in 1 .. n : f[i] = Value(i)
  BY <1>2, <1>3, Zenon
<1>4. ASSUME f = [i \in 0 .. n |-> f[i]], f[0] = s, \A i \in 1 .. n : f[i] = Value(i)
      PROVE  f = [i \in 0 .. n |-> IF i = 0 THEN s ELSE Value(i)]
  <2>1. \A i \in 0 .. n : f[i] = IF i = 0 THEN s ELSE Value(i)
    BY <1>2, <1>4
  <2> QED
    BY <1>4, <2>1, Zenon
<1> QED
  BY <1>1, <1>3, <1>4, Zenon DEF Value, Strides

LEMMA GoesStrides ==
  ASSUME NEW f, NEW n \in Nat, NEW s, NEW k, NEW press \in BOOLEAN,
         Goes(f, n, s, k, press)
  PROVE  Strides(f, n, s, k, press)
BY GoesAt

LEMMA StridesGo ==
  ASSUME NEW f, NEW n \in Nat, NEW s, NEW k, NEW press \in BOOLEAN,
         f = [i \in 0 .. n |-> f[i]], Strides(f, n, s, k, press)
  PROVE  Goes(f, n, s, k, press)
BY GoesAt

LEMMA GoesExists ==
  ASSUME NEW n \in Nat, NEW s, NEW k, NEW press \in BOOLEAN
  PROVE  \E f : Goes(f, n, s, k, press)
<1> DEFINE T == {i \in Nat : ~ \E f : Goes(f, i, s, k, press)}
<1> SUFFICES ASSUME T # {} PROVE FALSE
  OBVIOUS
<1>1. PICK i \in T : \A j \in T : i <= j
  BY FirstPlace
<1>2. i # 0
  <2> DEFINE f == [j \in 0 .. 0 |-> s]
  <2>1. f = [j \in 0 .. 0 |-> f[j]] /\ f[0] = s /\ 0 \in Nat
    OBVIOUS
  <2>2. 1 .. 0 = {}
    OBVIOUS
  <2> HIDE DEF f
  <2>3. Strides(f, 0, s, k, press)
    BY <2>1, <2>2 DEF Strides
  <2>4. Goes(f, 0, s, k, press)
    BY <2>1, <2>3, StridesGo
  <2> QED
    BY <2>4
<1>3. i - 1 \in Nat /\ i - 1 \notin T /\ i \in Nat
  BY <1>1, <1>2
<1>4. PICK f : Goes(f, i - 1, s, k, press)
  BY <1>3
<1>5. /\ f[0] = s
      /\ \A j \in 1 .. i - 1 : f[j] = K!Visit(f[j - 1], MapList[j], k, press)
  BY <1>3, <1>4, GoesStrides DEF Strides
<1> DEFINE v == K!Visit(f[i - 1], MapList[i], k, press)
           g == [j \in 0 .. i |-> IF j = i THEN v ELSE f[j]]
<1> HIDE DEF v
<1>6. /\ g = [j \in 0 .. i |-> g[j]] /\ g[i] = v
      /\ \A j \in 0 .. i - 1 : g[j] = f[j]
  BY <1>2, <1>3
<1> HIDE DEF g
<1> HIDE DEF T
<1>10. /\ 0 \in 0 .. i - 1
       /\ \A j \in 1 .. i : j - 1 \in 0 .. i - 1
       /\ \A j \in 1 .. i : j # i => j \in 1 .. i - 1 /\ j \in 0 .. i - 1
  BY <1>2, <1>3
<1>7. g[0] = s
  BY <1>5, <1>6, <1>10, Zenon
<1>8. ASSUME NEW j \in 1 .. i
      PROVE  g[j] = K!Visit(g[j - 1], MapList[j], k, press)
  <2>1. g[j - 1] = f[j - 1]
    BY <1>6, <1>10, Zenon
  <2>2. CASE j = i
    BY <1>6, <2>1, <2>2, Zenon DEF v
  <2>3. CASE j # i
    <3>1. j \in 1 .. i - 1 /\ j \in 0 .. i - 1
      BY <1>10, <2>3
    <3>2. g[j] = f[j] /\ f[j] = K!Visit(f[j - 1], MapList[j], k, press)
      BY <1>5, <1>6, <3>1, Zenon
    <3> QED
      BY <2>1, <3>2, Zenon
  <2> QED
    BY <2>2, <2>3
<1>9. Strides(g, i, s, k, press)
  BY <1>7, <1>8, Zenon DEF Strides
<1>11. Goes(g, i, s, k, press)
  BY <1>3, <1>6, <1>9, StridesGo
<1> QED
  BY <1>1, <1>11 DEF T

LEMMA SearchIs ==
  ASSUME KeysAssumption, NEW s, NEW k, NEW press \in BOOLEAN
  PROVE  \E f : /\ K!Search(s, k, press) = f[Len(MapList)]
                /\ Strides(f, Len(MapList), s, k, press)
<1> DEFINE f == CHOOSE f : Goes(f, Len(MapList), s, k, press)
<1>1. Len(MapList) \in Nat
  BY DEF KeysAssumption
<1>2. Goes(f, Len(MapList), s, k, press)
  BY <1>1, GoesExists
<1>3. K!Search(s, k, press) = f[Len(MapList)]
  BY Zenon DEF K!Search, Goes
<1> HIDE DEF f
<1>4. Strides(f, Len(MapList), s, k, press)
  BY <1>1, <1>2, GoesStrides
<1> QED
  BY <1>3, <1>4

(* What the search of a key comes to.                                      *)
LEMMA SearchKeeps ==
  ASSUME KeysAssumption, NEW s, NEW d, NEW t, NEW S, NEW D, Going(s, d, t, S, D),
         NEW k \in Key, NEW press \in BOOLEAN, press => k \in D
  PROVE  LET r == K!Search(s, k, press)
         IN  /\ Going(r, d, t, S, D)
             /\ ~press => /\ r.handled = s.handled
                          /\ \A m \in MapNames : r.maps[m].repeated = None
<1> DEFINE N == Len(MapList)
<1>1. N \in Nat /\ \A i \in 1 .. N : MapList[i] \in MapNames
  BY DEF KeysAssumption
<1>6. PICK f : K!Search(s, k, press) = f[N] /\ Strides(f, N, s, k, press)
  BY SearchIs
<1>2. /\ K!Search(s, k, press) = f[N] /\ f[0] = s
      /\ \A i \in 1 .. N : f[i] = K!Visit(f[i - 1], MapList[i], k, press)
  BY <1>6 DEF Strides
<1> HIDE DEF N
<1> DEFINE Well(i) == /\ Going(f[i], d, t, S, D)
                      /\ ~press => /\ f[i].handled = s.handled
                                   /\ \A j \in 1 .. i : f[i].maps[MapList[j]].repeated = None
           T == {i \in 0 .. N : ~ Well(i)}
<1>3. T = {}
  <2> SUFFICES ASSUME T # {} PROVE FALSE
    OBVIOUS
  <2>1. T \subseteq Nat
    BY <1>1
  <2> HIDE DEF T
  <2>2. PICK i \in T : \A j \in T : i <= j
    BY <2>1, FirstPlace
  <2>3. i \in 0 .. N /\ ~ Well(i)
    BY <2>2 DEF T
  <2>4. i # 0
    <3>1. Well(0)
      BY <1>2
    <3> QED
      BY <2>3, <3>1
  <2>5. i \in 1 .. N /\ i - 1 \in 0 .. N /\ ~(i <= i - 1)
    BY <1>1, <2>3, <2>4
  <2>6. Well(i - 1)
    BY <2>2, <2>5 DEF T
  <2>7. f[i] = K!Visit(f[i - 1], MapList[i], k, press) /\ MapList[i] \in MapNames
    BY <1>1, <1>2, <2>5
  <2> DEFINE p == f[i - 1]
             m == MapList[i]
  <2>8. Going(p, d, t, S, D) /\ m \in MapNames
    BY <2>6, <2>7
  <2>9. /\ Going(f[i], d, t, S, D)
        /\ ~press => /\ f[i].handled = p.handled /\ f[i].maps[m].repeated = None
                     /\ \A n \in MapNames :
                          p.maps[n].repeated = None => f[i].maps[n].repeated = None
    <3> HIDE DEF p, m
    <3> QED
      BY <2>7, <2>8, VisitKeeps DEF p, m
  <2>10. ASSUME ~press, NEW j \in 1 .. i
         PROVE  f[i].maps[MapList[j]].repeated = None
    <3>1. CASE j = i
      BY <2>9, <2>10, <3>1, Zenon
    <3>2. CASE j # i
      <4>1. j \in 1 .. i - 1 /\ j \in 1 .. N
        BY <1>1, <2>3, <2>5, <3>2
      <4>2. p.maps[MapList[j]].repeated = None /\ MapList[j] \in MapNames
        BY <1>1, <2>6, <2>10, <4>1
      <4> QED
        BY <2>9, <2>10, <4>2
    <3> QED
      BY <3>1, <3>2
  <2>11. Well(i)
    BY <2>6, <2>9, <2>10
  <2> QED
    BY <2>3, <2>11
<1>4. Well(N)
  BY <1>1, <1>3
<1>5. ASSUME NEW m \in MapNames PROVE \E j \in 1 .. N : MapList[j] = m
  BY DEF MapNames, K!MapNames, K!ToSet, N, KeysAssumption
<1> QED
  BY <1>2, <1>4, <1>5

(***************************************************************************)
(* The tracker                                                             *)
(***************************************************************************)

LEMMA InTracker ==
  ASSUME NEW t \in Seq(Key)
  PROVE  \A x : x \in K!ToSet(t) <=> \E i \in 1 .. Len(t) : t[i] = x
BY DEF K!ToSet

(* A key is remembered, and the last that was is forgotten again.          *)
LEMMA TrackMore ==
  ASSUME NEW t \in Seq(Key), NEW k \in Key
  PROVE  /\ Append(t, k) \in Seq(Key) /\ K!Front(Append(t, k)) = t
         /\ \A x : x \in K!ToSet(Append(t, k)) <=> x \in K!ToSet(t) \/ x = k
<1> DEFINE a == Append(t, k)
<1>1. /\ a \in Seq(Key) /\ Len(a) = Len(t) + 1 /\ a[Len(t) + 1] = k
      /\ \A i \in 1 .. Len(t) : a[i] = t[i]
  OBVIOUS
<1>2. SubSeq(a, 1, Len(a) - 1) = t
  BY <1>1, AppendProperties
<1> HIDE DEF a
<1>3. ASSUME NEW x PROVE x \in K!ToSet(a) <=> x \in K!ToSet(t) \/ x = k
  <2>1. (\E i \in 1 .. Len(a) : a[i] = x) <=> (\E i \in 1 .. Len(t) : t[i] = x) \/ x = k
    BY <1>1
  <2> QED
    BY <1>1, <2>1, InTracker
<1> QED
  BY <1>1, <1>2, <1>3 DEF a, K!Front

(* A key that is released is forgotten.                                    *)
LEMMA PoppedIs ==
  ASSUME NEW t \in Seq(Key), NEW k \in Key,
         \A i, j \in 1 .. Len(t) : t[i] = t[j] => i = j
  PROVE  LET r == K!Popped(t, k)
         IN  /\ r \in Seq(Key)
             /\ \A x : x \in K!ToSet(r) <=> x \in K!ToSet(t) /\ x # k
             /\ \A i, j \in 1 .. Len(r) : r[i] = r[j] => i = j
<1> DEFINE r == K!Popped(t, k)
<1>1. CASE k \notin K!ToSet(t)
  BY <1>1 DEF K!Popped
<1>2. CASE k \in K!ToSet(t)
  <2> DEFINE i == CHOOSE i \in DOMAIN t : t[i] = k
  <2>1. DOMAIN t = 1 .. Len(t)
    OBVIOUS
  <2>2. i \in 1 .. Len(t) /\ t[i] = k
    BY <1>2, <2>1, InTracker
  <2>3. r = SubSeq(t, 1, i - 1) \o SubSeq(t, i + 1, Len(t))
    BY <1>2 DEF K!Popped, K!RemoveAt
  <2> HIDE DEF i, r
  <2>a. /\ r \in Seq(Key) /\ Len(r) = Len(t) - 1
        /\ \A j \in 1 .. Len(t) - 1 : r[j] = IF j < i THEN t[j] ELSE t[j + 1]
    BY <2>2, <2>3, RemovedIs
  <2>b. /\ \A n \in 1 .. Len(r) : \E j \in 1 .. Len(t) : r[n] = t[j]
        /\ \A j \in 1 .. Len(t) : j # i => \E n \in 1 .. Len(r) : r[n] = t[j]
    BY <2>2, <2>3, ListWithout
  <2>4. /\ r \in Seq(Key) /\ Len(r) = Len(t) - 1
        /\ \A j \in 1 .. Len(t) - 1 : r[j] = IF j < i THEN t[j] ELSE t[j + 1]
        /\ \A n \in 1 .. Len(r) : \E j \in 1 .. Len(t) : r[n] = t[j]
        /\ \A j \in 1 .. Len(t) : j # i => \E n \in 1 .. Len(r) : r[n] = t[j]
    BY <2>a, <2>b
  <2>5. ASSUME NEW a \in 1 .. Len(r), NEW b \in 1 .. Len(r), r[a] = r[b]
        PROVE  a = b
    <3>1. /\ a \in 1 .. Len(t) - 1 /\ b \in 1 .. Len(t) - 1
          /\ a \in 1 .. Len(t) /\ a + 1 \in 1 .. Len(t)
          /\ b \in 1 .. Len(t) /\ b + 1 \in 1 .. Len(t)
      BY <2>4
    <3>2. /\ r[a] = IF a < i THEN t[a] ELSE t[a + 1]
          /\ r[b] = IF b < i THEN t[b] ELSE t[b + 1]
      BY <2>4, <3>1
    <3>3. \A x, y \in 1 .. Len(t) : t[x] = t[y] => x = y
      OBVIOUS
    <3>4. CASE a < i /\ b < i
      BY <2>5, <3>1, <3>2, <3>3, <3>4
    <3>5. CASE a < i /\ ~(b < i)
      <4>1. t[a] = t[b + 1]
        BY <2>5, <3>2, <3>5
      <4> QED
        BY <2>2, <3>1, <3>3, <3>5, <4>1
    <3>6. CASE ~(a < i) /\ b < i
      <4>1. t[a + 1] = t[b]
        BY <2>5, <3>2, <3>6
      <4> QED
        BY <2>2, <3>1, <3>3, <3>6, <4>1
    <3>7. CASE ~(a < i) /\ ~(b < i)
      <4>1. t[a + 1] = t[b + 1]
        BY <2>5, <3>2, <3>7
      <4> QED
        BY <2>2, <3>1, <3>3, <3>7, <4>1
    <3> QED
      BY <3>4, <3>5, <3>6, <3>7
  <2>6. ASSUME NEW n \in 1 .. Len(r) PROVE r[n] # k
    <3>1. n \in 1 .. Len(t) - 1 /\ n \in 1 .. Len(t) /\ n + 1 \in 1 .. Len(t)
      BY <2>4
    <3>2. r[n] = IF n < i THEN t[n] ELSE t[n + 1]
      BY <2>4, <3>1
    <3> QED
      BY <2>2, <3>1, <3>2
  <2>7. \A x : x \in K!ToSet(r) <=> x \in K!ToSet(t) /\ x # k
    <3> TAKE x
    <3>1. x \in K!ToSet(r) <=> \E n \in 1 .. Len(r) : r[n] = x
      BY <2>4, InTracker
    <3>2. x \in K!ToSet(t) <=> \E j \in 1 .. Len(t) : t[j] = x
      BY InTracker
    <3>3. ASSUME x \in K!ToSet(r) PROVE x \in K!ToSet(t) /\ x # k
      <4>1. PICK n \in 1 .. Len(r) : r[n] = x
        BY <3>1, <3>3
      <4>2. PICK j \in 1 .. Len(t) : r[n] = t[j]
        BY <2>b
      <4> QED
        BY <2>6, <3>2, <4>1, <4>2
    <3>4. ASSUME x \in K!ToSet(t), x # k PROVE x \in K!ToSet(r)
      <4>1. PICK j \in 1 .. Len(t) : t[j] = x
        BY <3>2, <3>4
      <4>2. j # i
        BY <2>2, <3>4, <4>1
      <4>3. PICK n \in 1 .. Len(r) : r[n] = t[j]
        BY <2>b, <4>2
      <4> QED
        BY <3>1, <4>1, <4>3
    <3> QED
      BY <3>3, <3>4
  <2> QED
    BY <2>4, <2>5, <2>7 DEF r
<1> QED
  BY <1>1, <1>2

(***************************************************************************)
(* The steps                                                               *)
(***************************************************************************)

LEMMA PressKeeps ==
  ASSUME KeysAssumption, KeysInv, NEW k \in Key, K!Press(k)
  PROVE  KeysInv'
<1> DEFINE t == Append(board.tracker, k)
           d == board.down \cup {k}
           s == K!Holding(d, t, FALSE)
           c == [board EXCEPT !.down = d, !.tracker = t]
           run == K!Search(s, k, TRUE)
           b == run.board
<1>1. /\ board \in Boards /\ maps \in [MapNames -> KeyMaps] /\ Repeats(maps, board.down)
      /\ Known(board, {}) /\ Remembers(board) /\ k \notin board.down
  BY DEF KeysInv, KeysWell, K!Press
<1>2. /\ board.tracker \in Seq(Key) /\ board.down \subseteq Key
      /\ board.focus \in Surface \cup {None} /\ board.view \subseteq Key
      /\ board.im \subseteq Key
  BY <1>1 DEF Boards
<1>3. /\ t \in Seq(Key) /\ K!Front(t) = board.tracker
      /\ \A x : x \in K!ToSet(t) <=> x \in K!ToSet(board.tracker) \/ x = k
  BY <1>2, TrackMore
<1>4. s = [maps |-> maps, board |-> c, handled |-> FALSE]
  BY DEF K!Holding
<1> HIDE DEF t
<1>5. /\ c \in Boards /\ c.down = d /\ c.tracker = t /\ c.focus = board.focus
      /\ c.view = board.view /\ c.im = board.im
  BY <1>1, <1>2, <1>3 DEF Boards
<1> HIDE DEF c
<1>6. Untaken(c) = Untaken(board)
  BY <1>1, <1>3, <1>5 DEF Untaken
<1>7. PICK S : S = {}
  OBVIOUS
<1>8. Known(c, S)
  BY <1>1, <1>5, <1>6, <1>7 DEF Known
<1>9. Repeats(maps, d)
  BY <1>1 DEF Repeats
<1>10. Going(s, d, t, S, d)
  <2> HIDE DEF s, d
  <2>1. s \in KeyWorlds /\ s.board = c /\ s.maps = maps
    BY <1>1, <1>4, <1>5 DEF KeyWorlds
  <2> QED
    BY <1>5, <1>8, <1>9, <2>1 DEF Going
<1> HIDE DEF s
<1>11. Going(run, d, t, S, d)
  <2>1. k \in d /\ TRUE \in BOOLEAN
    OBVIOUS
  <2> HIDE DEF d
  <2> QED
    BY <1>10, <2>1, SearchKeeps
<1>12. /\ maps' = K!Pressed(k).maps /\ board' = K!Deliver(K!Pressed(k), k, TRUE)
       /\ UNCHANGED <<grab, barred>>
       /\ K!Pressed(k) = IF run.handled THEN run ELSE [run EXCEPT !.board.tracker = K!Front(@)]
  BY Zenon DEF K!Press, K!Pressed, K!Untracked, s, t
<1> HIDE DEF run
<1>13. /\ run \in KeyWorlds /\ b \in Boards /\ run.maps \in [MapNames -> KeyMaps]
       /\ Known(b, {}) /\ Repeats(run.maps, d) /\ b.down = d /\ b.tracker = t
       /\ run.handled \in BOOLEAN
  BY <1>7, <1>11 DEF Going, KeyWorlds
<1>14. CASE run.handled
  <2>1. maps' = run.maps /\ board' = b
    BY <1>12, <1>14 DEF K!Deliver
  <2>2. Remembers(b)
    <3>1. K!ToSet(t) \subseteq d
      BY <1>1, <1>3 DEF Remembers
    <3>2. \A i, j \in 1 .. Len(t) : t[i] = t[j] => i = j
      <4>1. \A i \in 1 .. Len(board.tracker) : board.tracker[i] \in board.down
        BY <1>1, <1>2, InTracker DEF Remembers
      <4>2. /\ Len(t) = Len(board.tracker) + 1 /\ t[Len(t)] = k
            /\ \A i \in 1 .. Len(board.tracker) : t[i] = board.tracker[i]
        BY <1>2 DEF t
      <4> QED
        BY <1>1, <1>2, <4>1, <4>2 DEF Remembers
    <3> QED
      BY <1>13, <3>1, <3>2 DEF Remembers
  <2>3. KeysWell(run.maps, b)
    BY <1>13, <2>2 DEF KeysWell
  <2> QED
    BY <1>12, <2>1, <2>3 DEF KeysInv
<1>15. CASE ~run.handled
  <2> DEFINE e == [b EXCEPT !.tracker = board.tracker]
             p == K!Pressed(k)
             z == K!Deliver(p, k, TRUE)
             view == IF ~grab /\ b.focus # None THEN b.view \cup {k}
                     ELSE IF ~grab THEN b.view \ {k} ELSE b.view
             im == IF grab THEN b.im \cup {k} ELSE b.im \ {k}
  <2>1. p = [run EXCEPT !.board = e]
    BY <1>3, <1>12, <1>13, <1>15 DEF KeyWorlds, Boards
  <2>2. p.maps = run.maps /\ p.board = e /\ ~p.handled
    BY <1>13, <1>15, <2>1 DEF KeyWorlds
  <2> HIDE DEF p
  <2>3. /\ e \in Boards /\ e.down = d /\ e.tracker = board.tracker /\ e.focus = b.focus
        /\ e.view = b.view /\ e.im = b.im
    BY <1>2, <1>13 DEF Boards
  <2> HIDE DEF e
  <2>4. /\ z \in Boards /\ z.down = d /\ z.tracker = board.tracker /\ z.focus = b.focus
        /\ z.view = view /\ z.im = im
    BY <2>2, <2>3 DEF K!Deliver, K!Notify, Boards
  <2> HIDE DEF z, view, im
  <2>5. k \notin Untaken(b) /\ Untaken(z) = Untaken(b) \cup {k}
    BY <1>1, <1>3, <1>13, <2>4 DEF Untaken, Remembers
  <2>6. Known(z, {})
    BY <1>13, <2>4, <2>5 DEF Known, view, im
  <2>7. Remembers(z)
    BY <1>1, <2>4 DEF Remembers
  <2>8. KeysWell(run.maps, z)
    BY <1>13, <2>4, <2>6, <2>7 DEF KeysWell
  <2> QED
    BY <1>12, <2>2, <2>8 DEF KeysInv, p, z
<1> QED
  BY <1>13, <1>14, <1>15

LEMMA ReleaseKeeps ==
  ASSUME KeysAssumption, KeysInv, NEW k \in Key, K!Release(k)
  PROVE  KeysInv'
<1> DEFINE t == K!Popped(board.tracker, k)
           d == board.down \ {k}
           D == board.down
           taken == k \in K!ToSet(board.tracker)
           s == K!Holding(d, t, taken)
           c == [board EXCEPT !.down = d, !.tracker = t]
           run == K!Search(s, k, FALSE)
           b == run.board
           z == K!Deliver(run, k, FALSE)
<1>1. /\ board \in Boards /\ maps \in [MapNames -> KeyMaps] /\ Repeats(maps, D)
      /\ Known(board, {}) /\ Remembers(board) /\ k \in board.down
  BY DEF KeysInv, KeysWell, K!Release
<1>2. /\ board.tracker \in Seq(Key) /\ board.down \subseteq Key
      /\ board.focus \in Surface \cup {None} /\ board.view \subseteq Key
      /\ board.im \subseteq Key
  BY <1>1 DEF Boards
<1>3. /\ t \in Seq(Key)
      /\ \A x : x \in K!ToSet(t) <=> x \in K!ToSet(board.tracker) /\ x # k
      /\ \A i, j \in 1 .. Len(t) : t[i] = t[j] => i = j
  BY <1>1, <1>2, PoppedIs DEF Remembers
<1>4. s = [maps |-> maps, board |-> c, handled |-> taken]
  BY DEF K!Holding
<1>5. taken \in BOOLEAN
  OBVIOUS
<1>6. /\ maps' = run.maps /\ board' = z /\ UNCHANGED <<grab, barred>>
  BY Zenon DEF K!Release, K!Released, K!Up
<1> HIDE DEF t
<1>7. /\ c \in Boards /\ c.down = d /\ c.tracker = t /\ c.focus = board.focus
      /\ c.view = board.view /\ c.im = board.im
  BY <1>1, <1>2, <1>3 DEF Boards
<1> HIDE DEF c, s
<1>8. Untaken(c) = Untaken(board) \ {k}
  BY <1>1, <1>3, <1>7 DEF Untaken
<1>9. taken <=> k \notin Untaken(board)
  BY <1>1 DEF Untaken
<1>10. PICK S : S = IF taken THEN {} ELSE {k}
  OBVIOUS
<1> HIDE DEF taken
<1>11. Known(c, S)
  BY <1>1, <1>7, <1>8, <1>9, <1>10 DEF Known
<1>12. Going(s, d, t, S, D)
  <2> HIDE DEF d, D
  <2>1. s \in KeyWorlds /\ s.board = c /\ s.maps = maps
    BY <1>1, <1>4, <1>5, <1>7 DEF KeyWorlds
  <2> QED
    BY <1>1, <1>7, <1>11, <2>1 DEF Going
<1>13. /\ Going(run, d, t, S, D) /\ run.handled = s.handled
       /\ \A m \in MapNames : run.maps[m].repeated = None
  <2>1. FALSE \in BOOLEAN /\ ~FALSE
    OBVIOUS
  <2> HIDE DEF d, D
  <2> QED
    BY <1>12, <2>1, SearchKeeps
<1>14. run.handled = taken
  BY <1>4, <1>13
<1> HIDE DEF run
<1>15. /\ run \in KeyWorlds /\ b \in Boards /\ run.maps \in [MapNames -> KeyMaps]
       /\ Known(b, S) /\ b.down = d /\ b.tracker = t
  BY <1>13 DEF Going, KeyWorlds
<1>16. Repeats(run.maps, d)
  BY <1>13 DEF Repeats
<1>17. /\ z \in Boards /\ z.down = d /\ z.tracker = t /\ z.focus = b.focus
       /\ z.view = IF taken THEN b.view ELSE b.view \ {k}
       /\ z.im = IF taken THEN b.im ELSE b.im \ {k}
  <2> HIDE DEF d
  <2>1. CASE taken
    BY <1>14, <1>15, <2>1 DEF K!Deliver
  <2>2. CASE ~taken
    <3>1. z = [K!Notify(b, k, FALSE) EXCEPT !.im = @ \ {k}]
      BY <1>14, <2>2 DEF K!Deliver
    <3> HIDE DEF b, z
    <3> QED
      BY <1>15, <2>2, <3>1 DEF K!Notify, Boards
  <2> QED
    BY <2>1, <2>2
<1> HIDE DEF z
<1>18. Untaken(z) = Untaken(b)
  BY <1>15, <1>17 DEF Untaken
<1> HIDE DEF b
<1>19. Known(z, {})
  BY <1>5, <1>10, <1>15, <1>17, <1>18 DEF Known
<1>20. Remembers(z)
  <2>1. K!ToSet(t) \subseteq d
    BY <1>1, <1>3 DEF Remembers
  <2> QED
    BY <1>3, <1>17, <2>1 DEF Remembers
<1>21. KeysWell(run.maps, z)
  <2> HIDE DEF d
  <2> QED
    BY <1>15, <1>16, <1>17, <1>19, <1>20 DEF KeysWell
<1> QED
  BY <1>6, <1>21 DEF KeysInv

(* What runs by the timer of its repetition runs for a key that is held.   *)
LEMMA RepeatKeeps ==
  ASSUME KeysAssumption, KeysInv, NEW m \in MapNames, K!RepeatLoop(m)
  PROVE  KeysInv'
<1> DEFINE k == maps[m].repeated
           s == K!Untouched
           r == K!Execute(s, m, k, TRUE)
           D == board.down
<1>1. /\ board \in Boards /\ maps \in [MapNames -> KeyMaps] /\ Repeats(maps, D)
      /\ Known(board, {}) /\ Remembers(board) /\ k # None
  BY DEF KeysInv, KeysWell, K!RepeatLoop
<1>2. k \in Key /\ k \in D /\ maps[m].table[k] # None
  BY <1>1 DEF Repeats, KeyMaps
<1>3. s \in KeyWorlds /\ s.maps = maps /\ s.board = board
  BY <1>1 DEF K!Untouched, KeyWorlds
<1>4. maps' = r.maps /\ board' = r.board /\ UNCHANGED <<grab, barred>>
  BY Zenon DEF K!RepeatLoop
<1>5. PICK S : S = {}
  OBVIOUS
<1> HIDE DEF k, s, D
<1>6. /\ r \in KeyWorlds /\ Known(r.board, S) /\ Repeats(r.maps, D)
      /\ r.board.down = board.down /\ r.board.tracker = board.tracker
  <2>1. TRUE \in BOOLEAN /\ s.maps[m].table[k] # None /\ Known(s.board, S) /\ Repeats(s.maps, D)
    BY <1>1, <1>2, <1>3, <1>5
  <2> QED
    BY <1>2, <1>3, <2>1, ExecuteKeeps
<1> HIDE DEF r
<1>7. KeysWell(r.maps, r.board)
  BY <1>1, <1>5, <1>6 DEF KeysWell, KeyWorlds, Remembers, D
<1> QED
  BY <1>4, <1>7 DEF KeysInv

LEMMA RefocusKeeps ==
  ASSUME KeysInv, NEW s \in Surface \cup {None}, K!Refocus(s)
  PROVE  KeysInv'
<1>1. PICK S : S = {}
  OBVIOUS
<1> DEFINE b == K!Enter(board, s)
<1>2. board \in Boards /\ Known(board, S)
  BY <1>1 DEF KeysInv, KeysWell
<1>3. b \in Boards /\ Known(b, S) /\ b.down = board.down /\ b.tracker = board.tracker
  BY <1>2, EnterKnows
<1>4. board' = b /\ UNCHANGED <<maps, grab, barred>>
  BY DEF K!Refocus
<1> HIDE DEF b
<1>5. KeysWell(maps, b)
  BY <1>1, <1>3 DEF KeysInv, KeysWell, Remembers
<1> QED
  BY <1>4, <1>5 DEF KeysInv

LEMMA RegisterKeeps ==
  ASSUME KeysAssumption, KeysInv, NEW m \in MapNames, NEW k \in Key, NEW bind \in Binding,
         K!Register(m, k, bind)
  PROVE  KeysInv'
<1> DEFINE f == [maps EXCEPT ![m].table[k] = bind]
<1>1. maps \in [MapNames -> KeyMaps] /\ maps[m].repeated # k
  BY DEF KeysInv, KeysWell, K!Register
<1>2. /\ f \in [MapNames -> KeyMaps]
      /\ \A n \in MapNames : n # m => f[n] = maps[n]
      /\ f[m].repeated = maps[m].repeated
      /\ \A j \in Key : j # k => f[m].table[j] = maps[m].table[j]
  BY <1>1 DEF KeyMaps
<1>3. maps' = f /\ UNCHANGED <<board, grab, barred>>
  BY DEF K!Register
<1> HIDE DEF f
<1>4. Repeats(f, board.down)
  BY <1>1, <1>2 DEF KeysInv, KeysWell, Repeats, Boards
<1> QED
  BY <1>2, <1>3, <1>4 DEF KeysInv, KeysWell

LEMMA ClearKeeps ==
  ASSUME KeysInv, NEW m \in MapNames, K!ClearMap(m)
  PROVE  KeysInv'
<1> DEFINE e == [k \in Key |-> None]
           f == [maps EXCEPT ![m].table = e]
<1>1. maps \in [MapNames -> KeyMaps] /\ maps[m].repeated = None
  BY DEF KeysInv, KeysWell, K!ClearMap
<1>2. e \in [Key -> Binding \cup {None}]
  OBVIOUS
<1>3. maps' = f /\ UNCHANGED <<board, grab, barred>>
  BY DEF K!ClearMap
<1> HIDE DEF e
<1>4. /\ f \in [MapNames -> KeyMaps]
      /\ \A n \in MapNames : n # m => f[n] = maps[n]
      /\ f[m].repeated = None
  BY <1>1, <1>2 DEF KeyMaps
<1> HIDE DEF f
<1>5. Repeats(f, board.down)
  BY <1>1, <1>4 DEF KeysInv, KeysWell, Repeats
<1> QED
  BY <1>3, <1>4, <1>5 DEF KeysInv, KeysWell

LEMMA ActiveKeeps ==
  ASSUME KeysInv, NEW m \in MapNames, K!ActiveOnly(m)
  PROVE  KeysInv'
<1> DEFINE f == [n \in MapNames |-> IF n = K!Main THEN maps[n]
                                    ELSE [maps[n] EXCEPT !.active = n = m]]
<1>1. maps \in [MapNames -> KeyMaps]
  BY DEF KeysInv, KeysWell
<1>2. maps' = f /\ UNCHANGED <<board, grab, barred>>
  BY DEF K!ActiveOnly, MapNames
<1>3. /\ f \in [MapNames -> KeyMaps]
      /\ \A n \in MapNames : f[n].repeated = maps[n].repeated /\ f[n].table = maps[n].table
  BY <1>1 DEF KeyMaps
<1> HIDE DEF f
<1>4. Repeats(f, board.down)
  BY <1>3 DEF KeysInv, KeysWell, Repeats
<1> QED
  BY <1>2, <1>3, <1>4 DEF KeysInv, KeysWell

LEMMA KeysStutter == KeysInv /\ UNCHANGED K!keyVars => KeysInv'
BY DEF KeysInv, K!keyVars

LEMMA KeysStart == K!KeysInit => KeysInv
<1> SUFFICES ASSUME K!KeysInit PROVE KeysInv
  OBVIOUS
<1> DEFINE e == [k \in Key |-> None]
           p == [active |-> TRUE, repeated |-> None, table |-> e]
<1>1. /\ maps = [m \in MapNames |-> p]
      /\ board = [down |-> {}, tracker |-> <<>>, focus |-> None, view |-> {}, im |-> {}]
      /\ grab = FALSE /\ barred = FALSE
  BY DEF K!KeysInit, MapNames
<1>2. e \in [Key -> Binding \cup {None}]
  OBVIOUS
<1> HIDE DEF e
<1>3. p \in KeyMaps /\ p.repeated = None
  BY <1>2 DEF KeyMaps
<1> HIDE DEF p
<1>4. maps \in [MapNames -> KeyMaps] /\ Repeats(maps, board.down)
  BY <1>1, <1>3 DEF Repeats
<1>5. <<>> \in Seq(Key) /\ Len(<<>>) = 0
  OBVIOUS
<1>6. board \in Boards /\ Remembers(board) /\ Known(board, {})
  BY <1>1, <1>5 DEF Boards, Remembers, Known, Untaken, K!ToSet
<1> QED
  BY <1>1, <1>4, <1>6 DEF KeysInv, KeysWell

LEMMA KeysStep == KeysAssumption /\ KeysInv /\ K!KeysNext => KeysInv'
<1> SUFFICES ASSUME KeysAssumption, KeysInv, K!KeysNext PROVE KeysInv'
  OBVIOUS
<1>1. ASSUME NEW k \in Key, K!Press(k) \/ K!Release(k) PROVE KeysInv'
  BY <1>1, PressKeeps, ReleaseKeeps
<1>2. ASSUME NEW m \in MapNames, K!RepeatLoop(m) \/ K!ClearMap(m) \/ K!ActiveOnly(m)
      PROVE  KeysInv'
  BY <1>2, RepeatKeeps, ClearKeeps, ActiveKeeps
<1>3. ASSUME NEW m \in MapNames, NEW k \in Key, NEW bind \in Binding, K!Register(m, k, bind)
      PROVE  KeysInv'
  BY <1>3, RegisterKeeps DEF KeysAssumption
<1>4. ASSUME NEW s \in Surface \cup {None}, K!Refocus(s) PROVE KeysInv'
  BY <1>4, RefocusKeeps
<1>5. ASSUME K!GrabKeyboard \/ K!Inhibit PROVE KeysInv'
  BY <1>5 DEF K!GrabKeyboard, K!Inhibit, KeysInv
<1> QED
  BY <1>1, <1>2, <1>3, <1>4, <1>5 DEF K!KeysNext, MapNames

(* What the invariant says of the keys.                                    *)
LEMMA KeysImply == KeysInv => K!ClientSeesHeldKeys /\ K!RepeatNeedsAKey
BY DEF KeysInv, KeysWell, Known, Repeats, Untaken, K!ClientSeesHeldKeys,
       K!RepeatNeedsAKey, MapNames

(***************************************************************************)
(* Devices and the outputs that they are mapped to                         *)
(***************************************************************************)

CONSTANTS Keyboard, Pointer, Touch, Tablet, Other, Libinput, Named, Display, Builtin, Place
VARIABLES devices, target, caps, untold, row, corner, pending, adrift

D == INSTANCE Devices WITH plugged <- devices, outputs <- row, place <- corner,
                           Output <- Display

(* NULL is no output; a device that has the name of an output is not a     *)
(* keyboard or a switch, and no device is of two kinds that differ in what *)
(* is done when it comes.                                                  *)
DevicesAssumption ==
    /\ None \notin Display /\ Builtin \subseteq Display /\ Place \subseteq [x : Int, y : Int]
    /\ Named \in [DOMAIN Named -> Display]
    /\ (Keyboard \cup Other) \cap (Pointer \cup Touch \cup Tablet \cup DOMAIN Named) = {}
    /\ Tablet \cap Touch = {}

Distinct(s) == \A i, j \in 1 .. Len(s) : s[i] = s[j] => i = j

(* None is listed behind one that it is left of and above.                 *)
Settled(s) ==
    \A i, j \in 1 .. Len(s) : i < j /\ D!InFront(s[j], s[i]) => D!InFront(s[i], s[j])

DevicesType ==
    /\ devices \subseteq D!Device /\ target \in [D!Device -> Display \cup {None}]
    /\ row \in Seq(Display) /\ Distinct(row) /\ corner \in [Display -> [x : Int, y : Int]]
    /\ pending \in BOOLEAN

(* A device that is not there is not mapped.                               *)
DevicesInv ==
    /\ DevicesType
    /\ \A d \in D!Device : target[d] # None =>
         d \in devices /\ target[d] \in D!Plugged /\ D!IsFor(d, target[d])
    /\ \A d \in (devices \cap Libinput) \ adrift :
         (\E o \in D!Plugged : D!IsFor(d, o)) => target[d] # None
    /\ devices \cap Touch # {} => "touch" \in caps
    /\ (devices \cap Keyboard) \ untold # {} => "keyboard" \in caps
    /\ ~pending => Settled(row)

LEMMA DevicesImplies == ASSUME DevicesInv PROVE D!DevicesAreKnown
<1>1. DOMAIN row = 1 .. Len(row)
  BY DEF DevicesInv, DevicesType
<1>2. \A d \in devices : d \in D!Device
  BY DEF DevicesInv, DevicesType
<1>3. ~pending => \A i, j \in DOMAIN row :
            i < j /\ D!InFront(row[j], row[i]) => D!InFront(row[i], row[j])
  BY <1>1 DEF DevicesInv, Settled
<1> QED
  BY <1>2, <1>3 DEF DevicesInv, D!DevicesAreKnown

LEMMA DevicesStart == ASSUME D!DevicesInit PROVE DevicesInv
<1>1. /\ devices = {} /\ target = [d \in D!Device |-> None] /\ row = <<>> /\ pending = FALSE
      /\ corner = [o \in Display |-> D!Nowhere]
  BY DEF D!DevicesInit
<1>2. D!Nowhere \in [x : Int, y : Int]
  BY DEF D!Nowhere
<1>3. row \in Seq(Display) /\ Len(row) = 0 /\ 1 .. Len(row) = {}
  BY <1>1
<1>4. Distinct(row) /\ Settled(row)
  BY <1>3 DEF Distinct, Settled
<1>5. target \in [D!Device -> Display \cup {None}] /\ \A d \in D!Device : target[d] = None
  BY <1>1
<1>6. corner \in [Display -> [x : Int, y : Int]] /\ pending \in BOOLEAN
  BY <1>1, <1>2
<1>7. DevicesType
  BY <1>1, <1>3, <1>4, <1>5, <1>6 DEF DevicesType
<1> QED
  BY <1>1, <1>4, <1>5, <1>7 DEF DevicesInv

LEMMA DevicesStutter ==
  ASSUME DevicesInv,
         UNCHANGED <<devices, target, caps, untold, row, corner, pending, adrift>>
  PROVE  DevicesInv'
BY DEF DevicesInv, DevicesType, Distinct, Settled, D!InFront, D!Plugged

(* Who is plugged is who is in the list.                                   *)
LEMMA PluggedIs ==
  ASSUME NEW s \in Seq(Display)
  PROVE  {s[i] : i \in DOMAIN s} = {s[i] : i \in 1 .. Len(s)}
  OBVIOUS

(* A device that is for an output that is there is mapped to one.          *)
LEMMA MappedIs ==
  ASSUME DevicesAssumption, DevicesType, NEW ds, NEW outs \in Seq(Display), NEW d \in D!Device
  PROVE  LET m == D!Mapped(ds, outs)
         IN /\ \/ m[d] = target[d]
               \/ d \in ds /\ D!IsFor(d, m[d]) /\ m[d] \in {outs[i] : i \in 1 .. Len(outs)}
            /\ d \in ds /\ (\E i \in 1 .. Len(outs) : D!IsFor(d, outs[i])) => m[d] # None
            /\ m \in [D!Device -> Display \cup {None}]
            /\ d \notin ds => m[d] = target[d]
<1> DEFINE m == D!Mapped(ds, outs)
           name(e) == D!OutputName(e, outs)
           found == {i \in 1 .. Len(outs) : outs[i] \in Builtin}
           first == CHOOSE i \in found : \A j \in found : i <= j
           there(e) == \E i \in 1 .. Len(outs) : outs[i] = name(e)
<1>1. DOMAIN outs = 1 .. Len(outs) /\ Len(outs) \in Nat /\ \A i \in 1 .. Len(outs) : outs[i] \in Display
  OBVIOUS
<1>2. m = [e \in D!Device |-> IF e \in ds /\ there(e) THEN name(e) ELSE target[e]]
  BY <1>1 DEF D!Mapped
<1>3. D!FirstBuiltin(outs) = IF found = {} THEN None ELSE outs[first]
  BY <1>1 DEF D!FirstBuiltin
<1>4. found # {} => first \in found
  <2>1. found \subseteq Nat
    OBVIOUS
  <2> HIDE DEF found
  <2> QED
    BY <2>1, FirstPlace
<1>5. ASSUME NEW e \in D!Device, there(e) PROVE D!IsFor(e, name(e)) /\ name(e) \in Display
  <2>1. name(e) \in Display /\ name(e) # None
    BY <1>1, <1>5 DEF DevicesAssumption
  <2>2. CASE e \in DOMAIN Named
    BY <2>1, <2>2 DEF D!OutputName, D!IsFor
  <2>3. CASE e \notin DOMAIN Named
    <3>1. e \in Touch \cup Tablet /\ name(e) = D!FirstBuiltin(outs)
      BY <2>1, <2>3 DEF D!OutputName
    <3>2. name(e) \in Builtin
      <4> HIDE DEF first
      <4> QED
        BY <1>3, <1>4, <2>1, <3>1
    <3> QED
      BY <2>1, <2>3, <3>1, <3>2 DEF D!IsFor
  <2> QED
    BY <2>2, <2>3
<1>6. ASSUME NEW e \in D!Device, NEW i \in 1 .. Len(outs), D!IsFor(e, outs[i])
      PROVE  there(e)
  <2>1. CASE e \in DOMAIN Named
    BY <1>6, <2>1 DEF D!OutputName, D!IsFor
  <2>2. CASE e \notin DOMAIN Named
    <3>1. e \in Touch \cup Tablet /\ outs[i] \in Builtin
      BY <1>6, <2>2 DEF D!IsFor
    <3>2. i \in found
      BY <3>1
    <3>3. name(e) = outs[first] /\ first \in 1 .. Len(outs)
      <4>1. name(e) = D!FirstBuiltin(outs)
        BY <2>2, <3>1 DEF D!OutputName
      <4>2. first \in found
        BY <1>4, <3>2
      <4> HIDE DEF first
      <4> QED
        BY <1>3, <3>2, <4>1, <4>2
    <3> QED
      BY <3>3
  <2> QED
    BY <2>1, <2>2
<1> HIDE DEF name, m, found, first
<1>7. m \in [D!Device -> Display \cup {None}]
  BY <1>2, <1>5 DEF DevicesType
<1>8. m[d] = IF d \in ds /\ there(d) THEN name(d) ELSE target[d]
  BY <1>2
<1>9. CASE d \in ds /\ there(d)
  <2>1. m[d] = name(d) /\ D!IsFor(d, name(d)) /\ name(d) \in Display
    BY <1>5, <1>8, <1>9
  <2>2. name(d) \in {outs[i] : i \in 1 .. Len(outs)} /\ name(d) # None
    BY <1>9, <2>1 DEF DevicesAssumption
  <2> QED
    BY <1>7, <1>9, <2>1, <2>2 DEF m
<1>10. CASE ~(d \in ds /\ there(d))
  <2>1. m[d] = target[d]
    BY <1>8, <1>10
  <2>2. ~(d \in ds /\ \E i \in 1 .. Len(outs) : D!IsFor(d, outs[i]))
    BY <1>6, <1>10
  <2> QED
    BY <1>7, <2>1, <2>2 DEF m
<1> QED
  BY <1>9, <1>10

LEMMA RowStays ==
  ASSUME DevicesInv, UNCHANGED <<row, corner, pending>>
  PROVE  /\ D!Plugged' = D!Plugged /\ row' \in Seq(Display) /\ Distinct(row)'
         /\ corner' \in [Display -> [x : Int, y : Int]] /\ pending' \in BOOLEAN
         /\ (~pending => Settled(row))'
BY DEF DevicesInv, DevicesType, Distinct, Settled, D!InFront, D!Plugged

(* A device that comes is mapped to the output that it is for.             *)
LEMMA DeviceMapped ==
  ASSUME DevicesAssumption, DevicesInv, NEW d \in D!Device \ devices,
         devices' = devices \cup {d}, target' = D!Mapped({d}, row),
         UNCHANGED <<row, corner, pending, adrift>>
  PROVE  /\ DevicesType'
         /\ \A e \in D!Device : target'[e] # None =>
              e \in devices' /\ target'[e] \in D!Plugged' /\ D!IsFor(e, target'[e])
         /\ \A e \in (devices' \cap Libinput) \ adrift' :
              (\E o \in D!Plugged' : D!IsFor(e, o)) => target'[e] # None
<1>1. DevicesType /\ row \in Seq(Display)
  BY DEF DevicesInv, DevicesType
<1>2. D!Plugged = {row[i] : i \in 1 .. Len(row)} /\ D!Plugged' = D!Plugged
  BY <1>1, PluggedIs, RowStays DEF D!Plugged
<1>3. ASSUME NEW e \in D!Device
      PROVE  /\ \/ target'[e] = target[e]
                \/ e = d /\ D!IsFor(e, target'[e]) /\ target'[e] \in D!Plugged
             /\ e = d /\ (\E o \in D!Plugged : D!IsFor(e, o)) => target'[e] # None
             /\ e # d => target'[e] = target[e]
             /\ target' \in [D!Device -> Display \cup {None}]
  <2>1. PICK ds : ds = {d}
    OBVIOUS
  <2>2. PICK outs : outs = row
    OBVIOUS
  <2>3. /\ outs \in Seq(Display) /\ target' = D!Mapped(ds, outs)
        /\ D!Plugged = {outs[i] : i \in 1 .. Len(outs)}
        /\ (e \in ds <=> e = d)
    BY <1>1, <1>2, <2>1, <2>2
  <2>5. PICK m : m = D!Mapped(ds, outs)
    OBVIOUS
  <2>6. /\ \/ m[e] = target[e]
           \/ e \in ds /\ D!IsFor(e, m[e]) /\ m[e] \in {outs[i] : i \in 1 .. Len(outs)}
        /\ e \in ds /\ (\E i \in 1 .. Len(outs) : D!IsFor(e, outs[i])) => m[e] # None
        /\ m \in [D!Device -> Display \cup {None}]
        /\ e \notin ds => m[e] = target[e]
    BY <1>1, <2>3, <2>5, MappedIs
  <2>4. /\ \/ target'[e] = target[e]
           \/ e \in ds /\ D!IsFor(e, target'[e]) /\ target'[e] \in D!Plugged
        /\ e \in ds /\ (\E p \in D!Plugged : D!IsFor(e, p)) => target'[e] # None
        /\ target' \in [D!Device -> Display \cup {None}]
        /\ e \notin ds => target'[e] = target[e]
    BY <2>3, <2>5, <2>6
  <2> QED
    BY <2>3, <2>4
<1>4. DevicesType'
  <2>1. target' \in [D!Device -> Display \cup {None}] /\ devices' \subseteq D!Device
    BY <1>1, <1>3 DEF DevicesType
  <2> QED
    BY <2>1, RowStays DEF DevicesType, D!Device
<1>5. ASSUME NEW e \in D!Device, target'[e] # None
      PROVE  e \in devices' /\ target'[e] \in D!Plugged' /\ D!IsFor(e, target'[e])
  BY <1>2, <1>3, <1>5 DEF DevicesInv
<1>6. ASSUME NEW e \in (devices' \cap Libinput) \ adrift', \E o \in D!Plugged' : D!IsFor(e, o)
      PROVE  target'[e] # None
  <2>1. e \in D!Device
    BY <1>1 DEF DevicesType
  <2> QED
    BY <1>2, <1>3, <1>6, <2>1 DEF DevicesInv
<1> QED
  BY <1>4, <1>5, <1>6

LEMMA PointerOrTouchKeeps ==
  ASSUME DevicesAssumption, DevicesInv, NEW d \in D!Device, D!NewPointerOrTouch(d)
  PROVE  DevicesInv'
<1>1. /\ d \in D!Device \ devices /\ devices' = devices \cup {d}
      /\ target' = D!Mapped({d}, row)
      /\ UNCHANGED <<row, corner, pending, adrift>>
  BY DEF D!NewPointerOrTouch
<1>2. caps' = D!Capabilities(devices') /\ untold' = {}
  BY DEF D!NewPointerOrTouch
<1>3. /\ devices' \cap Touch # {} => "touch" \in caps'
      /\ devices' \cap Keyboard # {} => "keyboard" \in caps'
  BY <1>2 DEF D!Capabilities
<1> QED
  BY <1>1, <1>2, <1>3, DeviceMapped, RowStays DEF DevicesInv, D!Device, D!IsFor

LEMMA TabletKeeps ==
  ASSUME DevicesAssumption, DevicesInv, NEW d \in D!Device, D!NewTablet(d)
  PROVE  DevicesInv'
<1>1. /\ d \in D!Device \ devices /\ devices' = devices \cup {d}
      /\ target' = D!Mapped({d}, row)
      /\ UNCHANGED <<row, corner, pending, adrift>>
  BY DEF D!NewTablet
<1>2. caps' = caps /\ untold' = untold /\ d \notin Touch /\ d \notin Keyboard
  BY DEF D!NewTablet, DevicesAssumption
<1>3. /\ devices' \cap Touch = devices \cap Touch
      /\ (devices' \cap Keyboard) \ untold' = (devices \cap Keyboard) \ untold
  BY <1>1, <1>2
<1> QED
  BY <1>1, <1>2, <1>3, DeviceMapped, RowStays DEF DevicesInv, D!Device, D!IsFor

LEMMA OtherKeeps ==
  ASSUME DevicesAssumption, DevicesInv, NEW d \in D!Device, D!NewKeyboardOrOther(d)
  PROVE  DevicesInv'
<1>1. /\ d \in Keyboard \cup Other /\ d \notin devices /\ devices' = devices \cup {d}
      /\ untold' = untold \cup ({d} \cap Keyboard)
      /\ UNCHANGED <<target, caps, row, corner, pending, adrift>>
  BY DEF D!NewKeyboardOrOther
<1>2. d \notin Touch \cup Tablet \cup DOMAIN Named
  BY <1>1 DEF DevicesAssumption
<1>3. \A o : ~ D!IsFor(d, o)
  BY <1>2 DEF D!IsFor
<1>4. /\ devices' \cap Touch = devices \cap Touch
      /\ (devices' \cap Keyboard) \ untold' = (devices \cap Keyboard) \ untold
  BY <1>1, <1>2
<1>5. DevicesType'
  BY <1>1, RowStays DEF DevicesInv, DevicesType, D!Device
<1>6. \A e \in D!Device : target'[e] # None =>
              e \in devices' /\ target'[e] \in D!Plugged' /\ D!IsFor(e, target'[e])
  BY <1>1, RowStays DEF DevicesInv
<1>7. \A e \in (devices' \cap Libinput) \ adrift' :
              (\E o \in D!Plugged' : D!IsFor(e, o)) => target'[e] # None
  BY <1>1, <1>3, RowStays DEF DevicesInv
<1> QED
  BY <1>1, <1>4, <1>5, <1>6, <1>7, RowStays DEF DevicesInv, D!Device, D!IsFor

LEMMA GoneKeeps ==
  ASSUME DevicesAssumption, DevicesInv, NEW d \in D!Device, D!DeviceDestroy(d)
  PROVE  DevicesInv'
<1>1. /\ devices' = devices \ {d} /\ untold' = untold \ {d} /\ adrift' = adrift \ {d}
      /\ target' = [target EXCEPT ![d] = None]
      /\ UNCHANGED <<caps, row, corner, pending>>
  BY DEF D!DeviceDestroy
<1>2. /\ target' \in [D!Device -> Display \cup {None}] /\ target'[d] = None
      /\ \A e \in D!Device \ {d} : target'[e] = target[e]
  BY <1>1 DEF DevicesInv, DevicesType
<1>3. DevicesType'
  BY <1>1, <1>2, RowStays DEF DevicesInv, DevicesType, D!Device
<1>4. \A e \in D!Device : target'[e] # None =>
              e \in devices' /\ target'[e] \in D!Plugged' /\ D!IsFor(e, target'[e])
  BY <1>1, <1>2, RowStays DEF DevicesInv
<1>5. ASSUME NEW e \in (devices' \cap Libinput) \ adrift', \E o \in D!Plugged' : D!IsFor(e, o)
      PROVE  target'[e] # None
  <2>1. e # d /\ e \in (devices \cap Libinput) \ adrift /\ e \in D!Device
    BY <1>1 DEF DevicesInv, DevicesType
  <2> QED
    BY <1>1, <1>2, <1>5, <2>1, RowStays DEF DevicesInv
<1>6. /\ devices' \cap Touch # {} => "touch" \in caps'
      /\ (devices' \cap Keyboard) \ untold' # {} => "keyboard" \in caps'
  BY <1>1 DEF DevicesInv
<1> QED
  BY <1>3, <1>4, <1>5, <1>6, RowStays, <1>1 DEF DevicesInv, D!Device, D!IsFor

LEMMA OutputMoves ==
  ASSUME DevicesAssumption, DevicesInv, NEW o \in Display, NEW at \in Place, D!Move(o, at)
  PROVE  DevicesInv'
<1>1. /\ corner' = [corner EXCEPT ![o] = at] /\ pending' = TRUE
      /\ UNCHANGED <<devices, target, caps, untold, row, adrift>>
  BY DEF D!Move
<1>2. corner' \in [Display -> [x : Int, y : Int]]
  BY <1>1 DEF DevicesInv, DevicesType, DevicesAssumption
<1>3. DevicesType'
  BY <1>1, <1>2 DEF DevicesInv, DevicesType, D!Device, Distinct
<1> QED
  BY <1>1, <1>3 DEF DevicesInv, D!Device, D!IsFor, D!Plugged

(* With a new output every device of the list is mapped anew.              *)
LEMMA OutputComes ==
  ASSUME DevicesAssumption, DevicesInv, NEW o \in Display, NEW at \in Place, D!NewOutput(o, at)
  PROVE  DevicesInv'
<1> DEFINE ds == devices \cap Libinput
<1>1. /\ o \notin D!Plugged /\ row' = <<o>> \o row /\ corner' = [corner EXCEPT ![o] = at]
      /\ pending' = TRUE /\ target' = D!Mapped(ds, row') /\ adrift' = adrift \ Libinput
      /\ UNCHANGED <<devices, caps, untold>>
  BY DEF D!NewOutput, D!Configured
<1>2. DevicesType /\ row \in Seq(Display) /\ Len(row) \in Nat
  BY DEF DevicesInv, DevicesType
<1>3. /\ row' \in Seq(Display) /\ Len(row') = Len(row) + 1 /\ row'[1] = o
      /\ \A j \in 1 .. Len(row) : row'[j + 1] = row[j]
      /\ \A k \in 2 .. Len(row') : k - 1 \in 1 .. Len(row) /\ row'[k] = row[k - 1]
  BY <1>1, <1>2, ListWith
<1>4. corner' \in [Display -> [x : Int, y : Int]]
  BY <1>1, <1>2 DEF DevicesType, DevicesAssumption
<1>5. /\ D!Plugged = {row[i] : i \in 1 .. Len(row)}
      /\ D!Plugged' = {row'[i] : i \in 1 .. Len(row')}
  BY <1>2, <1>3, PluggedIs DEF D!Plugged
<1>6. D!Plugged \subseteq D!Plugged'
  <2>1. ASSUME NEW i \in 1 .. Len(row) PROVE row[i] \in D!Plugged'
    <3>1. i + 1 \in 1 .. Len(row') /\ row'[i + 1] = row[i]
      BY <1>2, <1>3
    <3> QED
      BY <1>5, <3>1
  <2> QED
    BY <1>5, <2>1
<1>7. Distinct(row')
  <2>1. \A k \in 2 .. Len(row') : row'[k] # o
    BY <1>1, <1>3, <1>5
  <2>2. Distinct(row)
    BY <1>2 DEF DevicesType
  <2>3. ASSUME NEW i \in 1 .. Len(row'), NEW j \in 1 .. Len(row'), row'[i] = row'[j]
        PROVE  i = j
    <3>1. CASE i = 1 \/ j = 1
      <4>1. (i = 1 \/ i \in 2 .. Len(row')) /\ (j = 1 \/ j \in 2 .. Len(row'))
        BY <1>2, <1>3
      <4> QED
        BY <1>3, <2>1, <2>3, <3>1, <4>1
    <3>2. CASE i # 1 /\ j # 1
      <4>1. i \in 2 .. Len(row') /\ j \in 2 .. Len(row')
        BY <1>2, <1>3, <3>2
      <4>2. i - 1 \in 1 .. Len(row) /\ j - 1 \in 1 .. Len(row) /\ row[i - 1] = row[j - 1]
        BY <1>3, <2>3, <4>1
      <4>3. i - 1 = j - 1
        BY <2>2, <4>2 DEF Distinct
      <4> QED
        BY <4>1, <4>3
    <3> QED
      BY <3>1, <3>2
  <2> QED
    BY <2>3 DEF Distinct
<1>8. ASSUME NEW e \in D!Device
      PROVE  /\ \/ target'[e] = target[e]
                \/ e \in ds /\ D!IsFor(e, target'[e]) /\ target'[e] \in D!Plugged'
             /\ e \in ds /\ (\E p \in D!Plugged' : D!IsFor(e, p)) => target'[e] # None
             /\ target' \in [D!Device -> Display \cup {None}]
  <2>1. PICK outs : outs = row'
    OBVIOUS
  <2>2. outs \in Seq(Display) /\ target' = D!Mapped(ds, outs)
        /\ D!Plugged' = {outs[i] : i \in 1 .. Len(outs)}
    BY <1>1, <1>3, <1>5, <2>1
  <2> HIDE DEF ds
  <2> QED
    BY <1>2, <2>2, MappedIs
<1>9. DevicesType'
  <2>1. target' \in [D!Device -> Display \cup {None}]
    <3>1. CASE D!Device = {}
      BY <1>1, <3>1 DEF D!Mapped
    <3>2. CASE D!Device # {}
      BY <1>8, <3>2
    <3> QED
      BY <3>1, <3>2
  <2>2. devices' \subseteq D!Device
    BY <1>1, <1>2 DEF DevicesType
  <2>3. Distinct(row)'
    BY <1>7 DEF Distinct
  <2> QED
    BY <1>1, <1>3, <1>4, <2>1, <2>2, <2>3 DEF DevicesType, D!Device
<1>10. ASSUME NEW e \in D!Device, target'[e] # None
       PROVE  e \in devices' /\ target'[e] \in D!Plugged' /\ D!IsFor(e, target'[e])
  BY <1>1, <1>6, <1>8, <1>10 DEF DevicesInv
<1>11. ASSUME NEW e \in (devices' \cap Libinput) \ adrift',
              \E p \in D!Plugged' : D!IsFor(e, p)
       PROVE  target'[e] # None
  <2>1. e \in D!Device /\ e \in ds
    BY <1>1, <1>2 DEF DevicesType
  <2> QED
    BY <1>8, <1>11, <2>1
<1>12. /\ devices' \cap Touch # {} => "touch" \in caps'
       /\ (devices' \cap Keyboard) \ untold' # {} => "keyboard" \in caps'
  BY <1>1 DEF DevicesInv
<1> QED
  BY <1>1, <1>9, <1>10, <1>11, <1>12 DEF DevicesInv, D!Device, D!IsFor

LEMMA OutputGoes ==
  ASSUME DevicesAssumption, DevicesInv, NEW o \in Display, D!OutputDestroy(o)
  PROVE  DevicesInv'
<1> DEFINE i == CHOOSE i \in DOMAIN row : row[i] = o
<1>1. /\ o \in D!Plugged
      /\ row' = SubSeq(row, 1, i - 1) \o SubSeq(row, i + 1, Len(row))
      /\ target' = [d \in D!Device |-> IF target[d] = o THEN None ELSE target[d]]
      /\ adrift' = adrift \cup {d \in devices : target[d] = o}
      /\ corner' = [corner EXCEPT ![o] = D!Nowhere] /\ pending' = TRUE
      /\ UNCHANGED <<devices, caps, untold>>
  BY DEF D!OutputDestroy
<1>2. DevicesType /\ row \in Seq(Display) /\ Len(row) \in Nat /\ DOMAIN row = 1 .. Len(row)
      /\ Distinct(row)
  BY DEF DevicesInv, DevicesType
<1>3. i \in 1 .. Len(row) /\ row[i] = o
  BY <1>1, <1>2 DEF D!Plugged
<1> HIDE DEF i
<1>4. /\ row' \in Seq(Display) /\ Len(row') = Len(row) - 1
      /\ \A j \in 1 .. Len(row) - 1 : row'[j] = IF j < i THEN row[j] ELSE row[j + 1]
  BY <1>1, <1>2, <1>3, RemovedIs
<1>5. \A j \in 1 .. Len(row) : j # i => \E k \in 1 .. Len(row') : row'[k] = row[j]
  BY <1>1, <1>2, <1>3, ListWithout
<1>6. /\ D!Plugged = {row[j] : j \in 1 .. Len(row)}
      /\ D!Plugged' = {row'[j] : j \in 1 .. Len(row')}
  BY <1>2, <1>4, PluggedIs DEF D!Plugged
<1>7. D!Plugged' \subseteq D!Plugged /\ D!Plugged \ {o} \subseteq D!Plugged'
  <2>1. ASSUME NEW j \in 1 .. Len(row') PROVE row'[j] \in D!Plugged
    <3>1. j \in 1 .. Len(row) - 1 /\ j \in 1 .. Len(row) /\ j + 1 \in 1 .. Len(row)
      BY <1>2, <1>4
    <3> QED
      BY <1>4, <1>6, <3>1
  <2>2. ASSUME NEW j \in 1 .. Len(row), row[j] # o PROVE row[j] \in D!Plugged'
    BY <1>3, <1>5, <1>6, <2>2
  <2> QED
    BY <1>6, <2>1, <2>2
<1>8. Distinct(row)'
  <2>1. ASSUME NEW j \in 1 .. Len(row'), NEW k \in 1 .. Len(row'), row'[j] = row'[k]
        PROVE  j = k
    <3>1. /\ j \in 1 .. Len(row) - 1 /\ j \in 1 .. Len(row) /\ j + 1 \in 1 .. Len(row)
          /\ k \in 1 .. Len(row) - 1 /\ k \in 1 .. Len(row) /\ k + 1 \in 1 .. Len(row)
      BY <1>2, <1>4
    <3>2. /\ row'[j] = IF j < i THEN row[j] ELSE row[j + 1]
          /\ row'[k] = IF k < i THEN row[k] ELSE row[k + 1]
      BY <1>4, <3>1
    <3>3. (IF j < i THEN j ELSE j + 1) = (IF k < i THEN k ELSE k + 1)
      BY <1>2, <2>1, <3>1, <3>2 DEF Distinct
    <3> QED
      BY <1>3, <3>1, <3>3
  <2> QED
    BY <2>1 DEF Distinct
<1>9. /\ target' \in [D!Device -> Display \cup {None}]
      /\ \A d \in D!Device : target'[d] = IF target[d] = o THEN None ELSE target[d]
  BY <1>1, <1>2 DEF DevicesType
<1>10. corner' \in [Display -> [x : Int, y : Int]]
  <2>1. D!Nowhere \in [x : Int, y : Int]
    BY DEF D!Nowhere
  <2> QED
    BY <1>1, <1>2, <2>1 DEF DevicesType
<1>11. DevicesType'
  BY <1>1, <1>2, <1>4, <1>8, <1>9, <1>10 DEF DevicesType, D!Device
<1>12. ASSUME NEW e \in D!Device, target'[e] # None
       PROVE  e \in devices' /\ target'[e] \in D!Plugged' /\ D!IsFor(e, target'[e])
  <2>1. target'[e] = target[e] /\ target[e] # o /\ target[e] # None
    BY <1>9, <1>12
  <2> QED
    BY <1>1, <1>7, <2>1 DEF DevicesInv
<1>13. ASSUME NEW e \in (devices' \cap Libinput) \ adrift',
              \E p \in D!Plugged' : D!IsFor(e, p)
       PROVE  target'[e] # None
  <2>1. e \in D!Device /\ e \in (devices \cap Libinput) \ adrift /\ target[e] # o
    BY <1>1, <1>2 DEF DevicesType
  <2>2. target[e] # None
    BY <1>7, <1>13, <2>1 DEF DevicesInv
  <2> QED
    BY <1>9, <2>1, <2>2
<1>14. /\ devices' \cap Touch # {} => "touch" \in caps'
       /\ (devices' \cap Keyboard) \ untold' # {} => "keyboard" \in caps'
  BY <1>1 DEF DevicesInv
<1> QED
  BY <1>1, <1>11, <1>12, <1>13, <1>14 DEF DevicesInv, D!Device, D!IsFor

(***************************************************************************)
(* The order of the outputs                                                *)
(***************************************************************************)

(* InFront is an order, but for outputs at one place.                      *)
LEMMA FrontIsTransitive ==
  ASSUME corner \in [Display -> [x : Int, y : Int]],
         NEW o \in Display, NEW p \in Display, NEW q \in Display,
         D!InFront(o, p), D!InFront(p, q)
  PROVE  D!InFront(o, q)
<1>1. \A e \in Display : corner[e].x \in Int /\ corner[e].y \in Int
  OBVIOUS
<1>2. /\ corner[o].y <= corner[p].y /\ corner[o].x <= corner[p].x
      /\ corner[p].y <= corner[q].y /\ corner[p].x <= corner[q].x
  BY DEF D!InFront
<1>3. corner[o].y <= corner[q].y /\ corner[o].x <= corner[q].x
  BY <1>1, <1>2
<1> QED
  BY <1>3 DEF D!InFront

In(s, x) == \E k \in 1 .. Len(s) : s[k] = x

(* An output is put in front of the first that it is left of and above.    *)
LEMMA PutIs ==
  ASSUME NEW s \in Seq(Display), NEW o \in Display
  PROVE  \E at \in 1 .. Len(s) + 1 :
           LET r == D!Inserted(s, o)
           IN  /\ r \in Seq(Display) /\ Len(r) = Len(s) + 1 /\ r[at] = o
               /\ \A j \in 1 .. at - 1 : r[j] = s[j] /\ ~ D!InFront(o, s[j])
               /\ \A j \in at .. Len(s) : r[j + 1] = s[j]
               /\ at <= Len(s) => D!InFront(o, s[at])
<1> DEFINE behind == {i \in DOMAIN s : D!InFront(o, s[i])}
           first == CHOOSE i \in behind : \A j \in behind : i <= j
<1>1. DOMAIN s = 1 .. Len(s) /\ Len(s) \in Nat
  OBVIOUS
<1>2. behind # {} => first \in behind /\ \A j \in behind : first <= j
  <2>1. behind \subseteq Nat
    BY <1>1
  <2> HIDE DEF behind
  <2> QED
    BY <2>1, FirstPlace
<1> DEFINE spot == IF behind = {} THEN Len(s) + 1 ELSE first
<1>a. D!Inserted(s, o) = InsertedAt(s, spot, <<o>>)
  BY DEF D!Inserted, InsertedAt
<1>3. PICK at : at = spot
  OBVIOUS
<1>4. D!Inserted(s, o) = InsertedAt(s, at, <<o>>)
  <2> HIDE DEF spot
  <2> QED
    BY <1>3, <1>a
<1> HIDE DEF first
<1>5. /\ at \in 1 .. Len(s) + 1
      /\ at <= Len(s) => D!InFront(o, s[at])
      /\ \A j \in 1 .. Len(s) : j < at => ~ D!InFront(o, s[j])
  <2>1. CASE behind = {}
    BY <1>1, <1>3, <2>1
  <2>2. CASE behind # {}
    <3>1. at \in behind /\ \A j \in behind : at <= j
      BY <1>2, <1>3, <2>2
    <3>2. \A j \in 1 .. Len(s) : j < at => j \notin behind
      BY <3>1
    <3> QED
      BY <1>1, <3>1, <3>2
  <2> QED
    BY <2>1, <2>2
<1>6. PICK r : r = D!Inserted(s, o)
  OBVIOUS
<1>7. PICK one : one = <<o>>
  OBVIOUS
<1> HIDE DEF behind
<1>8. /\ r \in Seq(Display) /\ Len(r) = Len(s) + 1 /\ r[at] = o
      /\ \A j \in 1 .. at - 1 : r[j] = s[j]
      /\ \A j \in at .. Len(s) : r[j + 1] = s[j]
  <2>1. r = InsertedAt(s, at, one)
    BY <1>4, <1>6, <1>7
  <2> QED
    BY <1>5, <1>7, <2>1, InsertedIs
<1>9. \A j \in 1 .. at - 1 : j \in 1 .. Len(s) /\ j < at
  BY <1>1, <1>5
<1>10. \A j \in 1 .. at - 1 : ~ D!InFront(o, s[j])
  BY <1>5, <1>9
<1> QED
  BY <1>5, <1>6, <1>8, <1>10

(* The list keeps its order, and has one output more.                      *)
LEMMA InsertedKeeps ==
  ASSUME corner \in [Display -> [x : Int, y : Int]], NEW s \in Seq(Display), NEW o \in Display,
         Distinct(s), Settled(s), ~ In(s, o)
  PROVE  LET r == D!Inserted(s, o)
         IN  /\ r \in Seq(Display) /\ Distinct(r) /\ Settled(r)
             /\ \A x : In(r, x) <=> In(s, x) \/ x = o
<1>1. PICK r : r = D!Inserted(s, o)
  OBVIOUS
<1>2. PICK at \in 1 .. Len(s) + 1 :
        /\ r \in Seq(Display) /\ Len(r) = Len(s) + 1 /\ r[at] = o
        /\ \A j \in 1 .. at - 1 : r[j] = s[j] /\ ~ D!InFront(o, s[j])
        /\ \A j \in at .. Len(s) : r[j + 1] = s[j]
        /\ at <= Len(s) => D!InFront(o, s[at])
  BY <1>1, PutIs
<1>3. \A j \in 1 .. Len(s) : s[j] \in Display
  OBVIOUS
<1>n. Len(s) \in Nat /\ at \in Nat /\ 1 <= at /\ at <= Len(s) + 1 /\ Len(r) = Len(s) + 1
  BY <1>2
<1>m. \A k \in 1 .. Len(r) : k \in Nat /\ 1 <= k /\ k <= Len(s) + 1
  BY <1>n
<1>4. ASSUME NEW k \in 1 .. Len(r), k # at
      PROVE  \E j \in 1 .. Len(s) : /\ r[k] = s[j] /\ (k < at => j = k /\ ~ D!InFront(o, s[j]))
                                    /\ (k > at => j = k - 1 /\ at <= j)
  <2>1. CASE k < at
    <3>1. k \in 1 .. at - 1 /\ k \in 1 .. Len(s) /\ ~(k > at)
      BY <1>n, <1>m, <2>1
    <3> QED
      BY <1>2, <2>1, <3>1
  <2>2. CASE k > at
    <3>1. k - 1 \in at .. Len(s) /\ k - 1 \in 1 .. Len(s) /\ k = k - 1 + 1 /\ ~(k < at)
      BY <1>n, <1>m, <2>2
    <3>2. r[k] = s[k - 1]
      BY <1>2, <3>1
    <3> QED
      BY <2>2, <3>1, <3>2
  <2>3. k < at \/ k > at
    <3>1. k \in Nat /\ at \in Nat
      BY <1>n, <1>m
    <3> QED
      BY <1>4, <3>1
  <2> QED
    BY <2>1, <2>2, <2>3
<1>5. ASSUME NEW j \in 1 .. Len(s) PROVE In(r, s[j])
  <2>1. CASE j < at
    <3>1. j \in 1 .. at - 1 /\ j \in 1 .. Len(r)
      BY <1>n, <2>1
    <3> QED
      BY <1>2, <3>1 DEF In
  <2>2. CASE j >= at
    <3>1. j \in at .. Len(s) /\ j + 1 \in 1 .. Len(r)
      BY <1>n, <2>2
    <3> QED
      BY <1>2, <3>1 DEF In
  <2> QED
    BY <1>n, <2>1, <2>2
<1>6. \A j \in 1 .. Len(s) : s[j] # o
  BY DEF In
<1>7. \A x : In(r, x) <=> In(s, x) \/ x = o
  <2> TAKE x
  <2>1. ASSUME In(r, x), x # o PROVE In(s, x)
    <3>1. PICK k \in 1 .. Len(r) : r[k] = x
      BY <2>1 DEF In
    <3> QED
      BY <1>2, <1>4, <2>1, <3>1 DEF In
  <2>2. ASSUME In(s, x) PROVE In(r, x)
    BY <1>5, <2>2 DEF In
  <2>3. at \in 1 .. Len(r)
    BY <1>n
  <2>4. In(r, o)
    BY <1>2, <2>3 DEF In
  <2> QED
    BY <2>1, <2>2, <2>4
<1>8. ASSUME NEW k \in 1 .. Len(r), NEW l \in 1 .. Len(r), r[k] = r[l] PROVE k = l
  <2>a. ASSUME NEW a \in 1 .. Len(r), a # at PROVE r[a] # r[at]
    <3>1. PICK j \in 1 .. Len(s) : r[a] = s[j]
      BY <1>4, <2>a
    <3> QED
      BY <1>2, <1>6, <3>1
  <2>1. CASE k = at \/ l = at
    BY <1>8, <2>1, <2>a
  <2>2. CASE k # at /\ l # at
    <3>1. PICK j \in 1 .. Len(s) : r[k] = s[j] /\ (k < at => j = k) /\ (k > at => j = k - 1 /\ at <= j)
      BY <1>4, <2>2
    <3>2. PICK m \in 1 .. Len(s) : r[l] = s[m] /\ (l < at => m = l) /\ (l > at => m = l - 1 /\ at <= m)
      BY <1>4, <2>2
    <3>3. j = m
      BY <1>8, <3>1, <3>2 DEF Distinct
    <3>4. (k < at \/ k > at) /\ (l < at \/ l > at) /\ k \in Nat /\ l \in Nat
      <4>1. k \in Nat /\ l \in Nat /\ at \in Nat
        BY <1>n, <1>m
      <4> QED
        BY <2>2, <4>1
    <3> QED
      BY <1>n, <3>1, <3>2, <3>3, <3>4
  <2> QED
    BY <2>1, <2>2
<1>9. ASSUME NEW k \in 1 .. Len(r), NEW l \in 1 .. Len(r), k < l, D!InFront(r[l], r[k])
      PROVE  D!InFront(r[k], r[l])
  <2>1. CASE k = at
    <3>1. PICK j \in 1 .. Len(s) : r[l] = s[j] /\ j = l - 1 /\ at <= j
      <4>1. l # at /\ l > at /\ ~(l < at)
        BY <1>n, <1>m, <1>9, <2>1
      <4> QED
        BY <1>4, <4>1
    <3>2. at \in 1 .. Len(s) /\ D!InFront(o, s[at])
      <4>1. at \in 1 .. Len(s) /\ at <= Len(s)
        BY <1>n, <3>1
      <4> QED
        BY <1>2, <4>1
    <3>3. CASE j = at
      BY <1>2, <2>1, <3>1, <3>2, <3>3
    <3>4. CASE j # at
      <4>1. at < j
        BY <1>n, <3>1, <3>4
      <4>2. D!InFront(s[j], o)
        BY <1>2, <1>9, <2>1, <3>1
      <4>3. D!InFront(s[j], s[at])
        BY <1>3, <3>2, <4>2, FrontIsTransitive
      <4>4. D!InFront(s[at], s[j])
        BY <3>2, <4>1, <4>3 DEF Settled
      <4>5. D!InFront(o, s[j])
        BY <1>3, <3>2, <4>4, FrontIsTransitive
      <4> QED
        BY <1>2, <2>1, <3>1, <4>5
    <3> QED
      BY <3>3, <3>4
  <2>2. CASE l = at
    <3>1. k # at /\ k < at
      BY <1>n, <1>m, <1>9, <2>2
    <3> QED
      BY <1>2, <1>4, <1>9, <2>2, <3>1
  <2>3. CASE k # at /\ l # at
    <3>1. PICK j \in 1 .. Len(s) : r[k] = s[j] /\ (k < at => j = k) /\ (k > at => j = k - 1 /\ at <= j)
      BY <1>4, <2>3
    <3>2. PICK m \in 1 .. Len(s) : r[l] = s[m] /\ (l < at => m = l) /\ (l > at => m = l - 1 /\ at <= m)
      BY <1>4, <2>3
    <3>3. (k < at \/ k > at) /\ (l < at \/ l > at) /\ k \in Nat /\ l \in Nat
      <4>1. k \in Nat /\ l \in Nat /\ at \in Nat
        BY <1>n, <1>m
      <4> QED
        BY <2>3, <4>1
    <3>4. j < m
      <4>1. (k < at => j = k) /\ (k > at => j = k - 1 /\ at <= j)
        BY <3>1
      <4>2. (l < at => m = l) /\ (l > at => m = l - 1 /\ at <= m)
        BY <3>2
      <4>3. k < l /\ j \in Nat /\ m \in Nat /\ at \in Nat
        BY <1>n, <1>9
      <4>4. CASE k < at
        BY <3>3, <4>1, <4>2, <4>3, <4>4
      <4>5. CASE k > at
        BY <3>3, <4>1, <4>2, <4>3, <4>5
      <4> QED
        BY <3>3, <4>4, <4>5
    <3> QED
      BY <1>9, <3>1, <3>2, <3>4 DEF Settled
  <2> QED
    BY <2>1, <2>2, <2>3
<1>10. Distinct(r) /\ Settled(r)
  BY <1>8, <1>9 DEF Distinct, Settled
<1> QED
  BY <1>1, <1>2, <1>7, <1>10

(* The outputs that are sorted up to a place of the list.                  *)
Sorts(f, s, n) ==
    f = [i \in 0 .. n |-> IF i = 0 THEN <<>> ELSE D!Inserted(f[i - 1], s[i])]

Grows(f, s, n) == f[0] = <<>> /\ \A i \in 1 .. n : f[i] = D!Inserted(f[i - 1], s[i])

LEMMA SortsGrows ==
  ASSUME NEW f, NEW s, NEW n \in Nat
  PROVE  Sorts(f, s, n) <=> f = [i \in 0 .. n |-> f[i]] /\ Grows(f, s, n)
<1> DEFINE Value(i) == D!Inserted(f[i - 1], s[i])
<1>1. Sorts(f, s, n) <=> f = [i \in 0 .. n |-> IF i = 0 THEN <<>> ELSE Value(i)]
  BY Zenon DEF Sorts
<1> HIDE DEF Value
<1>2. /\ 0 \in 0 .. n /\ 1 .. n \subseteq 0 .. n /\ \A i \in 1 .. n : i # 0
      /\ \A i \in 0 .. n : i = 0 \/ i \in 1 .. n
  OBVIOUS
<1>3. ASSUME f = [i \in 0 .. n |-> IF i = 0 THEN <<>> ELSE Value(i)]
      PROVE  f = [i \in 0 .. n |-> f[i]] /\ f[0] = <<>> /\ \A i \in 1 .. n : f[i] = Value(i)
  BY <1>2, <1>3, Zenon
<1>4. ASSUME f = [i \in 0 .. n |-> f[i]], f[0] = <<>>, \A i \in 1 .. n : f[i] = Value(i)
      PROVE  f = [i \in 0 .. n |-> IF i = 0 THEN <<>> ELSE Value(i)]
  <2>1. \A i \in 0 .. n : f[i] = IF i = 0 THEN <<>> ELSE Value(i)
    BY <1>2, <1>4
  <2> QED
    BY <1>4, <2>1, Zenon
<1> QED
  BY <1>1, <1>3, <1>4, Zenon DEF Value, Grows

LEMMA SortsExist == ASSUME NEW s, NEW n \in Nat PROVE \E f : Sorts(f, s, n)
<1> DEFINE T == {i \in Nat : ~ \E f : Sorts(f, s, i)}
<1> SUFFICES ASSUME T # {} PROVE FALSE
  OBVIOUS
<1>1. PICK i \in T : \A j \in T : i <= j
  BY FirstPlace
<1>2. i # 0
  <2> DEFINE f == [j \in 0 .. 0 |-> <<>>]
  <2>1. f = [j \in 0 .. 0 |-> f[j]] /\ f[0] = <<>> /\ 0 \in Nat
    OBVIOUS
  <2>2. 1 .. 0 = {}
    OBVIOUS
  <2> HIDE DEF f
  <2>3. Grows(f, s, 0)
    BY <2>1, <2>2 DEF Grows
  <2>4. Sorts(f, s, 0)
    BY <2>1, <2>3, SortsGrows
  <2> QED
    BY <2>4
<1>3. i - 1 \in Nat /\ i - 1 \notin T /\ i \in Nat
  BY <1>1, <1>2
<1>4. PICK f : Sorts(f, s, i - 1)
  BY <1>3
<1>5. Grows(f, s, i - 1)
  BY <1>3, <1>4, SortsGrows
<1> DEFINE v == D!Inserted(f[i - 1], s[i])
           g == [j \in 0 .. i |-> IF j = i THEN v ELSE f[j]]
<1> HIDE DEF v
<1>6. /\ g = [j \in 0 .. i |-> g[j]] /\ g[i] = v
      /\ \A j \in 0 .. i - 1 : g[j] = f[j]
  BY <1>2, <1>3
<1> HIDE DEF g, T
<1>7. /\ 0 \in 0 .. i - 1
      /\ \A j \in 1 .. i : j - 1 \in 0 .. i - 1
      /\ \A j \in 1 .. i : j # i => j \in 1 .. i - 1 /\ j \in 0 .. i - 1
  BY <1>2, <1>3
<1>8. g[0] = <<>>
  BY <1>5, <1>6, <1>7, Zenon DEF Grows
<1>9. ASSUME NEW j \in 1 .. i PROVE g[j] = D!Inserted(g[j - 1], s[j])
  <2>1. g[j - 1] = f[j - 1]
    BY <1>6, <1>7, Zenon
  <2>2. CASE j = i
    BY <1>6, <2>1, <2>2, Zenon DEF v
  <2>3. CASE j # i
    <3>1. j \in 1 .. i - 1 /\ j \in 0 .. i - 1
      BY <1>7, <2>3
    <3>2. g[j] = f[j] /\ f[j] = D!Inserted(f[j - 1], s[j])
      BY <1>5, <1>6, <3>1, Zenon DEF Grows
    <3> QED
      BY <2>1, <3>2, Zenon
  <2> QED
    BY <2>2, <2>3
<1>10. Grows(g, s, i)
  BY <1>8, <1>9, Zenon DEF Grows
<1>11. Sorts(g, s, i)
  BY <1>3, <1>6, <1>10, SortsGrows
<1> QED
  BY <1>1, <1>11 DEF T

LEMMA SortedIs ==
  ASSUME NEW n \in Nat, n = Len(row)
  PROVE  \E f : D!Sorted = f[n] /\ Grows(f, row, n)
<1> DEFINE f == CHOOSE f : Sorts(f, row, Len(row))
<1>1. Sorts(f, row, Len(row))
  BY SortsExist
<1>2. D!Sorted = f[Len(row)]
  BY Zenon DEF D!Sorted, Sorts
<1> HIDE DEF f
<1>3. Grows(f, row, n)
  BY <1>1, SortsGrows
<1> QED
  BY <1>2, <1>3

(* What is sorted is in order, and is what was listed.                     *)
LEMMA SortedKeeps ==
  ASSUME DevicesType
  PROVE  /\ D!Sorted \in Seq(Display) /\ Distinct(D!Sorted) /\ Settled(D!Sorted)
         /\ \A x : In(D!Sorted, x) <=> In(row, x)
<1>1. PICK n \in Nat : n = Len(row)
  BY DEF DevicesType
<1>2. PICK f : D!Sorted = f[n] /\ Grows(f, row, n)
  BY <1>1, SortedIs
<1>3. /\ corner \in [Display -> [x : Int, y : Int]]
      /\ \A i \in 1 .. n : row[i] \in Display
      /\ \A i, j \in 1 .. n : row[i] = row[j] => i = j
  BY <1>1 DEF DevicesType, Distinct
<1> DEFINE Right(i) == /\ f[i] \in Seq(Display) /\ Distinct(f[i]) /\ Settled(f[i])
                       /\ \A x : In(f[i], x) <=> \E j \in 1 .. i : row[j] = x
           T == {i \in 0 .. n : ~ Right(i)}
<1>4. Right(0)
  <2>1. f[0] = <<>>
    BY <1>2 DEF Grows
  <2>2. PICK e : e = f[0]
    OBVIOUS
  <2>3. e \in Seq(Display) /\ Len(e) = 0 /\ 1 .. Len(e) = {} /\ 1 .. 0 = {}
    BY <2>1, <2>2
  <2>4. Distinct(e) /\ Settled(e) /\ \A x : ~ In(e, x)
    BY <2>3 DEF Distinct, Settled, In
  <2> QED
    BY <2>2, <2>3, <2>4
<1>5. ASSUME NEW i \in 1 .. n, Right(i - 1) PROVE Right(i)
  <2>1. PICK s : s = f[i - 1]
    OBVIOUS
  <2>2. PICK o \in Display : o = row[i]
    BY <1>3
  <2>3. f[i] = D!Inserted(s, o)
    BY <1>2, <2>1, <2>2, Zenon DEF Grows
  <2>4. /\ s \in Seq(Display) /\ Distinct(s) /\ Settled(s)
        /\ \A x : In(s, x) <=> \E j \in 1 .. i - 1 : row[j] = x
    BY <1>5, <2>1
  <2> HIDE DEF Right
  <2>5. \A j \in 1 .. i - 1 : j \in 1 .. n /\ j # i
    BY <1>1
  <2>6. ~ In(s, o)
    BY <1>3, <2>2, <2>4, <2>5
  <2>7. PICK r : r = D!Inserted(s, o)
    OBVIOUS
  <2>8. /\ r \in Seq(Display) /\ Distinct(r) /\ Settled(r)
        /\ \A x : In(r, x) <=> In(s, x) \/ x = o
    BY <1>3, <2>4, <2>6, <2>7, InsertedKeeps
  <2>9. i \in 1 .. i /\ \A j \in 1 .. i : j = i \/ j \in 1 .. i - 1
    BY <1>1
  <2>a. \A j \in 1 .. i - 1 : j \in 1 .. i
    BY <1>1
  <2>10. \A x : In(r, x) <=> \E j \in 1 .. i : row[j] = x
    BY <2>2, <2>4, <2>8, <2>9, <2>a, Zenon
  <2> QED
    BY <2>3, <2>7, <2>8, <2>10, Zenon DEF Right
<1>6. T = {}
  <2> SUFFICES ASSUME T # {} PROVE FALSE
    OBVIOUS
  <2>1. PICK i \in T : \A j \in T : i <= j
    <3>1. T \subseteq Nat
      OBVIOUS
    <3> HIDE DEF T
    <3> QED
      BY <3>1, FirstPlace
  <2>2. i \in 0 .. n /\ ~ Right(i)
    OBVIOUS
  <2> HIDE DEF Right
  <2>3. i # 0
    BY <1>4, <2>2
  <2>4. i - 1 \in 0 .. n /\ i \in 1 .. n /\ ~(i <= i - 1)
    BY <1>1, <2>2, <2>3
  <2>5. i - 1 \notin T
    BY <2>1, <2>4
  <2>6. Right(i - 1)
    BY <2>4, <2>5
  <2> QED
    BY <1>5, <2>2, <2>4, <2>6
<1>7. Right(n)
  <2> HIDE DEF Right
  <2> QED
    BY <1>1, <1>6
<1>8. PICK r : r = f[n]
  OBVIOUS
<1>9. /\ r \in Seq(Display) /\ Distinct(r) /\ Settled(r)
      /\ \A x : In(r, x) <=> \E j \in 1 .. n : row[j] = x
  BY <1>7, <1>8
<1>10. \A x : In(row, x) <=> \E j \in 1 .. n : row[j] = x
  BY <1>1 DEF In
<1> QED
  BY <1>2, <1>8, <1>9, <1>10

LEMMA SortKeeps == ASSUME DevicesInv, D!SortOutputIndex PROVE DevicesInv'
<1>1. /\ row' = D!Sorted /\ pending' = FALSE
      /\ UNCHANGED <<devices, target, caps, untold, corner, adrift>>
  BY DEF D!SortOutputIndex
<1>2. DevicesType /\ row \in Seq(Display)
  BY DEF DevicesInv, DevicesType
<1>3. /\ row' \in Seq(Display) /\ Distinct(row') /\ Settled(row')
      /\ \A x : In(row', x) <=> In(row, x)
  BY <1>1, <1>2, SortedKeeps
<1>4. D!Plugged' = D!Plugged
  <2>1. /\ D!Plugged = {row[i] : i \in 1 .. Len(row)}
        /\ D!Plugged' = {row'[i] : i \in 1 .. Len(row')}
    BY <1>2, <1>3, PluggedIs DEF D!Plugged
  <2>2. \A x : x \in D!Plugged <=> In(row, x)
    BY <2>1 DEF In
  <2>3. \A x : x \in D!Plugged' <=> In(row', x)
    BY <2>1 DEF In
  <2> QED
    BY <1>3, <2>2, <2>3
<1>5. Distinct(row)' /\ Settled(row)'
  BY <1>1, <1>3 DEF Distinct, Settled, D!InFront
<1>6. DevicesType'
  BY <1>1, <1>2, <1>3, <1>5 DEF DevicesType, D!Device
<1> QED
  BY <1>1, <1>4, <1>5, <1>6 DEF DevicesInv, D!Device, D!IsFor

LEMMA DevicesStep == ASSUME DevicesAssumption, DevicesInv, D!DevicesNext PROVE DevicesInv'
<1>1. ASSUME NEW d \in D!Device, \/ D!NewPointerOrTouch(d) \/ D!NewTablet(d)
                                 \/ D!NewKeyboardOrOther(d) \/ D!DeviceDestroy(d)
      PROVE  DevicesInv'
  BY <1>1, PointerOrTouchKeeps, TabletKeeps, OtherKeeps, GoneKeeps
<1>2. ASSUME NEW o \in Display, NEW at \in Place, D!NewOutput(o, at) \/ D!Move(o, at)
      PROVE  DevicesInv'
  BY <1>2, OutputComes, OutputMoves
<1>3. ASSUME NEW o \in Display, D!OutputDestroy(o) PROVE DevicesInv'
  BY <1>3, OutputGoes
<1>4. ASSUME D!SortOutputIndex PROVE DevicesInv'
  BY <1>4, SortKeeps
<1> QED
  BY <1>1, <1>2, <1>3, <1>4 DEF D!DevicesNext

(***************************************************************************)
(* The master layouts of an output: module Master                          *)
(***************************************************************************)

CONSTANTS Extra, Across, Upright, Factor, MaxWindows, MaxCount

VARIABLES windows, tag, ring, area, pull

N == INSTANCE Master WITH Width <- Across, Height <- Upright, drag <- pull

(* There is a pixel for every column and for every row.                    *)
MasterAssumption ==
    /\ Across \in Nat /\ Upright \in Nat /\ MaxWindows \in Nat /\ MaxCount \in Nat
    /\ Factor \subseteq Int
    /\ Across >= 10 /\ Across >= 10 * MaxCount /\ Upright >= MaxWindows

(* A tag has masters and columns, and the factor is in its limits.         *)
MasterInv ==
    /\ windows \in 0 .. MaxWindows
    /\ tag.count \in 1 .. MaxCount \cup {1} /\ tag.columns \in 1 .. MaxCount \cup {1}
    /\ tag.mwfact \in 1 .. 9
    /\ tag = [count |-> tag.count, columns |-> tag.columns, mwfact |-> tag.mwfact,
              layout |-> tag.layout]
    /\ area = [x |-> area.x, y |-> area.y] /\ area.x \in Nat /\ area.y \in Int
    /\ pull = [on |-> pull.on, init |-> pull.init, grab |-> pull.grab]
    /\ pull.init \in Int /\ pull.grab \in Int

LEMMA Quotient ==
  ASSUME NEW t \in Nat, NEW n \in Nat, n > 0
  PROVE  /\ t \div n \in Nat /\ t % n \in 0 .. n - 1
         /\ n * (t \div n) + (t % n) = t
         /\ n <= t => t \div n > 0
OBVIOUS

LEMMA Products ==
  ASSUME NEW a \in Nat, NEW b \in Nat, NEW h \in Nat, a <= b
  PROVE  /\ a * h \in Nat /\ b * h \in Nat /\ a * h <= b * h
         /\ h * a = a * h /\ (b - a) * h = b * h - a * h
         /\ (a + 1) * h = a * h + h
OBVIOUS

(***************************************************************************)
(* Columns                                                                 *)
(***************************************************************************)

(* How many stand in the columns before column c, when each has q and one  *)
(* more from column plain on.                                              *)
Ahead(c, q, plain) == c * q + (IF c > plain THEN c - plain ELSE 0)

LEMMA AheadGrows ==
  ASSUME NEW q \in Nat, q > 0, NEW plain \in Nat, NEW c \in Nat, NEW d \in Nat, c < d
  PROVE  /\ Ahead(c, q, plain) \in Nat /\ Ahead(c + 1, q, plain) \in Nat
         /\ Ahead(d, q, plain) \in Nat
         /\ Ahead(c, q, plain) + 1 <= Ahead(c + 1, q, plain)
         /\ Ahead(c + 1, q, plain) <= Ahead(d, q, plain)
<1>1. /\ c * q \in Nat /\ (c + 1) * q \in Nat /\ d * q \in Nat
      /\ (c + 1) * q = c * q + q /\ (c + 1) * q <= d * q
  BY Products
<1> QED
  BY <1>1 DEF Ahead

(* Each place is in one column.                                            *)
LEMMA ColumnIs ==
  ASSUME NEW q \in Nat, q > 0, NEW plain \in Nat, NEW cols \in Nat, cols > 0,
         NEW i \in Nat, 0 < i, i <= Ahead(cols, q, plain)
  PROVE  \E c \in 0 .. cols - 1 :
            /\ Ahead(c, q, plain) < i /\ i <= Ahead(c + 1, q, plain)
            /\ \A d \in 0 .. cols - 1 :
                  Ahead(d, q, plain) < i /\ i <= Ahead(d + 1, q, plain) => d = c
<1> DEFINE Past == {c \in 0 .. cols - 1 : i <= Ahead(c + 1, q, plain)}
<1>1. cols - 1 \in Past
  <2>1. cols - 1 \in 0 .. cols - 1 /\ (cols - 1) + 1 = cols
    OBVIOUS
  <2> QED
    BY <2>1
<1>2. Past \subseteq Nat
  OBVIOUS
<1> HIDE DEF Past
<1>3. PICK c \in Past : \A d \in Past : c <= d
  BY <1>1, <1>2, FirstPlace
<1>4. c \in 0 .. cols - 1 /\ i <= Ahead(c + 1, q, plain)
  BY <1>3 DEF Past
<1>5. Ahead(c, q, plain) < i
  <2>1. CASE c = 0
    <3>1. Ahead(0, q, plain) = 0
      BY DEF Ahead
    <3> QED
      BY <2>1, <3>1
  <2>2. CASE c # 0
    <3>1. c - 1 \in 0 .. cols - 1 /\ (c - 1) + 1 = c /\ c \in Nat /\ ~(c <= c - 1)
      BY <1>4, <2>2
    <3>2. c - 1 \notin Past
      BY <1>3, <3>1
    <3>3. ~(i <= Ahead(c, q, plain))
      BY <3>1, <3>2 DEF Past
    <3>4. c + 1 \in Nat /\ c < c + 1
      BY <3>1
    <3>5. Ahead(c, q, plain) \in Nat
      BY <3>1, <3>4, AheadGrows
    <3> QED
      BY <3>3, <3>5
  <2> QED
    BY <2>1, <2>2
<1>6. ASSUME NEW d \in 0 .. cols - 1, Ahead(d, q, plain) < i, i <= Ahead(d + 1, q, plain)
      PROVE  d = c
  <2>1. c \in Nat /\ d \in Nat
    BY <1>4
  <2>2. CASE c < d
    <3>1. /\ Ahead(c + 1, q, plain) \in Nat /\ Ahead(d, q, plain) \in Nat
          /\ Ahead(c + 1, q, plain) <= Ahead(d, q, plain)
      BY <2>1, <2>2, AheadGrows
    <3> QED
      BY <3>1, <1>4, <1>6
  <2>3. CASE d < c
    <3>1. /\ Ahead(d + 1, q, plain) \in Nat /\ Ahead(c, q, plain) \in Nat
          /\ Ahead(d + 1, q, plain) <= Ahead(c, q, plain)
      BY <2>1, <2>3, AheadGrows
    <3> QED
      BY <3>1, <1>5, <1>6
  <2> QED
    BY <2>1, <2>2, <2>3
<1> QED
  BY <1>4, <1>5, <1>6

(***************************************************************************)
(* Rows                                                                    *)
(***************************************************************************)

(* The height down to the end of row i of n.                               *)
Upto(i, n) == IF i = n THEN Upright ELSE i * (Upright \div n)

LEMMA CellIs ==
  ASSUME MasterAssumption, MasterInv, NEW n \in 1 .. MaxWindows, NEW i \in 1 .. n,
         NEW x, NEW w
  PROVE  LET b == N!Cell(i, n, x, w)
         IN /\ b.x = x /\ b.width = w
            /\ b.y = area.y + Upto(i - 1, n) /\ b.height = Upto(i, n) - Upto(i - 1, n)
            /\ b.height \in Nat /\ b.height > 0
            /\ Upto(i, n) \in Nat /\ Upto(i - 1, n) \in Nat
<1> DEFINE h == Upright \div n
<1>1. Upright \in Nat /\ n \in Nat /\ n > 0 /\ n <= Upright /\ i \in Nat /\ i > 0 /\ i <= n
  BY DEF MasterAssumption
<1>2. h \in Nat /\ h > 0 /\ n * h <= Upright
  <2>1. Upright % n \in 0 .. n - 1 /\ n * h + (Upright % n) = Upright /\ h \in Nat /\ h > 0
    BY <1>1, Quotient
  <2>2. n * h \in Nat
    BY <1>1, <2>1
  <2> QED
    BY <2>1, <2>2
<1> HIDE DEF h
<1>3. /\ (i - 1) * h \in Nat /\ i * h = (i - 1) * h + h /\ i * h \in Nat
      /\ (n - 1) * h \in Nat /\ (n - 1) * h + h = n * h
  <2>1. /\ i - 1 \in Nat /\ n - 1 \in Nat /\ (i - 1) + 1 = i /\ (n - 1) + 1 = n
        /\ i - 1 <= i /\ n - 1 <= n
    BY <1>1
  <2> QED
    BY <1>1, <1>2, <2>1, Products
<1>4. i - 1 # n /\ Upto(i - 1, n) = (i - 1) * h
  BY <1>1 DEF Upto, h
<1>5. Upto(i, n) = IF i = n THEN Upright ELSE i * h
  BY DEF Upto, h
<1>6. N!Cell(i, n, x, w) =
        [x |-> x, y |-> area.y + (i - 1) * h, width |-> w,
         height |-> IF i = n THEN Upright - (n - 1) * h ELSE h]
  BY DEF N!Cell, h
<1> QED
  BY <1>1, <1>2, <1>3, <1>4, <1>5, <1>6

LEMMA RowsApart ==
  ASSUME MasterAssumption, MasterInv, NEW n \in 1 .. MaxWindows, NEW i \in 1 .. n, NEW j \in 1 .. n,
         i < j
  PROVE  Upto(i, n) <= Upto(j - 1, n)
<1> DEFINE h == Upright \div n
<1>1. Upright \in Nat /\ n \in Nat /\ n > 0 /\ n <= Upright
  BY DEF MasterAssumption
<1>2. h \in Nat
  BY <1>1, Quotient
<1> HIDE DEF h
<1>3. i * h <= (j - 1) * h
  <2>1. i \in Nat /\ j - 1 \in Nat /\ i <= j - 1
    OBVIOUS
  <2> QED
    BY <1>2, <2>1, Products
<1>4. i # n /\ j - 1 # n
  OBVIOUS
<1> QED
  BY <1>3, <1>4 DEF Upto, h

(***************************************************************************)
(* The two areas                                                           *)
(***************************************************************************)

Cols(len) == N!Columns(tag, len)
Wide(len) == N!MasterWidth(tag, len)
Narrow(len) == (Across - Wide(len)) \div Cols(len)
Bef(c, len) == N!Before(tag, len, c)

LEMMA SharesAre ==
  ASSUME MasterAssumption, MasterInv, NEW len \in 1 .. MaxWindows, tag.count < len
  PROVE  /\ Cols(len) \in Nat /\ Cols(len) > 0
         /\ Wide(len) \in Nat /\ Wide(len) > 0 /\ Wide(len) <= Across
         /\ Narrow(len) \in Nat /\ Narrow(len) > 0
         /\ Cols(len) * Narrow(len) + ((Across - Wide(len)) % Cols(len)) = Across - Wide(len)
         /\ (Across - Wide(len)) % Cols(len) \in Nat
<1>1. /\ tag.count \in Nat /\ tag.count > 0 /\ tag.columns \in Nat /\ tag.columns > 0
      /\ tag.columns = 1 \/ tag.columns <= MaxCount
      /\ MaxCount \in Nat /\ Across \in Nat /\ Across >= 10 /\ Across >= 10 * MaxCount
      /\ tag.mwfact \in 1 .. 9 /\ len \in Nat
  BY DEF MasterInv, MasterAssumption
<1>2. /\ Cols(len) \in Nat /\ Cols(len) > 0 /\ Cols(len) <= tag.columns
      /\ Cols(len) <= len - tag.count
  BY <1>1 DEF Cols, N!Columns, N!AtMost
<1>3. Wide(len) = (Across * tag.mwfact) \div 10
  BY <1>1 DEF Wide, N!MasterWidth
<1>4. Across >= 10 * Cols(len)
  BY <1>1, <1>2
<1> DEFINE cols == Cols(len)
           wide == Wide(len)
           f == tag.mwfact
<1>5. /\ Across * f \in Nat /\ Across * 1 <= Across * f /\ Across * f <= Across * 9
  <2>1. f \in Nat /\ 1 <= f /\ f <= 9 /\ 1 \in Nat /\ 9 \in Nat
    BY <1>1
  <2>2. /\ 1 * Across <= f * Across /\ f * Across <= 9 * Across /\ f * Across \in Nat
        /\ Across * f = f * Across
    BY <1>1, <2>1, Products
  <2> QED
    BY <1>1, <2>2
<1>6. PICK af \in Nat : af = Across * f
  BY <1>5
<1>7. af >= Across /\ af <= 9 * Across /\ wide = af \div 10
  BY <1>1, <1>3, <1>5, <1>6
<1>8. wide \in Nat /\ wide > 0 /\ wide <= Across /\ cols <= Across - wide
  <2> HIDE DEF cols, wide, f
  <2>1. cols \in Nat /\ Across >= 10 * cols
    BY <1>2, <1>4 DEF cols
  <2> QED
    BY <1>1, <1>7, <2>1
<1>9. Across - wide \in Nat /\ cols \in Nat /\ cols > 0
  BY <1>1, <1>2, <1>8
<1> HIDE DEF cols, wide
<1>10. /\ (Across - wide) \div cols \in Nat /\ (Across - wide) % cols \in 0 .. cols - 1
       /\ cols * ((Across - wide) \div cols) + ((Across - wide) % cols) = Across - wide
       /\ (Across - wide) \div cols > 0
  <2>1. PICK a \in Nat : a = Across - wide
    BY <1>9
  <2> QED
    BY <1>8, <1>9, <2>1, Quotient
<1> QED
  BY <1>8, <1>9, <1>10 DEF cols, wide, Narrow

LEMMA BeforeIs ==
  ASSUME MasterAssumption, MasterInv, NEW len \in 1 .. MaxWindows, tag.count < len
  PROVE  \E q \in Nat, plain \in Nat :
            /\ q > 0
            /\ \A c \in Nat : Bef(c, len) = Ahead(c, q, plain)
            /\ Bef(0, len) = 0 /\ Bef(Cols(len), len) = len - tag.count
<1> DEFINE sec == len - tag.count
           cols == Cols(len)
           q == sec \div cols
           plain == cols - (sec % cols)
<1>1. /\ tag.count \in Nat /\ tag.count > 0 /\ tag.columns \in Nat /\ tag.columns > 0
      /\ len \in Nat
  BY DEF MasterInv
<1>2. /\ cols \in Nat /\ cols > 0 /\ cols <= sec /\ sec \in Nat
  BY <1>1 DEF Cols, N!Columns, N!AtMost
<1>3. \A c : Bef(c, len) = c * q + (IF c > plain THEN c - plain ELSE 0)
  BY DEF Bef, N!Before, Cols
<1> HIDE DEF sec, cols
<1>4. q \in Nat /\ q > 0 /\ sec % cols \in 0 .. cols - 1 /\ cols * q + (sec % cols) = sec
  BY <1>2, Quotient
<1>5. plain \in Nat
  BY <1>2, <1>4
<1> HIDE DEF q
<1>6. Bef(0, len) = 0
  BY <1>3, <1>4, <1>5
<1>7. Bef(cols, len) = sec
  <2>1. Bef(cols, len) = cols * q + (IF cols > plain THEN cols - plain ELSE 0)
    BY <1>3
  <2>2. cols * q \in Nat
    BY <1>2, <1>4
  <2>3. (IF cols > plain THEN cols - plain ELSE 0) = sec % cols
    BY <1>2, <1>4
  <2> QED
    BY <2>1, <2>2, <2>3, <1>4
<1> HIDE DEF plain
<1> QED
  BY <1>3, <1>4, <1>5, <1>6, <1>7 DEF Ahead, cols, sec

(* Window i of those beside the masters is in the column of its number.    *)
LEMMA SecondaryIs ==
  ASSUME MasterAssumption, MasterInv, NEW len \in 1 .. MaxWindows, tag.count < len,
         NEW i \in 1 .. len - tag.count
  PROVE  \E c \in 0 .. Cols(len) - 1 :
            /\ Bef(c, len) < i /\ i <= Bef(c + 1, len)
            /\ \A d \in 0 .. Cols(len) - 1 : Bef(d, len) < i /\ i <= Bef(d + 1, len) => d = c
            /\ Bef(c, len) \in Nat /\ Bef(c + 1, len) \in Nat
            /\ Bef(c + 1, len) - Bef(c, len) \in 1 .. MaxWindows
            /\ i - Bef(c, len) \in 1 .. Bef(c + 1, len) - Bef(c, len)
            /\ N!Secondary(tag, len, i)
                 = N!Cell(i - Bef(c, len), Bef(c + 1, len) - Bef(c, len),
                          Wide(len) + c * Narrow(len), Narrow(len))
<1>1. PICK q \in Nat, plain \in Nat :
            /\ q > 0
            /\ \A c \in Nat : Bef(c, len) = Ahead(c, q, plain)
            /\ Bef(0, len) = 0 /\ Bef(Cols(len), len) = len - tag.count
  BY BeforeIs
<1>2. Cols(len) \in Nat /\ Cols(len) > 0 /\ tag.count \in Nat
  BY SharesAre DEF MasterInv
<1>3. PICK c \in 0 .. Cols(len) - 1 :
            /\ Ahead(c, q, plain) < i /\ i <= Ahead(c + 1, q, plain)
            /\ \A d \in 0 .. Cols(len) - 1 :
                  Ahead(d, q, plain) < i /\ i <= Ahead(d + 1, q, plain) => d = c
  <2>1. i \in Nat /\ 0 < i /\ i <= Ahead(Cols(len), q, plain)
    BY <1>1, <1>2
  <2> QED
    BY <1>1, <1>2, <2>1, ColumnIs
<1>4. \A d \in 0 .. Cols(len) - 1 : d \in Nat /\ d + 1 \in Nat
  BY <1>2
<1>5. /\ Bef(c, len) < i /\ i <= Bef(c + 1, len)
      /\ \A d \in 0 .. Cols(len) - 1 : Bef(d, len) < i /\ i <= Bef(d + 1, len) => d = c
  BY <1>1, <1>3, <1>4
<1>6. c = CHOOSE d \in 0 .. Cols(len) - 1 : Bef(d, len) < i /\ i <= Bef(d + 1, len)
  BY <1>5
<1>7. N!Secondary(tag, len, i)
        = N!Cell(i - Bef(c, len), Bef(c + 1, len) - Bef(c, len),
                 Wide(len) + c * Narrow(len), Narrow(len))
  <2> DEFINE d == CHOOSE d \in 0 .. Cols(len) - 1 : Bef(d, len) < i /\ i <= Bef(d + 1, len)
  <2>1. N!Secondary(tag, len, i)
        = N!Cell(i - Bef(d, len), Bef(d + 1, len) - Bef(d, len),
                 Wide(len) + d * Narrow(len), Narrow(len))
    BY DEF N!Secondary, Bef, Wide, Narrow, Cols
  <2>2. c = d
    BY <1>6
  <2> HIDE DEF d
  <2> QED
    BY <2>1, <2>2
<1>8. /\ Bef(c, len) \in Nat /\ Bef(c + 1, len) \in Nat
      /\ Bef(c + 1, len) <= len - tag.count
  <2>1. c \in Nat /\ Cols(len) \in Nat /\ c < Cols(len)
    BY <1>2
  <2>2. /\ Ahead(c, q, plain) \in Nat /\ Ahead(c + 1, q, plain) \in Nat
        /\ Ahead(c + 1, q, plain) <= Ahead(Cols(len), q, plain)
    <3>1. PICK k \in Nat : k = Cols(len)
      BY <2>1
    <3>2. q > 0 /\ c < k
      BY <1>1, <2>1, <3>1
    <3> QED
      BY <2>1, <3>1, <3>2, AheadGrows
  <2>3. /\ Bef(c, len) = Ahead(c, q, plain) /\ Bef(c + 1, len) = Ahead(c + 1, q, plain)
        /\ Bef(Cols(len), len) = Ahead(Cols(len), q, plain)
    BY <1>1, <1>4, <2>1
  <2> QED
    BY <1>1, <2>2, <2>3
<1>9. /\ Bef(c + 1, len) - Bef(c, len) \in 1 .. MaxWindows
      /\ i - Bef(c, len) \in 1 .. Bef(c + 1, len) - Bef(c, len)
  <2>1. MaxWindows \in Nat /\ tag.count \in Nat /\ len \in Nat /\ len <= MaxWindows
    BY <1>2 DEF MasterAssumption
  <2>2. PICK a, b : a = Bef(c, len) /\ b = Bef(c + 1, len)
    OBVIOUS
  <2>3. a \in Nat /\ b \in Nat /\ b <= len - tag.count /\ a < i /\ i <= b
    BY <1>5, <1>8, <2>2
  <2>4. b - a \in 1 .. MaxWindows /\ i - a \in 1 .. b - a
    BY <2>1, <2>3
  <2> QED
    BY <2>2, <2>4
<1> QED
  BY <1>5, <1>7, <1>8, <1>9

(***************************************************************************)
(* What the tiles cover                                                    *)
(***************************************************************************)

(* What the first n of the boxes b cover, summed up as TilesFit does.      *)
Sum(n, b) == LET covered[i \in 0 .. n] ==
                     IF i = 0 THEN 0 ELSE covered[i - 1] + b[i].width * b[i].height
             IN covered[n]

LEMMA SumIs ==
  ASSUME NEW n \in Nat, NEW b, NEW g, g[0] = 0,
         \A i \in 1 .. n : g[i] = g[i - 1] + b[i].width * b[i].height
  PROVE  Sum(n, b) = g[n]
<1> DEFINE Sums(f) == f = [i \in 0 .. n |-> IF i = 0 THEN 0
                                            ELSE f[i - 1] + b[i].width * b[i].height]
           covered == CHOOSE f : Sums(f)
<1>1. Sums([i \in 0 .. n |-> g[i]])
  <2> DEFINE f == [i \in 0 .. n |-> g[i]]
  <2>1. ASSUME NEW i \in 0 .. n
        PROVE  f[i] = IF i = 0 THEN 0 ELSE f[i - 1] + b[i].width * b[i].height
    <3>1. CASE i = 0
      BY <3>1
    <3>2. CASE i # 0
      <4>1. i \in 1 .. n /\ i - 1 \in 0 .. n
        BY <3>2
      <4>2. f[i] = g[i] /\ f[i - 1] = g[i - 1]
        BY <4>1
      <4> QED
        BY <3>2, <4>1, <4>2
    <3> QED
      BY <3>1, <3>2
  <2> QED
    BY <2>1
<1>2. Sums(covered)
  BY <1>1
<1>3. \A i \in 0 .. n : covered[i] = IF i = 0 THEN 0
                                     ELSE covered[i - 1] + b[i].width * b[i].height
  <2> HIDE DEF covered
  <2> QED
    BY <1>2
<1> HIDE DEF covered
<1> DEFINE Fails == {i \in 0 .. n : covered[i] # g[i]}
<1>4. Fails = {}
  <2> SUFFICES ASSUME Fails # {} PROVE FALSE
    OBVIOUS
  <2>1. Fails \subseteq Nat
    OBVIOUS
  <2> HIDE DEF Fails
  <2>2. PICK i \in Fails : \A j \in Fails : i <= j
    BY <2>1, FirstPlace
  <2>3. i \in 0 .. n /\ covered[i] # g[i]
    BY <2>2 DEF Fails
  <2>4. i # 0
    BY <1>3, <2>3
  <2>5. i - 1 \in 0 .. n /\ ~(i <= i - 1) /\ i \in 1 .. n
    BY <2>3, <2>4
  <2>6. covered[i - 1] = g[i - 1]
    BY <2>2, <2>5 DEF Fails
  <2>7. covered[i] = covered[i - 1] + b[i].width * b[i].height
    BY <1>3, <2>3, <2>4
  <2>8. g[i] = g[i - 1] + b[i].width * b[i].height
    BY <2>5
  <2> QED
    BY <2>3, <2>6, <2>7, <2>8
<1>5. covered[n] = g[n]
  <2>1. n \in 0 .. n
    OBVIOUS
  <2> QED
    BY <1>4, <2>1
<1> QED
  BY <1>5 DEF covered, Sum

Column(i, len) == CHOOSE c \in 0 .. Cols(len) - 1 : Bef(c, len) < i /\ i <= Bef(c + 1, len)

InColumn(c, len) == Bef(c + 1, len) - Bef(c, len)

LEMMA ColumnHas ==
  ASSUME MasterAssumption, MasterInv, NEW len \in 1 .. MaxWindows, tag.count < len,
         NEW i \in 1 .. len - tag.count
  PROVE  LET c == Column(i, len)
         IN /\ c \in 0 .. Cols(len) - 1
            /\ Bef(c, len) < i /\ i <= Bef(c + 1, len)
            /\ Bef(c, len) \in Nat /\ Bef(c + 1, len) \in Nat
            /\ InColumn(c, len) \in 1 .. MaxWindows
            /\ i - Bef(c, len) \in 1 .. InColumn(c, len)
            /\ \A d \in 0 .. Cols(len) - 1 : Bef(d, len) < i /\ i <= Bef(d + 1, len) => d = c
            /\ N!Secondary(tag, len, i)
                 = N!Cell(i - Bef(c, len), InColumn(c, len),
                          Wide(len) + c * Narrow(len), Narrow(len))
<1>1. PICK c \in 0 .. Cols(len) - 1 :
            /\ Bef(c, len) < i /\ i <= Bef(c + 1, len)
            /\ \A d \in 0 .. Cols(len) - 1 : Bef(d, len) < i /\ i <= Bef(d + 1, len) => d = c
            /\ Bef(c, len) \in Nat /\ Bef(c + 1, len) \in Nat
            /\ Bef(c + 1, len) - Bef(c, len) \in 1 .. MaxWindows
            /\ i - Bef(c, len) \in 1 .. Bef(c + 1, len) - Bef(c, len)
            /\ N!Secondary(tag, len, i)
                 = N!Cell(i - Bef(c, len), Bef(c + 1, len) - Bef(c, len),
                          Wide(len) + c * Narrow(len), Narrow(len))
  BY SecondaryIs
<1>2. Column(i, len) = c
  BY <1>1 DEF Column
<1> QED
  BY <1>1, <1>2 DEF InColumn

(* How much the tiles up to the i-th of len cover.                         *)
Share(i, len) ==
    LET k == N!Masters(tag, len)
        l == i - tag.count
        c == Column(l, len)
    IN IF i <= k THEN Wide(len) * Upto(i, k)
       ELSE Wide(len) * Upright + c * (Narrow(len) * Upright)
              + Narrow(len) * Upto(l - Bef(c, len), InColumn(c, len))

LEMMA MastersAre ==
  ASSUME MasterAssumption, MasterInv, NEW len \in 1 .. MaxWindows
  PROVE  /\ N!Masters(tag, len) \in 1 .. MaxWindows /\ N!Masters(tag, len) <= len
         /\ tag.count \in Nat /\ tag.count > 0
         /\ tag.count < len => N!Masters(tag, len) = tag.count
         /\ ~(tag.count < len) => N!Masters(tag, len) = len /\ Wide(len) = Across
         /\ Wide(len) \in Nat /\ Wide(len) > 0 /\ Wide(len) <= Across
         /\ Upright \in Nat /\ Upright > 0 /\ Across \in Nat
<1>1. /\ tag.count \in Nat /\ tag.count > 0 /\ len \in Nat /\ len > 0 /\ len <= MaxWindows
      /\ Across \in Nat /\ Across > 0 /\ Upright \in Nat /\ MaxWindows \in Nat
      /\ MaxWindows <= Upright
  BY DEF MasterInv, MasterAssumption
<1>2. N!Masters(tag, len) = IF tag.count < len THEN tag.count ELSE len
  BY DEF N!Masters, N!AtMost
<1>3. ~(tag.count < len) => Wide(len) = Across
  BY <1>1 DEF Wide, N!MasterWidth
<1>4. Wide(len) \in Nat /\ Wide(len) > 0 /\ Wide(len) <= Across
  BY <1>1, <1>3, SharesAre
<1> QED
  BY <1>1, <1>2, <1>3, <1>4

LEMMA MasterTile ==
  ASSUME MasterAssumption, MasterInv, NEW len \in 1 .. MaxWindows,
         NEW i \in 1 .. N!Masters(tag, len)
  PROVE  LET b == N!Tile(tag, len)[i]
             k == N!Masters(tag, len)
         IN /\ b.x = area.x /\ b.width = Wide(len)
            /\ b.y = area.y + Upto(i - 1, k) /\ b.height = Upto(i, k) - Upto(i - 1, k)
            /\ b.height \in Nat /\ b.height > 0
            /\ Upto(i, k) \in Nat /\ Upto(i - 1, k) \in Nat
<1>1. PICK k : k = N!Masters(tag, len)
  OBVIOUS
<1>2. k \in 1 .. MaxWindows /\ k <= len
  BY <1>1, MastersAre
<1>3. i \in 1 .. len /\ i \in 1 .. k /\ i <= k
  BY <1>1, <1>2
<1>4. N!Tile(tag, len)[i] = N!Cell(i, k, area.x, Wide(len))
  BY <1>1, <1>3 DEF N!Tile, Wide
<1> QED
  BY <1>1, <1>2, <1>3, <1>4, CellIs

LEMMA SecondTile ==
  ASSUME MasterAssumption, MasterInv, NEW len \in 1 .. MaxWindows, tag.count < len,
         NEW i \in 1 .. len - tag.count
  PROVE  LET b == N!Tile(tag, len)[i + tag.count]
             c == Column(i, len)
             j == i - Bef(c, len)
             n == InColumn(c, len)
         IN /\ b.x = Wide(len) + c * Narrow(len) /\ b.width = Narrow(len)
            /\ b.y = area.y + Upto(j - 1, n) /\ b.height = Upto(j, n) - Upto(j - 1, n)
            /\ b.height \in Nat /\ b.height > 0
            /\ Upto(j, n) \in Nat /\ Upto(j - 1, n) \in Nat
<1>1. PICK c, j, n, w, x : /\ c = Column(i, len) /\ j = i - Bef(c, len) /\ n = InColumn(c, len)
                           /\ w = Narrow(len) /\ x = Wide(len) + c * Narrow(len)
  OBVIOUS
<1>2. n \in 1 .. MaxWindows /\ j \in 1 .. n /\ N!Secondary(tag, len, i) = N!Cell(j, n, x, w)
  BY <1>1, ColumnHas
<1>3. /\ tag.count \in Nat /\ N!Masters(tag, len) = tag.count /\ i + tag.count \in 1 .. len
      /\ ~(i + tag.count <= tag.count) /\ (i + tag.count) - tag.count = i
  BY MastersAre
<1>4. N!Tile(tag, len)[i + tag.count] = N!Secondary(tag, len, i)
  BY <1>3 DEF N!Tile
<1>5. LET b == N!Cell(j, n, x, w)
      IN /\ b.x = x /\ b.width = w
         /\ b.y = area.y + Upto(j - 1, n) /\ b.height = Upto(j, n) - Upto(j - 1, n)
         /\ b.height \in Nat /\ b.height > 0
         /\ Upto(j, n) \in Nat /\ Upto(j - 1, n) \in Nat
  BY <1>2, CellIs
<1> QED
  BY <1>1, <1>2, <1>4, <1>5

LEMMA Ends ==
  ASSUME MasterAssumption, MasterInv, NEW n \in 1 .. MaxWindows
  PROVE  Upto(0, n) = 0 /\ Upto(n, n) = Upright
<1>1. n # 0 /\ n \in Nat /\ n > 0 /\ Upright \in Nat
  BY DEF MasterAssumption
<1>2. PICK h \in Nat : h = Upright \div n
  BY <1>1, Quotient
<1> QED
  BY <1>1, <1>2 DEF Upto

LEMMA Spread ==
  ASSUME NEW w \in Nat, NEW u \in Nat, NEW v \in Nat
  PROVE  w * u \in Nat /\ w * v \in Nat /\ w * u = w * v + w * (u - v)
OBVIOUS

LEMMA MasterShare ==
  ASSUME MasterAssumption, MasterInv, NEW len \in 1 .. MaxWindows,
         NEW i \in 1 .. N!Masters(tag, len)
  PROVE  LET b == N!Tile(tag, len)[i]
         IN /\ Share(i, len) \in Nat
            /\ Share(i, len) = Share(i - 1, len) + b.width * b.height
<1>1. PICK k, w, u, v, b : /\ k = N!Masters(tag, len) /\ w = Wide(len) /\ u = Upto(i, k)
                           /\ v = Upto(i - 1, k) /\ b = N!Tile(tag, len)[i]
  OBVIOUS
<1>2. w \in Nat /\ u \in Nat /\ v \in Nat /\ b.width = w /\ b.height = u - v
  BY <1>1, MasterTile, MastersAre
<1>3. i <= k /\ i - 1 <= k
  BY <1>1, MastersAre
<1>4. Share(i, len) = w * u /\ Share(i - 1, len) = w * v
  BY <1>1, <1>3 DEF Share
<1> QED
  BY <1>1, <1>2, <1>4, Spread

(* The tile before the first of a column is the last of the one before it, *)
(* or the last master.                                                     *)
LEMMA SecondShare ==
  ASSUME MasterAssumption, MasterInv, NEW len \in 1 .. MaxWindows, tag.count < len,
         NEW i \in 1 .. len - tag.count
  PROVE  LET b == N!Tile(tag, len)[i + tag.count]
         IN /\ Share(i + tag.count, len) \in Nat
            /\ Share(i + tag.count, len) = Share(i + tag.count - 1, len) + b.width * b.height
<1>1. /\ tag.count \in Nat /\ tag.count > 0 /\ N!Masters(tag, len) = tag.count
      /\ Upright \in Nat /\ Wide(len) \in Nat /\ Narrow(len) \in Nat
      /\ Cols(len) \in Nat /\ len \in Nat /\ tag.count \in 1 .. MaxWindows
  BY MastersAre, SharesAre
<1>2. PICK c, j, n, w, b, m, all :
            /\ c = Column(i, len) /\ j = i - Bef(c, len) /\ n = InColumn(c, len)
            /\ w = Narrow(len) /\ b = N!Tile(tag, len)[i + tag.count] /\ m = tag.count
            /\ all = Wide(len) * Upright
  OBVIOUS
<1>3. /\ c \in 0 .. Cols(len) - 1 /\ Bef(c, len) \in Nat /\ n \in 1 .. MaxWindows
      /\ j \in 1 .. n
  BY <1>2, ColumnHas
<1>4. /\ b.width = w /\ b.height = Upto(j, n) - Upto(j - 1, n)
      /\ Upto(j, n) \in Nat /\ Upto(j - 1, n) \in Nat
  BY <1>2, SecondTile
<1>5. all \in Nat /\ w \in Nat /\ c \in Nat /\ c * (w * Upright) \in Nat
  <2>1. Wide(len) * Upright \in Nat /\ w * Upright \in Nat /\ c \in Nat
    BY <1>1, <1>2, <1>3, Spread
  <2> QED
    BY <1>1, <1>2, <2>1, Spread
<1>6. Share(i + m, len) = all + c * (w * Upright) + w * Upto(j, n)
  <2>1. ~(i + m <= m) /\ (i + m) - m = i
    BY <1>1, <1>2
  <2> QED
    BY <1>1, <1>2, <2>1 DEF Share
<1>7. /\ w * Upto(j, n) \in Nat /\ w * Upto(j - 1, n) \in Nat
      /\ w * Upto(j, n) = w * Upto(j - 1, n) + w * (Upto(j, n) - Upto(j - 1, n))
  BY <1>4, <1>5, Spread
<1>8. Share(i + m - 1, len) = all + c * (w * Upright) + w * Upto(j - 1, n)
  <2>1. CASE j > 1
    <3>1. i - 1 \in 1 .. len - tag.count /\ Bef(c, len) < i - 1 /\ i - 1 <= Bef(c + 1, len)
      BY <2>1, <1>1, <1>2, <1>3, ColumnHas
    <3>2. Column(i - 1, len) = c
      BY <1>3, <3>1, ColumnHas
    <3>3. ~(i + m - 1 <= m) /\ (i + m - 1) - m = i - 1 /\ (i - 1) - Bef(c, len) = j - 1
      BY <1>1, <1>2, <1>3, <3>1
    <3> QED
      BY <1>1, <1>2, <3>2, <3>3 DEF Share
  <2>2. CASE j = 1
    <3>1. i - 1 = Bef(c, len)
      BY <2>2, <1>2, <1>3
    <3>2. w * Upto(j - 1, n) = 0
      <4>1. Upto(0, n) = 0 /\ j - 1 = 0
        BY <1>3, <2>2, Ends
      <4> QED
        BY <1>5, <4>1
    <3>3. PICK q \in Nat, plain \in Nat :
              /\ q > 0 /\ \A d \in Nat : Bef(d, len) = Ahead(d, q, plain)
              /\ Bef(0, len) = 0
      BY BeforeIs
    <3>4. CASE c = 0
      <4>1. i - 1 = 0 /\ i + m - 1 = m /\ m <= m
        BY <3>1, <3>3, <3>4, <1>1, <1>2
      <4>2. Share(i + m - 1, len) = Wide(len) * Upto(m, m)
        BY <1>1, <1>2, <4>1 DEF Share
      <4>3. Upto(m, m) = Upright
        BY <1>1, <1>2, Ends
      <4>4. c * (w * Upright) = 0
        <5>1. w * Upright \in Nat
          BY <1>1, <1>5, Spread
        <5> QED
          BY <3>4, <5>1
      <4> QED
        BY <1>2, <1>5, <3>2, <4>2, <4>3, <4>4
    <3>5. CASE c # 0
      <4>1. PICK d \in Nat : d = c - 1
        BY <3>5, <1>5
      <4>2. d \in 0 .. Cols(len) - 1 /\ d + 1 = c /\ d < c
        BY <4>1, <1>1, <1>3
      <4>3. Bef(d, len) \in Nat /\ Bef(d, len) < Bef(c, len)
        <5>1. Ahead(d, q, plain) \in Nat /\ Ahead(d, q, plain) + 1 <= Ahead(d + 1, q, plain)
              /\ Ahead(d + 1, q, plain) \in Nat
          BY <3>3, <4>2, <1>5, AheadGrows
        <5>2. Bef(d, len) = Ahead(d, q, plain) /\ Bef(c, len) = Ahead(d + 1, q, plain)
          BY <3>3, <4>2, <1>5
        <5> QED
          BY <5>1, <5>2
      <4>4. i - 1 \in 1 .. len - tag.count /\ Bef(d, len) < i - 1 /\ i - 1 <= Bef(d + 1, len)
        BY <1>1, <1>3, <3>1, <4>2, <4>3
      <4>5. Column(i - 1, len) = d
        BY <4>2, <4>4, ColumnHas
      <4>6. ~(i + m - 1 <= m) /\ (i + m - 1) - m = i - 1
        BY <1>1, <1>2, <4>4
      <4>7. InColumn(d, len) \in 1 .. MaxWindows /\ (i - 1) - Bef(d, len) = InColumn(d, len)
        <5>1. InColumn(d, len) \in 1 .. MaxWindows
          BY <4>4, <4>5, ColumnHas
        <5> QED
          BY <3>1, <4>2, <5>1 DEF InColumn
      <4>8. Upto((i - 1) - Bef(d, len), InColumn(d, len)) = Upright
        BY <4>7, Ends
      <4>9. Share(i + m - 1, len) = all + d * (w * Upright) + w * Upright
        BY <1>1, <1>2, <4>5, <4>6, <4>8 DEF Share
      <4>10. /\ d * (w * Upright) \in Nat /\ w * Upright \in Nat
             /\ c * (w * Upright) = d * (w * Upright) + w * Upright
        <5>1. w * Upright \in Nat
          BY <1>1, <1>5, Spread
        <5>2. PICK u \in Nat : u = w * Upright
          BY <5>1
        <5>3. d * u \in Nat /\ (d + 1) * u = d * u + u
          BY <4>1, <5>2, <4>2, <1>5, Products
        <5> QED
          BY <4>2, <5>2, <5>3
      <4> QED
        BY <1>5, <3>2, <4>9, <4>10
    <3> QED
      BY <3>4, <3>5
  <2> QED
    BY <1>3, <2>1, <2>2
<1>9. Share(i + m, len) \in Nat
  BY <1>5, <1>6, <1>7
<1>10. b.width * b.height = w * (Upto(j, n) - Upto(j - 1, n))
  BY <1>4
<1>11. Share(i + m, len) = Share(i + m - 1, len) + b.width * b.height
  <2>1. PICK x, y, z : x = c * (w * Upright) /\ y = w * Upto(j - 1, n)
                       /\ z = w * (Upto(j, n) - Upto(j - 1, n))
    OBVIOUS
  <2>2. x \in Nat /\ y \in Nat /\ z \in Int
    BY <2>1, <1>4, <1>5, <1>7
  <2>3. Share(i + m, len) = all + x + (y + z) /\ Share(i + m - 1, len) = all + x + y
    BY <1>6, <1>7, <1>8, <2>1
  <2> QED
    BY <1>5, <1>10, <2>1, <2>2, <2>3
<1> QED
  BY <1>2, <1>9, <1>11

Strip(len) == IF len > tag.count THEN (Across - Wide(len)) % Cols(len) ELSE 0

LEMMA ShareOfAll ==
  ASSUME MasterAssumption, MasterInv, NEW len \in 1 .. MaxWindows
  PROVE  /\ Share(0, len) = 0
         /\ Share(len, len) = (Across - Strip(len)) * Upright
<1>1. PICK k : k = N!Masters(tag, len)
  OBVIOUS
<1>2. /\ k \in 1 .. MaxWindows /\ k <= len /\ tag.count \in Nat /\ tag.count > 0
      /\ tag.count < len => k = tag.count
      /\ ~(tag.count < len) => k = len /\ Wide(len) = Across
      /\ Wide(len) \in Nat /\ Upright \in Nat /\ Across \in Nat
  BY <1>1, MastersAre
<1>3. Upto(0, k) = 0 /\ Upto(k, k) = Upright
  BY <1>2, Ends
<1>4. Share(0, len) = 0
  <2>1. 0 <= k
    BY <1>2
  <2>2. Share(0, len) = Wide(len) * Upto(0, k)
    BY <1>1, <2>1 DEF Share
  <2> QED
    BY <1>2, <1>3, <2>2
<1>5. CASE ~(tag.count < len)
  <2>1. Share(len, len) = Wide(len) * Upright
    BY <1>1, <1>2, <1>3, <1>5 DEF Share
  <2>2. Strip(len) = 0
    BY <1>2, <1>5 DEF Strip
  <2> QED
    BY <1>2, <1>4, <1>5, <2>1, <2>2
<1>6. CASE tag.count < len
  <2>1. PICK i, cols, w, wide, strip, d :
              /\ i = len - tag.count /\ cols = Cols(len) /\ w = Narrow(len)
              /\ wide = Wide(len) /\ strip = (Across - Wide(len)) % Cols(len)
              /\ d = cols - 1
    OBVIOUS
  <2>2. /\ cols \in Nat /\ cols > 0 /\ w \in Nat /\ wide \in Nat /\ strip \in Nat
        /\ cols * w + strip = Across - wide
    BY <1>6, <2>1, SharesAre
  <2>3. i \in 1 .. len - tag.count /\ i \in Nat
    BY <1>2, <1>6, <2>1
  <2>4. PICK q \in Nat, plain \in Nat :
            /\ q > 0 /\ \A c \in Nat : Bef(c, len) = Ahead(c, q, plain)
            /\ Bef(0, len) = 0 /\ Bef(Cols(len), len) = len - tag.count
    BY <1>6, BeforeIs
  <2>5. d \in Nat /\ d \in 0 .. Cols(len) - 1 /\ d + 1 = cols /\ d < cols
    BY <2>1, <2>2
  <2>6. Bef(d, len) \in Nat /\ Bef(d, len) < i /\ Bef(d + 1, len) = i
    <3>1. Ahead(d, q, plain) \in Nat /\ Ahead(d, q, plain) + 1 <= Ahead(d + 1, q, plain)
          /\ Ahead(d + 1, q, plain) \in Nat
      BY <2>2, <2>4, <2>5, AheadGrows
    <3>2. Bef(d, len) = Ahead(d, q, plain) /\ Bef(cols, len) = Ahead(d + 1, q, plain)
      BY <2>2, <2>4, <2>5
    <3> QED
      BY <2>1, <2>4, <2>5, <3>1, <3>2
  <2>7. Column(i, len) = d
    BY <1>6, <2>3, <2>5, <2>6, ColumnHas
  <2>8. InColumn(d, len) \in 1 .. MaxWindows /\ i - Bef(d, len) = InColumn(d, len)
    <3>1. InColumn(d, len) \in 1 .. MaxWindows
      BY <1>6, <2>3, <2>7, ColumnHas
    <3> QED
      BY <2>6, <3>1 DEF InColumn
  <2>9. Upto(i - Bef(d, len), InColumn(d, len)) = Upright
    BY <2>8, Ends
  <2>10. Share(len, len) = wide * Upright + d * (w * Upright) + w * Upright
    <3>1. ~(len <= k)
      BY <1>2, <1>6
    <3> QED
      BY <1>1, <2>1, <2>7, <2>9, <3>1 DEF Share
  <2>11. /\ d * (w * Upright) + w * Upright = cols * (w * Upright)
         /\ cols * (w * Upright) = (cols * w) * Upright
         /\ cols * w \in Nat
    <3>1. PICK u \in Nat : u = w * Upright
      BY <1>2, <2>2
    <3>2. (d + 1) * u = d * u + u
      BY <2>5, <3>1
    <3> QED
      BY <1>2, <2>2, <2>5, <3>1, <3>2
  <2>12. PICK e \in Nat : e = cols * w
    BY <2>11
  <2>13. Strip(len) = strip
    <3>1. len > tag.count
      BY <1>2, <1>6
    <3> QED
      BY <2>1, <3>1 DEF Strip
  <2>14. Across - strip = wide + e
    <3>1. e + strip = Across - wide
      BY <2>2, <2>12
    <3> QED
      BY <1>2, <2>2, <3>1
  <2>15. (wide + e) * Upright = wide * Upright + e * Upright /\ wide * Upright \in Nat
    BY <1>2, <2>2
  <2>16. d * (w * Upright) + w * Upright = e * Upright
    BY <2>11, <2>12
  <2>17. d * (w * Upright) \in Nat /\ w * Upright \in Nat
    <3>1. PICK u \in Nat : u = w * Upright
      BY <1>2, <2>2
    <3>2. d * u \in Nat
      BY <2>5, <3>1
    <3> QED
      BY <3>1, <3>2
  <2>18. Share(len, len) = wide * Upright + e * Upright
    <3>1. PICK x, y, z : x = wide * Upright /\ y = d * (w * Upright) /\ z = w * Upright
      OBVIOUS
    <3>2. x \in Nat /\ y \in Nat /\ z \in Nat
      BY <2>15, <2>17, <3>1
    <3>3. y + z = e * Upright /\ Share(len, len) = x + y + z
      BY <2>10, <2>16, <3>1
    <3>4. x + y + z = x + (y + z)
      BY <3>2
    <3> QED
      BY <3>1, <3>3, <3>4
  <2> QED
    BY <1>4, <2>13, <2>14, <2>15, <2>18
<1> QED
  BY <1>2, <1>5, <1>6

(***************************************************************************)
(* Tiles stand apart                                                       *)
(***************************************************************************)

LEMMA MastersApart ==
  ASSUME MasterAssumption, MasterInv, NEW len \in 1 .. MaxWindows,
         NEW i \in 1 .. N!Masters(tag, len), NEW j \in 1 .. N!Masters(tag, len), i < j
  PROVE  LET b == N!Tile(tag, len) IN b[i].y + b[i].height <= b[j].y
<1>1. PICK k, u, v, z : /\ k = N!Masters(tag, len) /\ u = Upto(i, k) /\ v = Upto(j - 1, k)
                        /\ z = Upto(i - 1, k)
  OBVIOUS
<1>2. k \in 1 .. MaxWindows
  BY <1>1, MastersAre
<1>3. u <= v
  BY <1>1, <1>2, RowsApart
<1>4. /\ N!Tile(tag, len)[i].y = area.y + z /\ N!Tile(tag, len)[i].height = u - z
      /\ N!Tile(tag, len)[j].y = area.y + v
      /\ u \in Nat /\ v \in Nat /\ z \in Nat
  BY <1>1, MasterTile
<1>5. area.y \in Int
  BY DEF MasterInv
<1> QED
  BY <1>3, <1>4, <1>5

LEMMA SecondApart ==
  ASSUME MasterAssumption, MasterInv, NEW len \in 1 .. MaxWindows, tag.count < len,
         NEW i \in 1 .. len - tag.count, NEW j \in 1 .. len - tag.count, i < j
  PROVE  LET b == N!Tile(tag, len)[i + tag.count]
             e == N!Tile(tag, len)[j + tag.count]
         IN b.x + b.width <= e.x \/ e.x + e.width <= b.x \/ b.y + b.height <= e.y
<1>1. PICK c, d, w, wide, b, e :
            /\ c = Column(i, len) /\ d = Column(j, len) /\ w = Narrow(len) /\ wide = Wide(len)
            /\ b = N!Tile(tag, len)[i + tag.count] /\ e = N!Tile(tag, len)[j + tag.count]
  OBVIOUS
<1>2. w \in Nat /\ wide \in Nat /\ Cols(len) \in Nat
  BY <1>1, SharesAre
<1>3. c \in 0 .. Cols(len) - 1 /\ d \in 0 .. Cols(len) - 1
  BY <1>1, ColumnHas
<1>4. b.x = wide + c * w /\ b.width = w /\ e.x = wide + d * w /\ e.width = w
  BY <1>1, SecondTile
<1>5. c \in Nat /\ d \in Nat
  BY <1>2, <1>3
<1>6. CASE c < d
  <2>1. c + 1 \in Nat /\ c + 1 <= d
    BY <1>5, <1>6
  <2>2. (c + 1) * w <= d * w /\ (c + 1) * w \in Nat /\ d * w \in Nat
    BY <1>2, <1>5, <2>1, Products
  <2>3. (c + 1) * w = c * w + w /\ c * w \in Nat
    BY <1>2, <1>5
  <2> QED
    BY <1>1, <1>2, <1>4, <2>2, <2>3
<1>7. CASE d < c
  <2>1. d + 1 \in Nat /\ d + 1 <= c
    BY <1>5, <1>7
  <2>2. (d + 1) * w <= c * w /\ (d + 1) * w \in Nat /\ c * w \in Nat
    BY <1>2, <1>5, <2>1, Products
  <2>3. (d + 1) * w = d * w + w /\ d * w \in Nat
    BY <1>2, <1>5
  <2> QED
    BY <1>1, <1>2, <1>4, <2>2, <2>3
<1>8. CASE c = d
  <2>1. PICK n, p, r, u, v, z :
              /\ n = InColumn(c, len) /\ p = i - Bef(c, len) /\ r = j - Bef(c, len)
              /\ u = Upto(p, n) /\ v = Upto(r - 1, n) /\ z = Upto(p - 1, n)
    OBVIOUS
  <2>2. n \in 1 .. MaxWindows /\ p \in 1 .. n /\ r \in 1 .. n /\ Bef(c, len) \in Nat
    BY <1>1, <1>8, <2>1, ColumnHas
  <2>3. p < r
    BY <2>1, <2>2
  <2>4. u <= v
    BY <2>1, <2>2, <2>3, RowsApart
  <2>5. b.y = area.y + z /\ b.height = u - z /\ u \in Nat /\ z \in Nat
    BY <1>1, <2>1, SecondTile
  <2>6. e.y = area.y + v /\ v \in Nat
    BY <1>1, <1>8, <2>1, SecondTile
  <2>7. area.y \in Int
    BY DEF MasterInv
  <2> QED
    BY <1>1, <2>4, <2>5, <2>6, <2>7
<1> QED
  BY <1>5, <1>6, <1>7, <1>8

(* The tiles beside the masters end where the area does.                   *)
LEMMA SecondInside ==
  ASSUME MasterAssumption, MasterInv, NEW len \in 1 .. MaxWindows, tag.count < len,
         NEW i \in 1 .. len - tag.count
  PROVE  LET b == N!Tile(tag, len)[i + tag.count]
         IN /\ b.x \in Nat /\ b.width \in Nat /\ b.width > 0
            /\ Wide(len) <= b.x /\ b.x + b.width <= Across
<1>1. PICK c, w, wide, b, cols, strip :
            /\ c = Column(i, len) /\ w = Narrow(len) /\ wide = Wide(len) /\ cols = Cols(len)
            /\ strip = (Across - Wide(len)) % Cols(len)
            /\ b = N!Tile(tag, len)[i + tag.count]
  OBVIOUS
<1>2. /\ w \in Nat /\ w > 0 /\ wide \in Nat /\ cols \in Nat /\ strip \in Nat
      /\ cols * w + strip = Across - wide
  BY <1>1, SharesAre
<1>3. c \in 0 .. cols - 1
  BY <1>1, ColumnHas
<1>4. b.x = wide + c * w /\ b.width = w
  BY <1>1, SecondTile
<1>5. c \in Nat /\ c + 1 \in Nat /\ c + 1 <= cols
  BY <1>2, <1>3
<1>6. (c + 1) * w <= cols * w /\ (c + 1) * w \in Nat /\ cols * w \in Nat
  BY <1>2, <1>5, Products
<1>7. (c + 1) * w = c * w + w /\ c * w \in Nat
  BY <1>2, <1>5
<1>8. Across \in Nat
  BY DEF MasterAssumption
<1> QED
  BY <1>1, <1>2, <1>4, <1>6, <1>7, <1>8

(***************************************************************************)
(* The invariant and the property                                          *)
(***************************************************************************)

LEMMA ClampIs == ASSUME NEW n \in Int PROVE N!Clamp(n) \in 1 .. 9
BY DEF N!Clamp, N!AtMost

LEMMA MasterStart == ASSUME MasterAssumption, N!MasterInit PROVE MasterInv
BY DEF MasterAssumption, N!MasterInit, N!NewTag, MasterInv

LEMMA MasterStutter == ASSUME MasterInv, UNCHANGED <<windows, tag, ring, area, pull>>
                       PROVE  MasterInv'
BY DEF MasterInv

(* What is set on a tag stays in its limits.                               *)
Proper(t) ==
    /\ t.count \in 1 .. MaxCount \cup {1} /\ t.columns \in 1 .. MaxCount \cup {1}
    /\ t.mwfact \in 1 .. 9
    /\ t = [count |-> t.count, columns |-> t.columns, mwfact |-> t.mwfact, layout |-> t.layout]

LEMMA SetKeeps == ASSUME MasterInv, NEW t, Proper(t), N!Set(t) PROVE MasterInv'
BY DEF MasterInv, Proper, N!Set

LEMMA MasterStep == ASSUME MasterAssumption, MasterInv, N!MasterNext PROVE MasterInv'
<1>1. Proper(tag)
  BY DEF MasterInv, Proper
<1>2. \A l : Proper([tag EXCEPT !.layout = l])
  BY <1>1 DEF Proper
<1>3. \A f \in Int : Proper([tag EXCEPT !.mwfact = N!Clamp(f)])
  BY <1>1, ClampIs DEF Proper
<1>4. \A n \in 1 .. MaxCount : Proper([tag EXCEPT !.count = n]) /\ Proper([tag EXCEPT !.columns = n])
  BY <1>1 DEF Proper
<1>5. CASE N!Show \/ N!Hide
  BY <1>5 DEF N!Show, N!Hide, MasterInv, MasterAssumption
<1>6. CASE N!View
  BY <1>6 DEF N!View, N!NewTag, MasterInv, MasterAssumption
<1>7. CASE \E n \in 1 .. MaxCount : N!SetMasterCount(n) \/ N!SetColumnCount(n)
  BY <1>4, <1>7, SetKeeps DEF N!SetMasterCount, N!SetColumnCount
<1>8. CASE \E f \in Factor : N!SetMwfact(f)
  BY <1>3, <1>8, SetKeeps DEF N!SetMwfact, MasterAssumption
<1>9. CASE \E step \in {-1, 1} : N!SetStrategy(step)
  BY <1>2, <1>9, SetKeeps DEF N!SetStrategy
<1>10. CASE \E l \in Extra : N!RegisterLayout(l) \/ N!UnregisterLayout(l)
  BY <1>10 DEF N!RegisterLayout, N!UnregisterLayout, MasterInv
<1>11. CASE \E x \in {0, 2} : N!SetUsableArea(x)
  BY <1>11 DEF N!SetUsableArea, MasterInv
<1>12. CASE \E x \in {0, Across} : N!ResizeStart(x)
  <2>1. (Across * tag.mwfact) \div 10 \in Int
    BY DEF MasterInv, MasterAssumption
  <2>2. PICK x \in {0, Across}, p \in Int : p = (Across * tag.mwfact) \div 10 /\ N!ResizeStart(x)
    BY <1>12, <2>1
  <2>3. /\ pull'.init \in Int /\ pull'.grab \in Int
        /\ pull' = [on |-> pull'.on, init |-> pull'.init, grab |-> pull'.grab]
    <3>1. CASE tag.layout = "tile"
      <4>1. pull' = [on |-> TRUE, init |-> tag.mwfact, grab |-> p]
        BY <2>2, <3>1 DEF N!ResizeStart
      <4> QED
        BY <4>1 DEF MasterInv
    <3>2. CASE tag.layout # "tile"
      <4>1. pull' = [pull EXCEPT !.on = TRUE, !.grab = x]
        BY <2>2, <3>2 DEF N!ResizeStart
      <4>2. x \in Int
        BY <2>2 DEF MasterAssumption
      <4> QED
        BY <4>1, <4>2 DEF MasterInv
    <3> QED
      BY <3>1, <3>2
  <2> QED
    BY <2>2, <2>3 DEF N!ResizeStart, MasterInv
<1>13. CASE \E x \in {0, Across} : N!ResizeUpdate(x)
  <2>1. PICK x \in {0, Across} : N!ResizeUpdate(x)
    BY <1>13
  <2>2. N!Dragged(x) \in 1 .. 9
    <3>1. ((x - pull.grab) * 10) \div Across \in Int
      BY DEF MasterInv, MasterAssumption
    <3>2. pull.init + ((x - pull.grab) * 10) \div Across \in Int
      BY <3>1 DEF MasterInv
    <3> QED
      BY <3>2, ClampIs DEF N!Dragged
  <2>3. Proper([tag EXCEPT !.mwfact = N!Dragged(x)])
    BY <1>1, <2>2 DEF Proper
  <2> QED
    BY <1>1, <2>1, <2>3, SetKeeps DEF N!ResizeUpdate
<1>14. CASE N!ResizeEnd
  BY <1>14 DEF N!ResizeEnd, MasterInv
<1> QED
  BY <1>5, <1>6, <1>7, <1>8, <1>9, <1>10, <1>11, <1>12, <1>13, <1>14 DEF N!MasterNext

LEMMA MasterImplies == ASSUME MasterAssumption, MasterInv PROVE N!TilesFit
<1> SUFFICES ASSUME tag.layout = "tile", windows > 0 PROVE N!TilesFit
  BY DEF N!TilesFit
<1> DEFINE b == N!Tile(tag, windows)
<1>1. PICK len \in 1 .. MaxWindows : len = windows
  BY DEF MasterInv
<1>2. N!Arranged = b
  BY DEF N!Arranged
<1>3. PICK k : k = N!Masters(tag, len)
  OBVIOUS
<1>4. /\ k \in 1 .. MaxWindows /\ k <= len /\ tag.count \in Nat /\ tag.count > 0
      /\ tag.count < len => k = tag.count
      /\ ~(tag.count < len) => k = len
      /\ Wide(len) \in Nat /\ Wide(len) > 0 /\ Wide(len) <= Across /\ Across \in Nat
  BY <1>3, MastersAre
<1>5. area.x \in Nat /\ area.y \in Int
  BY DEF MasterInv
<1> DEFINE c == N!Tile(tag, len)
<1>6. b = c
  BY <1>1
<1>7. \A i \in k + 1 .. len : /\ tag.count < len /\ i - tag.count \in 1 .. len - tag.count
                              /\ (i - tag.count) + tag.count = i
  BY <1>4
<1>8. ASSUME NEW i \in 1 .. len
      PROVE  /\ c[i].width > 0 /\ c[i].height > 0 /\ c[i].x + c[i].width <= area.x + Across
             /\ c[i].x \in Nat /\ c[i].width \in Nat
  <2>1. CASE i <= k
    <3>1. i \in 1 .. N!Masters(tag, len)
      BY <1>3, <1>4, <2>1
    <3>2. c[i].x = area.x /\ c[i].width = Wide(len) /\ c[i].height > 0
      BY <3>1, MasterTile
    <3> QED
      BY <1>4, <1>5, <3>2
  <2>2. CASE ~(i <= k)
    <3>1. PICK j \in 1 .. len - tag.count : j = i - tag.count
      BY <1>4, <1>7, <2>2
    <3>2. j + tag.count = i /\ tag.count < len
      BY <1>4, <1>7, <2>2, <3>1
    <3>3. N!Tile(tag, len)[j + tag.count].height > 0
      BY <3>2, SecondTile
    <3>4. LET e == N!Tile(tag, len)[j + tag.count]
          IN e.x \in Nat /\ e.width \in Nat /\ e.width > 0 /\ e.x + e.width <= Across
      BY <3>2, SecondInside
    <3> QED
      BY <1>4, <1>5, <3>2, <3>3, <3>4
  <2> QED
    BY <2>1, <2>2
<1> DEFINE Fits(i, j) == i # j => N!Disjoint(c[i], c[j])
<1>9. ASSUME NEW i \in 1 .. k, NEW j \in 1 .. k PROVE Fits(i, j)
  <2>1. i < j => c[i].y + c[i].height <= c[j].y
    BY <1>3, MastersApart
  <2>2. j < i => c[j].y + c[j].height <= c[i].y
    BY <1>3, MastersApart
  <2> QED
    BY <2>1, <2>2 DEF N!Disjoint
<1>10. ASSUME NEW i \in k + 1 .. len, NEW j \in k + 1 .. len PROVE Fits(i, j)
  <2>1. PICK p, r : p = i - tag.count /\ r = j - tag.count
    OBVIOUS
  <2>2. /\ tag.count < len /\ p \in 1 .. len - tag.count /\ p + tag.count = i
        /\ r \in 1 .. len - tag.count /\ r + tag.count = j
    BY <1>7, <2>1
  <2>3. p < r => \/ c[i].x + c[i].width <= c[j].x \/ c[j].x + c[j].width <= c[i].x
                 \/ c[i].y + c[i].height <= c[j].y
    BY <2>2, SecondApart
  <2>4. r < p => \/ c[j].x + c[j].width <= c[i].x \/ c[i].x + c[i].width <= c[j].x
                 \/ c[j].y + c[j].height <= c[i].y
    BY <2>2, SecondApart
  <2>5. i # j => p < r \/ r < p
    BY <1>4, <2>1
  <2> QED
    BY <2>3, <2>4, <2>5 DEF N!Disjoint
<1>11. ASSUME area.x = 0, NEW i \in 1 .. k, NEW j \in k + 1 .. len
       PROVE  Fits(i, j) /\ Fits(j, i)
  <2>1. c[i].x = 0 /\ c[i].width = Wide(len)
    BY <1>3, <1>11, MasterTile
  <2>2. PICK p \in 1 .. len - tag.count : p + tag.count = j /\ tag.count < len
    BY <1>7
  <2>3. Wide(len) <= c[j].x
    BY <2>2, SecondInside
  <2>4. c[i].x + c[i].width <= c[j].x
    BY <1>4, <2>1, <2>3
  <2> QED
    BY <2>4 DEF N!Disjoint
<1>12. area.x = 0 => \A i, j \in 1 .. len : Fits(i, j)
  <2> SUFFICES ASSUME area.x = 0, NEW i \in 1 .. len, NEW j \in 1 .. len PROVE Fits(i, j)
    OBVIOUS
  <2>1. /\ i \in 1 .. k \/ i \in k + 1 .. len
        /\ j \in 1 .. k \/ j \in k + 1 .. len
    BY <1>4
  <2> HIDE DEF Fits
  <2> QED
    BY <2>1, <1>9, <1>10, <1>11
<1>13. Sum(len, c) = (Across - Strip(len)) * Upright
  <2> DEFINE g == [i \in 0 .. len |-> Share(i, len)]
  <2>1. g[0] = 0 /\ g[len] = (Across - Strip(len)) * Upright
    BY ShareOfAll
  <2>2. ASSUME NEW i \in 1 .. len
        PROVE  g[i] = g[i - 1] + c[i].width * c[i].height
    <3>1. g[i] = Share(i, len) /\ g[i - 1] = Share(i - 1, len)
      OBVIOUS
    <3>2. Share(i, len) = Share(i - 1, len) + c[i].width * c[i].height
      <4>1. CASE i <= k
        <5>1. i \in 1 .. N!Masters(tag, len)
          BY <1>3, <1>4, <4>1
        <5> QED
          BY <5>1, MasterShare
      <4>2. CASE ~(i <= k)
        <5>1. PICK j \in 1 .. len - tag.count : j + tag.count = i /\ tag.count < len
          BY <1>4, <1>7, <4>2
        <5>2. Share(j + tag.count, len)
                = Share(j + tag.count - 1, len)
                    + N!Tile(tag, len)[j + tag.count].width * N!Tile(tag, len)[j + tag.count].height
          BY <5>1, SecondShare
        <5>3. PICK m \in Nat : m = j + tag.count
          BY <1>4
        <5>4. Share(m, len) = Share(m - 1, len)
                                + N!Tile(tag, len)[m].width * N!Tile(tag, len)[m].height
          BY <1>4, <5>2, <5>3
        <5>5. m = i
          BY <5>1, <5>3
        <5> QED
          BY <5>4, <5>5
      <4> QED
        BY <4>1, <4>2
    <3> QED
      BY <3>1, <3>2
  <2>3. PICK h : h = g
    OBVIOUS
  <2>4. PICK d : d = c
    OBVIOUS
  <2> HIDE DEF g, c
  <2>5. h[0] = 0 /\ \A i \in 1 .. len : h[i] = h[i - 1] + d[i].width * d[i].height
    BY <2>1, <2>2, <2>3, <2>4
  <2>6. len \in Nat
    OBVIOUS
  <2>7. Sum(len, d) = h[len]
    BY <2>5, <2>6, SumIs
  <2> QED
    BY <2>1, <2>3, <2>4, <2>7
<1>14. Strip(len) = IF len > tag.count
                    THEN (Across - N!MasterWidth(tag, len)) % N!Columns(tag, len) ELSE 0
  BY DEF Strip, Wide, Cols
<1> QED
  <2> HIDE DEF c
  <2>1. /\ \A i \in 1 .. len :
               /\ c[i].width > 0 /\ c[i].height > 0
               /\ c[i].x + c[i].width <= area.x + Across
        /\ \A i, j \in 1 .. N!Masters(tag, len) : Fits(i, j)
        /\ \A i, j \in N!Masters(tag, len) + 1 .. len : Fits(i, j)
        /\ area.x = 0 => \A i, j \in 1 .. len : Fits(i, j)
    BY <1>3, <1>8, <1>9, <1>10, <1>12
  <2>2. N!Arranged = c /\ windows = len
    BY <1>1, <1>2, <1>6
  <2>3. LET covered[i \in 0 .. len] ==
               IF i = 0 THEN 0 ELSE covered[i - 1] + c[i].width * c[i].height
        IN covered[len] = (Across - Strip(len)) * Upright
    BY <1>13 DEF Sum
  <2> QED
    BY <2>1, <2>2, <2>3, <1>14 DEF N!TilesFit
=============================================================================
