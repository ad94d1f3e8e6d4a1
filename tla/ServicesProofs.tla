--------------------------- MODULE ServicesProofs ---------------------------
(***************************************************************************)
(* The properties that the run services checks, proved of its composition  *)
(* for every value of the constants.  The initial state picks a part; the  *)
(* proofs of the parts are in DesktopProofs and LuaProofs, over variables  *)
(* that have the names of the components.  Here they are read over the     *)
(* variables that the parts share: a bridge says that a component is the   *)
(* same seen from both sides.                                              *)
(***************************************************************************)
EXTENDS MCServices, Integers, TLAPS

(* A part is picked once.                                                  *)
LEMMA PartStays == [Next]_vars => part' = part
BY DEF Next, vars, Keys, Focus, Touch, Timers, Signals, Processes, Map, Master,
       Objects, Refs, Pointer, Bars, Satellite, Toplevels, Resize, Tree, Vector,
       Devices, Text, Inhibition, Ipc

DP == INSTANCE DesktopProofs WITH
        held <- x1, points <- x2, down <- x3, alive <- x4,
        Aware <- {CHOOSE s \in Surface : TRUE},
        seat <- x1, stack <- x2, layers <- x3, lock <- x4,
        Window <- {Window1, Window2}, Layer <- {Layer1, Layer2},
        Output <- {Output1, Output2}, Zoned <- {Layer1},
        method <- x1, inputs <- x2, entered <- x3, enabled <- x4,
        focus <- x5, focused <- x6, aside <- x7, extras <- x8,
        TextInput <- Slot, Owner <- OwnerOf,
        surface <- x1, managed <- x2, container <- x3, place <- x4,
        mark <- x5, listed <- x6, handle <- x7, outputs <- x8,
        Toplevel <- {Window1, Window2, Window3}, X11 <- {Window1},
        seen <- x1, inhibitors <- x2, inhibited <- x3, waits <- x4,
        asked <- x5, quiet <- x6, running <- x7, Panel <- {Layer1},
        state <- x1, shown <- x2, client <- x3, owes <- x4,
        box <- x5, drag <- x6, sync <- x7, waiting <- x8,
        Monitor <- {Output1}, Floating <- {Window1}, Least <- 2,
        Width <- WidthOf,
        theme <- x1, cursor <- x2, hovered <- x3, living <- x4, wanted <- x5, lost <- x6,
        Pointed <- {Window1}, Shape <- {"text", "wait", "grabbing"},
        Themed <- {"default", "wait", "grabbing"}, Animated <- {"wait"},
        maps <- x1, board <- x2, grab <- x3, barred <- x4,
        devices <- x1, target <- x2, caps <- x3, untold <- x4, row <- x5, corner <- x6,
        pending <- x7, adrift <- x8,
        Keyboard <- {Window1}, Pointer <- {Window2}, Touch <- {Window3}, Tablet <- {Layer1},
        Other <- {}, Libinput <- {Window1, Window2, Window3},
        Named <- [d \in {Window2} |-> Output1],
        Display <- {Output1, Output2, Layer2}, Builtin <- {Output2, Layer2},
        Place <- {[x |-> 0, y |-> 1], [x |-> 1, y |-> 0], [x |-> 1, y |-> 1]},
        windows <- x1, tag <- x2, ring <- x3, area <- x4, pull <- x5,
        Across <- Width, Upright <- Height

(***************************************************************************)
(* Touch: module Touch                                                     *)
(***************************************************************************)

LEMMA TouchBridge ==
  /\ U!TouchInit <=> DP!U!TouchInit
  /\ U!TouchNext <=> DP!U!TouchNext
  /\ U!SeatIsReleased <=> DP!U!SeatIsReleased
  /\ U!DownOnLiving <=> DP!U!DownOnLiving
<1>1. U!TouchInit <=> DP!U!TouchInit
  BY DEF
    U!TouchInit, DP!U!TouchInit, U!Nothing, DP!U!Nothing
<1>2. U!TouchNext <=> DP!U!TouchNext
  BY DEF
    U!TouchNext, DP!U!TouchNext, U!FingerDown, DP!U!FingerDown, U!ButtonPress,
    DP!U!ButtonPress, U!TipDown, DP!U!TipDown, U!FingerUp, DP!U!FingerUp,
    U!FingerCancel, DP!U!FingerCancel, U!ButtonRelease, DP!U!ButtonRelease,
    U!NewSurface, DP!U!NewSurface, U!DestroySurface, DP!U!DestroySurface,
    U!TipUp, DP!U!TipUp, U!StartDrag, DP!U!StartDrag, U!BeginDown,
    DP!U!BeginDown, U!PressOrRelease, DP!U!PressOrRelease, U!Forget,
    DP!U!Forget, U!Nothing, DP!U!Nothing
<1>3. U!SeatIsReleased <=> DP!U!SeatIsReleased
  BY DEF
    U!SeatIsReleased, DP!U!SeatIsReleased
<1>4. U!DownOnLiving <=> DP!U!DownOnLiving
  BY DEF
    U!DownOnLiving, DP!U!DownOnLiving
<1> QED
  BY <1>1, <1>2, <1>3, <1>4

TouchHolds == part = "touch" => DP!TouchInv

LEMMA TouchStays == Spec => []TouchHolds
<1> USE TouchAssumption DEF DP!TouchAssumption
<1>1. Init => TouchHolds
  BY TouchBridge, DP!TouchStart DEF Init, TouchHolds
<1>2. TouchHolds /\ [Next]_vars => TouchHolds'
  <2> SUFFICES ASSUME TouchHolds, [Next]_vars, part' = "touch" PROVE DP!TouchInv'
    BY DEF TouchHolds
  <2>1. part = "touch" /\ DP!TouchInv
    BY PartStays DEF TouchHolds
  <2>2. DP!U!TouchNext \/ UNCHANGED <<x1, x2, x3, x4>>
    BY <2>1, TouchBridge
       DEF Next, vars, Keys, Focus, Touch, Timers, Signals, Processes, Map, Master,
           Objects, Refs, Pointer, Bars, Satellite, Toplevels, Resize, Tree, Vector,
           Devices, Text, Inhibition, Ipc
  <2>3. CASE DP!U!TouchNext
    BY <2>1, <2>3, DP!TouchStep
  <2>4. CASE UNCHANGED <<x1, x2, x3, x4>>
    BY <2>1, <2>4, DP!TouchStutter DEF DP!U!touchVars
  <2> QED
    BY <2>2, <2>3, <2>4
<1> QED
  BY <1>1, <1>2, PTL DEF Spec

(* When neither finger nor button nor pen presses any more, the seat is    *)
(* let go (cwc_seat_end_down, touch_point_destroy_by_id).                  *)
THEOREM SeatStaysReleased == Spec => []SeatIsReleased
<1>1. TouchHolds => SeatIsReleased
  BY TouchBridge DEF TouchHolds, SeatIsReleased, DP!TouchInv
<1> QED
  BY <1>1, TouchStays, PTL

(***************************************************************************)
(* Focus: module Focus                                                     *)
(***************************************************************************)

LEMMA FocusBridge ==
  /\ F!FocusInit <=> DP!F!FocusInit
  /\ F!FocusNext <=> DP!F!FocusNext
  /\ F!NothingDangles <=> DP!F!NothingDangles
  /\ F!GuardsKeepFocus <=> DP!F!GuardsKeepFocus
<1>1. \A s : F!ToSet(s) = DP!F!ToSet(s)
  BY DEF F!ToSet, DP!F!ToSet
<1>2. \A s, x : F!Unlinked(s, x) = DP!F!Unlinked(s, x)
  BY DEF F!Unlinked, DP!F!Unlinked, F!RemoveAt, DP!F!RemoveAt
<1>3. \A s, t : F!FirstOf(s, t) = DP!F!FirstOf(s, t)
  BY DEF F!FirstOf, DP!F!FirstOf
<1>4. F!World = DP!F!World
  BY DEF F!World, DP!F!World
<1>5. \A d : F!Becomes(d) <=> DP!F!Becomes(d)
  BY DEF F!Becomes, DP!F!Becomes
<1>6. \A d : F!Guard(d) = DP!F!Guard(d)
  BY DEF F!Guard, DP!F!Guard
<1>7. \A d, s : F!Enter(d, s) = DP!F!Enter(d, s)
  BY <1>6 DEF F!Enter, DP!F!Enter, F!TryTextInput, DP!F!TryTextInput
<1>8. \A d, w : F!FocusToplevel(d, w) = DP!F!FocusToplevel(d, w)
  BY <1>7, <1>2 DEF F!FocusToplevel, DP!F!FocusToplevel
<1>9. \A d, o : F!FocusNewest(d, o) = DP!F!FocusNewest(d, o)
  BY <1>7, <1>8, <1>3, <1>1 DEF F!FocusNewest, DP!F!FocusNewest
<1>10. \A l : F!Alive(l) = DP!F!Alive(l)
  BY <1>1 DEF F!Alive, DP!F!Alive
<1>11. \A d : F!Arrange(d) = DP!F!Arrange(d)
  BY <1>7, <1>3, <1>1 DEF F!Arrange, DP!F!Arrange
<1>12. \A d, o : F!Gone(d, o) = DP!F!Gone(d, o)
  BY <1>7 DEF F!Gone, DP!F!Gone
<1>13. \A w : F!Focus(w) <=> DP!F!Focus(w)
  BY <1>1, <1>5, <1>8, <1>4 DEF F!Focus, DP!F!Focus
<1>14. \A w : F!MapWindow(w) <=> DP!F!MapWindow(w)
  BY <1>1, <1>5, <1>4 DEF F!MapWindow, DP!F!MapWindow
<1>15. \A w : F!CloseWindow(w) <=> DP!F!CloseWindow(w)
  BY <1>1, <1>5, <1>4, <1>2, <1>7 DEF F!CloseWindow, DP!F!CloseWindow
<1>16. \A w : F!NewTextInput(w) <=> DP!F!NewTextInput(w)
  BY DEF F!NewTextInput, DP!F!NewTextInput
<1>17. \A w : F!DestroyTextInput(w) <=> DP!F!DestroyTextInput(w)
  BY DEF F!DestroyTextInput, DP!F!DestroyTextInput
<1>18. \A l : F!NewLayer(l) <=> DP!F!NewLayer(l)
  BY <1>10 DEF F!NewLayer, DP!F!NewLayer
<1>19. \A l : F!UnmapLayer(l) <=> DP!F!UnmapLayer(l)
  BY <1>4, <1>9, <1>11, <1>5 DEF F!UnmapLayer, DP!F!UnmapLayer
<1>20. \A l : F!DestroyLayer(l) <=> DP!F!DestroyLayer(l)
  BY <1>10, <1>4, <1>2, <1>7, <1>5 DEF F!DestroyLayer, DP!F!DestroyLayer
<1>21. \A l, k : F!CommitLayer(l, k) <=> DP!F!CommitLayer(l, k)
  BY <1>10, <1>11, <1>7, <1>4, <1>5 DEF F!CommitLayer, DP!F!CommitLayer
<1>22. \A o : F!FocusOutput(o) <=> DP!F!FocusOutput(o)
  BY <1>5, <1>9, <1>4 DEF F!FocusOutput, DP!F!FocusOutput
<1>23. \A o : F!NewLockSurface(o) <=> DP!F!NewLockSurface(o)
  BY DEF F!NewLockSurface, DP!F!NewLockSurface
<1>24. \A o : F!MapLockSurface(o) <=> DP!F!MapLockSurface(o)
  BY <1>5, <1>7, <1>4 DEF F!MapLockSurface, DP!F!MapLockSurface
<1>25. \A o : F!DestroyLockSurface(o) <=> DP!F!DestroyLockSurface(o)
  BY <1>5, <1>12, <1>4 DEF F!DestroyLockSurface, DP!F!DestroyLockSurface
<1>26. F!NewLock <=> DP!F!NewLock
  BY DEF F!NewLock, DP!F!NewLock
<1>27. F!Unlock <=> DP!F!Unlock
  BY <1>4, <1>5, <1>9 DEF F!Unlock, DP!F!Unlock
<1>28. F!LockerDies <=> DP!F!LockerDies
  BY <1>4, <1>5, <1>7 DEF F!LockerDies, DP!F!LockerDies
<1>29. F!FocusNext <=> DP!F!FocusNext
  BY <1>13, <1>14, <1>15, <1>16, <1>17, <1>18, <1>19, <1>20, <1>21, <1>22,
      <1>23, <1>24, <1>25, <1>26, <1>27, <1>28 DEF F!FocusNext, DP!F!FocusNext
<1>30. F!FocusInit <=> DP!F!FocusInit
  BY DEF F!FocusInit, DP!F!FocusInit
<1>31. F!NothingDangles <=> DP!F!NothingDangles
  BY <1>1, <1>10 DEF F!NothingDangles, DP!F!NothingDangles
<1>32. F!GuardsKeepFocus <=> DP!F!GuardsKeepFocus
  BY DEF F!GuardsKeepFocus, DP!F!GuardsKeepFocus
<1> QED
  BY <1>29, <1>30, <1>31, <1>32

FocusHolds == part = "focus" => DP!FocusInv

LEMMA FocusStays == Spec => []FocusHolds
<1> USE DesktopAssumption DEF DesktopAssumption, DP!FocusAssumption
<1>1. Init => FocusHolds
  BY FocusBridge, DP!FocusStart DEF Init, FocusHolds
<1>2. FocusHolds /\ [Next]_vars => FocusHolds'
  <2> SUFFICES ASSUME FocusHolds, [Next]_vars, part' = "focus" PROVE DP!FocusInv'
    BY DEF FocusHolds
  <2>1. part = "focus" /\ DP!FocusInv
    BY PartStays DEF FocusHolds
  <2>2. DP!F!FocusNext \/ UNCHANGED <<x1, x2, x3, x4>>
    BY <2>1, FocusBridge
       DEF Next, vars, Keys, Focus, Touch, Timers, Signals, Processes, Map, Master,
           Objects, Refs, Pointer, Bars, Satellite, Toplevels, Resize, Tree, Vector,
           Devices, Text, Inhibition, Ipc
  <2>3. CASE DP!F!FocusNext
    BY <2>1, <2>3, DP!FocusStep
  <2>4. CASE UNCHANGED <<x1, x2, x3, x4>>
    BY <2>1, <2>4, DP!FocusStutter DEF DP!F!focusVars
  <2> QED
    BY <2>2, <2>3, <2>4
<1> QED
  BY <1>1, <1>2, PTL DEF Spec

(* Whatever moves the focus, it ends up at a guard while there is one: the *)
(* lock surface, or an exclusive layer surface (on_keyboard_focus_change,  *)
(* arrange_layers).                                                        *)
THEOREM FocusStaysGuarded == Spec => FocusIsGuarded
<1> USE DesktopAssumption DEF DesktopAssumption, DP!FocusAssumption
<1>1. FocusHolds /\ [Next]_vars => [part = "focus" => F!GuardsKeepFocus]_vars
  <2> SUFFICES ASSUME FocusHolds, Next, part = "focus"
               PROVE  F!GuardsKeepFocus
    OBVIOUS
  <2>1. DP!FocusInv
    BY DEF FocusHolds
  <2>2. DP!F!FocusNext
    BY FocusBridge
       DEF Next, Keys, Focus, Touch, Timers, Signals, Processes, Map, Master,
           Objects, Refs, Pointer, Bars, Satellite, Toplevels, Resize, Tree, Vector,
           Devices, Text, Inhibition, Ipc
  <2> QED
    BY <2>1, <2>2, FocusBridge, DP!FocusGuards
<1> QED
  BY <1>1, FocusStays, PTL DEF FocusIsGuarded, Spec

(***************************************************************************)
(* Texts: module TextInputs                                                *)
(***************************************************************************)

LEMMA TextsBridge ==
  /\ I!TextInit <=> DP!I!TextInit
  /\ I!TextNext <=> DP!I!TextNext
  /\ I!TextFollowsFocus <=> DP!I!TextFollowsFocus
<1>1. I!TextInit <=> DP!I!TextInit
  BY DEF
    I!TextInit, DP!I!TextInit, I!NoExtras, DP!I!NoExtras, I!RemoveAt,
    DP!I!RemoveAt
<1>2. I!TextNext <=> DP!I!TextNext
  BY DEF
    I!TextNext, DP!I!TextNext, I!MoveFocus, DP!I!MoveFocus, I!SurfaceDestroy,
    DP!I!SurfaceDestroy, I!NewTextInput, DP!I!NewTextInput, I!Enable,
    DP!I!Enable, I!Disable, DP!I!Disable, I!TextInputDestroy,
    DP!I!TextInputDestroy, I!NewInputMethod, DP!I!NewInputMethod,
    I!InputMethodDestroy, DP!I!InputMethodDestroy, I!GrabKeyboard,
    DP!I!GrabKeyboard, I!GrabDestroy, DP!I!GrabDestroy, I!Popup, DP!I!Popup,
    I!FocusChange, DP!I!FocusChange, I!Members, DP!I!Members, I!Deactivated,
    DP!I!Deactivated, I!LastOf, DP!I!LastOf, I!NoExtras, DP!I!NoExtras,
    I!TryFocus, DP!I!TryFocus, I!RemoveAt, DP!I!RemoveAt
<1>3. I!TextFollowsFocus <=> DP!I!TextFollowsFocus
  BY DEF
    I!TextFollowsFocus, DP!I!TextFollowsFocus, I!Members, DP!I!Members,
    I!NoExtras, DP!I!NoExtras, I!RemoveAt, DP!I!RemoveAt
<1> QED
  BY <1>1, <1>2, <1>3

TextsHolds == part = "texts" => DP!TextInv

LEMMA TextsStays == Spec => []TextsHolds
<1>1. Init => TextsHolds
  BY TextsBridge, DP!TextStart DEF Init, TextsHolds
<1>2. TextsHolds /\ [Next]_vars => TextsHolds'
  <2> SUFFICES ASSUME TextsHolds, [Next]_vars, part' = "texts" PROVE DP!TextInv'
    BY DEF TextsHolds
  <2>1. part = "texts" /\ DP!TextInv
    BY PartStays DEF TextsHolds
  <2>2. DP!I!TextNext \/ UNCHANGED <<x1, x2, x3, x4, x5, x6, x7, x8>>
    BY <2>1, TextsBridge
       DEF Next, vars, Keys, Focus, Touch, Timers, Signals, Processes, Map, Master,
           Objects, Refs, Pointer, Bars, Satellite, Toplevels, Resize, Tree, Vector,
           Devices, Text, Inhibition, Ipc
  <2>3. CASE DP!I!TextNext
    BY <2>1, <2>3, DP!TextStep
  <2>4. CASE UNCHANGED <<x1, x2, x3, x4, x5, x6, x7, x8>>
    BY <2>1, <2>4, DP!TextStutter DEF DP!I!textVars
  <2> QED
    BY <2>2, <2>3, <2>4
<1> QED
  BY <1>1, <1>2, PTL DEF Spec

(***************************************************************************)
(* Toplevels: module Toplevels                                             *)
(***************************************************************************)

LEMMA ToplevelsBridge ==
  /\ W!ToplevelsInit <=> DP!W!ToplevelsInit
  /\ W!ToplevelsNext <=> DP!W!ToplevelsNext
  /\ W!WindowsAreListed <=> DP!W!WindowsAreListed
<1>1. W!ToplevelsInit <=> DP!W!ToplevelsInit
  BY DEF
    W!ToplevelsInit, DP!W!ToplevelsInit
<1>2. W!ToplevelsNext <=> DP!W!ToplevelsNext
  BY DEF
    W!ToplevelsNext, DP!W!ToplevelsNext, W!New, DP!W!New, W!Associate,
    DP!W!Associate, W!Dissociate, DP!W!Dissociate, W!Destroy, DP!W!Destroy,
    W!SetOverrideRedirect, DP!W!SetOverrideRedirect, W!Map, DP!W!Map, W!Unmap,
    DP!W!Unmap, W!Swap, DP!W!Swap, W!MoveToOutput, DP!W!MoveToOutput,
    W!SetMark, DP!W!SetMark, W!FocusOutput, DP!W!FocusOutput, W!Plug,
    DP!W!Plug, W!Unplug, DP!W!Unplug, W!Unmoved, DP!W!Unmoved, W!Here,
    DP!W!Here, W!TabsOf, DP!W!TabsOf, W!Shown, DP!W!Shown, W!Tiled, DP!W!Tiled,
    W!Live, DP!W!Live, W!Relist, DP!W!Relist, W!Reenter, DP!W!Reenter, W!Found,
    DP!W!Found, W!OnOutput, DP!W!OnOutput
<1>3. W!WindowsAreListed <=> DP!W!WindowsAreListed
  BY DEF
    W!WindowsAreListed, DP!W!WindowsAreListed, W!Shown, DP!W!Shown, W!Live,
    DP!W!Live, W!TabsOf, DP!W!TabsOf, W!Tiled, DP!W!Tiled
<1> QED
  BY <1>1, <1>2, <1>3

ToplevelsHolds == part = "toplevels" => DP!ToplevelsInv

LEMMA ToplevelsStays == Spec => []ToplevelsHolds
<1> USE DesktopAssumption DEF DesktopAssumption, DP!ToplevelsAssumption, DP!Places
<1>1. Init => ToplevelsHolds
  BY ToplevelsBridge, DP!ToplevelsStart DEF Init, ToplevelsHolds
<1>2. ToplevelsHolds /\ [Next]_vars => ToplevelsHolds'
  <2> SUFFICES ASSUME ToplevelsHolds, [Next]_vars, part' = "toplevels" PROVE DP!ToplevelsInv'
    BY DEF ToplevelsHolds
  <2>1. part = "toplevels" /\ DP!ToplevelsInv
    BY PartStays DEF ToplevelsHolds
  <2>2. DP!W!ToplevelsNext \/ UNCHANGED <<x1, x2, x3, x4, x5, x6, x7, x8>>
    BY <2>1, ToplevelsBridge
       DEF Next, vars, Keys, Focus, Touch, Timers, Signals, Processes, Map, Master,
           Objects, Refs, Pointer, Bars, Satellite, Toplevels, Resize, Tree, Vector,
           Devices, Text, Inhibition, Ipc
  <2>3. CASE DP!W!ToplevelsNext
    BY <2>1, <2>3, DP!ToplevelsStep
  <2>4. CASE UNCHANGED <<x1, x2, x3, x4, x5, x6, x7, x8>>
    BY <2>1, <2>4, DP!ToplevelsStutter DEF DP!W!toplevelVars
  <2> QED
    BY <2>2, <2>3, <2>4
<1> QED
  BY <1>1, <1>2, PTL DEF Spec

(* What the seat points to exists: the focus, the exclusive layer surface, *)
(* the text input, the surface that is down; windows are listed, with a    *)
(* handle, where their containers are; a text field has the focus of its   *)
(* surface (layer_shell.c, session_lock.c, toplevel.c, text_input.c).      *)
THEOREM NothingEverDangles == Spec => []NothingDangles
<1>1. FocusHolds => (part = "focus" => F!NothingDangles)
  BY FocusBridge, DP!FocusImplies DEF FocusHolds
<1>2. TouchHolds => (part = "touch" => U!DownOnLiving)
  BY TouchBridge DEF TouchHolds, DP!TouchInv
<1>3. ToplevelsHolds => (part = "toplevels" => W!WindowsAreListed)
  BY ToplevelsBridge DEF ToplevelsHolds, DP!ToplevelsInv
<1>4. TextsHolds => (part = "texts" => I!TextFollowsFocus)
  BY TextsBridge DEF TextsHolds, DP!TextInv
<1>5. FocusHolds /\ TouchHolds /\ ToplevelsHolds /\ TextsHolds => NothingDangles
  BY <1>1, <1>2, <1>3, <1>4 DEF NothingDangles
<1> QED
  BY <1>5, FocusStays, TouchStays, ToplevelsStays, TextsStays, PTL

(***************************************************************************)
(* Resizes: module Resizes                                                 *)
(***************************************************************************)

LEMMA ResizesBridge ==
  /\ V!ResizeInit <=> DP!V!ResizeInit
  /\ V!ResizeNext <=> DP!V!ResizeNext
  /\ V!FramesWait <=> DP!V!FramesWait
  /\ V!SizesAgree <=> DP!V!SizesAgree
<1>1. V!ResizeInit <=> DP!V!ResizeInit
  BY DEF
    V!ResizeInit, DP!V!ResizeInit, V!Fresh, DP!V!Fresh, V!NoDrag, DP!V!NoDrag,
    V!GivenUp, DP!V!GivenUp, V!Cardinality, DP!V!Cardinality, V!IsFiniteSet,
    DP!V!IsFiniteSet
<1>2. V!ResizeNext <=> DP!V!ResizeNext
  BY DEF
    V!ResizeNext, DP!V!ResizeNext, V!Resize, DP!V!Resize, V!Map, DP!V!Map,
    V!Commit, DP!V!Commit, V!Unmap, DP!V!Unmap, V!Destroy, DP!V!Destroy,
    V!Hide, DP!V!Hide, V!Start, DP!V!Start, V!Motion, DP!V!Motion,
    V!MotionTiled, DP!V!MotionTiled, V!Stop, DP!V!Stop, V!Frame, DP!V!Frame,
    V!Mapped, DP!V!Mapped, V!Told, DP!V!Told, V!SetSize, DP!V!SetSize, V!Fresh,
    DP!V!Fresh, V!Answered, DP!V!Answered, V!NoDrag, DP!V!NoDrag, V!Owed,
    DP!V!Owed, V!GivenUp, DP!V!GivenUp, V!Released, DP!V!Released, V!Asks,
    DP!V!Asks, V!Clamped, DP!V!Clamped, V!Larger, DP!V!Larger, V!Counted,
    DP!V!Counted, V!Cardinality, DP!V!Cardinality, V!IsFiniteSet,
    DP!V!IsFiniteSet
<1>3. V!FramesWait <=> DP!V!FramesWait
  BY DEF
    V!FramesWait, DP!V!FramesWait, V!Cardinality, DP!V!Cardinality,
    V!IsFiniteSet, DP!V!IsFiniteSet
<1>4. V!SizesAgree <=> DP!V!SizesAgree
  BY DEF
    V!SizesAgree, DP!V!SizesAgree, V!Mapped, DP!V!Mapped, V!Cardinality,
    DP!V!Cardinality, V!IsFiniteSet, DP!V!IsFiniteSet
<1> QED
  BY <1>1, <1>2, <1>3, <1>4

LEMMA ResizesAssumed == DP!ResizesAssumption
BY DesktopAssumption DEF DesktopAssumption, DP!ResizesAssumption, WidthOf

ResizesHolds == part = "resizes" => DP!ResizesInv

LEMMA ResizesStays == Spec => []ResizesHolds
<1>1. Init => ResizesHolds
  BY ResizesBridge, DP!ResizesStart, ResizesAssumed DEF Init, ResizesHolds
<1>2. ResizesHolds /\ [Next]_vars => ResizesHolds'
  <2> SUFFICES ASSUME ResizesHolds, [Next]_vars, part' = "resizes" PROVE DP!ResizesInv'
    BY DEF ResizesHolds
  <2>1. part = "resizes" /\ DP!ResizesInv
    BY PartStays DEF ResizesHolds
  <2>2. DP!V!ResizeNext \/ UNCHANGED <<x1, x2, x3, x4, x5, x6, x7, x8>>
    BY <2>1, ResizesBridge
       DEF Next, vars, Keys, Focus, Touch, Timers, Signals, Processes, Map, Master,
           Objects, Refs, Pointer, Bars, Satellite, Toplevels, Resize, Tree, Vector,
           Devices, Text, Inhibition, Ipc
  <2>3. CASE DP!V!ResizeNext
    BY <2>1, <2>3, DP!ResizesStep, ResizesAssumed
  <2>4. CASE UNCHANGED <<x1, x2, x3, x4, x5, x6, x7, x8>>
    BY <2>1, <2>4, DP!ResizesStutter DEF DP!V!resizeVars
  <2> QED
    BY <2>2, <2>3, <2>4
<1> QED
  BY <1>1, <1>2, PTL DEF Spec

(***************************************************************************)
(* Pointer: module Pointer                                                 *)
(***************************************************************************)

LEMMA PointerBridge ==
  /\ C!PointerInit <=> DP!C!PointerInit
  /\ C!PointerNext <=> DP!C!PointerNext
  /\ C!CursorFollows <=> DP!C!CursorFollows
<1>1. C!PointerInit <=> DP!C!PointerInit
  BY DEF
    C!PointerInit, DP!C!PointerInit
<1>2. C!PointerNext <=> DP!C!PointerNext
  BY DEF
    C!PointerNext, DP!C!PointerNext, C!Motion, DP!C!Motion, C!RequestSetCursor,
    DP!C!RequestSetCursor, C!RequestSetShape, DP!C!RequestSetShape,
    C!CreateImage, DP!C!CreateImage, C!DestroyImage, DP!C!DestroyImage,
    C!Inactive, DP!C!Inactive, C!FocusGone, DP!C!FocusGone, C!StartMove,
    DP!C!StartMove, C!StopInteractive, DP!C!StopInteractive, C!StartResize,
    DP!C!StartResize, C!UpdateScale, DP!C!UpdateScale, C!ConfigCommit,
    DP!C!ConfigCommit, C!AnimationLoop, DP!C!AnimationLoop, C!Followed,
    DP!C!Followed, C!Unhide, DP!C!Unhide, C!SetImageByName,
    DP!C!SetImageByName, C!Stays, DP!C!Stays, C!Ask, DP!C!Ask, C!SetSurface,
    DP!C!SetSurface, C!HideCursor, DP!C!HideCursor, C!Restore, DP!C!Restore,
    C!ChangeStyle, DP!C!ChangeStyle, C!Load, DP!C!Load
<1>3. C!CursorFollows <=> DP!C!CursorFollows
  BY DEF
    C!CursorFollows, DP!C!CursorFollows
<1> QED
  BY <1>1, <1>2, <1>3

LEMMA PointerAssumed == DP!PointerAssumption
BY PointerAssumption DEF PointerAssumption, DP!PointerAssumption, DP!Names

PointerHolds == part = "pointer" => DP!PointerInv

LEMMA PointerStays == Spec => []PointerHolds
<1>1. Init => PointerHolds
  BY PointerBridge, DP!PointerStart, PointerAssumed DEF Init, PointerHolds
<1>2. PointerHolds /\ [Next]_vars => PointerHolds'
  <2> SUFFICES ASSUME PointerHolds, [Next]_vars, part' = "pointer" PROVE DP!PointerInv'
    BY DEF PointerHolds
  <2>1. part = "pointer" /\ DP!PointerInv
    BY PartStays DEF PointerHolds
  <2>2. DP!C!PointerNext \/ UNCHANGED <<x1, x2, x3, x4, x5, x6>>
    BY <2>1, PointerBridge
       DEF Next, vars, Keys, Focus, Touch, Timers, Signals, Processes, Map, Master,
           Objects, Refs, Pointer, Bars, Satellite, Toplevels, Resize, Tree, Vector,
           Devices, Text, Inhibition, Ipc
  <2>3. CASE DP!C!PointerNext
    BY <2>1, <2>3, DP!PointerStep, PointerAssumed
  <2>4. CASE UNCHANGED <<x1, x2, x3, x4, x5, x6>>
    BY <2>1, <2>4, DP!PointerStutter DEF DP!C!pointerVars
  <2> QED
    BY <2>2, <2>3, <2>4
<1> QED
  BY <1>1, <1>2, PTL DEF Spec

(***************************************************************************)
(* Idle: module Idle                                                       *)
(***************************************************************************)

LEMMA IdleBridge ==
  /\ E!IdleInit <=> DP!E!IdleInit
  /\ E!IdleNext <=> DP!E!IdleNext
  /\ E!InhibitionFollows <=> DP!E!InhibitionFollows
<1>1. E!IdleInit <=> DP!E!IdleInit
  BY DEF
    E!IdleInit, DP!E!IdleInit, E!Cardinality, DP!E!Cardinality, E!IsFiniteSet,
    DP!E!IsFiniteSet
<1>2. E!IdleNext <=> DP!E!IdleNext
  BY DEF
    E!IdleNext, DP!E!IdleNext, E!OnNewInhibitor, DP!E!OnNewInhibitor,
    E!OnDestroyInhibitor, DP!E!OnDestroyInhibitor, E!UpdateLater,
    DP!E!UpdateLater, E!UpdateVisible, DP!E!UpdateVisible, E!ViewChange,
    DP!E!ViewChange, E!QuietChange, DP!E!QuietChange, E!Update, DP!E!Update,
    E!Valid, DP!E!Valid, E!Cardinality, DP!E!Cardinality, E!IsFiniteSet,
    DP!E!IsFiniteSet
<1>3. E!InhibitionFollows <=> DP!E!InhibitionFollows
  BY DEF
    E!InhibitionFollows, DP!E!InhibitionFollows, E!Valid, DP!E!Valid,
    E!Cardinality, DP!E!Cardinality, E!IsFiniteSet, DP!E!IsFiniteSet
<1> QED
  BY <1>1, <1>2, <1>3

LEMMA IdleAssumed == DP!IdleAssumption
BY IdleAssumption DEF IdleAssumption, DP!IdleAssumption

IdleHolds == part = "idle" => DP!IdleInv

LEMMA IdleStays == Spec => []IdleHolds
<1>1. Init => IdleHolds
  BY IdleBridge, DP!IdleStart, IdleAssumed DEF Init, IdleHolds
<1>2. IdleHolds /\ [Next]_vars => IdleHolds'
  <2> SUFFICES ASSUME IdleHolds, [Next]_vars, part' = "idle" PROVE DP!IdleInv'
    BY DEF IdleHolds
  <2>1. part = "idle" /\ DP!IdleInv
    BY PartStays DEF IdleHolds
  <2>2. DP!E!IdleNext \/ UNCHANGED <<x1, x2, x3, x4, x5, x6, x7>>
    BY <2>1, IdleBridge
       DEF Next, vars, Keys, Focus, Touch, Timers, Signals, Processes, Map, Master,
           Objects, Refs, Pointer, Bars, Satellite, Toplevels, Resize, Tree, Vector,
           Devices, Text, Inhibition, Ipc
  <2>3. CASE DP!E!IdleNext
    BY <2>1, <2>3, DP!IdleStep, IdleAssumed
  <2>4. CASE UNCHANGED <<x1, x2, x3, x4, x5, x6, x7>>
    BY <2>1, <2>4, DP!IdleStutter DEF DP!E!idleVars
  <2> QED
    BY <2>2, <2>3, <2>4
<1> QED
  BY <1>1, <1>2, PTL DEF Spec

(***************************************************************************)
(* Keys: module Keys                                                       *)
(***************************************************************************)

LEMMA KeysBridge ==
  /\ K!KeysInit <=> DP!K!KeysInit
  /\ K!KeysNext <=> DP!K!KeysNext
  /\ K!ClientSeesHeldKeys <=> DP!K!ClientSeesHeldKeys
  /\ K!RepeatNeedsAKey <=> DP!K!RepeatNeedsAKey
<1>1. K!KeysInit <=> DP!K!KeysInit
  BY DEF
    K!KeysInit, DP!K!KeysInit, K!MapNames, DP!K!MapNames, K!ToSet, DP!K!ToSet,
    K!Front, DP!K!Front, K!RemoveAt, DP!K!RemoveAt
<1>2. K!MapNames = DP!K!MapNames
  BY DEF K!MapNames, DP!K!MapNames, K!ToSet, DP!K!ToSet
<1>3. \A b, s : K!Enter(b, s) = DP!K!Enter(b, s)
  BY DEF K!Enter, DP!K!Enter, K!ToSet, DP!K!ToSet
<1>4. \A f : K!Toggled(f) = DP!K!Toggled(f)
  BY <1>2 DEF K!Toggled, DP!K!Toggled, K!Main, DP!K!Main
<1>5. \A f : K!Another(f) = DP!K!Another(f)
  BY DEF K!Another, DP!K!Another
<1>6. \A s, w : K!Effect(s, w) = DP!K!Effect(s, w)
  BY <1>4, <1>3, <1>5 DEF K!Effect, DP!K!Effect
<1>7. \A s, m, k, b, p : K!Armed(s, m, k, b, p) = DP!K!Armed(s, m, k, b, p)
  BY Zenon DEF K!Armed, DP!K!Armed
<1>8. \A s, m, k, p : K!Execute(s, m, k, p) = DP!K!Execute(s, m, k, p)
  BY <1>6, <1>7 DEF K!Execute, DP!K!Execute
<1>9. \A s, m, k : K!Bound(s, m, k) <=> DP!K!Bound(s, m, k)
  BY DEF K!Bound, DP!K!Bound
<1>10. \A s, m, k, p : K!Look(s, m, k, p) = DP!K!Look(s, m, k, p)
  BY <1>8, <1>9 DEF K!Look, DP!K!Look, K!Main, DP!K!Main
<1>11. \A s, m, k, p : K!Visit(s, m, k, p) = DP!K!Visit(s, m, k, p)
  <2> TAKE s, m, k, p
  <2>1. K!Look(s, m, k, FALSE) = DP!K!Look(s, m, k, FALSE)
    BY <1>10
  <2>2. K!Look(s, m, k, TRUE) = DP!K!Look(s, m, k, TRUE)
    BY <1>10
  <2>3. PICK f, g : f = K!Look(s, m, k, FALSE) /\ g = DP!K!Look(s, m, k, FALSE)
    OBVIOUS
  <2>4. K!Visit(s, m, k, p) = IF p THEN K!Look(s, m, k, TRUE)
          ELSE [K!Look(s, m, k, FALSE) EXCEPT !.handled = s.handled, !.maps[m].repeated = None]
    BY DEF K!Visit
  <2>5. DP!K!Visit(s, m, k, p) = IF p THEN DP!K!Look(s, m, k, TRUE)
          ELSE [DP!K!Look(s, m, k, FALSE) EXCEPT !.handled = s.handled, !.maps[m].repeated = None]
    BY DEF DP!K!Visit
  <2> QED
    BY <2>1, <2>2, <2>4, <2>5, Zenon
<1>12. \A s, k, p : K!Search(s, k, p) = DP!K!Search(s, k, p)
  BY <1>11 DEF K!Search, DP!K!Search
<1>13. \A t, k : K!Popped(t, k) = DP!K!Popped(t, k)
  BY DEF K!Popped, DP!K!Popped, K!RemoveAt, DP!K!RemoveAt, K!ToSet, DP!K!ToSet
<1>14. \A d, t, h : K!Holding(d, t, h) = DP!K!Holding(d, t, h)
  BY DEF K!Holding, DP!K!Holding
<1>15. \A s : K!Untracked(s) = DP!K!Untracked(s)
  BY Zenon DEF K!Untracked, DP!K!Untracked, K!Front, DP!K!Front
<1>16. \A k : K!Pressed(k) = DP!K!Pressed(k)
  BY <1>12, <1>14, <1>15 DEF K!Pressed, DP!K!Pressed
<1>17. \A k : K!Released(k) = DP!K!Released(k)
  BY <1>12, <1>13, <1>14 DEF K!Released, DP!K!Released, K!Up, DP!K!Up, K!ToSet,
      DP!K!ToSet
<1>18. \A s, k, p : K!Deliver(s, k, p) = DP!K!Deliver(s, k, p)
  BY DEF K!Deliver, DP!K!Deliver, K!Notify, DP!K!Notify
<1>19. \A k : K!Press(k) <=> DP!K!Press(k)
  BY <1>16, <1>18 DEF K!Press, DP!K!Press
<1>20. \A k : K!Release(k) <=> DP!K!Release(k)
  BY <1>17, <1>18 DEF K!Release, DP!K!Release
<1>21. \A m : K!RepeatLoop(m) <=> DP!K!RepeatLoop(m)
  BY <1>8 DEF K!RepeatLoop, DP!K!RepeatLoop, K!Untouched, DP!K!Untouched
<1>22. \A s : K!Refocus(s) <=> DP!K!Refocus(s)
  BY <1>3 DEF K!Refocus, DP!K!Refocus
<1>23. \A m, k, b : K!Register(m, k, b) <=> DP!K!Register(m, k, b)
  BY DEF K!Register, DP!K!Register
<1>24. \A m : K!ClearMap(m) <=> DP!K!ClearMap(m)
  BY DEF K!ClearMap, DP!K!ClearMap
<1>25. \A m : K!ActiveOnly(m) <=> DP!K!ActiveOnly(m)
  BY <1>2 DEF K!ActiveOnly, DP!K!ActiveOnly, K!Main, DP!K!Main
<1>26. K!KeysNext <=> DP!K!KeysNext
  BY <1>19, <1>20, <1>21, <1>22, <1>23, <1>24, <1>25, <1>2 DEF K!KeysNext,
      DP!K!KeysNext, K!GrabKeyboard, DP!K!GrabKeyboard, K!Inhibit, DP!K!Inhibit
<1>27. K!ClientSeesHeldKeys <=> DP!K!ClientSeesHeldKeys
  BY DEF
    K!ClientSeesHeldKeys, DP!K!ClientSeesHeldKeys, K!ToSet, DP!K!ToSet,
    K!Front, DP!K!Front, K!RemoveAt, DP!K!RemoveAt
<1>28. K!RepeatNeedsAKey <=> DP!K!RepeatNeedsAKey
  BY DEF
    K!RepeatNeedsAKey, DP!K!RepeatNeedsAKey, K!MapNames, DP!K!MapNames,
    K!ToSet, DP!K!ToSet, K!Front, DP!K!Front, K!RemoveAt, DP!K!RemoveAt
<1> QED
  BY <1>1, <1>26, <1>27, <1>28

LEMMA KeysAssumed == DP!KeysAssumption
BY DEF DP!KeysAssumption, DP!MapNames, DP!K!MapNames, DP!K!ToSet, MapList, Binding

KeysHolds == part = "keys" => DP!KeysInv

LEMMA KeysStays == Spec => []KeysHolds
<1>1. Init => KeysHolds
  BY KeysBridge, DP!KeysStart, KeysAssumed DEF Init, KeysHolds
<1>2. KeysHolds /\ [Next]_vars => KeysHolds'
  <2> SUFFICES ASSUME KeysHolds, [Next]_vars, part' = "keys" PROVE DP!KeysInv'
    BY DEF KeysHolds
  <2>1. part = "keys" /\ DP!KeysInv
    BY PartStays DEF KeysHolds
  <2>2. DP!K!KeysNext \/ UNCHANGED <<x1, x2, x3, x4>>
    BY <2>1, KeysBridge
       DEF Next, vars, Keys, Focus, Touch, Timers, Signals, Processes, Map, Master,
           Objects, Refs, Pointer, Bars, Satellite, Toplevels, Resize, Tree, Vector,
           Devices, Text, Inhibition, Ipc
  <2>3. CASE DP!K!KeysNext
    BY <2>1, <2>3, DP!KeysStep, KeysAssumed
  <2>4. CASE UNCHANGED <<x1, x2, x3, x4>>
    BY <2>1, <2>4, DP!KeysStutter DEF DP!K!keyVars
  <2> QED
    BY <2>2, <2>3, <2>4
<1> QED
  BY <1>1, <1>2, PTL DEF Spec

(* No client is left with a key that is stuck: the keys a surface or the   *)
(* input method knows of are those that are held and that no binding took, *)
(* wherever bindings move the focus (process_key_event,                    *)
(* keyboard_focus_surface).                                                *)
THEOREM HeldKeysStaySeen == Spec => []ClientSeesHeldKeys
<1>1. KeysHolds => ClientSeesHeldKeys
  BY KeysBridge, DP!KeysImply DEF KeysHolds, ClientSeesHeldKeys
<1> QED
  BY <1>1, KeysStays, PTL

(* No map repeats a binding whose key is up, even one that was switched    *)
(* off while the key was held (_keybind_execute,                           *)
(* cwc_keybind_map_stop_repeat).                                           *)
THEOREM RepeatStaysHeld == Spec => []RepeatNeedsAKey
<1>1. KeysHolds => RepeatNeedsAKey
  BY KeysBridge, DP!KeysImply DEF KeysHolds, RepeatNeedsAKey
<1> QED
  BY <1>1, KeysStays, PTL

(***************************************************************************)
(* Devices and the outputs they are mapped to: module Devices              *)
(***************************************************************************)

LEMMA DevicesBridge ==
  /\ D!DevicesInit <=> DP!D!DevicesInit
  /\ D!DevicesNext <=> DP!D!DevicesNext
  /\ D!DevicesAreKnown <=> DP!D!DevicesAreKnown
<1>1. D!Device = DP!D!Device /\ D!Nowhere = DP!D!Nowhere /\ D!Plugged = DP!D!Plugged
  BY DEF D!Device, DP!D!Device, D!Nowhere, DP!D!Nowhere, D!Plugged, DP!D!Plugged
<1>2. D!DevicesInit <=> DP!D!DevicesInit
  BY <1>1 DEF D!DevicesInit, DP!D!DevicesInit
<1>3. \A s : D!FirstBuiltin(s) = DP!D!FirstBuiltin(s)
  BY Zenon DEF D!FirstBuiltin, DP!D!FirstBuiltin
<1>4. \A d, s : D!OutputName(d, s) = DP!D!OutputName(d, s)
  BY <1>3 DEF D!OutputName, DP!D!OutputName
<1>5. \A e, s : D!Mapped(e, s) = DP!D!Mapped(e, s)
  BY <1>1, <1>4 DEF D!Mapped, DP!D!Mapped
<1>6. \A e : D!Capabilities(e) = DP!D!Capabilities(e)
  BY DEF D!Capabilities, DP!D!Capabilities
<1>7. \A d : D!NewPointerOrTouch(d) <=> DP!D!NewPointerOrTouch(d)
  BY <1>5, <1>6 DEF D!NewPointerOrTouch, DP!D!NewPointerOrTouch, D!Capabilities, DP!D!Capabilities
<1>8. \A d : D!NewTablet(d) <=> DP!D!NewTablet(d)
  BY <1>5 DEF D!NewTablet, DP!D!NewTablet
<1>9. \A d : D!NewKeyboardOrOther(d) <=> DP!D!NewKeyboardOrOther(d)
  BY DEF D!NewKeyboardOrOther, DP!D!NewKeyboardOrOther
<1>10. \A d : D!DeviceDestroy(d) <=> DP!D!DeviceDestroy(d)
  BY DEF D!DeviceDestroy, DP!D!DeviceDestroy
<1>11. \A o, p : D!NewOutput(o, p) <=> DP!D!NewOutput(o, p)
  BY <1>1, <1>5 DEF D!NewOutput, DP!D!NewOutput, D!Configured, DP!D!Configured
<1>12. \A o, p : D!Move(o, p) <=> DP!D!Move(o, p)
  BY <1>1 DEF D!Move, DP!D!Move
<1>13. \A o : D!OutputDestroy(o) <=> DP!D!OutputDestroy(o)
  BY <1>1 DEF D!OutputDestroy, DP!D!OutputDestroy
<1>14. \A o, p : D!InFront(o, p) <=> DP!D!InFront(o, p)
  BY DEF D!InFront, DP!D!InFront
<1>15. \A s, o : D!Inserted(s, o) = DP!D!Inserted(s, o)
  <2> TAKE s, o
  <2> DEFINE one == {i \in DOMAIN s : D!InFront(o, s[i])}
             other == {i \in DOMAIN s : DP!D!InFront(o, s[i])}
             At(behind) == IF behind = {} THEN Len(s) + 1
                           ELSE CHOOSE i \in behind : \A j \in behind : i <= j
             In(at) == SubSeq(s, 1, at - 1) \o <<o>> \o SubSeq(s, at, Len(s))
  <2>1. D!Inserted(s, o) = In(At(one))
    BY DEF D!Inserted
  <2>2. DP!D!Inserted(s, o) = In(At(other))
    BY DEF DP!D!Inserted
  <2>3. one = other
    BY <1>14
  <2> HIDE DEF one, other, At, In
  <2> QED
    BY <2>1, <2>2, <2>3
<1>16. D!Sorted = DP!D!Sorted
  BY <1>15, Zenon DEF D!Sorted, DP!D!Sorted
<1>17. D!SortOutputIndex <=> DP!D!SortOutputIndex
  BY <1>16 DEF D!SortOutputIndex, DP!D!SortOutputIndex
<1>18. D!DevicesNext <=> DP!D!DevicesNext
  BY <1>1, <1>7, <1>8, <1>9, <1>10, <1>11, <1>12, <1>13, <1>17
     DEF D!DevicesNext, DP!D!DevicesNext
<1>19. \A d, o : D!IsFor(d, o) <=> DP!D!IsFor(d, o)
  BY DEF D!IsFor, DP!D!IsFor
<1>20. D!DevicesAreKnown <=> DP!D!DevicesAreKnown
  BY <1>1, <1>14, <1>19 DEF D!DevicesAreKnown, DP!D!DevicesAreKnown
<1> QED
  BY <1>2, <1>18, <1>20

LEMMA DevicesAssumed == DP!DevicesAssumption
BY DesktopAssumption, DeviceAssumption DEF DP!DevicesAssumption

DevicesHolds == part = "devices" => DP!DevicesInv

LEMMA DevicesStays == Spec => []DevicesHolds
<1>1. Init => DevicesHolds
  BY DevicesBridge, DP!DevicesStart, DevicesAssumed DEF Init, DevicesHolds
<1>2. DevicesHolds /\ [Next]_vars => DevicesHolds'
  <2> SUFFICES ASSUME DevicesHolds, [Next]_vars, part' = "devices" PROVE DP!DevicesInv'
    BY DEF DevicesHolds
  <2>1. part = "devices" /\ DP!DevicesInv
    BY PartStays DEF DevicesHolds
  <2>2. DP!D!DevicesNext \/ UNCHANGED <<x1, x2, x3, x4, x5, x6, x7, x8>>
    BY <2>1, DevicesBridge
       DEF Next, vars, Keys, Focus, Touch, Timers, Signals, Processes, Map, Master,
           Objects, Refs, Pointer, Bars, Satellite, Toplevels, Resize, Tree, Vector,
           Devices, Text, Inhibition, Ipc
  <2>3. CASE DP!D!DevicesNext
    BY <2>1, <2>3, DP!DevicesStep, DevicesAssumed
  <2>4. CASE UNCHANGED <<x1, x2, x3, x4, x5, x6, x7, x8>>
    BY <2>1, <2>4, DP!DevicesStutter
  <2> QED
    BY <2>2, <2>3, <2>4
<1> QED
  BY <1>1, <1>2, PTL DEF Spec

(***************************************************************************)
(* The master layouts: module Master                                       *)
(***************************************************************************)

LEMMA MasterBridge ==
  /\ L!MasterInit <=> DP!N!MasterInit
  /\ L!MasterNext <=> DP!N!MasterNext
  /\ L!TilesFit <=> DP!N!TilesFit
<1>1. L!MasterInit <=> DP!N!MasterInit
  BY DEF L!MasterInit, DP!N!MasterInit, L!NewTag, DP!N!NewTag
<1>2. L!Show <=> DP!N!Show
  BY DEF L!Show, DP!N!Show
<1>3. L!Hide <=> DP!N!Hide
  BY DEF L!Hide, DP!N!Hide
<1>4. L!View <=> DP!N!View
  BY DEF L!View, DP!N!View, L!NewTag, DP!N!NewTag, L!ToSet, DP!N!ToSet
<1>5. \A t : L!Set(t) <=> DP!N!Set(t)
  BY DEF L!Set, DP!N!Set
<1>6. \A n : L!SetMasterCount(n) <=> DP!N!SetMasterCount(n)
  BY <1>5 DEF L!SetMasterCount, DP!N!SetMasterCount
<1>7. \A n : L!SetColumnCount(n) <=> DP!N!SetColumnCount(n)
  BY <1>5 DEF L!SetColumnCount, DP!N!SetColumnCount
<1>8. \A n : L!Clamp(n) = DP!N!Clamp(n)
  BY DEF L!Clamp, DP!N!Clamp, L!AtMost, DP!N!AtMost
<1>9. \A f : L!SetMwfact(f) <=> DP!N!SetMwfact(f)
  BY <1>8, <1>5 DEF L!SetMwfact, DP!N!SetMwfact
<1>10. \A step : L!SetStrategy(step) <=> DP!N!SetStrategy(step)
  BY <1>5 DEF L!SetStrategy, DP!N!SetStrategy
<1>11. \A l : L!RegisterLayout(l) <=> DP!N!RegisterLayout(l)
  BY DEF L!RegisterLayout, DP!N!RegisterLayout, L!ToSet, DP!N!ToSet
<1>12. \A l : L!UnregisterLayout(l) <=> DP!N!UnregisterLayout(l)
  BY DEF L!UnregisterLayout, DP!N!UnregisterLayout, L!RemoveAt, DP!N!RemoveAt, L!ToSet,
        DP!N!ToSet
<1>13. \A x : L!SetUsableArea(x) <=> DP!N!SetUsableArea(x)
  BY DEF L!SetUsableArea, DP!N!SetUsableArea
<1>14. \A x : L!ResizeStart(x) <=> DP!N!ResizeStart(x)
  BY DEF L!ResizeStart, DP!N!ResizeStart
<1>15. \A x : L!Dragged(x) = DP!N!Dragged(x)
  BY <1>8 DEF L!Dragged, DP!N!Dragged
<1>16. \A x : L!ResizeUpdate(x) <=> DP!N!ResizeUpdate(x)
  BY <1>5, <1>15 DEF L!ResizeUpdate, DP!N!ResizeUpdate
<1>17. L!ResizeEnd <=> DP!N!ResizeEnd
  BY DEF L!ResizeEnd, DP!N!ResizeEnd
<1>18. L!MasterNext <=> DP!N!MasterNext
  BY <1>2, <1>3, <1>4, <1>6, <1>7, <1>9, <1>10, <1>11, <1>12, <1>13, <1>14, <1>16, <1>17
     DEF L!MasterNext, DP!N!MasterNext
<1>19. \A m, len : L!MasterWidth(m, len) = DP!N!MasterWidth(m, len)
  BY DEF L!MasterWidth, DP!N!MasterWidth
<1>20. \A m, len : L!Columns(m, len) = DP!N!Columns(m, len)
  BY DEF L!Columns, DP!N!Columns, L!AtMost, DP!N!AtMost
<1>21. \A i, n, x, w : L!Cell(i, n, x, w) = DP!N!Cell(i, n, x, w)
  BY DEF L!Cell, DP!N!Cell
<1>22. \A m, len, c : L!Before(m, len, c) = DP!N!Before(m, len, c)
  BY <1>20 DEF L!Before, DP!N!Before
<1>23. \A m, len, i : L!Secondary(m, len, i) = DP!N!Secondary(m, len, i)
  <2> SUFFICES ASSUME NEW m, NEW len, NEW i PROVE L!Secondary(m, len, i) = DP!N!Secondary(m, len, i)
    OBVIOUS
  <2> DEFINE There(c) == L!Before(m, len, c) < i /\ i <= L!Before(m, len, c + 1)
             Here(c) == DP!N!Before(m, len, c) < i /\ i <= DP!N!Before(m, len, c + 1)
             PutThere(c) ==
                LET w == (Width - L!MasterWidth(m, len)) \div L!Columns(m, len)
                IN L!Cell(i - L!Before(m, len, c), L!Before(m, len, c + 1) - L!Before(m, len, c),
                          L!MasterWidth(m, len) + c * w, w)
             PutHere(c) ==
                LET w == (Width - DP!N!MasterWidth(m, len)) \div DP!N!Columns(m, len)
                IN DP!N!Cell(i - DP!N!Before(m, len, c),
                             DP!N!Before(m, len, c + 1) - DP!N!Before(m, len, c),
                             DP!N!MasterWidth(m, len) + c * w, w)
  <2>1. L!Secondary(m, len, i) = PutThere(CHOOSE c \in 0 .. L!Columns(m, len) - 1 : There(c))
    BY DEF L!Secondary
  <2>2. DP!N!Secondary(m, len, i) = PutHere(CHOOSE c \in 0 .. DP!N!Columns(m, len) - 1 : Here(c))
    BY DEF DP!N!Secondary
  <2>3. \A c : (There(c) <=> Here(c)) /\ PutThere(c) = PutHere(c)
    BY <1>19, <1>20, <1>21, <1>22
  <2> HIDE DEF There, Here, PutThere, PutHere
  <2>4. \A k : (CHOOSE c \in k : There(c)) = (CHOOSE c \in k : Here(c))
    BY <2>3
  <2> QED
    BY <2>1, <2>2, <2>3, <2>4, <1>20
<1>24. \A m, len : L!Tile(m, len) = DP!N!Tile(m, len)
  BY <1>21, <1>19, <1>23 DEF L!Tile, DP!N!Tile, L!AtMost, DP!N!AtMost, L!Masters, DP!N!Masters
<1>25. \A len : L!Monocle(len) = DP!N!Monocle(len)
  BY <1>21 DEF L!Monocle, DP!N!Monocle
<1>26. L!Arranged = DP!N!Arranged
  BY <1>24, <1>25 DEF L!Arranged, DP!N!Arranged
<1>27. L!TilesFit <=> DP!N!TilesFit
  BY <1>19, <1>20, <1>26
     DEF L!TilesFit, DP!N!TilesFit, L!AtMost, DP!N!AtMost, L!Disjoint, DP!N!Disjoint,
        L!Masters, DP!N!Masters
<1> QED
  BY <1>1, <1>18, <1>27

LEMMA MasterAssumed == DP!MasterAssumption
BY MasterAssumption DEF MasterAssumption, DP!MasterAssumption

MasterHolds == part = "master" => DP!MasterInv

LEMMA MasterStays == Spec => []MasterHolds
<1>1. Init => MasterHolds
  BY MasterBridge, DP!MasterStart, MasterAssumed DEF Init, MasterHolds
<1>2. MasterHolds /\ [Next]_vars => MasterHolds'
  <2> SUFFICES ASSUME MasterHolds, [Next]_vars, part' = "master" PROVE DP!MasterInv'
    BY DEF MasterHolds
  <2>1. part = "master" /\ DP!MasterInv
    BY PartStays DEF MasterHolds
  <2>2. DP!N!MasterNext \/ UNCHANGED <<x1, x2, x3, x4, x5>>
    BY <2>1, MasterBridge
       DEF Next, vars, Keys, Focus, Touch, Timers, Signals, Processes, Map, Master,
           Objects, Refs, Pointer, Bars, Satellite, Toplevels, Resize, Tree, Vector,
           Devices, Text, Inhibition, Ipc
  <2>3. CASE DP!N!MasterNext
    BY <2>1, <2>3, DP!MasterStep, MasterAssumed
  <2>4. CASE UNCHANGED <<x1, x2, x3, x4, x5>>
    BY <2>1, <2>4, DP!MasterStutter
  <2> QED
    BY <2>2, <2>3, <2>4
<1> QED
  BY <1>1, <1>2, PTL DEF Spec

LP == INSTANCE LuaProofs WITH
        timers <- x1, calls <- x2,
        place <- x1, ref <- x2, stale <- x3, haunted <- x4, Nil <- None,
        lists <- x1, of <- x2, emissions <- x3,
        object <- x1, known <- x2, registered <- x3, state <- x4, missed <- x5,
        Nothing <- None,
        lock <- x1, file <- x2, server <- x3, process <- x4,
        listening <- x1, conn <- x2, up <- x3, down <- x4, ctl <- x5,
        busy <- x6, left <- x7, astray <- x8,
        Ctl <- {Layer1, Layer2}, Chunk <- ChunkOf, MaxQueue <- 2, Nobody <- None,
        child <- x1, monitored <- x2, output <- x3, exited <- x4,
        signal <- x5, bytes <- x6, spurious <- x7, stopped <- x8,
        loaded <- x1, screen <- x2, mapped <- x3, current <- x4, has <- x5, bar <- x6,
        Window <- {Window1, Window2}, Output <- {Output1, Output2},
        Watched <- {Output1}, Tag <- Workspace,
        table <- x1, kept <- x2, Prealloc <- 0,
        cells <- x1, count <- x2, elements <- x3, failed <- x4,
        Value <- {0, 3, 5}, Span <- 4, MaxHeld <- 17

(***************************************************************************)
(* Timers: module Timers                                                   *)
(***************************************************************************)

LEMMA TimersBridge ==
  /\ T!TimersInit <=> LP!T!TimersInit
  /\ T!TimersNext <=> LP!T!TimersNext
  /\ T!StartedTimersRun <=> LP!T!StartedTimersRun
<1>1. T!TimersInit <=> LP!T!TimersInit
  BY DEF
    T!TimersInit, LP!T!TimersInit, T!NoTimer, LP!T!NoTimer, T!ToSet, LP!T!ToSet
<1>2. T!TimersNext <=> LP!T!TimersNext
  BY DEF
    T!TimersNext, LP!T!TimersNext, T!TimeOut, LP!T!TimeOut, T!Start,
    LP!T!Start, T!Stop, LP!T!Stop, T!Again, LP!T!Again, T!Destroy,
    LP!T!Destroy, T!SetStarted, LP!T!SetStarted, T!SetTimeout, LP!T!SetTimeout,
    T!New, LP!T!New, T!Return, LP!T!Return, T!ReloadTimers, LP!T!ReloadTimers,
    T!Disarm, LP!T!Disarm, T!Does, LP!T!Does, T!Update, LP!T!Update, T!NoTimer,
    LP!T!NoTimer, T!Live, LP!T!Live, T!After, LP!T!After, T!ToSet, LP!T!ToSet
<1>3. T!StartedTimersRun <=> LP!T!StartedTimersRun
  BY DEF
    T!StartedTimersRun, LP!T!StartedTimersRun, T!ToSet, LP!T!ToSet
<1> QED
  BY <1>1, <1>2, <1>3

TimersHolds == part = "timers" => LP!TimersInv

LEMMA TimersStays == Spec => []TimersHolds
<1>1. Init => TimersHolds
  BY TimersBridge, LP!TimersStart DEF Init, TimersHolds
<1>2. TimersHolds /\ [Next]_vars => TimersHolds'
  <2> SUFFICES ASSUME TimersHolds, [Next]_vars, part' = "timers" PROVE LP!TimersInv'
    BY DEF TimersHolds
  <2>1. part = "timers" /\ LP!TimersInv
    BY PartStays DEF TimersHolds
  <2>2. LP!T!TimersNext \/ UNCHANGED <<x1, x2>>
    BY <2>1, TimersBridge
       DEF Next, vars, Keys, Focus, Touch, Timers, Signals, Processes, Map, Master,
           Objects, Refs, Pointer, Bars, Satellite, Toplevels, Resize, Tree, Vector,
           Devices, Text, Inhibition, Ipc
  <2>3. CASE LP!T!TimersNext
    BY <2>1, <2>3, LP!TimersStep
  <2>4. CASE UNCHANGED <<x1, x2>>
    BY <2>1, <2>4, LP!TimersStutter DEF LP!T!timerVars
  <2> QED
    BY <2>2, <2>3, <2>4
<1> QED
  BY <1>1, <1>2, PTL DEF Spec

(* A timer that says it is started has its event source armed, unless its  *)
(* timeout is 0 or its callback is running (objects/timer.c).              *)
THEOREM StartedStaysArmed == Spec => []StartedTimersRun
<1>1. TimersHolds => StartedTimersRun
  BY TimersBridge DEF TimersHolds, StartedTimersRun, LP!TimersInv
<1> QED
  BY <1>1, TimersStays, PTL

(***************************************************************************)
(* Refs: module LuaRefs                                                    *)
(***************************************************************************)

LEMMA RefsBridge ==
  /\ R!RefsInit <=> LP!R!RefsInit
  /\ R!RefsNext <=> LP!R!RefsNext
  /\ R!CallbacksAreTheirs <=> LP!R!CallbacksAreTheirs
<1>1. R!RefsInit <=> LP!R!RefsInit
  BY DEF
    R!RefsInit, LP!R!RefsInit, R!Number, LP!R!Number
<1>2. R!RefsNext <=> LP!R!RefsNext
  BY DEF
    R!RefsNext, LP!R!RefsNext, R!Refer, LP!R!Refer, R!Release, LP!R!Release,
    R!ReleaseWithout, LP!R!ReleaseWithout, R!RestartLua, LP!R!RestartLua,
    R!Integer, LP!R!Integer, R!Last, LP!R!Last, R!Unreferred, LP!R!Unreferred,
    R!Number, LP!R!Number, R!Cleared, LP!R!Cleared
<1>3. R!CallbacksAreTheirs <=> LP!R!CallbacksAreTheirs
  BY DEF
    R!CallbacksAreTheirs, LP!R!CallbacksAreTheirs, R!Number, LP!R!Number
<1> QED
  BY <1>1, <1>2, <1>3

RefsHolds == part = "refs" => LP!RefsInv

LEMMA RefsStays == Spec => []RefsHolds
<1> USE RefsAssumption DEF LP!RefsAssumption, LP!R!Number
<1>1. Init => RefsHolds
  BY RefsBridge, LP!RefsStart DEF Init, RefsHolds
<1>2. RefsHolds /\ [Next]_vars => RefsHolds'
  <2> SUFFICES ASSUME RefsHolds, [Next]_vars, part' = "refs" PROVE LP!RefsInv'
    BY DEF RefsHolds
  <2>1. part = "refs" /\ LP!RefsInv
    BY PartStays DEF RefsHolds
  <2>2. LP!R!RefsNext \/ UNCHANGED <<x1, x2, x3, x4>>
    BY <2>1, RefsBridge
       DEF Next, vars, Keys, Focus, Touch, Timers, Signals, Processes, Map, Master,
           Objects, Refs, Pointer, Bars, Satellite, Toplevels, Resize, Tree, Vector,
           Devices, Text, Inhibition, Ipc
  <2>3. CASE LP!R!RefsNext
    BY <2>1, <2>3, LP!RefsStep
  <2>4. CASE UNCHANGED <<x1, x2, x3, x4>>
    BY <2>1, <2>4, LP!RefsStutter DEF LP!R!refVars
  <2> QED
    BY <2>2, <2>3, <2>4
<1> QED
  BY <1>1, <1>2, PTL DEF Spec

(* Whoever calls back calls the function that was registered with it, and  *)
(* no function outlasts its holder, until a number of a former state is    *)
(* given back to a new one (cwc_restart_lua, luaL_unref in timer.c and     *)
(* process.c).                                                             *)
THEOREM CallbacksStayTheirs == Spec => []CallbacksAreTheirs
<1>1. RefsHolds => CallbacksAreTheirs
  BY RefsBridge DEF RefsHolds, CallbacksAreTheirs, LP!RefsInv
<1> QED
  BY <1>1, RefsStays, PTL

(***************************************************************************)
(* Signals: module Signals                                                 *)
(***************************************************************************)

LEMMA SignalsBridge ==
  /\ S!SignalsInit <=> LP!S!SignalsInit
  /\ S!SignalsNext <=> LP!S!SignalsNext
  /\ S!EmissionIsComplete <=> LP!S!EmissionIsComplete
<1>1. S!SignalsInit <=> LP!S!SignalsInit
  BY DEF
    S!SignalsInit, LP!S!SignalsInit, S!Part, LP!S!Part, S!ToSet, LP!S!ToSet,
    S!RemoveAt, LP!S!RemoveAt
<1>2. S!SignalsNext <=> LP!S!SignalsNext
  BY DEF
    S!SignalsNext, LP!S!SignalsNext, S!Part, LP!S!Part, S!Connect,
    LP!S!Connect, S!Disconnect, LP!S!Disconnect, S!WipeLua, LP!S!WipeLua,
    S!Emit, LP!S!Emit, S!Call, LP!S!Call, S!EndEmission, LP!S!EndEmission,
    S!Connected, LP!S!Connected, S!StoodOn, LP!S!StoodOn, S!Free, LP!S!Free,
    S!To, LP!S!To, S!Returned, LP!S!Returned, S!Behind, LP!S!Behind, S!ToSet,
    LP!S!ToSet, S!RemoveAt, LP!S!RemoveAt
<1>3. S!EmissionIsComplete <=> LP!S!EmissionIsComplete
  BY DEF
    S!EmissionIsComplete, LP!S!EmissionIsComplete, S!ToSet, LP!S!ToSet,
    S!RemoveAt, LP!S!RemoveAt
<1> QED
  BY <1>1, <1>2, <1>3

SignalsHolds == part = "signals" => LP!SignalsInv

LEMMA SignalsStays == Spec => []SignalsHolds
<1> USE DesktopAssumption DEF DesktopAssumption, LP!SignalsAssumption
<1>1. Init => SignalsHolds
  BY SignalsBridge, LP!SignalsStart DEF Init, SignalsHolds
<1>2. SignalsHolds /\ [Next]_vars => SignalsHolds'
  <2> SUFFICES ASSUME SignalsHolds, [Next]_vars, part' = "signals" PROVE LP!SignalsInv'
    BY DEF SignalsHolds
  <2>1. part = "signals" /\ LP!SignalsInv
    BY PartStays DEF SignalsHolds
  <2>2. LP!S!SignalsNext \/ UNCHANGED <<x1, x2, x3>>
    BY <2>1, SignalsBridge
       DEF Next, vars, Keys, Focus, Touch, Timers, Signals, Processes, Map, Master,
           Objects, Refs, Pointer, Bars, Satellite, Toplevels, Resize, Tree, Vector,
           Devices, Text, Inhibition, Ipc
  <2>3. CASE LP!S!SignalsNext
    BY <2>1, <2>3, LP!SignalsStep
  <2>4. CASE UNCHANGED <<x1, x2, x3>>
    BY <2>1, <2>4, LP!SignalsStutter DEF LP!S!signalVars
  <2> QED
    BY <2>2, <2>3, <2>4
<1> QED
  BY <1>1, <1>2, PTL DEF Spec

(* An emission that has ended has called every callback that was connected *)
(* all the while exactly once, whatever the callbacks did to the list and  *)
(* however deep they emitted (signal.c).                                   *)
THEOREM EmissionStaysComplete == Spec => []EmissionIsComplete
<1>1. SignalsHolds => EmissionIsComplete
  BY SignalsBridge, LP!SignalsImplies DEF SignalsHolds, EmissionIsComplete
<1> QED
  BY <1>1, SignalsStays, PTL

(***************************************************************************)
(* Objects: module LuaObjects                                              *)
(***************************************************************************)

LEMMA ObjectsBridge ==
  /\ O!ObjectsInit <=> LP!O!ObjectsInit
  /\ O!ObjectsNext <=> LP!O!ObjectsNext
  /\ O!ObjectsAreKnown <=> LP!O!ObjectsAreKnown
<1>1. O!ObjectsInit <=> LP!O!ObjectsInit
  BY DEF
    O!ObjectsInit, LP!O!ObjectsInit
<1>2. O!ObjectsNext <=> LP!O!ObjectsNext
  BY DEF
    O!ObjectsNext, LP!O!ObjectsNext, O!NewClient, LP!O!NewClient,
    O!DestroyClient, LP!O!DestroyClient, O!NewVirtualKeyboard,
    LP!O!NewVirtualKeyboard, O!DestroyVirtualKeyboard,
    LP!O!DestroyVirtualKeyboard, O!LoadPlugin, LP!O!LoadPlugin, O!UnloadPlugin,
    LP!O!UnloadPlugin, O!NewMap, LP!O!NewMap, O!DestroyMap, LP!O!DestroyMap,
    O!Bind, LP!O!Bind, O!Clear, LP!O!Clear, O!Unplug, LP!O!Unplug, O!NewSeat,
    LP!O!NewSeat, O!DestroySeat, LP!O!DestroySeat, O!Plug, LP!O!Plug, O!Reload,
    LP!O!Reload, O!Free, LP!O!Free, O!Known, LP!O!Known, O!Unknown,
    LP!O!Unknown, O!Destroyed, LP!O!Destroyed, O!Reregistered,
    LP!O!Reregistered, O!Class, LP!O!Class, O!Walked, LP!O!Walked
<1>3. O!ObjectsAreKnown <=> LP!O!ObjectsAreKnown
  BY DEF
    O!ObjectsAreKnown, LP!O!ObjectsAreKnown, O!Class, LP!O!Class, O!HandedOut,
    LP!O!HandedOut
<1> QED
  BY <1>1, <1>2, <1>3

LEMMA ObjectsAssumed == LP!ObjectsAssumption
BY ObjectsAssumption DEF ObjectsAssumption, LP!ObjectsAssumption, LP!Kinds, LP!InLists

ObjectsHolds == part = "objects" => LP!ObjectsInv

LEMMA ObjectsStays == Spec => []ObjectsHolds
<1>1. Init => ObjectsHolds
  BY ObjectsBridge, LP!ObjectsStart, ObjectsAssumed DEF Init, ObjectsHolds
<1>2. ObjectsHolds /\ [Next]_vars => ObjectsHolds'
  <2> SUFFICES ASSUME ObjectsHolds, [Next]_vars, part' = "objects" PROVE LP!ObjectsInv'
    BY DEF ObjectsHolds
  <2>1. part = "objects" /\ LP!ObjectsInv
    BY PartStays DEF ObjectsHolds
  <2>2. LP!O!ObjectsNext \/ UNCHANGED <<x1, x2, x3, x4, x5>>
    BY <2>1, ObjectsBridge
       DEF Next, vars, Keys, Focus, Touch, Timers, Signals, Processes, Map, Master,
           Objects, Refs, Pointer, Bars, Satellite, Toplevels, Resize, Tree, Vector,
           Devices, Text, Inhibition, Ipc
  <2>3. CASE LP!O!ObjectsNext
    BY <2>1, <2>3, LP!ObjectsStep, ObjectsAssumed
  <2>4. CASE UNCHANGED <<x1, x2, x3, x4, x5>>
    BY <2>1, <2>4, LP!ObjectsStutter DEF LP!O!objectVars
  <2> QED
    BY <2>2, <2>3, <2>4
<1> QED
  BY <1>1, <1>2, PTL DEF Spec

(* What Lua is handed is an object of the compositor that lives, under the *)
(* class it has: whatever lists an object registers it, and whatever frees *)
(* one takes it out of the registry (luaobject.c, output.c, kbd.c).        *)
THEOREM ObjectsStayKnown == Spec => []ObjectsAreKnown
<1>1. ObjectsHolds => (part = "objects" => O!ObjectsAreKnown)
  BY ObjectsBridge DEF ObjectsHolds, LP!ObjectsInv
<1>2. ObjectsHolds => ObjectsAreKnown
  BY <1>1 DEF ObjectsAreKnown
<1> QED
  BY <1>2, ObjectsStays, PTL

(***************************************************************************)
(* Processes: module Processes                                             *)
(***************************************************************************)

LEMMA ProcessesBridge ==
  /\ P!ProcessesInit <=> LP!P!ProcessesInit
  /\ P!ProcessesNext <=> LP!P!ProcessesNext
  /\ P!EveryExitIsAccounted <=> LP!P!EveryExitIsAccounted
<1>1. P!ProcessesInit <=> LP!P!ProcessesInit
  BY DEF
    P!ProcessesInit, LP!P!ProcessesInit, P!Cardinality, LP!P!Cardinality,
    P!IsFiniteSet, LP!P!IsFiniteSet
<1>2. P!ProcessesNext <=> LP!P!ProcessesNext
  BY DEF
    P!ProcessesNext, LP!P!ProcessesNext, P!Spawn, LP!P!Spawn, P!Write,
    LP!P!Write, P!OnPipe, LP!P!OnPipe, P!Exit, LP!P!Exit, P!SigchldHandler,
    LP!P!SigchldHandler, P!ChildWrites, LP!P!ChildWrites, P!GracefulHandler,
    LP!P!GracefulHandler, P!OnSigpfdReady, LP!P!OnSigpfdReady, P!Dead,
    LP!P!Dead, P!Zombies, LP!P!Zombies, P!Cardinality, LP!P!Cardinality,
    P!IsFiniteSet, LP!P!IsFiniteSet
<1>3. P!EveryExitIsAccounted <=> LP!P!EveryExitIsAccounted
  BY DEF
    P!EveryExitIsAccounted, LP!P!EveryExitIsAccounted, P!Zombies, LP!P!Zombies,
    P!Cardinality, LP!P!Cardinality, P!IsFiniteSet, LP!P!IsFiniteSet
<1> QED
  BY <1>1, <1>2, <1>3

ProcessesHolds == part = "processes" => LP!ProcessesInv

LEMMA ProcessesStays == Spec => []ProcessesHolds
<1>1. Init => ProcessesHolds
  BY ProcessesBridge, LP!ProcessesStart DEF Init, ProcessesHolds
<1>2. ProcessesHolds /\ [Next]_vars => ProcessesHolds'
  <2> SUFFICES ASSUME ProcessesHolds, [Next]_vars, part' = "processes" PROVE LP!ProcessesInv'
    BY DEF ProcessesHolds
  <2>1. part = "processes" /\ LP!ProcessesInv
    BY PartStays DEF ProcessesHolds
  <2>2. LP!P!ProcessesNext \/ UNCHANGED <<x1, x2, x3, x4, x5, x6, x7, x8>>
    BY <2>1, ProcessesBridge
       DEF Next, vars, Keys, Focus, Touch, Timers, Signals, Processes, Map, Master,
           Objects, Refs, Pointer, Bars, Satellite, Toplevels, Resize, Tree, Vector,
           Devices, Text, Inhibition, Ipc
  <2>3. CASE LP!P!ProcessesNext
    BY <2>1, <2>3, LP!ProcessesStep
  <2>4. CASE UNCHANGED <<x1, x2, x3, x4, x5, x6, x7, x8>>
    BY <2>1, <2>4, LP!ProcessesStutter DEF LP!P!processVars
  <2> QED
    BY <2>2, <2>3, <2>4
<1> QED
  BY <1>1, <1>2, PTL DEF Spec

(***************************************************************************)
(* Satellite: module Satellite                                             *)
(***************************************************************************)

LEMMA SatelliteBridge ==
  /\ X!SatelliteInit <=> LP!X!SatelliteInit
  /\ X!SatelliteNext <=> LP!X!SatelliteNext
  /\ X!SatelliteIsWatched <=> LP!X!SatelliteIsWatched
<1>1. X!SatelliteInit <=> LP!X!SatelliteInit
  BY DEF
    X!SatelliteInit, LP!X!SatelliteInit, X!Display, LP!X!Display, X!Closed,
    LP!X!Closed, X!NoDisplay, LP!X!NoDisplay
<1>2. X!SatelliteNext <=> LP!X!SatelliteNext
  BY DEF
    X!SatelliteNext, LP!X!SatelliteNext, X!SkipIntegration,
    LP!X!SkipIntegration, X!SatelliteStart, LP!X!SatelliteStart,
    X!OnX11SocketFd, LP!X!OnX11SocketFd, X!Die, LP!X!Die, X!ReapedElsewhere,
    LP!X!ReapedElsewhere, X!OnExit, LP!X!OnExit, X!SatelliteEnd,
    LP!X!SatelliteEnd, X!Display, LP!X!Display, X!Others, LP!X!Others,
    X!Closed, LP!X!Closed, X!OpenX11Sockets, LP!X!OpenX11Sockets, X!Socket,
    LP!X!Socket, X!NoDisplay, LP!X!NoDisplay, X!Left, LP!X!Left
<1>3. X!SatelliteIsWatched <=> LP!X!SatelliteIsWatched
  BY DEF
    X!SatelliteIsWatched, LP!X!SatelliteIsWatched, X!NoDisplay, LP!X!NoDisplay,
    X!Display, LP!X!Display, X!Socket, LP!X!Socket
<1> QED
  BY <1>1, <1>2, <1>3

LEMMA SatelliteAssumed == LP!SatelliteAssumption
BY SatelliteAssumption DEF SatelliteAssumption, LP!SatelliteAssumption

SatelliteHolds == part = "satellite" => LP!SatelliteInv

LEMMA SatelliteStays == Spec => []SatelliteHolds
<1>1. Init => SatelliteHolds
  BY SatelliteBridge, LP!SatelliteStart, SatelliteAssumed DEF Init, SatelliteHolds
<1>2. SatelliteHolds /\ [Next]_vars => SatelliteHolds'
  <2> SUFFICES ASSUME SatelliteHolds, [Next]_vars, part' = "satellite" PROVE LP!SatelliteInv'
    BY DEF SatelliteHolds
  <2>1. part = "satellite" /\ LP!SatelliteInv
    BY PartStays DEF SatelliteHolds
  <2>2. LP!X!SatelliteNext \/ UNCHANGED <<x1, x2, x3, x4>>
    BY <2>1, SatelliteBridge
       DEF Next, vars, Keys, Focus, Touch, Timers, Signals, Processes, Map, Master,
           Objects, Refs, Pointer, Bars, Satellite, Toplevels, Resize, Tree, Vector,
           Devices, Text, Inhibition, Ipc
  <2>3. CASE LP!X!SatelliteNext
    BY <2>1, <2>3, LP!SatelliteStep, SatelliteAssumed
  <2>4. CASE UNCHANGED <<x1, x2, x3, x4>>
    BY <2>1, <2>4, LP!SatelliteStutter DEF LP!X!satelliteVars
  <2> QED
    BY <2>2, <2>3, <2>4
<1> QED
  BY <1>1, <1>2, PTL DEF Spec

(***************************************************************************)
(* Ipc: module Ipc                                                         *)
(***************************************************************************)

LEMMA IpcBridge ==
  /\ Q!IpcInit <=> LP!Q!IpcInit
  /\ Q!IpcNext <=> LP!Q!IpcNext
  /\ Q!QuestionsAreAnswered <=> LP!Q!QuestionsAreAnswered
<1>1. Q!IpcInit <=> LP!Q!IpcInit
  BY DEF
    Q!IpcInit, LP!Q!IpcInit, Q!Away, LP!Q!Away, Q!NotBusy, LP!Q!NotBusy
<1>2. Q!IpcNext <=> LP!Q!IpcNext
  BY DEF
    Q!IpcNext, LP!Q!IpcNext, Q!SetupIpc, LP!Q!SetupIpc, Q!SendResponse,
    LP!Q!SendResponse, Q!CleanupIpc, LP!Q!CleanupIpc, Q!Connect, LP!Q!Connect,
    Q!OnNewConn, LP!Q!OnNewConn, Q!HandleEval, LP!Q!HandleEval, Q!OnHangup,
    LP!Q!OnHangup, Q!RecvEnd, LP!Q!RecvEnd, Q!Leave, LP!Q!Leave, Q!Ask,
    LP!Q!Ask, Q!Recv, LP!Q!Recv, Q!Up, LP!Q!Up, Q!NotBusy, LP!Q!NotBusy,
    Q!Crash, LP!Q!Crash, Q!Response, LP!Q!Response, Q!Returns, LP!Q!Returns,
    Q!Away, LP!Q!Away, Q!Answers, LP!Q!Answers
<1>3. Q!QuestionsAreAnswered <=> LP!Q!QuestionsAreAnswered
  BY DEF
    Q!QuestionsAreAnswered, LP!Q!QuestionsAreAnswered, Q!Expected,
    LP!Q!Expected
<1> QED
  BY <1>1, <1>2, <1>3

LEMMA IpcAssumed == LP!IpcAssumption
BY DesktopAssumption DEF DesktopAssumption, LP!IpcAssumption, LP!ChunkKinds, ChunkOf

IpcHolds == part = "ipc" => LP!IpcInv

LEMMA IpcStays == Spec => []IpcHolds
<1>1. Init => IpcHolds
  BY IpcBridge, LP!IpcStart, IpcAssumed DEF Init, IpcHolds
<1>2. IpcHolds /\ [Next]_vars => IpcHolds'
  <2> SUFFICES ASSUME IpcHolds, [Next]_vars, part' = "ipc" PROVE LP!IpcInv'
    BY DEF IpcHolds
  <2>1. part = "ipc" /\ LP!IpcInv
    BY PartStays DEF IpcHolds
  <2>2. LP!Q!IpcNext \/ UNCHANGED <<x1, x2, x3, x4, x5, x6, x7, x8>>
    BY <2>1, IpcBridge
       DEF Next, vars, Keys, Focus, Touch, Timers, Signals, Processes, Map, Master,
           Objects, Refs, Pointer, Bars, Satellite, Toplevels, Resize, Tree, Vector,
           Devices, Text, Inhibition, Ipc
  <2>3. CASE LP!Q!IpcNext
    BY <2>1, <2>3, LP!IpcStep, IpcAssumed
  <2>4. CASE UNCHANGED <<x1, x2, x3, x4, x5, x6, x7, x8>>
    BY <2>1, <2>4, LP!IpcStutter DEF LP!Q!ipcVars
  <2> QED
    BY <2>2, <2>3, <2>4
<1> QED
  BY <1>1, <1>2, PTL DEF Spec

(***************************************************************************)
(* Bars: module Bars                                                       *)
(***************************************************************************)

LEMMA BarsBridge ==
  /\ B!BarsInit <=> LP!B!BarsInit
  /\ B!BarsNext <=> LP!B!BarsNext
  /\ B!BarsFollow <=> LP!B!BarsFollow
<1>1. B!BarsInit <=> LP!B!BarsInit
  BY DEF
    B!BarsInit, LP!B!BarsInit, B!Fresh, LP!B!Fresh, B!Cardinality,
    LP!B!Cardinality, B!IsFiniteSet, LP!B!IsFiniteSet
<1>2. B!BarsNext <=> LP!B!BarsNext
  BY DEF
    B!BarsNext, LP!B!BarsNext, B!Focus, LP!B!Focus, B!Map, LP!B!Map, B!Unmap,
    LP!B!Unmap, B!UnmapFocused, LP!B!UnmapFocused, B!SetTag, LP!B!SetTag,
    B!MoveToScreen, LP!B!MoveToScreen, B!FocusScreen, LP!B!FocusScreen,
    B!UpdateAllTagState, LP!B!UpdateAllTagState, B!UpdateProp, LP!B!UpdateProp,
    B!Plug, LP!B!Plug, B!View, LP!B!View, B!Select, LP!B!Select, B!Unplug,
    LP!B!Unplug, B!Release, LP!B!Release, B!Bind, LP!B!Bind, B!PropChange,
    LP!B!PropChange, B!Blur, LP!B!Blur, B!DwlIpcSetup, LP!B!DwlIpcSetup,
    B!DwlIpcCleanup, LP!B!DwlIpcCleanup, B!DueTitle, LP!B!DueTitle, B!Skipped,
    LP!B!Skipped, B!Unfocused, LP!B!Unfocused, B!TagsLater, LP!B!TagsLater,
    B!Missed, LP!B!Missed, B!Tell, LP!B!Tell, B!Shown, LP!B!Shown, B!Live,
    LP!B!Live, B!Newest, LP!B!Newest, B!BarsOf, LP!B!BarsOf, B!Tags, LP!B!Tags,
    B!Fresh, LP!B!Fresh, B!On, LP!B!On, B!Gone, LP!B!Gone, B!Cardinality,
    LP!B!Cardinality, B!IsFiniteSet, LP!B!IsFiniteSet
<1>3. B!BarsFollow <=> LP!B!BarsFollow
  BY DEF
    B!BarsFollow, LP!B!BarsFollow, B!Live, LP!B!Live, B!Tags, LP!B!Tags, B!On,
    LP!B!On, B!Cardinality, LP!B!Cardinality, B!IsFiniteSet, LP!B!IsFiniteSet
<1> QED
  BY <1>1, <1>2, <1>3

LEMMA BarsAssumed == LP!BarsAssumption
BY BarsAssumption, DesktopAssumption DEF BarsAssumption, DesktopAssumption, LP!BarsAssumption

BarsHolds == part = "bars" => LP!BarsInv

LEMMA BarsStays == Spec => []BarsHolds
<1>1. Init => BarsHolds
  BY BarsBridge, LP!BarsStart, BarsAssumed DEF Init, BarsHolds
<1>2. BarsHolds /\ [Next]_vars => BarsHolds'
  <2> SUFFICES ASSUME BarsHolds, [Next]_vars, part' = "bars" PROVE LP!BarsInv'
    BY DEF BarsHolds
  <2>1. part = "bars" /\ LP!BarsInv
    BY PartStays DEF BarsHolds
  <2>2. LP!B!BarsNext \/ UNCHANGED <<x1, x2, x3, x4, x5, x6>>
    BY <2>1, BarsBridge
       DEF Next, vars, Keys, Focus, Touch, Timers, Signals, Processes, Map, Master,
           Objects, Refs, Pointer, Bars, Satellite, Toplevels, Resize, Tree, Vector,
           Devices, Text, Inhibition, Ipc
  <2>3. CASE LP!B!BarsNext
    BY <2>1, <2>3, LP!BarsStep, BarsAssumed
  <2>4. CASE UNCHANGED <<x1, x2, x3, x4, x5, x6>>
    BY <2>1, <2>4, LP!BarsStutter DEF LP!B!barVars
  <2> QED
    BY <2>2, <2>3, <2>4
<1> QED
  BY <1>1, <1>2, PTL DEF Spec

(***************************************************************************)
(* The hash map: module HashMap                                            *)
(***************************************************************************)

LEMMA LookupBridge ==
  /\ \A m, h : M!Lookup(m, h) = LP!H!Lookup(m, h)
  /\ \A m, h : M!Found(m, h) <=> LP!H!Found(m, h)
  /\ \A m, h : M!Returns(m, h) <=> LP!H!Returns(m, h)
<1>1. \A m, h : M!Root(m, h) = LP!H!Root(m, h)
  BY DEF M!Root, LP!H!Root
<1>2. \A m, h, w : M!Follow(m, h, w) = LP!H!Follow(m, h, w)
  BY DEF M!Follow, LP!H!Follow, M!NoLink, LP!H!NoLink
<1>3. \A m, h : M!Lookup(m, h) = LP!H!Lookup(m, h)
  BY <1>1, <1>2, Zenon DEF M!Lookup, LP!H!Lookup
<1>4. \A m, h : M!SlotsOf(m, h) = LP!H!SlotsOf(m, h)
  BY DEF M!SlotsOf, LP!H!SlotsOf
<1>5. \A m, h : M!Found(m, h) <=> LP!H!Found(m, h)
  BY <1>3, <1>4 DEF M!Found, LP!H!Found
<1>6. \A m, h : M!Returns(m, h) <=> LP!H!Returns(m, h)
  BY <1>3, <1>4 DEF M!Returns, LP!H!Returns, M!NoLink, LP!H!NoLink
<1> QED
  BY <1>3, <1>5, <1>6

LEMMA RehashBridge ==
  /\ \A m, h : M!Place(m, h) = LP!H!Place(m, h)
  /\ \A m, n : M!Rehash(m, n) = LP!H!Rehash(m, n)
<1>1. \A m, p : M!Probe(m, p) = LP!H!Probe(m, p)
  BY Zenon DEF M!Probe, LP!H!Probe, M!Free, LP!H!Free
<1>2. \A m, h : M!Place(m, h) = LP!H!Place(m, h)
  <2> TAKE m, h
  <2> DEFINE Put(w, slot) == IF w.at # -1 THEN m
                             ELSE [m EXCEPT !.hash[slot] = h, !.size = @ + 1,
                                            !.next[w.prev] = IF slot # w.prev THEN slot ELSE @]
             one == M!Lookup(m, h)
             other == LP!H!Lookup(m, h)
  <2>1. M!Place(m, h) = Put(one, M!Probe(m, one.prev))
    BY DEF M!Place, M!NoLink
  <2>2. LP!H!Place(m, h) = Put(other, LP!H!Probe(m, other.prev))
    BY DEF LP!H!Place, LP!H!NoLink
  <2>3. one = other
    BY LookupBridge
  <2> HIDE DEF Put, one, other
  <2>4. M!Probe(m, one.prev) = LP!H!Probe(m, one.prev)
    BY <1>1
  <2> QED
    BY <2>1, <2>2, <2>3, <2>4
<1>3. \A n : M!EmptyTable(n) = LP!H!EmptyTable(n)
  BY DEF M!EmptyTable, LP!H!EmptyTable, M!NoLink, LP!H!NoLink, M!Free, LP!H!Free
<1>4. \A m, i, t : M!Moved(m, i, t) = LP!H!Moved(m, i, t)
  BY <1>2 DEF M!Moved, LP!H!Moved, M!Free, LP!H!Free
<1>5. \A m, n : M!Rehash(m, n) = LP!H!Rehash(m, n)
  BY <1>3, <1>4, Zenon DEF M!Rehash, LP!H!Rehash
<1> QED
  BY <1>2, <1>5

LEMMA MapBridge ==
  /\ M!MapInit <=> LP!H!MapInit
  /\ M!MapNext <=> LP!H!MapNext
  /\ M!MapAnswers <=> LP!H!MapAnswers
<1>1. M!MapInit <=> LP!H!MapInit
  BY DEF M!MapInit, LP!H!MapInit, M!EmptyTable, LP!H!EmptyTable, M!Alloc0, LP!H!Alloc0,
         M!NoLink, LP!H!NoLink, M!Free, LP!H!Free
<1>2. \A m : M!Expanded(m) = LP!H!Expanded(m)
  BY RehashBridge DEF M!Expanded, LP!H!Expanded
<1>3. \A m : M!Rehashed(m) = LP!H!Rehashed(m)
  BY RehashBridge DEF M!Rehashed, LP!H!Rehashed
<1>4. \A m, w : M!Cleared(m, w) = LP!H!Cleared(m, w)
  BY Zenon DEF M!Cleared, LP!H!Cleared, M!NoLink, LP!H!NoLink, M!Free, LP!H!Free
<1>5. \A h : M!MapInsert(h) <=> LP!H!MapInsert(h)
  BY <1>2, LookupBridge, RehashBridge, Zenon DEF M!MapInsert, LP!H!MapInsert
<1>6. \A h : M!MapRemove(h) <=> LP!H!MapRemove(h)
  BY <1>3, <1>4, LookupBridge, Zenon DEF M!MapRemove, LP!H!MapRemove
<1>7. M!MapNext <=> LP!H!MapNext
  BY <1>5, <1>6 DEF M!MapNext, LP!H!MapNext
<1>8. M!MapAnswers <=> LP!H!MapAnswers
  <2>1. \A h : M!Found(x1, h) <=> LP!H!Found(x1, h)
    BY LookupBridge
  <2>2. \A h : M!Returns(x1, h) <=> LP!H!Returns(x1, h)
    BY LookupBridge
  <2>3. M!MapAnswers <=> /\ \A h \in x2 : M!Found(x1, h)
                         /\ \A h \in Hash \ x2 : M!Returns(x1, h) => ~M!Found(x1, h)
                         /\ x1.size = M!Cardinality(x2)
    BY DEF M!MapAnswers
  <2>4. LP!H!MapAnswers <=> /\ \A h \in x2 : LP!H!Found(x1, h)
                            /\ \A h \in Hash \ x2 : LP!H!Returns(x1, h) => ~LP!H!Found(x1, h)
                            /\ x1.size = LP!H!Cardinality(x2)
    BY DEF LP!H!MapAnswers
  <2>5. M!Cardinality(x2) = LP!H!Cardinality(x2)
    BY DEF M!Cardinality, LP!H!Cardinality, M!IsFiniteSet, LP!H!IsFiniteSet
  <2> QED
    BY <2>1, <2>2, <2>3, <2>4, <2>5
<1> QED
  BY <1>1, <1>7, <1>8

LEMMA MapAssumed == LP!MapAssumption
BY HashAssumption DEF LP!MapAssumption

MapHolds == part = "map" => LP!MapInv

LEMMA MapStays == Spec => []MapHolds
<1>1. Init => MapHolds
  BY MapBridge, LP!MapStart, MapAssumed DEF Init, MapHolds
<1>2. MapHolds /\ [Next]_vars => MapHolds'
  <2> SUFFICES ASSUME MapHolds, [Next]_vars, part' = "map" PROVE LP!MapInv'
    BY DEF MapHolds
  <2>1. part = "map" /\ LP!MapInv
    BY PartStays DEF MapHolds
  <2>2. LP!H!MapNext \/ UNCHANGED <<x1, x2>>
    BY <2>1, MapBridge
       DEF Next, vars, Keys, Focus, Touch, Timers, Signals, Processes, Map, Master,
           Objects, Refs, Pointer, Bars, Satellite, Toplevels, Resize, Tree, Vector,
           Devices, Text, Inhibition, Ipc
  <2>3. CASE LP!H!MapNext
    BY <2>1, <2>3, LP!MapStep, MapAssumed
  <2>4. CASE UNCHANGED <<x1, x2>>
    BY <2>1, <2>4, LP!MapStutter
  <2> QED
    BY <2>2, <2>3, <2>4
<1> QED
  BY <1>1, <1>2, PTL DEF Spec

(***************************************************************************)
(* The vector: module Vector                                               *)
(***************************************************************************)

LEMMA VectorBridge ==
  /\ G!VectorInit <=> LP!G!VectorInit
  /\ G!VectorNext <=> LP!G!VectorNext
  /\ G!VectorAnswers <=> LP!G!VectorAnswers
<1>1. G!VectorInit <=> LP!G!VectorInit
  BY DEF G!VectorInit, LP!G!VectorInit, G!Reserved, LP!G!Reserved, G!Junk, LP!G!Junk
<1>2. \A c, m, n : G!Storage(c, m, n) = LP!G!Storage(c, m, n)
  BY DEF G!Storage, LP!G!Storage, G!Junk, LP!G!Junk
<1>3. G!Expanded = LP!G!Expanded
  BY <1>2 DEF G!Expanded, LP!G!Expanded
<1>4. \A v : G!Packed(v) = LP!G!Packed(v)
  BY DEF G!Packed, LP!G!Packed
<1>5. \A v : G!Push(v) <=> LP!G!Push(v)
  BY <1>3, <1>4 DEF G!Push, LP!G!Push
<1>6. \A i, v : G!PushAt(i, v) <=> LP!G!PushAt(i, v)
  <2> TAKE i, v
  <2>1. G!Packed(v) = LP!G!Packed(v)
    BY <1>4
  <2> QED
    BY <1>3, <2>1, Zenon DEF G!PushAt, LP!G!PushAt
<1>7. \A c, n : G!Shrunk(c, n) = LP!G!Shrunk(c, n)
  BY <1>2 DEF G!Shrunk, LP!G!Shrunk
<1>8. G!Pop <=> LP!G!Pop
  BY <1>7 DEF G!Pop, LP!G!Pop
<1>9. \A i : G!PopAt(i) <=> LP!G!PopAt(i)
  BY <1>7, Zenon DEF G!PopAt, LP!G!PopAt
<1>10. G!VectorNext <=> LP!G!VectorNext
  BY <1>5, <1>6, <1>8, <1>9, Zenon
     DEF G!VectorNext, LP!G!VectorNext, G!PushFails, LP!G!PushFails, G!MayPush, LP!G!MayPush
<1>11. \A u : G!Signed(u) = LP!G!Signed(u)
  BY DEF G!Signed, LP!G!Signed
<1>12. \A v : G!Find(v) = LP!G!Find(v)
  <2> TAKE v
  <2> DEFINE First(u) ==
               LET places == {i \in 0 .. x2 - 1 : x1[i + 1] = u}
               IN IF places = {} THEN -1 ELSE CHOOSE i \in places : \A j \in places : i <= j
  <2>1. G!Find(v) = First(G!Packed(v))
    BY DEF G!Find
  <2>2. LP!G!Find(v) = First(LP!G!Packed(v))
    BY DEF LP!G!Find
  <2> HIDE DEF First
  <2> QED
    BY <2>1, <2>2, <1>4
<1>13. \A i : G!At(i) = LP!G!At(i)
  BY <1>11 DEF G!At, LP!G!At
<1>14. G!VectorAnswers <=> LP!G!VectorAnswers
  BY <1>4, <1>11, <1>12, <1>13, Zenon DEF G!VectorAnswers, LP!G!VectorAnswers
<1> QED
  BY <1>1, <1>10, <1>14

LEMMA VectorAssumed == LP!VectorAssumption
BY DEF LP!VectorAssumption

VectorHolds == part = "vector" => LP!VectorInv

LEMMA VectorStays == Spec => []VectorHolds
<1>1. Init => VectorHolds
  BY VectorBridge, LP!VectorStart, VectorAssumed DEF Init, VectorHolds
<1>2. VectorHolds /\ [Next]_vars => VectorHolds'
  <2> SUFFICES ASSUME VectorHolds, [Next]_vars, part' = "vector" PROVE LP!VectorInv'
    BY DEF VectorHolds
  <2>1. part = "vector" /\ LP!VectorInv
    BY PartStays DEF VectorHolds
  <2>2. LP!G!VectorNext \/ UNCHANGED <<x1, x2, x3, x4>>
    BY <2>1, VectorBridge
       DEF Next, vars, Keys, Focus, Touch, Timers, Signals, Processes, Map, Master,
           Objects, Refs, Pointer, Bars, Satellite, Toplevels, Resize, Tree, Vector,
           Devices, Text, Inhibition, Ipc
  <2>3. CASE LP!G!VectorNext
    BY <2>1, <2>3, LP!VectorStep, VectorAssumed
  <2>4. CASE UNCHANGED <<x1, x2, x3, x4>>
    BY <2>1, <2>4, LP!VectorStutter
  <2> QED
    BY <2>2, <2>3, <2>4
<1> QED
  BY <1>1, <1>2, PTL DEF Spec

BP == INSTANCE BspProofs WITH
        tree <- x1, root <- x2, last <- x3, geo <- x4, mode <- x5, scheduled <- x6,
        neglected <- x7,
        Container <- {Window1, Window2}, Internal <- {Layer1, Layer2}, NULL <- None,
        Width <- 16, Height <- 9, Factors <- {1, 5, 15}, FirstModes <- {"tiled"}

(***************************************************************************)
(* The tree of the bsp layout: module Bsp                                  *)
(***************************************************************************)

LEMMA NodesBridge ==
  /\ Z!EmptyForest = BP!EmptyForest
  /\ \A t, new : Z!InsertRoot(t, new) = BP!InsertRoot(t, new)
  /\ \A g, m : Z!Tracked(g, m) = BP!Tracked(g, m)
  /\ \A t, sib, new, p, pos :
        Z!SplitLeaf(t, sib, new, p, pos) = BP!SplitLeaf(t, sib, new, p, pos)
  /\ \A t, n, steps : Z!Visited(t, n, steps) = BP!Visited(t, n, steps)
  /\ \A t, n : Z!Enable(t, n) = BP!Enable(t, n)
  /\ \A t, n : Z!Sibling(t, n) = BP!Sibling(t, n)
  /\ \A t, g, top : Z!UpdateNode(t, g, top) = BP!UpdateNode(t, g, top)
  /\ \A t : Z!StepsUpIfIdle(t) = BP!StepsUpIfIdle(t)
  /\ \A t, n : Z!Disable(t, n) = BP!Disable(t, n)
  /\ \A b : Z!LongerSide(b) = BP!LongerSide(b)
  /\ \A t, c : Z!RemoveRoot(t, c) = BP!RemoveRoot(t, c)
  /\ \A t, c : Z!SpliceOut(t, c) = BP!SpliceOut(t, c)
  /\ \A t, c : Z!ClosestLeaf(t, c) = BP!ClosestLeaf(t, c)
  /\ \A t, g, r : Z!UpdateRoot(t, g, r) = BP!UpdateRoot(t, g, r)
  /\ \A t, g, n : Z!UpdateBelow(t, g, n) = BP!UpdateBelow(t, g, n)
<1>1. Z!EmptyForest = BP!EmptyForest
  BY DEF Z!EmptyForest, BP!EmptyForest, Z!Node, BP!Node
<1>2. \A t, new : Z!InsertRoot(t, new) = BP!InsertRoot(t, new)
  BY DEF Z!InsertRoot, BP!InsertRoot
<1>3. \A g, m : Z!Tracked(g, m) = BP!Tracked(g, m)
  BY DEF Z!Tracked, BP!Tracked, Z!Box, BP!Box, Z!NoBox, BP!NoBox, Z!Node, BP!Node
<1>4. \A t, p, old, new : Z!Replace(t, p, old, new) = BP!Replace(t, p, old, new)
  BY DEF Z!Replace, BP!Replace
<1>5. \A t, sib, new, p, pos :
        Z!SplitLeaf(t, sib, new, p, pos) = BP!SplitLeaf(t, sib, new, p, pos)
  BY DEF Z!SplitLeaf, BP!SplitLeaf, Z!Replace, BP!Replace, Z!RIGHT, BP!RIGHT
<1>6. \A t, n, steps : Z!Visited(t, n, steps) = BP!Visited(t, n, steps)
  BY DEF Z!Visited, BP!Visited
<1>7. \A t : Z!HasParent(t) = BP!HasParent(t)
  BY DEF Z!HasParent, BP!HasParent
<1>8. \A t : Z!StepsUp(t) = BP!StepsUp(t)
  BY <1>7 DEF Z!StepsUp, BP!StepsUp
<1>9. \A t, n : Z!Upward(t, n) = BP!Upward(t, n)
  BY <1>6, <1>8 DEF Z!Upward, BP!Upward
<1>10. \A t, n : Z!Enable(t, n) = BP!Enable(t, n)
  BY <1>9 DEF Z!Enable, BP!Enable
<1>11. \A t, n : Z!Sibling(t, n) = BP!Sibling(t, n)
  BY DEF Z!Sibling, BP!Sibling
<1>12. \A g, b, i : Z!LeftShare(g, b, i) = BP!LeftShare(g, b, i)
  BY DEF Z!LeftShare, BP!LeftShare
<1>13. \A g, b, i : Z!RightShare(g, b, i) = BP!RightShare(g, b, i)
  BY <1>12 DEF Z!RightShare, BP!RightShare, Z!Box, BP!Box
<1>14. \A t, g, b, i, child : Z!Share(t, g, b, i, child) = BP!Share(t, g, b, i, child)
  BY <1>11, <1>12, <1>13 DEF Z!Share, BP!Share
<1>15. \A t, g, top : Z!UpdateNode(t, g, top) = BP!UpdateNode(t, g, top)
  <2> SUFFICES ASSUME NEW t, NEW g, NEW top PROVE Z!UpdateNode(t, g, top) = BP!UpdateNode(t, g, top)
    OBVIOUS
  <2> DEFINE Nodes == {Window1, Window2} \cup {Layer1, Layer2}
             Below(had) == {<<t.parent[n], n>> : n \in {m \in had :
                              t.parent[m] = top \/ t.parent[m] \in t.enabled}}
             There(new, placed) == [n \in Nodes |->
                 IF n \in placed
                 THEN Z!Share(t, g, new[t.parent[n]], t.parent[n], n) ELSE g.box[n]]
             Here(new, placed) == [n \in Nodes |->
                 IF n \in placed
                 THEN BP!Share(t, g, new[t.parent[n]], t.parent[n], n) ELSE g.box[n]]
             SetThere(placed) == [g EXCEPT !.box = CHOOSE new : new = There(new, placed)]
             SetHere(placed) == [g EXCEPT !.box = CHOOSE new : new = Here(new, placed)]
  <2>1. Z!UpdateNode(t, g, top) = SetThere(Z!Visited(t, top, Below(Z!HasParent(t))) \ {top})
    BY DEF Z!UpdateNode, Z!Node
  <2>2. BP!UpdateNode(t, g, top) = SetHere(BP!Visited(t, top, Below(BP!HasParent(t))) \ {top})
    BY DEF BP!UpdateNode, BP!Node
  <2>3. \A new, placed : There(new, placed) = Here(new, placed)
    BY <1>14
  <2> HIDE DEF There, Here
  <2>4. \A placed : SetThere(placed) = SetHere(placed)
    <3>1. \A placed : (CHOOSE new : new = There(new, placed))
                          = (CHOOSE new : new = Here(new, placed))
      BY <2>3
    <3> QED
      BY <3>1
  <2> HIDE DEF SetThere, SetHere, Below
  <2> QED
    BY <2>1, <2>2, <2>4, <1>6, <1>7
<1>16. \A t : Z!StepsUpIfIdle(t) = BP!StepsUpIfIdle(t)
  BY <1>7 DEF Z!StepsUpIfIdle, BP!StepsUpIfIdle, Z!Sibling, BP!Sibling
<1>17. \A t, n : Z!Disable(t, n) = BP!Disable(t, n)
  BY <1>6, <1>16 DEF Z!Disable, BP!Disable
<1>18. \A b : Z!LongerSide(b) = BP!LongerSide(b)
  BY DEF Z!LongerSide, BP!LongerSide
<1>19. \A t, c : Z!RemoveRoot(t, c) = BP!RemoveRoot(t, c)
  BY DEF Z!RemoveRoot, BP!RemoveRoot
<1>20. \A t, c : Z!SpliceOut(t, c) = BP!SpliceOut(t, c)
  BY <1>11, <1>4 DEF Z!SpliceOut, BP!SpliceOut
<1>21. \A t, c, side : Z!LeafTowards(t, c, side) = BP!LeafTowards(t, c, side)
  BY <1>11, <1>6 DEF Z!LeafTowards, BP!LeafTowards
<1>22. \A t, c : Z!ClosestLeaf(t, c) = BP!ClosestLeaf(t, c)
  BY <1>21 DEF Z!ClosestLeaf, BP!ClosestLeaf
<1>23. \A t, g, r : Z!UpdateRoot(t, g, r) = BP!UpdateRoot(t, g, r)
  BY <1>15 DEF Z!UpdateRoot, BP!UpdateRoot, Z!Box, BP!Box, Z!UsableArea, BP!UsableArea
<1>24. \A t, g, n : Z!UpdateBelow(t, g, n) = BP!UpdateBelow(t, g, n)
  BY <1>15 DEF Z!UpdateBelow, BP!UpdateBelow
<1> QED
  BY <1>1, <1>2, <1>3, <1>5, <1>6, <1>10, <1>11, <1>15, <1>16, <1>17, <1>18, <1>19, <1>20,
        <1>22, <1>23, <1>24

LEMMA TreeBridge ==
  /\ Z!Init <=> BP!Init
  /\ Z!Next <=> BP!Next
  /\ Z!TilesDoNotOverlap <=> BP!TilesDoNotOverlap
<1>1. Z!Init <=> BP!Init
  BY NodesBridge DEF Z!Init, BP!Init, Z!Box, BP!Box, Z!NoBox, BP!NoBox, Z!Node, BP!Node
<1>2. \A c, m, asks : Z!InsertFirst(c, m, asks) <=> BP!InsertFirst(c, m, asks)
  BY NodesBridge DEF Z!InsertFirst, BP!InsertFirst, Z!Box, BP!Box, Z!UsableArea, BP!UsableArea
<1>3. \A t, g, r, c, asks : Z!EnableLeaf(t, g, r, c, asks) <=> BP!EnableLeaf(t, g, r, c, asks)
  BY NodesBridge DEF Z!EnableLeaf, BP!EnableLeaf
<1>4. \A t, g, r, c, asks : Z!DisableLeaf(t, g, r, c, asks) <=> BP!DisableLeaf(t, g, r, c, asks)
  <2> SUFFICES ASSUME NEW t, NEW g, NEW r, NEW c, NEW asks
               PROVE  Z!DisableLeaf(t, g, r, c, asks) <=> BP!DisableLeaf(t, g, r, c, asks)
    OBVIOUS
  <2> DEFINE Topmost(cleared) == CHOOSE n \in cleared : t.parent[n] \notin cleared
             There(top) ==
                /\ x1' = Z!Disable(t, c)
                /\ x4' = Z!Tracked(IF top \in {Layer1, Layer2} /\ t.parent[top] # None
                                   THEN Z!UpdateNode(Z!Disable(t, c), g, t.parent[top])
                                   ELSE g, x5')
                /\ x6' = (x6 \/ asks \/ top \in {Window1, Window2})
             Here(top) ==
                /\ x1' = BP!Disable(t, c)
                /\ x4' = BP!Tracked(IF top \in {Layer1, Layer2} /\ t.parent[top] # None
                                    THEN BP!UpdateNode(BP!Disable(t, c), g, t.parent[top])
                                    ELSE g, x5')
                /\ x6' = (x6 \/ asks \/ top \in {Window1, Window2})
  <2>1. Z!DisableLeaf(t, g, r, c, asks) <=> There(Topmost(Z!Visited(t, c, Z!StepsUpIfIdle(t))))
    BY DEF Z!DisableLeaf
  <2>2. BP!DisableLeaf(t, g, r, c, asks) <=> Here(Topmost(BP!Visited(t, c, BP!StepsUpIfIdle(t))))
    BY DEF BP!DisableLeaf
  <2>3. Z!Visited(t, c, Z!StepsUpIfIdle(t)) = BP!Visited(t, c, BP!StepsUpIfIdle(t))
    BY NodesBridge
  <2>4. \A top : There(top) <=> Here(top)
    BY NodesBridge
  <2> HIDE DEF Topmost, There, Here
  <2> QED
    BY <2>1, <2>2, <2>3, <2>4
<1>5. \A c, sib, pos, m, asks :
        Z!InsertBeside(c, sib, pos, m, asks) <=> BP!InsertBeside(c, sib, pos, m, asks)
  <2> SUFFICES ASSUME NEW c, NEW sib, NEW pos, NEW m, NEW asks
               PROVE  Z!InsertBeside(c, sib, pos, m, asks) <=> BP!InsertBeside(c, sib, pos, m, asks)
    OBVIOUS
  <2> DEFINE Area == [x |-> 0, y |-> 0, w |-> 16, h |-> 9]
             New(p, s) == [x4 EXCEPT !.split[p] = s, !.wfact[p] = 8,
                                     !.box[p] = IF x2 = sib THEN Area ELSE x4.box[sib]]
             Top(p) == IF x2 = sib THEN p ELSE x2
             There(p, s) ==
                /\ x5[sib] = "tiled" => s = Z!LongerSide(x4.box[sib])
                /\ x2' = Top(p)
                /\ IF m = "tiled"
                   THEN Z!EnableLeaf(Z!SplitLeaf(x1, sib, c, p, pos), New(p, s), Top(p), c, asks)
                   ELSE Z!DisableLeaf(Z!SplitLeaf(x1, sib, c, p, pos), New(p, s), Top(p), c, asks)
             Here(p, s) ==
                /\ x5[sib] = "tiled" => s = BP!LongerSide(x4.box[sib])
                /\ x2' = Top(p)
                /\ IF m = "tiled"
                   THEN BP!EnableLeaf(BP!SplitLeaf(x1, sib, c, p, pos), New(p, s), Top(p), c, asks)
                   ELSE BP!DisableLeaf(BP!SplitLeaf(x1, sib, c, p, pos), New(p, s), Top(p), c, asks)
             Around(inner) ==
                /\ x2 # None /\ c \notin x1.live
                /\ x5' = [x5 EXCEPT ![c] = m]
                /\ inner
                /\ x3' = c /\ UNCHANGED x7
  <2>1. Z!InsertBeside(c, sib, pos, m, asks)
          <=> Around(\E p \in {Layer1, Layer2} \ x1.live, s \in {"H", "V"} : There(p, s))
    BY DEF Z!InsertBeside, Z!UsableArea, Z!Box, Z!Even
  <2>2. BP!InsertBeside(c, sib, pos, m, asks)
          <=> Around(\E p \in {Layer1, Layer2} \ x1.live, s \in {"H", "V"} : Here(p, s))
    BY DEF BP!InsertBeside, BP!UsableArea, BP!Box, BP!Even
  <2> HIDE DEF New, Top, Area
  <2>3. \A p, s : There(p, s) <=> Here(p, s)
    BY <1>3, <1>4, NodesBridge
  <2> HIDE DEF There, Here
  <2> QED
    BY <2>1, <2>2, <2>3
<1>6. \A c, m, asks : Z!Insert(c, m, asks) <=> BP!Insert(c, m, asks)
  BY <1>5 DEF Z!Insert, BP!Insert, Z!RIGHT, BP!RIGHT
<1>7. \A c, sib, pos : Z!Drop(c, sib, pos) <=> BP!Drop(c, sib, pos)
  BY <1>5 DEF Z!Drop, BP!Drop
<1>8. \A c : Z!Forget(c) <=> BP!Forget(c)
  BY DEF Z!Forget, BP!Forget
<1>9. \A c, asks : Z!RemoveLast(c, asks) <=> BP!RemoveLast(c, asks)
  BY <1>8, NodesBridge DEF Z!RemoveLast, BP!RemoveLast, Z!Box, BP!Box, Z!NoBox, BP!NoBox
<1>10. \A c : Z!LeavesGap(c) <=> BP!LeavesGap(c)
  BY NodesBridge DEF Z!LeavesGap, BP!LeavesGap
<1>11. \A c, caller : Z!Remove(c, caller) <=> BP!Remove(c, caller)
  BY <1>8, <1>10, NodesBridge DEF Z!Remove, BP!Remove, Z!Box, BP!Box, Z!NoBox, BP!NoBox
<1>12. \A c : Z!Untile(c) <=> BP!Untile(c)
  BY <1>4 DEF Z!Untile, BP!Untile
<1>13. \A c : Z!Retile(c) <=> BP!Retile(c)
  BY <1>3, <1>8 DEF Z!Retile, BP!Retile
<1>14. \A c : Z!ToggleSplit(c) <=> BP!ToggleSplit(c)
  BY NodesBridge DEF Z!ToggleSplit, BP!ToggleSplit
<1>15. \A c, f : Z!SetFactor(c, f) <=> BP!SetFactor(c, f)
  BY DEF Z!SetFactor, BP!SetFactor
<1>16. \A c : Z!Focus(c) <=> BP!Focus(c)
  BY DEF Z!Focus, BP!Focus
<1>17. Z!Arrange <=> BP!Arrange
  BY NodesBridge DEF Z!Arrange, BP!Arrange
<1>18. Z!Next <=> BP!Next
  BY <1>2, <1>6, <1>7, <1>9, <1>11, <1>12, <1>13, <1>14, <1>15, <1>16, <1>17
     DEF Z!Next, BP!Next, Z!LEFT, BP!LEFT, Z!Modes, BP!Modes, Z!RIGHT, BP!RIGHT
<1>19. \A t : Z!Leaves(t) = BP!Leaves(t)
  BY DEF Z!Leaves, BP!Leaves
<1>20. Z!Tiles = BP!Tiles
  BY <1>19 DEF Z!Tiles, BP!Tiles
<1>21. Z!TilesDoNotOverlap <=> BP!TilesDoNotOverlap
  BY <1>20 DEF Z!TilesDoNotOverlap, BP!TilesDoNotOverlap, Z!Disjoint, BP!Disjoint
<1> QED
  BY <1>1, <1>18, <1>21

LEMMA TreeAssumed == BP!BspTreeAssumption /\ BP!BspAssumption
BY TreeAssumption, DesktopAssumption
   DEF TreeAssumption, DesktopAssumption, BP!BspTreeAssumption, BP!BspAssumption, BP!Modes

TreeHolds == part = "factors" => BP!TreeInv /\ BP!Reach /\ BP!GeoInv

LEMMA TreeStays == Spec => []TreeHolds
<1>1. Init => TreeHolds
  BY TreeBridge, BP!GeometryStart, TreeAssumed DEF Init, TreeHolds
<1>2. TreeHolds /\ [Next]_vars => TreeHolds'
  <2> SUFFICES ASSUME TreeHolds, [Next]_vars, part' = "factors"
               PROVE  (BP!TreeInv /\ BP!Reach /\ BP!GeoInv)'
    BY DEF TreeHolds
  <2>1. part = "factors" /\ BP!TreeInv /\ BP!Reach /\ BP!GeoInv
    BY PartStays DEF TreeHolds
  <2>2. BP!Next \/ UNCHANGED <<x1, x2, x3, x4, x5, x6, x7>>
    BY <2>1, TreeBridge
       DEF Next, vars, Keys, Focus, Touch, Timers, Signals, Processes, Map, Master,
           Objects, Refs, Pointer, Bars, Satellite, Toplevels, Resize, Tree, Vector,
           Devices, Text, Inhibition, Ipc
  <2>3. [BP!Next]_BP!vars
    BY <2>2 DEF BP!vars
  <2> QED
    BY <2>1, <2>3, BP!GeometryStep, TreeAssumed
<1> QED
  BY <1>1, <1>2, PTL DEF Spec

(***************************************************************************)
(* What is said of several parts                                          *)
(***************************************************************************)

(* Nothing is waited for that does not come, and nothing comes that nobody *)
(* waits for: each exit of a child has a wakeup that will reap it, the     *)
(* sockets of the satellite or its process are watched, a frame waits for  *)
(* no more answers than windows owe, and a question gets its own answer    *)
(* (process.c, satellite.c, transaction.c, ipc/server.c, cwctl).           *)
THEOREM AllStaysAccounted == Spec => []AllIsAccounted
<1>1. ProcessesHolds => (part = "processes" => P!EveryExitIsAccounted)
  BY ProcessesBridge, LP!ProcessesImplies DEF ProcessesHolds
<1>2. SatelliteHolds => (part = "satellite" => X!SatelliteIsWatched)
  BY SatelliteBridge, LP!SatelliteImplies DEF SatelliteHolds
<1>3. ResizesHolds => (part = "resizes" => V!FramesWait)
  BY ResizesBridge, DP!ResizesImply DEF ResizesHolds
<1>4. IpcHolds => (part = "ipc" => Q!QuestionsAreAnswered)
  BY IpcBridge, LP!IpcImplies, IpcAssumed DEF IpcHolds
<1>5. ProcessesHolds /\ SatelliteHolds /\ ResizesHolds /\ IpcHolds => AllIsAccounted
  BY <1>1, <1>2, <1>3, <1>4 DEF AllIsAccounted
<1> QED
  BY <1>5, ProcessesStays, SatelliteStays, ResizesStays, IpcStays, PTL

(* What is shown and told is that which is: the image of the pointer, what *)
(* status bars know, the sizes of windows and the inhibition of idleness   *)
(* (cursor.c, dwl-ipc.c, toplevel.c, idle.c), with the exceptions that the *)
(* modules state.                                                          *)
THEOREM ShownStaysCurrent == Spec => []ShownIsCurrent
<1>1. PointerHolds => (part = "pointer" => C!CursorFollows)
  BY PointerBridge, DP!PointerImplies DEF PointerHolds
<1>2. BarsHolds => (part = "bars" => B!BarsFollow)
  BY BarsBridge, LP!BarsImplies DEF BarsHolds
<1>3. ResizesHolds => (part = "resizes" => V!SizesAgree)
  BY ResizesBridge, DP!ResizesImply DEF ResizesHolds
<1>4. IdleHolds => (part = "idle" => E!InhibitionFollows)
  BY IdleBridge DEF IdleHolds, DP!IdleInv
<1>5. PointerHolds /\ BarsHolds /\ ResizesHolds /\ IdleHolds => ShownIsCurrent
  BY <1>1, <1>2, <1>3, <1>4 DEF ShownIsCurrent
<1> QED
  BY <1>5, PointerStays, BarsStays, ResizesStays, IdleStays, PTL

(* The hash map finds what was inserted and not removed, and nothing else; *)
(* the vector holds what was pushed at its place; and the devices, the     *)
(* outputs and their order are what the seat says (util-map.c, util-vec.c, *)
(* seat.c, output.c).                                                      *)
THEOREM MapAlwaysAnswers == Spec => []MapAnswers
<1>1. MapHolds => (part = "map" => M!MapAnswers)
  BY MapBridge, LP!MapImplies, MapAssumed DEF MapHolds
<1>2. VectorHolds => (part = "vector" => G!VectorAnswers)
  BY VectorBridge, LP!VectorImplies, VectorAssumed DEF VectorHolds
<1>3. DevicesHolds => (part = "devices" => D!DevicesAreKnown)
  BY DevicesBridge, DP!DevicesImplies DEF DevicesHolds
<1>4. MapHolds /\ VectorHolds /\ DevicesHolds => MapAnswers
  BY <1>1, <1>2, <1>3 DEF MapAnswers
<1> QED
  BY <1>4, MapStays, VectorStays, DevicesStays, PTL

(* No tiled window covers another and none leaves the usable area, in the  *)
(* master layouts and, unless an arrangement is pending, in the tree of the*)
(* bsp layout (master.c, bsp.c), with the exceptions the modules state.    *)
THEOREM TilesAlwaysFit == Spec => []TilesFit
<1>1. MasterHolds => (part = "master" => L!TilesFit)
  BY MasterBridge, DP!MasterImplies, MasterAssumed DEF MasterHolds
<1>2. TreeHolds => (part = "factors" => Z!TilesDoNotOverlap)
  BY TreeBridge, BP!TilesAreApart, TreeAssumed DEF TreeHolds
<1>3. MasterHolds /\ TreeHolds => TilesFit
  BY <1>1, <1>2 DEF TilesFit
<1> QED
  BY <1>3, MasterStays, TreeStays, PTL

=============================================================================
