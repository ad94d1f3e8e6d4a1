----------------------------- MODULE MCServices -----------------------------
(***************************************************************************)
(* Constants and bounds for the services of the compositor that do not     *)
(* share state: the initial state picks one, which then runs on its own,   *)
(* so that the states of the parts add up instead of being multiplied.     *)
(* For the same reason the parts use the same eight variables: each module *)
(* is instantiated with as many of them as it declares.                    *)
(***************************************************************************)
EXTENDS Naturals, Sequences, TLC

CONSTANTS Key, Surface, Window1, Window2, Layer1, Layer2, Output1, Output2,
          Finger, Button, Timer, Callback, Slot, Child, None,
          Hash, MaxUse, MaxNesting, MaxDepth, MaxSpurious,
          Extra, Width, Height, Factor, MaxWindows, MaxCount,
          Address, Holder, Outliving, MaxRef, Image,
          Bar, Workspace, LastDisplay,
          Window3, Container

(* Fingers, buttons and the pen are told from one another by their names.  *)
ASSUME TouchAssumption ==
    Finger \cap Button = {} /\ "pen" \notin Finger /\ "pen" \notin Button

(* A Lua function is neither a number nor nil.                             *)
ASSUME RefsAssumption ==
    /\ MaxRef \in Nat
    /\ Holder \cap (0 .. MaxRef) = {}
    /\ None \notin Holder \cup (0 .. MaxRef)
    /\ Outliving \subseteq Holder

(* NULL is told from everything else.                                      *)
ASSUME DesktopAssumption ==
    /\ None \notin {Window1, Window2, Layer1, Layer2, Output1, Output2} \cup Container \cup Slot
    /\ None \notin [on : {Output1, Output2}, home : {Output1, Output2, None}]

(* The kinds of objects and the names of cursors are told from NULL, and   *)
(* names from the surfaces of clients.                                     *)
ASSUME ObjectsAssumption ==
    None \notin Address \cup {"client", "plugin", "kbd", "screen", "tag", "map", "pointer",
                              "virtual", "gone", "kbind", "kbindmap"}
ASSUME PointerAssumption ==
    LET names == {"text", "wait", "grabbing", "default", "resize"}
    IN None \notin names \cup Image /\ names \cap Image = {}

(* The hash of a key is never 0, and a device is of one kind.              *)
ASSUME HashAssumption == Hash \subseteq Nat \ {0}
ASSUME DeviceAssumption ==
    /\ Window1 \notin {Window2, Window3, Layer1} /\ Layer1 # Window3

(* A leaf of the tree is no internal node; and there is a pixel for every  *)
(* column and for every row of the master layout.                          *)
ASSUME TreeAssumption == {Window1, Window2} \cap {Layer1, Layer2} = {}
ASSUME MasterAssumption ==
    /\ Width \in Nat /\ Height \in Nat /\ MaxWindows \in Nat /\ MaxCount \in Nat
    /\ Factor \subseteq Nat
    /\ Width >= 10 /\ Width >= 10 * MaxCount /\ Height >= MaxWindows

(* A layer surface is no window, and there are displays and tags.          *)
ASSUME IdleAssumption == Layer1 \notin {Window1, Window2}
ASSUME SatelliteAssumption == LastDisplay \in Nat
ASSUME BarsAssumption ==
    Workspace # {} /\ None \notin [on : {Output1, Output2}, tag : Workspace]

VARIABLES part, x1, x2, x3, x4, x5, x6, x7, x8

vars == <<part, x1, x2, x3, x4, x5, x6, x7, x8>>

(* The variables that a part with fewer of its own does not use.           *)
Unused8 == x8 = None
Unused7 == x7 = None /\ Unused8
Unused6 == x6 = None /\ Unused7
Unused5 == x5 = None /\ Unused6
Unused4 == x4 = None /\ Unused5
Unused3 == x3 = None /\ Unused4

MapList == <<"main", "extra">>

Binding ==
    { [press |-> "focus", release |-> "nothing",
       pass |-> FALSE, repeat |-> TRUE, exclusive |-> FALSE],
      [press |-> "toggle", release |-> "focus",
       pass |-> TRUE, repeat |-> TRUE, exclusive |-> TRUE] }

OutputOf == Window1 :> Output1 @@ Window2 :> Output2
            @@ Layer1 :> Output1 @@ Layer2 :> Output2

(* One cwctl asks for anything, the other for nothing but an answer.       *)
ChunkOf == [c \in {Layer1, Layer2} |->
               IF c = Layer1 THEN {"nothing", "value", "error", "mute", "long", "huge"}
               ELSE {"nothing"}]

(* The widths that one window is given, and the other.                     *)
WidthOf == [w \in {Window1, Window2} |-> IF w = Window1 THEN 1 .. 3 ELSE 1 .. 2]

(* Of two of the text inputs one surface is the owner.                     *)
OwnerOf == LET other == CHOOSE t \in Slot : TRUE
               first == CHOOSE s \in Surface : TRUE
           IN [t \in Slot |-> IF t # other THEN first
                              ELSE CHOOSE s \in Surface : s # first]

K == INSTANCE Keys WITH maps <- x1, board <- x2, grab <- x3, barred <- x4,
                        NoKey <- None
F == INSTANCE Focus WITH seat <- x1, stack <- x2, layers <- x3, lock <- x4,
                         Window <- {Window1, Window2}, Layer <- {Layer1, Layer2},
                         Output <- {Output1, Output2}, Zoned <- {Layer1}
U == INSTANCE Touch WITH held <- x1, points <- x2, down <- x3, alive <- x4,
                         Aware <- {CHOOSE s \in Surface : TRUE}
T == INSTANCE Timers WITH timers <- x1, calls <- x2
S == INSTANCE Signals WITH lists <- x1, of <- x2, emissions <- x3
P == INSTANCE Processes WITH child <- x1, monitored <- x2, output <- x3, exited <- x4,
                             signal <- x5, bytes <- x6, spurious <- x7, stopped <- x8
M == INSTANCE HashMap WITH table <- x1, held <- x2,
                           Prealloc <- 0
L == INSTANCE Master WITH windows <- x1, tag <- x2, ring <- x3, area <- x4, drag <- x5
O == INSTANCE LuaObjects WITH object <- x1, known <- x2, listed <- x3, state <- x4,
                              missed <- x5,
                              Nothing <- None
R == INSTANCE LuaRefs WITH place <- x1, ref <- x2, stale <- x3, haunted <- x4,
                           Nil <- None
C == INSTANCE Pointer WITH theme <- x1, cursor <- x2, focus <- x3, living <- x4,
                           asked <- x5, lost <- x6,
                           Window <- {Window1}, Shape <- {"text", "wait", "grabbing"},
                           Themed <- {"default", "wait", "grabbing"},
                           Animated <- {"wait"}
B == INSTANCE Bars WITH loaded <- x1, screen <- x2, window <- x3, current <- x4,
                        focused <- x5, bar <- x6,
                        Window <- {Window1, Window2}, Screen <- {Output1, Output2}, Watched <- {Output1},
                        Tag <- Workspace
X == INSTANCE Satellite WITH lock <- x1, file <- x2, server <- x3, process <- x4
W == INSTANCE Toplevels WITH surface <- x1, managed <- x2, container <- x3,
                             place <- x4, mark <- x5, listed <- x6, entered <- x7,
                             outputs <- x8,
                             Window <- {Window1, Window2, Window3}, X11 <- {Window1},
                             Output <- {Output1, Output2}
V == INSTANCE Resizes WITH state <- x1, shown <- x2, client <- x3, owes <- x4,
                           box <- x5, drag <- x6, sync <- x7, waiting <- x8,
                           Window <- {Window1, Window2}, Floating <- {Window1},
                           Output <- {Output1}, Least <- 2,
                           Width <- WidthOf
Z == INSTANCE Bsp WITH tree <- x1, root <- x2, last <- x3, geo <- x4, mode <- x5,
                       scheduled <- x6, neglected <- x7,
                       Container <- {Window1, Window2}, Internal <- {Layer1, Layer2},
                       NULL <- None, Width <- 16, Height <- 9, Factors <- {1, 5, 15},
                       FirstModes <- {"tiled"}
G == INSTANCE Vector WITH cells <- x1, count <- x2, held <- x3, failed <- x4,
                          Value <- {0, 3, 5}, Span <- 4, MaxHeld <- 17
D == INSTANCE Devices WITH plugged <- x1, target <- x2, caps <- x3, untold <- x4,
                           outputs <- x5, place <- x6, pending <- x7, adrift <- x8,
                           Keyboard <- {Window1}, Pointer <- {Window2}, Touch <- {Window3},
                           Tablet <- {Layer1}, Other <- {}, Libinput <- {Window1, Window2, Window3},
                           Named <- [d \in {Window2} |-> Output1],
                           Output <- {Output1, Output2, Layer2}, Builtin <- {Output2, Layer2},
                           Place <- {[x |-> 0, y |-> 1], [x |-> 1, y |-> 0], [x |-> 1, y |-> 1]}
I == INSTANCE TextInputs WITH method <- x1, inputs <- x2, entered <- x3, enabled <- x4,
                              focus <- x5, focused <- x6, aside <- x7, extras <- x8,
                              TextInput <- Slot, Owner <- OwnerOf
E == INSTANCE Idle WITH place <- x1, inhibitors <- x2, inhibited <- x3, waits <- x4,
                        asked <- x5, quiet <- x6, running <- x7,
                        Window <- {Window1, Window2}, Layer <- {Layer1}
Q == INSTANCE Ipc WITH server <- x1, conn <- x2, up <- x3, down <- x4, ctl <- x5,
                       busy <- x6, left <- x7, astray <- x8,
                       Ctl <- {Layer1, Layer2}, Chunk <- ChunkOf, MaxQueue <- 2, Nobody <- None

Init ==
    \/ part = "keys" /\ K!KeysInit /\ Unused5
    \/ part = "focus" /\ F!FocusInit /\ Unused5
    \/ part = "touch" /\ U!TouchInit /\ Unused5
    \/ part = "timers" /\ T!TimersInit /\ Unused3
    \/ part = "signals" /\ S!SignalsInit /\ Unused4
    \/ part = "processes" /\ P!ProcessesInit
    \/ part = "map" /\ M!MapInit /\ Unused3
    \/ part = "master" /\ L!MasterInit /\ Unused6
    \/ part = "objects" /\ O!ObjectsInit /\ Unused6
    \/ part = "refs" /\ R!RefsInit /\ Unused5
    \/ part = "pointer" /\ C!PointerInit /\ Unused7
    \/ part = "bars" /\ B!BarsInit /\ Unused7
    \/ part = "satellite" /\ X!SatelliteInit /\ Unused5
    \/ part = "toplevels" /\ W!ToplevelsInit
    \/ part = "resizes" /\ V!ResizeInit
    \/ part = "factors" /\ Z!Init /\ Unused8
    \/ part = "vector" /\ G!VectorInit /\ Unused5
    \/ part = "devices" /\ D!DevicesInit
    \/ part = "texts" /\ I!TextInit
    \/ part = "idle" /\ E!IdleInit /\ Unused8
    \/ part = "ipc" /\ Q!IpcInit

Keys == part = "keys" /\ K!KeysNext /\ UNCHANGED <<part, x5, x6, x7, x8>>
Focus == part = "focus" /\ F!FocusNext /\ UNCHANGED <<part, x5, x6, x7, x8>>
Touch == part = "touch" /\ U!TouchNext /\ UNCHANGED <<part, x5, x6, x7, x8>>
Timers == part = "timers" /\ T!TimersNext /\ UNCHANGED <<part, x3, x4, x5, x6, x7, x8>>
Signals == part = "signals" /\ S!SignalsNext /\ UNCHANGED <<part, x4, x5, x6, x7, x8>>
Processes == part = "processes" /\ P!ProcessesNext /\ UNCHANGED part
Map == part = "map" /\ M!MapNext /\ UNCHANGED <<part, x3, x4, x5, x6, x7, x8>>
Master == part = "master" /\ L!MasterNext /\ UNCHANGED <<part, x6, x7, x8>>
Objects == part = "objects" /\ O!ObjectsNext /\ UNCHANGED <<part, x6, x7, x8>>
Refs == part = "refs" /\ R!RefsNext /\ UNCHANGED <<part, x5, x6, x7, x8>>
Pointer == part = "pointer" /\ C!PointerNext /\ UNCHANGED <<part, x7, x8>>
Bars == part = "bars" /\ B!BarsNext /\ UNCHANGED <<part, x7, x8>>
Satellite == part = "satellite" /\ X!SatelliteNext /\ UNCHANGED <<part, x5, x6, x7, x8>>
Toplevels == part = "toplevels" /\ W!ToplevelsNext /\ UNCHANGED part
Resize == part = "resizes" /\ V!ResizeNext /\ UNCHANGED part
Tree == part = "factors" /\ Z!Next /\ UNCHANGED <<part, x8>>
Vector == part = "vector" /\ G!VectorNext /\ UNCHANGED <<part, x5, x6, x7, x8>>
Devices == part = "devices" /\ D!DevicesNext /\ UNCHANGED part
Text == part = "texts" /\ I!TextNext /\ UNCHANGED part
Inhibition == part = "idle" /\ E!IdleNext /\ UNCHANGED <<part, x8>>
Ipc == part = "ipc" /\ Q!IpcNext /\ UNCHANGED part

Next ==
    \/ Keys \/ Focus \/ Touch \/ Timers \/ Signals \/ Processes
    \/ Map \/ Master \/ Objects \/ Refs \/ Pointer \/ Bars
    \/ Satellite \/ Toplevels \/ Resize \/ Tree \/ Vector \/ Devices
    \/ Text \/ Inhibition \/ Ipc

Spec == Init /\ [][Next]_vars

(* The properties of the parts.                                            *)
ClientSeesHeldKeys == part = "keys" => K!ClientSeesHeldKeys
RepeatNeedsAKey == part = "keys" => K!RepeatNeedsAKey
FocusIsGuarded == [][part = "focus" => F!GuardsKeepFocus]_vars
NothingDangles ==
    /\ part = "focus" => F!NothingDangles
    /\ part = "touch" => U!DownOnLiving
    /\ part = "toplevels" => W!WindowsAreListed
    /\ part = "texts" => I!TextFollowsFocus
SeatIsReleased == part = "touch" => U!SeatIsReleased
StartedTimersRun == part = "timers" => T!StartedTimersRun
EmissionIsComplete == part = "signals" => S!EmissionIsComplete
AllIsAccounted ==
    /\ part = "processes" => P!EveryExitIsAccounted
    /\ part = "satellite" => X!SatelliteIsWatched
    /\ part = "resizes" => V!FramesWait
    /\ part = "ipc" => Q!QuestionsAreAnswered
MapAnswers ==
    /\ part = "map" => M!MapAnswers
    /\ part = "vector" => G!VectorAnswers
    /\ part = "devices" => D!DevicesAreKnown
TilesFit ==
    /\ part = "master" => L!TilesFit
    /\ part = "factors" => Z!TilesDoNotOverlap
ObjectsAreKnown == part = "objects" => O!ObjectsAreKnown
CallbacksAreTheirs == part = "refs" => R!CallbacksAreTheirs
ShownIsCurrent ==
    /\ part = "pointer" => C!CursorFollows
    /\ part = "bars" => B!BarsFollow
    /\ part = "resizes" => V!SizesAgree
    /\ part = "idle" => E!InhibitionFollows
PendingIsLast == part = "resizes" => V!PendingIsLast
============================================================================
