---------------------------- MODULE WindowsProofs ----------------------------
(***************************************************************************)
(* What a window owns follows its states, for every number of toplevels,   *)
(* containers and screens.  Each operation on a container is a function of *)
(* its window; what it does to the rectangle behind it, to its leaf and to *)
(* its being minimized is a lemma of its own, from which the steps follow. *)
(* The tabs enter with the drag: it writes to the container of what is     *)
(* dragged, and that container must be there.                              *)
(***************************************************************************)
EXTENDS Windows, ListProofs, TLAPS

(* A window of the right type whose rectangle goes with being fullscreen.  *)
Owned(w) == w \in Windows /\ (w.rect <=> "fullscreen" \in w.bits)

(* What an operation may make of a window that no drag ends on, and one    *)
(* that is neither about being fullscreen.                                 *)
Follows(w, v) == Owned(v) /\ (v.flaw = "leaf" => w.flaw = "leaf")

Keeps(w, v) ==
  /\ v \in Windows /\ v.rect = w.rect
  /\ "fullscreen" \in v.bits <=> "fullscreen" \in w.bits
  /\ v.flaw = "leaf" => w.flaw = "leaf"

WindowsInv == /\ win \in [Container -> Windows]
              /\ \A c \in Container : Owned(win[c])

----------------------------------------------------------------------------
(* Operations on one container                                             *)

Other == Bits \ {"fullscreen"}

LEMMA BlankIsOwned == Owned(Blank) /\ Blank.leaf = "none" /\ Blank.flaw = "none"
BY DEF Owned, Blank, Windows, Bits, Flaws

LEMMA KeepsIsTransitive ==
  ASSUME NEW u, NEW v, NEW w, Keeps(u, v), Keeps(v, w)
  PROVE  Keeps(u, w)
BY DEF Keeps

LEMMA KeepsFollows ==
  ASSUME NEW w, Owned(w), NEW v, Keeps(w, v)
  PROVE  Follows(w, v)
BY DEF Keeps, Follows, Owned

LEMMA SetKeeps ==
  ASSUME NEW w \in Windows, NEW b \in Other
  PROVE  /\ Keeps(w, Set(w, b)) /\ Set(w, b).leaf = w.leaf
         /\ Keeps(w, Clear(w, b)) /\ Clear(w, b).leaf = w.leaf
BY DEF Keeps, Set, Clear, Other, Windows

LEMMA LeafKeeps ==
  ASSUME NEW w \in Windows, NEW l \in {"none", "on", "off"}
  PROVE  Keeps(w, [w EXCEPT !.leaf = l]) /\ [w EXCEPT !.leaf = l].leaf = l
BY DEF Keeps, Windows

LEMMA EnableKeeps ==
  ASSUME NEW w \in Windows
  PROVE  Keeps(w, Enable(w)) /\ Keeps(w, Disable(w)) /\ Keeps(w, w)
BY LeafKeeps DEF Enable, Disable, Keeps

(* Only a container that has a leaf gets a second one.                     *)
LEMMA InsertKeeps ==
  ASSUME NEW w \in Windows, w.leaf = "none", NEW l, NEW first \in BOOLEAN
  PROVE  Keeps(w, Insert(w, l, first))
<1> DEFINE new == Clear(w, "floating")
           on  == IF first \/ IsTiled(new, l) THEN "on" ELSE "off"
<1>1. Keeps(w, new)
  BY SetKeeps DEF Other, Bits
<1>2. Insert(w, l, first) = [new EXCEPT !.leaf = on, !.flaw = new.flaw]
  BY DEF Insert
<1>3. on \in {"none", "on", "off"}
  OBVIOUS
<1> HIDE DEF new, on
<1> QED
  BY <1>1, <1>2, <1>3 DEF Keeps, Windows

LEMMA MovedKeeps ==
  ASSUME NEW c, NEW w \in Windows, NEW o
  PROVE  Keeps(w, Moved(c, w, o))
<1> DEFINE bare == [w EXCEPT !.leaf = "none"]
<1>1. Keeps(w, bare) /\ bare.leaf = "none"
  BY LeafKeeps
<1> HIDE DEF bare
<1>2. FirstOn(o, c) \in BOOLEAN
  BY DEF FirstOn
<1>3. Keeps(w, Insert(bare, "bsp", FirstOn(o, c)))
  BY <1>1, <1>2, InsertKeeps, KeepsIsTransitive DEF Keeps
<1> QED
  BY <1>1, <1>3, EnableKeeps DEF Moved, bare

LEMMA MaximizeKeeps ==
  ASSUME NEW w \in Windows
  PROVE  Keeps(w, Maximize(w))
BY SetKeeps, EnableKeeps, KeepsIsTransitive DEF Maximize, Keeps, Other, Bits

LEMMA UnmaximizeKeeps ==
  ASSUME NEW c, NEW w \in Windows, NEW o
  PROVE  Keeps(w, Unmaximize(c, w, o))
<1>1. Keeps(w, Clear(w, "maximized"))
  BY SetKeeps DEF Other, Bits
<1> QED
  BY <1>1, MovedKeeps, EnableKeeps, KeepsIsTransitive DEF Unmaximize, Keeps

LEMMA FloatingKeeps ==
  ASSUME NEW c, NEW w \in Windows, NEW set, NEW o
  PROVE  Keeps(w, Floating(c, w, set, o))
<1> DEFINE first == FirstOn(at[c], c)
<1>1. Keeps(w, w) /\ Keeps(w, Clear(w, "floating"))
  BY EnableKeeps, SetKeeps DEF Other, Bits
<1>2. Keeps(w, Disable(Set(Moved(c, w, o), "floating")))
  BY MovedKeeps, SetKeeps, EnableKeeps, KeepsIsTransitive DEF Keeps, Other, Bits
<1>3. Keeps(w, Enable(Clear(w, "floating")))
  BY <1>1, EnableKeeps, KeepsIsTransitive DEF Keeps
<1>4. first \in BOOLEAN
  BY DEF FirstOn
<1>5. w.leaf = "none" => Keeps(w, Insert(w, LayoutOf(c), first))
  BY <1>4, InsertKeeps
<1> QED
  BY <1>1, <1>2, <1>3, <1>5 DEF Floating

LEMMA MinimizedKeeps ==
  ASSUME NEW w \in Windows, NEW set, NEW linked
  PROVE  Keeps(w, Minimized(w, set, linked))
<1> DEFINE new == Disable(Set(w, "minimized"))
           flaw == IF linked THEN "link" ELSE new.flaw
<1>1. Keeps(w, new)
  BY SetKeeps, EnableKeeps, KeepsIsTransitive DEF Keeps, Other, Bits
<1>2. Keeps(w, Enable(Clear(w, "minimized")))
  BY SetKeeps, EnableKeeps, KeepsIsTransitive DEF Keeps, Other, Bits
<1>3. Keeps(w, [new EXCEPT !.flaw = flaw])
  <2>1. flaw \in Flaws /\ (flaw = "leaf" => new.flaw = "leaf")
    BY <1>1 DEF Keeps, Windows, Flaws
  <2> HIDE DEF new, flaw
  <2> QED
    BY <1>1, <2>1 DEF Keeps, Windows
<1> QED
  BY <1>2, <1>3 DEF Minimized

LEMMA PlacedKeeps ==
  ASSUME NEW c, NEW w \in Windows, NEW o
  PROVE  Keeps(w, Placed(c, w, o))
<1>1. FirstOn(o, c) \in BOOLEAN
  BY DEF FirstOn
<1> QED
  BY <1>1, InsertKeeps, EnableKeeps DEF Placed

(* The rectangle is made with the state and goes with it.                  *)
LEMMA EnterFollows ==
  ASSUME NEW w, Owned(w)
  PROVE  Follows(w, EnterFullscreen(w)) /\ EnterFullscreen(w).leaf = Disable(w).leaf
<1> DEFINE new == Disable(Set(w, "fullscreen"))
<1>1. /\ new \in Windows /\ new.leaf = Disable(w).leaf
      /\ new.bits = w.bits \cup {"fullscreen"} /\ new.flaw = w.flaw
  BY DEF Disable, Set, Owned, Windows, Bits
<1>2. EnterFullscreen(w) = [new EXCEPT !.rect = TRUE,
                                       !.flaw = IF w.rect THEN "rectangle" ELSE w.flaw]
  BY <1>1 DEF EnterFullscreen
<1>3. (IF w.rect THEN "rectangle" ELSE w.flaw) \in Flaws \cap {w.flaw, "rectangle"}
  BY DEF Owned, Windows, Flaws
<1> DEFINE flaw == IF w.rect THEN "rectangle" ELSE w.flaw
<1> HIDE DEF new, flaw
<1> QED
  BY <1>1, <1>2, <1>3 DEF Follows, Owned, Windows, flaw

LEMMA LeaveFollows ==
  ASSUME NEW c, NEW w, Owned(w), NEW o
  PROVE  Follows(w, LeaveFullscreen(c, w, o))
<1> DEFINE off == Clear(w, "fullscreen")
           new == IF IsFloating(w, LayoutOf(c)) THEN Moved(c, off, o) ELSE Enable(off)
           bare == [new EXCEPT !.rect = FALSE]
<1>1. off \in Windows /\ "fullscreen" \notin off.bits /\ off.flaw = w.flaw
  BY DEF Clear, Owned, Windows
<1> HIDE DEF off
<1>2. Keeps(off, new)
  BY <1>1, MovedKeeps, EnableKeeps
<1> HIDE DEF new
<1>3. Follows(w, bare)
  BY <1>1, <1>2 DEF Keeps, Follows, Owned, Windows
<1> HIDE DEF bare
<1>4. Follows(w, Maximize(bare))
  BY <1>3, MaximizeKeeps, KeepsFollows DEF Follows, Owned
<1> QED
  BY <1>3, <1>4 DEF LeaveFullscreen, bare, new, off

LEMMA FullscreenFollows ==
  ASSUME NEW c, NEW w, Owned(w), NEW set, NEW o
  PROVE  Follows(w, Fullscreen(c, w, set, o)) /\ Follows(w, Maximized(c, w, set, o))
<1>1. w \in Windows
  BY DEF Owned
<1>2. Follows(w, Maximize(LeaveFullscreen(c, w, o)))
  BY LeaveFollows, MaximizeKeeps, KeepsFollows DEF Follows, Owned
<1>3. Follows(w, Maximize(w)) /\ Follows(w, Unmaximize(c, w, o))
  BY <1>1, MaximizeKeeps, UnmaximizeKeeps, KeepsFollows
<1> QED
  BY <1>2, <1>3, EnterFollows, LeaveFollows DEF Fullscreen, Maximized

(* The window of a toplevel that is mapped.                                *)
LEMMA NewWindowFollows ==
  ASSUME NEW wants \in Wishes
  PROVE  Follows(Blank, NewWindow(wants))
<1> DEFINE w == [Blank EXCEPT !.bits = InitialBits(wants)]
<1>1. InitialBits(wants) \subseteq Bits
      /\ ("fullscreen" \in InitialBits(wants) => "fullscreen" \in wants)
  BY DEF InitialBits, Bits
<1>2. w \in Windows /\ w.flaw = "none" /\ w.bits = InitialBits(wants) /\ ~w.rect
  BY <1>1 DEF Blank, Windows, Flaws
<1> HIDE DEF w
<1>3. CASE "fullscreen" \in wants
  <2> DEFINE new == Disable(Set(w, "fullscreen"))
  <2>1. Set(w, "fullscreen") \in Windows /\ Set(w, "fullscreen").flaw = "none"
        /\ "fullscreen" \in Set(w, "fullscreen").bits
    BY <1>2 DEF Set, Windows, Bits
  <2>2. Keeps(Set(w, "fullscreen"), new)
    BY <2>1, EnableKeeps
  <2> HIDE DEF new
  <2>3. EnterFullscreen(w) = [new EXCEPT !.rect = TRUE, !.flaw = new.flaw]
    BY <1>2 DEF EnterFullscreen, new
  <2>4. Follows(Blank, EnterFullscreen(w))
    BY <2>1, <2>2, <2>3 DEF Keeps, Follows, Owned, Windows
  <2> QED
    BY <1>3, <2>4 DEF NewWindow, w
<1>4. CASE "fullscreen" \notin wants
  <2>1. Owned(w) /\ w \in Windows
    BY <1>1, <1>2, <1>4 DEF Owned
  <2>2. \A v : Follows(w, v) => Follows(Blank, v)
    BY <1>2 DEF Follows
  <2>3. /\ Follows(w, Maximize(w)) /\ Follows(w, Minimized(w, TRUE, FALSE))
        /\ Follows(w, Set(w, "floating")) /\ Follows(w, w)
    <3>1. Keeps(w, Maximize(w)) /\ Keeps(w, w)
      BY <2>1, MaximizeKeeps, EnableKeeps
    <3>2. Keeps(w, Minimized(w, TRUE, FALSE))
      BY <2>1, MinimizedKeeps
    <3>3. Keeps(w, Set(w, "floating"))
      BY <2>1, SetKeeps DEF Other, Bits
    <3> QED
      BY <2>1, <3>1, <3>2, <3>3, KeepsFollows
  <2>4. NewWindow(wants) \in {Maximize(w), Minimized(w, TRUE, FALSE),
                              Set(w, "floating"), w}
    BY <1>4 DEF NewWindow, w
  <2> QED
    BY <2>2, <2>3, <2>4
<1> QED
  BY <1>3, <1>4

(* A drag that ends may give a second leaf, in a bsp layout alone.         *)
LEMMA DroppedIsOwned ==
  ASSUME NEW c, NEW w, w = [Dropped(c) EXCEPT !.bits = @ \ {"moving", "resizing"}],
         Owned(win[c])
  PROVE  /\ Owned(w)
         /\ w.flaw = "leaf" => win[c].flaw = "leaf" \/ cursor.state = "move_bsp"
<1> DEFINE v == win[c]
           new == Clear(v, "floating")
           on  == IF FirstOn(at[c], c) \/ IsTiled(new, LayoutOf(c)) THEN "on" ELSE "off"
           flaw == IF v.leaf = "none" THEN v.flaw ELSE "leaf"
<1>1. new \in Windows /\ Owned(new) /\ new.flaw = v.flaw
  BY DEF Owned, Clear, Windows
<1>2. CASE cursor.state = "move_bsp"
  <2>1. Dropped(c) = [new EXCEPT !.leaf = on, !.flaw = flaw]
    BY <1>1, <1>2 DEF Dropped, Insert
  <2>2. on \in {"none", "on", "off"} /\ flaw \in Flaws
    BY DEF Owned, Windows, Flaws
  <2> HIDE DEF new, on, flaw
  <2>3. w \in Windows /\ w.rect = new.rect
        /\ w.bits = new.bits \ {"moving", "resizing"}
    BY <1>1, <2>1, <2>2 DEF Windows
  <2> QED
    BY <1>1, <1>2, <2>3 DEF Owned
<1>3. CASE cursor.state # "move_bsp"
  <2>1. Dropped(c) \in {new, v}
    BY <1>3 DEF Dropped
  <2>2. Dropped(c) \in Windows /\ Owned(Dropped(c)) /\ Dropped(c).flaw = v.flaw
    <3> HIDE DEF new
    <3> QED
      BY <1>1, <2>1 DEF Owned
  <2>3. w \in Windows /\ w.rect = Dropped(c).rect /\ w.flaw = Dropped(c).flaw
        /\ w.bits = Dropped(c).bits \ {"moving", "resizing"}
    BY <2>2 DEF Windows
  <2> QED
    BY <2>2, <2>3 DEF Owned
<1> QED
  BY <1>2, <1>3

----------------------------------------------------------------------------
(* Steps                                                                   *)

(* What a step is allowed to do with second leaves (LeavesAreSingle).      *)
Single ==
  \A c \in Container :
    win'[c].flaw = "leaf" /\ win[c].flaw # "leaf" =>
      cursor.state = "move_bsp" /\ cursor'.state = "normal"

Sound == WindowsInv' /\ Single

LEMMA OneWindowChanges ==
  ASSUME WindowsInv, NEW c, NEW v, win' = [win EXCEPT ![c] = v],
         c \in Container => Follows(win[c], v)
  PROVE  Sound
BY DEF WindowsInv, Sound, Single, Follows, Owned

LEMMA NoWindowChanges ==
  ASSUME WindowsInv, win' = win
  PROVE  Sound
BY DEF WindowsInv, Sound, Single

(* The drag that ends, and the container of its toplevel that may go.      *)
LEMMA StoppedIsSound ==
  ASSUME WindowsInv, NEW c,
         win' = Stopped \/ win' = [Stopped EXCEPT ![c] = Blank], cursor' = StoppedCursor
  PROVE  Sound
<1> DEFINE d == Holder(cursor.grabbed)
           w == [Dropped(d) EXCEPT !.bits = @ \ {"moving", "resizing"}]
<1>1. d \in Container => Owned(w)
        /\ (w.flaw = "leaf" => win[d].flaw = "leaf" \/ cursor.state = "move_bsp")
  <2>1. w = [Dropped(d) EXCEPT !.bits = @ \ {"moving", "resizing"}]
    OBVIOUS
  <2> HIDE DEF d, w
  <2> QED
    BY <2>1, DroppedIsOwned DEF WindowsInv
<1>2. Stopped = IF cursor.state = "normal" THEN win ELSE [win EXCEPT ![d] = w]
  BY DEF Stopped
<1>3. cursor'.state = "normal"
  BY DEF StoppedCursor
<1> HIDE DEF d, w
<1>4. /\ Stopped \in [Container -> Windows]
      /\ \A e \in Container :
            /\ Owned(Stopped[e])
            /\ Stopped[e].flaw = "leaf" =>
                 win[e].flaw = "leaf" \/ cursor.state = "move_bsp"
  BY <1>1, <1>2 DEF WindowsInv, Owned
<1> QED
  BY <1>3, <1>4, BlankIsOwned DEF WindowsInv, Sound, Single, Owned

LEMMA LeaveIsSound ==
  ASSUME WindowsInv, NEW c, NEW rest, Leave(c, win, rest)
  PROVE  Sound
<1>1. CASE rest = <<>>
  <2>1. win' = [win EXCEPT ![c] = Blank]
    BY <1>1 DEF Leave
  <2>2. Follows(win[c], Blank)
    BY BlankIsOwned DEF Follows
  <2> QED
    BY <2>1, <2>2, OneWindowChanges
<1>2. CASE rest # <<>>
  BY <1>2, NoWindowChanges DEF Leave
<1> QED
  BY <1>1, <1>2

LEMMA BecomesIsSound ==
  ASSUME WindowsInv, NEW c, NEW w, NEW o, Becomes(c, w, o),
         c \in Container => Follows(win[c], w)
  PROVE  Sound
BY OneWindowChanges DEF Becomes

LEMMA MapIsSound ==
  ASSUME WindowsInv, NEW t, SurfaceMap(t)
  PROVE  Sound
<1>1. CASE MapIntoMarked(t)
  <2>1. win' = [win EXCEPT ![marked] = Placed(marked, win[marked], at[marked])]
    BY <1>1 DEF MapIntoMarked
  <2>2. marked \in Container =>
          Follows(win[marked], Placed(marked, win[marked], at[marked]))
    BY PlacedKeeps, KeepsFollows DEF WindowsInv
  <2> QED
    BY <2>1, <2>2, OneWindowChanges
<1>2. ASSUME NEW c \in Container, NEW wants \in Wishes, NEW o \in Screen,
             MapAlone(t, c, wants, o)
      PROVE  Sound
  <2> DEFINE v == Placed(c, NewWindow(wants), o)
  <2>1. win' = [win EXCEPT ![c] = v]
    BY <1>2 DEF MapAlone
  <2>2. Follows(Blank, NewWindow(wants))
    BY NewWindowFollows
  <2>3. Keeps(NewWindow(wants), v)
    BY <2>2, PlacedKeeps DEF Follows, Owned
  <2>4. Follows(win[c], v)
    BY <2>2, <2>3, BlankIsOwned, KeepsFollows DEF Follows, Keeps, Owned
  <2> QED
    BY <2>1, <2>4, OneWindowChanges
<1> QED
  BY <1>1, <1>2 DEF SurfaceMap

LEMMA UnmapIsSound ==
  ASSUME WindowsInv, NEW t, Unmap(t)
  PROVE  Sound
<1> DEFINE c == Holder(t)
           rest == Without(t, c).tabs
<1>1. CASE cursor.grabbed = t
  <2>1. Leave(c, Stopped, rest) /\ cursor' = StoppedCursor
    BY <1>1 DEF Unmap
  <2>2. win' = Stopped \/ win' = [Stopped EXCEPT ![c] = Blank]
    BY <2>1 DEF Leave
  <2> QED
    BY <2>1, <2>2, StoppedIsSound
<1>2. CASE cursor.grabbed # t
  <2>1. Leave(c, win, rest)
    BY <1>2 DEF Unmap
  <2> QED
    BY <2>1, LeaveIsSound
<1> QED
  BY <1>1, <1>2

LEMMA RequestIsSound ==
  ASSUME WindowsInv, NEW c, NEW set, NEW o,
         \/ SetFullscreen(c, set, o) \/ SetMaximized(c, set, o)
         \/ SetFloating(c, set, o) \/ SetMinimized(c, set) \/ CrossOutput(c, o)
  PROVE  Sound
<1>1. CASE SetFullscreen(c, set, o)
  BY <1>1, FullscreenFollows, BecomesIsSound DEF SetFullscreen, WindowsInv
<1>2. CASE SetMaximized(c, set, o)
  BY <1>2, FullscreenFollows, BecomesIsSound DEF SetMaximized, WindowsInv
<1>3. CASE SetFloating(c, set, o)
  BY <1>3, FloatingKeeps, KeepsFollows, BecomesIsSound DEF SetFloating, WindowsInv
<1>4. CASE SetMinimized(c, set)
  BY <1>4, MinimizedKeeps, KeepsFollows, BecomesIsSound DEF SetMinimized, WindowsInv
<1>5. CASE CrossOutput(c, o)
  BY <1>5, MovedKeeps, KeepsFollows, BecomesIsSound DEF CrossOutput, WindowsInv
<1> QED
  BY <1>1, <1>2, <1>3, <1>4, <1>5

LEMMA DelayedIsSound ==
  ASSUME WindowsInv, NEW c \in Container, DelayedMaxFull(c)
  PROVE  Sound
<1> DEFINE w == win[c]
           v == IF "fullscreen" \in w.bits THEN EnterFullscreen(w)
                ELSE IF "maximized" \in w.bits THEN Maximize(w) ELSE w
<1>1. Owned(w)
  BY DEF WindowsInv
<1>2. win' = [win EXCEPT ![c] = v]
  BY DEF DelayedMaxFull
<1>3. Follows(w, v)
  BY <1>1, EnterFollows, MaximizeKeeps, KeepsFollows DEF Follows, Owned
<1> QED
  BY <1>2, <1>3, OneWindowChanges

LEMMA LayoutIsSound ==
  ASSUME WindowsInv, NEW o, NEW mode, SetLayout(o, mode)
  PROVE  Sound
<1>1. ASSUME NEW c \in Container
      PROVE  Follows(win[c], win'[c])
  <2>1. Owned(win[c])
    BY DEF WindowsInv
  <2>2. win[c].leaf = "none" => Follows(win[c], Insert(win[c], "bsp", FALSE))
    BY <2>1, InsertKeeps, KeepsFollows DEF Owned
  <2>3. Follows(win[c], win[c])
    BY <2>1 DEF Follows
  <2> QED
    BY <2>2, <2>3 DEF SetLayout, InsertTiled
<1> QED
  BY <1>1 DEF SetLayout, WindowsInv, Sound, Single, Follows, Owned

LEMMA JumpIsSound ==
  ASSUME WindowsInv, NEW t, JumpTo(t)
  PROVE  Sound
<1> DEFINE c == Holder(t)
           w == win[c]
           v == IF "minimized" \in w.bits
                THEN Minimized(w, FALSE, c \in minimized) ELSE w
<1>1. win' = [win EXCEPT ![c] = v]
  BY DEF JumpTo
<1>2. c \in Container => Follows(w, v)
  BY MinimizedKeeps, KeepsFollows DEF WindowsInv, Follows, Owned
<1> HIDE DEF c, v
<1> QED
  BY <1>1, <1>2, OneWindowChanges

LEMMA StartIsSound ==
  ASSUME WindowsInv, NEW t, StartMove(t) \/ StartResize(t)
  PROVE  Sound
<1> DEFINE c == Holder(t)
           w == Set(win[c], "moving")
<1>1. CASE StartMove(t)
  <2> DEFINE v == IF ~IsFloating(w, LayoutOf(c)) /\ LayoutOf(c) = "bsp"
                  THEN [w EXCEPT !.leaf = "none"] ELSE w
  <2>1. win' = [win EXCEPT ![c] = v]
    BY <1>1 DEF StartMove
  <2>2. c \in Container => Keeps(win[c], w)
    BY SetKeeps DEF WindowsInv, Other, Bits
  <2>3. c \in Container => Keeps(win[c], [w EXCEPT !.leaf = "none"])
    BY <2>2, LeafKeeps, KeepsIsTransitive DEF Keeps
  <2>4. c \in Container => Follows(win[c], v)
    BY <2>2, <2>3, KeepsFollows DEF WindowsInv
  <2> HIDE DEF c, v
  <2> QED
    BY <2>1, <2>4, OneWindowChanges
<1>2. CASE StartResize(t)
  <2>1. win' = [win EXCEPT ![c] = Set(win[c], "resizing")]
    BY <1>2 DEF StartResize
  <2>2. c \in Container => Follows(win[c], Set(win[c], "resizing"))
    BY SetKeeps, KeepsFollows DEF WindowsInv, Other, Bits
  <2> HIDE DEF c
  <2> QED
    BY <2>1, <2>2, OneWindowChanges
<1> QED
  BY <1>1, <1>2

LEMMA WindowsStep == ASSUME WindowsInv, Next PROVE Sound
<1>1. ASSUME NEW t \in Client,
             ClientRequest(t) \/ ForeignRequest(t) \/ SetClientProperty(t)
      PROVE  Sound
  BY <1>1, RequestIsSound DEF ClientRequest, ForeignRequest, SetClientProperty
<1>2. ASSUME NEW o \in Screen, Drag(o) \/ \E t \in Client : MoveToScreen(t, o)
      PROVE  Sound
  BY <1>2, RequestIsSound DEF Drag, MoveToScreen
<1>3. ASSUME NEW t \in Client, NEW c \in Container, InsertClient(c, t)
      PROVE  Sound
  BY <1>3, LeaveIsSound DEF InsertClient
<1>4. CASE ButtonRelease
  BY <1>4, StoppedIsSound DEF ButtonRelease
<1>5. ASSUME NEW t \in Client, NEW u \in Client, Refresh(t) \/ SwapClients(t, u)
      PROVE  Sound
  BY <1>5, NoWindowChanges DEF Refresh, SwapClients, OnlyTabs
<1>6. ASSUME NEW c, NEW d, NEW forward,
             FocusIdx(c, forward) \/ SwapContainers(c, d) \/ Mark(c)
      PROVE  Sound
  BY <1>6, NoWindowChanges DEF FocusIdx, SwapContainers, Mark, OnlyTabs
<1> QED
  BY <1>1, <1>2, <1>3, <1>4, <1>5, <1>6, MapIsSound, UnmapIsSound, DelayedIsSound,
     LayoutIsSound, JumpIsSound, StartIsSound DEF Next

LEMMA InitIsSound == Init => WindowsInv
BY BlankIsOwned DEF Init, WindowsInv, Owned

(* A window that is fullscreen has its black rectangle and no other has,   *)
(* in whatever order clients, taskbars and Lua ask for its states and      *)
(* delayed calls restore them (cwc_container_set_fullscreen).              *)
THEOREM BackdropStaysOwned == Spec => []BackdropIsOwned
<1>1. WindowsInv /\ UNCHANGED vars => WindowsInv'
  BY DEF WindowsInv, vars
<1>2. WindowsInv /\ [Next]_vars => WindowsInv'
  BY <1>1, WindowsStep DEF Sound
<1>3. WindowsInv => BackdropIsOwned
  BY DEF WindowsInv, Owned, BackdropIsOwned, Live
<1> QED
  BY <1>2, <1>3, InitIsSound, PTL DEF Spec

(* No request and no change of layout or output puts a window in the tree  *)
(* a second time; only the end of a drag in a bsp layout may               *)
(* (bsp_insert_container and its callers).                                 *)
THEOREM LeavesStaySingle == Spec => LeavesAreSingle
<1>1. WindowsInv /\ UNCHANGED vars => WindowsInv'
  BY DEF WindowsInv, vars
<1>2. WindowsInv /\ [Next]_vars => WindowsInv' /\ Single
  <2>1. UNCHANGED vars => Single
    BY DEF Single, vars
  <2> QED
    BY <1>1, <2>1, WindowsStep DEF Sound
<1>3. Single => [\A c \in Container :
                  win'[c].flaw = "leaf" /\ win[c].flaw # "leaf" =>
                    cursor.state = "move_bsp" /\ cursor'.state = "normal"]_vars
  BY DEF Single
<1> QED
  BY <1>2, <1>3, InitIsSound, PTL DEF Spec, LeavesAreSingle

----------------------------------------------------------------------------
(* Places in the tree                                                      *)

(* Where the containers are; of the tabs only which containers there are.  *)
PlacesInv ==
  /\ tabs = [c \in Container |-> tabs[c]]
  /\ at \in [Container -> Screen \cup {NULL}]
  /\ layout \in [Screen -> Modes]
  /\ \A c \in Live : at[c] \in Screen

(* A window w in need of a leaf under the layout l.                        *)
Needs(w, l) ==
  l = "bsp" /\ w.bits \cap {"floating", "moving"} = {} /\ w.leaf = "none"

(* The exceptions of TilesKeepTheirPlace.                                  *)
Excused(c) ==
  \/ layout # layout' /\ "minimized" \in win[c].bits
  \/ cursor.state \notin {"normal", "move_bsp"} /\ cursor'.state = "normal"
  \/ at[c] # at'[c] /\ LayoutOf(c) = "floating"

Placing == \A c \in Container : Leafless(c)' /\ ~Leafless(c) => Excused(c)

(* Where the windows are, and what has become of them, is all that counts. *)
LEMMA PlacingIs ==
  ASSUME PlacesInv, PlacesInv',
         \A c \in Live' : Needs(win'[c], layout'[at'[c]]) =>
                           \/ c \in Live /\ Needs(win[c], layout[at[c]])
                           \/ Excused(c)
  PROVE  Placing
BY DEF Placing, Leafless, Needs, LayoutOf

LEMMA HolderIsLive ==
  ASSUME NEW t \in Mapped
  PROVE  Holder(t) \in Live /\ Holder(t) \in Container
<1>1. \E c \in Live : t \in ToSet(tabs[c])
  BY DEF Mapped
<1> QED
  BY <1>1 DEF Holder, Live

(* Operations that do not look for a leaf do not take one either.          *)
LEMMA StatesKeepNeeds ==
  ASSUME NEW w \in Windows, NEW l, NEW set, NEW linked
  PROVE  /\ Needs(Maximize(w), l) => Needs(w, l)
         /\ Needs(EnterFullscreen(w), l) => Needs(w, l)
         /\ Needs(Minimized(w, set, linked), l) => Needs(w, l)
         /\ Needs(Set(w, "resizing"), l) => Needs(w, l)
         /\ Needs(Enable(w), l) => Needs(w, l)
<1>1. Needs(Maximize(w), l) => Needs(w, l)
  BY DEF Maximize, Disable, Set, Windows, Needs
<1>2. Needs(EnterFullscreen(w), l) => Needs(w, l)
  BY DEF EnterFullscreen, Disable, Set, Windows, Needs
<1>3. Needs(Minimized(w, set, linked), l) => Needs(w, l)
  BY DEF Minimized, Enable, Disable, Set, Clear, Windows, Needs
<1>4. Needs(Set(w, "resizing"), l) => Needs(w, l)
  BY DEF Set, Windows, Needs
<1>5. Needs(Enable(w), l) => Needs(w, l)
  BY DEF Enable, Windows, Needs
<1> QED
  BY <1>1, <1>2, <1>3, <1>4, <1>5

LEMMA InsertNeedsNone ==
  ASSUME NEW w \in Windows, NEW k, NEW l, NEW first
  PROVE  ~Needs(Insert(w, k, first), l)
<1> DEFINE new == Clear(w, "floating")
<1>1. new \in Windows
  BY DEF Clear, Windows
<1> HIDE DEF new
<1>2. Insert(w, k, first).leaf \in {"on", "off"}
  BY <1>1 DEF Insert, Windows, new
<1> QED
  BY <1>2 DEF Needs

(* A window that changes screens gets a leaf there, or came from a screen  *)
(* with a floating layout.                                                 *)
LEMMA MovedNeeds ==
  ASSUME NEW c, NEW w \in Windows, NEW o, Needs(Moved(c, w, o), layout[o])
  PROVE  \/ o = at[c] /\ Needs(w, layout[o])
         \/ o # at[c] /\ LayoutOf(c) = "floating"
<1> DEFINE bare == [w EXCEPT !.leaf = "none"]
<1>1. bare \in Windows /\ bare.bits = w.bits
  BY DEF Windows
<1> HIDE DEF bare
<1>2. CASE o # at[c]
  <2>1. Moved(c, w, o) = bare
    BY <1>1, <1>2, InsertNeedsNone DEF Moved, bare
  <2>2. ~(layout[o] = "bsp" /\ ~IsFloating(w, LayoutOf(c)) /\ "moving" \notin w.bits)
    BY <1>1, <1>2, InsertNeedsNone DEF Moved, bare
  <2> QED
    BY <1>1, <1>2, <2>1, <2>2 DEF Needs, IsFloating
<1>3. CASE o = at[c]
  BY <1>3 DEF Moved
<1> QED
  BY <1>2, <1>3

LEMMA FullscreenNeeds ==
  ASSUME NEW c, NEW w, Owned(w), NEW o, NEW set, MayRestore(c, o), w = win[c],
         \/ Needs(LeaveFullscreen(c, w, o), layout[o])
         \/ Needs(Unmaximize(c, w, o), layout[o])
  PROVE  \/ o = at[c] /\ Needs(w, layout[o])
         \/ o # at[c] /\ LayoutOf(c) = "floating"
<1> DEFINE Goal(v) == \/ o = at[c] /\ Needs(v, layout[o])
                      \/ o # at[c] /\ LayoutOf(c) = "floating"
<1>1. ASSUME NEW b \in {"fullscreen", "maximized"},
             Needs(IF IsFloating(w, LayoutOf(c)) THEN Moved(c, Clear(w, b), o)
                   ELSE Enable(Clear(w, b)), layout[o])
      PROVE  Goal(w)
  <2> DEFINE off == Clear(w, b)
  <2>1. off \in Windows /\ off.leaf = w.leaf
        /\ off.bits \cap {"floating", "moving"} = w.bits \cap {"floating", "moving"}
    BY DEF Clear, Owned, Windows
  <2> HIDE DEF off
  <2>2. Goal(off)
    <3>1. CASE IsFloating(w, LayoutOf(c))
      BY <1>1, <2>1, <3>1, MovedNeeds DEF off
    <3>2. CASE ~IsFloating(w, LayoutOf(c))
      <4>1. o = at[c]
        BY <3>2 DEF MayRestore
      <4>2. Needs(Enable(off), layout[o])
        BY <1>1, <3>2 DEF off
      <4> QED
        BY <2>1, <4>1, <4>2, StatesKeepNeeds
    <3> QED
      BY <3>1, <3>2
  <2> QED
    BY <2>1, <2>2 DEF Needs
<1>2. CASE Needs(Unmaximize(c, w, o), layout[o])
  BY <1>1, <1>2 DEF Unmaximize
<1>3. CASE Needs(LeaveFullscreen(c, w, o), layout[o])
  <2> DEFINE new == IF IsFloating(w, LayoutOf(c)) THEN Moved(c, Clear(w, "fullscreen"), o)
                    ELSE Enable(Clear(w, "fullscreen"))
             bare == [new EXCEPT !.rect = FALSE]
  <2>1. new \in Windows
    <3>1. Clear(w, "fullscreen") \in Windows
      BY DEF Clear, Owned, Windows
    <3> QED
      BY <3>1, MovedKeeps, EnableKeeps DEF Keeps
  <2> HIDE DEF new
  <2>2. bare \in Windows /\ (Needs(bare, layout[o]) => Needs(new, layout[o]))
    BY <2>1 DEF Windows, Needs
  <2> HIDE DEF bare
  <2>3. LeaveFullscreen(c, w, o) \in {bare, Maximize(bare)}
    BY DEF LeaveFullscreen, bare, new
  <2>4. Needs(new, layout[o])
    BY <1>3, <2>2, <2>3, StatesKeepNeeds
  <2> QED
    BY <1>1, <2>4 DEF new
<1> QED
  BY <1>2, <1>3

LEMMA BecomesPlaces ==
  ASSUME WindowsInv, PlacesInv, NEW c \in Live, NEW w, NEW o \in Screen,
         Becomes(c, w, o),
         Needs(w, layout[o]) => \/ o = at[c] /\ Needs(win[c], layout[o])
                                \/ o # at[c] /\ LayoutOf(c) = "floating"
  PROVE  PlacesInv' /\ Placing
<1>1. PlacesInv' /\ Live' = Live
  BY DEF Becomes, PlacesInv, Live
<1>2. ASSUME NEW d \in Live', Needs(win'[d], layout'[at'[d]])
      PROVE  \/ d \in Live /\ Needs(win[d], layout[at[d]])
             \/ Excused(d)
  BY <1>1, <1>2 DEF Becomes, WindowsInv, PlacesInv, Live, Excused
<1> QED
  BY <1>1, <1>2, PlacingIs

LEMMA FloatingNeeds ==
  ASSUME NEW c, NEW w \in Windows, NEW o, NEW set,
         o = at[c] \/ (set /\ ConfigureAllowed(w)), o = at[c] \/ set,
         Needs(Floating(c, w, set, o), layout[o])
  PROVE  o = at[c] /\ Needs(w, layout[o])
<1>1. CASE ~ConfigureAllowed(w)
  BY <1>1 DEF Floating
<1>2. CASE ConfigureAllowed(w) /\ set
  <2>1. Floating(c, w, set, o) = Disable(Set(Moved(c, w, o), "floating"))
    BY <1>2 DEF Floating
  <2>2. Moved(c, w, o) \in Windows
    BY MovedKeeps DEF Keeps
  <2>3. "floating" \in Floating(c, w, set, o).bits
    BY <2>1, <2>2 DEF Disable, Set, Windows
  <2> QED
    BY <2>3 DEF Needs
<1>3. CASE ConfigureAllowed(w) /\ ~set
  <2>1. o = at[c]
    BY <1>3
  <2>2. CASE ~IsFloating(w, LayoutOf(c))
    BY <1>3, <2>1, <2>2 DEF Floating
  <2>3. CASE IsFloating(w, LayoutOf(c)) /\ w.leaf # "none"
    <3>1. Floating(c, w, set, o) = Enable(Clear(w, "floating"))
      BY <1>3, <2>3 DEF Floating
    <3>2. Floating(c, w, set, o).leaf = "on"
      BY <2>3, <3>1 DEF Enable, Clear, Windows
    <3> QED
      BY <3>2 DEF Needs
  <2>4. CASE IsFloating(w, LayoutOf(c)) /\ w.leaf = "none"
    <3>1. CASE LayoutOf(c) = "bsp"
      <4>1. Floating(c, w, set, o) = Insert(w, "bsp", FirstOn(at[c], c))
        BY <1>3, <2>4, <3>1 DEF Floating
      <4> QED
        BY <4>1, InsertNeedsNone
    <3>2. CASE LayoutOf(c) # "bsp"
      BY <2>1, <3>2 DEF LayoutOf, Needs
    <3> QED
      BY <3>1, <3>2
  <2> QED
    BY <2>2, <2>3, <2>4
<1> QED
  BY <1>1, <1>2, <1>3

LEMMA RequestPlaces ==
  ASSUME WindowsInv, PlacesInv, NEW c \in Live, NEW set \in BOOLEAN, NEW o \in Screen,
         \/ SetFullscreen(c, set, o) \/ SetMaximized(c, set, o)
         \/ SetFloating(c, set, o) \/ SetMinimized(c, set) \/ CrossOutput(c, o)
  PROVE  PlacesInv' /\ Placing
<1> DEFINE w == win[c]
           Goal(v) == Needs(v, layout[o]) =>
                        \/ o = at[c] /\ Needs(w, layout[o])
                        \/ o # at[c] /\ LayoutOf(c) = "floating"
<1>1. Owned(w) /\ w \in Windows /\ at[c] \in Screen
  BY DEF WindowsInv, PlacesInv, Owned, Live
<1>2. /\ MayRestore(c, o) => Goal(LeaveFullscreen(c, w, o)) /\ Goal(Unmaximize(c, w, o))
      /\ LeaveFullscreen(c, w, o) \in Windows
  BY <1>1, FullscreenNeeds, LeaveFollows DEF Follows, Owned
<1>3. o = at[c] => MayRestore(c, o)
  BY DEF MayRestore
<1>4. CASE SetFullscreen(c, set, o)
  <2>1. Goal(Fullscreen(c, w, set, o))
    <3>1. CASE set
      BY <1>1, <1>4, <3>1, StatesKeepNeeds DEF SetFullscreen, Fullscreen
    <3>2. CASE ~set
      BY <1>2, <1>3, <1>4, <3>2 DEF SetFullscreen, Fullscreen
    <3> QED
      BY <3>1, <3>2
  <2> QED
    BY <1>4, <2>1, BecomesPlaces DEF SetFullscreen
<1>5. CASE SetMaximized(c, set, o)
  <2>1. Goal(Maximized(c, w, set, o))
    <3>1. CASE "fullscreen" \in w.bits
      <4>1. Goal(LeaveFullscreen(c, w, o))
        BY <1>2, <1>3, <1>5 DEF SetMaximized
      <4>2. Needs(Maximize(LeaveFullscreen(c, w, o)), layout[o]) =>
              Needs(LeaveFullscreen(c, w, o), layout[o])
        BY <1>2, StatesKeepNeeds
      <4> QED
        BY <3>1, <4>1, <4>2 DEF Maximized
    <3>2. CASE "fullscreen" \notin w.bits /\ set
      BY <1>1, <1>5, <3>2, StatesKeepNeeds DEF SetMaximized, Maximized
    <3>3. CASE "fullscreen" \notin w.bits /\ ~set
      BY <1>2, <1>3, <1>5, <3>3 DEF SetMaximized, Maximized
    <3> QED
      BY <3>1, <3>2, <3>3
  <2> QED
    BY <1>5, <2>1, BecomesPlaces DEF SetMaximized
<1>6. CASE SetFloating(c, set, o)
  <2>1. Goal(Floating(c, w, set, o))
    BY <1>1, <1>6, FloatingNeeds DEF SetFloating
  <2> QED
    BY <1>6, <2>1, BecomesPlaces DEF SetFloating
<1>7. CASE SetMinimized(c, set)
  <2> DEFINE v == Minimized(w, set, c \in minimized)
  <2>1. Needs(v, layout[at[c]]) => Needs(w, layout[at[c]])
    BY <1>1, StatesKeepNeeds
  <2>2. Becomes(c, v, at[c])
    BY <1>7 DEF SetMinimized
  <2> HIDE DEF v
  <2> QED
    BY <1>1, <2>1, <2>2, BecomesPlaces
<1>8. CASE CrossOutput(c, o)
  <2>1. Goal(Moved(c, w, o))
    BY <1>1, MovedNeeds
  <2> QED
    BY <1>8, <2>1, BecomesPlaces DEF CrossOutput
<1> QED
  BY <1>4, <1>5, <1>6, <1>7, <1>8

(* A tab leaves a container, which may go with it; v are the windows that  *)
(* the end of a drag has left.                                             *)
LEMMA LeavePlaces ==
  ASSUME PlacesInv, NEW c \in Live, NEW v, NEW rest, Leave(c, v, rest),
         tabs' = [d \in Container |-> tabs'[d]], Live' \subseteq Live,
         rest = <<>> => c \notin Live', layout' = layout,
         v = [d \in Container |-> v[d]],
         \A d \in Live : Needs(v[d], layout[at[d]]) =>
                          Needs(win[d], layout[at[d]]) \/ Excused(d)
  PROVE  PlacesInv' /\ Placing
<1>1. \A d \in Live' : at'[d] = at[d] /\ win'[d] = v[d]
  BY DEF Leave, Fini, PlacesInv, Live
<1>2. at' \in [Container -> Screen \cup {NULL}]
  BY DEF Leave, Fini, PlacesInv
<1>3. PlacesInv'
  BY <1>1, <1>2 DEF PlacesInv
<1> QED
  BY <1>1, <1>3, PlacingIs

LEMMA StoppedNeeds ==
  ASSUME WindowsInv, cursor' = StoppedCursor
  PROVE  /\ Stopped = [c \in Container |-> Stopped[c]]
         /\ \A c \in Container : \A l :
              Needs(Stopped[c], l) => \/ Needs(win[c], l)
                                     \/ Excused(c)
<1> DEFINE d == Holder(cursor.grabbed)
           w == [Dropped(d) EXCEPT !.bits = @ \ {"moving", "resizing"}]
<1>1. CASE cursor.state = "normal"
  BY <1>1 DEF Stopped, WindowsInv
<1>2. CASE cursor.state # "normal"
  <2>1. Stopped = [win EXCEPT ![d] = w]
    BY <1>2 DEF Stopped
  <2>2. cursor'.state = "normal"
    BY <1>2 DEF StoppedCursor
  <2>3. ASSUME cursor.state = "move_bsp", d \in Container, NEW l
        PROVE  ~Needs(w, l)
    <3> DEFINE v == Insert(win[d], LayoutOf(d), FirstOn(at[d], d))
    <3>1. win[d] \in Windows
      BY <2>3 DEF WindowsInv
    <3>2. v.leaf \in {"on", "off"}
      <4> DEFINE new == Clear(win[d], "floating")
      <4>1. new \in Windows
        BY <3>1 DEF Clear, Windows
      <4> HIDE DEF new
      <4> QED
        BY <4>1 DEF Insert, Windows, new
    <3>3. Dropped(d) = v
      BY <2>3 DEF Dropped
    <3>4. w.leaf = v.leaf
      <4>1. v \in [DOMAIN v -> {v[x] : x \in DOMAIN v}] /\ "leaf" \in DOMAIN v
        <5> DEFINE new == Clear(win[d], "floating")
        <5>1. new \in Windows
          BY <3>1 DEF Clear, Windows
        <5> HIDE DEF new
        <5> QED
          BY <5>1 DEF Insert, Windows, new
      <4> HIDE DEF v, d
      <4> QED
        BY <3>3, <4>1
    <3> QED
      BY <3>2, <3>4 DEF Needs
  <2> HIDE DEF d, w
  <2>4. Stopped = [c \in Container |-> Stopped[c]]
    BY <2>1 DEF WindowsInv
  <2> QED
    BY <1>2, <2>1, <2>2, <2>3, <2>4 DEF WindowsInv, Excused
<1> QED
  BY <1>1, <1>2

LEMMA UnmapPlaces ==
  ASSUME WindowsInv, PlacesInv, NEW t, Unmap(t)
  PROVE  PlacesInv' /\ Placing
<1> DEFINE c == Holder(t)
           rest == Without(t, c).tabs
<1>1. c \in Live /\ c \in Container
  BY HolderIsLive DEF Unmap
<1>2. tabs' = [tabs EXCEPT ![c] = rest] /\ layout' = layout
  BY DEF Unmap
<1> HIDE DEF c, rest
<1>3. /\ tabs' = [d \in Container |-> tabs'[d]] /\ Live' \subseteq Live
      /\ rest = <<>> => c \notin Live'
  BY <1>1, <1>2 DEF PlacesInv, Live
<1>4. CASE cursor.grabbed = t
  <2>1. Leave(c, Stopped, rest) /\ cursor' = StoppedCursor
    BY <1>4 DEF Unmap, c, rest
  <2>2. \A d \in Live : Needs(Stopped[d], layout[at[d]]) =>
                          Needs(win[d], layout[at[d]]) \/ Excused(d)
    BY <2>1, StoppedNeeds DEF Live
  <2> QED
    BY <1>1, <1>2, <1>3, <2>1, <2>2, StoppedNeeds, LeavePlaces
<1>5. CASE cursor.grabbed # t
  <2>1. Leave(c, win, rest)
    BY <1>5 DEF Unmap, c, rest
  <2> QED
    BY <1>1, <1>2, <1>3, <2>1, LeavePlaces DEF WindowsInv
<1> QED
  BY <1>4, <1>5

LEMMA InsertClientPlaces ==
  ASSUME WindowsInv, PlacesInv, NEW c, NEW t, InsertClient(c, t)
  PROVE  PlacesInv' /\ Placing
<1> DEFINE d == Holder(t)
           rest == Without(t, d).tabs
<1>1. d \in Live /\ d \in Container
  BY HolderIsLive DEF InsertClient
<1>2. /\ tabs' = [tabs EXCEPT ![d] = rest, ![c] = <<t>> \o @] /\ layout' = layout
      /\ Leave(d, win, rest) /\ c \in Live \ {d}
  BY DEF InsertClient
<1> HIDE DEF d, rest
<1>3. /\ tabs' = [e \in Container |-> tabs'[e]] /\ Live' \subseteq Live
      /\ rest = <<>> => d \notin Live'
  BY <1>1, <1>2 DEF PlacesInv, Live
<1> QED
  BY <1>1, <1>2, <1>3, LeavePlaces DEF WindowsInv

LEMMA PlacedNeeds ==
  ASSUME NEW c, NEW w \in Windows, NEW o
  PROVE  ~Needs(Placed(c, w, o), layout[o])
<1>1. CASE layout[o] = "bsp" /\ ~IsFloating(w, layout[o]) /\ w.leaf = "none"
  BY <1>1, InsertNeedsNone DEF Placed
<1>2. CASE ~(layout[o] = "bsp" /\ ~IsFloating(w, layout[o]) /\ w.leaf = "none")
  BY <1>2 DEF Placed, IsFloating, Needs
<1> QED
  BY <1>1, <1>2

LEMMA MapPlaces ==
  ASSUME WindowsInv, PlacesInv, marked \in Live \cup {NULL}, NEW t, SurfaceMap(t)
  PROVE  PlacesInv' /\ Placing
<1>1. CASE MapIntoMarked(t)
  <2> DEFINE v == Placed(marked, win[marked], at[marked])
  <2>1. marked \in Live /\ marked \in Container /\ win[marked] \in Windows
    BY <1>1 DEF MapIntoMarked, Live, WindowsInv
  <2>2. ~Needs(v, layout[at[marked]])
    BY <2>1, PlacedNeeds
  <2>3. /\ tabs' = [tabs EXCEPT ![marked] = <<t>> \o @]
        /\ win' = [win EXCEPT ![marked] = v] /\ UNCHANGED <<at, layout>>
    BY <1>1 DEF MapIntoMarked
  <2> HIDE DEF v
  <2>4. PlacesInv' /\ Live' \subseteq Live
    BY <2>1, <2>3 DEF PlacesInv, Live
  <2> QED
    BY <2>1, <2>2, <2>3, <2>4, PlacingIs DEF WindowsInv, Live
<1>2. ASSUME NEW c \in Container, NEW wants \in Wishes, NEW o \in Screen,
             MapAlone(t, c, wants, o)
      PROVE  PlacesInv' /\ Placing
  <2> DEFINE v == Placed(c, NewWindow(wants), o)
  <2>1. ~Needs(v, layout[o])
    BY NewWindowFollows, PlacedNeeds DEF Follows, Owned
  <2>2. /\ tabs' = [tabs EXCEPT ![c] = <<t>>] /\ at' = [at EXCEPT ![c] = o]
        /\ win' = [win EXCEPT ![c] = v] /\ layout' = layout
    BY <1>2 DEF MapAlone
  <2> HIDE DEF v
  <2>3. PlacesInv' /\ Live' \subseteq Live \cup {c}
    BY <2>2 DEF PlacesInv, Live
  <2>4. ASSUME NEW d \in Live', Needs(win'[d], layout'[at'[d]])
        PROVE  d \in Live /\ Needs(win[d], layout[at[d]])
    BY <2>1, <2>2, <2>3, <2>4 DEF WindowsInv, PlacesInv, Live
  <2> QED
    BY <2>3, <2>4, PlacingIs
<1> QED
  BY <1>1, <1>2 DEF SurfaceMap

(* Steps that change windows where they are.                               *)
LEMMA StayingPlaces ==
  ASSUME PlacesInv, PlacesInv', Live' \subseteq Live, at' = at, layout' = layout,
         \A c \in Live : Needs(win'[c], layout[at[c]]) =>
                          Needs(win[c], layout[at[c]]) \/ Excused(c)
  PROVE  Placing
BY PlacingIs

LEMMA DelayedPlaces ==
  ASSUME WindowsInv, PlacesInv, NEW c \in Container, DelayedMaxFull(c)
  PROVE  PlacesInv' /\ Placing
<1> DEFINE w == win[c]
           v == IF "fullscreen" \in w.bits THEN EnterFullscreen(w)
                ELSE IF "maximized" \in w.bits THEN Maximize(w) ELSE w
<1>1. PlacesInv' /\ Live' = Live /\ at' = at /\ layout' = layout
  BY DEF DelayedMaxFull, PlacesInv, Live
<1>2. win' = [win EXCEPT ![c] = v] /\ w \in Windows
  BY DEF DelayedMaxFull, WindowsInv
<1>3. \A l : Needs(v, l) => Needs(w, l)
  BY <1>2, StatesKeepNeeds
<1> HIDE DEF v
<1> QED
  BY <1>1, <1>2, <1>3, StayingPlaces DEF WindowsInv, Live

LEMMA LayoutPlaces ==
  ASSUME WindowsInv, PlacesInv, NEW o \in Screen, NEW mode \in Modes, SetLayout(o, mode)
  PROVE  PlacesInv' /\ Placing
<1>1. PlacesInv' /\ Live' = Live /\ at' = at /\ layout' = [layout EXCEPT ![o] = mode]
  BY DEF SetLayout, PlacesInv, Live
<1>2. ASSUME NEW c \in Live', Needs(win'[c], layout'[at'[c]])
      PROVE  \/ c \in Live /\ Needs(win[c], layout[at[c]])
             \/ Excused(c)
  <2>1. c \in Container /\ c \in Live /\ at[c] \in Screen /\ win[c] \in Windows
    BY <1>1 DEF Live, PlacesInv, WindowsInv
  <2>2. win'[c] = IF mode = "bsp" /\ c \in InsertTiled(o)
                  THEN Insert(win[c], "bsp", FALSE) ELSE win[c]
    BY <2>1 DEF SetLayout
  <2>3. win'[c] = win[c] /\ ~(mode = "bsp" /\ c \in InsertTiled(o))
    BY <1>2, <2>1, <2>2, InsertNeedsNone
  <2>4. CASE at[c] # o
    BY <1>1, <1>2, <2>1, <2>3, <2>4 DEF PlacesInv
  <2>5. CASE at[c] = o
    <3>1. mode = "bsp" /\ layout'[o] = mode
      BY <1>1, <1>2, <2>5 DEF Needs, PlacesInv
    <3>2. "minimized" \in win[c].bits
      BY <1>2, <2>1, <2>3, <2>5, <3>1 DEF Needs, InsertTiled
    <3>3. layout[o] = mode => Needs(win[c], layout[at[c]])
      BY <1>1, <1>2, <2>3, <2>5, <3>1
    <3> QED
      BY <2>1, <3>1, <3>2, <3>3 DEF Excused
  <2> QED
    BY <2>4, <2>5
<1> QED
  BY <1>1, <1>2, PlacingIs

LEMMA JumpPlaces ==
  ASSUME WindowsInv, PlacesInv, NEW t, JumpTo(t)
  PROVE  PlacesInv' /\ Placing
<1> DEFINE c == Holder(t)
           w == win[c]
           v == IF "minimized" \in w.bits
                THEN Minimized(w, FALSE, c \in minimized) ELSE w
<1>1. PlacesInv' /\ Live' = Live /\ at' = at /\ layout' = layout
  BY DEF JumpTo, PlacesInv, Live
<1>2. win' = [win EXCEPT ![c] = v]
  BY DEF JumpTo
<1>3. c \in Container => \A l : Needs(v, l) => Needs(w, l)
  BY StatesKeepNeeds DEF WindowsInv
<1> HIDE DEF c, v
<1> QED
  BY <1>1, <1>2, <1>3, StayingPlaces DEF WindowsInv, Live

LEMMA StartPlaces ==
  ASSUME WindowsInv, PlacesInv, NEW t, StartMove(t) \/ StartResize(t)
  PROVE  PlacesInv' /\ Placing
<1> DEFINE c == Holder(t)
<1>1. PlacesInv' /\ Live' = Live /\ at' = at /\ layout' = layout
  BY DEF StartMove, StartResize, PlacesInv, Live
<1>2. PICK v : win' = [win EXCEPT ![c] = v] /\ (c \in Container => \A l :
                 Needs(v, l) => Needs(win[c], l))
  <2>1. CASE StartMove(t)
    <3> DEFINE w == Set(win[c], "moving")
               v == IF ~IsFloating(w, LayoutOf(c)) /\ LayoutOf(c) = "bsp"
                    THEN [w EXCEPT !.leaf = "none"] ELSE w
    <3>1. win' = [win EXCEPT ![c] = v]
      BY <2>1 DEF StartMove
    <3>2. ASSUME c \in Container PROVE "moving" \in v.bits
      <4>1. w \in Windows /\ "moving" \in w.bits
        BY <3>2 DEF WindowsInv, Set, Windows, Bits
      <4> HIDE DEF w
      <4> QED
        BY <4>1 DEF Windows
    <3> HIDE DEF v, c
    <3> QED
      BY <3>1, <3>2 DEF Needs
  <2>2. CASE StartResize(t)
    BY <2>2, StatesKeepNeeds DEF StartResize, WindowsInv
  <2> QED
    BY <2>1, <2>2
<1> HIDE DEF c
<1> QED
  BY <1>1, <1>2, StayingPlaces DEF WindowsInv, Live

LEMMA ReleasePlaces ==
  ASSUME WindowsInv, PlacesInv, ButtonRelease
  PROVE  PlacesInv' /\ Placing
<1>1. PlacesInv' /\ Live' = Live /\ at' = at /\ layout' = layout
  BY DEF ButtonRelease, PlacesInv, Live
<1>2. \A c \in Live : Needs(win'[c], layout[at[c]]) =>
                       Needs(win[c], layout[at[c]]) \/ Excused(c)
  BY StoppedNeeds DEF ButtonRelease, Live
<1> QED
  BY <1>1, <1>2, StayingPlaces

(* No toplevel leaves or enters the last container that holds it.          *)
LEMMA TabsPlaces ==
  ASSUME WindowsInv, PlacesInv,
         \/ \E t : Refresh(t)
         \/ \E t, u : SwapClients(t, u)
         \/ \E c, forward : FocusIdx(c, forward)
         \/ \E c, d : SwapContainers(c, d)
         \/ \E c : Mark(c)
  PROVE  PlacesInv' /\ Placing
<1>1. UNCHANGED <<win, at, layout>>
  BY DEF Refresh, SwapClients, FocusIdx, SwapContainers, Mark, OnlyTabs
<1>2. tabs' = [c \in Container |-> tabs'[c]] /\ Live' \subseteq Live
  <2>1. ASSUME NEW t, NEW u, SwapClients(t, u)
        PROVE  tabs' = [c \in Container |-> tabs'[c]] /\ Live' \subseteq Live
    <3>1. Holder(t) \in Live /\ Holder(u) \in Live
      BY <2>1, HolderIsLive DEF SwapClients
    <3> QED
      BY <2>1, <3>1 DEF SwapClients, PlacesInv, Live
  <2>2. ASSUME NEW c, NEW d, SwapContainers(c, d)
        PROVE  tabs' = [e \in Container |-> tabs'[e]] /\ Live' \subseteq Live
    BY <2>2 DEF SwapContainers, PlacesInv, Live
  <2> QED
    BY <2>1, <2>2 DEF Refresh, FocusIdx, Mark, OnlyTabs, PlacesInv, Live
<1> QED
  BY <1>1, <1>2, StayingPlaces DEF PlacesInv

----------------------------------------------------------------------------
(* Containers come and go with their tabs                                  *)

(* A container that is gone is forgotten, and what is dragged is in one.   *)
(* One needs the other: the end of a drag writes to the window dragged.    *)
StripsInv ==
  /\ tabs \in [Container -> Seq(Client)]
  /\ NothingOutlives /\ idle \subseteq Live
  /\ GrabIsLive

LEMMA InSet ==
  ASSUME NEW s \in Seq(Client)
  PROVE  \A t : t \in ToSet(s) <=> \E i \in 1 .. Len(s) : s[i] = t
BY DEF ToSet

LEMMA UnlinkedIs ==
  ASSUME NEW s \in Seq(Client), NEW t \in ToSet(s)
  PROVE  /\ Unlinked(s, t) \in Seq(Client)
         /\ \A u \in ToSet(s) \ {t} : u \in ToSet(Unlinked(s, t))
<1> DEFINE i == CHOOSE i \in DOMAIN s : s[i] = t
<1>1. i \in 1 .. Len(s) /\ s[i] = t
  <2>1. \E j \in DOMAIN s : s[j] = t
    BY DEF ToSet
  <2>2. i \in DOMAIN s /\ s[i] = t
    BY <2>1
  <2> QED
    BY <2>2
<1> DEFINE r == SubSeq(s, 1, i - 1) \o SubSeq(s, i + 1, Len(s))
<1>2. Unlinked(s, t) = r
  BY DEF Unlinked, RemoveAt
<1> HIDE DEF i
<1>3. /\ r \in Seq(Client)
      /\ \A j \in 1 .. Len(s) : j # i => \E k \in 1 .. Len(r) : r[k] = s[j]
  BY <1>1, RemovedIs, ListWithout
<1> HIDE DEF r
<1>4. ASSUME NEW u \in ToSet(s), u # t
      PROVE  u \in ToSet(r)
  <2>1. PICK j \in 1 .. Len(s) : s[j] = u
    BY InSet
  <2>2. PICK k \in 1 .. Len(r) : r[k] = u
    BY <1>1, <1>3, <1>4, <2>1
  <2> QED
    BY <1>3, <2>2, InSet
<1> QED
  BY <1>2, <1>3, <1>4

(* Linking t into a list at its head, and what swapping makes of a list.   *)
LEMMA LinkedIs ==
  ASSUME NEW s \in Seq(Client), NEW t \in Client
  PROVE  /\ <<t>> \o s \in Seq(Client) /\ <<t>> \o s # <<>>
         /\ \A u \in ToSet(s) \cup {t} : u \in ToSet(<<t>> \o s)
<1> DEFINE r == <<t>> \o s
<1>1. <<t>> \in Seq(Client) /\ Len(<<t>>) = 1 /\ <<t>>[1] = t
  OBVIOUS
<1>2. /\ r \in Seq(Client) /\ Len(r) = 1 + Len(s)
      /\ \A i \in 1 .. 1 + Len(s) : r[i] = IF i <= 1 THEN <<t>>[i] ELSE s[i - 1]
  BY <1>1, ConcatProperties
<1> HIDE DEF r
<1>3. Len(r) # 0 /\ 1 \in 1 .. Len(r) /\ r[1] = t
  BY <1>1, <1>2
<1>4. \A i \in 1 .. Len(s) : i + 1 \in 1 .. Len(r) /\ r[i + 1] = s[i]
  BY <1>2
<1>5. ASSUME NEW u \in ToSet(s) \cup {t}
      PROVE  u \in ToSet(r)
  <2>1. CASE u = t
    BY <1>2, <1>3, <2>1, InSet
  <2>2. CASE u \in ToSet(s)
    <3>1. PICK i \in 1 .. Len(s) : s[i] = u
      BY <2>2, InSet
    <3>2. i + 1 \in 1 .. Len(r) /\ r[i + 1] = u
      BY <1>4, <3>1
    <3> QED
      BY <1>2, <3>2, InSet
  <2> QED
    BY <2>1, <2>2
<1> QED
  BY <1>2, <1>3, <1>5 DEF r

LEMMA ReversedIs ==
  ASSUME NEW s \in Seq(Client)
  PROVE  /\ Reverse(s) \in Seq(Client) /\ (s # <<>> => Reverse(s) # <<>>)
         /\ \A u \in ToSet(s) : u \in ToSet(Reverse(s))
<1>1. Len(s) \in Nat /\ \A i \in 1 .. Len(s) : (Len(s) - i) + 1 \in 1 .. Len(s)
  OBVIOUS
<1>2. Reverse(s) \in [1 .. Len(s) -> Client]
  BY <1>1 DEF Reverse
<1>3. /\ Reverse(s) \in Seq(Client) /\ Len(Reverse(s)) = Len(s)
      /\ \A i \in 1 .. Len(s) : Reverse(s)[(Len(s) - i) + 1] = s[i]
  BY <1>1, <1>2 DEF Reverse
<1>4. \A u \in ToSet(s) : u \in ToSet(Reverse(s))
  BY <1>1, <1>3, InSet
<1> QED
  BY <1>3, <1>4

LEMMA TabOfHolder ==
  ASSUME StripsInv, NEW t \in Mapped
  PROVE  /\ Holder(t) \in Live /\ Holder(t) \in Container
         /\ t \in ToSet(tabs[Holder(t)])
         /\ Unlinked(tabs[Holder(t)], t) \in Seq(Client)
         /\ \A u \in ToSet(tabs[Holder(t)]) \ {t} :
              u \in ToSet(Unlinked(tabs[Holder(t)], t))
<1>1. \E c \in Live : t \in ToSet(tabs[c])
  BY DEF Mapped
<1>2. Holder(t) \in Live /\ t \in ToSet(tabs[Holder(t)])
  BY <1>1 DEF Holder
<1>3. Holder(t) \in Container
  BY <1>2 DEF Live
<1>4. tabs[Holder(t)] \in Seq(Client)
  BY <1>3 DEF StripsInv
<1> QED
  BY <1>2, <1>3, <1>4, UnlinkedIs

(* The toplevels of the containers f; f will be tabs and tabs primed.      *)
LEMMA MappedIs ==
  ASSUME NEW f \in [Container -> Seq(Client)]
  PROVE  \A t : t \in UNION { ToSet(f[c]) : c \in { d \in Container : f[d] # <<>> } } <=>
                 \E c \in Container : t \in ToSet(f[c])
<1>1. ASSUME NEW c \in Container, NEW t \in ToSet(f[c])
      PROVE  f[c] # <<>>
  <2>1. \E i \in 1 .. Len(f[c]) : f[c][i] = t
    BY InSet
  <2> QED
    BY <2>1
<1> QED
  BY <1>1

LEMMA StillMapped ==
  ASSUME tabs' \in [Container -> Seq(Client)], NEW t, NEW c \in Container,
         t \in ToSet(tabs'[c])
  PROVE  t \in Mapped'
BY MappedIs DEF Mapped, Live

LEMMA MappedSomewhere ==
  ASSUME StripsInv, NEW t \in Mapped
  PROVE  \E c \in Container : t \in ToSet(tabs[c])
BY DEF Mapped, Live

(* Steps that leave the tabs where they are.                               *)
LEMMA TabsStay ==
  ASSUME StripsInv, tabs' = tabs, marked' \in Live \cup {NULL}, minimized' \subseteq Live,
         \A c \in Container \ Live : win'[c] = win[c], idle' \subseteq Live,
         cursor'.state # "normal" => cursor'.grabbed \in Mapped
  PROVE  StripsInv'
<1>1. Live' = Live /\ Mapped' = Mapped
  BY DEF Live, Mapped
<1> QED
  BY <1>1 DEF StripsInv, NothingOutlives, GrabIsLive

LEMMA StoppedStays ==
  ASSUME StripsInv, WindowsInv
  PROVE  /\ Stopped = [c \in Container |-> Stopped[c]]
         /\ \A c \in Container \ Live : Stopped[c] = win[c]
<1>1. CASE cursor.state = "normal"
  BY <1>1 DEF Stopped, WindowsInv
<1>2. CASE cursor.state # "normal"
  <2>1. Holder(cursor.grabbed) \in Live
    BY <1>2, TabOfHolder DEF StripsInv, GrabIsLive
  <2> DEFINE d == Holder(cursor.grabbed)
             w == [Dropped(d) EXCEPT !.bits = @ \ {"moving", "resizing"}]
  <2>2. Stopped = [win EXCEPT ![d] = w]
    BY <1>2 DEF Stopped
  <2> HIDE DEF d, w
  <2>3. d \in Live
    BY <2>1 DEF d
  <2> QED
    BY <2>2, <2>3 DEF WindowsInv
<1> QED
  BY <1>1, <1>2

LEMMA RequestStrips ==
  ASSUME StripsInv, WindowsInv, NEW c \in Live, NEW set, NEW o,
         \/ SetFullscreen(c, set, o) \/ SetMaximized(c, set, o)
         \/ SetFloating(c, set, o) \/ SetMinimized(c, set) \/ CrossOutput(c, o)
  PROVE  StripsInv'
<1>1. /\ \E w, p : Becomes(c, w, p)
      /\ minimized' \in {minimized, minimized \cup {c}, minimized \ {c}}
  BY DEF SetFullscreen, SetMaximized, SetFloating, SetMinimized, CrossOutput
<1>2. /\ tabs' = tabs /\ marked' = marked /\ cursor' = cursor
      /\ idle' \subseteq idle \cup {c}
      /\ \A d \in Container \ Live : win'[d] = win[d]
  BY <1>1 DEF Becomes, WindowsInv
<1>3. marked' \in Live \cup {NULL} /\ minimized' \subseteq Live /\ idle' \subseteq Live
  BY <1>1, <1>2 DEF StripsInv, NothingOutlives
<1>4. cursor'.state # "normal" => cursor'.grabbed \in Mapped
  BY <1>2 DEF StripsInv, GrabIsLive
<1> QED
  BY <1>2, <1>3, <1>4, TabsStay

LEMMA QuietStrips ==
  ASSUME StripsInv, WindowsInv,
         \/ \E c \in Container : DelayedMaxFull(c)
         \/ \E o, mode : SetLayout(o, mode)
         \/ \E t : Refresh(t) \/ JumpTo(t)
         \/ \E c, forward : FocusIdx(c, forward)
         \/ \E c : Mark(c)
         \/ \E t : StartMove(t) \/ StartResize(t)
         \/ ButtonRelease
  PROVE  StripsInv'
<1>1. /\ marked \in Live \cup {NULL} /\ minimized \subseteq Live /\ idle \subseteq Live
      /\ \A c \in Container \ Live : win[c] = Blank
      /\ cursor.state # "normal" => cursor.grabbed \in Mapped
  BY DEF StripsInv, NothingOutlives, GrabIsLive
<1>2. ASSUME NEW c \in Container, DelayedMaxFull(c)
      PROVE  StripsInv'
  <2>1. c \in Live /\ \E v : win' = [win EXCEPT ![c] = v]
    BY <1>1, <1>2 DEF DelayedMaxFull
  <2>2. \A d \in Container \ Live : win'[d] = win[d]
    BY <2>1 DEF WindowsInv
  <2>3. idle' = idle \ {c} /\ UNCHANGED <<tabs, marked, minimized, cursor>>
    BY <1>2 DEF DelayedMaxFull
  <2> QED
    BY <1>1, <2>2, <2>3, TabsStay
<1>3. ASSUME NEW o, NEW mode, SetLayout(o, mode)
      PROVE  StripsInv'
  <2>1. \A c \in Container \ Live : win'[c] = win[c]
    BY <1>3 DEF SetLayout, InsertTiled
  <2> QED
    BY <1>1, <1>3, <2>1, TabsStay DEF SetLayout
<1>4. ASSUME NEW t, JumpTo(t)
      PROVE  StripsInv'
  <2> DEFINE c == Holder(t)
             v == IF "minimized" \in win[c].bits
                  THEN Minimized(win[c], FALSE, c \in minimized) ELSE win[c]
  <2>1. c \in Live
    BY <1>4, TabOfHolder DEF JumpTo
  <2>2. win' = [win EXCEPT ![c] = v]
    BY <1>4 DEF JumpTo
  <2> HIDE DEF c, v
  <2>3. \A d \in Container \ Live : win'[d] = win[d]
    BY <2>1, <2>2 DEF WindowsInv
  <2> QED
    BY <1>1, <1>4, <2>3, TabsStay DEF JumpTo
<1>5. ASSUME NEW t, Refresh(t)
      PROVE  StripsInv'
  BY <1>1, <1>5, TabsStay DEF Refresh, OnlyTabs
<1>6. ASSUME NEW c, NEW forward, FocusIdx(c, forward) \/ Mark(c)
      PROVE  StripsInv'
  BY <1>1, <1>6, TabsStay DEF FocusIdx, Mark, OnlyTabs
<1>7. ASSUME NEW t, StartMove(t) \/ StartResize(t)
      PROVE  StripsInv'
  <2> DEFINE c == Holder(t)
  <2>1. t \in Mapped /\ c \in Live
    BY <1>7, TabOfHolder DEF StartMove, StartResize, CanEnterInteractive
  <2>2. \E v : win' = [win EXCEPT ![c] = v]
    BY <1>7 DEF StartMove, StartResize
  <2>3. cursor'.grabbed = t /\ UNCHANGED <<tabs, marked, minimized, idle>>
    BY <1>7 DEF StartMove, StartResize
  <2> HIDE DEF c
  <2>4. \A d \in Container \ Live : win'[d] = win[d]
    BY <2>1, <2>2 DEF WindowsInv
  <2> QED
    BY <1>1, <2>1, <2>3, <2>4, TabsStay
<1>8. CASE ButtonRelease
  <2>1. /\ win' = Stopped /\ cursor'.state = "normal"
        /\ UNCHANGED <<tabs, marked, minimized, idle>>
    BY <1>8 DEF ButtonRelease, StoppedCursor
  <2> QED
    BY <1>1, <2>1, StoppedStays, TabsStay
<1> QED
  BY <1>2, <1>3, <1>4, <1>5, <1>6, <1>7, <1>8

(* Steps that move tabs: what is dragged stays in one container or other.  *)
LEMMA TabsMove ==
  ASSUME StripsInv, tabs' \in [Container -> Seq(Client)], marked' \in Live' \cup {NULL},
         minimized' \subseteq Live', idle' \subseteq Live',
         \A c \in Container \ Live' : win'[c] = Blank,
         cursor'.state # "normal" =>
           \E c \in Container : cursor'.grabbed \in ToSet(tabs'[c])
  PROVE  StripsInv'
BY StillMapped DEF StripsInv, NothingOutlives, GrabIsLive

LEMMA GrabbedSomewhere ==
  ASSUME StripsInv, cursor' = cursor, cursor.state # "normal"
  PROVE  \E c \in Container : cursor'.grabbed \in ToSet(tabs[c])
BY MappedSomewhere DEF StripsInv, GrabIsLive

LEMMA LeaveForgets ==
  ASSUME StripsInv, NEW c \in Live, NEW v, NEW rest, Leave(c, v, rest),
         Live' = (IF rest = <<>> THEN Live \ {c} ELSE Live),
         v = [d \in Container |-> v[d]], \A d \in Container \ Live : v[d] = Blank
  PROVE  /\ marked' \in Live' \cup {NULL} /\ minimized' \subseteq Live'
         /\ idle' \subseteq Live' /\ \A d \in Container \ Live' : win'[d] = Blank
<1>1. CASE rest = <<>>
  BY <1>1 DEF Leave, Fini, StripsInv, NothingOutlives
<1>2. CASE rest # <<>>
  BY <1>2 DEF Leave, StripsInv, NothingOutlives
<1> QED
  BY <1>1, <1>2

LEMMA MapStrips ==
  ASSUME StripsInv, WindowsInv, NEW t \in Client, SurfaceMap(t)
  PROVE  StripsInv'
<1>1. /\ marked \in Live \cup {NULL} /\ minimized \subseteq Live /\ idle \subseteq Live
      /\ \A c \in Container \ Live : win[c] = Blank
      /\ tabs \in [Container -> Seq(Client)]
  BY DEF StripsInv, NothingOutlives
<1>2. ASSUME NEW c \in Container, tabs' = [tabs EXCEPT ![c] = <<t>> \o tabs[c]]
      PROVE  /\ tabs' \in [Container -> Seq(Client)] /\ Live' = Live \cup {c}
             /\ \A d \in Container : ToSet(tabs[d]) \subseteq ToSet(tabs'[d])
  BY <1>1, <1>2, LinkedIs DEF Live
<1>3. CASE MapIntoMarked(t)
  <2>1. marked \in Live /\ marked \in Container
    BY <1>1, <1>3 DEF MapIntoMarked, Live
  <2>2. /\ tabs' = [tabs EXCEPT ![marked] = <<t>> \o tabs[marked]]
        /\ \E v : win' = [win EXCEPT ![marked] = v]
        /\ UNCHANGED <<minimized, marked, cursor, idle>>
    BY <1>3 DEF MapIntoMarked
  <2>3. /\ Live' = Live /\ tabs' \in [Container -> Seq(Client)]
        /\ \A d \in Container : ToSet(tabs[d]) \subseteq ToSet(tabs'[d])
    <3>1. PICK c \in Container : c = marked
      BY <2>1
    <3>2. tabs' = [tabs EXCEPT ![c] = <<t>> \o tabs[c]]
      BY <2>2, <3>1
    <3>3. /\ Live' = Live \cup {c} /\ tabs' \in [Container -> Seq(Client)]
          /\ \A d \in Container : ToSet(tabs[d]) \subseteq ToSet(tabs'[d])
      BY <1>2, <3>2
    <3> QED
      BY <2>1, <3>1, <3>3
  <2>4. \A c \in Container \ Live' : win'[c] = Blank
    BY <1>1, <2>1, <2>2, <2>3 DEF WindowsInv
  <2> QED
    BY <1>1, <2>2, <2>3, <2>4, GrabbedSomewhere, TabsMove
<1>4. ASSUME NEW c \in Container, NEW wants, NEW o, MapAlone(t, c, wants, o)
      PROVE  StripsInv'
  <2>1. tabs[c] = <<>> /\ <<t>> \in Seq(Client) /\ <<t>> # <<>>
    BY <1>1, <1>4 DEF MapAlone, Live
  <2>2. /\ tabs' = [tabs EXCEPT ![c] = <<t>>]
        /\ \E v : win' = [win EXCEPT ![c] = v]
        /\ minimized' \subseteq minimized \cup {c} /\ UNCHANGED <<marked, cursor, idle>>
    BY <1>4 DEF MapAlone
  <2>3. tabs' \in [Container -> Seq(Client)] /\ Live' = Live \cup {c}
    BY <1>1, <2>1, <2>2 DEF Live
  <2>4. \A d \in Container \ Live' : win'[d] = Blank
    BY <1>1, <2>2, <2>3 DEF WindowsInv
  <2>5. \A d \in Container : ToSet(tabs[d]) \subseteq ToSet(tabs'[d])
    <3>1. ToSet(<<>>) = {}
      BY DEF ToSet
    <3> QED
      BY <1>1, <2>1, <2>2, <3>1
  <2> QED
    BY <1>1, <2>2, <2>3, <2>4, <2>5, GrabbedSomewhere, TabsMove
<1> QED
  BY <1>3, <1>4 DEF SurfaceMap

LEMMA UnmapStrips ==
  ASSUME StripsInv, WindowsInv, NEW t, Unmap(t)
  PROVE  StripsInv'
<1> DEFINE c == Holder(t)
           rest == Unlinked(tabs[c], t)
<1>1. /\ c \in Live /\ c \in Container /\ t \in ToSet(tabs[c]) /\ rest \in Seq(Client)
      /\ \A u \in ToSet(tabs[c]) \ {t} : u \in ToSet(rest)
  BY TabOfHolder DEF Unmap
<1>2. /\ tabs' = [tabs EXCEPT ![c] = rest]
      /\ Leave(c, IF cursor.grabbed = t THEN Stopped ELSE win, rest)
      /\ cursor' = IF cursor.grabbed = t THEN StoppedCursor ELSE cursor
  BY DEF Unmap, Without
<1> HIDE DEF c, rest
<1>3. /\ tabs' \in [Container -> Seq(Client)]
      /\ Live' = (IF rest = <<>> THEN Live \ {c} ELSE Live)
      /\ \A d \in Container : ToSet(tabs[d]) \ {t} \subseteq ToSet(tabs'[d])
  BY <1>1, <1>2 DEF StripsInv, Live
<1>4. \A d \in Container \ Live : win[d] = Blank
  BY DEF StripsInv, NothingOutlives
<1>5. /\ marked' \in Live' \cup {NULL} /\ minimized' \subseteq Live'
      /\ idle' \subseteq Live' /\ \A d \in Container \ Live' : win'[d] = Blank
  <2>1. CASE cursor.grabbed = t
    BY <1>1, <1>2, <1>3, <1>4, <2>1, StoppedStays, LeaveForgets
  <2>2. CASE cursor.grabbed # t
    BY <1>1, <1>2, <1>3, <1>4, <2>2, LeaveForgets DEF WindowsInv
  <2> QED
    BY <2>1, <2>2
<1>6. ASSUME cursor'.state # "normal"
      PROVE  \E d \in Container : cursor'.grabbed \in ToSet(tabs'[d])
  <2>1. cursor' = cursor /\ cursor.grabbed # t
    BY <1>2, <1>6 DEF StoppedCursor
  <2> QED
    BY <1>3, <1>6, <2>1, GrabbedSomewhere
<1> QED
  BY <1>3, <1>5, <1>6, TabsMove

LEMMA InsertClientStrips ==
  ASSUME StripsInv, WindowsInv, NEW c, NEW t \in Client, InsertClient(c, t)
  PROVE  StripsInv'
<1> DEFINE d == Holder(t)
           rest == Unlinked(tabs[d], t)
<1>1. /\ d \in Live /\ d \in Container /\ t \in ToSet(tabs[d]) /\ rest \in Seq(Client)
      /\ \A u \in ToSet(tabs[d]) \ {t} : u \in ToSet(rest)
  BY TabOfHolder DEF InsertClient
<1>2. /\ tabs' = [tabs EXCEPT ![d] = rest, ![c] = <<t>> \o @]
      /\ Leave(d, win, rest) /\ cursor' = cursor /\ c \in Live \ {d}
  BY DEF InsertClient, Without
<1> HIDE DEF d, rest
<1>3. /\ c \in Container /\ c # d /\ tabs[c] \in Seq(Client)
      /\ tabs \in [Container -> Seq(Client)]
      /\ \A e \in Container \ Live : win[e] = Blank
  BY <1>2 DEF Live, StripsInv, NothingOutlives
<1>4. /\ <<t>> \o tabs[c] \in Seq(Client) /\ <<t>> \o tabs[c] # <<>>
      /\ \A u \in ToSet(tabs[c]) \cup {t} : u \in ToSet(<<t>> \o tabs[c])
  BY <1>3, LinkedIs
<1>5. /\ tabs'[c] = <<t>> \o tabs[c] /\ tabs'[d] = rest
      /\ \A e \in Container \ {c, d} : tabs'[e] = tabs[e]
      /\ tabs' \in [Container -> Seq(Client)]
  BY <1>1, <1>2, <1>3, <1>4
<1>6. Live' = (IF rest = <<>> THEN Live \ {d} ELSE Live)
  BY <1>1, <1>2, <1>3, <1>4, <1>5 DEF Live
<1>7. \A e \in Container : \A u \in ToSet(tabs[e]) : \E f \in Container : u \in ToSet(tabs'[f])
  BY <1>1, <1>3, <1>4, <1>5
<1>8. /\ marked' \in Live' \cup {NULL} /\ minimized' \subseteq Live'
      /\ idle' \subseteq Live' /\ \A e \in Container \ Live' : win'[e] = Blank
  BY <1>1, <1>2, <1>3, <1>6, LeaveForgets DEF WindowsInv
<1>9. cursor'.state # "normal" => \E f \in Container : cursor'.grabbed \in ToSet(tabs'[f])
  BY <1>2, <1>7, GrabbedSomewhere
<1> QED
  BY <1>5, <1>8, <1>9, TabsMove

(* Both containers of a swap keep tabs, which are those of the two.        *)
LEMMA SwapStrips ==
  ASSUME StripsInv, NEW c \in Live, NEW d \in Live, c # d, NEW f, NEW g,
         tabs' = [tabs EXCEPT ![c] = f, ![d] = g], OnlyTabs,
         f \in Seq(Client), g \in Seq(Client), f # <<>>, g # <<>>,
         \A u \in ToSet(tabs[c]) \cup ToSet(tabs[d]) : u \in ToSet(f) \cup ToSet(g)
  PROVE  StripsInv'
<1>1. /\ c \in Container /\ d \in Container /\ tabs \in [Container -> Seq(Client)]
      /\ marked \in Live \cup {NULL} /\ minimized \subseteq Live /\ idle \subseteq Live
      /\ \A e \in Container \ Live : win[e] = Blank
  BY DEF Live, StripsInv, NothingOutlives
<1>2. /\ tabs' \in [Container -> Seq(Client)] /\ tabs'[c] = f /\ tabs'[d] = g
      /\ \A e \in Container \ {c, d} : tabs'[e] = tabs[e]
  BY <1>1
<1>3. Live' = Live
  BY <1>1, <1>2 DEF Live
<1>4. \A e \in Container : \A u \in ToSet(tabs[e]) : \E h \in Container : u \in ToSet(tabs'[h])
  BY <1>1, <1>2
<1>5. UNCHANGED <<win, minimized, marked, cursor, idle>>
  BY DEF OnlyTabs
<1>6. cursor'.state # "normal" => \E h \in Container : cursor'.grabbed \in ToSet(tabs'[h])
  BY <1>4, <1>5, GrabbedSomewhere
<1> QED
  BY <1>1, <1>2, <1>3, <1>5, <1>6, TabsMove

LEMMA SwapsKeepStrips ==
  ASSUME StripsInv,
         \/ \E t \in Client, u \in Client : SwapClients(t, u)
         \/ \E c, d \in Container : SwapContainers(c, d)
  PROVE  StripsInv'
<1>1. ASSUME NEW t \in Client, NEW u \in Client, SwapClients(t, u)
      PROVE  StripsInv'
  <2> DEFINE c == Holder(t)
             d == Holder(u)
             f == Unlinked(tabs[c], t)
             g == Unlinked(tabs[d], u)
  <2>1. /\ c \in Live /\ d \in Live /\ c # d
        /\ f \in Seq(Client) /\ \A x \in ToSet(tabs[c]) \ {t} : x \in ToSet(f)
        /\ g \in Seq(Client) /\ \A x \in ToSet(tabs[d]) \ {u} : x \in ToSet(g)
    BY <1>1, TabOfHolder DEF SwapClients
  <2>2. tabs' = [tabs EXCEPT ![c] = <<u>> \o f, ![d] = <<t>> \o g] /\ OnlyTabs
    BY <1>1, <2>1 DEF SwapClients, StripsInv, Live
  <2> HIDE DEF c, d, f, g
  <2>3. /\ <<u>> \o f \in Seq(Client) /\ <<u>> \o f # <<>>
        /\ \A x \in ToSet(f) \cup {u} : x \in ToSet(<<u>> \o f)
        /\ <<t>> \o g \in Seq(Client) /\ <<t>> \o g # <<>>
        /\ \A x \in ToSet(g) \cup {t} : x \in ToSet(<<t>> \o g)
    BY <2>1, LinkedIs
  <2> QED
    BY <2>1, <2>2, <2>3, SwapStrips
<1>2. ASSUME NEW c, NEW d, SwapContainers(c, d)
      PROVE  StripsInv'
  <2> DEFINE f == Reverse(tabs[d])
             g == Reverse(tabs[c])
  <2>1. c \in Live /\ d \in Live /\ c # d /\ OnlyTabs
        /\ tabs' = [tabs EXCEPT ![c] = f, ![d] = g]
    BY <1>2 DEF SwapContainers
  <2>2. /\ tabs[c] \in Seq(Client) /\ tabs[c] # <<>>
        /\ tabs[d] \in Seq(Client) /\ tabs[d] # <<>>
    BY <2>1 DEF StripsInv, Live
  <2>3. /\ f \in Seq(Client) /\ f # <<>> /\ \A x \in ToSet(tabs[d]) : x \in ToSet(f)
        /\ g \in Seq(Client) /\ g # <<>> /\ \A x \in ToSet(tabs[c]) : x \in ToSet(g)
    BY <2>2, ReversedIs
  <2> HIDE DEF f, g
  <2> QED
    BY <2>1, <2>3, SwapStrips
<1> QED
  BY <1>1, <1>2

LEMMA StripsStep == ASSUME StripsInv, WindowsInv, Next PROVE StripsInv'
<1>1. \A t \in Mapped : Holder(t) \in Live
  BY TabOfHolder
<1>2. cursor.state # "normal" => Holder(cursor.grabbed) \in Live
  BY <1>1 DEF StripsInv, GrabIsLive
<1>3. ASSUME NEW t \in Client,
             ClientRequest(t) \/ ForeignRequest(t) \/ SetClientProperty(t)
      PROVE  StripsInv'
  BY <1>1, <1>3, RequestStrips DEF ClientRequest, ForeignRequest, SetClientProperty
<1>4. ASSUME NEW o \in Screen, Drag(o) \/ \E t \in Client : MoveToScreen(t, o)
      PROVE  StripsInv'
  BY <1>1, <1>2, <1>4, RequestStrips DEF Drag, MoveToScreen
<1> QED
  BY <1>3, <1>4, MapStrips, UnmapStrips, InsertClientStrips, SwapsKeepStrips, QuietStrips
     DEF Next

LEMMA InitIsStrips == Init => StripsInv
<1>1. \A c \in Container : tabs[c] \in Seq(Client) => ToSet(<<>>) = {}
  BY DEF ToSet
<1> QED
  BY DEF Init, StripsInv, NothingOutlives, GrabIsLive, Live

(* The mark, the list of minimized containers, a leaf or a rectangle never *)
(* outlives its container, however tabs are moved, swapped and unmapped    *)
(* (cwc_container_fini).                                                   *)
THEOREM NothingStaysBehind == Spec => []NothingOutlives
<1>1. StripsInv /\ WindowsInv /\ UNCHANGED vars => StripsInv' /\ WindowsInv'
  BY DEF StripsInv, NothingOutlives, GrabIsLive, Live, Mapped, WindowsInv, vars
<1>2. StripsInv /\ WindowsInv /\ [Next]_vars => StripsInv' /\ WindowsInv'
  BY <1>1, StripsStep, WindowsStep DEF Sound
<1>3. StripsInv => NothingOutlives
  BY DEF StripsInv
<1> QED
  BY <1>2, <1>3, InitIsStrips, InitIsSound, PTL DEF Spec

(* The pointer never drags a toplevel that is gone, nor one in a container *)
(* that is: unmapping it ends the drag (on_surface_unmap).                 *)
THEOREM GrabStaysLive == Spec => []GrabIsLive
<1>1. StripsInv /\ WindowsInv /\ UNCHANGED vars => StripsInv' /\ WindowsInv'
  BY DEF StripsInv, NothingOutlives, GrabIsLive, Live, Mapped, WindowsInv, vars
<1>2. StripsInv /\ WindowsInv /\ [Next]_vars => StripsInv' /\ WindowsInv'
  BY <1>1, StripsStep, WindowsStep DEF Sound
<1>3. StripsInv => GrabIsLive
  BY DEF StripsInv
<1> QED
  BY <1>2, <1>3, InitIsStrips, InitIsSound, PTL DEF Spec

LEMMA PlacesStep ==
  ASSUME StripsInv, WindowsInv, PlacesInv, Next
  PROVE  PlacesInv' /\ Placing
<1>1. \A t \in Mapped : Holder(t) \in Live
  BY TabOfHolder
<1>2. marked \in Live \cup {NULL} /\ (cursor.state # "normal" => cursor.grabbed \in Mapped)
  BY DEF StripsInv, NothingOutlives, GrabIsLive
<1>3. \A c \in Live : c \in Container /\ at[c] \in Screen
  BY DEF PlacesInv, Live
<1>4. ASSUME NEW t \in Client,
             ClientRequest(t) \/ ForeignRequest(t) \/ SetClientProperty(t)
      PROVE  PlacesInv' /\ Placing
  <2> DEFINE c == Holder(t)
  <2>1. c \in Live
    BY <1>1, <1>4 DEF ClientRequest, ForeignRequest, SetClientProperty
  <2>2. \E set \in BOOLEAN, o \in Screen :
          \/ SetFullscreen(c, set, o) \/ SetMaximized(c, set, o)
          \/ SetFloating(c, set, o) \/ SetMinimized(c, set)
    BY <1>3, <1>4, <2>1 DEF ClientRequest, ForeignRequest, SetClientProperty
  <2> HIDE DEF c
  <2> QED
    BY <2>1, <2>2, RequestPlaces
<1>5. ASSUME NEW o \in Screen, Drag(o) \/ \E t \in Client : MoveToScreen(t, o)
      PROVE  PlacesInv' /\ Placing
  <2>1. \E c \in Live : CrossOutput(c, o)
    BY <1>1, <1>2, <1>5 DEF Drag, MoveToScreen
  <2> QED
    BY <2>1, RequestPlaces
<1>6. ASSUME NEW t \in Client, SurfaceMap(t) \/ Unmap(t) \/ JumpTo(t)
                              \/ StartMove(t) \/ StartResize(t)
      PROVE  PlacesInv' /\ Placing
  BY <1>2, <1>6, MapPlaces, UnmapPlaces, JumpPlaces, StartPlaces
<1>7. ASSUME NEW c \in Container, NEW t \in Client, InsertClient(c, t)
      PROVE  PlacesInv' /\ Placing
  BY <1>7, InsertClientPlaces
<1>8. ASSUME NEW t, NEW u, NEW c, NEW d, NEW forward,
             \/ Refresh(t) \/ SwapClients(t, u) \/ FocusIdx(c, forward)
             \/ SwapContainers(c, d) \/ Mark(c)
      PROVE  PlacesInv' /\ Placing
  BY <1>8, TabsPlaces
<1> QED
  BY <1>4, <1>5, <1>6, <1>7, <1>8, DelayedPlaces, LayoutPlaces, ReleasePlaces DEF Next

(* A window keeps its leaf in a bsp layout through every request, move,    *)
(* swap and change of layout; the exceptions are those the code has        *)
(* (cwc_container_move_to_output, bsp_insert_container and their callers). *)
THEOREM TilesKeepPlace == Spec => TilesKeepTheirPlace
<1> DEFINE Inv == StripsInv /\ WindowsInv /\ PlacesInv
<1>1. Init => Inv
  BY InitIsStrips, InitIsSound DEF Init, PlacesInv, Live
<1>2. Inv /\ UNCHANGED vars => Inv' /\ Placing
  BY DEF StripsInv, NothingOutlives, GrabIsLive, Live, Mapped, WindowsInv, PlacesInv,
     Placing, Leafless, LayoutOf, vars
<1>3. Inv /\ [Next]_vars => Inv' /\ Placing
  BY <1>2, StripsStep, WindowsStep, PlacesStep DEF Sound
<1>4. Placing => [\A c \in Container :
                    Leafless(c)' /\ ~Leafless(c) =>
                      \/ layout # layout' /\ "minimized" \in win[c].bits
                      \/ cursor.state \notin {"normal", "move_bsp"} /\ cursor'.state = "normal"
                      \/ at[c] # at'[c] /\ LayoutOf(c) = "floating"]_vars
  BY DEF Placing, Excused
<1> QED
  BY <1>1, <1>3, <1>4, PTL DEF Spec, TilesKeepTheirPlace

----------------------------------------------------------------------------
(* The list of minimized containers                                        *)

(* Minimized as before.                                                    *)
Same(w, v) ==
  v \in Windows /\ ("minimized" \in v.bits <=> "minimized" \in w.bits)

Further == {"floating", "maximized", "fullscreen", "moving", "resizing"}

LEMMA SameIsTransitive ==
  ASSUME NEW u, NEW v, NEW w, Same(u, v), Same(v, w)
  PROVE  Same(u, w)
BY DEF Same

LEMMA BitsAreSame ==
  ASSUME NEW w \in Windows, NEW b \in Further
  PROVE  Same(w, Set(w, b)) /\ Same(w, Clear(w, b))
BY DEF Same, Set, Clear, Windows, Further, Bits

LEMMA LeafIsSame ==
  ASSUME NEW w \in Windows
  PROVE  /\ Same(w, w) /\ Same(w, Enable(w)) /\ Same(w, Disable(w))
         /\ Same(w, [w EXCEPT !.leaf = "none"]) /\ Same(w, [w EXCEPT !.rect = FALSE])
<1>1. \A l \in {"none", "on", "off"} : Same(w, [w EXCEPT !.leaf = l])
  BY DEF Same, Windows
<1>2. Same(w, [w EXCEPT !.rect = FALSE]) /\ Same(w, w)
  BY DEF Same, Windows
<1> QED
  BY <1>1, <1>2 DEF Enable, Disable

LEMMA InsertIsSame ==
  ASSUME NEW w \in Windows, NEW l, NEW first
  PROVE  Same(w, Insert(w, l, first))
<1> DEFINE new == Clear(w, "floating")
           leaf == IF first \/ IsTiled(new, l) THEN "on" ELSE "off"
           flaw == IF w.leaf = "none" THEN new.flaw ELSE "leaf"
<1>1. Same(w, new)
  BY BitsAreSame DEF Further
<1>2. Insert(w, l, first) = [new EXCEPT !.leaf = leaf, !.flaw = flaw]
  BY DEF Insert
<1>3. leaf \in {"none", "on", "off"} /\ flaw \in Flaws
  BY <1>1 DEF Same, Windows, Flaws
<1> HIDE DEF new, leaf, flaw
<1> QED
  BY <1>1, <1>2, <1>3 DEF Same, Windows

LEMMA MovedIsSame ==
  ASSUME NEW c, NEW w \in Windows, NEW o
  PROVE  Same(w, Moved(c, w, o)) /\ Same(w, Placed(c, w, o))
<1> DEFINE bare == [w EXCEPT !.leaf = "none"]
<1>1. Same(w, bare) /\ Same(w, w)
  BY LeafIsSame
<1> HIDE DEF bare
<1>2. Same(bare, Insert(bare, "bsp", FirstOn(o, c)))
  BY <1>1, InsertIsSame DEF Same
<1>3. Same(w, Insert(w, "bsp", FirstOn(o, c)))
  BY InsertIsSame
<1> QED
  BY <1>1, <1>2, <1>3 DEF Moved, Placed, Same, bare

LEMMA FullscreenIsSame ==
  ASSUME NEW c, NEW w \in Windows, NEW o
  PROVE  /\ Same(w, Maximize(w)) /\ Same(w, Unmaximize(c, w, o))
         /\ Same(w, EnterFullscreen(w)) /\ Same(w, LeaveFullscreen(c, w, o))
<1>1. ASSUME NEW v \in Windows
      PROVE  Same(v, Maximize(v))
  <2>1. Same(v, Set(v, "maximized"))
    BY BitsAreSame DEF Further
  <2>2. Same(Set(v, "maximized"), Maximize(v))
    BY <2>1, LeafIsSame DEF Maximize, Same
  <2> QED
    BY <2>1, <2>2, SameIsTransitive
<1>2. ASSUME NEW b \in {"fullscreen", "maximized"}
      PROVE  Same(w, IF IsFloating(w, LayoutOf(c)) THEN Moved(c, Clear(w, b), o)
                     ELSE Enable(Clear(w, b)))
  <2> DEFINE new == Clear(w, b)
  <2>1. Same(w, new)
    BY BitsAreSame DEF Further
  <2> HIDE DEF new
  <2>2. Same(new, Moved(c, new, o)) /\ Same(new, Enable(new))
    BY <2>1, LeafIsSame, MovedIsSame DEF Same
  <2>3. Same(w, Moved(c, new, o)) /\ Same(w, Enable(new))
    BY <2>1, <2>2, SameIsTransitive
  <2> QED
    BY <2>3 DEF new
<1>3. Same(w, EnterFullscreen(w))
  <2> DEFINE new == Disable(Set(w, "fullscreen"))
             flaw == IF w.rect THEN "rectangle" ELSE new.flaw
  <2>1. Same(w, new)
    <3>1. Same(w, Set(w, "fullscreen"))
      BY BitsAreSame DEF Further
    <3> QED
      BY <3>1, LeafIsSame, SameIsTransitive DEF Same
  <2>2. EnterFullscreen(w) = [new EXCEPT !.rect = TRUE, !.flaw = flaw]
    BY DEF EnterFullscreen
  <2>3. flaw \in Flaws
    BY <2>1 DEF Same, Windows, Flaws
  <2> HIDE DEF new, flaw
  <2> QED
    BY <2>1, <2>2, <2>3 DEF Same, Windows
<1>4. Same(w, LeaveFullscreen(c, w, o))
  <2> DEFINE new == IF IsFloating(w, LayoutOf(c)) THEN Moved(c, Clear(w, "fullscreen"), o)
                    ELSE Enable(Clear(w, "fullscreen"))
             bare == [new EXCEPT !.rect = FALSE]
  <2>1. Same(w, new)
    BY <1>2
  <2> HIDE DEF new
  <2>2. Same(w, bare)
    BY <2>1, LeafIsSame, SameIsTransitive DEF Same
  <2> HIDE DEF bare
  <2>3. LeaveFullscreen(c, w, o) \in {bare, Maximize(bare)}
    BY DEF LeaveFullscreen, bare, new
  <2> QED
    BY <1>1, <2>2, <2>3 DEF Same
<1> QED
  BY <1>1, <1>2, <1>3, <1>4 DEF Unmaximize

LEMMA FloatingIsSame ==
  ASSUME NEW c, NEW w \in Windows, NEW set, NEW o
  PROVE  Same(w, Floating(c, w, set, o))
<1>1. Same(w, Disable(Set(Moved(c, w, o), "floating")))
  <2> DEFINE new == Moved(c, w, o)
  <2>1. Same(w, new)
    BY MovedIsSame
  <2> HIDE DEF new
  <2>2. Same(new, Set(new, "floating"))
    BY <2>1, BitsAreSame DEF Same, Further
  <2>3. Same(Set(new, "floating"), Disable(Set(new, "floating")))
    BY <2>2, LeafIsSame DEF Same
  <2>4. Same(w, Disable(Set(new, "floating")))
    BY <2>1, <2>2, <2>3, SameIsTransitive
  <2> QED
    BY <2>4 DEF new
<1>2. Same(w, Enable(Clear(w, "floating"))) /\ Same(w, Clear(w, "floating")) /\ Same(w, w)
  <2>1. Same(w, Clear(w, "floating")) /\ Same(w, w)
    BY BitsAreSame, LeafIsSame DEF Further
  <2> QED
    BY <2>1, LeafIsSame, SameIsTransitive DEF Same
<1>3. Same(w, Insert(w, LayoutOf(c), FirstOn(at[c], c)))
  BY InsertIsSame
<1> QED
  BY <1>1, <1>2, <1>3 DEF Floating

LEMMA StoppedIsSame ==
  ASSUME WindowsInv
  PROVE  \A c \in Container : Same(win[c], Stopped[c])
<1> DEFINE d == Holder(cursor.grabbed)
           v == Dropped(d)
           w == [v EXCEPT !.bits = @ \ {"moving", "resizing"}]
<1>1. ASSUME d \in Container
      PROVE  Same(win[d], w)
  <2>1. win[d] \in Windows
    BY <1>1 DEF WindowsInv
  <2>2. /\ Same(win[d], Insert(win[d], LayoutOf(d), FirstOn(at[d], d)))
        /\ Same(win[d], Clear(win[d], "floating")) /\ Same(win[d], win[d])
    BY <2>1, InsertIsSame, BitsAreSame, LeafIsSame DEF Further
  <2>3. Same(win[d], v)
    BY <2>2 DEF Dropped
  <2> HIDE DEF d, v
  <2> QED
    BY <2>3 DEF Same, Windows
<1>2. Stopped = IF cursor.state = "normal" THEN win ELSE [win EXCEPT ![d] = w]
  BY DEF Stopped
<1> HIDE DEF d, w
<1> QED
  BY <1>1, <1>2 DEF WindowsInv, Same

(* A container is listed as before and minimized as before, or both are    *)
(* what the step makes of them.                                            *)
ListFollows ==
  \A c \in Live \cap Live' :
    (c \in minimized <=> "minimized" \in win[c].bits) =>
    (c \in minimized' <=> "minimized" \in win'[c].bits)

LEMMA ListIs ==
  ASSUME \A c \in Live' : c \in minimized' <=> c \in minimized,
         \A c \in Live \cap Live' : Same(win[c], win'[c])
  PROVE  ListFollows
<1> SUFFICES ASSUME NEW c \in Live \cap Live',
                    c \in minimized <=> "minimized" \in win[c].bits
             PROVE  c \in minimized' <=> "minimized" \in win'[c].bits
  BY DEF ListFollows
<1>1. c \in minimized' <=> c \in minimized
  OBVIOUS
<1>2. "minimized" \in win'[c].bits <=> "minimized" \in win[c].bits
  BY DEF Same
<1> QED
  BY <1>1, <1>2

LEMMA BecomesLists ==
  ASSUME WindowsInv, NEW c \in Live, NEW w, NEW o, Becomes(c, w, o), Same(win[c], w),
         minimized' = minimized
  PROVE  ListFollows
<1>1. \A d \in Live : d \in Container /\ Same(win[d], win[d])
  BY DEF Live, WindowsInv, Same
<1>2. win' = [win EXCEPT ![c] = w]
  BY DEF Becomes
<1>3. \A d \in Live : Same(win[d], win'[d])
  BY <1>1, <1>2 DEF WindowsInv
<1> QED
  BY <1>3, ListIs

(* Where a container is minimized or restored, the list is told.           *)
LEMMA MinimizedLists ==
  ASSUME WindowsInv, NEW c \in Live, NEW set \in BOOLEAN,
         win' = [win EXCEPT ![c] = Minimized(win[c], set, c \in minimized)],
         minimized' = IF set THEN minimized \cup {c} ELSE minimized \ {c}
  PROVE  ListFollows
<1> DEFINE v == Minimized(win[c], set, c \in minimized)
<1>1. c \in Container /\ win[c] \in Windows
  BY DEF Live, WindowsInv
<1>2. "minimized" \in v.bits <=> set
  <2>1. CASE set
    <3> DEFINE new == Disable(Set(win[c], "minimized"))
    <3>1. new \in Windows /\ "minimized" \in new.bits
      BY <1>1 DEF Disable, Set, Windows, Bits
    <3>2. v = [new EXCEPT !.flaw = IF c \in minimized THEN "link" ELSE @]
      BY <2>1 DEF Minimized
    <3> HIDE DEF new, v
    <3> QED
      BY <2>1, <3>1, <3>2 DEF Windows
  <2>2. CASE ~set
    BY <1>1, <2>2 DEF Minimized, Enable, Clear, Windows
  <2> QED
    BY <2>1, <2>2
<1> HIDE DEF v
<1>3. win' = [win EXCEPT ![c] = v]
  BY DEF v
<1> QED
  BY <1>1, <1>2, <1>3 DEF ListFollows, Live, WindowsInv

LEMMA RequestLists ==
  ASSUME WindowsInv, NEW c \in Live, NEW set \in BOOLEAN, NEW o,
         \/ SetFullscreen(c, set, o) \/ SetMaximized(c, set, o)
         \/ SetFloating(c, set, o) \/ SetMinimized(c, set) \/ CrossOutput(c, o)
  PROVE  ListFollows
<1>1. win[c] \in Windows
  BY DEF Live, WindowsInv
<1>2. CASE SetFullscreen(c, set, o)
  <2>1. Same(win[c], Fullscreen(c, win[c], set, o))
    BY <1>1, FullscreenIsSame DEF Fullscreen
  <2> QED
    BY <1>2, <2>1, BecomesLists DEF SetFullscreen
<1>3. CASE SetMaximized(c, set, o)
  <2>1. Same(win[c], Maximized(c, win[c], set, o))
    <3>1. Same(win[c], LeaveFullscreen(c, win[c], o))
      BY <1>1, FullscreenIsSame
    <3>2. Same(win[c], Maximize(LeaveFullscreen(c, win[c], o)))
      BY <3>1, FullscreenIsSame DEF Same
    <3> QED
      BY <1>1, <3>2, FullscreenIsSame DEF Maximized
  <2> QED
    BY <1>3, <2>1, BecomesLists DEF SetMaximized
<1>4. CASE SetFloating(c, set, o)
  BY <1>1, <1>4, FloatingIsSame, BecomesLists DEF SetFloating
<1>5. CASE CrossOutput(c, o)
  BY <1>1, <1>5, MovedIsSame, BecomesLists DEF CrossOutput
<1>6. CASE SetMinimized(c, set)
  BY <1>6, MinimizedLists DEF SetMinimized, Becomes
<1> QED
  BY <1>2, <1>3, <1>4, <1>5, <1>6

LEMMA TabsLists ==
  ASSUME WindowsInv, win' = win, minimized' = minimized
  PROVE  ListFollows
<1>1. \A c \in Live \cap Live' : Same(win[c], win'[c])
  BY DEF WindowsInv, Live, Same
<1> QED
  BY <1>1, ListIs

(* The container that goes is no longer listed, nor is it a container.     *)
LEMMA LeaveLists ==
  ASSUME NEW c, NEW v, NEW rest, Leave(c, v, rest), rest = <<>> => c \notin Live',
         v = [d \in Container |-> v[d]], \A d \in Container : Same(win[d], v[d])
  PROVE  ListFollows
<1>1. \A d \in Live \cap Live' : Same(win[d], win'[d])
  BY DEF Leave, Live
<1>2. \A d \in Live' : d \in minimized' <=> d \in minimized
  BY DEF Leave, Fini
<1> QED
  BY <1>1, <1>2, ListIs

LEMMA OneWindowLists ==
  ASSUME WindowsInv, NEW c, NEW v, win' = [win EXCEPT ![c] = v],
         c \in Container => Same(win[c], v), minimized' = minimized
  PROVE  ListFollows
<1>1. \A d \in Live \cap Live' : Same(win[d], win'[d])
  BY DEF WindowsInv, Live, Same
<1> QED
  BY <1>1, ListIs

LEMMA ListsStep ==
  ASSUME StripsInv, WindowsInv, Next
  PROVE  ListFollows
<1>1. \A t \in Mapped : Holder(t) \in Live /\ Holder(t) \in Container
  BY TabOfHolder
<1>2. cursor.state # "normal" => Holder(cursor.grabbed) \in Live
  BY <1>1 DEF StripsInv, GrabIsLive
<1>3. ASSUME NEW t \in Client, MapIntoMarked(t)
      PROVE  ListFollows
  <2>1. /\ win' = [win EXCEPT ![marked] = Placed(marked, win[marked], at[marked])]
        /\ minimized' = minimized
    BY <1>3 DEF MapIntoMarked
  <2>2. marked \in Container =>
          Same(win[marked], Placed(marked, win[marked], at[marked]))
    BY MovedIsSame DEF WindowsInv
  <2> QED
    BY <2>1, <2>2, OneWindowLists
<1>4. ASSUME NEW t \in Client, NEW c \in Container, NEW wants, NEW o,
             MapAlone(t, c, wants, o)
      PROVE  ListFollows
  <2>1. /\ c \notin Live /\ \E v : win' = [win EXCEPT ![c] = v]
        /\ minimized' \in {minimized, minimized \cup {c}}
    BY <1>4 DEF MapAlone
  <2>2. \A d \in Live : win'[d] = win[d] /\ (d \in minimized' <=> d \in minimized)
    BY <2>1 DEF WindowsInv, Live
  <2> QED
    BY <2>2 DEF ListFollows
<1>5. ASSUME NEW t \in Client, Unmap(t)
      PROVE  ListFollows
  <2> DEFINE c == Holder(t)
             rest == Unlinked(tabs[c], t)
  <2>1. /\ tabs' = [tabs EXCEPT ![c] = rest] /\ c \in Container
        /\ Leave(c, IF cursor.grabbed = t THEN Stopped ELSE win, rest)
    BY <1>1, <1>5 DEF Unmap, Without
  <2> HIDE DEF c, rest
  <2>2. rest = <<>> => c \notin Live'
    BY <2>1 DEF Live, StripsInv
  <2>3. CASE cursor.grabbed = t
    BY <2>1, <2>2, <2>3, StoppedStays, StoppedIsSame, LeaveLists
  <2>4. CASE cursor.grabbed # t
    <3>1. win = [d \in Container |-> win[d]] /\ \A d \in Container : Same(win[d], win[d])
      BY DEF WindowsInv, Same
    <3> QED
      BY <2>1, <2>2, <2>4, <3>1, LeaveLists
  <2> QED
    BY <2>3, <2>4
<1>6. ASSUME NEW c, NEW t \in Client, InsertClient(c, t)
      PROVE  ListFollows
  <2> DEFINE d == Holder(t)
             rest == Unlinked(tabs[d], t)
  <2>1. /\ tabs' = [tabs EXCEPT ![d] = rest, ![c] = <<t>> \o @] /\ d \in Container
        /\ Leave(d, win, rest) /\ c # d
    BY <1>1, <1>6 DEF InsertClient, Without
  <2> HIDE DEF d, rest
  <2>2. rest = <<>> => d \notin Live'
    BY <2>1 DEF Live, StripsInv
  <2>3. win = [e \in Container |-> win[e]] /\ \A e \in Container : Same(win[e], win[e])
    BY DEF WindowsInv, Same
  <2> QED
    BY <2>1, <2>2, <2>3, LeaveLists
<1>7. ASSUME NEW t \in Client,
             ClientRequest(t) \/ ForeignRequest(t) \/ SetClientProperty(t)
      PROVE  ListFollows
  BY <1>1, <1>7, RequestLists DEF ClientRequest, ForeignRequest, SetClientProperty
<1>8. ASSUME NEW o \in Screen, Drag(o) \/ \E t \in Client : MoveToScreen(t, o)
      PROVE  ListFollows
  <2>1. \E c \in Live : CrossOutput(c, o)
    BY <1>1, <1>2, <1>8 DEF Drag, MoveToScreen
  <2> QED
    BY <2>1, RequestLists
<1>9. ASSUME NEW c \in Container, DelayedMaxFull(c)
      PROVE  ListFollows
  <2> DEFINE w == win[c]
             v == IF "fullscreen" \in w.bits THEN EnterFullscreen(w)
                  ELSE IF "maximized" \in w.bits THEN Maximize(w) ELSE w
  <2>1. win' = [win EXCEPT ![c] = v] /\ minimized' = minimized
    BY <1>9 DEF DelayedMaxFull
  <2>2. w \in Windows
    BY DEF WindowsInv
  <2>3. Same(w, v)
    BY <2>2, FullscreenIsSame, LeafIsSame
  <2> QED
    BY <2>1, <2>3, OneWindowLists
<1>10. ASSUME NEW o, NEW mode, SetLayout(o, mode)
       PROVE  ListFollows
  <2>1. \A c \in Container : Same(win[c], win'[c])
    BY <1>10, InsertIsSame, LeafIsSame DEF SetLayout, WindowsInv
  <2> QED
    BY <1>10, <2>1, ListIs DEF SetLayout, Live
<1>11. ASSUME NEW t \in Client, JumpTo(t)
       PROVE  ListFollows
  <2> DEFINE c == Holder(t)
  <2>1. c \in Live
    BY <1>1, <1>11 DEF JumpTo
  <2>2. CASE "minimized" \in win[c].bits
    <3>1. /\ win' = [win EXCEPT ![c] = Minimized(win[c], FALSE, c \in minimized)]
          /\ minimized' = minimized \ {c}
      BY <1>11, <2>2 DEF JumpTo
    <3> HIDE DEF c
    <3> QED
      BY <2>1, <3>1, MinimizedLists
  <2>3. CASE "minimized" \notin win[c].bits
    <3>1. win' = [win EXCEPT ![c] = win[c]] /\ minimized' = minimized
      BY <1>11, <2>3 DEF JumpTo
    <3> HIDE DEF c
    <3> QED
      BY <3>1, LeafIsSame, OneWindowLists DEF WindowsInv
  <2> QED
    BY <2>2, <2>3
<1>12. ASSUME NEW t \in Client, StartMove(t) \/ StartResize(t)
       PROVE  ListFollows
  <2> DEFINE c == Holder(t)
             new == Set(win[c], "moving")
  <2>1. c \in Container /\ win[c] \in Windows
    BY <1>1, <1>12 DEF StartMove, StartResize, CanEnterInteractive, WindowsInv
  <2>2. Same(win[c], new) /\ Same(win[c], Set(win[c], "resizing"))
    BY <2>1, BitsAreSame DEF Further
  <2>3. Same(win[c], [new EXCEPT !.leaf = "none"])
    <3> HIDE DEF c, new
    <3> QED
      BY <2>2, LeafIsSame, SameIsTransitive DEF Same
  <2>4. \E v \in {new, [new EXCEPT !.leaf = "none"], Set(win[c], "resizing")} :
          win' = [win EXCEPT ![c] = v] /\ minimized' = minimized
    BY <1>12 DEF StartMove, StartResize
  <2> HIDE DEF c, new
  <2> QED
    BY <2>2, <2>3, <2>4, OneWindowLists
<1>13. CASE ButtonRelease
  <2>1. \A c \in Live \cap Live' : Same(win[c], win'[c])
    BY <1>13, StoppedIsSame DEF ButtonRelease, Live
  <2> QED
    BY <1>13, <2>1, ListIs DEF ButtonRelease
<1>14. ASSUME NEW t, NEW u, NEW c, NEW d, NEW forward,
              \/ Refresh(t) \/ SwapClients(t, u) \/ FocusIdx(c, forward)
              \/ SwapContainers(c, d) \/ Mark(c)
       PROVE  ListFollows
  BY <1>14, TabsLists DEF Refresh, SwapClients, FocusIdx, SwapContainers, Mark, OnlyTabs
<1> QED
  BY <1>3, <1>4, <1>5, <1>6, <1>7, <1>8, <1>9, <1>10, <1>11, <1>12, <1>13, <1>14
     DEF Next, SurfaceMap

(* Whoever minimizes or restores a container keeps the list of minimized   *)
(* containers in step with its state, across moves, swaps, drags and jumps *)
(* (cwc_container_set_minimized, cwc_container_fini).                      *)
THEOREM ListKeepsUp == Spec => ListFollowsState
<1> DEFINE Inv == StripsInv /\ WindowsInv
<1>1. Inv /\ UNCHANGED vars => Inv' /\ ListFollows
  BY DEF StripsInv, NothingOutlives, GrabIsLive, Live, Mapped, WindowsInv, ListFollows, vars
<1>2. Inv /\ [Next]_vars => Inv' /\ ListFollows
  BY <1>1, StripsStep, WindowsStep, ListsStep DEF Sound
<1>3. ListFollows => [\A c \in Live \cap Live' :
                        (c \in minimized <=> "minimized" \in win[c].bits) =>
                        (c \in minimized' <=> "minimized" \in win'[c].bits)]_vars
  BY DEF ListFollows
<1> QED
  BY <1>2, <1>3, InitIsStrips, InitIsSound, PTL DEF Spec, ListFollowsState

----------------------------------------------------------------------------
(* The lists of a container                                                *)

(* The places of a list of toplevels.                                      *)
LEMMA TabsAre ==
  ASSUME NEW s \in Seq(Client)
  PROVE  /\ Len(s) \in Nat /\ DOMAIN s = 1 .. Len(s)
         /\ \A i \in 1 .. Len(s) : s[i] \in Client
         /\ \A t : t \in ToSet(s) <=> \E i \in 1 .. Len(s) : s[i] = t
         /\ ToSet(s) \subseteq Client
         /\ IsInjective(s) <=> \A i, j \in 1 .. Len(s) : s[i] = s[j] => i = j
         /\ s = <<>> <=> Len(s) = 0
<1>1. Len(s) \in Nat /\ DOMAIN s = 1 .. Len(s) /\ \A i \in 1 .. Len(s) : s[i] \in Client
  OBVIOUS
<1>2. s = <<>> <=> Len(s) = 0
  OBVIOUS
<1>3. \A t : t \in ToSet(s) <=> \E i \in 1 .. Len(s) : s[i] = t
  BY InSet
<1>4. IsInjective(s) <=> \A i, j \in 1 .. Len(s) : s[i] = s[j] => i = j
  BY <1>1, Zenon DEF IsInjective
<1> QED BY <1>1, <1>2, <1>3, <1>4

(* Every member of s is in r or in X.                                      *)
LEMMA Among ==
  ASSUME NEW s \in Seq(Client), NEW r \in Seq(Client), NEW X,
         \A i \in 1 .. Len(s) : s[i] \in X \/ \E k \in 1 .. Len(r) : s[i] = r[k]
  PROVE  \A u \in ToSet(s) : u \in ToSet(r) \cup X
<1> SUFFICES ASSUME NEW u \in ToSet(s), u \notin X PROVE u \in ToSet(r)
  OBVIOUS
<1>1. PICK i \in 1 .. Len(s) : s[i] = u
  BY InSet
<1>2. PICK k \in 1 .. Len(r) : s[i] = r[k]
  BY <1>1
<1> QED
  BY <1>1, <1>2, InSet

(* A list without repetition loses exactly the toplevel unlinked.          *)
LEMMA UnlinkedFrom ==
  ASSUME NEW s \in Seq(Client), IsInjective(s), NEW t \in ToSet(s)
  PROVE  /\ Unlinked(s, t) \in Seq(Client) /\ IsInjective(Unlinked(s, t))
         /\ ToSet(Unlinked(s, t)) = ToSet(s) \ {t}
<1> DEFINE i == CHOOSE j \in DOMAIN s : s[j] = t
           r == SubSeq(s, 1, i - 1) \o SubSeq(s, i + 1, Len(s))
<1>1. i \in 1 .. Len(s) /\ s[i] = t
  <2>1. \E j \in DOMAIN s : s[j] = t
    BY DEF ToSet
  <2>2. i \in DOMAIN s /\ s[i] = t
    BY <2>1
  <2> QED
    BY <2>2, TabsAre
<1>2. Unlinked(s, t) = r
  BY DEF Unlinked, RemoveAt
<1> HIDE DEF i
<1>3. /\ r \in Seq(Client) /\ Len(r) = Len(s) - 1
      /\ \A j \in 1 .. Len(s) - 1 : r[j] = IF j < i THEN s[j] ELSE s[j + 1]
  BY <1>1, RemovedIs
<1>4. /\ \A k \in 1 .. Len(r) : \E j \in 1 .. Len(s) : r[k] = s[j]
      /\ \A j \in 1 .. Len(s) : j # i => \E k \in 1 .. Len(r) : r[k] = s[j]
  BY <1>1, ListWithout
<1> HIDE DEF r
<1>5. \A j, k \in 1 .. Len(s) : s[j] = s[k] => j = k
  BY TabsAre
<1>6. \A k \in 1 .. Len(r) : r[k] # t
  <2> SUFFICES ASSUME NEW k \in 1 .. Len(r), r[k] = t PROVE FALSE
    OBVIOUS
  <2>1. CASE k < i
    <3>1. r[k] = s[k] /\ k \in 1 .. Len(s) /\ k # i
      BY <1>1, <1>3, <2>1, TabsAre
    <3> QED
      BY <1>1, <1>5, <3>1
  <2>2. CASE ~(k < i)
    <3>1. r[k] = s[k + 1] /\ k + 1 \in 1 .. Len(s) /\ k + 1 # i
      BY <1>1, <1>3, <2>2, TabsAre
    <3> QED
      BY <1>1, <1>5, <3>1
  <2> QED
    BY <2>1, <2>2
<1>7. ASSUME NEW j \in 1 .. Len(r), NEW k \in 1 .. Len(r), r[j] = r[k]
      PROVE  j = k
  <2> DEFINE p(x) == IF x < i THEN x ELSE x + 1
  <2>1. p(j) \in 1 .. Len(s) /\ p(k) \in 1 .. Len(s)
        /\ r[j] = s[p(j)] /\ r[k] = s[p(k)] /\ j \in Int /\ k \in Int
    BY <1>1, <1>3
  <2>2. p(j) = p(k)
    BY <1>5, <1>7, <2>1
  <2> QED
    BY <1>1, <2>1, <2>2
<1>8. IsInjective(r)
  BY <1>3, <1>7, TabsAre
<1>9. ToSet(r) = ToSet(s) \ {t}
  <2>1. \A u \in ToSet(r) : u \in ToSet(s) \cup {}
    BY <1>3, <1>4, Among
  <2>2. t \notin ToSet(r)
    BY <1>3, <1>6, InSet
  <2>3. \A j \in 1 .. Len(s) : s[j] \in {t} \/ \E k \in 1 .. Len(r) : s[j] = r[k]
    BY <1>1, <1>4
  <2>4. \A u \in ToSet(s) : u \in ToSet(r) \cup {t}
    BY <1>3, <2>3, Among
  <2> QED
    BY <2>1, <2>2, <2>4
<1> QED
  BY <1>2, <1>3, <1>8, <1>9

(* A toplevel that is linked is a new one, at the head or at the tail.     *)
LEMMA LinkedTo ==
  ASSUME NEW s \in Seq(Client), IsInjective(s), NEW t \in Client, t \notin ToSet(s)
  PROVE  /\ <<t>> \o s \in Seq(Client) /\ IsInjective(<<t>> \o s)
         /\ ToSet(<<t>> \o s) = ToSet(s) \cup {t} /\ <<t>> \o s # <<>>
         /\ Append(s, t) \in Seq(Client) /\ IsInjective(Append(s, t))
         /\ ToSet(Append(s, t)) = ToSet(s) \cup {t}
         /\ Append(s, t) # <<>> /\ Last(Append(s, t)) = t
<1> DEFINE h == <<t>> \o s
           r == Append(s, t)
<1>1. /\ h \in Seq(Client) /\ Len(h) = Len(s) + 1 /\ h[1] = t
      /\ \A k \in 2 .. Len(h) : k - 1 \in 1 .. Len(s) /\ h[k] = s[k - 1]
      /\ \A j \in 1 .. Len(s) : h[j + 1] = s[j]
  BY ListWith
<1>2. /\ r \in Seq(Client) /\ r # <<>> /\ Len(r) = Len(s) + 1
      /\ \A k \in 1 .. Len(s) : r[k] = s[k]
      /\ r[Len(s) + 1] = t
  BY AppendProperties
<1> HIDE DEF h, r
<1>3. /\ Len(s) \in Nat /\ \A j, k \in 1 .. Len(s) : s[j] = s[k] => j = k
      /\ \A j \in 1 .. Len(s) : s[j] # t
  BY TabsAre
<1>4. IsInjective(h)
  <2> SUFFICES ASSUME NEW j \in 1 .. Len(h), NEW k \in 1 .. Len(h), h[j] = h[k]
               PROVE  j = k
    BY <1>1, TabsAre
  <2>1. \A n \in 1 .. Len(h) : n = 1 \/ n \in 2 .. Len(h)
    BY <1>1
  <2>2. CASE j = 1 \/ k = 1
    <3>1. \A n \in 2 .. Len(h) : h[n] # t
      BY <1>1, <1>3
    <3> QED
      BY <1>1, <2>1, <2>2, <3>1
  <2>3. CASE j # 1 /\ k # 1
    <3>1. j - 1 = k - 1
      BY <1>1, <1>3, <2>1, <2>3
    <3> QED
      BY <3>1
  <2> QED
    BY <2>2, <2>3
<1>5. IsInjective(r)
  <2> SUFFICES ASSUME NEW j \in 1 .. Len(r), NEW k \in 1 .. Len(r), r[j] = r[k]
               PROVE  j = k
    BY <1>2, TabsAre
  <2>1. \A n \in 1 .. Len(r) : n = Len(s) + 1 \/ n \in 1 .. Len(s)
    BY <1>2, <1>3
  <2> QED
    BY <1>2, <1>3, <2>1
<1>6. ToSet(h) = ToSet(s) \cup {t}
  <2>1. \A n \in 1 .. Len(h) : n = 1 \/ n \in 2 .. Len(h)
    BY <1>1
  <2>2. \A n \in 1 .. Len(h) : h[n] \in {t} \/ \E m \in 1 .. Len(s) : h[n] = s[m]
    BY <1>1, <2>1
  <2>3. /\ 1 \in 1 .. Len(h)
        /\ \A n \in 1 .. Len(s) : n + 1 \in 1 .. Len(h) /\ h[n + 1] = s[n]
    BY <1>1, <1>3
  <2>4. \A n \in 1 .. Len(s) : s[n] \in {} \/ \E m \in 1 .. Len(h) : s[n] = h[m]
    BY <2>3
  <2>5. t \in ToSet(h)
    BY <1>1, <2>3, InSet
  <2>6. /\ \A u \in ToSet(h) : u \in ToSet(s) \cup {t}
        /\ \A u \in ToSet(s) : u \in ToSet(h) \cup {}
    BY <1>1, <2>2, <2>4, Among
  <2> QED
    BY <2>5, <2>6
<1>7. ToSet(r) = ToSet(s) \cup {t}
  <2>1. \A n \in 1 .. Len(r) : n = Len(s) + 1 \/ n \in 1 .. Len(s)
    BY <1>2, <1>3
  <2>2. \A n \in 1 .. Len(r) : r[n] \in {t} \/ \E m \in 1 .. Len(s) : r[n] = s[m]
    BY <1>2, <2>1
  <2>3. Len(s) + 1 \in 1 .. Len(r) /\ \A n \in 1 .. Len(s) : n \in 1 .. Len(r) /\ r[n] = s[n]
    BY <1>2, <1>3
  <2>4. \A n \in 1 .. Len(s) : s[n] \in {} \/ \E m \in 1 .. Len(r) : s[n] = r[m]
    BY <2>3
  <2>5. t \in ToSet(r)
    BY <1>2, <2>3, InSet
  <2>6. /\ \A u \in ToSet(r) : u \in ToSet(s) \cup {t}
        /\ \A u \in ToSet(s) : u \in ToSet(r) \cup {}
    BY <1>2, <2>2, <2>4, Among
  <2> QED
    BY <2>5, <2>6
<1>8. h # <<>> /\ r[Len(r)] = t
  BY <1>1, <1>2, <1>3, TabsAre
<1> QED
  BY <1>1, <1>2, <1>4, <1>5, <1>6, <1>7, <1>8 DEF h, r, Last

LEMMA ReversedOf ==
  ASSUME NEW s \in Seq(Client), IsInjective(s)
  PROVE  /\ Reverse(s) \in Seq(Client) /\ IsInjective(Reverse(s))
         /\ ToSet(Reverse(s)) = ToSet(s)
<1> DEFINE r == Reverse(s)
<1>1. Len(s) \in Nat /\ \A i \in 1 .. Len(s) : (Len(s) - i) + 1 \in 1 .. Len(s)
  BY TabsAre
<1>2. r \in [1 .. Len(s) -> Client]
  BY <1>1, TabsAre DEF Reverse
<1>3. /\ r \in Seq(Client) /\ Len(r) = Len(s)
      /\ \A i \in 1 .. Len(s) : r[i] = s[(Len(s) - i) + 1]
  BY <1>1, <1>2 DEF Reverse
<1> HIDE DEF r
<1>4. \A i \in 1 .. Len(s) : r[(Len(s) - i) + 1] = s[i]
  <2> TAKE i \in 1 .. Len(s)
  <2>1. (Len(s) - ((Len(s) - i) + 1)) + 1 = i
    BY <1>1
  <2> QED
    BY <1>1, <1>3, <2>1
<1>5. IsInjective(r)
  <2> SUFFICES ASSUME NEW j \in 1 .. Len(r), NEW k \in 1 .. Len(r), r[j] = r[k]
               PROVE  j = k
    BY <1>3, TabsAre
  <2>1. \A m, n \in 1 .. Len(s) : s[m] = s[n] => m = n
    BY TabsAre
  <2>2. (Len(s) - j) + 1 = (Len(s) - k) + 1
    BY <1>1, <1>3, <2>1
  <2> QED
    BY <1>1, <1>3, <2>2
<1>6. ToSet(r) = ToSet(s)
  <2>1. /\ \A n \in 1 .. Len(r) : r[n] \in {} \/ \E m \in 1 .. Len(s) : r[n] = s[m]
        /\ \A n \in 1 .. Len(s) : s[n] \in {} \/ \E m \in 1 .. Len(r) : s[n] = r[m]
    BY <1>1, <1>3, <1>4
  <2>2. /\ \A u \in ToSet(r) : u \in ToSet(s) \cup {}
        /\ \A u \in ToSet(s) : u \in ToSet(r) \cup {}
    BY <1>3, <2>1, Among
  <2> QED
    BY <2>2
<1> QED
  BY <1>3, <1>5, <1>6 DEF r

(* The front of a container is one of its tabs, and a tab has a neighbour. *)
LEMMA LastIs ==
  ASSUME NEW s \in Seq(Client), s # <<>>
  PROVE  Last(s) \in ToSet(s)
<1>1. Len(s) \in 1 .. Len(s)
  BY TabsAre
<1> QED
  BY <1>1, TabsAre DEF Last

LEMMA NeighbourIs ==
  ASSUME NEW s \in Seq(Client), NEW t \in ToSet(s), NEW forward
  PROVE  RingNeighbour(s, t, forward) \in ToSet(s)
<1> DEFINE i == CHOOSE j \in 1 .. Len(s) : s[j] = t
<1>1. i \in 1 .. Len(s)
  BY TabsAre
<1> HIDE DEF i
<1>2. /\ (IF i = 1 THEN Len(s) ELSE i - 1) \in 1 .. Len(s)
      /\ (IF i = Len(s) THEN 1 ELSE i + 1) \in 1 .. Len(s)
  BY <1>1, TabsAre
<1> QED
  BY <1>2, TabsAre DEF RingNeighbour, i

(* The two lists of one container.                                         *)
Strip(tab, order) ==
  /\ tab \in Seq(Client) /\ order \in Seq(Client)
  /\ IsInjective(tab) /\ IsInjective(order) /\ ToSet(tab) = ToSet(order)

StripsAre ==
  /\ tabs = [c \in Container |-> tabs[c]] /\ stack = [c \in Container |-> stack[c]]
  /\ \A c \in Container : Strip(tabs[c], stack[c])
  /\ \A c, d \in Container : c # d => \A u \in ToSet(tabs[c]) : u \notin ToSet(tabs[d])
  /\ shown \subseteq Client

(* What a step is allowed to do with the fronts (FrontStaysShown).         *)
Fronts ==
  \A c \in Live' :
    Last(stack'[c]) \notin shown' =>
      \/ c \in Live /\ Last(stack[c]) \notin shown
      \/ \E d \in Live \ {c} : Last(stack'[c]) \in ToSet(tabs[d])

(* A step that writes to the lists of the containers of K alone.           *)
Writes(K) ==
  /\ tabs' = [c \in Container |-> tabs'[c]] /\ stack' = [c \in Container |-> stack'[c]]
  /\ \A e \in Container \ K : tabs'[e] = tabs[e] /\ stack'[e] = stack[e]

(* Where a mapped toplevel is.                                             *)
LEMMA HolderHas ==
  ASSUME NEW t \in Mapped
  PROVE  Holder(t) \in Live /\ Holder(t) \in Container /\ t \in ToSet(tabs[Holder(t)])
<1>1. \E c \in Live : t \in ToSet(tabs[c])
  BY DEF Mapped
<1> QED
  BY <1>1 DEF Holder, Live

(* The front is one of the tabs.                                           *)
LEMMA FrontIsTab ==
  ASSUME NEW tab, NEW order, Strip(tab, order)
  PROVE  /\ tab # <<>> => order # <<>> /\ Last(order) \in ToSet(tab)
         /\ order # <<>> => Last(order) \in ToSet(tab)
         /\ \A u \in ToSet(tab) : u \in Client
         /\ (\E u : u \in ToSet(tab)) => tab # <<>> /\ order # <<>>
<1>1. \A s \in Seq(Client) : (\E u : u \in ToSet(s)) => s # <<>>
  BY DEF ToSet
<1>2. tab # <<>> => Last(tab) \in ToSet(tab)
  BY LastIs DEF Strip
<1>3. order # <<>> => Last(order) \in ToSet(order)
  BY LastIs DEF Strip
<1>4. ToSet(tab) \subseteq Client
  BY TabsAre DEF Strip
<1> QED
  BY <1>1, <1>2, <1>3, <1>4 DEF Strip

(* The lists stay lists of different toplevels, each in one container, if  *)
(* what is linked was there or is in no container (N).                     *)
LEMMA StripsMove ==
  ASSUME StripsAre, NEW K \in SUBSET Container, NEW N, Writes(K), shown' \subseteq Client,
         \A e \in K : Strip(tabs'[e], stack'[e]),
         \A e \in K : \A u \in ToSet(tabs'[e]) :
           u \in N \/ \E k \in K : u \in ToSet(tabs[k]),
         \A u \in N : \A e \in Container \ K : u \notin ToSet(tabs[e]),
         \A d, e \in K : d # e => \A u \in ToSet(tabs'[d]) : u \notin ToSet(tabs'[e])
  PROVE  StripsAre'
<1>1. ASSUME NEW d \in Container, NEW e \in Container, d # e, NEW u \in ToSet(tabs'[d])
      PROVE  u \notin ToSet(tabs'[e])
  <2>1. CASE d \in K /\ e \in K
    BY <1>1, <2>1
  <2>2. CASE d \notin K /\ e \notin K
    BY <1>1, <2>2 DEF Writes, StripsAre
  <2>3. CASE d \in K /\ e \notin K
    BY <1>1, <2>3 DEF Writes, StripsAre
  <2>4. CASE d \notin K /\ e \in K
    BY <1>1, <2>4 DEF Writes, StripsAre
  <2> QED
    BY <2>1, <2>2, <2>3, <2>4
<1>2. \A e \in Container : Strip(tabs'[e], stack'[e])
  BY DEF Writes, StripsAre
<1> QED
  BY <1>1, <1>2 DEF Writes, StripsAre, Strip

(* A front is not lost where nothing is written, if what is hidden is a    *)
(* tab of a container that is written to.                                  *)
LEMMA FrontsStay ==
  ASSUME StripsAre, NEW K \in SUBSET Container, Writes(K),
         \A u \in shown : u \in shown' \/ \E k \in K : u \in ToSet(tabs[k]),
         \A e \in K : e \in Live' =>
           \/ Last(stack'[e]) \in shown'
           \/ \E d \in Live \ {e} : Last(stack'[e]) \in ToSet(tabs[d])
  PROVE  Fronts
<1> SUFFICES ASSUME NEW c \in Live', Last(stack'[c]) \notin shown', c \notin K
             PROVE  c \in Live /\ Last(stack[c]) \notin shown
  BY DEF Fronts
<1>1. c \in Container /\ tabs'[c] # <<>>
  BY DEF Live
<1>2. tabs'[c] = tabs[c] /\ stack'[c] = stack[c]
  BY <1>1 DEF Writes
<1>3. c \in Live /\ Strip(tabs[c], stack[c])
  BY <1>1, <1>2 DEF Live, StripsAre
<1>4. Last(stack[c]) \in ToSet(tabs[c])
  BY <1>1, <1>2, <1>3, FrontIsTab
<1>5. \A k \in K : Last(stack[c]) \notin ToSet(tabs[k])
  BY <1>1, <1>4 DEF StripsAre
<1> QED
  BY <1>2, <1>3, <1>5

(* What cwc_container_refresh hides and shows.                             *)
LEMMA RefreshedIs ==
  ASSUME NEW S, NEW tab, NEW order
  PROVE  LET R == Refreshed(S, tab, order)
         IN  /\ \A u \in S : u \in R \/ u \in ToSet(tab)
             /\ order # <<>> => Last(order) \in R
             /\ \A u \in R : u \in S \/ (order # <<>> /\ u = Last(order))
BY DEF Refreshed

(* The same for the lists of one container and of two.                     *)
LEMMA OneStrip ==
  ASSUME StripsAre, NEW c \in Container, NEW N, Writes({c}), shown' \subseteq Client,
         Strip(tabs'[c], stack'[c]),
         \A u \in ToSet(tabs'[c]) : u \in N \/ u \in ToSet(tabs[c]),
         \A u \in N : \A e \in Container \ {c} : u \notin ToSet(tabs[e])
  PROVE  StripsAre'
<1> DEFINE K == {c}
<1>1. /\ K \in SUBSET Container /\ Writes(K)
      /\ \A e \in K : Strip(tabs'[e], stack'[e])
      /\ \A e \in K : \A u \in ToSet(tabs'[e]) : u \in N \/ \E k \in K : u \in ToSet(tabs[k])
      /\ \A u \in N : \A e \in Container \ K : u \notin ToSet(tabs[e])
      /\ \A d, e \in K : d # e => \A u \in ToSet(tabs'[d]) : u \notin ToSet(tabs'[e])
  OBVIOUS
<1> HIDE DEF K
<1> QED
  BY <1>1, StripsMove

LEMMA TwoStrips ==
  ASSUME StripsAre, NEW c \in Container, NEW d \in Container, c # d, Writes({c, d}),
         shown' \subseteq Client,
         Strip(tabs'[c], stack'[c]), Strip(tabs'[d], stack'[d]),
         \A u \in ToSet(tabs'[c]) :
           (u \in ToSet(tabs[c]) \/ u \in ToSet(tabs[d])) /\ u \notin ToSet(tabs'[d]),
         \A u \in ToSet(tabs'[d]) : u \in ToSet(tabs[c]) \/ u \in ToSet(tabs[d])
  PROVE  StripsAre'
<1> PICK K : K = {c, d}
  OBVIOUS
<1> PICK N : N = {}
  OBVIOUS
<1>1. K \in SUBSET Container /\ Writes(K) /\ \A u : u \notin N
  OBVIOUS
<1>2. \A e \in K : Strip(tabs'[e], stack'[e])
  OBVIOUS
<1>3. \A e \in K : \A u \in ToSet(tabs'[e]) : \E k \in K : u \in ToSet(tabs[k])
  OBVIOUS
<1>4. \A a, b \in K : a # b => \A u \in ToSet(tabs'[a]) : u \notin ToSet(tabs'[b])
  OBVIOUS
<1>5. /\ \A e \in K : \A u \in ToSet(tabs'[e]) : u \in N \/ \E k \in K : u \in ToSet(tabs[k])
      /\ \A u \in N : \A e \in Container \ K : u \notin ToSet(tabs[e])
  BY <1>1, <1>3
<1> QED
  BY <1>1, <1>2, <1>4, <1>5, StripsMove

(* Both lists lose a toplevel, or get one.                                 *)
LEMMA StripUnlinked ==
  ASSUME NEW tab, NEW order, Strip(tab, order), NEW t \in ToSet(tab)
  PROVE  /\ Strip(Unlinked(tab, t), Unlinked(order, t))
         /\ \A u : u \in ToSet(Unlinked(tab, t)) <=> u \in ToSet(tab) /\ u # t
         /\ t \in Client
<1>1. t \in Client
  BY FrontIsTab
<1>2. /\ Unlinked(tab, t) \in Seq(Client) /\ IsInjective(Unlinked(tab, t))
      /\ ToSet(Unlinked(tab, t)) = ToSet(tab) \ {t}
  BY UnlinkedFrom DEF Strip
<1>3. /\ Unlinked(order, t) \in Seq(Client) /\ IsInjective(Unlinked(order, t))
      /\ ToSet(Unlinked(order, t)) = ToSet(order) \ {t}
  BY UnlinkedFrom DEF Strip
<1> QED
  BY <1>1, <1>2, <1>3 DEF Strip

LEMMA StripLinked ==
  ASSUME NEW tab, NEW order, Strip(tab, order), NEW t \in Client, t \notin ToSet(tab)
  PROVE  /\ Strip(<<t>> \o tab, Append(order, t))
         /\ \A u : u \in ToSet(<<t>> \o tab) <=> u \in ToSet(tab) \/ u = t
         /\ Append(order, t) # <<>> /\ Last(Append(order, t)) = t
<1>1. /\ <<t>> \o tab \in Seq(Client) /\ IsInjective(<<t>> \o tab)
      /\ ToSet(<<t>> \o tab) = ToSet(tab) \cup {t}
  BY LinkedTo DEF Strip
<1>2. /\ Append(order, t) \in Seq(Client) /\ IsInjective(Append(order, t))
      /\ ToSet(Append(order, t)) = ToSet(order) \cup {t}
      /\ Append(order, t) # <<>> /\ Last(Append(order, t)) = t
  BY LinkedTo DEF Strip
<1> QED
  BY <1>1, <1>2 DEF Strip

LEMMA SetFrontStrips ==
  ASSUME StripsAre, NEW c \in Live, NEW t \in ToSet(tabs[c]), SetFront(c, t), tabs' = tabs
  PROVE  StripsAre' /\ Fronts
<1> DEFINE order == Append(Unlinked(stack[c], t), t)
<1>1. c \in Container /\ Strip(tabs[c], stack[c])
  BY DEF Live, StripsAre
<1>2. /\ Strip(tabs[c], order) /\ order # <<>> /\ Last(order) = t /\ t \in Client
  <2>1. /\ Strip(Unlinked(tabs[c], t), Unlinked(stack[c], t)) /\ t \in Client
        /\ \A u : u \in ToSet(Unlinked(tabs[c], t)) <=> u \in ToSet(tabs[c]) /\ u # t
    BY <1>1, StripUnlinked
  <2>2. /\ Strip(<<t>> \o Unlinked(tabs[c], t), order)
        /\ \A u : u \in ToSet(<<t>> \o Unlinked(tabs[c], t)) <=> u \in ToSet(tabs[c])
        /\ order # <<>> /\ Last(order) = t
    BY <2>1, StripLinked
  <2> HIDE DEF order
  <2> QED
    BY <1>1, <2>1, <2>2 DEF Strip
<1>3. stack' = [stack EXCEPT ![c] = order] /\ shown' = Refreshed(shown, tabs[c], order)
  BY DEF SetFront
<1> HIDE DEF order
<1>4. /\ shown \subseteq Client /\ tabs = [e \in Container |-> tabs[e]]
      /\ stack = [e \in Container |-> stack[e]]
  BY DEF StripsAre
<1>5. Writes({c}) /\ stack'[c] = order
  BY <1>1, <1>3, <1>4 DEF Writes
<1>6. /\ \A u \in shown : u \in shown' \/ u \in ToSet(tabs[c])
      /\ t \in shown' /\ shown' \subseteq Client
  BY <1>2, <1>3, <1>4, RefreshedIs
<1>7. StripsAre'
  <2> DEFINE N == {}
  <2>1. /\ Strip(tabs'[c], stack'[c])
        /\ \A u \in ToSet(tabs'[c]) : u \in N \/ u \in ToSet(tabs[c])
        /\ \A u \in N : \A e \in Container \ {c} : u \notin ToSet(tabs[e])
    BY <1>2, <1>5
  <2> HIDE DEF N
  <2> QED
    BY <1>1, <1>5, <1>6, <2>1, OneStrip
<1>8. Fronts
  BY <1>1, <1>2, <1>5, <1>6, FrontsStay
<1> QED
  BY <1>7, <1>8

(* Steps that leave the tabs alone.                                        *)
LEMMA StripsStay ==
  ASSUME StripsAre, UNCHANGED <<tabs, stack, shown>>
  PROVE  StripsAre' /\ Fronts
BY DEF StripsAre, Fronts, Live

(* Steps that move toplevels between the lists.                            *)
LEMMA MapKeepsStrips ==
  ASSUME StripsAre, StripsInv, NEW t \in Client, SurfaceMap(t)
  PROVE  StripsAre' /\ Fronts
<1>1. /\ shown \subseteq Client /\ tabs = [e \in Container |-> tabs[e]]
      /\ stack = [e \in Container |-> stack[e]]
  BY DEF StripsAre
<1>2. t \notin Mapped => \A e \in Container : t \notin ToSet(tabs[e])
  BY MappedIs DEF StripsInv, Mapped, Live
<1> DEFINE N == {t}
<1>3. ASSUME NEW c \in Container, NEW tab, NEW order, Strip(tab, order),
             tabs' = [tabs EXCEPT ![c] = tab], stack' = [stack EXCEPT ![c] = order],
             \A u \in ToSet(tab) : u \in N \/ u \in ToSet(tabs[c]),
             Last(order) = t, shown' = shown \cup {t}, t \notin Mapped
      PROVE  StripsAre' /\ Fronts
  <2>1. Writes({c}) /\ tabs'[c] = tab /\ stack'[c] = order
    BY <1>1, <1>3 DEF Writes
  <2>2. /\ \A u \in N : \A e \in Container \ {c} : u \notin ToSet(tabs[e])
        /\ shown' \subseteq Client /\ t \in shown' /\ \A u \in shown : u \in shown'
    BY <1>1, <1>2, <1>3
  <2> HIDE DEF N
  <2>3. StripsAre'
    BY <1>3, <2>1, <2>2, OneStrip
  <2>4. Fronts
    BY <1>3, <2>1, <2>2, FrontsStay
  <2> QED
    BY <2>3, <2>4
<1>4. CASE MapIntoMarked(t)
  <2>1. marked \in Live /\ marked \in Container
    BY <1>4 DEF MapIntoMarked, StripsInv, NothingOutlives, Live
  <2>2. PICK c \in Container : c = marked
    BY <2>1
  <2> DEFINE tab == <<t>> \o tabs[c]
             order == Append(stack[c], t)
  <2>3. /\ tabs' = [tabs EXCEPT ![c] = tab] /\ stack' = [stack EXCEPT ![c] = order]
        /\ shown' = shown \cup {t} /\ t \notin Mapped
    BY <1>4, <2>2 DEF MapIntoMarked
  <2>4. /\ Strip(tab, order) /\ Last(order) = t
        /\ \A u \in ToSet(tab) : u \in N \/ u \in ToSet(tabs[c])
    BY <1>2, <2>3, StripLinked DEF StripsAre
  <2> HIDE DEF tab, order, N
  <2> QED
    BY <1>3, <2>3, <2>4
<1>5. ASSUME NEW c \in Container, NEW wants, NEW o, MapAlone(t, c, wants, o)
      PROVE  StripsAre' /\ Fronts
  <2> DEFINE tab == <<t>>
  <2>1. /\ tabs' = [tabs EXCEPT ![c] = tab] /\ stack' = [stack EXCEPT ![c] = tab]
        /\ shown' = shown \cup {t} /\ t \notin Mapped
    BY <1>5 DEF MapAlone
  <2>2. tab \in Seq(Client) /\ Len(tab) = 1 /\ tab[1] = t /\ Last(tab) = t
    BY DEF Last
  <2> HIDE DEF tab
  <2>3. /\ \A i, j \in 1 .. Len(tab) : tab[i] = tab[j] => i = j
        /\ \A u : (\E i \in 1 .. Len(tab) : tab[i] = u) => u = t
    BY <2>2
  <2>4. Strip(tab, tab) /\ \A u \in ToSet(tab) : u \in N \/ u \in ToSet(tabs[c])
    BY <2>2, <2>3, TabsAre DEF Strip
  <2> HIDE DEF N
  <2> QED
    BY <1>3, <2>1, <2>2, <2>4
<1> QED
  BY <1>4, <1>5 DEF SurfaceMap

(* A tab that leaves a container, and what is seen instead.                *)
LEMMA WithoutIs ==
  ASSUME StripsAre, NEW t \in Mapped
  PROVE  LET c == Holder(t)
             rest == Without(t, c)
         IN  /\ c \in Live /\ c \in Container /\ t \in ToSet(tabs[c]) /\ t \in Client
             /\ Strip(rest.tabs, rest.stack)
             /\ \A u : u \in ToSet(rest.tabs) <=> u \in ToSet(tabs[c]) /\ u # t
             /\ \A u \in shown : u \in rest.shown \/ u \in ToSet(tabs[c])
             /\ rest.shown \subseteq Client
             /\ rest.tabs # <<>> => Last(rest.stack) \in rest.shown /\ Last(rest.stack) # t
<1> DEFINE c == Holder(t)
           rest == Without(t, c)
           tab == Unlinked(tabs[c], t)
           order == Unlinked(stack[c], t)
<1>1. c \in Live /\ c \in Container /\ t \in ToSet(tabs[c])
  BY HolderHas
<1>2. /\ rest.tabs = tab /\ rest.stack = order
      /\ rest.shown = Refreshed(shown, tabs[c], order)
  BY DEF Without
<1> HIDE DEF c, rest
<1>3. /\ Strip(tab, order) /\ t \in Client
      /\ \A u : u \in ToSet(tab) <=> u \in ToSet(tabs[c]) /\ u # t
  BY <1>1, StripUnlinked DEF StripsAre
<1> HIDE DEF tab, order
<1>4. /\ tab # <<>> => order # <<>>
      /\ order # <<>> => Last(order) \in ToSet(tab) /\ Last(order) \in Client
  BY <1>3, FrontIsTab
<1>5. /\ \A u \in shown : u \in rest.shown \/ u \in ToSet(tabs[c])
      /\ order # <<>> => Last(order) \in rest.shown
      /\ \A u \in rest.shown : u \in shown \/ (order # <<>> /\ u = Last(order))
  BY <1>2, RefreshedIs
<1>6. rest.shown \subseteq Client
  BY <1>4, <1>5 DEF StripsAre
<1> QED
  BY <1>1, <1>2, <1>3, <1>4, <1>5, <1>6 DEF c, rest

LEMMA UnmapKeepsStrips ==
  ASSUME StripsAre, NEW t, Unmap(t)
  PROVE  StripsAre' /\ Fronts
<1> DEFINE c == Holder(t)
           rest == Without(t, c)
           N == {}
<1>1. t \in Mapped
  BY DEF Unmap
<1>2. /\ c \in Live /\ c \in Container /\ t \in ToSet(tabs[c])
      /\ Strip(rest.tabs, rest.stack)
      /\ \A u : u \in ToSet(rest.tabs) <=> u \in ToSet(tabs[c]) /\ u # t
      /\ \A u \in shown : u \in rest.shown \/ u \in ToSet(tabs[c])
      /\ rest.shown \subseteq Client
      /\ rest.tabs # <<>> => Last(rest.stack) \in rest.shown /\ Last(rest.stack) # t
  BY <1>1, WithoutIs
<1>3. /\ tabs' = [tabs EXCEPT ![c] = rest.tabs] /\ stack' = [stack EXCEPT ![c] = rest.stack]
      /\ shown' = rest.shown \ {t}
  BY DEF Unmap
<1> HIDE DEF c, rest
<1>4. Writes({c}) /\ tabs'[c] = rest.tabs /\ stack'[c] = rest.stack
  BY <1>2, <1>3 DEF Writes, StripsAre
<1>5. /\ shown' \subseteq Client /\ \A u \in shown : u \in shown' \/ u \in ToSet(tabs[c])
      /\ \A u \in ToSet(tabs'[c]) : u \in N \/ u \in ToSet(tabs[c])
      /\ \A u \in N : \A e \in Container \ {c} : u \notin ToSet(tabs[e])
  BY <1>2, <1>3, <1>4
<1>6. c \in Live' => Last(stack'[c]) \in shown'
  BY <1>2, <1>3, <1>4 DEF Live
<1> HIDE DEF N
<1>7. StripsAre'
  BY <1>2, <1>4, <1>5, OneStrip
<1>8. Fronts
  BY <1>2, <1>4, <1>5, <1>6, FrontsStay
<1> QED
  BY <1>7, <1>8

LEMMA InsertClientKeepsStrips ==
  ASSUME StripsAre, NEW c, NEW t, InsertClient(c, t)
  PROVE  StripsAre' /\ Fronts
<1> DEFINE d == Holder(t)
           rest == Without(t, d)
           tab == <<t>> \o tabs[c]
           order == Append(stack[c], t)
<1>1. t \in Mapped /\ c \in Live \ {d}
  BY DEF InsertClient
<1>2. /\ d \in Live /\ d \in Container /\ t \in ToSet(tabs[d]) /\ t \in Client
      /\ Strip(rest.tabs, rest.stack)
      /\ \A u : u \in ToSet(rest.tabs) <=> u \in ToSet(tabs[d]) /\ u # t
      /\ \A u \in shown : u \in rest.shown \/ u \in ToSet(tabs[d])
      /\ rest.shown \subseteq Client
      /\ rest.tabs # <<>> => Last(rest.stack) \in rest.shown
  BY <1>1, WithoutIs
<1>3. /\ tabs' = [tabs EXCEPT ![d] = rest.tabs, ![c] = <<t>> \o @]
      /\ stack' = [stack EXCEPT ![d] = rest.stack, ![c] = Append(@, t)]
      /\ shown' = rest.shown
  BY DEF InsertClient
<1> HIDE DEF d, rest
<1>4. c \in Container /\ c # d /\ t \notin ToSet(tabs[c])
  BY <1>1, <1>2 DEF StripsAre, Live
<1>5. /\ Strip(tab, order) /\ Last(order) = t
      /\ \A u : u \in ToSet(tab) <=> u \in ToSet(tabs[c]) \/ u = t
  BY <1>2, <1>4, StripLinked DEF StripsAre
<1>6. /\ Writes({c, d}) /\ tabs'[c] = tab /\ stack'[c] = order
      /\ tabs'[d] = rest.tabs /\ stack'[d] = rest.stack
  BY <1>2, <1>3, <1>4 DEF Writes, StripsAre
<1> HIDE DEF tab, order
<1>7. StripsAre'
  <2>1. /\ \A u \in ToSet(tabs'[c]) :
             (u \in ToSet(tabs[c]) \/ u \in ToSet(tabs[d])) /\ u \notin ToSet(tabs'[d])
        /\ \A u \in ToSet(tabs'[d]) : u \in ToSet(tabs[c]) \/ u \in ToSet(tabs[d])
    BY <1>2, <1>4, <1>5, <1>6 DEF StripsAre
  <2> QED
    BY <1>2, <1>3, <1>4, <1>5, <1>6, <2>1, TwoStrips
<1>8. Fronts
  <2>1. /\ {c, d} \in SUBSET Container
        /\ \A u \in shown : u \in shown' \/ \E k \in {c, d} : u \in ToSet(tabs[k])
    BY <1>2, <1>3, <1>4
  <2>2. d \in Live' => Last(stack'[d]) \in shown'
    BY <1>2, <1>3, <1>6 DEF Live
  <2>3. \A e \in {c, d} : e \in Live' =>
           \/ Last(stack'[e]) \in shown'
           \/ \E f \in Live \ {e} : Last(stack'[e]) \in ToSet(tabs[f])
    BY <1>2, <1>4, <1>5, <1>6, <2>2
  <2> QED
    BY <1>6, <2>1, <2>3, FrontsStay
<1> QED
  BY <1>7, <1>8

(* The lists of two containers that swap.                                  *)
LEMMA SwapKeepsStrips ==
  ASSUME StripsAre, NEW c \in Live, NEW d \in Live, c # d,
         NEW f, NEW g, NEW p, NEW q, Strip(f, p), Strip(g, q), p # <<>>, q # <<>>,
         tabs' = [tabs EXCEPT ![c] = f, ![d] = g], stack' = [stack EXCEPT ![c] = p, ![d] = q],
         shown' = Refreshed(Refreshed(shown, f, p), g, q),
         \A u \in ToSet(f) :
           (u \in ToSet(tabs[c]) \/ u \in ToSet(tabs[d])) /\ u \notin ToSet(g),
         \A u \in ToSet(g) : u \in ToSet(tabs[c]) \/ u \in ToSet(tabs[d]),
         Last(p) \in ToSet(tabs[d]), Last(q) \in ToSet(tabs[c])
  PROVE  StripsAre' /\ Fronts
<1>1. c \in Container /\ d \in Container
  BY DEF Live
<1>2. /\ Writes({c, d}) /\ tabs'[c] = f /\ stack'[c] = p /\ tabs'[d] = g /\ stack'[d] = q
  BY <1>1 DEF Writes, StripsAre
<1>3. /\ \A u \in shown : u \in shown' \/ u \in ToSet(f) \/ u \in ToSet(g)
      /\ \A u \in shown' : u \in shown \/ u = Last(p) \/ u = Last(q)
  <2> DEFINE R == Refreshed(shown, f, p)
  <2>1. /\ \A u \in shown : u \in R \/ u \in ToSet(f)
        /\ \A u \in R : u \in shown \/ u = Last(p)
    BY RefreshedIs
  <2> HIDE DEF R
  <2>2. /\ \A u \in R : u \in shown' \/ u \in ToSet(g)
        /\ \A u \in shown' : u \in R \/ u = Last(q)
    <3>1. shown' = Refreshed(R, g, q)
      BY DEF R
    <3> QED
      BY <3>1, RefreshedIs
  <2> QED
    BY <2>1, <2>2
<1>4. shown' \subseteq Client
  BY <1>3, FrontIsTab DEF StripsAre
<1>5. StripsAre'
  BY <1>1, <1>2, <1>4, TwoStrips
<1>6. Fronts
  <2>1. /\ {c, d} \in SUBSET Container
        /\ \A u \in shown : u \in shown' \/ \E k \in {c, d} : u \in ToSet(tabs[k])
    BY <1>1, <1>3
  <2>2. \A e \in {c, d} : e \in Live' =>
           \/ Last(stack'[e]) \in shown'
           \/ \E h \in Live \ {e} : Last(stack'[e]) \in ToSet(tabs[h])
    BY <1>2
  <2> QED
    BY <1>2, <2>1, <2>2, FrontsStay
<1> QED
  BY <1>5, <1>6

LEMMA SwapClientsKeepsStrips ==
  ASSUME StripsAre, NEW t, NEW u, SwapClients(t, u)
  PROVE  StripsAre' /\ Fronts
<1> DEFINE c == Holder(t)
           d == Holder(u)
           a == Unlinked(tabs[c], t)
           b == Unlinked(tabs[d], u)
           j == Unlinked(stack[c], t)
           k == Unlinked(stack[d], u)
           f == <<u>> \o a
           g == <<t>> \o b
           p == Append(j, u)
           q == Append(k, t)
<1>1. /\ t \in Mapped /\ u \in Mapped /\ c # d
      /\ c \in Live /\ c \in Container /\ t \in ToSet(tabs[c])
      /\ d \in Live /\ d \in Container /\ u \in ToSet(tabs[d])
  BY HolderHas DEF SwapClients
<1>2. /\ tabs' = [tabs EXCEPT ![c] = f, ![d] = g] /\ stack' = [stack EXCEPT ![c] = p, ![d] = q]
      /\ shown' = Refreshed(Refreshed(shown, f, p), g, q)
  <2>1. /\ tabs = [e \in Container |-> tabs[e]] /\ stack = [e \in Container |-> stack[e]]
    BY DEF StripsAre
  <2>2. /\ tabs' = [tabs EXCEPT ![c] = f, ![d] = g] /\ stack' = [stack EXCEPT ![c] = p, ![d] = q]
        /\ shown' = Refreshed(Refreshed(shown, tabs'[c], stack'[c]), tabs'[d], stack'[d])
    BY <1>1, <2>1 DEF SwapClients
  <2> HIDE DEF c, d, f, g, p, q
  <2>3. tabs'[c] = f /\ stack'[c] = p /\ tabs'[d] = g /\ stack'[d] = q
    BY <1>1, <2>1, <2>2
  <2> QED
    BY <2>2, <2>3
<1> HIDE DEF c, d
<1>3. /\ Strip(a, j) /\ t \in Client
      /\ \A x : x \in ToSet(a) <=> x \in ToSet(tabs[c]) /\ x # t
  BY <1>1, StripUnlinked DEF StripsAre
<1>4. /\ Strip(b, k) /\ u \in Client
      /\ \A x : x \in ToSet(b) <=> x \in ToSet(tabs[d]) /\ x # u
  BY <1>1, StripUnlinked DEF StripsAre
<1> HIDE DEF a, b, j, k
<1>5. /\ \A x \in ToSet(tabs[c]) : x \notin ToSet(tabs[d])
      /\ u \notin ToSet(a) /\ t \notin ToSet(b)
  BY <1>1, <1>3, <1>4 DEF StripsAre
<1>6. /\ Strip(f, p) /\ p # <<>> /\ Last(p) = u
      /\ \A x : x \in ToSet(f) <=> x \in ToSet(a) \/ x = u
  BY <1>3, <1>4, <1>5, StripLinked
<1>7. /\ Strip(g, q) /\ q # <<>> /\ Last(q) = t
      /\ \A x : x \in ToSet(g) <=> x \in ToSet(b) \/ x = t
  BY <1>3, <1>4, <1>5, StripLinked
<1> HIDE DEF f, g, p, q
<1>8. /\ \A x \in ToSet(f) :
           (x \in ToSet(tabs[c]) \/ x \in ToSet(tabs[d])) /\ x \notin ToSet(g)
      /\ \A x \in ToSet(g) : x \in ToSet(tabs[c]) \/ x \in ToSet(tabs[d])
  BY <1>1, <1>3, <1>4, <1>5, <1>6, <1>7
<1> QED
  BY <1>1, <1>2, <1>6, <1>7, <1>8, SwapKeepsStrips

(* What a container gets of another: its tabs, and its front in front.     *)
LEMMA TurnedIs ==
  ASSUME StripsAre, NEW d \in Live
  PROVE  LET f == Reverse(tabs[d])
             p == Append(Unlinked(tabs[d], FrontOf(d)), FrontOf(d))
         IN  /\ Strip(f, p) /\ p # <<>> /\ Last(p) \in ToSet(tabs[d])
             /\ \A u : u \in ToSet(f) <=> u \in ToSet(tabs[d])
<1> DEFINE t == FrontOf(d)
           f == Reverse(tabs[d])
           a == Unlinked(tabs[d], t)
           p == Append(a, t)
<1>1. Strip(tabs[d], stack[d]) /\ tabs[d] # <<>>
  BY DEF StripsAre, Live
<1>2. t \in ToSet(tabs[d])
  BY <1>1, FrontIsTab DEF FrontOf
<1> HIDE DEF t
<1>3. /\ f \in Seq(Client) /\ IsInjective(f) /\ ToSet(f) = ToSet(tabs[d])
  BY <1>1, ReversedOf DEF Strip
<1>4. Strip(tabs[d], tabs[d])
  BY <1>1 DEF Strip
<1>5. /\ Strip(a, a) /\ t \in Client
      /\ \A u : u \in ToSet(a) <=> u \in ToSet(tabs[d]) /\ u # t
  BY <1>2, <1>4, StripUnlinked
<1> HIDE DEF a, f
<1>6. /\ Strip(<<t>> \o a, p) /\ p # <<>> /\ Last(p) = t
      /\ \A u : u \in ToSet(<<t>> \o a) <=> u \in ToSet(a) \/ u = t
  BY <1>5, StripLinked
<1> HIDE DEF p
<1>7. ToSet(p) = ToSet(tabs[d]) /\ p \in Seq(Client) /\ IsInjective(p)
  <2>1. p \in Seq(Client) /\ IsInjective(p) /\ ToSet(p) = ToSet(<<t>> \o a)
    BY <1>6 DEF Strip
  <2>2. \A u : u \in ToSet(<<t>> \o a) <=> u \in ToSet(tabs[d])
    BY <1>2, <1>5, <1>6
  <2>3. ToSet(<<t>> \o a) = ToSet(tabs[d])
    BY ONLY <2>2
  <2> QED
    BY <2>1, <2>3
<1>8. Strip(f, p)
  BY <1>3, <1>7 DEF Strip
<1> QED
  BY <1>2, <1>3, <1>6, <1>8 DEF f, p, a, t

LEMMA SwapContainersKeepsStrips ==
  ASSUME StripsAre, NEW c, NEW d, SwapContainers(c, d)
  PROVE  StripsAre' /\ Fronts
<1> DEFINE f == Reverse(tabs[d])
           p == Append(Unlinked(tabs[d], FrontOf(d)), FrontOf(d))
           g == Reverse(tabs[c])
           q == Append(Unlinked(tabs[c], FrontOf(c)), FrontOf(c))
<1>1. c \in Live /\ d \in Live /\ c # d /\ c \in Container /\ d \in Container
  BY DEF SwapContainers, Live
<1>2. /\ Strip(f, p) /\ p # <<>> /\ Last(p) \in ToSet(tabs[d])
      /\ \A u : u \in ToSet(f) <=> u \in ToSet(tabs[d])
      /\ Strip(g, q) /\ q # <<>> /\ Last(q) \in ToSet(tabs[c])
      /\ \A u : u \in ToSet(g) <=> u \in ToSet(tabs[c])
  BY <1>1, TurnedIs
<1>3. /\ tabs' = [tabs EXCEPT ![c] = f, ![d] = g] /\ stack' = [stack EXCEPT ![c] = p, ![d] = q]
      /\ shown' = Refreshed(Refreshed(shown, tabs'[c], stack'[c]), tabs'[d], stack'[d])
  BY DEF SwapContainers
<1> HIDE DEF f, g, p, q
<1>4. /\ tabs = [e \in Container |-> tabs[e]] /\ stack = [e \in Container |-> stack[e]]
      /\ \A u \in ToSet(tabs[d]) : u \notin ToSet(tabs[c])
  BY <1>1 DEF StripsAre
<1>5. tabs'[c] = f /\ stack'[c] = p /\ tabs'[d] = g /\ stack'[d] = q
  BY <1>1, <1>3, <1>4
<1>6. /\ shown' = Refreshed(Refreshed(shown, f, p), g, q)
      /\ \A u \in ToSet(f) :
           (u \in ToSet(tabs[c]) \/ u \in ToSet(tabs[d])) /\ u \notin ToSet(g)
      /\ \A u \in ToSet(g) : u \in ToSet(tabs[c]) \/ u \in ToSet(tabs[d])
  BY <1>2, <1>3, <1>4, <1>5
<1> QED
  BY <1>1, <1>2, <1>3, <1>6, SwapKeepsStrips

LEMMA StripsKept ==
  ASSUME StripsAre, StripsInv, Next
  PROVE  StripsAre' /\ Fronts
<1>1. ASSUME NEW t \in Mapped, SetFront(Holder(t), t), tabs' = tabs
      PROVE  StripsAre' /\ Fronts
  BY <1>1, HolderHas, SetFrontStrips
<1>2. ASSUME NEW c \in Container, NEW forward, FocusIdx(c, forward)
      PROVE  StripsAre' /\ Fronts
  <2> DEFINE t == RingNeighbour(tabs[c], FrontOf(c), forward)
  <2>1. c \in Live /\ tabs[c] # <<>> /\ Strip(tabs[c], stack[c]) /\ SetFront(c, t) /\ tabs' = tabs
    BY <1>2 DEF FocusIdx, Live, StripsAre
  <2>2. FrontOf(c) \in ToSet(tabs[c])
    BY <2>1, FrontIsTab DEF FrontOf
  <2>3. t \in ToSet(tabs[c])
    BY <2>1, <2>2, NeighbourIs DEF Strip
  <2> HIDE DEF t
  <2> QED
    BY <2>1, <2>3, SetFrontStrips
<1>3. ASSUME NEW t, Refresh(t) \/ JumpTo(t)
      PROVE  StripsAre' /\ Fronts
  BY <1>1, <1>3 DEF Refresh, JumpTo
<1>4. ASSUME NEW c, NEW w, NEW o, Becomes(c, w, o)
      PROVE  StripsAre' /\ Fronts
  BY <1>4, StripsStay DEF Becomes
<1>5. ASSUME NEW t, \/ ClientRequest(t) \/ ForeignRequest(t) \/ SetClientProperty(t)
                    \/ \E o \in Screen : MoveToScreen(t, o) \/ Drag(o)
      PROVE  StripsAre' /\ Fronts
  <2>1. \E c, w, o : Becomes(c, w, o)
    BY <1>5 DEF ClientRequest, ForeignRequest, SetClientProperty, MoveToScreen, Drag,
                SetMaximized, SetFullscreen, SetMinimized, SetFloating, CrossOutput
  <2> QED
    BY <1>4, <2>1
<1>6. ASSUME NEW t, NEW c, NEW o, NEW mode,
             \/ DelayedMaxFull(c) \/ SetLayout(o, mode) \/ Mark(c)
             \/ StartMove(t) \/ StartResize(t) \/ ButtonRelease
      PROVE  StripsAre' /\ Fronts
  BY <1>6, StripsStay DEF DelayedMaxFull, SetLayout, Mark, StartMove, StartResize, ButtonRelease
<1> QED
  BY <1>2, <1>3, <1>5, <1>6, MapKeepsStrips, UnmapKeepsStrips, InsertClientKeepsStrips,
     SwapClientsKeepsStrips, SwapContainersKeepsStrips DEF Next

(* The pointer grabs a toplevel for a drag of some kind.                   *)
CursorIsTyped == cursor \in [state : Drags \cup {"normal"}, grabbed : Client \cup {NULL}]

LEMMA CursorKept ==
  ASSUME CursorIsTyped, StripsAre, PlacesInv, Next
  PROVE  CursorIsTyped'
<1>1. ASSUME NEW t \in Mapped
      PROVE  t \in Client /\ Holder(t) \in Live /\ LayoutOf(Holder(t)) \in Modes
  <2>1. Holder(t) \in Live /\ Holder(t) \in Container /\ t \in ToSet(tabs[Holder(t)])
    BY HolderHas
  <2>2. t \in Client
    BY <2>1, FrontIsTab DEF StripsAre
  <2> QED
    BY <2>1, <2>2 DEF PlacesInv, LayoutOf
<1>2. StoppedCursor \in [state : Drags \cup {"normal"}, grabbed : Client \cup {NULL}]
  BY DEF StoppedCursor, CursorIsTyped
<1>3. ASSUME NEW t, StartMove(t)
      PROVE  CursorIsTyped'
  BY <1>1, <1>3 DEF StartMove, CanEnterInteractive, CursorIsTyped, Drags
<1>4. ASSUME NEW t, StartResize(t)
      PROVE  CursorIsTyped'
  <2> DEFINE c == Holder(t)
             l == LayoutOf(c)
             s == CASE IsFloating(win[c], l) -> "resize"
                    [] ~IsFloating(win[c], l) /\ l = "master" -> "resize_master"
                    [] ~IsFloating(win[c], l) /\ l = "bsp" ->
                         IF win[c].leaf = "none" THEN cursor.state ELSE "resize_bsp"
  <2>1. t \in Client /\ l \in {"floating", "master", "bsp"}
    BY <1>1, <1>4, WindowsAssumption DEF StartResize, CanEnterInteractive
  <2>2. cursor' = [grabbed |-> t, state |-> s]
    BY <1>4, Zenon DEF StartResize
  <2> HIDE DEF l, c
  <2>3. l = "floating" => IsFloating(win[c], l)
    BY DEF IsFloating
  <2>4. s \in {"resize", "resize_master", "resize_bsp", cursor.state}
    BY <2>1, <2>3
  <2> HIDE DEF s
  <2> QED
    BY <2>1, <2>2, <2>4 DEF CursorIsTyped, Drags
<1>5. cursor' = cursor => CursorIsTyped'
  BY DEF CursorIsTyped
<1>6. cursor' = StoppedCursor => CursorIsTyped'
  BY <1>2 DEF CursorIsTyped
<1>7. ASSUME NEW t, \/ ClientRequest(t) \/ ForeignRequest(t) \/ SetClientProperty(t)
                    \/ \E o \in Screen : MoveToScreen(t, o) \/ Drag(o)
      PROVE  cursor' = cursor
  <2>1. \E c, w, o : Becomes(c, w, o)
    BY <1>7 DEF ClientRequest, ForeignRequest, SetClientProperty, MoveToScreen, Drag,
                SetMaximized, SetFullscreen, SetMinimized, SetFloating, CrossOutput
  <2> QED
    BY <2>1 DEF Becomes
<1>8. ASSUME NEW t, NEW u, NEW c, NEW d, NEW o, NEW x,
             \/ DelayedMaxFull(c) \/ SetLayout(o, x) \/ Mark(c) \/ SurfaceMap(t)
             \/ Refresh(t) \/ JumpTo(t) \/ FocusIdx(c, x) \/ InsertClient(c, t)
             \/ SwapClients(t, u) \/ SwapContainers(c, d)
      PROVE  cursor' = cursor
  BY <1>8 DEF DelayedMaxFull, SetLayout, Mark, SurfaceMap, MapIntoMarked, MapAlone, Refresh,
              JumpTo, FocusIdx, InsertClient, SwapClients, SwapContainers, OnlyTabs
<1>9. ASSUME NEW t, Unmap(t) \/ ButtonRelease
      PROVE  cursor' = cursor \/ cursor' = StoppedCursor
  BY <1>9 DEF Unmap, ButtonRelease
<1> QED
  BY <1>3, <1>4, <1>5, <1>6, <1>7, <1>8, <1>9 DEF Next

LEMMA InitStrips == Init => StripsAre /\ CursorIsTyped /\ PlacesInv
<1> SUFFICES ASSUME Init PROVE StripsAre /\ CursorIsTyped /\ PlacesInv
  OBVIOUS
<1>1. <<>> \in Seq(Client) /\ IsInjective(<<>>) /\ ToSet(<<>>) = {}
  BY DEF IsInjective, ToSet
<1>2. Strip(<<>>, <<>>)
  BY <1>1 DEF Strip
<1>3. StripsAre
  BY <1>1, <1>2 DEF Init, StripsAre
<1> QED
  BY <1>3 DEF Init, CursorIsTyped, PlacesInv, Live

(* All that is known of a state.                                           *)
StateInv == StripsInv /\ WindowsInv /\ PlacesInv /\ StripsAre /\ CursorIsTyped

LEMMA StateStays == StateInv /\ [Next]_vars => StateInv' /\ [Fronts]_vars
<1>1. ASSUME StateInv, UNCHANGED vars
      PROVE  StateInv'
  <2>1. Live' = Live /\ Mapped' = Mapped
    BY <1>1 DEF Live, Mapped, vars
  <2>2. StripsInv' /\ WindowsInv'
    BY <1>1, <2>1 DEF StateInv, StripsInv, NothingOutlives, GrabIsLive, WindowsInv, vars
  <2>3. PlacesInv' /\ CursorIsTyped'
    BY <1>1, <2>1 DEF StateInv, PlacesInv, CursorIsTyped, vars
  <2>4. StripsAre'
    BY <1>1, StripsStay DEF StateInv, vars
  <2> QED
    BY <2>2, <2>3, <2>4 DEF StateInv
<1>2. StateInv /\ Next => StateInv' /\ Fronts
  BY StripsStep, WindowsStep, PlacesStep, StripsKept, CursorKept DEF StateInv, Sound
<1> QED
  BY <1>1, <1>2

(* The types of the variables, and the tabs of a container: the list and   *)
(* the scene tree of a container always hold the same toplevels, none of   *)
(* them twice and none in two containers, through every map, unmap, move   *)
(* and swap (cwc_container_insert_toplevel, cwc_container_swap).           *)
THEOREM WindowsTypes == Spec => []TypeOK
<1>1. Init => StateInv
  BY InitIsStrips, InitIsSound, InitStrips DEF StateInv
<1>2. StateInv => TypeOK
  <2> SUFFICES ASSUME StateInv PROVE TypeOK
    OBVIOUS
  <2>1. /\ tabs \in [Container -> Seq(Client)] /\ stack \in [Container -> Seq(Client)]
        /\ \A c \in Container : ToSet(tabs[c]) = ToSet(stack[c])
        /\ \A c \in Container : IsInjective(tabs[c]) /\ IsInjective(stack[c])
        /\ shown \subseteq Client
    BY DEF StateInv, StripsAre, Strip
  <2>2. \A c, d \in Container : c # d => ToSet(tabs[c]) \cap ToSet(tabs[d]) = {}
    BY DEF StateInv, StripsAre
  <2>3. /\ minimized \subseteq Container /\ idle \subseteq Container
        /\ marked \in Container \cup {NULL}
    BY DEF StateInv, StripsInv, NothingOutlives, Live
  <2> QED
    BY <2>1, <2>2, <2>3 DEF StateInv, WindowsInv, PlacesInv, CursorIsTyped, TypeOK
<1> QED
  BY <1>1, <1>2, StateStays, PTL DEF Spec

(* A toplevel that is in front of its container can be seen, unless it was *)
(* taken out of another one (cwc_container_refresh and its callers).       *)
THEOREM FrontsStayShown == Spec => FrontStaysShown
<1>1. Init => StateInv
  BY InitIsStrips, InitIsSound, InitStrips DEF StateInv
<1>2. Fronts => [\A c \in Live' :
                   FrontOf(c)' \notin shown' =>
                     \/ c \in Live /\ FrontOf(c) \notin shown
                     \/ \E d \in Live \ {c} : FrontOf(c)' \in ToSet(tabs[d])]_vars
  BY DEF Fronts, FrontOf
<1>3. StateInv /\ [Next]_vars => [\A c \in Live' :
                   FrontOf(c)' \notin shown' =>
                     \/ c \in Live /\ FrontOf(c) \notin shown
                     \/ \E d \in Live \ {c} : FrontOf(c)' \in ToSet(tabs[d])]_vars
  BY <1>2, StateStays
<1> QED
  BY <1>1, <1>3, StateStays, PTL DEF Spec, FrontStaysShown

----------------------------------------------------------------------------
(* Leaves that lost their room                                             *)

(* HiddenTile, of a window alone.                                          *)
Hidden(w) == w.leaf = "off" /\ IsTiled(w, "bsp")

LEMMA HiddenIs ==
  ASSUME NEW w
  PROVE  Hidden(w) <=> /\ w.leaf = "off"
                       /\ w.bits \cap {"fullscreen", "maximized", "minimized"} = {}
                       /\ "floating" \notin w.bits
BY DEF Hidden, IsTiled, IsFloating

(* Operations that give the state that hides, or the room.                 *)
LEMMA HidesNot ==
  ASSUME NEW w \in Windows, NEW set, NEW linked
  PROVE  /\ ~Hidden(Maximize(w)) /\ ~Hidden(EnterFullscreen(w))
         /\ ~Hidden(Minimized(w, set, linked)) /\ ~Hidden(Enable(w))
         /\ ~Hidden(Disable(Set(w, "floating")))
<1>1. ~Hidden(Maximize(w))
  BY HiddenIs DEF Maximize, Disable, Set, Windows
<1>2. ~Hidden(EnterFullscreen(w))
  BY HiddenIs DEF EnterFullscreen, Disable, Set, Windows
<1>3. ~Hidden(Minimized(w, set, linked))
  BY HiddenIs DEF Minimized, Enable, Disable, Set, Clear, Windows
<1>4. ~Hidden(Enable(w))
  BY HiddenIs DEF Enable, Windows
<1>5. ~Hidden(Disable(Set(w, "floating")))
  BY HiddenIs DEF Disable, Set, Windows
<1> QED
  BY <1>1, <1>2, <1>3, <1>4, <1>5

LEMMA InsertHides ==
  ASSUME NEW w \in Windows, NEW l, l # "floating", NEW first
  PROVE  ~Hidden(Insert(w, l, first))
<1> DEFINE new == Clear(w, "floating")
           on  == IF first \/ IsTiled(new, l) THEN "on" ELSE "off"
           flaw == IF w.leaf = "none" THEN new.flaw ELSE "leaf"
<1>1. new \in Windows
  BY DEF Clear, Windows
<1>2. Insert(w, l, first) = [new EXCEPT !.leaf = on, !.flaw = flaw]
  BY DEF Insert
<1>3. on = "off" => ~IsTiled(new, "bsp")
  BY DEF IsTiled, IsFloating
<1> HIDE DEF new, on, flaw
<1>4. /\ Insert(w, l, first).leaf = on
      /\ Insert(w, l, first).bits = new.bits
  BY <1>1, <1>2 DEF Windows
<1> QED
  BY <1>3, <1>4 DEF Hidden, IsTiled, IsFloating

LEMMA MovedHides ==
  ASSUME NEW c, NEW w \in Windows, NEW o
  PROVE  Hidden(Moved(c, w, o)) => Hidden(w)
<1> DEFINE bare == [w EXCEPT !.leaf = "none"]
<1>1. bare \in Windows /\ bare.leaf = "none"
  BY DEF Windows
<1> HIDE DEF bare
<1>2. ~Hidden(bare) /\ ~Hidden(Insert(bare, "bsp", FirstOn(o, c)))
  BY <1>1, InsertHides DEF Hidden
<1> QED
  BY <1>2 DEF Moved, bare

LEMMA PlacedHides ==
  ASSUME NEW c, NEW w \in Windows, NEW o
  PROVE  Hidden(Placed(c, w, o)) => Hidden(w)
BY InsertHides DEF Placed

(* A window that was hidden and floats on a tiling layout stays hidden.    *)
LEMMA UnmaximizeHides ==
  ASSUME NEW c, NEW w \in Windows, NEW o, Hidden(Unmaximize(c, w, o))
  PROVE  LayoutOf(c) = "floating"
<1>1. /\ Clear(w, "maximized") \in Windows
      /\ "floating" \in w.bits => "floating" \in Clear(w, "maximized").bits
  BY DEF Clear, Windows
<1>2. ~Hidden(Enable(Clear(w, "maximized")))
  BY <1>1, HidesNot
<1>3. IsFloating(w, LayoutOf(c)) /\ Hidden(Clear(w, "maximized"))
  BY <1>1, <1>2, MovedHides DEF Unmaximize
<1> QED
  BY <1>1, <1>3, HiddenIs DEF IsFloating

LEMMA LeaveHides ==
  ASSUME NEW c, NEW w \in Windows, NEW o, Hidden(LeaveFullscreen(c, w, o))
  PROVE  LayoutOf(c) = "floating"
<1> DEFINE off == Clear(w, "fullscreen")
           new == IF IsFloating(w, LayoutOf(c)) THEN Moved(c, off, o) ELSE Enable(off)
           bare == [new EXCEPT !.rect = FALSE]
<1>1. /\ off \in Windows
      /\ "floating" \in w.bits => "floating" \in off.bits
  BY DEF Clear, Windows
<1> HIDE DEF off
<1>2. new \in Windows
  BY <1>1, MovedKeeps, EnableKeeps DEF Keeps
<1> HIDE DEF new
<1>3. bare \in Windows /\ bare.leaf = new.leaf /\ bare.bits = new.bits
  BY <1>2 DEF Windows
<1> HIDE DEF bare
<1>4. ~Hidden(Maximize(bare)) /\ ~Hidden(Enable(off))
  BY <1>1, <1>3, HidesNot
<1>5. Hidden(bare)
  BY <1>4 DEF LeaveFullscreen, bare, new, off
<1>6. Hidden(new)
  BY <1>3, <1>5, HiddenIs
<1>7. IsFloating(w, LayoutOf(c)) /\ Hidden(off)
  BY <1>1, <1>4, <1>6, MovedHides DEF new
<1> QED
  BY <1>1, <1>7, HiddenIs DEF IsFloating

LEMMA FullscreenHides ==
  ASSUME NEW c, NEW w, Owned(w), NEW set, NEW o,
         Hidden(Fullscreen(c, w, set, o)) \/ Hidden(Maximized(c, w, set, o))
  PROVE  LayoutOf(c) = "floating"
<1>1. w \in Windows /\ LeaveFullscreen(c, w, o) \in Windows
  BY LeaveFollows DEF Owned, Follows
<1>2. ~Hidden(EnterFullscreen(w)) /\ ~Hidden(Maximize(w))
      /\ ~Hidden(Maximize(LeaveFullscreen(c, w, o)))
  BY <1>1, HidesNot
<1> QED
  BY <1>1, <1>2, LeaveHides, UnmaximizeHides DEF Fullscreen, Maximized

LEMMA FloatingHides ==
  ASSUME NEW c, NEW w \in Windows, NEW set, NEW o, Hidden(Floating(c, w, set, o)), ~Hidden(w)
  PROVE  LayoutOf(c) = "floating"
<1>1. Clear(w, "floating") \in Windows /\ Clear(w, "floating").leaf = w.leaf
  BY DEF Clear, Windows
<1>2. Moved(c, w, o) \in Windows
  BY MovedKeeps DEF Keeps
<1>3. ~Hidden(Disable(Set(Moved(c, w, o), "floating"))) /\ ~Hidden(Enable(Clear(w, "floating")))
  BY <1>1, <1>2, HidesNot
<1>4. LayoutOf(c) # "floating" => ~Hidden(Insert(w, LayoutOf(c), FirstOn(at[c], c)))
  BY InsertHides
<1>5. w.leaf = "none" => ~Hidden(Clear(w, "floating"))
  BY <1>1 DEF Hidden
<1> QED
  BY <1>3, <1>4, <1>5 DEF Floating

LEMMA NewWindowHides ==
  ASSUME NEW wants \in Wishes
  PROVE  NewWindow(wants).leaf = "none"
<1> DEFINE w == [Blank EXCEPT !.bits = InitialBits(wants)]
<1>1. w \in [bits : SUBSET Bits, leaf : {"none"}, rect : BOOLEAN, flaw : Flaws]
  BY DEF Blank, InitialBits, Bits, Flaws
<1> HIDE DEF w
<1>2. /\ EnterFullscreen(w).leaf = "none" /\ Maximize(w).leaf = "none"
      /\ Minimized(w, TRUE, FALSE).leaf = "none" /\ Set(w, "floating").leaf = "none"
  BY <1>1 DEF EnterFullscreen, Maximize, Minimized, Set, Disable
<1>3. NewWindow(wants) \in {EnterFullscreen(w), Maximize(w), Minimized(w, TRUE, FALSE),
                            Set(w, "floating"), w}
  BY DEF NewWindow, w
<1> QED
  BY <1>1, <1>2, <1>3

Pardoned(c) == \/ LayoutOf(c) = "floating"
               \/ cursor.state = "move_master" /\ "floating" \in win[c].bits

(* What a step is allowed to hide (LeavesReturn).                          *)
Returning == \A c \in Container : Hidden(win'[c]) => Hidden(win[c]) \/ Pardoned(c)

LEMMA OneReturns ==
  ASSUME WindowsInv, NEW c, NEW v, win' = [win EXCEPT ![c] = v],
         c \in Container => (Hidden(v) => Hidden(win[c]) \/ Pardoned(c))
  PROVE  Returning
BY DEF WindowsInv, Returning

(* The window that a drag which ends was of.                               *)
LEMMA DroppedHides ==
  ASSUME NEW c, win[c] \in Windows, NEW w,
         w = [Dropped(c) EXCEPT !.bits = @ \ {"moving", "resizing"}], Hidden(w)
  PROVE  Hidden(win[c]) \/ Pardoned(c)
<1> DEFINE v == win[c]
           new == Clear(v, "floating")
           on  == IF FirstOn(at[c], c) \/ IsTiled(new, LayoutOf(c)) THEN "on" ELSE "off"
           flaw == IF v.leaf = "none" THEN new.flaw ELSE "leaf"
<1>1. /\ new \in Windows /\ v \in Windows /\ new.bits = v.bits \ {"floating"}
      /\ new.leaf = v.leaf
  BY DEF Clear, Windows
<1>2. \A u \in Windows : [u EXCEPT !.bits = @ \ {"moving", "resizing"}].leaf = u.leaf
      /\ (Hidden([u EXCEPT !.bits = @ \ {"moving", "resizing"}]) => Hidden(u))
  BY HiddenIs DEF Windows
<1>3. CASE cursor.state = "move_bsp"
  <2>1. Dropped(c) = [new EXCEPT !.leaf = on, !.flaw = flaw]
    BY <1>3 DEF Dropped, Insert
  <2>2. on \in {"none", "on", "off"} /\ flaw \in Flaws
    BY <1>1 DEF Windows, Flaws
  <2>3. Dropped(c) = Insert(v, LayoutOf(c), FirstOn(at[c], c))
    BY <1>3 DEF Dropped
  <2> HIDE DEF new, on, flaw
  <2>4. Dropped(c) \in Windows
    BY <1>1, <2>1, <2>2 DEF Windows
  <2>5. Hidden(Dropped(c))
    BY <1>2, <2>4
  <2> QED
    BY <2>3, <2>5, InsertHides DEF Pardoned
<1>4. CASE cursor.state = "move_master"
  <2>1. Dropped(c) = new
    BY <1>4 DEF Dropped
  <2> HIDE DEF new
  <2>2. Hidden(new)
    BY <1>1, <1>2, <2>1
  <2> QED
    BY <1>1, <1>4, <2>2, HiddenIs DEF Pardoned
<1>5. CASE cursor.state \notin {"move_bsp", "move_master"}
  <2>1. Dropped(c) = v
    BY <1>5 DEF Dropped
  <2> QED
    BY <1>1, <1>2, <2>1
<1> QED
  BY <1>3, <1>4, <1>5

LEMMA StoppedReturns ==
  ASSUME WindowsInv, NEW e \in Container, Hidden(Stopped[e])
  PROVE  Hidden(win[e]) \/ Pardoned(e)
<1> DEFINE d == Holder(cursor.grabbed)
           w == [Dropped(d) EXCEPT !.bits = @ \ {"moving", "resizing"}]
<1>1. Stopped = IF cursor.state = "normal" THEN win ELSE [win EXCEPT ![d] = w]
  BY DEF Stopped
<1>2. d \in Container /\ Hidden(w) => Hidden(win[d]) \/ Pardoned(d)
  <2>1. w = [Dropped(d) EXCEPT !.bits = @ \ {"moving", "resizing"}]
    OBVIOUS
  <2> HIDE DEF d, w
  <2> QED
    BY <2>1, DroppedHides DEF WindowsInv
<1> HIDE DEF d, w
<1> QED
  BY <1>1, <1>2 DEF WindowsInv

LEMMA RequestReturns ==
  ASSUME WindowsInv, NEW c, NEW set, NEW o,
         \/ SetFullscreen(c, set, o) \/ SetMaximized(c, set, o)
         \/ SetFloating(c, set, o) \/ SetMinimized(c, set) \/ CrossOutput(c, o)
  PROVE  Returning
<1>1. CASE SetFullscreen(c, set, o) \/ SetMaximized(c, set, o)
  <2>1. PICK v : /\ win' = [win EXCEPT ![c] = v]
                 /\ v = Fullscreen(c, win[c], set, o) \/ v = Maximized(c, win[c], set, o)
    BY <1>1 DEF SetFullscreen, SetMaximized, Becomes
  <2>2. c \in Container => (Hidden(v) => Pardoned(c))
    BY <2>1, FullscreenHides DEF WindowsInv, Pardoned
  <2> QED
    BY <2>1, <2>2, OneReturns
<1>2. CASE SetFloating(c, set, o)
  <2>1. win' = [win EXCEPT ![c] = Floating(c, win[c], set, o)]
    BY <1>2 DEF SetFloating, Becomes
  <2>2. PICK v : v = Floating(c, win[c], set, o)
    OBVIOUS
  <2>3. c \in Container => (Hidden(v) => Hidden(win[c]) \/ Pardoned(c))
    BY <2>2, FloatingHides DEF WindowsInv, Pardoned
  <2> QED
    BY <2>1, <2>2, <2>3, OneReturns
<1>3. CASE SetMinimized(c, set)
  <2>1. win' = [win EXCEPT ![c] = Minimized(win[c], set, c \in minimized)]
    BY <1>3 DEF SetMinimized, Becomes
  <2>2. PICK linked : linked = (c \in minimized)
    OBVIOUS
  <2>3. PICK v : v = Minimized(win[c], set, linked)
    OBVIOUS
  <2>4. c \in Container => ~Hidden(v)
    BY <2>3, HidesNot DEF WindowsInv
  <2> QED
    BY <2>1, <2>2, <2>3, <2>4, OneReturns
<1>4. CASE CrossOutput(c, o)
  <2>1. win' = [win EXCEPT ![c] = Moved(c, win[c], o)]
    BY <1>4 DEF CrossOutput, Becomes
  <2>2. PICK v : v = Moved(c, win[c], o)
    OBVIOUS
  <2>3. c \in Container => (Hidden(v) => Hidden(win[c]))
    BY <2>2, MovedHides DEF WindowsInv
  <2> QED
    BY <2>1, <2>2, <2>3, OneReturns
<1> QED
  BY <1>1, <1>2, <1>3, <1>4

LEMMA NothingReturns ==
  ASSUME win' = win
  PROVE  Returning
BY DEF Returning

LEMMA MapReturns ==
  ASSUME WindowsInv, NEW t, SurfaceMap(t)
  PROVE  Returning
<1>1. CASE MapIntoMarked(t)
  <2>1. win' = [win EXCEPT ![marked] = Placed(marked, win[marked], at[marked])]
    BY <1>1 DEF MapIntoMarked
  <2>2. PICK c, o, v : c = marked /\ o = at[c] /\ v = Placed(c, win[c], o)
    OBVIOUS
  <2>3. c \in Container => (Hidden(v) => Hidden(win[c]))
    BY <2>2, PlacedHides DEF WindowsInv
  <2> QED
    BY <2>1, <2>2, <2>3, OneReturns
<1>2. ASSUME NEW c \in Container, NEW wants \in Wishes, NEW o, MapAlone(t, c, wants, o)
      PROVE  Returning
  <2>1. win' = [win EXCEPT ![c] = Placed(c, NewWindow(wants), o)]
    BY <1>2 DEF MapAlone
  <2>2. PICK w, v : w = NewWindow(wants) /\ v = Placed(c, w, o)
    OBVIOUS
  <2>3. w \in Windows /\ ~Hidden(w)
    BY <2>2, NewWindowFollows, NewWindowHides DEF Follows, Owned, Hidden
  <2>4. ~Hidden(v)
    BY <2>2, <2>3, PlacedHides
  <2> QED
    BY <2>1, <2>2, <2>4, OneReturns
<1> QED
  BY <1>1, <1>2 DEF SurfaceMap

LEMMA LeaveReturns ==
  ASSUME WindowsInv, NEW c, NEW v, NEW rest, Leave(c, v, rest),
         v = [e \in Container |-> v[e]],
         \A e \in Container : Hidden(v[e]) => Hidden(win[e]) \/ Pardoned(e)
  PROVE  Returning
<1>1. ~Hidden(Blank)
  BY DEF Hidden, Blank
<1>2. \A e \in Container : win'[e] = v[e] \/ win'[e] = Blank
  BY DEF Leave
<1> QED
  BY <1>1, <1>2 DEF Returning

LEMMA DelayedReturns ==
  ASSUME WindowsInv, NEW c, DelayedMaxFull(c)
  PROVE  Returning
<1> DEFINE v == IF "fullscreen" \in win[c].bits THEN EnterFullscreen(win[c])
                ELSE IF "maximized" \in win[c].bits THEN Maximize(win[c]) ELSE win[c]
<1>1. win' = [win EXCEPT ![c] = v]
  BY DEF DelayedMaxFull
<1>2. c \in Container => (Hidden(v) => Hidden(win[c]))
  BY HidesNot DEF WindowsInv
<1> HIDE DEF v
<1> QED
  BY <1>1, <1>2, OneReturns

LEMMA LayoutReturns ==
  ASSUME WindowsInv, NEW o, NEW mode, SetLayout(o, mode)
  PROVE  Returning
<1> SUFFICES ASSUME NEW c \in Container, Hidden(win'[c]) PROVE Hidden(win[c])
  BY DEF Returning
<1>1. win'[c] = Insert(win[c], "bsp", FALSE) \/ win'[c] = win[c]
  BY DEF SetLayout
<1>2. ~Hidden(Insert(win[c], "bsp", FALSE))
  BY InsertHides DEF WindowsInv
<1> QED
  BY <1>1, <1>2

LEMMA JumpReturns ==
  ASSUME WindowsInv, NEW t, JumpTo(t)
  PROVE  Returning
<1> DEFINE c == Holder(t)
           v == IF "minimized" \in win[c].bits
                THEN Minimized(win[c], FALSE, c \in minimized) ELSE win[c]
<1>1. win' = [win EXCEPT ![c] = v]
  BY DEF JumpTo
<1>2. PICK linked : linked = (c \in minimized)
  OBVIOUS
<1>3. c \in Container => (Hidden(v) => Hidden(win[c]))
  <2> HIDE DEF c
  <2> QED
    BY <1>2, HidesNot DEF WindowsInv
<1> HIDE DEF c, v
<1> QED
  BY <1>1, <1>3, OneReturns

LEMMA StartReturns ==
  ASSUME WindowsInv, NEW t, StartMove(t) \/ StartResize(t)
  PROVE  Returning
<1> DEFINE c == Holder(t)
           w == Set(win[c], "moving")
           bare == [w EXCEPT !.leaf = "none"]
           r == Set(win[c], "resizing")
<1>1. \E v \in {w, bare, r} : win' = [win EXCEPT ![c] = v]
  BY DEF StartMove, StartResize
<1> HIDE DEF c
<1>2. c \in Container => /\ Hidden(w) => Hidden(win[c])
                         /\ Hidden(r) => Hidden(win[c])
                         /\ ~Hidden(bare)
  BY HiddenIs DEF WindowsInv, Set, Windows
<1> HIDE DEF w, bare, r
<1> QED
  BY <1>1, <1>2, OneReturns

LEMMA ReturningStep ==
  ASSUME WindowsInv, StripsInv, Next
  PROVE  Returning
<1>1. ASSUME NEW t, ClientRequest(t) \/ ForeignRequest(t) \/ SetClientProperty(t)
      PROVE  Returning
  BY <1>1, RequestReturns DEF ClientRequest, ForeignRequest, SetClientProperty
<1>2. ASSUME NEW o, Drag(o) \/ \E t \in Client : MoveToScreen(t, o)
      PROVE  Returning
  BY <1>2, RequestReturns DEF Drag, MoveToScreen
<1>3. /\ \A e \in Container : Hidden(Stopped[e]) => Hidden(win[e]) \/ Pardoned(e)
      /\ Stopped = [e \in Container |-> Stopped[e]] /\ win = [e \in Container |-> win[e]]
  BY StoppedReturns, StoppedStays DEF WindowsInv
<1>4. ASSUME NEW t, Unmap(t)
      PROVE  Returning
  <2>1. \E c, rest : Leave(c, Stopped, rest) \/ Leave(c, win, rest)
    BY <1>4 DEF Unmap
  <2> QED
    BY <1>3, <2>1, LeaveReturns
<1>5. ASSUME NEW c, NEW t, InsertClient(c, t)
      PROVE  Returning
  BY <1>3, <1>5, LeaveReturns DEF InsertClient
<1>6. CASE ButtonRelease
  BY <1>3, <1>6 DEF ButtonRelease, Returning
<1>7. ASSUME NEW t, NEW u, NEW c, NEW d, NEW x,
             \/ Refresh(t) \/ FocusIdx(c, x) \/ Mark(c)
             \/ SwapClients(t, u) \/ SwapContainers(c, d)
      PROVE  Returning
  BY <1>7, NothingReturns DEF Refresh, FocusIdx, Mark, SwapClients, SwapContainers, OnlyTabs
<1> QED
  BY <1>1, <1>2, <1>4, <1>5, <1>6, <1>7, MapReturns, DelayedReturns, LayoutReturns,
     JumpReturns, StartReturns DEF Next

(* A leaf is given its room back with the state that took it; what is      *)
(* excepted is a floating layout and the end of a drag in a master layout  *)
(* (cwc_container_set_maximized, _fullscreen, _minimized, _floating).      *)
THEOREM LeavesDoReturn == Spec => LeavesReturn
<1> DEFINE Inv == StripsInv /\ WindowsInv
           Step == \A c \in Container :
                     HiddenTile(c)' /\ ~HiddenTile(c) =>
                       \/ LayoutOf(c) = "floating"
                       \/ cursor.state = "move_master" /\ "floating" \in win[c].bits
<1>1. Inv /\ UNCHANGED vars => Inv'
  BY DEF StripsInv, NothingOutlives, GrabIsLive, Live, Mapped, WindowsInv, vars
<1>2. ASSUME Inv, Next
      PROVE  Step
  <2> SUFFICES ASSUME NEW c \in Container, HiddenTile(c)', ~HiddenTile(c)
               PROVE  Pardoned(c)
    BY DEF Pardoned
  <2>1. Hidden(win'[c])
    BY DEF HiddenTile, Hidden, IsTiled, IsFloating
  <2>2. ~Hidden(win[c])
    <3>1. CASE c \in Live
      BY <3>1 DEF HiddenTile, Hidden
    <3>2. CASE c \notin Live
      BY <1>2, <3>2 DEF StripsInv, NothingOutlives, Hidden, Blank
    <3> QED
      BY <3>1, <3>2
  <2> QED
    BY <1>2, <2>1, <2>2, ReturningStep DEF Returning
<1>3. Inv /\ [Next]_vars => Inv' /\ [Step]_vars
  BY <1>1, <1>2, StripsStep, WindowsStep DEF Sound
<1> QED
  BY <1>3, InitIsStrips, InitIsSound, PTL DEF Spec, LeavesReturn
=============================================================================
