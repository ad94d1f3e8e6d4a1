-------------------------------- MODULE Master --------------------------------
(***************************************************************************)
(* The master layouts of an output (layout/master.c, the layout part of    *)
(* desktop/output.c, and plugins/flayout.c for a layout of a plugin).  The *)
(* layouts form a ring that tags step through; the layout of the tag in    *)
(* view arranges the tiled windows.  Heights are shared out by the weights *)
(* of the containers, which nothing sets: they are all 1.  A factor is in  *)
(* tenths of the width.  With more columns than windows the code writes    *)
(* past its array of capacities (master.c:138), which stays in the padding *)
(* of the array for up to four columns: what it then arranges is modelled. *)
(* Unregistering the layout a tag uses leaves a freed layout to the tag    *)
(* (plugins/flayout.c:35 says so) and is not followed.                     *)
(***************************************************************************)
EXTENDS Integers, Lists

CONSTANTS Extra,           \* the layouts that plugins register
          Width, Height,   \* the size of the usable area
          Factor,          \* the factors that are set
          MaxWindows,      \* bound: tiled windows
          MaxCount         \* bound: masters and columns asked for

VARIABLES windows,  \* how many tiled windows the tag in view has
          tag,      \* the master_state of the tag in view
          ring,     \* the registered layouts, from layout_list on
          area,     \* the corner of the usable area
          drag      \* is a window resized, init_mwfact and grab_x of the last

masterVars == <<windows, tag, ring, area, drag>>

AtMost(a, b) == IF a < b THEN a ELSE b
Clamp(n) == AtMost(9, IF n < 1 THEN 1 ELSE n)

(***************************************************************************)
(* arrange_tile and arrange_monocle                                        *)
(***************************************************************************)

(* The i-th of n windows in a column; the last fills what remains.         *)
Cell(i, n, x, w) ==
    [x |-> x, y |-> area.y + (i - 1) * (Height \div n), width |-> w,
     height |-> IF i = n THEN Height - (n - 1) * (Height \div n) ELSE Height \div n]

Masters(m, len) == AtMost(m.count, len)
MasterWidth(m, len) == IF m.count >= len THEN Width ELSE (Width * m.mwfact) \div 10
Columns(m, len) == AtMost(m.columns, len - m.count)

(* How many windows the columns before column c hold; the last columns take*)
(* those that remain when the windows are divided evenly.                  *)
Before(m, len, c) ==
    LET sec == len - m.count
        cols == Columns(m, len)
        plain == cols - (sec % cols)
    IN c * (sec \div cols) + (IF c > plain THEN c - plain ELSE 0)

(* The secondary area is put beside the master without regard to area.x.   *)
Secondary(m, len, i) ==
    LET w == (Width - MasterWidth(m, len)) \div Columns(m, len)
        c == CHOOSE c \in 0 .. Columns(m, len) - 1 :
                Before(m, len, c) < i /\ i <= Before(m, len, c + 1)
    IN Cell(i - Before(m, len, c), Before(m, len, c + 1) - Before(m, len, c),
            MasterWidth(m, len) + c * w, w)

Tile(m, len) ==
    [i \in 1 .. len |->
        IF i <= Masters(m, len)
        THEN Cell(i, Masters(m, len), area.x, MasterWidth(m, len))
        ELSE Secondary(m, len, i - m.count)]

Monocle(len) == [i \in 1 .. len |-> Cell(1, 1, area.x, Width)]

Arranged == IF tag.layout = "tile" THEN Tile(tag, windows) ELSE Monocle(windows)

(***************************************************************************)
(* What changes the windows, the tag and the layouts                       *)
(***************************************************************************)

NewTag == [count |-> 1, columns |-> 1, mwfact |-> 5, layout |-> "tile"]

Show ==
    /\ windows < MaxWindows
    /\ windows' = windows + 1
    /\ UNCHANGED <<tag, ring, area, drag>>

(* The drag of the window that goes ends with it (stop_interactive).       *)
Hide ==
    /\ windows > 0
    /\ windows' = windows - 1
    /\ drag' \in {drag, [drag EXCEPT !.on = FALSE]}
    /\ UNCHANGED <<tag, ring, area>>

(* Another tag comes into view; what was set on it follows as steps.       *)
View ==
    /\ \E l \in ToSet(ring) : tag' = [NewTag EXCEPT !.layout = l]
    /\ windows' \in 0 .. MaxWindows
    /\ UNCHANGED <<ring, area, drag>>

Set(t) == tag' = t /\ UNCHANGED <<windows, ring, area, drag>>

SetMasterCount(n) == Set([tag EXCEPT !.count = n])
SetColumnCount(n) == Set([tag EXCEPT !.columns = n])
SetMwfact(f) == Set([tag EXCEPT !.mwfact = Clamp(f)])

(* cwc_output_set_strategy_idx: one step along the ring, or one back.      *)
SetStrategy(step) ==
    LET here == CHOOSE i \in DOMAIN ring : ring[i] = tag.layout
    IN Set([tag EXCEPT !.layout = ring[1 + ((here - 1 + step) % Len(ring))]])

RegisterLayout(l) ==
    /\ l \notin ToSet(ring)
    /\ ring' = Append(ring, l)
    /\ UNCHANGED <<windows, tag, area, drag>>

UnregisterLayout(l) ==
    /\ l \in ToSet(ring) \ {tag.layout}
    /\ ring' = RemoveAt(ring, CHOOSE i \in DOMAIN ring : ring[i] = l)
    /\ UNCHANGED <<windows, tag, area, drag>>

(* arrange_layers: a panel is on the left of the usable area, or is not.   *)
SetUsableArea(x) ==
    /\ area' = [area EXCEPT !.x = x]
    /\ UNCHANGED <<windows, tag, ring, drag>>

(***************************************************************************)
(* Resizing with the pointer, at x.  Only the tile layout takes part, and  *)
(* the tag is the one in view when the pointer moves.                      *)
(***************************************************************************)

ResizeStart(x) ==
    /\ ~drag.on /\ windows > 0
    /\ drag' = IF tag.layout = "tile"
               THEN [on |-> TRUE, init |-> tag.mwfact,
                     grab |-> (Width * tag.mwfact) \div 10]
               ELSE [drag EXCEPT !.on = TRUE, !.grab = x]
    /\ UNCHANGED <<windows, tag, ring, area>>

(* A variant that does not keep the factor in its limits.                  *)
DraggedFree(x) == drag.init + ((x - drag.grab) * 10) \div Width

Dragged(x) == Clamp(drag.init + ((x - drag.grab) * 10) \div Width)

ResizeUpdate(x) ==
    /\ drag.on
    /\ Set(IF tag.layout = "tile" THEN [tag EXCEPT !.mwfact = Dragged(x)] ELSE tag)

ResizeEnd ==
    /\ drag.on
    /\ drag' = [drag EXCEPT !.on = FALSE]
    /\ UNCHANGED <<windows, tag, ring, area>>

MasterInit ==
    /\ windows = 0
    /\ tag = NewTag
    /\ ring = <<"tile", "monocle">>
    /\ area = [x |-> 0, y |-> 1]
    /\ drag = [on |-> FALSE, init |-> 0, grab |-> 0]

MasterNext ==
    \/ Show \/ Hide \/ View
    \/ \E n \in 1 .. MaxCount : SetMasterCount(n) \/ SetColumnCount(n)
    \/ \E f \in Factor : SetMwfact(f)
    \/ \E step \in {-1, 1} : SetStrategy(step)
    \/ \E l \in Extra : RegisterLayout(l) \/ UnregisterLayout(l)
    \/ \E x \in {0, 2} : SetUsableArea(x)
    \/ \E x \in {0, Width} : ResizeStart(x) \/ ResizeUpdate(x)
    \/ ResizeEnd

(***************************************************************************)
(* Properties                                                              *)
(***************************************************************************)

Disjoint(b, c) == \/ b.x + b.width <= c.x \/ c.x + c.width <= b.x
                  \/ b.y + b.height <= c.y \/ c.y + c.height <= b.y

(* The tile layout leaves no window out of the usable area, no two windows *)
(* over one another and none of the height unused, with any count of       *)
(* masters, columns and windows, however the width is rounded and wherever *)
(* a drag has left the factor.  What stands apart is a usable area that    *)
(* does not begin at the left edge: the secondary windows are then placed  *)
(* too far left, over the masters (master.c:148 against master.c:94).      *)
TilesFit ==
    LET m == tag
        len == windows
        b == Arranged
        Fits(i, j) == i # j => Disjoint(b[i], b[j])
        strip == IF len > m.count
                 THEN (Width - MasterWidth(m, len)) % Columns(m, len) ELSE 0
        covered[i \in 0 .. len] ==
            IF i = 0 THEN 0 ELSE covered[i - 1] + b[i].width * b[i].height
    IN m.layout = "tile" /\ windows > 0 =>
         /\ \A i \in 1 .. len :
               /\ b[i].width > 0 /\ b[i].height > 0
               /\ b[i].x + b[i].width <= area.x + Width
         /\ \A i, j \in 1 .. Masters(m, len) : Fits(i, j)
         /\ \A i, j \in Masters(m, len) + 1 .. len : Fits(i, j)
         /\ area.x = 0 => \A i, j \in 1 .. len : Fits(i, j)
         /\ covered[len] = (Width - strip) * Height

=============================================================================
