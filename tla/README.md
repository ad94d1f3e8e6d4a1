# A TLA+ model of cwc

`cwc` is a Wayland compositor written in C on top of wlroots and configured in
Lua. It is one thread around one event loop: input devices, clients, outputs,
timers, signals and the Lua configuration all run as callbacks of that loop.
There is no preemption. What makes it hard is

* **deferred work**: changes are not carried out where they are made. They set
  flags, and one idle callback carries them out later, when the world may have
  changed;
* **re-entrancy**: a callback emits signals, signals run Lua, and Lua calls back
  into the code that is in the middle of something;
* **hotplug**: an output, the structure everything hangs off, can go and come
  back at any time, and what it held is rescued to another output and returned;
* **long legal sequences**: windows are mapped, floated, hidden, split, moved
  and closed in any order over one pointer structure.

Paths below are relative to the repository's `src/` directory.

## The system

| part | source | state it keeps | operations | talks to |
|---|---|---|---|---|
| bsp layout | `layout/bsp.c` | a binary tree of `bsp_node` per tag, `root` and `last_focused`; `enabled`, split, factor and box of each node | insert, remove, enable, disable, toggle split, update | called by containers, cursor, outputs; asks the scheduler |
| transaction scheduler | `desktop/transaction.c` | `T`: idle source, `paused`, `processing`, `output_pending`, list of tags; `pending_transaction` of outputs and tags | schedule output, schedule tag, pause, resume, the idle callback | called by everything; calls the layouts, commits outputs, updates focus |
| outputs, tags, hotplug | `desktop/output.c`, `objects/screen.c`, `objects/tag.c` | lists of outputs, `cwc_output_state` (tags, active workspace, container lists), states of unplugged outputs kept by name | new, request state, destroy, restore, view tag, layout mode, gaps, position | scheduler, containers, layer shell, Lua |
| containers | `layout/container.c` | state bits (floating, minimized, maximized, fullscreen, sticky), workspace, tags, output, `old_prop`, stack of toplevels | setters of each state, move to tag or output, insert, swap, fini | bsp layout, scheduler, outputs |
| master layout | `layout/master.c` | ring of registered layouts; per tag master count, factor, columns | arrange, register, unregister, cycle | called by the scheduler |
| layer shell | `desktop/layer_shell.c` | surfaces of four layers, exclusive keyboard layer | map, commit, unmap, arrange | changes the usable area, asks the scheduler, focus |
| toplevels | `desktop/toplevel.c`, `desktop/xwayland.c` | one per window, serial and throttle of resizes | map, commit, request, unmap, destroy | containers, focus, Lua |
| cursor | `input/cursor.c` | state of an interactive move or resize, grab, constraint, snap overlay | motion, button, start and end of an interactive move | containers, bsp layout, key and mouse bindings |
| keyboards, bindings | `input/keyboard.c`, `input/keybinding.c` | consumed keys, maps of bindings, repeat timer | key, modifiers, repeat, focus enter | Lua, session lock, focus |
| session lock | `desktop/session_lock.c` | lock, locked, a surface per output | lock, new surface, unlock, destroy | keyboard focus, outputs |
| seat, touch, tablet, text | `input/seat.c`, `touch.c`, `tablet.c`, `text_input.c`, `manager.c` | one `down` flag, touch points, devices and what they are mapped to, text inputs | add and remove devices, press and release, focus of text | focus, outputs, cursor |
| timers | `objects/timer.c` | event source, started, one-shot | start, stop, again, timeout, delayed calls | Lua |
| signals | `signal.c`, `luaobject.c`, `luaclass.c` | lists of C and Lua slots by name | connect, disconnect, emit | everything to Lua |
| processes | `process.c` | children with exit callback and output pipes | spawn, SIGCHLD, read pipes | Lua, event loop |
| hash map, vector | `util-map.c`, `util-vec.c` | open-addressing table, growable array | put, get, remove, grow, shrink | signals, bindings, outputs |
| ipc and cwctl | `ipc/`, `cwctl/` | clients of a socket | connect, message, close | Lua |
| dwl-ipc plugin | `plugins/dwl-ipc.c`, `protocol/dwl_ipc_v2.c` | bars bound to outputs, idle sources | tags, title, layout, requests of bars | signals |
| idle notification | `desktop/idle.c` | inhibitors, the notifier of wlroots | new, destroy, update | outputs, toplevels |
| startup, Lua, plugins | `main.c`, `config.c`, `luac.c`, `objects/`, `plugin.c`, `lib/`, `defconfig/` | Lua state and registries | load, reload, convert | everything |

What makes each part correct, and is stated as properties:

* *bsp*: the nodes of a tag are one tree; `last_focused` is a leaf in it; a tiled
  window is reached by the update and no other takes room; single updates leave
  the boxes a full update would; tiles do not overlap; reading order and focus
  are undisturbed by operations on other windows.
* *scheduler*: whatever waits is served; a flag never outlives its request; when
  nothing is pending, what is seen is arranged.
* *hotplug*: a container is in the lists of exactly the output it is on; what is
  rescued comes back to the tag it was in; what is seen belongs to the tag in view.
* *containers*: what a container owns (leaf, black rectangle, place in the list of
  minimized containers, tabs) follows its states, and nothing of it outlives it; a
  drag never holds a window that is gone.
* *signals, timers, bindings, processes*: a callback may change what called it.
* *session lock and focus*: a change of focus ends at the lock surface, or at an
  exclusive layer, while there is one.
* *Lua*: what it is handed exists, also after a reload; a number that stands for a
  function stands for the same function as long as it is kept.
* *clients and bars* are told the truth: keys, sizes, devices, tags, the pointer.
* *hash map and vector*: they are a map and a list.

`PROJECT.json` lists every component, and every hazard with its line.

## What is modelled

### `BspTree`, `Bsp`: the bsp layout

`BspTree` is the pointer surgery of `bsp.c` as operators on one value, a
`Forest`: which nodes are allocated, their `enabled` flags and their parent, left
and right pointers. A leaf belongs to one container and has its name; internal
nodes are drawn from a pool, as `calloc` draws them. The climbs of
`_bsp_node_enable` and `_bsp_node_disable` are least closed sets (`Visited`).
`SplitLeaf`, `SpliceOut`, `InsertRoot`, `RemoveRoot` and `ClosestLeaf` are what
`_bsp_insert_container`, `bsp_remove_container`, `bsp_entry_fini` and
`find_closes_leaf_sibling` do to the pointers.

`Bsp` is one tag in view, with the entry (`root`, `last`), the geometry (`geo`:
split, factor in sixteenths and box of a node), the state of each container that
matters here (`mode`: tiled, or hidden from the tiling) and whether the tag is
listed by the scheduler. Its actions are the callers: `InsertFirst`, `Insert`
and `Drop` for a window that is mapped, moved here or dropped; `RemoveLast` and
`Remove` with the four callers of `bsp_remove_container`, which differ in what
they update or schedule afterwards; `Untile` and `Retile` for the setters of a
container's state; `ToggleSplit`, `SetFactor`, `Focus`; and `Arrange`, the
scheduler reaching the tag. `UpdateNode` is `bsp_update_node`, with its rounding
and its rule for a disabled sibling.

### `Scheduler`, `Transaction`: the deferred work

`Scheduler` is `transaction.c` as operators on one value of `Schedulers`: the
struct `T` and the `pending_transaction` flags. Flags and list are separate on
purpose: the code tests the flag and serves the list.

`Transaction` puts the scheduler into the compositor. Its actions are whatever
makes an arrangement out of date, each with exactly the requests its code makes:
the setters of tags, screens and containers that Lua calls (`SetViewOnly`,
`SetActiveTag`, `SetLayoutMode`, `SetTagProperty`, `SetContainerState`,
`MoveToTag`, `SetContainerTags`, `MoveToOutput`, `StageOutput`, `SetPosition`),
the backend and clients (`LayersChanged`, `RequestState`, `NewOutput`,
`OutputDestroy`, `LastOutputDestroy`), a change of virtual terminal
(`PauseTransaction`, `ResumeTransaction`), and the idle callback in steps
(`BeginProcess`, `ProcessOutput`, `FinishProcess`). It is in steps because
serving an output updates the keyboard focus, whose signal runs Lua: between
those steps every Lua action is possible again (`lua`), and its requests meet
`T.processing`.

The arrangement is not computed. `fresh` is the set of tags whose windows stand
where their layout would put them now: an action that moves or resizes something
takes its tags out, and `FinishProcess` puts in those that
`cwc_output_tiling_layout_update` really arranges, which is decided by the
layout mode of the tag *in view*, not of the tag on the list (`ArrangedBy`).
`overlooked` is a history variable: which tags fell out of date without a
request that the scheduler took, and the cause. It makes the exceptions of
`ViewIsArranged` explicit instead of leaving them out of the model.

### `Homes`, `Hotplug`: outputs that go and come back

`Homes` is the promise: every window has a home, it is on the output of its home
whenever that is plugged, and is a guest elsewhere otherwise; what happens to a
guest does not change where it belongs. It knows of windows only a place and a
home, and of outputs only whether they are plugged.

`Hotplug` is what the code does. `win[c]` is a `struct cwc_container` with its
output, workspace, tags, leaf and `old_prop`; `view`, `seen` and `layout` are the
`cwc_output_state` that survives the output and is found again by the name of
its connector. The operations on one container (`MoveToOutput`, `MoveToTag`,
`Remember`, `Rescue`, `Restore`, `Insert`, `InsertTiled`) are functions from a
record to a record, in the order of the assignments and early returns of the
code; the actions apply them. `OutputDestroy`, `LastOutputDestroy` and `NewOutput` are
the handlers, with the second round of layout modes in `on_output_destroy`; the
rest are the operations of clients and Lua that change where a window is or what
of it is seen, which are possible on a guest as on any window, and on the saved
tags of an output that is gone. `pending` and `UpdateVisible` are the part of the
scheduler that shows and hides windows.

`HomeOf` and `PlaceOf` are the refinement mapping: the home of a container is its
`old_prop` if it has one, and its output and workspace otherwise. Under it a
rescue changes only the place, whatever moves and insertions the code does on
the way.

The first two modules overlap in one place: `scheduled` and `Arrange` in `Bsp` are the
projection of the scheduler to one tag.

### `Windows`: the states of windows, tabs and drags

`Windows` has the toplevels, the containers that hold them as tabs, and the
pointer that drags them. `win[c]` is what the state bits of a container own: the
bits, the leaf and whether it is enabled, the black rectangle of a fullscreen
window, and a `flaw`, the first thing done to it that nothing undoes. The setters
(`Fullscreen`, `Maximized`, `Floating`, `SetMinimized`) are functions from such a record
to the next, with the early returns of `cwc_container_set_*`; actions apply them for
clients, taskbars and Lua, each with the checks of its handler. `SurfaceMap` and
`Unmap` are the life of a window with the rules a mapped window starts under,
`MoveToScreen` and `Drag` move a container to another output and leave the delayed
call `DelayedMaxFull` behind, `SetLayout` puts the windows without a leaf in the tree,
`StartMove`, `StartResize` and `ButtonRelease` are the drag in the three layouts, and the
remaining ones are the operations on tabs. `tabs` is the list of a container and
`stack` the order of its scene tree, which the code keeps apart.

### The services

Twenty-one parts share no state with the others. They are modules of their own, and
`MCServices` runs them together: the initial state picks a part, which then runs on
its own, so that state counts add up. They share the variables `x1` to `x8`, to which
each `INSTANCE` maps its own.

| module | code | what it is about |
|---|---|---|
| `Keys` | `keyboard.c`, `keybinding.c`, `kbindmap.c` | a key press walks the maps of bindings, whose callbacks may move the focus or switch maps; the tracker of consumed keys, what the focused client believes to be held, one repeating binding per map |
| `Focus` | `session_lock.c`, `layer_shell.c`, focus parts of `output.c`, `toplevel.c`, `keyboard.c`, `text_input.c` | who has the keyboard: windows, layer surfaces, lock surfaces; the callback of the seat moves the focus again |
| `Touch` | `seat.c`, `touch.c`, `tablet.c`, buttons of `cursor.c` | one `down` flag for mouse, fingers and pen, and the surfaces that die under them |
| `TextInputs` | `text_input.c` | text inputs, the input method, and answers that come late |
| `Devices` | `seat.c`, `manager.c`, `tablet.c`, `output.c` | devices and outputs that come and go, capabilities, mapping, the order of outputs |
| `Pointer` | `cursor.c` | the image of the pointer: theme, surface of a client, hidden, dragging, hyprcursor animation |
| `Timers` | `objects/timer.c` | every method on every timer, inside and outside of callbacks |
| `Signals` | `signal.c` | nested emissions over lists that the callbacks change |
| `Processes` | `process.c` | SIGCHLD, the signal pipe, exits and output |
| `Satellite` | `xwayland.c` | X11 display, locks, sockets, and the process that serves them |
| `Toplevels` | `toplevel.c`, `container.c`, `output.c` | the four places that say on which output a window is |
| `Resizes` | `container.c`, `toplevel.c`, `output.c`, `cursor.c` | asking for sizes, late answers, frames that wait, the pending box of the pointer |
| `Idle` | `idle.c`, `output.c` | inhibitors, the toplevels that come into view and leave it, and when the notifier is told |
| `Ipc` | `ipc/server.c`, `ipc/common.c`, `cwctl/main.c` | questions and answers over a stream, evaluated one at a time, between a server and clients that end at any moment |
| `Bars` | `dwl-ipc.c`, `dwl_ipc_v2.c` | what status bars were told |
| `Master` | `master.c`, `output.c`, `flayout.c` | the ring of layouts and the arithmetic of areas, in integers |
| `Lists` | `wl_list` | the operators on lists that several of these modules share; they are those of `SequencesExt`, which the proofs over many instances would carry along with all it extends |
| `HashMap`, `Vector` | `util-map.c`, `util-vec.c` | both tables beside the abstract map or list they stand for |
| `LuaObjects` | `luaobject.h`, `luaclass.h`, `luac.c` and those that register | which addresses Lua accepts, over reloads |
| `LuaRefs` | `luac.c`, `process.c`, `timer.c` | the table of `luaL_ref` with its list of free places, over reloads |

The last part, `factors`, is `Bsp` once more, with two windows and factors at
both ends of their range on an area whose height they do not divide.

## What is checked

| run | instance | properties |
|---|---|---|
| `bsp_tree` | three containers, two internal nodes, a 4 by 4 area | `TypeOK`, `OneTree`, `TiledIsReached`, `GeometryIsCurrent`, `TilesDoNotOverlap`, `OrderIsKept`, `FocusMovesToNeighbour` |
| `bsp_hollow` | four containers, three internal nodes | `NoHollowNode` is violated |
| `transaction` | one output, two tags, three layouts | `TypeOK`, `WakeupPending`, `FlaggedIsQueued`, `ViewIsArranged`, `RequestsAreServed` |
| `transaction_two` | two outputs, one tag each, three layouts | `ViewIsArranged` |
| `transaction_resize` | as `transaction` | `ViewFillsUsableArea` is violated |
| `hotplug` | two outputs, one container, two tags, floating and bsp layouts | `TypeOK`, `NobodyIsStranded`, `LeavesAreFound`, `GuestsWait`, `HomesAreKept` |
| `hotplug_shown` | as `hotplug` | `ShownIsVisible` is violated |
| `hotplug_close` | as `hotplug` | `OldLeafIsFound` is violated |
| `windows` | two toplevels, two containers, two screens, three layouts | `TypeOK`, `GrabIsLive`, `NothingOutlives`, `BackdropIsOwned`, `LeavesReturn`, `TilesKeepTheirPlace`, `LeavesAreSingle`, `FrontStaysShown`, `ListFollowsState` |
| `windows_leaf` | one toplevel, one container, one screen, bsp and floating layouts | `NoSecondLeaf` is violated |
| `services` | the twenty-one parts, each on an instance of its own | see below |
| `services_release` | as `services` | `PendingIsLast` is violated |

`OneTree` says that no sequence of operations leaves a stale or lost pointer.
`TiledIsReached` says that the two climbing rules, used in any order, never
disable a node above a tiled window nor leave a hidden one with room.
`GeometryIsCurrent` compares the boxes that the local updates leave with those of
an update from the root: no operation forgets something it disturbed, unless the
tag is scheduled or a hidden container was closed beside a gap (`LeavesGap`; the
history variable `neglected` remembers it until the next arrangement). `OrderIsKept` and `FocusMovesToNeighbour` relate the tree
before a step to the tree after it.

`WakeupPending` and `FlaggedIsQueued` are the two ways in which a deferred
request can be lost for good: no callback is registered, or a flag says the tag
is queued when it is not. `ViewIsArranged` says that the requests are the right
ones: when the scheduler has nothing left to do, what is seen is arranged. The
exceptions it allows are recorded by cause: Lua inside the callback, a new size
committed inside the callback, a neighbour moved by the automatic layout, and
another set of tags of a container under the master layout.

`HomesAreKept` is the refinement of `Homes`: after any sequence of unplugging,
also of the output that took the windows in, the return of an output brings
back exactly the windows that belong there. `GuestsWait` is why: `old_prop` never
refers to an output that is plugged, so that the structure it points to is not
freed. `LeavesAreFound` relates the three fields that `bsp_remove_container`
reads, which are changed in different places and orders.

In `Windows`, most properties are about steps: a window loses its leaf's room, its
place in the tree, its front tab or its place in a list only in the cases that the
property names, each of which is what the code really does (`LeavesReturn`,
`TilesKeepTheirPlace`, `FrontStaysShown`, `ListFollowsState`). `LeavesAreSingle` says that no
step but the end of a drag can insert a window twice; `windows_leaf` shows that one can.
`BackdropIsOwned` and `NothingOutlives` are about what a container leaves in the scene
and in the server, `GrabIsLive` about what the pointer holds.

The run `services` states thirteen properties. Some are of one part:
`ClientSeesHeldKeys` (no client is left with a stuck key, however bindings move the
focus), `RepeatNeedsAKey`, `SeatIsReleased`, `StartedTimersRun`, `EmissionIsComplete`,
`CallbacksAreTheirs`, `ObjectsAreKnown` (what Lua is handed lives, under its own class),
and the action property `FocusIsGuarded`. The others join one
property of several parts under a common idea:

* `NothingDangles`: nothing with the focus, nothing the seat is down on, no window in
  a list and no text input is gone (`Focus`, `Touch`, `Toplevels`, `TextInputs`);
* `AllIsAccounted`: exits that are owed, processes that are watched, frames that wait,
  questions that are answered (`Processes`, `Satellite`, `Resizes`, `Ipc`);
* `MapAnswers`: map and vector return what they were given, and devices have the
  capabilities and places that were asked for (`HashMap`, `Vector`, `Devices`);
* `TilesFit`: master and bsp layouts leave no gap and no overlap (`Master`, `Bsp`);
* `ShownIsCurrent`: pointer image, bars, window sizes and idle inhibition are those last
  asked for (`Pointer`, `Bars`, `Resizes`, `Idle`).

The comment above each property names the exceptions the code has.

### Six disagreements

* **`bsp_hollow`**: the comment on `_bsp_node_disable` says that a node with no
  enabled child is disabled. Removal does not do that: splice out the only
  enabled leaf beside a subtree of hidden ones and the node above keeps its share
  of the screen, empty. Such a node has a second effect, which the proof of the geometry
  brought to light: when a hidden container is closed whose sibling is disabled while
  their parent is enabled or the root, the parent goes with it, its room is free, and
  neither `bsp_remove_container(container, false)` nor
  `cwc_output_tiling_layout_update_container` places anything, as the container is not
  tiled. The other windows keep their boxes, too small, until the next arrangement.
* **`transaction_resize`**: a new scale or mode from Lua is committed inside the
  idle callback, and the request that `arrange_layers` makes for the tag in view
  is refused there. The tiled windows keep the old size until something else asks
  for the tag.

* **`hotplug_shown`**: moving a container to another output gives it other tags but
  leaves its scene node as it was. A window hidden on the fallback output and
  taken in by the first output that appears stays hidden on a tag in view, with
  nothing scheduled.
* **`hotplug_close`**: a rescued container that was given another tag as a guest is
  closed. Its old leaf is looked for by its present tag, not by the one in
  `old_prop`: the entry belongs to another tree, or there is none.
* **`windows_leaf`**: the leaf of a window is removed when it is dragged in a bsp layout.
  A layout mode set before the button is released gives it one again, and the end of
  the drag inserts it a second time, against the assertion in
  `_bsp_insert_container_entry`.
* **`services_release`**: a pointer that resizes a window keeps the box of a motion that
  came too early and applies it when the button is released. A later motion that was
  in time does not replace it, so that the release goes back to an older box.

### Bounds, and why they are enough

* *Three containers* (`bsp_tree`): the smallest tree in which a removed leaf has
  a grandparent and a sibling can be an internal node; every branch of insertion
  and removal is taken. `bsp_hollow` needs four, and so does a gap (`LeavesGap`) that a
  close of a hidden container leaves. For any number of containers the properties of the
  tree and of the geometry are proved.
* *The area* is small so that few boxes occur, and in the part `factors` odd in one
  direction and with factors at both ends of the range, so that rounding bites.
  The factor is a float in the code; sixteenths divide the width exactly and the
  height not.
* *`FirstModes = {"tiled"}`*: the first window of a tag arrives tiled. The other
  case (`bsp.c:406`, an enabled leaf of a hidden window) is left out of the runs and
  of `TiledStaysReached`, but not of the other theorems of `BspProofs`; see the hazards.
* *Box of a hidden leaf*: not tracked. Only the direction in which a later split
  beside it cuts depends on it, and there both directions are tried.
* *One output with two tags, two outputs with one*: a request concerns the tag
  itself, another tag of its output, or a tag of another output; each pair of
  these occurs in one of the two instances. The invariants are proved for any
  number.
* *One container* (`hotplug`): in `Hotplug` no operation on one window reads
  another, as the trees are reduced to the owner of a leaf. Two outputs let a
  window be rescued to another output, from there to the fallback output, and
  home in either order; two tags let it be moved to another tag as a guest. The
  invariants and the refinement are proved for any number of each.
* *`TagSets`*: a bound on the sets of tags that are selected or given to a window.
  The two small runs include the empty one, with nothing in view.
* *States of a container* (`hotplug`): only floating is kept; the moves do not read
  the others, except that a container in an interactive move gets no leaf.
* *Two toplevels, two containers, two screens* (`windows`): enough for a window and a
  tab beside it, another container to go to, and another output with another
  layout. `MaxLoad` (a `CONSTRAINT`, with `Bounded`) bounds how many state bits and
  delayed calls there are while two toplevels are mapped, to one; a single toplevel
  may have all of them. Nothing is followed past a `flaw`, as the list or tree is
  broken then; the step into it is still checked. For any number the six theorems
  hold, without these bounds.
* *Symmetry* permutes containers, internal nodes, outputs and windows, which no
  definition names; it is not used where a liveness property is checked.
* *Services*. Two of most things, as their hazards need an actor and the one it
  disturbs: two keys, surfaces, layer surfaces, outputs, fingers, buttons, timers,
  callbacks. Three slots (a callback connected twice), children (two exits merged
  beside a third), windows (one of them of X11). `MaxNesting` and `MaxDepth` = 2: a callback
  inside a callback. `MaxSpurious` = 1: bytes written by children. Hashes
  {8, 16, 2, 3, 4, 5, 1} with `MaxUse` = 8 entries and removals between rehashes fill a table of
  eight slots with chains that meet, and rehash it both ways. `MaxHeld` = 17: a
  vector doubles to 32 and is halved; at most one value is not 0, which `Span` = 4 cuts.
  `MaxWindows` = 5 and `MaxCount` = 3: more masters, columns and windows than each
  other. `Width` 40, `Height` 5, factors 0, 5 and 12 tenths: both ends past the limits,
  divided by 2 and 3. `LastDisplay` = 2: all displays taken. `MaxRef` = 5 for four
  holders: places are freed and used again. `Watched`: bars are opened for one of two
  screens. The floating window of `Resizes` has widths 1 to 3, at `Least` 2, the tiled one
  1 and 2; a count of resizes below one is kept as 0, as the code treats it alike. A text
  input that went is not created again.
* *Parts that stop*: `CHECK_DEADLOCK FALSE` in `windows` and `services`, as what is not followed
  (below) and counters at their bound end a behaviour.

### Fairness

`FairSpec` assumes `WF_vars(Process)`: when the idle source is registered the
callback runs, and once it runs it ends. `wl_event_loop_dispatch` runs all idle
sources after each round of events, and the callback is straight-line code over
finite lists. Nothing is assumed of Lua, clients or the backend, and no fairness of any
other module. Pausing removes
the idle source, and the code gives no promise that the session is ever resumed,
so `RequestsAreServed` ends at a pause.

## What is proved

Eight modules hold theorems for every value of the constants, from the named
assumptions on them only (`ListProofs` has the lemmas on lists that others cite): the names of containers and internal nodes are disjoint
and `NULL` is neither; `"floating"` is a layout in use and a new output starts with one
of its tags; tag indices are naturals, and the fallback output and `NONE` are no
outputs and no records; there are finitely many toplevels and at least as many
containers; fingers, buttons and the pen are told apart; a Lua function is neither a
number nor nil; `NULL` is no object, and the names of cursors are no surfaces; a layer
surface is no window, and a device is of one kind; the hash of a key is not 0; the usable
area has a pixel for each row, and ten times as many as columns across; there is an output, a
display and a tag.

**The tree** (`TreeStays`: `Spec => []OneTree`; `TiledStaysReached`:
`TiledIsReached` always holds when the first container of a tag is tiled). The
invariant is `TreeInv`, that is `OneTree` with the types of the fields it reads,
and `ModeInv`, the relation of modes to enabled flags. Acyclicity is stated for
sets of nodes (each non-empty set has a member without a child in it, and one
without its parent), so that surgery preserves it by an argument on sets and no
induction along paths is needed. `SplitKeepsTree` and `SpliceKeepsTree` are the
heart: the pointers around the touched node are given names (`Surroundings`), and
each set of nodes after the surgery is mapped to one before it.
`EnableKeepsUpward` and `DisableKeepsUpward` are the two climbs, from the fact
that `Visited` is the least closed set (`VisitedIsLeast`). `ClosestLeafIsALeaf` shows
that a walk down a finite tree ends in a leaf, from acyclicity.

**The geometry** (`BspTypes`, `GeometryStaysCurrent`, `TilesStayApart`). `bsp_update_node` is a
recursion down the tree, in the model a recursive function, and no induction is
needed for it: its solutions on sets of nodes that hold what they depend on agree
(`SolutionsAgree`: two that differ would differ first at a node whose parent they agree
on), and together solve it everywhere (`SolutionExists`), both from acyclicity. So a node
that is placed has its share of its parent's box, and any other the box it had
(`UpdateIs`). The invariant `GeoInv` is about the nodes that are *seen*, enabled ones but
for leaves of hidden containers: while nothing is pending each lies in what its parent
gives (`Nested`), and is just that when nothing was neglected either (`Exact`). Two of them
are needed: an update below one node leaves `Exact` what was, and a gap left by a close
spoils `Exact` but not `Nested`. `SpliceSides` says who is beside whom after a removal;
`SpliceThenUpdate` and `SpliceAlone` are the removals, with and without an update. `Exact`
gives the boxes of an arrangement from scratch (`ExactIsFresh`); `Nested` keeps two tiles
apart, as the ways up from them meet in a node with a child on each (`NestedIsApart`), whose
shares are disjoint whatever is rounded (`SharesAreBoxes`).

**The scheduler** (`Soundness`: `Spec => []IInv`). `ViewIsArranged` is not
inductive, as it is about quiescent states only. `IInv` is `TypeOK`,
`WakeupPending` and `FlaggedIsQueued` with `ViewIsCared`, which says of every
moment, also while the callback runs, that a tag in view is arranged, recorded as
missed, or on the list. Its parts need each other: a request puts a tag on the
list only if no stale flag is in the way (`FlaggedIsQueued`), and an empty list
follows from quiescence only by `WakeupPending`. Each action has a lemma of its
own; most follow from what a request does to the scheduler
(`ScheduleTagsIsSound`, `ScheduleOutputIsSound`) and from what a disturbance does
to the arrangement (`DisturbMissingKeeps`).
`TransactionTypes`, `NoLostWakeup`, `NoWedgedTag` and `ViewStaysArranged` follow.

**Hotplug** (`HotplugTypes`, `NobodyStaysStranded`, `LeavesStayFound`,
`GuestsKeepWaiting` and the refinement `HomesStayKept`: `Spec => HomesAreKept`). The
invariant is the conjunction of the types, the soundness of each window's leaves
(`Sound`) and the two invariants on places; the last is needed for the
refinement, which must tell a guest from a window at home by its place alone.
There is a lemma for each operation on one container, from which three lemmas
follow for the actions: what is done to one window is a move
(`HandlingIsAMove`), what leaves places and homes alone is a stutter
(`LeavingIsAStutter`), and rescuing all windows of an output is an unplugging
(`RescuingIsAnUnplug`). Each action then has its lemma, which proves both the
invariant and the step of `Homes`. That a set of tags has a first one comes from
the well-foundedness of the naturals (`FirstTagIsATag`).

**Windows** (`WindowsTypes`, `BackdropStaysOwned`, `NothingStaysBehind`, `GrabStaysLive`, and
the action properties `LeavesStaySingle`, `TilesKeepPlace`, `ListKeepsUp`, `FrontsStayShown`,
`LeavesDoReturn`). Four invariants build on
each other. `WindowsInv` says of each window alone that its rectangle goes with being
fullscreen: each setter has a lemma on one record (`Follows`, `Keeps`), which also says
what it does to the leaf, and from which every action follows. `StripsInv` adds what
relates windows: the tabs are sequences of toplevels, nothing outlives a container,
delayed calls belong to living ones, and the pointer drags a toplevel that is mapped.
The tabs are needed, as a drag writes to the container of what it drags, and that
container must be there; `NothingOutlives` in turn needs the drag to end with its
window. `PlacesInv` adds that every living container is on a screen. `StripsAre` says that
the two lists of a container hold the same toplevels, each once, and that no two containers
share one: it is needed for the fronts, as refreshing one container must not hide what is
in front of another (`FrontsStay`). What a step does to the lists is said of the few
containers it writes to (`StripsMove`), from lemmas on lists of different toplevels
(`UnlinkedFrom`, `LinkedTo`, `ReversedOf`). The action
properties follow from a case for each action under these invariants, with a lemma
for each operation on what it does to the leaf or to the list.

**The services.** All twenty-one parts are proved, in two steps. `DesktopProofs` (`Touch`,
`Focus`, `TextInputs`, `Toplevels`, `Idle`, `Resizes`, `Pointer`, `Keys`, `Devices`,
`Master`), `BspProofs` (`Bsp`) and `LuaProofs` (`Timers`, `LuaRefs`,
`Signals`, `LuaObjects`, `Satellite`, `Ipc`, `Processes`, `Bars`, `HashMap`, `Vector`) have for each part an invariant over
variables of its own, that it holds at the start (`...Start`), that each step and each
stutter keeps it (`...Step`, `...Stutter`), and that it implies the property. `ServicesProofs`
carries this over to the composition that TLC runs: a part is never left (`PartStays`),
and a *bridge* says that a component read over `x1` to `x8` in `MCServices` is the same as
the one proved. Its theorems name the very properties of the run `services`:

| theorem | parts | what makes the property inductive |
|---|---|---|
| `SeatStaysReleased` | `Touch` | only fingers that are down are tracked, and the surface lives |
| `HeldKeysStaySeen`, `RepeatStaysHeld` | `Keys` | a key is in the tracker once and only while it is held; while the maps are gone through, what is known differs from what it should be by the key on its way (`Going`), for any number of maps: the first map after which that fails is refuted (`SearchKeeps`); only a binding that is there is repeated |
| `StartedStaysArmed` | `Timers` | each method leaves a record whose flag and source agree, and a callback that returns leaves the flag as it is or clears it |
| `CallbacksStayTheirs` | `LuaRefs` | `FreeIsListed`: the free places are lists that never meet, so that `luaL_ref` never hands out one in use, until a number of a former state is given back |
| `FocusStaysGuarded` | `Focus` | every operation is a function from a world to a world; each keeps a world sound, and ends with the focus at the guard if it moved the focus |
| `NothingEverDangles` | `Focus`, `Touch`, `Toplevels`, `TextInputs` | the above; the windows of one container are managed alike; at most one text input is entered, on the surface in focus |
| `EmissionStaysComplete` | `Signals` | no slot is twice in the lists; what stands before the place of a walk was called once, what stands behind it not yet, for every nested walk at once |
| `ObjectsStayKnown` | `LuaObjects` | only objects of some kinds are listed; a tag stays known while its output is unplugged; the state that waits for an output holds a tag |
| `AllStaysAccounted` | `Processes`, `Satellite`, `Resizes`, `Ipc` | zombies are no more than the exits merged, pending and piped; our lock is that of our display and its sockets are watched or served; the windows a frame waits for are counted; a question, its evaluation and its answer are in one place of the three ways, and parts of an answer come in order |
| `ShownStaysCurrent` | `Pointer`, `Bars`, `Resizes`, `Idle` | the name owed after hiding and dragging is the one wanted; a bar is told of its screen or an idle source is pending; a client was asked for the size of its container; inhibitors are a finite set |
| `MapAlwaysAnswers` | `HashMap`, `Vector`, `Devices` | `Good`: the walk of each key ends at its entry, wherever chains of others meet its own; no hash is in two slots, and there are as many keys as entries, so that a slot is free for the next. An entry put behind the end of one chain disturbs no other (`FoundStays`), and a new table is good for the keys moved so far (`RehashGood`). The storage of a vector begins with its elements. A device is mapped to an output it is for, or adrift, and a list that is sorted by insertion has none behind one it should be in front of |
| `TilesAlwaysFit` | `Master`, `Bsp` | the factor stays in 1 to 9 and the counts are positive. The places before a column grow with it (`AheadGrows`), so that each window is in one column (`ColumnIs`); the rows of a column end where the next begin, and the areas add up, or else there were a first window up to which they do not (`FirstPlace`). The tree is that of `TilesStayApart`, over the constants of the part |

**Only model-checked**: `OrderIsKept` and `FocusMovesToNeighbour`, on the sequence that a
recursion over the tree yields; and `RequestsAreServed`, a liveness property. Liveness,
recursion over data and `ENABLED` are out of the prover's reach.

## What is not modelled, and why

* *Undefined behaviour is not followed.* Where the code reads freed memory or indexes past
  an array, the module says so in its heading and the behaviour ends before it. They
  are real reachable states of the program, met while modelling:
  a timer destroyed by its own callback (`timer.c:82`); a callback that disconnects the
  slot its emission stands on (`signal.c:153`); the output pipe of a child that has
  exited (`process.c:109`); a map of bindings cleared while one of them repeats; a
  lookup in a hash map whose chain has become a circle, which `util.h:29` admits; a
  push without memory, which counts an element that is not there (`util-vec.c:85`); a
  layout unregistered while a tag uses it (`master.c:46`); columns past the padding of an array
  (`master.c:138`); an X11 window that changes whether it is managed while it is mapped
  (`toplevel.c:205`); an insert mark on an unmanaged container; the animation timer of
  a hyprcursor theme, which is not stopped with its frames; a keyboard that is
  unplugged, as nothing takes it out of its group (`keyboard.c:453`); a bar that asks for
  a screen that is just gone; a plugin unloaded while its idle callback is pending
  (`dwl-ipc.c:440`); a delayed call whose container is gone (`container.c:803`).
* *Ends of a process are followed to the end*: in `Ipc` the compositor dies when it sends to
  a `cwctl` that left (nothing in this code ignores `SIGPIPE`) and when it cleans up while a connection is open
  (`ipc/server.c:207` walks the list it frees), and `cwctl` tries for ever once the server is gone
  (`cwctl/main.c:96`); in `Idle` it dies at an inhibitor on a toplevel that is not mapped
  (`container.c:1557`). A chunk for `Ipc` fits one read, and at most two parts wait on a way when
  the next question is asked; results that stay on the stack of Lua are not counted.
* *Exceptions that a property names are not failures of the model* but what the code does
  there; the comment above each property lists them, and they are worth the attention of
  whoever maintains the code: windows that lose their place in a bsp layout, pointer
  images that are lost, titles and tags that bars are not told, devices left unmapped
  until the next output is plugged, objects not registered again by a reload, text that
  goes to a window behind the lock.
* *Within the modelled parts*: workspace 0 (nothing in view), disabled screens,
  views of several tags beyond what `SetActiveTag` and `SetContainerTags` do to
  arrangement, the tags of the fallback output, outputs created by Lua inside
  the callback, a reload of the configuration except where a module names it; the
  order of the listed tags and duplicates in the list (serving a tag twice or in another
  order gives the same arrangement); the boxes a floating window remembers and
  `restore_floating_box_for_all`; a first window of a tag that is not tiled (`FirstModes`);
  popups, decorations, urgency, capture and the stacking of layers; pointer
  constraints, gestures, axis events and snapping to edges, which are
  forwarded or computed from one event; transient seats and drag icons; xkb
  layouts and options; weights in the master layout, which nothing sets.
* *Parts left out*: the output manager and the workspace protocols, which turn requests
  into operations modelled elsewhere; the options and scripts of `cwctl`; start-up and
  shutdown, which run once in order; `cwcle`, an example; the Lua libraries and the
  default configuration, which are programs of their own on top of the bindings;
  conversions between Lua and C, drawing and logging, which keep no state.

## What is left

1. Composition of `Windows` with `Bsp`: the exceptions of `TilesKeepTheirPlace` seen in the
   geometry, with the first container of a tag of any state (`FirstModes`).
2. `HashMap` with the failures of its chains followed, as a refinement of a map that may
   not answer.
3. Gestures, constraints and the memory of floating boxes in `Windows`.
