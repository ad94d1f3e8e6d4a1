---------------------------- MODULE Transaction ----------------------------
(***************************************************************************)
(* The scheduler of src/desktop/transaction.c at work: everything that     *)
(* makes an arrangement of windows out of date (Lua, clients, hotplug,     *)
(* layer surfaces), the requests it makes of the scheduler, and the idle   *)
(* callback that serves them.                                              *)
(*                                                                         *)
(* An arrangement is not computed here: fresh holds the tags whose windows *)
(* stand where their layout would put them now.  A tag without a tiling    *)
(* layout has nothing to arrange.  Lua runs between events and also inside *)
(* the callback, when serving an output moves the keyboard focus and the   *)
(* focus signals are emitted.                                              *)
(***************************************************************************)
EXTENDS Scheduler

CONSTANTS
  Layouts,  \* the layout modes in use
  First     \* active_workspace of a new output

AllLayouts == {"floating", "master", "bsp"}

ASSUME TransactionAssumption ==
  /\ Layouts \subseteq AllLayouts /\ "floating" \in Layouts
  /\ First \in Index

VARIABLES
  sched,      \* the scheduler
  lua,        \* inside the callback, Lua may run: a focus signal is emitted
  plug,       \* "never", "in", or "out" with the state kept for a return
  view,       \* active_workspace of every output
  layout,     \* layout_mode of every tag
  staged,     \* output->pending: "none", "same" or "resizes" the usable area
  fresh,      \* the tags that are arranged for the present
  overlooked  \* history: tags that fell out of date with no request accepted,
              \*   each with the cause

vars == <<sched, lua, plug, view, layout, staged, fresh, overlooked>>

Plugged     == { o \in Output : plug[o] = "in" }
Current(o)  == <<o, view[o]>>
Currents(O) == { Current(o) : o \in O }
TagsOfAll(O) == UNION { TagsOf(o) : o \in O }

(* A request from Lua inside the callback, a new size of the output set    *)
(* inside the callback, another output that pushed this one aside, another *)
(* set of tags of a container.                                             *)
Causes == {"lua", "resize", "shift", "tags"}

Init ==
  /\ sched = Idle
  /\ lua = FALSE
  /\ plug = [o \in Output |-> "never"]
  /\ view = [o \in Output |-> First]
  /\ layout = [t \in Tag |-> "floating"]
  /\ staged = [o \in Output |-> "none"]
  /\ fresh = Tag
  /\ overlooked = {}

(* The tags of S are out of date and the scheduler becomes s.  The members *)
(* of missed fell out of date with no request that the scheduler accepts.  *)
DisturbMissing(S, missed, s) ==
  /\ sched' = s
  /\ fresh' = fresh \ S
  /\ overlooked' = { m \in overlooked \cup missed : m[1] \notin s.tags }

(* Requests are refused while the callback runs.                           *)
Disturb(S, s) ==
  DisturbMissing(S, IF sched.busy THEN S \X {"lua"} ELSE {}, s)

LuaMayRun == sched.busy => lua

----------------------------------------------------------------------------
(* What Lua and the clients do                                             *)

(* A variant that shows the windows of the new tag but leaves them where   *)
(* they are.                                                               *)
SetViewOnlyShown(o, i) ==
  /\ LuaMayRun
  /\ plug[o] # "never"
  /\ i # view[o]
  /\ view' = [view EXCEPT ![o] = i]
  /\ Disturb({}, ScheduleOutput(sched, o))
  /\ UNCHANGED <<lua, plug, layout, staged>>

(* cwc_output_set_view_only.  The tag to view is asked for whether or not  *)
(* it is out of date.                                                      *)
SetViewOnly(o, i) ==
  /\ LuaMayRun
  /\ plug[o] # "never"
  /\ i # view[o]
  /\ view' = [view EXCEPT ![o] = i]
  /\ Disturb({<<o, i>>}, ScheduleOutput(ScheduleTag(sched, <<o, i>>), o))
  /\ UNCHANGED <<lua, plug, layout, staged>>

(* cwc_output_set_active_tag and the selected property of a tag: other     *)
(* windows are visible, and the workspace moves on when it is deselected.  *)
SetActiveTag(o, i) ==
  /\ LuaMayRun
  /\ plug[o] # "never"
  /\ view' = [view EXCEPT ![o] = i]
  /\ Disturb({<<o, i>>}, ScheduleTag(ScheduleOutput(sched, o), <<o, i>>))
  /\ UNCHANGED <<lua, plug, layout, staged>>

(* A variant that takes any number for a layout mode.                      *)
SetAnyLayoutMode(t, l) ==
  /\ LuaMayRun
  /\ plug[OutputOf(t)] # "never"
  /\ layout' = [layout EXCEPT ![t] = l]
  /\ Disturb({t}, ScheduleTag(sched, t))
  /\ UNCHANGED <<lua, plug, view, staged>>

(* cwc_output_set_layout_mode                                              *)
SetLayoutMode(t, l) ==
  /\ LuaMayRun
  /\ plug[OutputOf(t)] # "never"
  /\ l \in AllLayouts
  /\ layout' = [layout EXCEPT ![t] = l]
  /\ Disturb({t}, ScheduleTag(sched, t))
  /\ UNCHANGED <<lua, plug, view, staged>>

(* A setter of the tag: gaps, master factor and count, columns.            *)
SetTagProperty(t) ==
  /\ LuaMayRun
  /\ plug[OutputOf(t)] # "never"
  /\ Disturb({t}, ScheduleTag(sched, t))
  /\ UNCHANGED <<lua, plug, view, layout, staged>>

(* A setter of a container on tag t (floating, maximized, ...): the code   *)
(* asks for the tag in view of its output.                                 *)
SetContainerState(t) ==
  /\ LuaMayRun
  /\ OutputOf(t) \in Plugged
  /\ Disturb({t}, ScheduleTag(sched, Current(OutputOf(t))))
  /\ UNCHANGED <<lua, plug, view, layout, staged>>

(* cwc_container_move_to_tag, from one tag of o to another.                *)
MoveToTag(o, from, to) ==
  /\ LuaMayRun
  /\ o \in Plugged
  /\ from # to
  /\ Disturb({<<o, from>>, <<o, to>>},
             ScheduleTags(ScheduleOutput(sched, o), {<<o, to>>, Current(o)}))
  /\ UNCHANGED <<lua, plug, view, layout, staged>>

(* cwc_container_set_tag and cwc_container_set_sticky, of a container that *)
(* enters or leaves the view: the master layout, which places the visible  *)
(* containers, is out of date, but only the output is asked for.           *)
SetContainerTags(o) ==
  LET uneven == { t \in {Current(o)} : layout[t] = "master" }
  IN  /\ LuaMayRun
      /\ o \in Plugged
      /\ DisturbMissing(uneven,
           uneven \X {IF sched.busy THEN "lua" ELSE "tags"},
           ScheduleOutput(sched, o))
      /\ UNCHANGED <<lua, plug, view, layout, staged>>

(* A variant that lets only the output that loses the container know.      *)
MoveToOutputAskingOld(t, o) ==
  /\ LuaMayRun
  /\ {OutputOf(t), o} \subseteq Plugged
  /\ OutputOf(t) # o
  /\ Disturb({t, Current(o)}, ScheduleTag(sched, Current(OutputOf(t))))
  /\ UNCHANGED <<lua, plug, view, layout, staged>>

(* cwc_container_move_to_output of a container on tag t.                   *)
MoveToOutput(t, o) ==
  /\ LuaMayRun
  /\ {OutputOf(t), o} \subseteq Plugged
  /\ OutputOf(t) # o
  /\ Disturb({t, Current(o)},
             ScheduleTags(sched, Currents({OutputOf(t), o})))
  /\ UNCHANGED <<lua, plug, view, layout, staged>>

(* A setter of the screen: mode, scale, transform, adaptive sync.          *)
StageOutput(o, what) ==
  /\ LuaMayRun
  /\ o \in Plugged
  /\ staged' = [staged EXCEPT ![o] = IF @ = "resizes" THEN @ ELSE what]
  /\ sched' = ScheduleOutput(sched, o)
  /\ UNCHANGED <<lua, plug, view, layout, fresh, overlooked>>

(* cwc_output_set_position: every output may have been moved.              *)
SetPosition ==
  /\ LuaMayRun
  /\ Plugged # {}
  /\ Disturb(TagsOfAll(Plugged), ScheduleTags(sched, Currents(Plugged)))
  /\ UNCHANGED <<lua, plug, view, layout, staged>>

----------------------------------------------------------------------------
(* What the backend and layer surfaces do                                  *)

(* arrange_layers finds another usable area.                               *)
LayersChanged(o) ==
  /\ ~sched.busy
  /\ o \in Plugged
  /\ Disturb(TagsOf(o), ScheduleTag(sched, Current(o)))
  /\ UNCHANGED <<lua, plug, view, layout, staged>>

(* on_request_state with a new size: the outputs of shifted are moved by   *)
(* the automatic output layout, and nobody asks for their tags.            *)
RequestState(o, shifted) ==
  /\ ~sched.busy
  /\ o \in Plugged
  /\ shifted \subseteq Plugged \ {o}
  /\ DisturbMissing(TagsOfAll(shifted \cup {o}),
                    TagsOfAll(shifted) \X {"shift"},
                    ScheduleTag(sched, Current(o)))
  /\ UNCHANGED <<lua, plug, view, layout, staged>>

(* on_new_output.  The containers that were rescued to the outputs of from *)
(* come back with cwc_output_restore, which resets the flags of the tags   *)
(* last.  An only output then adopts what the fallback output holds: to    *)
(* the tags of adopted with cwc_container_move_to_tag, to the tag in view  *)
(* without it.                                                             *)
NewOutput(o, from, adopted) ==
  LET restored == ResetFlags(ScheduleTags(sched, Currents(from \cup {o})), o)
      adopting == IF adopted = {} THEN restored ELSE ScheduleOutput(restored, o)
  IN  /\ ~sched.busy
      /\ plug[o] # "in"
      /\ from \subseteq Plugged
      /\ plug[o] = "never" => from = {}
      /\ adopted # {} => Plugged = {}
      /\ plug' = [plug EXCEPT ![o] = "in"]
      /\ Disturb(TagsOfAll(from \cup {o}),
                 ScheduleTags(adopting, adopted \cup {Current(o)}))
      /\ UNCHANGED <<lua, view, layout, staged>>

(* on_output_destroy: the containers of o are moved to the output a, whose *)
(* layout modes are all set again.  moved tells whether o had a container  *)
(* or an exclusive layer surface.                                          *)
OutputDestroy(o, a, moved, shifted) ==
  LET asked == (IF moved THEN {Current(o)} ELSE {}) \cup TagsOf(a)
  IN  /\ ~sched.busy
      /\ o \in Plugged /\ a \in Plugged \ {o}
      /\ shifted \subseteq Plugged \ {o, a}
      /\ plug' = [plug EXCEPT ![o] = "out"]
      /\ staged' = [staged EXCEPT ![o] = "none"]
      /\ DisturbMissing(TagsOfAll(shifted \cup {o, a}),
                        TagsOfAll(shifted) \X {"shift"},
                        ScheduleOutput(ScheduleTags(sched, asked), a))
      /\ UNCHANGED <<lua, view, layout>>

(* on_output_destroy of the only output: the containers are moved to the   *)
(* fallback output, which is asked for but is on no list to be served.     *)
LastOutputDestroy(o, moved) ==
  LET asked == IF moved THEN {Current(o)} ELSE {}
  IN  /\ ~sched.busy
      /\ Plugged = {o}
      /\ plug' = [plug EXCEPT ![o] = "out"]
      /\ staged' = [staged EXCEPT ![o] = "none"]
      /\ Disturb(TagsOf(o),
                 [Start(ScheduleTags(sched, asked)) EXCEPT !.outputPending = TRUE])
      /\ UNCHANGED <<lua, view, layout>>

(* transaction_pause and transaction_resume                                *)
PauseTransaction ==
  /\ ~sched.busy /\ ~sched.paused
  /\ sched' = Pause(sched)
  /\ UNCHANGED <<lua, plug, view, layout, staged, fresh, overlooked>>

ResumeTransaction ==
  /\ ~sched.busy /\ sched.paused
  /\ sched' = Resume(sched)
  /\ UNCHANGED <<lua, plug, view, layout, staged, fresh, overlooked>>

----------------------------------------------------------------------------
(* process_pending                                                         *)

(* The event loop runs the idle callback.                                  *)
BeginProcess ==
  /\ sched.armed /\ ~sched.busy
  /\ sched' = Begin(sched)
  /\ lua' = FALSE
  /\ UNCHANGED <<plug, view, layout, staged, fresh, overlooked>>

(* _process_pending_outputs.  A new size disturbs the tags of o: the       *)
(* request that arrange_layers makes for the one in view is refused.       *)
ProcessOutput(o, shifted, refocused) ==
  /\ sched.busy
  /\ o \in Unserved(sched, Plugged)
  /\ shifted \subseteq Plugged \ {o}
  /\ staged[o] # "resizes" => shifted = {}
  /\ staged' = [staged EXCEPT ![o] = "none"]
  /\ lua' = refocused
  /\ IF staged[o] = "resizes"
       THEN DisturbMissing(TagsOfAll(shifted \cup {o}),
                           (TagsOf(o) \X {"resize"}) \cup
                             (TagsOfAll(shifted) \X {"shift"}),
                           OutputServed(sched, o))
       ELSE Disturb({}, OutputServed(sched, o))
  /\ UNCHANGED <<plug, view, layout>>

(* cwc_output_tiling_layout_update of the output of t: the layout of the   *)
(* tag in view decides what is done.  The bsp layout arranges tag t if t   *)
(* has it too, the master layout arranges the tag in view.                 *)
ArrangedBy(t) ==
  LET c == Current(OutputOf(t))
  IN  IF layout[c] = "bsp" /\ layout[t] = "bsp" THEN {t}
      ELSE IF layout[c] = "master" THEN {c} ELSE {}

(* The tags, and the end of process_pending.                               *)
FinishProcess ==
  LET served  == { t \in sched.tags : OutputOf(t) \in Plugged }
      arranged == UNION { ArrangedBy(t) : t \in served }
  IN  /\ sched.busy
      /\ Unserved(sched, Plugged) = {}
      /\ sched' = Finish(sched, Plugged)
      /\ lua' = FALSE
      /\ fresh' = fresh \cup arranged
      /\ overlooked' = { m \in overlooked : m[1] \notin arranged }
      /\ UNCHANGED <<plug, view, layout, staged>>

----------------------------------------------------------------------------

Requests ==
  \/ \E o \in Output, i \in Index : SetViewOnly(o, i)
  \/ \E o \in Output, i \in Index : SetActiveTag(o, i)
  \/ \E t \in Tag, l \in Layouts \cup {"invalid"} : SetLayoutMode(t, l)
  \/ \E t \in Tag : SetTagProperty(t)
  \/ \E t \in Tag : SetContainerState(t)
  \/ \E o \in Output, from, to \in Index : MoveToTag(o, from, to)
  \/ \E t \in Tag, o \in Output : MoveToOutput(t, o)
  \/ \E o \in Output : SetContainerTags(o)
  \/ \E o \in Output, what \in {"same", "resizes"} : StageOutput(o, what)
  \/ SetPosition

Backend ==
  \/ \E o \in Output : LayersChanged(o)
  \/ \E o \in Output, shifted \in SUBSET Output : RequestState(o, shifted)
  \/ \E o \in Output, from \in SUBSET Output :
       \E adopted \in SUBSET TagsOf(o) : NewOutput(o, from, adopted)
  \/ \E o, a \in Output, moved \in BOOLEAN, shifted \in SUBSET Output :
       OutputDestroy(o, a, moved, shifted)
  \/ \E o \in Output, moved \in BOOLEAN : LastOutputDestroy(o, moved)
  \/ PauseTransaction
  \/ ResumeTransaction

Process ==
  \/ BeginProcess
  \/ \E o \in Output, shifted \in SUBSET Output, refocused \in BOOLEAN :
       ProcessOutput(o, shifted, refocused)
  \/ FinishProcess

Next == Requests \/ Backend \/ Process

(* The event loop runs its idle sources after every round of events.       *)
Fairness == WF_vars(Process)

Spec     == Init /\ [][Next]_vars
FairSpec == Spec /\ Fairness

----------------------------------------------------------------------------

TypeOK ==
  /\ sched \in Schedulers
  /\ lua \in BOOLEAN
  /\ plug \in [Output -> {"never", "in", "out"}]
  /\ view \in [Output -> Index]
  /\ layout \in [Tag -> Layouts]
  /\ staged \in [Output -> {"none", "same", "resizes"}]
  /\ fresh \subseteq Tag
  /\ overlooked \subseteq Tag \X Causes

(* No lost wakeup: while an output or a tag waits to be served, the idle   *)
(* callback is registered, unless the transaction is paused.               *)
WakeupPending == Awake(sched)

(* No wedged tag or output: transaction_schedule_tag ignores a tag that is *)
(* flagged, so a flagged tag of a plugged output must be on the list, also *)
(* after its output was unplugged with the flag set and came back.  An     *)
(* output with its flag set is served only under output_pending.           *)
FlaggedIsQueued == Unwedged(sched, Plugged)

Arranged(t) == layout[t] = "floating" \/ t \in fresh

Missed(t, causes) == \E c \in causes : <<t, c>> \in overlooked

Quiescent == ~sched.armed /\ ~sched.busy /\ ~sched.paused

(* Once all requests are served, the tag in view of every output stands    *)
(* where its layout puts it, although the layout that process_pending      *)
(* applies is the one of the tag in view and not of the tag on the list.   *)
(* The exceptions are known: tags disturbed inside the callback, tags of   *)
(* outputs that another output shifted, and containers whose set of tags   *)
(* brings them into or out of a master layout.                             *)
ViewIsArranged ==
  Quiescent => \A o \in Plugged :
                 Arranged(Current(o)) \/ Missed(Current(o), Causes)

(* When the usable area changes, so does the arrangement: the code does    *)
(* not keep it.  A new mode or scale set from Lua is committed inside the  *)
(* callback, and the request of arrange_layers for the tag in view is      *)
(* refused.                                                                *)
ViewFillsUsableArea ==
  Quiescent => \A o \in Plugged :
                 Arranged(Current(o)) \/ Missed(Current(o), Causes \ {"resize"})

(* Every accepted request is served: the tag leaves the list, unless the   *)
(* transaction is paused meanwhile.                                        *)
RequestsAreServed ==
  \A t \in Tag : t \in sched.tags ~> (t \notin sched.tags \/ sched.paused)
============================================================================
