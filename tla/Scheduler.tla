----------------------------- MODULE Scheduler -----------------------------
(***************************************************************************)
(* src/desktop/transaction.c: the scheduler that gathers the outputs and   *)
(* the tags that need work and serves them in one idle callback of the     *)
(* event loop.  One value s of Schedulers is the static struct T with the  *)
(* pending_transaction flags of outputs and tags, which live in other      *)
(* structs but are read and written as part of it.                         *)
(*                                                                         *)
(* The array T.tags is a set here: the order in which tags are arranged    *)
(* and a tag that stands in it twice make no difference to the result.     *)
(***************************************************************************)

CONSTANTS
  Output,  \* the outputs, named by their connector
  Index    \* the indices of the tags of an output

(* A struct cwc_tag_info: it lives in the state of its output, which is    *)
(* kept when the output is unplugged.                                      *)
Tag == Output \X Index

TagsOf(o)   == {o} \X Index
OutputOf(t) == t[1]

Schedulers ==
  [ armed         : BOOLEAN,         \* T.idle_source is not NULL
    paused        : BOOLEAN,
    busy          : BOOLEAN,         \* T.processing
    outputPending : BOOLEAN,
    outputs       : SUBSET Output,   \* with pending_transaction set
    tags          : SUBSET Tag,      \* the members of T.tags
    flagged       : SUBSET Tag ]     \* with pending_transaction set

Idle ==
  [ armed |-> FALSE, paused |-> FALSE, busy |-> FALSE, outputPending |-> FALSE,
    outputs |-> {}, tags |-> {}, flagged |-> {} ]

----------------------------------------------------------------------------

Start(s) == IF s.paused THEN s ELSE [s EXCEPT !.armed = TRUE]

ScheduleOutput(s, o) ==
  IF s.busy THEN s
  ELSE [Start(s) EXCEPT !.outputs = @ \cup {o}, !.outputPending = TRUE]

(* A variant that forgets to wake the event loop.                          *)
ScheduleTagsAsleep(s, T) ==
  IF s.busy \/ T \subseteq s.flagged THEN s
  ELSE [s EXCEPT !.tags    = @ \cup (T \ s.flagged),
                 !.flagged = @ \cup T]

(* transaction_schedule_tag of every tag of T, in any order.               *)
ScheduleTags(s, T) ==
  IF s.busy \/ T \subseteq s.flagged THEN s
  ELSE [Start(s) EXCEPT !.tags    = @ \cup (T \ s.flagged),
                        !.flagged = @ \cup T]

ScheduleTag(s, t) == ScheduleTags(s, {t})

Pause(s) == [s EXCEPT !.armed = FALSE, !.paused = TRUE]

(* A variant that leaves it to the next request to wake the event loop.    *)
ResumeAsleep(s) == [s EXCEPT !.paused = FALSE]

Resume(s) == Start([s EXCEPT !.paused = FALSE])

(* process_pending, up to the first output.                                *)
Begin(s) == [s EXCEPT !.busy = TRUE]

(* The outputs that process_pending still has to serve, of those plugged.  *)
Unserved(s, plugged) ==
  IF s.outputPending THEN s.outputs \cap plugged ELSE {}

OutputServed(s, o) == [s EXCEPT !.outputs = @ \ {o}]

(* A variant that never clears the flag of a tag.                          *)
FinishKeepingFlags(s, plugged) ==
  [s EXCEPT !.outputPending = FALSE,
            !.tags = {}, !.armed = FALSE, !.busy = FALSE]

(* process_pending, from the tags on.  A tag whose output is gone is taken *)
(* off the list with its flag still set.                                   *)
Finish(s, plugged) ==
  [s EXCEPT !.outputPending = FALSE,
            !.flagged = @ \ { t \in s.tags : OutputOf(t) \in plugged },
            !.tags = {}, !.armed = FALSE, !.busy = FALSE]

(* A variant that trusts the flags of the tags.                            *)
ResetOutputFlag(s, o) == [s EXCEPT !.outputs = @ \ {o}]

(* The last loop of cwc_output_restore, for an output that has a fresh     *)
(* struct cwc_output.                                                      *)
ResetFlags(s, o) ==
  [s EXCEPT !.outputs = @ \ {o}, !.flagged = @ \ TagsOf(o)]

----------------------------------------------------------------------------

(* Whoever waits to be served will be: the idle source is registered.      *)
Awake(s) == s.tags # {} \/ s.outputPending => s.armed \/ s.paused

(* A request for a tag or an output is not ignored for a flag left behind. *)
Unwedged(s, plugged) ==
  /\ \A t \in s.flagged : OutputOf(t) \in plugged => t \in s.tags
  /\ s.outputs \cap plugged # {} => s.outputPending
============================================================================
