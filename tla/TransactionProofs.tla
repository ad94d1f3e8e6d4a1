------------------------- MODULE TransactionProofs -------------------------
(***************************************************************************)
(* The scheduler of module Transaction loses no request, for every number  *)
(* of outputs and tags: no wakeup is lost, no tag is wedged, and the tag   *)
(* in view of every output is arranged once the requests are served, but   *)
(* for the causes the history variable records.                            *)
(***************************************************************************)
EXTENDS Transaction, TLAPS

(* The tag in view of o needs no further request.                          *)
Settled(o) ==
  \/ Arranged(Current(o))
  \/ Missed(Current(o), Causes)
  \/ Current(o) \in sched.tags

(* What holds at every moment, also while requests are being served.       *)
ViewIsCared == \A o \in Plugged : Settled(o)

IInv ==
  /\ TypeOK
  /\ WakeupPending
  /\ FlaggedIsQueued
  /\ ViewIsCared

----------------------------------------------------------------------------
(* What the operations of the scheduler do                                 *)

(* Scheduler s is sound for the outputs of P, and s2 came from it by       *)
(* requests: nothing is taken off the list.                                *)
Requested(s, s2, P) ==
  /\ s2 \in Schedulers
  /\ Awake(s2)
  /\ Unwedged(s2, P)
  /\ s.tags \subseteq s2.tags
  /\ s2.busy = s.busy

(* Requests for tags are sound, and outside the callback every tag asked   *)
(* for of a plugged output is on the list afterwards: no flag stands in    *)
(* the way.                                                                *)
LEMMA ScheduleTagsIsSound ==
  ASSUME NEW s \in Schedulers, NEW P \in SUBSET Output, NEW T \in SUBSET Tag,
         Awake(s), Unwedged(s, P)
  PROVE  /\ Requested(s, ScheduleTags(s, T), P)
         /\ ~s.busy => \A t \in T : OutputOf(t) \in P => t \in ScheduleTags(s, T).tags
<1>1. CASE s.busy \/ T \subseteq s.flagged
  <2>1. ScheduleTags(s, T) = s
    BY <1>1 DEF ScheduleTags
  <2> QED
    BY <1>1, <2>1 DEF Requested, Unwedged
<1>2. CASE ~(s.busy \/ T \subseteq s.flagged)
  <2> DEFINE s2 == ScheduleTags(s, T)
  <2>1. /\ s2.tags = s.tags \cup (T \ s.flagged)
        /\ s2.flagged = s.flagged \cup T
        /\ s2.outputs = s.outputs
        /\ s2.outputPending = s.outputPending
        /\ s2.busy = s.busy
        /\ s2.armed \/ s2.paused
        /\ s2 \in Schedulers
    BY <1>2 DEF ScheduleTags, Start, Schedulers
  <2> HIDE DEF s2
  <2>2. Awake(s2) /\ Unwedged(s2, P)
    BY <2>1 DEF Awake, Unwedged
  <2>3. \A t \in T : OutputOf(t) \in P => t \in s2.tags
    BY <2>1 DEF Unwedged
  <2> QED
    BY <2>1, <2>2, <2>3 DEF Requested, s2
<1> QED
  BY <1>1, <1>2

(* A request for one tag.                                                  *)
LEMMA ScheduleTagIsSound ==
  ASSUME NEW s \in Schedulers, NEW P \in SUBSET Output, NEW t \in Tag,
         Awake(s), Unwedged(s, P)
  PROVE  /\ Requested(s, ScheduleTag(s, t), P)
         /\ ~s.busy /\ OutputOf(t) \in P => t \in ScheduleTag(s, t).tags
<1>1. {t} \in SUBSET Tag
  OBVIOUS
<1> QED
  BY <1>1, ScheduleTagsIsSound DEF ScheduleTag

(* A request for an output.                                                *)
LEMMA ScheduleOutputIsSound ==
  ASSUME NEW s \in Schedulers, NEW P \in SUBSET Output, NEW o \in Output,
         Awake(s), Unwedged(s, P)
  PROVE  /\ Requested(s, ScheduleOutput(s, o), P)
         /\ ScheduleOutput(s, o).tags = s.tags
<1>1. CASE s.busy
  BY <1>1 DEF ScheduleOutput, Requested
<1>2. CASE ~s.busy
  <2> DEFINE s2 == ScheduleOutput(s, o)
  <2>1. /\ s2.tags = s.tags
        /\ s2.flagged = s.flagged
        /\ s2.outputPending
        /\ s2.busy = s.busy
        /\ s2.armed \/ s2.paused
        /\ s2 \in Schedulers
    BY <1>2 DEF ScheduleOutput, Start, Schedulers
  <2> HIDE DEF s2
  <2>2. Awake(s2) /\ Unwedged(s2, P)
    BY <2>1 DEF Awake, Unwedged
  <2> QED
    BY <2>1, <2>2 DEF Requested, s2
<1> QED
  BY <1>1, <1>2

(* Two sound requests in a row.                                            *)
LEMMA RequestedTwice ==
  ASSUME NEW P, NEW s, NEW s2, NEW s3,
         Requested(s, s2, P), Requested(s2, s3, P)
  PROVE  Requested(s, s3, P)
BY DEF Requested

----------------------------------------------------------------------------
(* What a step that disturbs tags keeps                                    *)

(* The facts about a state that the steps start from.                      *)
LEMMA StateFacts ==
  ASSUME IInv
  PROVE  /\ sched \in Schedulers /\ Awake(sched)
         /\ Plugged \in SUBSET Output
         /\ Unwedged(sched, Plugged)
         /\ \A o \in Output : Current(o) \in Tag /\ OutputOf(Current(o)) = o
         /\ \A O \in SUBSET Output : /\ TagsOfAll(O) \in SUBSET Tag
                                     /\ Currents(O) \in SUBSET Tag
         /\ \A o \in Output : TagsOf(o) \in SUBSET Tag
BY DEF IInv, TypeOK, WakeupPending, FlaggedIsQueued, Plugged, Current, Currents,
       TagsOfAll, TagsOf, Tag, OutputOf

(* A step that disturbs S and makes sound requests keeps the invariant if  *)
(* the tag in view of every output was left alone, is on the list, or is   *)
(* recorded as missed.                                                     *)
LEMMA DisturbMissingKeeps ==
  ASSUME IInv, NEW S \in SUBSET Tag, NEW missed \in SUBSET (Tag \X Causes), NEW s,
         DisturbMissing(S, missed, s),
         Requested(sched, s, Plugged'),
         lua' \in BOOLEAN,
         plug' \in [Output -> {"never", "in", "out"}],
         view' \in [Output -> Index],
         layout' \in [Tag -> Layouts],
         staged' \in [Output -> {"none", "same", "resizes"}],
         \A o \in Plugged' :
            \/ /\ o \in Plugged
               /\ view'[o] = view[o]
               /\ layout'[Current(o)] = layout[Current(o)]
               /\ Current(o) \notin S
            \/ <<o, view'[o]>> \in s.tags
            \/ \E c \in Causes : <<<<o, view'[o]>>, c>> \in missed
  PROVE  IInv'
<1>1. /\ sched' = s /\ fresh' = fresh \ S
      /\ overlooked' = { m \in overlooked \cup missed : m[1] \notin s.tags }
      /\ fresh \subseteq Tag /\ overlooked \subseteq Tag \X Causes
  BY DEF DisturbMissing, IInv, TypeOK
<1>2. TypeOK'
  BY <1>1 DEF TypeOK, Requested
<1>3. WakeupPending' /\ FlaggedIsQueued'
  BY <1>1 DEF WakeupPending, FlaggedIsQueued, Requested
<1>4. ASSUME NEW o \in Plugged'
      PROVE  Settled(o)'
  <2> DEFINE c == <<o, view'[o]>>
  <2>1. Current(o)' = c
    BY DEF Current
  <2>2. CASE c \in s.tags
    BY <1>1, <2>1, <2>2 DEF Settled
  <2>3. CASE /\ c \notin s.tags
             /\ \E e \in Causes : <<c, e>> \in missed
    <3>1. PICK e \in Causes : <<c, e>> \in missed
      BY <2>3
    <3>2. <<c, e>> \in overlooked'
      BY <3>1, <2>3, <1>1
    <3> QED
      BY <3>2, <2>1 DEF Settled, Missed
  <2>4. CASE /\ c \notin s.tags
             /\ o \in Plugged
             /\ view'[o] = view[o]
             /\ layout'[Current(o)] = layout[Current(o)]
             /\ Current(o) \notin S
    <3>1. Current(o) = c /\ Settled(o) /\ sched.tags \subseteq s.tags
      BY <2>4 DEF Current, IInv, ViewIsCared, Requested
    <3>2. CASE Arranged(Current(o))
      BY <3>1, <3>2, <2>1, <2>4, <1>1 DEF Settled, Arranged
    <3>3. CASE Missed(Current(o), Causes)
      <4>1. PICK e \in Causes : <<c, e>> \in overlooked
        BY <3>1, <3>3 DEF Missed
      <4>2. <<c, e>> \in overlooked'
        BY <4>1, <2>4, <1>1
      <4> QED
        BY <4>2, <2>1 DEF Settled, Missed
    <3> QED
      BY <3>1, <3>2, <3>3, <2>4 DEF Settled
  <2> QED
    BY <2>2, <2>3, <2>4
<1> QED
  BY <1>2, <1>3, <1>4 DEF IInv, ViewIsCared

(* The same for a step whose requests, if any is refused, are refused      *)
(* because Lua runs inside the callback.                                   *)
LEMMA DisturbKeeps ==
  ASSUME IInv, NEW S \in SUBSET Tag, NEW s,
         Disturb(S, s),
         Requested(sched, s, Plugged),
         UNCHANGED <<lua, plug>>,
         view' \in [Output -> Index],
         layout' \in [Tag -> Layouts],
         staged' \in [Output -> {"none", "same", "resizes"}],
         \A o \in Plugged :
            \/ /\ view'[o] = view[o]
               /\ layout'[Current(o)] = layout[Current(o)]
               /\ Current(o) \notin S
            \/ /\ <<o, view'[o]>> \in S
               /\ ~sched.busy => <<o, view'[o]>> \in s.tags
  PROVE  IInv'
<1> DEFINE missed == IF sched.busy THEN S \X {"lua"} ELSE {}
<1>1. /\ lua' \in BOOLEAN
      /\ plug' \in [Output -> {"never", "in", "out"}]
      /\ Plugged' = Plugged
      /\ missed \in SUBSET (Tag \X Causes)
  BY DEF IInv, TypeOK, Plugged, Causes
<1>2. DisturbMissing(S, missed, s)
  BY DEF Disturb
<1>3. ASSUME NEW o \in Plugged',
             <<o, view'[o]>> \in S, <<o, view'[o]>> \notin s.tags
      PROVE  \E c \in Causes : <<<<o, view'[o]>>, c>> \in missed
  <2>1. sched.busy
    BY <1>1, <1>3, StateFacts DEF Current
  <2>2. "lua" \in Causes /\ <<<<o, view'[o]>>, "lua">> \in missed
    BY <2>1, <1>3 DEF Causes
  <2> QED
    BY <2>2
<1>4. \A o \in Plugged' :
            \/ /\ o \in Plugged
               /\ view'[o] = view[o]
               /\ layout'[Current(o)] = layout[Current(o)]
               /\ Current(o) \notin S
            \/ <<o, view'[o]>> \in s.tags
            \/ \E c \in Causes : <<<<o, view'[o]>>, c>> \in missed
  BY <1>1, <1>3
<1>5. Requested(sched, s, Plugged')
  BY <1>1
<1> HIDE DEF missed
<1> QED
  BY <1>1, <1>2, <1>4, <1>5, DisturbMissingKeeps

----------------------------------------------------------------------------
(* The actions                                                             *)

(* Nothing is plugged and nothing is asked for at first.                   *)
LEMMA InitIsSound == Init => IInv
<1> SUFFICES ASSUME Init PROVE IInv
  OBVIOUS
<1>1. Plugged = {}
  BY DEF Init, Plugged
<1>2. TypeOK
  BY TransactionAssumption DEF Init, TypeOK, Idle, Schedulers
<1> QED
  BY <1>1, <1>2 DEF Init, IInv, WakeupPending, FlaggedIsQueued, ViewIsCared,
     Idle, Awake, Unwedged

(* Lua moves the view of an output to another tag.                         *)
LEMMA ViewSound ==
  ASSUME IInv, NEW o \in Output, NEW i \in Index,
         SetViewOnly(o, i) \/ SetActiveTag(o, i)
  PROVE  IInv'
<1> DEFINE t  == <<o, i>>
           s1 == IF SetViewOnly(o, i) THEN ScheduleTag(sched, t)
                 ELSE ScheduleOutput(sched, o)
           s2 == IF SetViewOnly(o, i) THEN ScheduleOutput(s1, o)
                 ELSE ScheduleTag(s1, t)
<1>1. t \in Tag /\ {t} \in SUBSET Tag /\ OutputOf(t) = o
  BY DEF Tag, OutputOf
<1>2. Requested(sched, s1, Plugged)
  BY <1>1, StateFacts, ScheduleTagIsSound, ScheduleOutputIsSound
<1>3. Requested(s1, s2, Plugged)
  <2>1. s1 \in Schedulers /\ Awake(s1) /\ Unwedged(s1, Plugged)
    BY <1>2 DEF Requested
  <2> HIDE DEF s1
  <2> QED
    BY <1>1, <2>1, StateFacts, ScheduleTagIsSound, ScheduleOutputIsSound
<1>4. ~sched.busy /\ o \in Plugged => t \in s2.tags
  <2>1. CASE SetViewOnly(o, i)
    BY <2>1, <1>1, <1>3, StateFacts, ScheduleTagIsSound DEF Requested
  <2>2. CASE ~SetViewOnly(o, i)
    <3>1. s1 \in Schedulers /\ Awake(s1) /\ Unwedged(s1, Plugged)
          /\ s1.busy = sched.busy
      BY <1>2 DEF Requested
    <3> HIDE DEF s1
    <3> QED
      BY <2>2, <3>1, <1>1, StateFacts, ScheduleTagIsSound
  <2> QED
    BY <2>1, <2>2
<1>5. Disturb({t}, s2)
  BY DEF SetViewOnly, SetActiveTag
<1>6. /\ UNCHANGED <<lua, plug, layout, staged>>
      /\ view' = [view EXCEPT ![o] = i]
      /\ view' \in [Output -> Index]
      /\ layout' \in [Tag -> Layouts]
      /\ staged' \in [Output -> {"none", "same", "resizes"}]
  BY DEF SetViewOnly, SetActiveTag, IInv, TypeOK
<1>7. Requested(sched, s2, Plugged)
  BY <1>2, <1>3, RequestedTwice
<1>8. \A p \in Plugged :
            \/ /\ view'[p] = view[p]
               /\ layout'[Current(p)] = layout[Current(p)]
               /\ Current(p) \notin {t}
            \/ /\ <<p, view'[p]>> \in {t}
               /\ ~sched.busy => <<p, view'[p]>> \in s2.tags
  <2> SUFFICES ASSUME NEW p \in Plugged
               PROVE  \/ /\ view'[p] = view[p]
                         /\ layout'[Current(p)] = layout[Current(p)]
                         /\ Current(p) \notin {t}
                      \/ /\ <<p, view'[p]>> \in {t}
                         /\ ~sched.busy => <<p, view'[p]>> \in s2.tags
    OBVIOUS
  <2> HIDE DEF s1, s2
  <2>1. CASE p = o
    <3>1. <<p, view'[p]>> = t
      BY <2>1, <1>6 DEF IInv, TypeOK
    <3> QED
      BY <2>1, <3>1, <1>4
  <2>2. CASE p # o
    BY <2>2, <1>6, StateFacts DEF Current, IInv, TypeOK
  <2> QED
    BY <2>1, <2>2
<1> HIDE DEF s1, s2
<1> QED
  BY <1>1, <1>5, <1>6, <1>7, <1>8, DisturbKeeps

(* Lua changes what the layout of a tag depends on.                        *)
LEMMA TagSound ==
  ASSUME IInv, NEW t \in Tag,
         SetTagProperty(t) \/ SetContainerState(t)
           \/ \E l \in Layouts \cup {"invalid"} : SetLayoutMode(t, l)
  PROVE  IInv'
<1> DEFINE a == IF SetContainerState(t) THEN Current(OutputOf(t)) ELSE t
           s == ScheduleTag(sched, a)
<1>1. /\ t \in Tag /\ {t} \in SUBSET Tag /\ OutputOf(t) \in Output
      /\ a \in Tag /\ OutputOf(a) = OutputOf(t)
  BY StateFacts DEF Tag, OutputOf
<1>2. /\ Requested(sched, s, Plugged)
      /\ ~sched.busy /\ OutputOf(t) \in Plugged => a \in s.tags
  BY <1>1, StateFacts, ScheduleTagIsSound
<1>3. Disturb({t}, s)
  BY DEF SetTagProperty, SetContainerState, SetLayoutMode
<1>4. /\ UNCHANGED <<lua, plug, view, staged>>
      /\ view' \in [Output -> Index]
      /\ layout' \in [Tag -> Layouts]
      /\ \A u \in Tag : u # t => layout'[u] = layout[u]
      /\ staged' \in [Output -> {"none", "same", "resizes"}]
  <2>1. "invalid" \notin AllLayouts
    BY DEF AllLayouts
  <2> QED
    BY <2>1 DEF SetTagProperty, SetContainerState, SetLayoutMode, IInv, TypeOK
<1>5. \A p \in Plugged :
            \/ /\ view'[p] = view[p]
               /\ layout'[Current(p)] = layout[Current(p)]
               /\ Current(p) \notin {t}
            \/ /\ <<p, view'[p]>> \in {t}
               /\ ~sched.busy => <<p, view'[p]>> \in s.tags
  <2> SUFFICES ASSUME NEW p \in Plugged
               PROVE  \/ /\ view'[p] = view[p]
                         /\ layout'[Current(p)] = layout[Current(p)]
                         /\ Current(p) \notin {t}
                      \/ /\ <<p, view'[p]>> \in {t}
                         /\ ~sched.busy => <<p, view'[p]>> \in s.tags
    OBVIOUS
  <2>1. p \in Output /\ Current(p) \in Tag /\ OutputOf(Current(p)) = p
    BY StateFacts
  <2>2. view'[p] = view[p] /\ <<p, view'[p]>> = Current(p)
    BY <1>4 DEF Current
  <2> HIDE DEF s
  <2>3. CASE Current(p) = t
    BY <2>1, <2>2, <2>3, <1>2
  <2>4. CASE Current(p) # t
    BY <2>1, <2>2, <2>4, <1>4
  <2> QED
    BY <2>3, <2>4
<1> HIDE DEF s
<1> QED
  BY <1>1, <1>2, <1>3, <1>4, <1>5, DisturbKeeps

(* A step that leaves views and layouts alone and asks for every tag in    *)
(* view that it disturbs.                                                  *)
LEMMA AskingSound ==
  ASSUME IInv, NEW S \in SUBSET Tag, NEW A \in SUBSET Tag, NEW s1,
         Requested(sched, s1, Plugged),
         Disturb(S, ScheduleTags(s1, A)),
         UNCHANGED <<lua, plug, view, layout, staged>>,
         \A o \in Plugged : Current(o) \in S => Current(o) \in A
  PROVE  IInv'
<1> DEFINE s == ScheduleTags(s1, A)
<1>1. /\ Requested(s1, s, Plugged)
      /\ ~s1.busy => \A t \in A : OutputOf(t) \in Plugged => t \in s.tags
  BY StateFacts, ScheduleTagsIsSound DEF Requested
<1>2. Requested(sched, s, Plugged) /\ s1.busy = sched.busy
  BY <1>1, RequestedTwice DEF Requested
<1>3. \A p \in Plugged :
            \/ /\ view'[p] = view[p]
               /\ layout'[Current(p)] = layout[Current(p)]
               /\ Current(p) \notin S
            \/ /\ <<p, view'[p]>> \in S
               /\ ~sched.busy => <<p, view'[p]>> \in s.tags
  <2> SUFFICES ASSUME NEW p \in Plugged, Current(p) \in S
               PROVE  ~sched.busy => Current(p) \in s.tags
    BY DEF Current
  <2>1. Current(p) \in A /\ OutputOf(Current(p)) \in Plugged
    BY StateFacts
  <2> HIDE DEF s
  <2> QED
    BY <2>1, <1>1, <1>2
<1>4. /\ view' \in [Output -> Index]
      /\ layout' \in [Tag -> Layouts]
      /\ staged' \in [Output -> {"none", "same", "resizes"}]
  BY DEF IInv, TypeOK
<1> HIDE DEF s
<1>5. Disturb(S, s)
  BY DEF s
<1> QED
  BY <1>2, <1>3, <1>4, <1>5, DisturbKeeps

(* Scheduling nothing is sound.                                            *)
LEMMA RequestedNothing == IInv => Requested(sched, sched, Plugged)
BY StateFacts DEF Requested

(* A container moves to another tag of its output.                         *)
LEMMA MoveToTagSound ==
  ASSUME IInv, NEW o \in Output, NEW from \in Index, NEW to \in Index,
         MoveToTag(o, from, to)
  PROVE  IInv'
<1> DEFINE S == {<<o, from>>, <<o, to>>}
           A == {<<o, to>>, Current(o)}
<1>1. S \in SUBSET Tag /\ A \in SUBSET Tag
  BY StateFacts DEF Tag
<1>2. Requested(sched, ScheduleOutput(sched, o), Plugged)
  BY StateFacts, ScheduleOutputIsSound
<1>3. \A p \in Plugged : Current(p) \in S => Current(p) \in A
  BY DEF Current
<1>4. Disturb(S, ScheduleTags(ScheduleOutput(sched, o), A))
      /\ UNCHANGED <<lua, plug, view, layout, staged>>
  BY DEF MoveToTag
<1> QED
  BY <1>1, <1>2, <1>3, <1>4, AskingSound

(* A container moves to another output.                                    *)
LEMMA MoveToOutputSound ==
  ASSUME IInv, NEW t \in Tag, NEW o \in Output, MoveToOutput(t, o)
  PROVE  IInv'
<1> DEFINE S == {t, Current(o)}
           A == Currents({OutputOf(t), o})
<1>1. /\ OutputOf(t) \in Output
      /\ S \in SUBSET Tag /\ A \in SUBSET Tag
  BY StateFacts DEF MoveToOutput
<1>2. \A p \in Plugged : Current(p) \in S => Current(p) \in A
  BY DEF Current, Currents, OutputOf
<1>3. Disturb(S, ScheduleTags(sched, A))
      /\ UNCHANGED <<lua, plug, view, layout, staged>>
  BY DEF MoveToOutput
<1> QED
  BY <1>1, <1>2, <1>3, RequestedNothing, AskingSound

(* All outputs are moved.                                                  *)
LEMMA SetPositionSound ==
  ASSUME IInv, SetPosition
  PROVE  IInv'
<1> DEFINE S == TagsOfAll(Plugged)
           A == Currents(Plugged)
<1>1. S \in SUBSET Tag /\ A \in SUBSET Tag
  BY StateFacts
<1>2. \A p \in Plugged : Current(p) \in A
  BY DEF Currents
<1>3. Disturb(S, ScheduleTags(sched, A))
      /\ UNCHANGED <<lua, plug, view, layout, staged>>
  BY DEF SetPosition
<1> HIDE DEF S, A
<1> QED
  BY <1>1, <1>2, <1>3, RequestedNothing, AskingSound

(* The usable area of an output changes.                                   *)
LEMMA LayersSound ==
  ASSUME IInv, NEW o \in Output, LayersChanged(o)
  PROVE  IInv'
<1> DEFINE S == TagsOf(o)
           A == {Current(o)}
<1>1. S \in SUBSET Tag /\ A \in SUBSET Tag
  BY StateFacts
<1>2. \A p \in Plugged : Current(p) \in S => Current(p) \in A
  BY DEF TagsOf, Current
<1>3. Disturb(S, ScheduleTags(sched, A))
      /\ UNCHANGED <<lua, plug, view, layout, staged>>
  BY DEF LayersChanged, ScheduleTag
<1> HIDE DEF S, A
<1> QED
  BY <1>1, <1>2, <1>3, RequestedNothing, AskingSound

(* Only the scheduler and the staged state of an output change.            *)
LEMMA SchedulerSound ==
  ASSUME IInv, NEW s \in Schedulers, sched' = s, Awake(s), Unwedged(s, Plugged),
         s.tags = sched.tags,
         staged' \in [Output -> {"none", "same", "resizes"}],
         lua' \in BOOLEAN,
         UNCHANGED <<plug, view, layout, fresh, overlooked>>
  PROVE  IInv'
<1>1. Plugged' = Plugged
  BY DEF Plugged
<1>2. \A o \in Plugged : Settled(o) => Settled(o)'
  BY DEF Settled, Arranged, Missed, Current
<1> QED
  BY <1>1, <1>2 DEF IInv, TypeOK, WakeupPending, FlaggedIsQueued, ViewIsCared

(* A container enters or leaves the view of an output.                     *)
LEMMA ContainerTagsSound ==
  ASSUME IInv, NEW o \in Output, SetContainerTags(o)
  PROVE  IInv'
<1> DEFINE S      == { t \in {Current(o)} : layout[t] = "master" }
           cause  == IF sched.busy THEN "lua" ELSE "tags"
           missed == S \X {cause}
           s      == ScheduleOutput(sched, o)
<1>1. cause \in Causes
  BY DEF Causes
<1>2. S \in SUBSET Tag
  BY StateFacts
<1> HIDE DEF cause
<1>3. missed \in SUBSET (Tag \X Causes)
  <2> HIDE DEF S
  <2> QED
    BY <1>1, <1>2
<1>4. /\ DisturbMissing(S, missed, s)
      /\ UNCHANGED <<lua, plug, view, layout, staged>>
      /\ Plugged' = Plugged
  BY DEF SetContainerTags, Plugged, cause
<1>5. Requested(sched, s, Plugged')
  BY <1>4, StateFacts, ScheduleOutputIsSound
<1>6. ASSUME NEW p \in Plugged'
      PROVE  \/ /\ p \in Plugged
                /\ view'[p] = view[p]
                /\ layout'[Current(p)] = layout[Current(p)]
                /\ Current(p) \notin S
             \/ \E c \in Causes : <<<<p, view'[p]>>, c>> \in missed
  <2>1. p \in Plugged /\ <<p, view'[p]>> = Current(p)
        /\ view'[p] = view[p] /\ layout'[Current(p)] = layout[Current(p)]
    BY <1>4 DEF Current
  <2> HIDE DEF S
  <2> QED
    BY <2>1, <1>1
<1>7. /\ lua' \in BOOLEAN
      /\ plug' \in [Output -> {"never", "in", "out"}]
      /\ view' \in [Output -> Index]
      /\ layout' \in [Tag -> Layouts]
      /\ staged' \in [Output -> {"none", "same", "resizes"}]
  BY <1>4 DEF IInv, TypeOK
<1> HIDE DEF S, missed, s
<1> QED
  BY <1>2, <1>3, <1>4, <1>5, <1>6, <1>7, DisturbMissingKeeps

(* Lua changes the state of an output, to be committed by the callback.    *)
LEMMA StageSound ==
  ASSUME IInv, NEW o \in Output, NEW what \in {"same", "resizes"},
         StageOutput(o, what)
  PROVE  IInv'
<1>1. /\ Requested(sched, ScheduleOutput(sched, o), Plugged)
      /\ ScheduleOutput(sched, o).tags = sched.tags
  BY StateFacts, ScheduleOutputIsSound
<1>2. /\ sched' = ScheduleOutput(sched, o)
      /\ UNCHANGED <<lua, plug, view, layout, fresh, overlooked>>
      /\ staged' \in [Output -> {"none", "same", "resizes"}]
      /\ lua' \in BOOLEAN
  BY DEF StageOutput, IInv, TypeOK
<1> QED
  BY <1>1, <1>2, SchedulerSound DEF Requested

(* A plugin pauses the transaction, and resumes it.                        *)
LEMMA PauseSound ==
  ASSUME IInv, PauseTransaction \/ ResumeTransaction
  PROVE  IInv'
<1>1. /\ staged' \in [Output -> {"none", "same", "resizes"}]
      /\ lua' \in BOOLEAN
      /\ UNCHANGED <<plug, view, layout, fresh, overlooked>>
  BY DEF PauseTransaction, ResumeTransaction, IInv, TypeOK
<1>2. ASSUME NEW s, s = Pause(sched) \/ s = Resume(sched)
      PROVE  /\ s \in Schedulers /\ s.tags = sched.tags
             /\ Awake(s) /\ Unwedged(s, Plugged)
  <2>1. /\ s \in Schedulers /\ s.tags = sched.tags
        /\ s.flagged = sched.flagged /\ s.outputs = sched.outputs
        /\ s.outputPending = sched.outputPending
        /\ s.armed \/ s.paused
    BY <1>2, StateFacts DEF Pause, Resume, Start, Schedulers
  <2> QED
    BY <2>1, StateFacts DEF Awake, Unwedged
<1>3. sched' = Pause(sched) \/ sched' = Resume(sched)
  BY DEF PauseTransaction, ResumeTransaction
<1> QED
  BY <1>1, <1>2, <1>3, SchedulerSound

(* A backend resizes an output and shifts others.                          *)
LEMMA RequestStateSound ==
  ASSUME IInv, NEW o \in Output, NEW shifted \in SUBSET Output,
         RequestState(o, shifted)
  PROVE  IInv'
<1> DEFINE S      == TagsOfAll(shifted \cup {o})
           missed == TagsOfAll(shifted) \X {"shift"}
           s      == ScheduleTag(sched, Current(o))
<1>1. /\ S \in SUBSET Tag
      /\ missed \in SUBSET (Tag \X Causes)
      /\ o \in Plugged /\ Current(o) \in Tag /\ OutputOf(Current(o)) = o
      /\ ~sched.busy
  BY StateFacts DEF RequestState, Causes
<1>2. Requested(sched, s, Plugged) /\ Current(o) \in s.tags
  BY <1>1, StateFacts, ScheduleTagIsSound
<1>3. /\ DisturbMissing(S, missed, s)
      /\ UNCHANGED <<lua, plug, view, layout, staged>>
      /\ Plugged' = Plugged
  BY DEF RequestState, Plugged
<1>4. ASSUME NEW p \in Plugged'
      PROVE  \/ /\ p \in Plugged
                /\ view'[p] = view[p]
                /\ layout'[Current(p)] = layout[Current(p)]
                /\ Current(p) \notin S
             \/ <<p, view'[p]>> \in s.tags
             \/ \E c \in Causes : <<<<p, view'[p]>>, c>> \in missed
  <2>1. p \in Plugged /\ p \in Output /\ <<p, view'[p]>> = Current(p)
        /\ view'[p] = view[p] /\ layout'[Current(p)] = layout[Current(p)]
    BY <1>3, StateFacts DEF Current
  <2>2. CASE p = o
    BY <2>1, <2>2, <1>2
  <2>3. CASE p \in shifted
    <3>1. Current(p) \in TagsOfAll(shifted) /\ "shift" \in Causes
      BY <2>1, <2>3 DEF TagsOfAll, TagsOf, Current, Causes, IInv, TypeOK
    <3> QED
      BY <2>1, <3>1
  <2>4. CASE p # o /\ p \notin shifted
    <3>1. Current(p) \notin S
      BY <2>4 DEF TagsOfAll, TagsOf, Current
    <3> QED
      BY <2>1, <3>1
  <2> QED
    BY <2>2, <2>3, <2>4
<1>5. /\ lua' \in BOOLEAN
      /\ plug' \in [Output -> {"never", "in", "out"}]
      /\ view' \in [Output -> Index]
      /\ layout' \in [Tag -> Layouts]
      /\ staged' \in [Output -> {"none", "same", "resizes"}]
  BY <1>3 DEF IInv, TypeOK
<1>6. Requested(sched, s, Plugged')
  BY <1>2, <1>3
<1> HIDE DEF S, missed, s
<1> QED
  BY <1>1, <1>3, <1>4, <1>5, <1>6, DisturbMissingKeeps

(* An output is plugged in: whatever flags its tags were left with are     *)
(* reset before its tag in view is asked for.                              *)
LEMMA NewOutputSound ==
  ASSUME IInv, NEW o \in Output, NEW from \in SUBSET Output,
         NEW adopted \in SUBSET TagsOf(o), NewOutput(o, from, adopted)
  PROVE  IInv'
<1> DEFINE S  == TagsOfAll(from \cup {o})
           s1 == ScheduleTags(sched, Currents(from \cup {o}))
           s2 == ResetFlags(s1, o)
           sa == IF adopted = {} THEN s2 ELSE ScheduleOutput(s2, o)
           A  == adopted \cup {Current(o)}
           s3 == ScheduleTags(sa, A)
           P  == Plugged \cup {o}
<1>1. /\ S \in SUBSET Tag /\ A \in SUBSET Tag /\ Currents(from \cup {o}) \in SUBSET Tag
      /\ Current(o) \in Tag /\ OutputOf(Current(o)) = o
      /\ ~sched.busy
      /\ from \subseteq Plugged /\ o \notin Plugged
  BY StateFacts DEF NewOutput, Plugged
<1>2. Plugged' = P /\ P \in SUBSET Output
  BY DEF NewOutput, Plugged, IInv, TypeOK
<1>3. /\ Requested(sched, s1, Plugged)
      /\ \A p \in from : Current(p) \in s1.tags
  BY <1>1, StateFacts, ScheduleTagsIsSound DEF Currents
<1>4. /\ s2 \in Schedulers /\ Awake(s2) /\ Unwedged(s2, P)
      /\ s2.tags = s1.tags /\ s2.busy = s1.busy
  <2>1. s1 \in Schedulers /\ Awake(s1) /\ Unwedged(s1, Plugged)
    BY <1>3 DEF Requested
  <2> HIDE DEF s1
  <2>2. /\ s2 \in Schedulers
        /\ s2.tags = s1.tags /\ s2.busy = s1.busy
        /\ s2.outputs = s1.outputs \ {o}
        /\ s2.flagged = s1.flagged \ TagsOf(o)
        /\ s2.outputPending = s1.outputPending
        /\ s2.armed = s1.armed /\ s2.paused = s1.paused
    BY <2>1 DEF ResetFlags, Schedulers
  <2>3. \A t \in s1.flagged : OutputOf(t) = o => t \in TagsOf(o)
    BY <2>1 DEF Schedulers, Tag, TagsOf, OutputOf
  <2> HIDE DEF s2
  <2> QED
    BY <2>1, <2>2, <2>3 DEF Awake, Unwedged
<1>5. Requested(s2, s3, P) /\ Current(o) \in s3.tags
  <2> HIDE DEF s2
  <2>1. Requested(s2, sa, P)
    BY <1>2, <1>4, ScheduleOutputIsSound DEF Requested
  <2>2. sa \in Schedulers /\ Awake(sa) /\ Unwedged(sa, P) /\ ~sa.busy
    BY <2>1, <1>1, <1>3, <1>4 DEF Requested
  <2> HIDE DEF sa
  <2>3. Requested(sa, s3, P) /\ Current(o) \in s3.tags
    <3>1. Current(o) \in A
      OBVIOUS
    <3> HIDE DEF A
    <3> QED
      BY <3>1, <2>2, <1>1, <1>2, ScheduleTagsIsSound
  <2> QED
    BY <2>1, <2>3, RequestedTwice
<1>6. Requested(sched, s3, Plugged')
  BY <1>2, <1>3, <1>4, <1>5 DEF Requested
<1>7. /\ DisturbMissing(S, {}, s3)
      /\ UNCHANGED <<lua, view, layout, staged>>
      /\ plug' \in [Output -> {"never", "in", "out"}]
  BY <1>1 DEF NewOutput, Disturb, IInv, TypeOK
<1>8. ASSUME NEW p \in Plugged'
      PROVE  \/ /\ p \in Plugged
                /\ view'[p] = view[p]
                /\ layout'[Current(p)] = layout[Current(p)]
                /\ Current(p) \notin S
             \/ <<p, view'[p]>> \in s3.tags
  <2>1. p \in P /\ p \in Output /\ <<p, view'[p]>> = Current(p)
        /\ view'[p] = view[p] /\ layout'[Current(p)] = layout[Current(p)]
    BY <1>2, <1>7 DEF Current
  <2>2. CASE p = o
    BY <2>1, <2>2, <1>5
  <2>3. CASE p \in from
    BY <2>1, <2>3, <1>3, <1>4, <1>5 DEF Requested
  <2>4. CASE p # o /\ p \notin from
    <3>1. Current(p) \notin S
      BY <2>4 DEF TagsOfAll, TagsOf, Current
    <3> QED
      BY <2>1, <2>4, <3>1
  <2> QED
    BY <2>2, <2>3, <2>4
<1>9. /\ lua' \in BOOLEAN
      /\ view' \in [Output -> Index]
      /\ layout' \in [Tag -> Layouts]
      /\ staged' \in [Output -> {"none", "same", "resizes"}]
      /\ {} \in SUBSET (Tag \X Causes)
  BY <1>7 DEF IInv, TypeOK
<1> HIDE DEF S, s3
<1> QED
  BY <1>1, <1>6, <1>7, <1>8, <1>9, DisturbMissingKeeps

(* An output is unplugged, and its containers move to another one.         *)
LEMMA OutputDestroySound ==
  ASSUME IInv, NEW o \in Output, NEW a \in Output, NEW moved \in BOOLEAN,
         NEW shifted \in SUBSET Output, OutputDestroy(o, a, moved, shifted)
  PROVE  IInv'
<1> DEFINE S      == TagsOfAll(shifted \cup {o, a})
           missed == TagsOfAll(shifted) \X {"shift"}
           asked  == (IF moved THEN {Current(o)} ELSE {}) \cup TagsOf(a)
           s1     == ScheduleTags(sched, asked)
           s2     == ScheduleOutput(s1, a)
<1>1. /\ S \in SUBSET Tag
      /\ missed \in SUBSET (Tag \X Causes)
      /\ asked \in SUBSET Tag
      /\ a \in Plugged /\ a # o
      /\ Current(a) \in asked /\ OutputOf(Current(a)) = a
      /\ ~sched.busy
  BY StateFacts DEF OutputDestroy, Causes, TagsOf, Current, IInv, TypeOK
<1>2. Plugged' = Plugged \ {o}
  BY DEF OutputDestroy, Plugged, IInv, TypeOK
<1>3. Requested(sched, s1, Plugged) /\ Current(a) \in s1.tags
  <2> HIDE DEF asked
  <2> QED
    BY <1>1, StateFacts, ScheduleTagsIsSound
<1>4. Requested(sched, s2, Plugged) /\ Current(a) \in s2.tags
  <2> HIDE DEF s1
  <2>1. s1 \in Schedulers /\ Awake(s1) /\ Unwedged(s1, Plugged)
    BY <1>3 DEF Requested
  <2>2. Requested(s1, s2, Plugged) /\ s2.tags = s1.tags
    BY <2>1, StateFacts, ScheduleOutputIsSound
  <2> QED
    BY <1>3, <2>2, RequestedTwice
<1>5. Requested(sched, s2, Plugged')
  BY <1>2, <1>4 DEF Requested, Unwedged
<1>6. /\ DisturbMissing(S, missed, s2)
      /\ UNCHANGED <<lua, view, layout>>
      /\ plug' \in [Output -> {"never", "in", "out"}]
      /\ staged' \in [Output -> {"none", "same", "resizes"}]
  BY DEF OutputDestroy, IInv, TypeOK
<1>7. ASSUME NEW p \in Plugged'
      PROVE  \/ /\ p \in Plugged
                /\ view'[p] = view[p]
                /\ layout'[Current(p)] = layout[Current(p)]
                /\ Current(p) \notin S
             \/ <<p, view'[p]>> \in s2.tags
             \/ \E c \in Causes : <<<<p, view'[p]>>, c>> \in missed
  <2>1. p \in Plugged /\ p # o /\ p \in Output /\ <<p, view'[p]>> = Current(p)
        /\ view'[p] = view[p] /\ layout'[Current(p)] = layout[Current(p)]
    BY <1>2, <1>6, StateFacts DEF Current
  <2>2. CASE p = a
    BY <2>1, <2>2, <1>4
  <2>3. CASE p \in shifted
    <3>1. Current(p) \in TagsOfAll(shifted) /\ "shift" \in Causes
      BY <2>1, <2>3 DEF TagsOfAll, TagsOf, Current, Causes, IInv, TypeOK
    <3> QED
      BY <2>1, <3>1
  <2>4. CASE p # a /\ p \notin shifted
    <3>1. Current(p) \notin S
      BY <2>1, <2>4 DEF TagsOfAll, TagsOf, Current
    <3> QED
      BY <2>1, <3>1
  <2> QED
    BY <2>2, <2>3, <2>4
<1>8. /\ lua' \in BOOLEAN
      /\ view' \in [Output -> Index]
      /\ layout' \in [Tag -> Layouts]
  BY <1>6 DEF IInv, TypeOK
<1> HIDE DEF S, missed, s2
<1> QED
  BY <1>1, <1>5, <1>6, <1>7, <1>8, DisturbMissingKeeps

(* The only output is unplugged.                                           *)
LEMMA LastOutputDestroySound ==
  ASSUME IInv, NEW o \in Output, NEW moved \in BOOLEAN, LastOutputDestroy(o, moved)
  PROVE  IInv'
<1> DEFINE asked == IF moved THEN {Current(o)} ELSE {}
           s1    == ScheduleTags(sched, asked)
           s2    == [Start(s1) EXCEPT !.outputPending = TRUE]
<1>1. /\ TagsOf(o) \in SUBSET Tag /\ asked \in SUBSET Tag
      /\ ~sched.busy /\ Plugged' = {}
  BY StateFacts DEF LastOutputDestroy, Plugged, IInv, TypeOK
<1>2. Requested(sched, s1, Plugged)
  <2> HIDE DEF asked
  <2> QED
    BY <1>1, StateFacts, ScheduleTagsIsSound
<1>3. Requested(sched, s2, Plugged')
  <2>1. s1 \in Schedulers /\ Awake(s1)
    BY <1>2 DEF Requested
  <2> HIDE DEF s1
  <2>2. /\ s2 \in Schedulers
        /\ s2.armed \/ s2.paused
        /\ s2.tags = s1.tags /\ s2.busy = s1.busy
    BY <2>1 DEF Start, Schedulers
  <2> HIDE DEF s2
  <2> QED
    BY <1>1, <1>2, <2>2 DEF Requested, Awake, Unwedged
<1>4. /\ DisturbMissing(TagsOf(o), {}, s2)
      /\ UNCHANGED <<lua, view, layout>>
      /\ plug' \in [Output -> {"never", "in", "out"}]
      /\ staged' \in [Output -> {"none", "same", "resizes"}]
  BY <1>1 DEF LastOutputDestroy, Disturb, IInv, TypeOK
<1>5. /\ lua' \in BOOLEAN
      /\ view' \in [Output -> Index]
      /\ layout' \in [Tag -> Layouts]
      /\ {} \in SUBSET (Tag \X Causes)
  BY <1>4 DEF IInv, TypeOK
<1> HIDE DEF s2
<1> QED
  BY <1>1, <1>3, <1>4, <1>5, DisturbMissingKeeps

(* The callback starts.                                                    *)
LEMMA BeginSound ==
  ASSUME IInv, BeginProcess
  PROVE  IInv'
<1>1. /\ Begin(sched) \in Schedulers
      /\ Awake(Begin(sched)) /\ Unwedged(Begin(sched), Plugged)
      /\ Begin(sched).tags = sched.tags
  BY StateFacts DEF Begin, Schedulers, Awake, Unwedged
<1>2. /\ sched' = Begin(sched)
      /\ lua' \in BOOLEAN
      /\ staged' \in [Output -> {"none", "same", "resizes"}]
      /\ UNCHANGED <<plug, view, layout, fresh, overlooked>>
  BY DEF BeginProcess, IInv, TypeOK
<1> QED
  BY <1>1, <1>2, SchedulerSound

(* The callback serves an output.                                          *)
LEMMA ProcessOutputSound ==
  ASSUME IInv, NEW o \in Output, NEW shifted \in SUBSET Output,
         NEW refocused \in BOOLEAN, ProcessOutput(o, shifted, refocused)
  PROVE  IInv'
<1> DEFINE resized == staged[o] = "resizes"
           S      == IF resized THEN TagsOfAll(shifted \cup {o}) ELSE {}
           missed == IF resized THEN (TagsOf(o) \X {"resize"}) \cup
                                     (TagsOfAll(shifted) \X {"shift"}) ELSE {}
           s      == OutputServed(sched, o)
<1>1. S \in SUBSET Tag /\ missed \in SUBSET (Tag \X Causes)
  BY StateFacts DEF Causes
<1>2. Requested(sched, s, Plugged)
  <2>1. /\ s \in Schedulers
        /\ s.tags = sched.tags /\ s.busy = sched.busy
        /\ s.flagged = sched.flagged /\ s.outputPending = sched.outputPending
        /\ s.armed = sched.armed /\ s.paused = sched.paused
        /\ s.outputs = sched.outputs \ {o}
    BY StateFacts DEF OutputServed, Schedulers
  <2> HIDE DEF s
  <2> QED
    BY <2>1, StateFacts DEF Requested, Awake, Unwedged
<1>3. DisturbMissing(S, missed, s)
  <2>1. {} \X {"lua"} = {}
    OBVIOUS
  <2> QED
    BY <2>1 DEF ProcessOutput, Disturb
<1>4. /\ UNCHANGED <<plug, view, layout>>
      /\ Plugged' = Plugged
      /\ lua' \in BOOLEAN
      /\ plug' \in [Output -> {"never", "in", "out"}]
      /\ view' \in [Output -> Index]
      /\ layout' \in [Tag -> Layouts]
      /\ staged' \in [Output -> {"none", "same", "resizes"}]
  BY DEF ProcessOutput, Plugged, IInv, TypeOK
<1>5. ASSUME NEW p \in Plugged'
      PROVE  \/ /\ p \in Plugged
                /\ view'[p] = view[p]
                /\ layout'[Current(p)] = layout[Current(p)]
                /\ Current(p) \notin S
             \/ \E c \in Causes : <<<<p, view'[p]>>, c>> \in missed
  <2>1. p \in Plugged /\ p \in Output /\ <<p, view'[p]>> = Current(p)
        /\ view'[p] = view[p] /\ layout'[Current(p)] = layout[Current(p)]
    BY <1>4, StateFacts DEF Current
  <2>2. CASE Current(p) \notin S
    BY <2>1, <2>2
  <2>3. CASE Current(p) \in S
    <3>1. resized /\ "shift" \in Causes /\ "resize" \in Causes
      BY <2>3 DEF Causes
    <3>2. Current(p) \in TagsOf(o) \/ Current(p) \in TagsOfAll(shifted)
      BY <2>3, <3>1 DEF TagsOfAll
    <3> QED
      BY <2>1, <3>1, <3>2
  <2> QED
    BY <2>2, <2>3
<1>6. Requested(sched, s, Plugged')
  BY <1>2, <1>4
<1> HIDE DEF S, missed, s
<1> QED
  BY <1>1, <1>3, <1>4, <1>5, <1>6, DisturbMissingKeeps

(* The callback arranges the tags on the list.  Whatever the layout of the *)
(* tag in view, serving that very tag arranges it.                         *)
LEMMA FinishSound ==
  ASSUME IInv, FinishProcess
  PROVE  IInv'
<1> DEFINE served   == { t \in sched.tags : OutputOf(t) \in Plugged }
           arranged == UNION { ArrangedBy(t) : t \in served }
           s        == Finish(sched, Plugged)
<1>1. /\ sched' = s
      /\ fresh' = fresh \cup arranged
      /\ overlooked' = { m \in overlooked : m[1] \notin arranged }
      /\ UNCHANGED <<plug, view, layout, staged>>
      /\ lua' \in BOOLEAN
      /\ Plugged' = Plugged
      /\ Unserved(sched, Plugged) = {}
  BY DEF FinishProcess, Plugged
<1>2. arranged \subseteq Tag
  <2>1. \A t \in Tag : ArrangedBy(t) \subseteq Tag
    <3> TAKE t \in Tag
    <3>1. OutputOf(t) \in Output
      BY DEF Tag, OutputOf
    <3> QED
      BY <3>1, StateFacts DEF ArrangedBy
  <2> QED
    BY <2>1, StateFacts DEF Schedulers
<1>3. s \in Schedulers /\ Awake(s) /\ Unwedged(s, Plugged)
  <2>1. /\ s \in Schedulers
        /\ s.tags = {} /\ s.outputPending = FALSE
        /\ s.outputs = sched.outputs
        /\ s.flagged = sched.flagged \ served
    BY StateFacts DEF Finish, Schedulers
  <2>2. sched.outputs \cap Plugged = {}
    BY <1>1, StateFacts DEF Unserved, Unwedged
  <2>3. \A t \in s.flagged : OutputOf(t) \notin Plugged
    BY <2>1, StateFacts DEF Unwedged
  <2> HIDE DEF s
  <2> QED
    BY <2>1, <2>2, <2>3 DEF Awake, Unwedged
<1>4. ASSUME NEW o \in Plugged
      PROVE  Settled(o)'
  <2> DEFINE c == Current(o)
  <2>1. c' = c /\ c \in Tag /\ OutputOf(c) = o /\ layout[c] \in AllLayouts
    BY <1>1, StateFacts, TransactionAssumption DEF Current, IInv, TypeOK
  <2>2. CASE c \in sched.tags
    <3>1. c \in served /\ ArrangedBy(c) \subseteq arranged
      BY <2>1, <2>2
    <3>2. layout[c] # "floating" => c \in ArrangedBy(c)
      BY <2>1 DEF ArrangedBy, AllLayouts
    <3>3. Arranged(c)'
      BY <1>1, <2>1, <3>1, <3>2 DEF Arranged
    <3> QED
      BY <3>3, <2>1 DEF Settled
  <2>3. CASE Arranged(c)
    BY <1>1, <2>1, <2>3 DEF Settled, Arranged
  <2>4. CASE Missed(c, Causes)
    <3>1. PICK e \in Causes : <<c, e>> \in overlooked
      BY <2>4 DEF Missed
    <3>2. CASE c \in arranged
      BY <1>1, <2>1, <3>2 DEF Settled, Arranged
    <3>3. CASE c \notin arranged
      <4>1. <<c, e>> \in overlooked'
        BY <1>1, <3>1, <3>3
      <4> QED
        BY <4>1, <2>1 DEF Settled, Missed
    <3> QED
      BY <3>2, <3>3
  <2> QED
    BY <2>2, <2>3, <2>4 DEF IInv, ViewIsCared, Settled
<1> HIDE DEF arranged, s
<1>5. TypeOK'
  BY <1>1, <1>2, <1>3 DEF IInv, TypeOK
<1> QED
  BY <1>1, <1>3, <1>4, <1>5 DEF IInv, WakeupPending, FlaggedIsQueued, ViewIsCared

----------------------------------------------------------------------------

(* Every step keeps the invariant.                                         *)
LEMMA NextIsSound == IInv /\ [Next]_vars => IInv'
<1> SUFFICES ASSUME IInv, [Next]_vars PROVE IInv'
  OBVIOUS
<1>1. CASE Requests
  BY <1>1, ViewSound, TagSound, MoveToTagSound, MoveToOutputSound,
     ContainerTagsSound, StageSound, SetPositionSound DEF Requests
<1>2. CASE Backend
  BY <1>2, LayersSound, RequestStateSound, NewOutputSound, OutputDestroySound,
     LastOutputDestroySound, PauseSound DEF Backend
<1>3. CASE Process
  BY <1>3, BeginSound, ProcessOutputSound, FinishSound DEF Process
<1>4. CASE UNCHANGED vars
  <2>1. Plugged' = Plugged /\ \A o \in Plugged : Settled(o)' = Settled(o)
    BY <1>4 DEF vars, Plugged, Settled, Arranged, Missed, Current
  <2> QED
    BY <1>4, <2>1 DEF vars, IInv, TypeOK, WakeupPending, FlaggedIsQueued,
       ViewIsCared
<1> QED
  BY <1>1, <1>2, <1>3, <1>4 DEF Next

(* The inductive invariant holds in every behaviour.                       *)
THEOREM Soundness == Spec => []IInv
<1> QED
  BY InitIsSound, NextIsSound, PTL DEF Spec

(* The state keeps the types of the structs of transaction.c.              *)
THEOREM TransactionTypes == Spec => []TypeOK
<1>1. IInv => TypeOK
  BY DEF IInv
<1> QED
  BY <1>1, Soundness, PTL

(* transaction.c loses no wakeup: whoever waits finds the idle callback    *)
(* registered or the transaction paused, across pauses, resumptions and    *)
(* requests refused while the callback runs.                               *)
THEOREM NoLostWakeup == Spec => []WakeupPending
<1>1. IInv => WakeupPending
  BY DEF IInv
<1> QED
  BY <1>1, Soundness, PTL

(* transaction_schedule_tag never ignores a tag of a plugged output for    *)
(* good: its flag is set only while it is on the list.                     *)
THEOREM NoWedgedTag == Spec => []FlaggedIsQueued
<1>1. IInv => FlaggedIsQueued
  BY DEF IInv
<1> QED
  BY <1>1, Soundness, PTL

(* When nothing waits to be served, every output shows its tag in view     *)
(* arranged, or the tag is one of those recorded as missed.                *)
THEOREM ViewStaysArranged == Spec => []ViewIsArranged
<1>1. IInv => ViewIsArranged
  <2> SUFFICES ASSUME IInv, Quiescent, NEW o \in Plugged
               PROVE  Arranged(Current(o)) \/ Missed(Current(o), Causes)
    BY DEF ViewIsArranged
  <2>1. sched.tags = {}
    BY DEF IInv, WakeupPending, Awake, Quiescent
  <2> QED
    BY <2>1 DEF IInv, ViewIsCared, Settled
<1> QED
  BY <1>1, Soundness, PTL
============================================================================
