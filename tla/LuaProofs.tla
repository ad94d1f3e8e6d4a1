------------------------------ MODULE LuaProofs ------------------------------
(***************************************************************************)
(* What Lua and other processes start, keep and wait for, proved for any   *)
(* number of timers, callbacks, objects, processes and clients.  Each part *)
(* has variables of its own here; ServicesProofs carries the results over  *)
(* to the composition that TLC checks.                                     *)
(***************************************************************************)
EXTENDS ListProofs, FiniteSets, FiniteSetTheorems

(***************************************************************************)
(* Timers                                                                  *)
(***************************************************************************)

CONSTANTS Timer, MaxNesting

VARIABLES timers, calls

T == INSTANCE Timers

Records == [kind : {"free", "repeating", "single", "one"}, timeout : {0, 1},
            started : BOOLEAN, armed : BOOLEAN]

(* What the fields hold, and that a started timer is armed.                *)
TimersInv ==
    /\ timers \in [Timer -> Records]
    /\ calls \in Seq(Timer)
    /\ T!StartedTimersRun

(* A record whose flag and event source agree.                             *)
Sound(r) == r.started /\ r.timeout > 0 => r.armed

LEMMA UpdateIsSound ==
  ASSUME NEW r \in Records
  PROVE  /\ T!Update(r) \in Records /\ Sound(T!Update(r))
         /\ T!Update(r).timeout = r.timeout
         /\ r.timeout > 0 => T!Update(r).armed
<1> DEFINE on == r.timeout > 0
<1>1. on \in BOOLEAN
  OBVIOUS
<1>2. T!Update(r) = [r EXCEPT !.armed = on]
  BY DEF T!Update
<1>3. on => T!Update(r).armed
  BY <1>2 DEF Records
<1>4. T!Update(r) \in Records /\ T!Update(r).timeout = r.timeout
  <2> HIDE DEF on
  <2> QED
    BY <1>1, <1>2 DEF Records
<1> QED
  BY <1>3, <1>4 DEF Sound

LEMMA DisarmIsTyped ==
  ASSUME NEW r \in Records
  PROVE  T!Disarm(r) \in Records
BY DEF T!Disarm, Records

LEMMA NoTimerIsSound == T!NoTimer \in Records /\ Sound(T!NoTimer)
BY DEF T!NoTimer, Records, Sound

(* Whatever was done in the callback, timer_timed_out leaves them agreed.  *)
LEMMA AfterIsSound ==
  ASSUME NEW r \in Records
  PROVE  T!After(r) \in Records /\ Sound(T!After(r))
<1>1. CASE r.kind = "one"
  BY <1>1, NoTimerIsSound DEF T!After
<1>2. CASE r.kind = "single"
  BY <1>2 DEF T!After, Records, Sound
<1>3. CASE r.kind \notin {"one", "single"}
  BY <1>3, UpdateIsSound DEF T!After
<1> QED
  BY <1>1, <1>2, <1>3

(* A method that leaves them agreed, on any timer at any time.             *)
LEMMA DoesKeeps ==
  ASSUME TimersInv, NEW t \in Timer, NEW r \in Records, T!Does(t, r),
         t \notin T!ToSet(calls) => Sound(r)
  PROVE  TimersInv'
BY DEF TimersInv, T!Does, T!StartedTimersRun, Sound

LEMMA TimersStep == ASSUME TimersInv, T!TimersNext PROVE TimersInv'
<1> USE DEF TimersInv
<1>1. ASSUME NEW t \in Timer, T!TimeOut(t)
      PROVE  TimersInv'
  <2>1. calls' \in Seq(Timer) /\ T!ToSet(calls') = {t}
    BY <1>1 DEF T!TimeOut, T!ToSet
  <2>2. T!ToSet(calls) = {}
    BY <1>1 DEF T!TimeOut, T!ToSet
  <2> QED
    BY <1>1, <2>1, <2>2, DisarmIsTyped DEF T!TimeOut, T!StartedTimersRun
<1>2. CASE T!Return
  <2>1. Head(calls) \in Timer /\ calls' \in Seq(Timer)
    BY <1>2 DEF T!Return
  <2>2. T!ToSet(calls) \subseteq T!ToSet(calls') \cup {Head(calls)}
    <3> SUFFICES ASSUME NEW i \in 1 .. Len(calls), i # 1
                 PROVE  calls[i] \in T!ToSet(Tail(calls))
      BY <1>2 DEF T!Return, T!ToSet
    <3>1. i - 1 \in 1 .. Len(Tail(calls)) /\ Tail(calls)[i - 1] = calls[i]
      BY <1>2 DEF T!Return
    <3>2. DOMAIN Tail(calls) = 1 .. Len(Tail(calls))
      BY <1>2 DEF T!Return
    <3> QED
      BY <3>1, <3>2, Zenon DEF T!ToSet
  <2>3. T!After(timers[Head(calls)]) \in Records /\ Sound(T!After(timers[Head(calls)]))
    BY <2>1, AfterIsSound
  <2> QED
    BY <1>2, <2>1, <2>2, <2>3 DEF T!Return, T!StartedTimersRun, Sound
<1>3. ASSUME NEW t \in Timer, NEW kind \in {"repeating", "single", "one"},
             NEW timeout \in {0, 1}, NEW auto \in BOOLEAN, NEW now \in BOOLEAN,
             T!New(t, kind, timeout, auto, now)
      PROVE  TimersInv'
  <2> DEFINE r == [kind |-> kind, timeout |-> timeout, started |-> auto,
                   armed |-> FALSE]
  <2>1. r \in Records
    BY DEF Records
  <2>2. timers' = [timers EXCEPT ![t] = IF auto THEN T!Update(r) ELSE r]
    BY <1>3 DEF T!New
  <2>3. (IF auto THEN T!Update(r) ELSE r) \in Records
        /\ Sound(IF auto THEN T!Update(r) ELSE r)
    BY <2>1, UpdateIsSound DEF Sound
  <2>4. calls' \in Seq(Timer)
    BY <1>3 DEF T!New
  <2>5. T!ToSet(calls) \subseteq T!ToSet(calls')
    <3>1. CASE calls' = calls
      BY <3>1
    <3>2. CASE calls' = <<t>> \o calls
      <4> SUFFICES ASSUME NEW i \in 1 .. Len(calls)
                   PROVE  \E j \in 1 .. Len(calls') : calls'[j] = calls[i]
        BY <2>4 DEF T!ToSet
      <4>1. i + 1 \in 1 .. Len(calls') /\ calls'[i + 1] = calls[i]
        BY <3>2
      <4> QED
        BY <4>1
    <3> QED
      BY <1>3, <3>1, <3>2 DEF T!New
  <2> HIDE DEF r
  <2> QED
    BY <2>2, <2>3, <2>4, <2>5 DEF T!StartedTimersRun, Sound
<1>4. ASSUME NEW t \in Timer, NEW on \in BOOLEAN, T!SetStarted(t, on)
      PROVE  TimersInv'
  <2> DEFINE r == IF ~on THEN T!Disarm(timers[t])
                  ELSE IF timers[t].started THEN timers[t] ELSE T!Update(timers[t])
             s == [r EXCEPT !.started = on]
  <2>1. s \in Records
    BY DisarmIsTyped, UpdateIsSound DEF Records
  <2>2. t \notin T!ToSet(calls) => Sound(s)
    <3>1. CASE ~on
      BY <3>1, DisarmIsTyped DEF Sound, Records
    <3>2. CASE on /\ timers[t].started
      BY <3>2 DEF Sound, T!StartedTimersRun, Records
    <3>3. CASE on /\ ~timers[t].started
      <4>1. r = T!Update(timers[t]) /\ r \in Records
        BY <3>3, UpdateIsSound
      <4>2. s.timeout = r.timeout /\ s.armed = r.armed
        <5> HIDE DEF r
        <5> QED
          BY <4>1 DEF Records
      <4> QED
        BY <4>1, <4>2, UpdateIsSound DEF Sound
    <3> QED
      BY <3>1, <3>2, <3>3
  <2>3. T!Does(t, s)
    BY <1>4 DEF T!SetStarted
  <2> HIDE DEF s
  <2> QED
    BY <2>1, <2>2, <2>3, DoesKeeps
<1>5. ASSUME NEW t \in Timer, NEW timeout \in {0, 1}, T!SetTimeout(t, timeout)
      PROVE  TimersInv'
  <2> DEFINE r == [timers[t] EXCEPT !.timeout = timeout]
             s == IF r.started THEN T!Update(r) ELSE r
  <2>1. s \in Records /\ Sound(s)
    <3>1. r \in Records
      BY DEF Records
    <3> HIDE DEF r
    <3> QED
      BY <3>1, UpdateIsSound DEF Sound
  <2>2. T!Does(t, s)
    BY <1>5 DEF T!SetTimeout
  <2> HIDE DEF s
  <2> QED
    BY <2>1, <2>2, DoesKeeps
<1>6. ASSUME NEW t \in Timer, T!Start(t)
      PROVE  TimersInv'
  <2> DEFINE s == IF timers[t].started THEN timers[t] ELSE T!Update(timers[t])
  <2>1. s \in Records /\ (t \notin T!ToSet(calls) => Sound(s))
    BY UpdateIsSound DEF Sound, T!StartedTimersRun
  <2>2. T!Does(t, s)
    BY <1>6 DEF T!Start
  <2> HIDE DEF s
  <2> QED
    BY <2>1, <2>2, DoesKeeps
<1>7. ASSUME NEW t \in Timer, T!Stop(t)
      PROVE  TimersInv'
  <2> DEFINE s == [T!Disarm(timers[t]) EXCEPT !.started = FALSE]
  <2>1. s \in Records /\ Sound(s)
    BY DEF Sound, Records, T!Disarm
  <2>2. T!Does(t, s)
    BY <1>7 DEF T!Stop
  <2> HIDE DEF s
  <2> QED
    BY <2>1, <2>2, DoesKeeps
<1>8. ASSUME NEW t \in Timer, T!Again(t)
      PROVE  TimersInv'
  <2> DEFINE r == [timers[t] EXCEPT !.started = FALSE]
             s == T!Update(r)
  <2>1. s \in Records /\ Sound(s)
    <3>1. r \in Records
      BY DEF Records
    <3> HIDE DEF r
    <3> QED
      BY <3>1, UpdateIsSound
  <2>2. T!Does(t, s)
    BY <1>8 DEF T!Again
  <2> HIDE DEF s
  <2> QED
    BY <2>1, <2>2, DoesKeeps
<1>9. ASSUME NEW t \in Timer, T!Destroy(t)
      PROVE  TimersInv'
  BY <1>9, NoTimerIsSound, DoesKeeps DEF T!Destroy
<1>10. CASE T!ReloadTimers
  BY <1>10, NoTimerIsSound DEF T!ReloadTimers, T!StartedTimersRun, Sound
<1> QED
  BY <1>1, <1>2, <1>3, <1>4, <1>5, <1>6, <1>7, <1>8, <1>9, <1>10 DEF T!TimersNext

LEMMA TimersStart == T!TimersInit => TimersInv
BY NoTimerIsSound DEF T!TimersInit, TimersInv, T!StartedTimersRun, Sound

LEMMA TimersStutter == TimersInv /\ UNCHANGED T!timerVars => TimersInv'
BY DEF TimersInv, T!StartedTimersRun, T!timerVars

(***************************************************************************)
(* The Lua functions that C keeps: module LuaRefs                          *)
(***************************************************************************)

CONSTANTS Holder, Outliving, MaxRef, Nil

VARIABLES place, ref, stale, haunted

R == INSTANCE LuaRefs

(* Functions are neither numbers nor nil.                                  *)
RefsAssumption ==
    /\ MaxRef \in Nat
    /\ Holder \cap R!Number = {}
    /\ Nil \notin Holder \cup R!Number
    /\ Outliving \subseteq Holder

RefsType ==
    /\ place \in [R!Number -> R!Number \cup Holder \cup {Nil}]
    /\ place[0] \in R!Number
    /\ ref \in [Holder -> (R!Number \ {0}) \cup {Nil}]
    /\ haunted \in BOOLEAN

(* The places that are free form lists: each names one that is free, and   *)
(* none is named twice.                                                    *)
FreeIsListed ==
    /\ \A n \in R!Number : place[n] \in R!Number \ {0} => place[place[n]] \in R!Number
    /\ \A m, n \in R!Number : place[m] = place[n] /\ place[m] \in R!Number \ {0} => m = n

(* Whoever has a number of a former state has a number.                    *)
StaleIsHeld == \A h \in stale : h \in Holder /\ ref[h] # Nil

RefsInv ==
    /\ RefsType
    /\ ~haunted => FreeIsListed /\ StaleIsHeld
    /\ R!CallbacksAreTheirs

(* A function is put in the place that was freed last.                     *)
LEMMA ReferKeepsFreed ==
  ASSUME RefsAssumption, RefsInv, ~haunted, NEW h \in Holder, R!Refer(h), place[0] # 0
  PROVE  RefsInv'
<1> USE DEF RefsAssumption, RefsType
<1> DEFINE first == place[0]
<1>1. /\ first \in R!Number \ {0}  /\ ref[h] = Nil
      /\ place' = [place EXCEPT ![0] = place[first], ![first] = h]
      /\ ref' = [ref EXCEPT ![h] = first]
      /\ stale' = stale /\ haunted' = haunted
  BY DEF R!Refer, R!Integer, RefsInv
<1>2. 0 \in R!Number /\ place[first] \in R!Number /\ place[first] # first
  BY <1>1 DEF RefsInv, FreeIsListed, R!Number
<1>3. RefsType'
  BY <1>1, <1>2 DEF RefsInv
<1>4. FreeIsListed'
  <2> SUFFICES ASSUME NEW n \in R!Number, place'[n] \in R!Number \ {0}
               PROVE  /\ place'[place'[n]] \in R!Number
                      /\ \A m \in R!Number : place'[m] = place'[n] => m = n
    BY DEF FreeIsListed
  <2>1. n # first /\ place'[n] = place[IF n = 0 THEN first ELSE n]
    BY <1>1, <1>2 DEF RefsInv
  <2>2. place'[n] # first
    BY <1>1, <1>2, <2>1 DEF RefsInv, FreeIsListed
  <2>3. place'[place'[n]] \in R!Number
    BY <1>1, <1>2, <2>1, <2>2 DEF RefsInv, FreeIsListed
  <2>4. \A m \in R!Number : place'[m] = place'[n] => m = n
    BY <1>1, <1>2, <2>1 DEF RefsInv, FreeIsListed
  <2> QED
    BY <2>3, <2>4
<1>5. StaleIsHeld'
  BY <1>1 DEF RefsInv, StaleIsHeld
<1>6. R!CallbacksAreTheirs'
  BY <1>1, <1>2 DEF RefsInv, StaleIsHeld, R!CallbacksAreTheirs
<1> QED
  BY <1>3, <1>4, <1>5, <1>6 DEF RefsInv

(* A function is put one past an end of the table.                         *)
LEMMA ReferKeepsNew ==
  ASSUME RefsAssumption, RefsInv, ~haunted, NEW h \in Holder, R!Refer(h), place[0] = 0
  PROVE  RefsInv'
<1> USE DEF RefsAssumption, RefsType
<1>1. PICK n \in R!Last \ {MaxRef} : /\ place' = [place EXCEPT ![n + 1] = h]
                                   /\ ref' = [ref EXCEPT ![h] = n + 1]
  BY DEF R!Refer, R!Integer, RefsInv
<1>2. n + 1 \in R!Number \ {0} /\ place[n + 1] = Nil
  BY DEF R!Last, R!Number
<1>3. ref[h] = Nil /\ stale' = stale /\ haunted' = haunted
  BY DEF R!Refer
<1> DEFINE new == n + 1
<1> HIDE DEF new
<1>4. /\ place' = [place EXCEPT ![new] = h] /\ ref' = [ref EXCEPT ![h] = new]
      /\ new \in R!Number \ {0} /\ place[new] = Nil
  BY <1>1, <1>2 DEF new
<1>5. RefsType'
  BY <1>3, <1>4 DEF RefsInv, R!Number
<1>6. FreeIsListed'
  BY <1>4 DEF RefsInv, FreeIsListed
<1>7. StaleIsHeld'
  BY <1>3, <1>4 DEF RefsInv, StaleIsHeld
<1>8. R!CallbacksAreTheirs'
  BY <1>3, <1>4 DEF RefsInv, StaleIsHeld, R!CallbacksAreTheirs
<1> QED
  BY <1>5, <1>6, <1>7, <1>8 DEF RefsInv

(* What a holder of this state gives back is its own place; 0 is what the  *)
(* list of free places is cut off with.                                    *)
LEMMA ReleaseKeeps ==
  ASSUME RefsAssumption, RefsInv, ~haunted, NEW h \in Holder,
         R!Release(h) \/ R!ReleaseWithout(h)
  PROVE  RefsInv'
<1> USE DEF RefsAssumption, RefsType
<1> DEFINE n == ref[h]
<1>1. /\ n \in R!Number \ {0} /\ 0 \in R!Number
      /\ \E head \in {0, n} : place' = [place EXCEPT ![n] = place[0], ![0] = head]
      /\ ref' = [ref EXCEPT ![h] = Nil] /\ stale' = stale \ {h}
      /\ haunted' = (haunted \/ h \in stale)
  <2>1. n \in R!Number \ {0} /\ 0 \in R!Number
    BY DEF R!Release, R!ReleaseWithout, RefsInv, R!Number
  <2>2. place' = [place EXCEPT ![n] = place[0], ![0] = n]
        \/ place' = [place EXCEPT ![n] = place[0], ![0] = 0]
    <3>1. CASE R!Release(h)
      BY <3>1 DEF R!Release, R!Unreferred
    <3>2. CASE R!ReleaseWithout(h)
      BY <2>1, <3>2 DEF R!ReleaseWithout, R!Unreferred, RefsInv
    <3> QED
      BY <3>1, <3>2
  <2> QED
    BY <2>1, <2>2 DEF R!Release, R!ReleaseWithout
<1>2. RefsType'
  BY <1>1 DEF RefsInv
<1>3. CASE h \in stale
  <2>1. haunted'
    BY <1>1, <1>3
  <2> QED
    BY <1>2, <2>1 DEF RefsInv, R!CallbacksAreTheirs
<1>4. CASE h \notin stale
  <2> HIDE DEF n
  <2>1. place[n] = h
    BY <1>1, <1>4 DEF RefsInv, R!CallbacksAreTheirs, n
  <2>2. PICK head \in {0, n} : place' = [place EXCEPT ![n] = place[0], ![0] = head]
    BY <1>1
  <2>3. FreeIsListed'
    <3> SUFFICES ASSUME NEW k \in R!Number, place'[k] \in R!Number \ {0}
                 PROVE  /\ place'[place'[k]] \in R!Number
                        /\ \A m \in R!Number : place'[m] = place'[k] => m = k
      BY DEF FreeIsListed
    <3>1. \A m \in R!Number : place[m] # n
      BY <1>1, <2>1 DEF RefsInv, FreeIsListed
    <3>2. place'[0] = head /\ place'[n] = place[0]
          /\ \A m \in R!Number \ {0, n} : place'[m] = place[m]
      BY <1>1, <2>2 DEF RefsInv
    <3>3. place'[place'[k]] \in R!Number
      BY <1>1, <3>1, <3>2 DEF RefsInv, FreeIsListed
    <3>4. \A m \in R!Number : place'[m] = place'[k] => m = k
      BY <1>1, <3>1, <3>2 DEF RefsInv, FreeIsListed
    <3> QED
      BY <3>3, <3>4
  <2>4. StaleIsHeld'
    BY <1>1, <1>4 DEF RefsInv, StaleIsHeld
  <2>5. R!CallbacksAreTheirs'
    BY <1>1, <1>4, <2>1, <2>2 DEF RefsInv, R!CallbacksAreTheirs, StaleIsHeld
  <2> QED
    BY <1>2, <2>3, <2>4, <2>5 DEF RefsInv
<1> QED
  BY <1>3, <1>4

(* A new state has an empty table, and only stale holders keep a number.   *)
LEMMA RestartKeeps ==
  ASSUME RefsAssumption, RefsInv, R!RestartLua
  PROVE  RefsInv'
<1>1. place' = [n \in R!Number |-> IF n = 0 THEN 0 ELSE Nil]
  BY DEF R!RestartLua
<1>2. /\ (place \in [R!Number -> R!Number \cup Holder \cup {Nil}])' /\ (place[0] \in R!Number)'
      /\ FreeIsListed'
      /\ \A n \in R!Number : place'[n] \notin Holder
  BY <1>1 DEF RefsAssumption, FreeIsListed, R!Number
<1>3. RefsType'
  BY <1>2 DEF R!RestartLua, RefsInv, RefsType
<1>4. StaleIsHeld'
  BY DEF RefsAssumption, R!RestartLua, R!Cleared, RefsInv, RefsType, StaleIsHeld
<1>5. R!CallbacksAreTheirs'
  BY <1>2 DEF R!RestartLua, R!Cleared, RefsInv, RefsType, R!CallbacksAreTheirs
<1> QED
  BY <1>2, <1>3, <1>4, <1>5 DEF RefsInv

LEMMA RefsStart == RefsAssumption /\ R!RefsInit => RefsInv
<1> SUFFICES ASSUME RefsAssumption, R!RefsInit PROVE RefsInv
  OBVIOUS
<1>1. place = [n \in R!Number |-> IF n = 0 THEN 0 ELSE Nil]
  BY DEF R!RefsInit
<1>2. /\ place \in [R!Number -> R!Number \cup Holder \cup {Nil}]
      /\ place[0] \in R!Number
      /\ FreeIsListed
      /\ \A n \in R!Number : place[n] \notin Holder
  BY <1>1 DEF RefsAssumption, FreeIsListed, R!Number
<1>3. RefsType /\ StaleIsHeld /\ R!CallbacksAreTheirs
  BY <1>2 DEF R!RefsInit, RefsType, StaleIsHeld, R!CallbacksAreTheirs
<1> QED
  BY <1>2, <1>3 DEF RefsInv

LEMMA RefsStep == RefsAssumption /\ RefsInv /\ R!RefsNext => RefsInv'
BY ReferKeepsFreed, ReferKeepsNew, ReleaseKeeps, RestartKeeps DEF R!RefsNext

LEMMA RefsStutter == RefsInv /\ UNCHANGED R!refVars => RefsInv'
BY DEF RefsInv, RefsType, FreeIsListed, StaleIsHeld, R!CallbacksAreTheirs, R!refVars

(***************************************************************************)
(* Signals                                                                 *)
(***************************************************************************)

CONSTANTS Callback, Slot, MaxDepth, None

VARIABLES lists, of, emissions

S == INSTANCE Signals

SignalsAssumption == None \notin Slot

Walks == [part : {"c", "lua", "done"}, at : Slot \cup {None},
          calls : [Slot -> Nat], all : SUBSET Slot]

SignalsType ==
    /\ lists \in [{"c", "lua"} -> Seq(Slot)]
    /\ emissions \in Seq(Walks)

(* No slot is twice in the lists.                                          *)
Apart(l) ==
    /\ \A p \in {"c", "lua"} : \A i, j \in 1 .. Len(l[p]) : l[p][i] = l[p][j] => i = j
    /\ \A i \in 1 .. Len(l.c), j \in 1 .. Len(l.lua) : l.c[i] # l.lua[j]

(* The slots of the list p that the emission must call were called once if *)
(* they are before place i, and not yet from there on.                     *)
Before(l, e, p, i) ==
    \A j \in 1 .. Len(l[p]) :
        l[p][j] \in e.all => e.calls[l[p][j]] = IF j < i THEN 1 ELSE 0

(* All of them were called, or none.                                       *)
Called(l, e, p, n) ==
    \A j \in 1 .. Len(l[p]) : l[p][j] \in e.all => e.calls[l[p][j]] = n

(* What an emission must call is connected; it stands on a slot that is in *)
(* the list, and has called what is before and nothing that is behind.     *)
OnItsWay(l, e) ==
    /\ \A s \in e.all : \E p \in {"c", "lua"} : \E i \in 1 .. Len(l[p]) : l[p][i] = s
    /\ e.part = "done" => e.at = None /\ \A s \in e.all : e.calls[s] = 1
    /\ e.part # "done" =>
          \E k \in 1 .. Len(l[e.part]) : l[e.part][k] = e.at /\ Before(l, e, e.part, k + 1)
    /\ e.part = "c" => Called(l, e, "lua", 0)
    /\ e.part = "lua" => Called(l, e, "c", 1)

SignalsInv ==
    /\ SignalsType
    /\ Apart(lists)
    /\ \A i \in 1 .. Len(emissions) : OnItsWay(lists, emissions[i])

LEMMA GoesOn ==
  ASSUME SignalsAssumption, SignalsInv, NEW e \in Walks,
         \A s \in e.all : \E p \in {"c", "lua"} : \E i \in 1 .. Len(lists[p]) : lists[p][i] = s,
         NEW p \in {"c", "lua"}, NEW i \in 1 .. Len(lists[p]) + 1,
         Before(lists, e, p, i),
         p = "c" => Called(lists, e, "lua", 0),
         p = "lua" => Called(lists, e, "c", 1)
  PROVE  S!To(e, p, i) \in Walks /\ OnItsWay(lists, S!To(e, p, i))
<1> DEFINE d == S!To(e, p, i)
<1>0. /\ lists.c \in Seq(Slot) /\ lists.lua \in Seq(Slot)
      /\ lists["c"] = lists.c /\ lists["lua"] = lists.lua
      /\ Len(lists.c) \in Nat /\ Len(lists.lua) \in Nat
      /\ DOMAIN lists.c = 1 .. Len(lists.c) /\ DOMAIN lists.lua = 1 .. Len(lists.lua)
  BY DEF SignalsInv, SignalsType
<1>1. CASE i <= Len(lists[p])
  <2> DEFINE x == lists[p][i]
  <2>1. /\ i \in DOMAIN lists[p] /\ x \in Slot
        /\ d = [e EXCEPT !.part = p, !.at = x, !.calls[x] = @ + 1]
    BY <1>0, <1>1 DEF S!To
  <2> HIDE DEF d, x
  <2>2. /\ d \in Walks /\ d.part = p /\ d.at = x /\ d.all = e.all
        /\ d.calls[x] = e.calls[x] + 1
        /\ \A s \in Slot \ {x} : d.calls[s] = e.calls[s]
    <3> DEFINE n == [e.calls EXCEPT ![x] = @ + 1]
    <3>1. n \in [Slot -> Nat] /\ n[x] = e.calls[x] + 1
          /\ \A s \in Slot \ {x} : n[s] = e.calls[s]
      BY <2>1 DEF Walks
    <3>2. d = [part |-> p, at |-> x, calls |-> n, all |-> e.all]
      BY <2>1 DEF Walks
    <3> HIDE DEF n
    <3> QED
      BY <2>1, <3>1, <3>2 DEF Walks
  <2>3. /\ \A j \in 1 .. Len(lists[p]) : lists[p][j] \in Slot
        /\ \A j \in 1 .. Len(lists[p]) : j # i => lists[p][j] # x
        /\ \A q \in {"c", "lua"} \ {p} : \A j \in 1 .. Len(lists[q]) :
              lists[q][j] \in Slot \ {x}
    BY <1>0, <1>1 DEF SignalsInv, Apart, x
  <2>4. Before(lists, d, p, i + 1)
    <3> SUFFICES ASSUME NEW j \in 1 .. Len(lists[p]), lists[p][j] \in e.all
                 PROVE  d.calls[lists[p][j]] = IF j < i + 1 THEN 1 ELSE 0
      BY <2>2 DEF Before
    <3>1. e.calls[lists[p][j]] = IF j < i THEN 1 ELSE 0
      BY DEF Before
    <3>2. CASE j = i
      BY <2>2, <3>1, <3>2 DEF x
    <3>3. CASE j # i
      BY <2>2, <2>3, <3>1, <3>3
    <3> QED
      BY <3>2, <3>3
  <2>5. p = "c" => Called(lists, d, "lua", 0)
    BY <2>2, <2>3 DEF Called
  <2>6. p = "lua" => Called(lists, d, "c", 1)
    BY <2>2, <2>3 DEF Called
  <2>7. \E k \in 1 .. Len(lists[p]) : lists[p][k] = x /\ Before(lists, d, p, k + 1)
    BY <1>0, <1>1, <2>4 DEF x
  <2> QED
    BY <2>2, <2>5, <2>6, <2>7 DEF OnItsWay, d
<1>2. CASE i = Len(lists[p]) + 1 /\ p = "c" /\ Len(lists.lua) >= 1
  <2> DEFINE x == lists.lua[1]
  <2>1. /\ 1 \in DOMAIN lists.lua /\ x \in Slot
        /\ d = [e EXCEPT !.part = "lua", !.at = x, !.calls[x] = @ + 1]
    BY <1>0, <1>2 DEF S!To
  <2> HIDE DEF d, x
  <2>2. /\ d \in Walks /\ d.part = "lua" /\ d.at = x /\ d.all = e.all
        /\ d.calls[x] = e.calls[x] + 1
        /\ \A s \in Slot \ {x} : d.calls[s] = e.calls[s]
    <3> DEFINE n == [e.calls EXCEPT ![x] = @ + 1]
    <3>1. n \in [Slot -> Nat] /\ n[x] = e.calls[x] + 1
          /\ \A s \in Slot \ {x} : n[s] = e.calls[s]
      BY <2>1 DEF Walks
    <3>2. d = [part |-> "lua", at |-> x, calls |-> n, all |-> e.all]
      BY <2>1 DEF Walks
    <3> HIDE DEF n
    <3> QED
      BY <2>1, <3>1, <3>2 DEF Walks
  <2>3. /\ \A j \in 1 .. Len(lists.lua) : lists.lua[j] \in Slot
        /\ \A j \in 1 .. Len(lists.lua) : j # 1 => lists.lua[j] # x
        /\ \A j \in 1 .. Len(lists.c) : lists.c[j] \in Slot \ {x}
    BY <1>0, <1>2 DEF SignalsInv, Apart, x
  <2>4. Before(lists, d, "lua", 2)
    <3> SUFFICES ASSUME NEW j \in 1 .. Len(lists.lua), lists.lua[j] \in e.all
                 PROVE  d.calls[lists.lua[j]] = IF j < 2 THEN 1 ELSE 0
      BY <2>2 DEF Before
    <3>1. e.calls[lists.lua[j]] = 0
      BY <1>2 DEF Called
    <3>2. CASE j = 1
      BY <2>2, <3>1, <3>2 DEF x
    <3>3. CASE j # 1
      BY <2>2, <2>3, <3>1, <3>3
    <3> QED
      BY <3>2, <3>3
  <2>5. Called(lists, d, "c", 1)
    BY <1>0, <1>2, <2>2, <2>3 DEF Called, Before
  <2>6. \E k \in 1 .. Len(lists.lua) : lists.lua[k] = x /\ Before(lists, d, "lua", k + 1)
    <3>1. 1 \in 1 .. Len(lists.lua) /\ lists.lua[1] = x /\ 1 + 1 = 2
      BY <1>0, <1>2 DEF x
    <3> QED
      BY <2>4, <3>1
  <2> QED
    BY <1>0, <2>2, <2>5, <2>6 DEF OnItsWay, d
<1>3. CASE i = Len(lists[p]) + 1 /\ ~ (p = "c" /\ Len(lists.lua) >= 1)
  <2>1. d = [e EXCEPT !.part = "done", !.at = None]
    BY <1>0, <1>3 DEF S!To
  <2> HIDE DEF d
  <2>2. d \in Walks /\ d.part = "done" /\ d.at = None /\ d.all = e.all /\ d.calls = e.calls
    BY <2>1 DEF Walks
  <2>3. \A s \in e.all : e.calls[s] = 1
    <3> TAKE s \in e.all
    <3>1. PICK q \in {"c", "lua"} : \E j \in 1 .. Len(lists[q]) : lists[q][j] = s
      OBVIOUS
    <3>2. PICK j \in 1 .. Len(lists[q]) : lists[q][j] = s
      BY <3>1
    <3>3. CASE q = p
      <4>1. j \in 1 .. Len(lists[p]) /\ lists[p][j] = s /\ Len(lists[p]) \in Nat
        BY <3>2, <3>3 DEF SignalsInv, SignalsType
      <4>2. j < i
        BY <1>3, <4>1
      <4>3. e.calls[lists[p][j]] = IF j < i THEN 1 ELSE 0
        BY <1>0, <4>1 DEF Before
      <4> QED
        BY <4>1, <4>2, <4>3
    <3>4. CASE q # p
      BY <1>0, <1>3, <3>2, <3>4 DEF Called
    <3> QED
      BY <3>3, <3>4
  <2> QED
    BY <2>2, <2>3 DEF OnItsWay, d
<1> QED
  BY <1>0, <1>1, <1>2, <1>3

LEMMA SignalsStart == SignalsAssumption /\ S!SignalsInit => SignalsInv
BY DEF S!SignalsInit, S!Part, SignalsInv, SignalsType, Apart

LEMMA SignalsStutter == SignalsInv /\ UNCHANGED S!signalVars => SignalsInv'
BY DEF S!signalVars, SignalsInv, SignalsType

(* An emission is put before the others or they are left without the first.*)
LEMMA Pushed ==
  ASSUME SignalsInv, UNCHANGED lists, NEW e \in Walks, OnItsWay(lists, e),
         NEW rest \in Seq(Walks),
         \A i \in 1 .. Len(rest) : OnItsWay(lists, rest[i]),
         emissions' = <<e>> \o rest
  PROVE  SignalsInv'
<1> DEFINE r == <<e>> \o rest
<1>1. /\ r \in Seq(Walks) /\ Len(r) = Len(rest) + 1 /\ r[1] = e
      /\ \A k \in 2 .. Len(r) : k - 1 \in 1 .. Len(rest) /\ r[k] = rest[k - 1]
  BY ListWith
<1> HIDE DEF r
<1>2. ASSUME NEW k \in 1 .. Len(r)
      PROVE  OnItsWay(lists, r[k])
  <2>1. CASE k = 1
    BY <1>1, <2>1
  <2>2. CASE k # 1
    <3>1. k \in 2 .. Len(r)
      BY <1>1, <2>2
    <3>2. k - 1 \in 1 .. Len(rest) /\ r[k] = rest[k - 1]
      BY <1>1, <3>1
    <3> QED
      BY <3>2
  <2> QED
    BY <2>1, <2>2
<1> QED
  BY <1>1, <1>2 DEF SignalsInv, SignalsType, r

LEMMA RestIs ==
  ASSUME SignalsInv, emissions # <<>>
  PROVE  /\ Head(emissions) \in Walks /\ OnItsWay(lists, Head(emissions))
         /\ Tail(emissions) \in Seq(Walks)
         /\ \A i \in 1 .. Len(Tail(emissions)) : OnItsWay(lists, Tail(emissions)[i])
<1>1. /\ Tail(emissions) \in Seq(Walks) /\ Len(Tail(emissions)) = Len(emissions) - 1
      /\ \A i \in 1 .. Len(Tail(emissions)) : Tail(emissions)[i] = emissions[i + 1]
      /\ Len(emissions) \in Nat /\ Len(emissions) >= 1
      /\ Head(emissions) = emissions[1] /\ Head(emissions) \in Walks
  BY HeadTailProperties DEF SignalsInv, SignalsType
<1> QED
  BY <1>1 DEF SignalsInv

LEMMA EmitKeeps ==
  ASSUME SignalsAssumption, SignalsInv, S!Emit
  PROVE  SignalsInv'
<1> DEFINE e == [part |-> "c", at |-> None, calls |-> [s \in Slot |-> 0], all |-> S!Connected]
<1>1. /\ \A s \in S!Connected : \E p \in {"c", "lua"} : \E i \in 1 .. Len(lists[p]) : lists[p][i] = s
      /\ S!Connected \subseteq Slot
  BY DEF S!Connected, S!ToSet, SignalsInv, SignalsType
<1>2. e \in Walks /\ e.all = S!Connected
  BY <1>1 DEF Walks
<1>3. Before(lists, e, "c", 1) /\ Called(lists, e, "lua", 0)
  BY <1>1 DEF Before, Called, SignalsInv, SignalsType
<1>4. 1 \in 1 .. Len(lists["c"]) + 1
  BY DEF SignalsInv, SignalsType
<1>5. emissions' = <<S!To(e, "c", 1)>> \o emissions /\ UNCHANGED lists
  BY DEF S!Emit
<1> HIDE DEF e
<1>6. S!To(e, "c", 1) \in Walks /\ OnItsWay(lists, S!To(e, "c", 1))
  BY <1>1, <1>2, <1>3, <1>4, GoesOn
<1> QED
  BY <1>5, <1>6, Pushed DEF SignalsInv, SignalsType

LEMMA CallKeeps ==
  ASSUME SignalsAssumption, SignalsInv, NEW failed \in BOOLEAN, S!Call(failed)
  PROVE  SignalsInv'
<1> DEFINE e == Head(emissions)
<1>1. /\ emissions # <<>> /\ e.at # None /\ UNCHANGED lists
      /\ emissions' = <<S!To(e, e.part, S!Behind(e))>> \o Tail(emissions)
  BY DEF S!Call, S!Returned
<1>2. e \in Walks /\ OnItsWay(lists, e)
  BY <1>1, RestIs
<1> HIDE DEF e
<1>3. e.part \in {"c", "lua"}
  BY <1>1, <1>2 DEF OnItsWay, Walks
<1>4. PICK k \in 1 .. Len(lists[e.part]) :
        lists[e.part][k] = e.at /\ Before(lists, e, e.part, k + 1)
  BY <1>2, <1>3 DEF OnItsWay
<1>5. DOMAIN lists[e.part] = 1 .. Len(lists[e.part]) /\ Len(lists[e.part]) \in Nat
  BY <1>3 DEF SignalsInv, SignalsType
<1>6. \A i \in 1 .. Len(lists[e.part]) : lists[e.part][i] = e.at => i = k
  BY <1>3, <1>4 DEF SignalsInv, Apart
<1>7. S!Behind(e) = 1 + k
  BY <1>4, <1>5, <1>6 DEF S!Behind
<1>8. S!Behind(e) = k + 1 /\ k + 1 \in 1 .. Len(lists[e.part]) + 1
  BY <1>5, <1>7
<1>9. /\ S!To(e, e.part, S!Behind(e)) \in Walks
      /\ OnItsWay(lists, S!To(e, e.part, S!Behind(e)))
  <2>1. /\ e.part = "c" => Called(lists, e, "lua", 0)
        /\ e.part = "lua" => Called(lists, e, "c", 1)
        /\ \A s \in e.all : \E p \in {"c", "lua"} : \E i \in 1 .. Len(lists[p]) : lists[p][i] = s
    BY <1>2 DEF OnItsWay
  <2> QED
    BY <1>2, <1>3, <1>4, <1>8, <2>1, GoesOn
<1> QED
  BY <1>1, <1>9, RestIs, Pushed

LEMMA EndKeeps == SignalsInv /\ S!EndEmission => SignalsInv'
BY RestIs DEF S!EndEmission, SignalsInv, SignalsType

LEMMA ConnectKeeps ==
  ASSUME SignalsAssumption, SignalsInv, NEW p \in {"c", "lua"}, NEW cb, S!Connect(p, cb)
  PROVE  SignalsInv'
<1>1. PICK s \in Slot \ S!Connected : lists' = [lists EXCEPT ![p] = Append(@, s)]
  BY DEF S!Connect
<1>2. UNCHANGED emissions
  BY DEF S!Connect
<1>3. \A q \in {"c", "lua"} : \A i \in 1 .. Len(lists[q]) : lists[q][i] # s /\ lists[q][i] \in Slot
  BY DEF S!Connected, S!ToSet, SignalsInv, SignalsType
<1>4. /\ lists' \in [{"c", "lua"} -> Seq(Slot)]
      /\ Len(lists'[p]) = Len(lists[p]) + 1 /\ lists'[p][Len(lists[p]) + 1] = s
      /\ \A i \in 1 .. Len(lists[p]) : lists'[p][i] = lists[p][i]
      /\ \A q \in {"c", "lua"} \ {p} : lists'[q] = lists[q]
      /\ \A q \in {"c", "lua"} : Len(lists[q]) \in Nat
  BY <1>1 DEF SignalsInv, SignalsType
<1>5. \A q \in {"c", "lua"} :
         /\ \A i \in 1 .. Len(lists[q]) : i \in 1 .. Len(lists'[q]) /\ lists'[q][i] = lists[q][i]
         /\ \A i \in 1 .. Len(lists'[q]) :
               \/ i \in 1 .. Len(lists[q]) /\ lists'[q][i] = lists[q][i]
               \/ q = p /\ i = Len(lists[p]) + 1 /\ lists'[q][i] = s
  <2> TAKE q \in {"c", "lua"}
  <2>1. CASE q = p
    <3>1. /\ Len(lists[p]) \in Nat /\ Len(lists'[p]) = Len(lists[p]) + 1
          /\ lists'[p][Len(lists[p]) + 1] = s
          /\ \A i \in 1 .. Len(lists[p]) : lists'[p][i] = lists[p][i]
      BY <1>4
    <3>2. PICK n \in Nat : n = Len(lists[p])
      BY <3>1
    <3>3. Len(lists'[p]) = n + 1 /\ 1 .. n + 1 = (1 .. n) \cup {n + 1}
      BY <3>1, <3>2
    <3>4. \A i \in 1 .. n : i \in 1 .. n + 1 /\ lists'[p][i] = lists[p][i]
      BY <3>1, <3>2, <3>3
    <3>5. \A i \in 1 .. n + 1 : \/ i \in 1 .. n /\ lists'[p][i] = lists[p][i]
                                \/ i = n + 1 /\ lists'[p][i] = s
      BY <3>1, <3>2, <3>3
    <3>6. /\ lists[q] = lists[p] /\ lists'[q] = lists'[p]
          /\ 1 .. Len(lists[q]) = 1 .. n /\ 1 .. Len(lists'[q]) = 1 .. n + 1
      BY <2>1, <3>2, <3>3
    <3>7. \A i \in 1 .. Len(lists[q]) : i \in 1 .. Len(lists'[q]) /\ lists'[q][i] = lists[q][i]
      BY <3>4, <3>6
    <3>8. \A i \in 1 .. Len(lists'[q]) :
             \/ i \in 1 .. Len(lists[q]) /\ lists'[q][i] = lists[q][i]
             \/ q = p /\ i = Len(lists[p]) + 1 /\ lists'[q][i] = s
      BY <2>1, <3>2, <3>5, <3>6
    <3> QED
      BY <3>7, <3>8
  <2>2. CASE q # p
    <3>1. lists'[q] = lists[q]
      BY <1>4, <2>2
    <3> QED
      BY <3>1
  <2> QED
    BY <2>1, <2>2
<1>6. Apart(lists')
  <2>1. ASSUME NEW q \in {"c", "lua"}, NEW i \in 1 .. Len(lists'[q]), NEW j \in 1 .. Len(lists'[q]),
               lists'[q][i] = lists'[q][j]
        PROVE  i = j
    <3>1. \A a, b \in 1 .. Len(lists[q]) : lists[q][a] = lists[q][b] => a = b
      BY DEF SignalsInv, Apart
    <3>2. \A a \in 1 .. Len(lists'[q]) :
             \/ a \in 1 .. Len(lists[q]) /\ lists'[q][a] = lists[q][a] /\ lists'[q][a] # s
             \/ a = Len(lists[p]) + 1 /\ lists'[q][a] = s
      BY <1>3, <1>5
    <3>3. CASE lists'[q][i] = s
      BY <2>1, <3>2, <3>3
    <3>4. CASE lists'[q][i] # s
      <4>1. i \in 1 .. Len(lists[q]) /\ lists'[q][i] = lists[q][i]
        BY <3>2, <3>4
      <4>2. j \in 1 .. Len(lists[q]) /\ lists'[q][j] = lists[q][j]
        BY <2>1, <3>2, <3>4
      <4> QED
        BY <2>1, <3>1, <4>1, <4>2
    <3> QED
      BY <3>3, <3>4
  <2>2. ASSUME NEW i \in 1 .. Len(lists'["c"]), NEW j \in 1 .. Len(lists'["lua"])
        PROVE  lists'["c"][i] # lists'["lua"][j]
    <3>1. \/ i \in 1 .. Len(lists["c"]) /\ lists'["c"][i] = lists["c"][i]
          \/ lists'["c"][i] = s /\ p = "c"
      BY <1>5
    <3>3. \/ j \in 1 .. Len(lists["lua"]) /\ lists'["lua"][j] = lists["lua"][j]
          \/ lists'["lua"][j] = s /\ p = "lua"
      BY <1>5
    <3>2. \A k \in 1 .. Len(lists["c"]), m \in 1 .. Len(lists["lua"]) :
             lists["c"][k] # lists["lua"][m]
      BY DEF SignalsInv, Apart
    <3> QED
      BY <1>3, <3>1, <3>2, <3>3
  <2> QED
    BY <2>1, <2>2 DEF Apart
<1>7. ASSUME NEW n \in 1 .. Len(emissions)
      PROVE  OnItsWay(lists', emissions[n])
  <2> DEFINE e == emissions[n]
  <2>1. e \in Walks /\ OnItsWay(lists, e)
    BY DEF SignalsInv, SignalsType
  <2> HIDE DEF e
  <2>2. s \notin e.all
    BY <1>3, <2>1 DEF OnItsWay
  <2>3. ASSUME NEW q \in {"c", "lua"}, NEW m
        PROVE  Called(lists, e, q, m) => Called(lists', e, q, m)
    <3> SUFFICES ASSUME Called(lists, e, q, m), NEW j \in 1 .. Len(lists'[q]),
                        lists'[q][j] \in e.all
                 PROVE  e.calls[lists'[q][j]] = m
      BY DEF Called
    <3>1. j \in 1 .. Len(lists[q]) /\ lists'[q][j] = lists[q][j]
      BY <1>5, <2>2
    <3> QED
      BY <3>1 DEF Called
  <2>4. ASSUME NEW q \in {"c", "lua"}, NEW k \in 1 .. Len(lists[q]), Before(lists, e, q, k + 1)
        PROVE  Before(lists', e, q, k + 1)
    <3> SUFFICES ASSUME NEW j \in 1 .. Len(lists'[q]), lists'[q][j] \in e.all
                 PROVE  e.calls[lists'[q][j]] = IF j < k + 1 THEN 1 ELSE 0
      BY DEF Before
    <3>1. j \in 1 .. Len(lists[q]) /\ lists'[q][j] = lists[q][j]
      BY <1>5, <2>2
    <3> QED
      BY <2>4, <3>1 DEF Before
  <2>5. \A x \in e.all : \E q \in {"c", "lua"} : \E i \in 1 .. Len(lists'[q]) : lists'[q][i] = x
    <3> TAKE x \in e.all
    <3>1. PICK q \in {"c", "lua"} : \E i \in 1 .. Len(lists[q]) : lists[q][i] = x
      BY <2>1 DEF OnItsWay
    <3>2. PICK i \in 1 .. Len(lists[q]) : lists[q][i] = x
      BY <3>1
    <3>3. i \in 1 .. Len(lists'[q]) /\ lists'[q][i] = x
      BY <1>5, <3>2
    <3> QED
      BY <3>3
  <2>6. e.part # "done" =>
          \E k \in 1 .. Len(lists'[e.part]) :
             lists'[e.part][k] = e.at /\ Before(lists', e, e.part, k + 1)
    <3> SUFFICES ASSUME e.part # "done"
                 PROVE  \E k \in 1 .. Len(lists'[e.part]) :
                          lists'[e.part][k] = e.at /\ Before(lists', e, e.part, k + 1)
      OBVIOUS
    <3>1. e.part \in {"c", "lua"}
      BY <2>1 DEF Walks
    <3>2. PICK k \in 1 .. Len(lists[e.part]) :
            lists[e.part][k] = e.at /\ Before(lists, e, e.part, k + 1)
      BY <2>1 DEF OnItsWay
    <3>3. Before(lists', e, e.part, k + 1)
      BY <2>4, <3>1, <3>2
    <3> QED
      BY <1>5, <3>1, <3>2, <3>3
  <2> QED
    BY <2>1, <2>3, <2>5, <2>6 DEF OnItsWay, e
<1> QED
  BY <1>2, <1>4, <1>6, <1>7 DEF SignalsInv, SignalsType

(* A callback is taken out; those behind it move up.                       *)
LEMMA DisconnectKeeps ==
  ASSUME SignalsAssumption, SignalsInv, NEW p \in {"c", "lua"}, NEW cb, S!Disconnect(p, cb)
  PROVE  SignalsInv'
<1>1. PICK i \in 1 .. Len(lists[p]) :
        /\ lists[p][i] \notin S!StoodOn
        /\ lists' = [lists EXCEPT ![p] = S!RemoveAt(@, i)]
        /\ S!Free({lists[p][i]})
  <2>1. lists[p] \in Seq(Slot) /\ DOMAIN lists[p] = 1 .. Len(lists[p])
    BY DEF SignalsInv, SignalsType
  <2>2. PICK i \in DOMAIN lists[p] :
          /\ lists[p][i] \notin S!StoodOn
          /\ lists' = [lists EXCEPT ![p] = S!RemoveAt(@, i)]
          /\ S!Free({lists[p][i]})
    BY DEF S!Disconnect
  <2> QED
    BY <2>1, <2>2
<1> DEFINE x == lists[p][i]
           r == SubSeq(lists[p], 1, i - 1) \o SubSeq(lists[p], i + 1, Len(lists[p]))
           Up(q, j) == IF q = p /\ j >= i THEN j + 1 ELSE j
<1>2. lists[p] \in Seq(Slot) /\ x \in Slot /\ \A q \in {"c", "lua"} : Len(lists[q]) \in Nat
  BY DEF SignalsInv, SignalsType
<1>3. /\ r \in Seq(Slot) /\ Len(r) = Len(lists[p]) - 1
      /\ \A j \in 1 .. Len(lists[p]) - 1 : r[j] = IF j < i THEN lists[p][j] ELSE lists[p][j + 1]
  BY <1>2, RemovedIs
<1>4. lists' = [lists EXCEPT ![p] = r]
  BY <1>1 DEF S!RemoveAt
<1> HIDE DEF r
<1>5. /\ lists' \in [{"c", "lua"} -> Seq(Slot)]
      /\ lists'[p] = r /\ \A q \in {"c", "lua"} \ {p} : lists'[q] = lists[q]
  BY <1>3, <1>4 DEF SignalsInv, SignalsType
<1>6. ASSUME NEW q \in {"c", "lua"}, NEW j \in 1 .. Len(lists'[q])
      PROVE  /\ Up(q, j) \in 1 .. Len(lists[q]) /\ lists'[q][j] = lists[q][Up(q, j)]
             /\ q = p => Up(q, j) # i
  <2>1. CASE q = p
    BY <1>2, <1>3, <1>5, <1>6, <2>1
  <2>2. CASE q # p
    BY <1>5, <1>6, <2>2
  <2> QED
    BY <2>1, <2>2
<1>7. ASSUME NEW q \in {"c", "lua"}, NEW j \in 1 .. Len(lists[q]), ~ (q = p /\ j = i)
      PROVE  \E k \in 1 .. Len(lists'[q]) : Up(q, k) = j /\ lists'[q][k] = lists[q][j]
  <2>1. CASE q = p /\ j > i
    <3>1. /\ j - 1 \in 1 .. Len(lists'[q]) /\ Up(q, j - 1) = j
      BY <1>2, <1>3, <1>5, <1>7, <2>1
    <3> QED
      BY <1>6, <3>1
  <2>2. CASE ~ (q = p /\ j > i)
    <3>1. j \in 1 .. Len(lists'[q]) /\ Up(q, j) = j
      BY <1>2, <1>3, <1>5, <1>7, <2>2
    <3> QED
      BY <1>6, <3>1
  <2> QED
    BY <2>1, <2>2
<1>8. \A q \in {"c", "lua"} : \A j, k \in 1 .. Len(lists'[q]) :
         /\ Up(q, j) = Up(q, k) => j = k
         /\ Up(q, j) < Up(q, k) + 1 <=> j < k + 1
  BY <1>2, <1>5
<1> HIDE DEF Up
<1>9. Apart(lists')
  <2>1. ASSUME NEW q \in {"c", "lua"}, NEW j \in 1 .. Len(lists'[q]), NEW k \in 1 .. Len(lists'[q]),
               lists'[q][j] = lists'[q][k]
        PROVE  j = k
    <3>1. /\ Up(q, j) \in 1 .. Len(lists[q]) /\ lists'[q][j] = lists[q][Up(q, j)]
          /\ Up(q, k) \in 1 .. Len(lists[q]) /\ lists'[q][k] = lists[q][Up(q, k)]
      BY <1>6
    <3>2. Up(q, j) = Up(q, k)
      BY <2>1, <3>1 DEF SignalsInv, Apart
    <3> QED
      BY <1>8, <3>2
  <2>2. ASSUME NEW j \in 1 .. Len(lists'["c"]), NEW k \in 1 .. Len(lists'["lua"])
        PROVE  lists'["c"][j] # lists'["lua"][k]
    <3>1. /\ Up("c", j) \in 1 .. Len(lists["c"]) /\ lists'["c"][j] = lists["c"][Up("c", j)]
          /\ Up("lua", k) \in 1 .. Len(lists["lua"]) /\ lists'["lua"][k] = lists["lua"][Up("lua", k)]
      BY <1>6
    <3> QED
      BY <3>1 DEF SignalsInv, Apart
  <2> QED
    BY <2>1, <2>2 DEF Apart
<1>10. /\ emissions' = [n \in 1 .. Len(emissions) |->
             [emissions[n] EXCEPT !.all = @ \ {x},
                !.calls = [s \in Slot |-> IF s \in {x} THEN 0 ELSE @[s]]]]
       /\ Len(emissions) \in Nat
  <2>1. DOMAIN emissions = 1 .. Len(emissions) /\ Len(emissions) \in Nat
    BY DEF SignalsInv, SignalsType
  <2> QED
    BY <1>1, <2>1 DEF S!Free
<1>11. ASSUME NEW n \in 1 .. Len(emissions)
       PROVE  emissions'[n] \in Walks /\ OnItsWay(lists', emissions'[n])
  <2> DEFINE e == emissions[n]
             d == emissions'[n]
  <2>1. e \in Walks /\ OnItsWay(lists, e) /\ e.at # x
    <3>1. e.at \in S!StoodOn
      BY DEF S!StoodOn, S!ToSet, SignalsInv, SignalsType
    <3> QED
      BY <1>1, <3>1 DEF SignalsInv, SignalsType
  <2>2. d = [e EXCEPT !.all = @ \ {x}, !.calls = [s \in Slot |-> IF s \in {x} THEN 0 ELSE @[s]]]
    BY <1>10
  <2> HIDE DEF d, e
  <2>3. /\ d \in Walks /\ d.part = e.part /\ d.at = e.at /\ d.all = e.all \ {x}
        /\ \A s \in d.all : d.calls[s] = e.calls[s]
    <3> DEFINE c == [s \in Slot |-> IF s \in {x} THEN 0 ELSE e.calls[s]]
    <3>1. c \in [Slot -> Nat] /\ \A s \in Slot \ {x} : c[s] = e.calls[s]
      BY <2>1 DEF Walks
    <3>2. d = [part |-> e.part, at |-> e.at, calls |-> c, all |-> e.all \ {x}]
      BY <2>1, <2>2 DEF Walks
    <3> HIDE DEF c, x
    <3> QED
      BY <2>1, <3>1, <3>2 DEF Walks
  <2> HIDE DEF x
  <2>4. ASSUME NEW q \in {"c", "lua"}, NEW m, Called(lists, e, q, m)
        PROVE  Called(lists', d, q, m)
    <3> SUFFICES ASSUME NEW j \in 1 .. Len(lists'[q]), lists'[q][j] \in d.all
                 PROVE  d.calls[lists'[q][j]] = m
      BY DEF Called
    <3>1. Up(q, j) \in 1 .. Len(lists[q]) /\ lists'[q][j] = lists[q][Up(q, j)]
      BY <1>6
    <3> QED
      BY <2>3, <2>4, <3>1 DEF Called
  <2>5. \A s \in d.all : \E q \in {"c", "lua"} : \E j \in 1 .. Len(lists'[q]) : lists'[q][j] = s
    <3> TAKE s \in d.all
    <3>1. s \in e.all /\ s # x
      BY <2>3
    <3>2. PICK q \in {"c", "lua"} : \E j \in 1 .. Len(lists[q]) : lists[q][j] = s
      BY <2>1, <3>1 DEF OnItsWay
    <3>3. PICK j \in 1 .. Len(lists[q]) : lists[q][j] = s
      BY <3>2
    <3>4. ~ (q = p /\ j = i)
      BY <3>1, <3>3 DEF x
    <3> QED
      BY <1>7, <3>3, <3>4
  <2>6. ASSUME d.part # "done"
        PROVE  \E k \in 1 .. Len(lists'[d.part]) :
                  lists'[d.part][k] = d.at /\ Before(lists', d, d.part, k + 1)
    <3> DEFINE q == e.part
    <3>1. q \in {"c", "lua"} /\ d.part = q
      BY <2>1, <2>3, <2>6 DEF Walks
    <3>2. PICK k \in 1 .. Len(lists[q]) : lists[q][k] = e.at /\ Before(lists, e, q, k + 1)
      BY <2>1, <3>1 DEF OnItsWay
    <3> HIDE DEF q
    <3>3. ~ (q = p /\ k = i)
      BY <2>1, <3>2 DEF x
    <3>4. PICK l \in 1 .. Len(lists'[q]) : Up(q, l) = k /\ lists'[q][l] = lists[q][k]
      BY <1>7, <3>1, <3>3
    <3>5. Before(lists', d, q, l + 1)
      <4> SUFFICES ASSUME NEW j \in 1 .. Len(lists'[q]), lists'[q][j] \in d.all
                   PROVE  d.calls[lists'[q][j]] = IF j < l + 1 THEN 1 ELSE 0
        BY DEF Before
      <4>1. Up(q, j) \in 1 .. Len(lists[q]) /\ lists'[q][j] = lists[q][Up(q, j)]
        BY <1>6, <3>1
      <4>2. e.calls[lists[q][Up(q, j)]] = IF Up(q, j) < k + 1 THEN 1 ELSE 0
        BY <2>3, <3>2, <4>1 DEF Before
      <4>3. Up(q, j) < k + 1 <=> j < l + 1
        BY <1>8, <3>1, <3>4
      <4> QED
        BY <2>3, <4>1, <4>2, <4>3
    <3> QED
      BY <2>3, <3>1, <3>2, <3>4, <3>5
  <2>7. d.part = "done" => d.at = None /\ \A s \in d.all : d.calls[s] = 1
    BY <2>1, <2>3 DEF OnItsWay
  <2>8. /\ d.part = "c" => Called(lists', d, "lua", 0)
        /\ d.part = "lua" => Called(lists', d, "c", 1)
    BY <2>1, <2>3, <2>4 DEF OnItsWay
  <2>9. d \in Walks /\ OnItsWay(lists', d)
    BY <2>3, <2>5, <2>6, <2>7, <2>8 DEF OnItsWay
  <2> QED
    BY <2>9 DEF d
<1>12. emissions' \in Seq(Walks) /\ Len(emissions') = Len(emissions)
  <2> DEFINE n == Len(emissions)
  <2>1. n \in Nat /\ emissions' = [k \in 1 .. n |-> emissions'[k]]
    BY <1>10
  <2>2. \A k \in 1 .. n : emissions'[k] \in Walks
    BY <1>11
  <2> HIDE DEF n
  <2>3. emissions' \in [1 .. n -> Walks]
    BY <2>1, <2>2
  <2>4. emissions' \in Seq(Walks) /\ Len(emissions') = n
    BY <2>1, <2>3
  <2> QED
    BY <2>4 DEF n
<1> QED
  BY <1>5, <1>9, <1>11, <1>12 DEF SignalsInv, SignalsType

LEMMA WipeKeeps == SignalsInv /\ S!WipeLua => SignalsInv'
<1> SUFFICES ASSUME SignalsInv, S!WipeLua PROVE SignalsInv'
  OBVIOUS
<1>1. /\ emissions = <<>> /\ lists' = [lists EXCEPT !.lua = <<>>]
      /\ emissions' = [i \in DOMAIN emissions |->
           [emissions[i] EXCEPT !.all = @ \ S!ToSet(lists.lua),
              !.calls = [s \in Slot |-> IF s \in S!ToSet(lists.lua) THEN 0 ELSE @[s]]]]
  BY DEF S!WipeLua, S!Free
<1>2. emissions' = <<>>
  BY <1>1
<1>3. /\ lists' \in [{"c", "lua"} -> Seq(Slot)]
      /\ lists'["c"] = lists["c"] /\ lists'["lua"] = <<>>
  <2>1. <<>> \in Seq(Slot)
    OBVIOUS
  <2> QED
    BY <1>1, <2>1 DEF SignalsInv, SignalsType
<1>4. Apart(lists')
  BY <1>3 DEF SignalsInv, Apart
<1> QED
  BY <1>2, <1>3, <1>4 DEF SignalsInv, SignalsType

LEMMA SignalsStep == SignalsAssumption /\ SignalsInv /\ S!SignalsNext => SignalsInv'
BY ConnectKeeps, DisconnectKeeps, WipeKeeps, EmitKeeps, CallKeeps, EndKeeps
   DEF S!SignalsNext, S!Part

LEMMA SignalsImplies == SignalsInv => S!EmissionIsComplete
BY DEF SignalsInv, SignalsType, S!EmissionIsComplete, OnItsWay

(***************************************************************************)
(* Objects that Lua knows                                                  *)
(***************************************************************************)

CONSTANTS Address, Nothing

VARIABLES object, known, registered, state, missed

O == INSTANCE LuaObjects WITH listed <- registered

InLists == {"client", "plugin", "kbd", "screen", "tag", "map"}
Kinds == InLists \cup {"pointer", "virtual", "gone", "kbind"}

ObjectsAssumption == Nothing \notin Address \cup Kinds \cup {"kbindmap"}

(***************************************************************************)
(* What makes ObjectsAreKnown inductive: only objects of some kinds are in *)
(* lists; a tag is known as long as no reload missed it, also while its    *)
(* output is unplugged; and the state that waits for an output to come     *)
(* back holds a tag and the memory of the former output.                   *)
(***************************************************************************)
ObjectsInv ==
    /\ object \in [Address -> Kinds \cup {Nothing}]
    /\ known \in [Address -> Kinds \cup {"kbindmap", Nothing}]
    /\ registered \subseteq Address
    /\ state \in [tag : Address \cup {Nothing}, of : Address \cup {Nothing},
                  old : Address \cup {Nothing}]
    /\ \A a \in registered : object[a] \in InLists
    /\ \A a \in Address : object[a] = "tag" /\ a \notin missed => known[a] = "tag"
    /\ state.tag # Nothing => object[state.tag] = "tag"
    /\ state.tag # Nothing /\ state.of = Nothing =>
           state.old # Nothing /\ object[state.old] = "gone"
    /\ state.of # Nothing =>
           state.tag # Nothing /\ object[state.of] = "screen"
    /\ O!ObjectsAreKnown

LEMMA ObjectsStart == ObjectsAssumption /\ O!ObjectsInit => ObjectsInv
BY DEF ObjectsAssumption, O!ObjectsInit, ObjectsInv, O!ObjectsAreKnown,
       O!HandedOut, Kinds, InLists

LEMMA ObjectsStutter == ObjectsInv /\ UNCHANGED O!objectVars => ObjectsInv'
BY DEF ObjectsInv, O!objectVars, O!ObjectsAreKnown, O!HandedOut, O!Class

LEMMA ComesKeeps ==
  ASSUME ObjectsAssumption, ObjectsInv, NEW a \in Address,
         O!NewClient(a) \/ O!NewVirtualKeyboard(a) \/ O!LoadPlugin(a)
           \/ O!NewMap(a) \/ O!Bind(a)
  PROVE  ObjectsInv'
<1> USE DEF ObjectsAssumption, ObjectsInv, O!ObjectsAreKnown, O!HandedOut, O!Class,
        O!Known, O!Free, Kinds, InLists
<1>1. CASE O!NewClient(a)
  BY <1>1 DEF O!NewClient
<1>2. CASE O!NewVirtualKeyboard(a)
  BY <1>2 DEF O!NewVirtualKeyboard
<1>3. CASE O!LoadPlugin(a)
  BY <1>3 DEF O!LoadPlugin
<1>4. CASE O!NewMap(a)
  BY <1>4 DEF O!NewMap
<1>5. CASE O!Bind(a)
  BY <1>5 DEF O!Bind
<1> QED
  BY <1>1, <1>2, <1>3, <1>4, <1>5

LEMMA GoesKeeps ==
  ASSUME ObjectsAssumption, ObjectsInv, NEW a \in Address,
         O!DestroyClient(a) \/ O!DestroyVirtualKeyboard(a)
           \/ O!UnloadPlugin(a) \/ O!DestroyMap(a) \/ O!Clear(a)
  PROVE  ObjectsInv'
BY DEF ObjectsAssumption, ObjectsInv, O!ObjectsAreKnown, O!HandedOut, O!Class,
       O!Unknown, Kinds, InLists,
       O!DestroyClient, O!DestroyVirtualKeyboard, O!UnloadPlugin, O!DestroyMap, O!Clear

LEMMA SeatKeeps ==
  ASSUME ObjectsAssumption, ObjectsInv, NEW a \in Address, NEW b \in Address,
         O!NewSeat(a, b) \/ O!DestroySeat(a, b)
  PROVE  ObjectsInv'
<1> USE DEF ObjectsAssumption, ObjectsInv, O!ObjectsAreKnown, O!HandedOut, O!Class,
        O!Known, O!Unknown, O!Free, Kinds, InLists
<1>1. CASE O!NewSeat(a, b)
  BY <1>1 DEF O!NewSeat
<1>2. CASE O!DestroySeat(a, b)
  BY <1>2 DEF O!DestroySeat
<1> QED
  BY <1>1, <1>2

LEMMA UnplugKeeps ==
  ASSUME ObjectsAssumption, ObjectsInv, NEW a \in Address, O!Unplug(a)
  PROVE  ObjectsInv'
<1>1. PICK t \in Address : t = state.tag
  BY DEF ObjectsInv, ObjectsAssumption, O!Unplug
<1>2. /\ state.of = a /\ object[a] = "screen" /\ object[t] = "tag" /\ a # t
      /\ Nothing \notin Address \cup Kinds \cup {"kbindmap"}
  BY <1>1 DEF ObjectsInv, ObjectsAssumption, O!Unplug
<1>3. /\ object' \in [Address -> Kinds \cup {Nothing}] /\ object'[a] = "gone"
      /\ \A x \in Address \ {a} : object'[x] = object[x]
  BY DEF ObjectsInv, O!Unplug, Kinds
<1>4. /\ known' \in [Address -> Kinds \cup {"kbindmap", Nothing}] /\ known'[a] = Nothing
      /\ \A x \in Address \ {a} : known'[x] = known[x]
  BY DEF ObjectsInv, O!Unplug, O!Unknown
<1>5. registered' = registered \ {a, t} /\ missed' = missed
  BY <1>1 DEF O!Unplug
<1>6. state' = [tag |-> t, of |-> Nothing, old |-> a]
  BY <1>1 DEF ObjectsInv, O!Unplug
<1>7. /\ registered' \subseteq Address
      /\ state' \in [tag : Address \cup {Nothing}, of : Address \cup {Nothing},
                     old : Address \cup {Nothing}]
  BY <1>5, <1>6 DEF ObjectsInv
<1>8. \A x \in registered' : object'[x] \in InLists
  BY <1>3, <1>5 DEF ObjectsInv
<1>9. \A x \in Address : object'[x] = "tag" /\ x \notin missed' => known'[x] = "tag"
  BY <1>3, <1>4, <1>5 DEF ObjectsInv
<1>10. state'.tag = t /\ state'.of = Nothing /\ state'.old = a
  BY <1>6
<1>11. O!ObjectsAreKnown'
  <2> SUFFICES ASSUME NEW x \in Address
               PROVE  /\ known'[x] # Nothing => /\ object'[x] \notin {Nothing, "gone"}
                                               /\ known'[x] = O!Class(object'[x])
                      /\ x \in O!HandedOut' \ missed' => known'[x] = O!Class(object'[x])
    BY DEF O!ObjectsAreKnown, O!Class
  <2>1. CASE x = a
    BY <2>1, <1>3, <1>4, <1>5 DEF O!HandedOut
  <2>2. CASE x # a
    <3>1. object'[x] = object[x] /\ known'[x] = known[x]
      BY <2>2, <1>3, <1>4
    <3>2. x \in O!HandedOut' => x \in O!HandedOut
      BY <3>1, <1>5 DEF O!HandedOut
    <3> QED
      BY <3>1, <3>2, <1>5 DEF ObjectsInv, O!ObjectsAreKnown
  <2> QED
    BY <2>1, <2>2
<1> QED
  BY <1>2, <1>3, <1>4, <1>7, <1>8, <1>9, <1>10, <1>11 DEF ObjectsInv

LEMMA OutputKeeps ==
  ASSUME ObjectsAssumption, ObjectsInv, NEW a \in Address, NEW b \in Address,
         O!Plug(a, b) \/ O!Unplug(a)
  PROVE  ObjectsInv'
<1> USE DEF ObjectsAssumption, ObjectsInv, O!ObjectsAreKnown, O!HandedOut, O!Class,
        O!Known, O!Unknown, O!Free, Kinds, InLists
<1>1. CASE O!Plug(a, b) /\ state.tag = Nothing
  BY <1>1 DEF O!Plug
<1>2. CASE O!Plug(a, b) /\ state.tag # Nothing
  BY <1>2 DEF O!Plug
<1>3. CASE O!Unplug(a)
  BY <1>3, UnplugKeeps
<1> QED
  BY <1>1, <1>2, <1>3

LEMMA ReloadKeeps == ASSUME ObjectsAssumption, ObjectsInv, O!Reload PROVE ObjectsInv'
BY DEF ObjectsAssumption, ObjectsInv, O!ObjectsAreKnown, O!HandedOut, O!Class,
       O!Destroyed, O!Walked, O!Reregistered, Kinds, InLists, O!Reload

LEMMA ObjectsStep == ObjectsAssumption /\ ObjectsInv /\ O!ObjectsNext => ObjectsInv'
BY ComesKeeps, GoesKeeps, SeatKeeps, OutputKeeps, ReloadKeeps DEF O!ObjectsNext

(***************************************************************************)
(* The satellite                                                           *)
(***************************************************************************)

CONSTANTS LastDisplay

VARIABLES lock, file, server, process

X == INSTANCE Satellite

SatelliteAssumption == LastDisplay \in Nat

Owner3 == {"none", "other", "ours"}

(* What the fields hold.                                                   *)
SatelliteType ==
    /\ lock \in [X!Display -> Owner3]
    /\ file \in [X!Display -> Owner3]
    /\ server \in [phase : {"new", "up", "down"}, display : X!Display \cup {X!NoDisplay},
                   sources : SUBSET X!Socket, pid : BOOLEAN, exit : BOOLEAN,
                   failed : BOOLEAN]
    /\ process \in {"none", "running", "zombie", "reaped"}

(* The locks that are held are those of the display on offer.              *)
LocksAreOffered ==
    /\ \A d \in X!Display : (lock[d] = "ours") = (d = server.display)
    /\ server.display # X!NoDisplay => file[server.display] = "ours"

(* Either the sockets are watched or the process that has them.            *)
SocketsAreWatched ==
    /\ server.display # X!NoDisplay /\ ~server.failed =>
          IF server.pid THEN server.exit /\ server.sources = {}
          ELSE ~server.exit /\ server.sources = X!Socket
    /\ server.pid => process # "none"
    /\ ~server.pid => process = "none"

SatelliteInv ==
    /\ SatelliteType /\ LocksAreOffered /\ SocketsAreWatched
    /\ server.phase = "new" => server.display = X!NoDisplay /\ ~server.pid

LEMMA SatelliteImplies == SatelliteInv => X!SatelliteIsWatched
<1> SUFFICES ASSUME SatelliteInv PROVE X!SatelliteIsWatched
  OBVIOUS
<1>1. {d \in X!Display : lock[d] = "ours"} = {server.display} \cap X!Display
  BY DEF SatelliteInv, SatelliteType, LocksAreOffered, SocketsAreWatched
<1>2. (process # "none") = server.pid
  BY DEF SatelliteInv, SatelliteType, LocksAreOffered, SocketsAreWatched
<1> QED
  BY <1>1, <1>2 DEF SatelliteInv, LocksAreOffered, SocketsAreWatched, X!SatelliteIsWatched

LEMMA SatelliteStart == SatelliteAssumption /\ X!SatelliteInit => SatelliteInv
BY DEF SatelliteAssumption, X!SatelliteInit, SatelliteInv, SatelliteType, LocksAreOffered, SocketsAreWatched,
       X!Closed, X!NoDisplay, X!Display, X!Socket, Owner3

LEMMA SatelliteStutter == SatelliteInv /\ UNCHANGED X!satelliteVars => SatelliteInv'
BY DEF X!satelliteVars, SatelliteInv, SatelliteType, LocksAreOffered, SocketsAreWatched, X!NoDisplay

(* The display that is taken is the first of those that can be had.        *)
LEMMA FirstIsGood ==
  ASSUME SatelliteAssumption, NEW good \in SUBSET X!Display, good # {}
  PROVE  (CHOOSE n \in good : \A e \in good : n <= e) \in good
<1>1. good \subseteq Nat
  BY DEF X!Display, SatelliteAssumption
<1>2. \E n \in good : \A e \in good : n <= e
  BY <1>1, FirstPlace
<1> QED
  BY <1>2

LEMMA SatelliteStep == SatelliteAssumption /\ SatelliteInv /\ X!SatelliteNext => SatelliteInv'
<1> SUFFICES ASSUME SatelliteAssumption, SatelliteInv, X!SatelliteNext PROVE SatelliteInv'
  OBVIOUS
<1> USE DEF SatelliteInv, SatelliteType, LocksAreOffered, SocketsAreWatched,
           X!Socket, Owner3
<1>d. X!NoDisplay \notin X!Display
  BY DEF SatelliteAssumption, X!NoDisplay, X!Display
<1>1. CASE X!SkipIntegration
  BY <1>1, <1>d DEF X!SkipIntegration, X!Closed
<1>2. CASE X!SatelliteStart
  <2>1. PICK good \in SUBSET {d \in X!Display : lock[d] = "none"} : X!OpenX11Sockets(good)
    BY <1>2 DEF X!SatelliteStart
  <2>2. /\ server.phase = "new" /\ process' = process /\ ~server.pid /\ process = "none"
        /\ \A d \in X!Display : lock[d] # "ours"
    BY <1>d, <1>2 DEF X!SatelliteStart
  <2>3. CASE good = {}
    <3>1. /\ file' \in [X!Display -> Owner3] /\ lock' = lock
          /\ server' = [X!Closed EXCEPT !.phase = "up"]
      BY <2>1, <2>3 DEF X!OpenX11Sockets, X!Left
    <3>2. server' = [phase |-> "up", display |-> X!NoDisplay, sources |-> {}, pid |-> FALSE,
                     exit |-> FALSE, failed |-> FALSE]
      BY <3>1 DEF X!Closed
    <3>3. server' \in [phase : {"new", "up", "down"}, display : X!Display \cup {X!NoDisplay},
                       sources : SUBSET X!Socket, pid : BOOLEAN, exit : BOOLEAN,
                       failed : BOOLEAN]
      BY <3>2
    <3>4. server'.phase = "up" /\ server'.display = X!NoDisplay /\ ~server'.pid
      BY <3>2
    <3> QED
      BY <1>d, <2>2, <3>1, <3>3, <3>4
  <2>4. CASE good # {}
    <3> DEFINE d == CHOOSE n \in good : \A e \in good : n <= e
    <3>1. d \in good
      BY <2>4, FirstIsGood
    <3> HIDE DEF d
    <3>2. /\ \E kept \in [X!Display -> Owner3] : file' = [kept EXCEPT ![d] = "ours"]
          /\ lock' = [lock EXCEPT ![d] = "ours"]
          /\ \E watched \in SUBSET X!Socket :
                server' = [X!Closed EXCEPT !.phase = "up", !.display = d,
                               !.sources = watched, !.failed = (watched # X!Socket)]
      BY <2>1, <2>4, Zenon DEF X!OpenX11Sockets, X!Left, d, X!Display, Owner3
    <3>3. PICK watched \in SUBSET X!Socket :
             server' = [X!Closed EXCEPT !.phase = "up", !.display = d,
                            !.sources = watched, !.failed = (watched # X!Socket)]
      BY <3>2
    <3> DEFINE bad == watched # X!Socket
    <3>4. server' = [phase |-> "up", display |-> d, sources |-> watched, pid |-> FALSE,
                     exit |-> FALSE, failed |-> bad]
      BY <3>3 DEF X!Closed
    <3>5. bad \in BOOLEAN /\ (~bad => watched = X!Socket)
      OBVIOUS
    <3> HIDE DEF bad
    <3>a. /\ d \in X!Display /\ d # X!NoDisplay
          /\ lock' \in [X!Display -> Owner3] /\ file' \in [X!Display -> Owner3]
          /\ file'[d] = "ours" /\ \A x \in X!Display : (lock'[x] = "ours") = (x = d)
      <4>1. d \in X!Display /\ d # X!NoDisplay
        BY <1>d, <3>1
      <4>2. PICK kept \in [X!Display -> Owner3] : file' = [kept EXCEPT ![d] = "ours"]
        BY <3>2
      <4>3. file' \in [X!Display -> Owner3] /\ file'[d] = "ours"
        BY <4>1, <4>2
      <4>4. lock \in [X!Display -> Owner3] /\ lock' = [lock EXCEPT ![d] = "ours"]
        BY <3>2
      <4>5. lock' \in [X!Display -> Owner3]
        BY <4>1, <4>4
      <4>6. ASSUME NEW x \in X!Display PROVE (lock'[x] = "ours") = (x = d)
        BY <2>2, <4>1, <4>4
      <4> QED
        BY <4>1, <4>3, <4>5, <4>6
    <3>b. /\ server'.phase = "up" /\ server'.display = d /\ server'.sources = watched
          /\ ~server'.pid /\ ~server'.exit /\ server'.failed = bad
      BY <3>4, <3>5
    <3>6. SatelliteType'
      <4>1. server' \in [phase : {"new", "up", "down"}, display : X!Display \cup {X!NoDisplay},
                         sources : SUBSET X!Socket, pid : BOOLEAN, exit : BOOLEAN,
                         failed : BOOLEAN]
        BY <3>4, <3>5, <3>a
      <4> QED
        BY <2>2, <3>a, <4>1
    <3>7. LocksAreOffered'
      BY <3>a, <3>b
    <3>8. SocketsAreWatched'
      BY <2>2, <3>a, <3>b, <3>5
    <3>9. server'.phase # "new"
      BY <3>b
    <3> QED
      BY <3>6, <3>7, <3>8, <3>9
  <2> QED
    BY <2>3, <2>4
<1>3. CASE X!OnX11SocketFd
  <2>1. /\ server.phase = "up" /\ ~server.pid /\ lock' = lock /\ file' = file
        /\ \/ /\ server' = [server EXCEPT !.sources = {}, !.pid = TRUE, !.exit = TRUE]
              /\ process' = "running"
           \/ /\ server' = [server EXCEPT !.sources = {}, !.failed = TRUE]
              /\ process' = "none"
    BY <1>3 DEF X!OnX11SocketFd
  <2>2. CASE process' = "running"
    <3>1. server' = [server EXCEPT !.sources = {}, !.pid = TRUE, !.exit = TRUE]
      BY <2>1, <2>2
    <3>2. server' \in [phase : {"new", "up", "down"}, display : X!Display \cup {X!NoDisplay},
                       sources : SUBSET X!Socket, pid : BOOLEAN, exit : BOOLEAN,
                       failed : BOOLEAN]
      BY <3>1
    <3>3. /\ server'.phase = "up" /\ server'.display = server.display
          /\ server'.sources = {} /\ server'.pid /\ server'.exit
      BY <2>1, <3>1
    <3> QED
      BY <2>1, <2>2, <3>2, <3>3
  <2>3. CASE process' = "none"
    <3>1. server' = [server EXCEPT !.sources = {}, !.failed = TRUE]
      BY <2>1, <2>3
    <3>2. server' \in [phase : {"new", "up", "down"}, display : X!Display \cup {X!NoDisplay},
                       sources : SUBSET X!Socket, pid : BOOLEAN, exit : BOOLEAN,
                       failed : BOOLEAN]
      BY <3>1
    <3>3. /\ server'.phase = "up" /\ server'.display = server.display
          /\ ~server'.pid /\ server'.failed
      BY <2>1, <3>1
    <3> QED
      BY <2>1, <2>3, <3>2, <3>3
  <2> QED
    BY <2>1, <2>2, <2>3
<1>4. CASE X!Die \/ X!ReapedElsewhere
  BY <1>4 DEF X!Die, X!ReapedElsewhere
<1>5. CASE X!OnExit
  <2>1. PICK watched \in SUBSET X!Socket :
           server' = [server EXCEPT !.exit = FALSE, !.pid = FALSE, !.sources = watched,
                                    !.failed = @ \/ watched # X!Socket]
    BY <1>5 DEF X!OnExit
  <2> DEFINE bad == server.failed \/ watched # X!Socket
  <2>2. server' = [phase |-> server.phase, display |-> server.display, sources |-> watched,
                   pid |-> FALSE, exit |-> FALSE, failed |-> bad]
    BY <2>1
  <2>3. bad \in BOOLEAN /\ (~bad => watched = X!Socket)
    OBVIOUS
  <2> HIDE DEF bad
  <2> QED
    BY <1>5, <2>2, <2>3 DEF X!OnExit
<1>6. CASE X!SatelliteEnd
  <2>1. server' = [phase |-> "down", display |-> X!NoDisplay, sources |-> {},
                   pid |-> FALSE, exit |-> FALSE, failed |-> FALSE]
    BY <1>6 DEF X!SatelliteEnd, X!Closed
  <2>2. process' = "none"
    BY <1>6 DEF X!SatelliteEnd
  <2>3. /\ lock' \in [X!Display -> Owner3] /\ file' \in [X!Display -> Owner3]
        /\ \A d \in X!Display : lock'[d] # "ours"
    <3>1. CASE server.display = X!NoDisplay
      BY <1>6, <1>d, <3>1 DEF X!SatelliteEnd
    <3>2. CASE server.display # X!NoDisplay
      BY <1>6, <3>2 DEF X!SatelliteEnd
    <3> QED
      BY <3>1, <3>2
  <2>4. server'.display \in X!Display \cup {X!NoDisplay} /\ server'.sources \subseteq X!Socket
    BY <2>1
  <2>5. SatelliteType'
    BY <2>1, <2>2, <2>3, <2>4
  <2>6. LocksAreOffered' /\ SocketsAreWatched' /\ server'.phase = "down"
    BY <1>d, <2>1, <2>2, <2>3
  <2> QED
    BY <2>5, <2>6
<1>7. ASSUME NEW d \in X!Display, X!Others(d) PROVE SatelliteInv'
  BY <1>7 DEF X!Others
<1> QED
  BY <1>1, <1>2, <1>3, <1>4, <1>5, <1>6, <1>7 DEF X!SatelliteNext

(***************************************************************************)
(* Questions and answers                                                   *)
(***************************************************************************)

CONSTANTS Ctl, Chunk, MaxQueue, Nobody

VARIABLES listening, conn, up, down, ctl, busy, left, astray

Q == INSTANCE Ipc WITH server <- listening

ChunkKinds == {"nothing", "value", "error", "mute", "long", "huge"}
AnswerParts == {"message", "head", "tail", "echo", "text", "empty"}

(* A chunk is of one of the kinds, and NULL is no client.                  *)
IpcAssumption == Chunk \in [Ctl -> SUBSET ChunkKinds] /\ Nobody \notin Ctl

IpcType ==
    /\ conn \in [Ctl -> {"none", "queued", "open", "shut"}]
    /\ up \in [Ctl -> Seq(ChunkKinds)]
    /\ down \in [Ctl -> Seq(AnswerParts)]
    /\ ctl \in [Ctl -> [at : {"away", "prompt", "waiting", "spinning"},
                        asked : ChunkKinds \cup {"none"},
                        shown : AnswerParts \cup {"none", "long", "mixed", "garbled"}]]
    /\ busy \in [to : Ctl \cup {Nobody}, rest : Seq(AnswerParts)]
    /\ busy.to = Nobody => busy = Q!NotBusy
    /\ astray \in [Ctl -> BOOLEAN]

(***************************************************************************)
(* What is known of the client c, of whose connection these are the end,   *)
(* the two ways and the state k, while b is evaluated.  One that waits has *)
(* one question, or the evaluation of it, or one answer to it under way,   *)
(* unless it was led astray.                                               *)
(***************************************************************************)
UnderWay(c, u, d, k, b) ==
    \/ u = <<k.asked>> /\ d = <<>> /\ b.to # c
    \/ u = <<>> /\ d = <<>> /\ b.to = c /\ b.rest = <<Q!Expected(k.asked)>>
    \/ u = <<>> /\ d = <<Q!Expected(k.asked)>> /\ b.to # c

Straight(c, u, d, k, b) ==
    \/ /\ k.at = "prompt" /\ u = <<>> /\ d = <<>> /\ b.to # c
       /\ k.shown \in {"none", Q!Expected(k.asked)}
    \/ /\ k.at \in {"waiting", "spinning"} /\ k.shown = "none"
       /\ k.asked \in {"nothing", "value", "error"} \/ u # <<>>
       /\ UnderWay(c, u, d, k, b)

Fine(c, end, u, d, k, b, a) ==
    /\ k.at = "away" => k = Q!Away
    /\ end = "none" => k.at = "away" /\ u = <<>> /\ d = <<>>
    /\ b.to = c => end = "open"
    /\ ~a /\ k.at # "away" => Straight(c, u, d, k, b)

IpcInv ==
    /\ IpcType
    /\ \A c \in Ctl : Fine(c, conn[c], up[c], down[c], ctl[c], busy, astray[c])

LEMMA IpcImplies == IpcAssumption /\ IpcInv => Q!QuestionsAreAnswered
<1> SUFFICES ASSUME IpcAssumption, IpcInv, NEW c \in Ctl
             PROVE  /\ ctl[c].at = "waiting" /\ conn[c] # "shut" =>
                         up[c] # <<>> \/ busy.to = c \/ down[c] # <<>> \/ astray[c]
                    /\ ctl[c].shown # "none" /\ ~astray[c] =>
                         ctl[c].shown = Q!Expected(ctl[c].asked)
  BY DEF Q!QuestionsAreAnswered
<1>1. Fine(c, conn[c], up[c], down[c], ctl[c], busy, astray[c])
  BY DEF IpcInv
<1>2. astray[c] \in BOOLEAN
  BY DEF IpcInv, IpcType
<1>3. CASE ctl[c].at = "away"
  BY <1>1, <1>3 DEF Fine, Q!Away
<1>4. CASE ctl[c].at # "away" /\ ~astray[c]
  <2>1. Straight(c, up[c], down[c], ctl[c], busy)
    BY <1>1, <1>4 DEF Fine
  <2>2. \A x : <<x>> # <<>>
    OBVIOUS
  <2> QED
    BY <2>1, <2>2 DEF Straight, UnderWay
<1>5. CASE ctl[c].at # "away" /\ astray[c]
  BY <1>5
<1> QED
  BY <1>2, <1>3, <1>4, <1>5

LEMMA IpcStart == IpcAssumption /\ Q!IpcInit => IpcInv
BY DEF IpcAssumption, Q!IpcInit, IpcInv, IpcType, Fine, Q!NotBusy, Q!Away

LEMMA IpcStutter == IpcInv /\ UNCHANGED Q!ipcVars => IpcInv'
BY DEF IpcInv, IpcType, Q!ipcVars

(* A step of which the others see nothing.                                 *)
LEMMA OneSteps ==
  ASSUME IpcInv, IpcType', NEW c \in Ctl,
         \A e \in Ctl : e # c =>
             /\ conn'[e] = conn[e] /\ up'[e] = up[e] /\ down'[e] = down[e]
             /\ ctl'[e] = ctl[e] /\ astray'[e] = astray[e],
         \/ busy' = busy
         \/ busy.to \in {c, Nobody} /\ busy'.to \in {c, Nobody},
         Nobody \notin Ctl,
         Fine(c, conn'[c], up'[c], down'[c], ctl'[c], busy', astray'[c])
  PROVE  IpcInv'
<1> SUFFICES ASSUME NEW e \in Ctl, e # c
             PROVE  Fine(e, conn'[e], up'[e], down'[e], ctl'[e], busy', astray'[e])
  BY DEF IpcInv
<1>1. Fine(e, conn[e], up[e], down[e], ctl[e], busy, astray[e])
  BY DEF IpcInv
<1>2. busy' = busy \/ (busy.to # e /\ busy'.to # e)
  OBVIOUS
<1> QED
  BY <1>1, <1>2 DEF Fine, Straight, UnderWay

LEMMA OneElement ==
  ASSUME NEW K, NEW x \in K
  PROVE  /\ <<x>> \in Seq(K) /\ <<x>> # <<>> /\ Len(<<x>>) = 1 /\ Head(<<x>>) = x
         /\ Tail(<<x>>) = <<>> /\ Append(<<>>, x) = <<x>>
         /\ SubSeq(<<x>>, 1, 1) = <<x>> /\ SubSeq(<<x>>, 2, 1) = <<>>
<1>1. /\ <<x>> \in Seq(K) /\ <<x>> # <<>> /\ Len(<<x>>) = 1 /\ Head(<<x>>) = x
      /\ Len(<<>>) = 0
  OBVIOUS
<1>2. Tail(<<x>>) = <<>>
  OBVIOUS
<1>3. Append(<<>>, x) = <<x>>
  OBVIOUS
<1>4. SubSeq(<<x>>, 1, 1) = <<x>>
  BY <1>1, SubSeqFull
<1>5. SubSeq(<<x>>, 2, 1) = <<>>
  BY <1>1
<1> QED
  BY <1>1, <1>2, <1>3, <1>4, <1>5

LEMMA OfOne == ASSUME IpcInv, NEW c \in Ctl
               PROVE  /\ Fine(c, conn[c], up[c], down[c], ctl[c], busy, astray[c])
                      /\ conn[c] \in {"none", "queued", "open", "shut"}
                      /\ up[c] \in Seq(ChunkKinds) /\ down[c] \in Seq(AnswerParts)
                      /\ ctl[c] \in [at : {"away", "prompt", "waiting", "spinning"},
                            asked : ChunkKinds \cup {"none"},
                            shown : AnswerParts \cup {"none", "long", "mixed", "garbled"}]
                      /\ astray[c] \in BOOLEAN
BY DEF IpcInv, IpcType

LEMMA CtlConnectKeeps ==
  ASSUME IpcAssumption, IpcInv, NEW c \in Ctl, Q!Connect(c) PROVE IpcInv'
<1>0. /\ conn' = [conn EXCEPT ![c] = "queued"] /\ ctl' = [ctl EXCEPT ![c].at = "prompt"]
      /\ astray' = [astray EXCEPT ![c] = FALSE] /\ up' = up /\ down' = down /\ busy' = busy
  BY DEF Q!Connect
<1>1. IpcType'
  <2>1. /\ conn' \in [Ctl -> {"none", "queued", "open", "shut"}]
        /\ astray' \in [Ctl -> BOOLEAN]
    BY <1>0 DEF IpcInv, IpcType
  <2>2. [ctl[c] EXCEPT !.at = "prompt"]
          \in [at : {"away", "prompt", "waiting", "spinning"},
               asked : ChunkKinds \cup {"none"},
               shown : AnswerParts \cup {"none", "long", "mixed", "garbled"}]
    BY OfOne
  <2>3. ctl' = [ctl EXCEPT ![c] = [ctl[c] EXCEPT !.at = "prompt"]]
    BY <1>0
  <2>4. ctl' \in [Ctl -> [at : {"away", "prompt", "waiting", "spinning"},
                         asked : ChunkKinds \cup {"none"},
                         shown : AnswerParts \cup {"none", "long", "mixed", "garbled"}]]
    BY <2>2, <2>3 DEF IpcInv, IpcType
  <2> QED
    BY <1>0, <2>1, <2>4 DEF IpcInv, IpcType
<1>2. ctl'[c] = [at |-> "prompt", asked |-> "none", shown |-> "none"]
  <2>1. ctl[c] = Q!Away
    BY OfOne DEF Q!Connect, Fine
  <2>2. ctl'[c] = [ctl[c] EXCEPT !.at = "prompt"]
    BY <1>0 DEF IpcInv, IpcType
  <2> QED
    BY <2>1, <2>2 DEF Q!Away
<1>3. Fine(c, conn'[c], up'[c], down'[c], ctl'[c], busy', astray'[c])
  <2>1. conn[c] = "none" /\ Fine(c, conn[c], up[c], down[c], ctl[c], busy, astray[c])
    BY OfOne DEF Q!Connect
  <2>2. up[c] = <<>> /\ down[c] = <<>> /\ busy.to # c
    BY <2>1 DEF Fine
  <2>3. /\ ctl'[c].at = "prompt" /\ ctl'[c].shown = "none"
        /\ conn'[c] = "queued" /\ up'[c] = <<>> /\ down'[c] = <<>> /\ busy'.to # c
    BY <1>0, <1>2, <2>2 DEF IpcInv, IpcType
  <2>4. Straight(c, up'[c], down'[c], ctl'[c], busy')
    BY <2>3 DEF Straight
  <2> QED
    BY <2>3, <2>4 DEF Fine
<1>4. \A e \in Ctl : e # c =>
         /\ conn'[e] = conn[e] /\ up'[e] = up[e] /\ down'[e] = down[e]
         /\ ctl'[e] = ctl[e] /\ astray'[e] = astray[e]
  BY <1>0 DEF IpcInv, IpcType
<1>5. Nobody \notin Ctl /\ busy' = busy
  BY <1>0 DEF IpcAssumption
<1> QED
  BY <1>1, <1>3, <1>4, <1>5, OneSteps

LEMMA OnNewConnKeeps ==
  ASSUME IpcAssumption, IpcInv, NEW c \in Ctl, Q!OnNewConn(c) PROVE IpcInv'
<1> USE DEF IpcAssumption, IpcInv, IpcType
<1>1. IpcType'
  BY DEF Q!OnNewConn
<1>2. busy.to # c
  BY DEF Q!OnNewConn, Q!NotBusy
<1>3. Fine(c, conn'[c], up'[c], down'[c], ctl'[c], busy', astray'[c])
  BY <1>2, OfOne DEF Q!OnNewConn, Fine
<1> QED
  BY <1>1, <1>3, OneSteps DEF Q!OnNewConn

LEMMA AskKeeps ==
  ASSUME IpcAssumption, IpcInv, NEW c \in Ctl, NEW chunk \in Chunk[c], Q!Ask(c, chunk)
  PROVE  IpcInv'
<1>k. chunk \in ChunkKinds
  BY DEF IpcAssumption
<1>1. CASE conn[c] = "shut"
  <2>0. /\ ctl' = [ctl EXCEPT ![c] = Q!Away]
        /\ UNCHANGED <<conn, up, down, busy, astray>>
    BY <1>1 DEF Q!Ask
  <2>1. IpcType'
    BY <2>0 DEF IpcInv, IpcType, Q!Away
  <2>c. ctl'[c] = Q!Away
    BY <2>0 DEF IpcInv, IpcType
  <2>2. Fine(c, conn'[c], up'[c], down'[c], ctl'[c], busy', astray'[c])
    BY <1>1, <2>0, <2>c, OfOne DEF Fine, Q!Away
  <2>3. \A e \in Ctl : e # c => ctl'[e] = ctl[e]
    BY <2>0 DEF IpcInv, IpcType
  <2> QED
    BY <2>0, <2>1, <2>2, <2>3, OneSteps DEF IpcAssumption
<1>2. CASE conn[c] # "shut"
  <2> DEFINE k == [at |-> "waiting", asked |-> chunk, shown |-> "none"]
             u == Append(up[c], chunk)
  <2>0. /\ ctl' = [ctl EXCEPT ![c] = k] /\ up' = [up EXCEPT ![c] = u]
        /\ UNCHANGED <<conn, down, busy, astray>> /\ ctl[c].at = "prompt"
    BY <1>2 DEF Q!Ask
  <2>1. /\ u \in Seq(ChunkKinds)
        /\ up[c] = <<>> => u = <<chunk>> /\ u # <<>>
    <3>1. PICK s \in Seq(ChunkKinds) : s = up[c]
      BY OfOne
    <3>3. Append(s, chunk) \in Seq(ChunkKinds)
      BY <1>k
    <3>2. Append(<<>>, chunk) = <<chunk>> /\ <<chunk>> # <<>>
      BY <1>k, OneElement
    <3> QED
      BY <3>1, <3>2, <3>3
  <2> HIDE DEF u
  <2>2. IpcType'
    BY <1>k, <2>0, <2>1 DEF IpcInv, IpcType
  <2>c. ctl'[c] = k /\ up'[c] = u
    BY <2>0 DEF IpcInv, IpcType
  <2>3. Fine(c, conn'[c], up'[c], down'[c], ctl'[c], busy', astray'[c])
    BY <2>0, <2>1, <2>c, OfOne DEF Fine, Straight, UnderWay
  <2>4. \A e \in Ctl : e # c => ctl'[e] = ctl[e] /\ up'[e] = up[e]
    BY <2>0 DEF IpcInv, IpcType
  <2> QED
    BY <2>0, <2>2, <2>3, <2>4, OneSteps DEF IpcAssumption
<1> QED
  BY <1>1, <1>2

(* The answer to a chunk that is answered in one part is the expected one. *)
LEMMA Responses ==
  ASSUME NEW chunk \in ChunkKinds, NEW r \in Q!Response(chunk)
  PROVE  /\ r \in Seq(AnswerParts)
         /\ chunk \notin {"mute", "long", "huge"} => r = <<Q!Expected(chunk)>>
<1> USE DEF ChunkKinds, Q!Response, Q!Answers, Q!Returns
<1>1. CASE chunk \notin {"mute", "long", "huge"}
  <2>1. r = <<Q!Expected(chunk)>> /\ Q!Expected(chunk) \in AnswerParts
    BY <1>1 DEF AnswerParts, Q!Expected
  <2> QED
    BY <2>1, <1>1
<1>2. CASE chunk \in {"mute", "huge"}
  <2>1. r = <<>> \/ r = <<"echo">>
    BY <1>2
  <2>2. <<>> \in Seq(AnswerParts) /\ <<"echo">> \in Seq(AnswerParts)
    BY OneElement DEF AnswerParts
  <2> QED
    BY <1>2, <2>1, <2>2
<1>3. CASE chunk = "long"
  <2>1. r = <<"head", "tail">>
    BY <1>3
  <2>2. "head" \in AnswerParts /\ "tail" \in AnswerParts
    BY DEF AnswerParts
  <2>3. \A x, y \in AnswerParts : <<x, y>> \in Seq(AnswerParts)
    OBVIOUS
  <2> QED
    BY <1>3, <2>1, <2>2, <2>3
<1> QED
  BY <1>1, <1>2, <1>3

LEMMA HandleEvalKeeps ==
  ASSUME IpcAssumption, IpcInv, NEW c \in Ctl, Q!HandleEval(c) PROVE IpcInv'
<1> DEFINE said == IF Len(up[c]) = 1 THEN Head(up[c]) ELSE "error"
<1>0. /\ busy = Q!NotBusy /\ conn[c] = "open" /\ ctl[c].at # "away" /\ up[c] # <<>>
      /\ \E r \in Q!Response(said) : busy' = [to |-> c, rest |-> r]
      /\ astray' = [astray EXCEPT ![c] = @ \/ said \in {"mute", "long", "huge"}]
      /\ up' = [up EXCEPT ![c] = <<>>]
      /\ UNCHANGED <<conn, down, ctl>>
  BY DEF Q!HandleEval
<1>1. PICK chunk : chunk = said
  OBVIOUS
<1>2. /\ chunk \in ChunkKinds
      /\ \A k : k \in ChunkKinds /\ up[c] = <<k>> => chunk = k
  <2>1. up[c] \in Seq(ChunkKinds) /\ up[c] # <<>>
    BY <1>0, OfOne
  <2>2. \A k \in ChunkKinds : Len(<<k>>) = 1 /\ Head(<<k>>) = k
    BY OneElement
  <2>3. Head(up[c]) \in ChunkKinds
    BY <2>1
  <2> QED
    BY <1>1, <2>2, <2>3 DEF ChunkKinds
<1>3. PICK r \in Q!Response(chunk) : busy' = [to |-> c, rest |-> r]
  BY <1>0, <1>1
<1>4. /\ r \in Seq(AnswerParts)
      /\ chunk \notin {"mute", "long", "huge"} => r = <<Q!Expected(chunk)>>
  BY <1>2, <1>3, Responses
<1>5. PICK wrong \in BOOLEAN : /\ astray' = [astray EXCEPT ![c] = wrong]
                               /\ ~wrong => ~astray[c] /\ chunk \notin {"mute", "long", "huge"}
  BY <1>0, <1>1, OfOne
<1>6. IpcType'
  BY <1>0, <1>3, <1>4, <1>5 DEF IpcInv, IpcType, IpcAssumption
<1>7. up'[c] = <<>> /\ astray'[c] = wrong /\ busy.to = Nobody /\ Nobody # c
  BY <1>0, <1>5 DEF IpcInv, IpcType, Q!NotBusy, IpcAssumption
<1>8. ASSUME ~wrong PROVE Straight(c, up'[c], down'[c], ctl'[c], busy')
  <2>1. Straight(c, up[c], down[c], ctl[c], busy)
    BY <1>0, <1>5, <1>8, OfOne DEF Fine
  <2>2. /\ ctl[c].at \in {"waiting", "spinning"} /\ ctl[c].shown = "none"
        /\ up[c] = <<ctl[c].asked>> /\ down[c] = <<>>
    BY <1>0, <1>7, <2>1 DEF Straight, UnderWay
  <2>k. ctl[c].asked \in ChunkKinds
    <3>1. ctl[c].asked \in ChunkKinds \cup {"none"} /\ up[c] \in Seq(ChunkKinds)
      BY OfOne
    <3>2. Len(<<ctl[c].asked>>) = 1 /\ <<ctl[c].asked>>[1] = ctl[c].asked
      OBVIOUS
    <3>3. up[c][1] \in ChunkKinds
      BY <2>2, <3>1, <3>2
    <3> QED
      BY <2>2, <3>2, <3>3
  <2>3. chunk = ctl[c].asked
    BY <1>2, <2>2, <2>k
  <2>4. r = <<Q!Expected(ctl[c].asked)>> /\ ctl[c].asked \in {"nothing", "value", "error"}
    BY <1>2, <1>4, <1>5, <1>8, <2>3 DEF ChunkKinds
  <2>5. UnderWay(c, up'[c], down'[c], ctl'[c], busy')
    BY <1>0, <1>3, <1>7, <2>2, <2>4 DEF UnderWay
  <2> QED
    BY <1>0, <2>2, <2>4, <2>5 DEF Straight
<1>9. Fine(c, conn'[c], up'[c], down'[c], ctl'[c], busy', astray'[c])
  BY <1>0, <1>7, <1>8 DEF Fine
<1>10. \A e \in Ctl : e # c => up'[e] = up[e] /\ astray'[e] = astray[e]
  BY <1>0, <1>5 DEF IpcInv, IpcType
<1> QED
  BY <1>0, <1>3, <1>6, <1>7, <1>9, <1>10, OneSteps DEF IpcAssumption

(* All connections are shut at once, for a crash or for the end.           *)
LEMMA ShutKeeps ==
  ASSUME IpcAssumption, IpcInv,
         conn' = [c \in Ctl |-> IF conn[c] = "none" THEN "none" ELSE "shut"],
         busy' = Q!NotBusy, UNCHANGED <<up, down, ctl, astray>>,
         busy = Q!NotBusy \/ ctl[busy.to].at = "away"
  PROVE  IpcInv'
<1>1. IpcType'
  BY DEF IpcInv, IpcType, Q!NotBusy
<1>2. ASSUME NEW c \in Ctl
      PROVE  Fine(c, conn'[c], up'[c], down'[c], ctl'[c], busy', astray'[c])
  <2>1. /\ conn'[c] \in {"none", "shut"} /\ (conn'[c] = "none") = (conn[c] = "none")
        /\ busy'.to # c
    BY DEF IpcAssumption, Q!NotBusy
  <2>2. ctl[c].at = "away" \/ busy.to # c
    BY DEF IpcAssumption, Q!NotBusy
  <2> QED
    BY <2>1, <2>2, OfOne DEF Fine, Straight, UnderWay
<1> QED
  BY <1>1, <1>2 DEF IpcInv

LEMMA SendResponseKeeps ==
  ASSUME IpcAssumption, IpcInv, Q!SendResponse PROVE IpcInv'
<1>0. busy # Q!NotBusy /\ UNCHANGED <<up, ctl, astray>>
  BY DEF Q!SendResponse
<1>1. PICK c \in Ctl : c = busy.to
  BY <1>0 DEF IpcInv, IpcType
<1>b. /\ busy.rest \in Seq(AnswerParts) /\ busy = [to |-> c, rest |-> busy.rest]
      /\ Q!NotBusy \in [to : Ctl \cup {Nobody}, rest : Seq(AnswerParts)]
      /\ Q!NotBusy.to = Nobody /\ Nobody # c
  BY <1>1 DEF IpcInv, IpcType, IpcAssumption, Q!NotBusy
<1>2. CASE busy' = Q!NotBusy /\ UNCHANGED <<conn, down>>
           /\ (ctl[c].at = "away" \/ busy.rest = <<>>)
  <2>1. IpcType'
    BY <1>0, <1>2, <1>b DEF IpcInv, IpcType
  <2>2. ctl[c].at # "away" => astray[c]
    BY <1>1, <1>2, OfOne, <1>b DEF Fine, Straight, UnderWay
  <2>3. Fine(c, conn'[c], up'[c], down'[c], ctl'[c], busy', astray'[c])
    BY <1>0, <1>2, <1>b, <2>2, OfOne DEF Fine
  <2> QED
    BY <1>0, <1>1, <1>2, <1>b, <2>1, <2>3, OneSteps DEF IpcAssumption
<1>3. CASE Q!Crash /\ ctl[c].at = "away" /\ UNCHANGED down
  BY <1>0, <1>1, <1>3, ShutKeeps DEF Q!Crash
<1>4. CASE /\ down' = [down EXCEPT ![c] = Append(@, Head(busy.rest))]
           /\ busy' = IF Tail(busy.rest) = <<>> THEN Q!NotBusy
                      ELSE [busy EXCEPT !.rest = Tail(busy.rest)]
           /\ UNCHANGED conn
           /\ busy.rest # <<>> /\ ctl[c].at # "away"
  <2> DEFINE d == Append(down[c], Head(busy.rest))
  <2>1. /\ d \in Seq(AnswerParts) /\ Tail(busy.rest) \in Seq(AnswerParts)
        /\ \A x \in AnswerParts : down[c] = <<>> /\ busy.rest = <<x>> =>
              d = <<x>> /\ Tail(busy.rest) = <<>>
    <3>0. PICK s \in Seq(AnswerParts), t \in Seq(AnswerParts) :
             s = down[c] /\ t = busy.rest /\ t # <<>>
      BY <1>4, <1>b, OfOne
    <3>1. /\ Head(t) \in AnswerParts /\ Tail(t) \in Seq(AnswerParts)
          /\ Append(s, Head(t)) \in Seq(AnswerParts)
      BY <3>0
    <3>2. \A x \in AnswerParts : Head(<<x>>) = x /\ Tail(<<x>>) = <<>> /\ Append(<<>>, x) = <<x>>
      BY OneElement
    <3> QED
      BY <3>0, <3>1, <3>2
  <2> HIDE DEF d
  <2>2. \/ busy' = Q!NotBusy
        \/ Tail(busy.rest) # <<>> /\ busy' = [to |-> c, rest |-> Tail(busy.rest)]
    <3>1. PICK rest : rest = busy.rest
      OBVIOUS
    <3>2. busy = [to |-> c, rest |-> rest]
      BY <1>b, <3>1
    <3>3. \A b, t : b = [to |-> c, rest |-> rest] =>
                        [b EXCEPT !.rest = t] = [to |-> c, rest |-> t]
      OBVIOUS
    <3> QED
      BY <1>4, <3>1, <3>2, <3>3
  <2>3. down' = [down EXCEPT ![c] = d]
    BY <1>4 DEF d
  <2>4. IpcType'
    <3>1. /\ busy' \in [to : Ctl \cup {Nobody}, rest : Seq(AnswerParts)]
          /\ busy'.to = Nobody => busy' = Q!NotBusy
      <4>1. CASE busy' = Q!NotBusy
        BY <1>b, <4>1
      <4>2. CASE busy' = [to |-> c, rest |-> Tail(busy.rest)]
        <5>1. busy'.to = c /\ busy'.to # Nobody
          BY <1>b, <4>2
        <5> QED
          BY <2>1, <4>2, <5>1
      <4> QED
        BY <2>2, <4>1, <4>2
    <3>2. down' \in [Ctl -> Seq(AnswerParts)]
      BY <2>1, <2>3 DEF IpcInv, IpcType
    <3> QED
      BY <1>0, <1>4, <3>1, <3>2 DEF IpcInv, IpcType
  <2>5. down'[c] = d /\ \A e \in Ctl : e # c => down'[e] = down[e]
    BY <2>3 DEF IpcInv, IpcType
  <2>6. ASSUME ~astray[c] PROVE Straight(c, up'[c], down'[c], ctl'[c], busy')
    <3> DEFINE x == Q!Expected(ctl[c].asked)
    <3>0. x \in AnswerParts
      BY DEF Q!Expected, AnswerParts
    <3>1. /\ ctl[c].at \in {"waiting", "spinning"} /\ ctl[c].shown = "none"
          /\ ctl[c].asked \in {"nothing", "value", "error"} \/ up[c] # <<>>
          /\ up[c] = <<>> /\ down[c] = <<>> /\ busy.rest = <<x>>
      <4>1. Straight(c, up[c], down[c], ctl[c], busy)
        BY <1>4, <2>6, OfOne DEF Fine
      <4> QED
        BY <4>1, <1>1 DEF Straight, UnderWay
    <3> HIDE DEF x
    <3>2. d = <<x>> /\ busy' = Q!NotBusy
      BY <2>1, <2>2, <3>0, <3>1
    <3>3. UnderWay(c, up'[c], down'[c], ctl'[c], busy')
      BY <1>0, <1>b, <2>5, <3>1, <3>2 DEF UnderWay, x
    <3> QED
      BY <1>0, <3>1, <3>3 DEF Straight
  <2>7. Fine(c, conn'[c], up'[c], down'[c], ctl'[c], busy', astray'[c])
    BY <1>0, <1>1, <1>4, <1>b, <2>2, <2>6, OfOne DEF Fine
  <2>8. busy'.to \in {c, Nobody}
    BY <1>b, <2>2
  <2> QED
    BY <1>0, <1>1, <1>4, <2>4, <2>5, <2>7, <2>8, OneSteps DEF IpcAssumption
<1> QED
  BY <1>1, <1>2, <1>3, <1>4 DEF Q!SendResponse

LEMMA RecvKeeps ==
  ASSUME IpcAssumption, IpcInv, NEW c \in Ctl, NEW n \in 1 .. Len(down[c]), Q!Recv(c, n)
  PROVE  IpcInv'
<1> DEFINE got == SubSeq(down[c], 1, n)
           d == SubSeq(down[c], n + 1, Len(down[c]))
           what == IF n = 1 THEN Head(got)
                   ELSE IF got = <<"head", "tail">> THEN "long" ELSE "mixed"
<1>0. /\ ctl[c].at = "waiting" /\ down[c] # <<>>
      /\ down' = [down EXCEPT ![c] = d]
      /\ UNCHANGED <<conn, up, busy, astray>>
      /\ \/ /\ Head(got) \in {"text", "message", "empty", "head"}
            /\ ctl' = [ctl EXCEPT ![c].at = "prompt", ![c].shown = what]
         \/ Head(got) = "tail"
            /\ ctl' = [ctl EXCEPT ![c].at = "prompt", ![c].shown = "garbled"]
         \/ Head(got) \in {"echo", "tail"} /\ UNCHANGED ctl
  BY DEF Q!Recv
<1>1. /\ d \in Seq(AnswerParts) /\ Head(got) \in AnswerParts
      /\ \A x \in AnswerParts : down[c] = <<x>> => n = 1 /\ d = <<>> /\ Head(got) = x
  <2>1. PICK s \in Seq(AnswerParts) : s = down[c]
    BY OfOne
  <2>2. /\ SubSeq(s, 1, n) \in Seq(AnswerParts) /\ Len(SubSeq(s, 1, n)) = n
        /\ SubSeq(s, n + 1, Len(s)) \in Seq(AnswerParts)
    BY <2>1
  <2>3. Head(SubSeq(s, 1, n)) \in AnswerParts
    BY <2>2
  <2>4. ASSUME NEW x \in AnswerParts, s = <<x>>
        PROVE  n = 1 /\ SubSeq(s, n + 1, Len(s)) = <<>> /\ Head(SubSeq(s, 1, n)) = x
    <3>1. Len(s) = 1 /\ n = 1
      BY <2>1, <2>4, OneElement
    <3> QED
      BY <2>4, <3>1, OneElement
  <2> QED
    BY <2>1, <2>2, <2>3, <2>4
<1>2. /\ what \in AnswerParts \cup {"none", "long", "mixed", "garbled"}
      /\ \A x \in AnswerParts : down[c] = <<x>> => what = x
  BY <1>1
<1> HIDE DEF got, d, what
<1>3. PICK k : /\ ctl' = [ctl EXCEPT ![c] = k]
               /\ \/ /\ Head(got) \in {"text", "message", "empty", "head"}
                     /\ k = [at |-> "prompt", asked |-> ctl[c].asked, shown |-> what]
                  \/ /\ Head(got) = "tail"
                     /\ k = [at |-> "prompt", asked |-> ctl[c].asked, shown |-> "garbled"]
                  \/ Head(got) \in {"echo", "tail"} /\ k = ctl[c]
  BY <1>0, OfOne DEF IpcInv, IpcType
<1>4. k \in [at : {"away", "prompt", "waiting", "spinning"},
             asked : ChunkKinds \cup {"none"},
             shown : AnswerParts \cup {"none", "long", "mixed", "garbled"}]
      /\ k.at # "away"
  BY <1>0, <1>2, <1>3, OfOne
<1>5. IpcType'
  BY <1>0, <1>1, <1>3, <1>4 DEF IpcInv, IpcType
<1>6. /\ down'[c] = d /\ ctl'[c] = k
      /\ \A e \in Ctl : e # c => down'[e] = down[e] /\ ctl'[e] = ctl[e]
  BY <1>0, <1>3 DEF IpcInv, IpcType
<1>7. ASSUME ~astray[c] PROVE Straight(c, up'[c], down'[c], ctl'[c], busy')
  <2> DEFINE x == Q!Expected(ctl[c].asked)
  <2>1. x \in {"message", "empty", "text"} /\ x \in AnswerParts
    BY DEF Q!Expected, AnswerParts
  <2>2. up[c] = <<>> /\ down[c] = <<x>> /\ busy.to # c
    <3>1. Straight(c, up[c], down[c], ctl[c], busy)
      BY <1>0, <1>7, OfOne DEF Fine
    <3> QED
      BY <1>0, <3>1 DEF Straight, UnderWay
  <2> HIDE DEF x
  <2>3. Head(got) = x /\ what = x /\ d = <<>>
    BY <1>1, <1>2, <2>1, <2>2
  <2>4. k = [at |-> "prompt", asked |-> ctl[c].asked, shown |-> x]
    BY <1>3, <2>1, <2>3
  <2> QED
    BY <1>0, <1>6, <2>2, <2>3, <2>4 DEF Straight, x
<1>8. Fine(c, conn'[c], up'[c], down'[c], ctl'[c], busy', astray'[c])
  BY <1>0, <1>4, <1>6, <1>7, OfOne DEF Fine
<1> QED
  BY <1>0, <1>5, <1>6, <1>8, OneSteps DEF IpcAssumption

LEMMA RecvEndKeeps ==
  ASSUME IpcAssumption, IpcInv, NEW c \in Ctl, Q!RecvEnd(c) PROVE IpcInv'
<1>0. /\ ctl[c].at = "waiting" /\ UNCHANGED <<conn, up, down, busy, astray>>
      /\ ctl' = [ctl EXCEPT ![c].at = "spinning"]
  BY DEF Q!RecvEnd
<1>1. /\ ctl'[c] = [at |-> "spinning", asked |-> ctl[c].asked, shown |-> ctl[c].shown]
      /\ \A e \in Ctl : e # c => ctl'[e] = ctl[e]
  BY <1>0 DEF IpcInv, IpcType
<1>2. IpcType'
  <2> DEFINE CtlType == [at : {"away", "prompt", "waiting", "spinning"},
                         asked : ChunkKinds \cup {"none"},
                         shown : AnswerParts \cup {"none", "long", "mixed", "garbled"}]
  <2>1. ctl \in [Ctl -> CtlType]
    BY DEF IpcInv, IpcType
  <2>2. [ctl[c] EXCEPT !.at = "spinning"] \in CtlType
    BY <2>1
  <2>3. ctl' \in [Ctl -> CtlType]
    <3> HIDE DEF CtlType
    <3> QED
      BY <1>0, <2>1, <2>2
  <2>4. Q!NotBusy' = Q!NotBusy
    BY DEF Q!NotBusy
  <2> QED
    BY <1>0, <2>3, <2>4, Zenon DEF IpcInv, IpcType
<1>3. Fine(c, conn'[c], up'[c], down'[c], ctl'[c], busy', astray'[c])
  BY <1>0, <1>1, OfOne DEF Fine, Straight, UnderWay
<1> QED
  BY <1>0, <1>1, <1>2, <1>3, OneSteps DEF IpcAssumption

LEMMA GoesAwayKeeps ==
  ASSUME IpcAssumption, IpcInv, NEW c \in Ctl, Q!Leave(c) \/ Q!OnHangup(c) PROVE IpcInv'
<1>1. CASE Q!Leave(c)
  <2>0. UNCHANGED <<conn, up, down, busy, astray>> /\ ctl' = [ctl EXCEPT ![c] = Q!Away]
    BY <1>1 DEF Q!Leave
  <2>1. ctl'[c] = Q!Away /\ \A e \in Ctl : e # c => ctl'[e] = ctl[e]
    BY <2>0 DEF IpcInv, IpcType
  <2>2. IpcType'
    BY <2>0 DEF IpcInv, IpcType, Q!Away
  <2>3. Fine(c, conn'[c], up'[c], down'[c], ctl'[c], busy', astray'[c])
    BY <2>0, <2>1, OfOne DEF Fine, Q!Away
  <2> QED
    BY <2>0, <2>1, <2>2, <2>3, OneSteps DEF IpcAssumption
<1>2. CASE Q!OnHangup(c)
  <2>0. /\ ctl[c].at = "away" /\ (conn[c] = "shut" \/ busy = Q!NotBusy)
        /\ conn' = [conn EXCEPT ![c] = "none"] /\ up' = [up EXCEPT ![c] = <<>>]
        /\ down' = [down EXCEPT ![c] = <<>>] /\ UNCHANGED <<ctl, busy, astray>>
    BY <1>2 DEF Q!OnHangup
  <2>1. /\ conn'[c] = "none" /\ up'[c] = <<>> /\ down'[c] = <<>>
        /\ \A e \in Ctl : e # c => conn'[e] = conn[e] /\ up'[e] = up[e] /\ down'[e] = down[e]
    BY <2>0 DEF IpcInv, IpcType
  <2>2. IpcType'
    BY <2>0 DEF IpcInv, IpcType
  <2>3. busy.to # c
    BY <2>0, OfOne DEF Fine, Q!NotBusy, IpcAssumption
  <2>4. Fine(c, conn'[c], up'[c], down'[c], ctl'[c], busy', astray'[c])
    BY <2>0, <2>1, <2>3, OfOne DEF Fine
  <2> QED
    BY <2>0, <2>1, <2>2, <2>4, OneSteps DEF IpcAssumption
<1> QED
  BY <1>1, <1>2

LEMMA IpcStep == IpcAssumption /\ IpcInv /\ Q!IpcNext => IpcInv'
<1> SUFFICES ASSUME IpcAssumption, IpcInv, Q!IpcNext PROVE IpcInv'
  OBVIOUS
<1>1. CASE Q!SetupIpc
  BY <1>1 DEF Q!SetupIpc, IpcInv, IpcType
<1>2. CASE Q!SendResponse
  BY <1>2, SendResponseKeeps
<1>3. CASE Q!CleanupIpc
  BY <1>3, ShutKeeps DEF Q!CleanupIpc, Q!Crash
<1> QED
  BY <1>1, <1>2, <1>3, CtlConnectKeeps, OnNewConnKeeps, HandleEvalKeeps, RecvEndKeeps,
     GoesAwayKeeps, AskKeeps, RecvKeeps DEF Q!IpcNext

(***************************************************************************)
(* Child processes                                                         *)
(***************************************************************************)

CONSTANTS Child, MaxSpurious

VARIABLES child, monitored, output, exited, signal, bytes, spurious, stopped

P == INSTANCE Processes

Wakes(s) == {i \in DOMAIN s : s[i] = "sigchld"}

(* There are no more zombies than exits merged, pending or piped.          *)
Counted ==
    Cardinality(P!Zombies) <= signal.merged + (IF signal.pending THEN 1 ELSE 0)
                              + Cardinality(Wakes(bytes))

ProcessesInv ==
    /\ child \in [Child -> {"unborn", "running", "zombie", "reaped"}]
    /\ signal \in [pending : BOOLEAN, merged : Nat]
    /\ bytes \in Seq({"sigchld", "graceful"})
    /\ IsFiniteSet(P!Zombies)
    /\ Counted
    /\ \A c \in monitored : child[c] \in {"running", "zombie"}

LEMMA SameNumber == \A K : P!Cardinality(K) = Cardinality(K)
BY DEF P!Cardinality, Cardinality, P!IsFiniteSet, IsFiniteSet

LEMMA WakesFinite ==
  ASSUME NEW s \in Seq({"sigchld", "graceful"})
  PROVE  IsFiniteSet(Wakes(s)) /\ Cardinality(Wakes(s)) \in Nat
<1>1. IsFiniteSet(1 .. Len(s)) /\ Wakes(s) \subseteq 1 .. Len(s)
  BY FS_Interval DEF Wakes
<1> QED
  BY <1>1, FS_Subset, FS_CardinalityType

(* A byte more in the pipe.                                                *)
LEMMA WakesAppend ==
  ASSUME NEW s \in Seq({"sigchld", "graceful"}), NEW b \in {"sigchld", "graceful"}
  PROVE  Cardinality(Wakes(Append(s, b))) =
            Cardinality(Wakes(s)) + IF b = "sigchld" THEN 1 ELSE 0
<1>1. CASE b = "sigchld"
  <2>1. Wakes(Append(s, b)) = Wakes(s) \cup {Len(s) + 1}
    BY <1>1 DEF Wakes
  <2>2. Len(s) + 1 \notin Wakes(s)
    BY DEF Wakes
  <2> QED
    BY <1>1, <2>1, <2>2, WakesFinite, FS_AddElement
<1>2. CASE b # "sigchld"
  <2>1. Wakes(Append(s, b)) = Wakes(s)
    BY <1>2 DEF Wakes
  <2> QED
    BY <1>2, <2>1, WakesFinite
<1> QED
  BY <1>1, <1>2

(* The first byte is read.                                                 *)
LEMMA WakesTail ==
  ASSUME NEW s \in Seq({"sigchld", "graceful"}), s # <<>>
  PROVE  Cardinality(Wakes(s)) <=
            Cardinality(Wakes(Tail(s))) + IF Head(s) = "sigchld" THEN 1 ELSE 0
<1> DEFINE N == Wakes(s) \ {1}
           f == [i \in Wakes(Tail(s)) |-> i + 1]
<1>1. f \in Surjection(Wakes(Tail(s)), N)
  <2>1. \A i \in Wakes(Tail(s)) : i + 1 \in N
    BY DEF Wakes
  <2>2. \A j \in N : j - 1 \in Wakes(Tail(s)) /\ (j - 1) + 1 = j
    BY DEF Wakes
  <2> HIDE DEF N
  <2> QED
    BY <2>1, <2>2 DEF Surjection
<1>2. IsFiniteSet(Wakes(Tail(s))) /\ Cardinality(Wakes(Tail(s))) \in Nat
  <2>1. Tail(s) \in Seq({"sigchld", "graceful"})
    OBVIOUS
  <2> QED
    BY <2>1, WakesFinite
<1>3. Cardinality(N) <= Cardinality(Wakes(Tail(s)))
  BY <1>1, <1>2, FS_Surjection
<1>4. Cardinality(N) = IF 1 \in Wakes(s) THEN Cardinality(Wakes(s)) - 1
                       ELSE Cardinality(Wakes(s))
  BY WakesFinite, FS_RemoveElement
<1>5. (1 \in Wakes(s)) = (Head(s) = "sigchld")
  BY DEF Wakes
<1> HIDE DEF N
<1> QED
  BY <1>2, <1>3, <1>4, <1>5, WakesFinite

LEMMA ProcessesImplies == ProcessesInv => P!EveryExitIsAccounted
<1> DEFINE piped == P!Cardinality({i \in DOMAIN bytes : bytes[i] = "sigchld"})
           dead == P!Cardinality(P!Zombies)
<1>1. dead = Cardinality(P!Zombies)
  BY SameNumber
<1>2. piped = Cardinality(Wakes(bytes))
  BY SameNumber DEF Wakes
<1>4. P!EveryExitIsAccounted =
          (/\ dead <= signal.merged + (IF signal.pending THEN 1 ELSE 0) + piped
           /\ \A c \in monitored : child[c] \in {"running", "zombie"})
  BY DEF P!EveryExitIsAccounted
<1> HIDE DEF piped, dead
<1>3. ProcessesInv => Counted /\ \A c \in monitored : child[c] \in {"running", "zombie"}
  BY DEF ProcessesInv
<1> QED
  BY <1>1, <1>2, <1>3, <1>4 DEF Counted

LEMMA ProcessesStart == P!ProcessesInit => ProcessesInv
<1> SUFFICES ASSUME P!ProcessesInit PROVE ProcessesInv
  OBVIOUS
<1>1. P!Zombies = {} /\ Wakes(bytes) = {}
  BY DEF P!ProcessesInit, P!Zombies, Wakes
<1>2. Counted
  <2>1. Cardinality({}) = 0
    BY FS_EmptySet
  <2> QED
    BY <1>1, <2>1 DEF P!ProcessesInit, Counted
<1> QED
  BY <1>1, <1>2, FS_EmptySet DEF P!ProcessesInit, ProcessesInv

LEMMA ProcessesStutter == ProcessesInv /\ UNCHANGED P!processVars => ProcessesInv'
BY DEF ProcessesInv, P!processVars, Counted, P!Zombies

LEMMA ProcessesStep == ProcessesInv /\ P!ProcessesNext => ProcessesInv'
<1> SUFFICES ASSUME ProcessesInv, P!ProcessesNext PROVE ProcessesInv'
  OBVIOUS
<1> DEFINE Zombies == P!Zombies
<1>i. /\ child \in [Child -> {"unborn", "running", "zombie", "reaped"}]
      /\ signal \in [pending : BOOLEAN, merged : Nat]
      /\ bytes \in Seq({"sigchld", "graceful"})
      /\ IsFiniteSet(Zombies) /\ Cardinality(Zombies) \in Nat
      /\ Counted
      /\ \A c \in monitored : child[c] \in {"running", "zombie"}
  BY FS_CardinalityType DEF ProcessesInv
<1>w. Cardinality(Wakes(bytes)) \in Nat
  BY <1>i, WakesFinite
<1>1. ASSUME NEW c \in Child, \/ \E m \in BOOLEAN : P!Spawn(c, m)
                              \/ P!Write(c) \/ P!OnPipe(c)
      PROVE  ProcessesInv'
  <2>1. /\ child' \in [Child -> {"unborn", "running", "zombie", "reaped"}]
        /\ UNCHANGED <<signal, bytes>>
        /\ \A d \in monitored' : child'[d] \in {"running", "zombie"}
    <3>1. CASE \E m \in BOOLEAN : P!Spawn(c, m)
      <4>1. PICK m \in BOOLEAN : P!Spawn(c, m)
        BY <3>1
      <4>2. /\ child[c] = "unborn" /\ child' = [child EXCEPT ![c] = "running"]
            /\ monitored' \subseteq monitored \cup {c} /\ UNCHANGED <<signal, bytes>>
        BY <4>1 DEF P!Spawn
      <4> QED
        BY <1>i, <4>2
    <3>2. CASE P!Write(c) \/ P!OnPipe(c)
      BY <3>2, <1>i DEF P!Write, P!OnPipe
    <3> QED
      BY <1>1, <3>1, <3>2
  <2>2. Zombies' = Zombies
    BY <1>1, <1>i DEF P!Spawn, P!Write, P!OnPipe, P!Zombies
  <2> QED
    BY <1>i, <2>1, <2>2 DEF Counted, ProcessesInv
<1>2. ASSUME NEW c \in Child, P!Exit(c) PROVE ProcessesInv'
  <2>1. /\ child' \in [Child -> {"unborn", "running", "zombie", "reaped"}]
        /\ UNCHANGED bytes
        /\ \A d \in monitored' : child'[d] \in {"running", "zombie"}
    BY <1>2, <1>i DEF P!Exit
  <2>2. Zombies' = Zombies \cup {c} /\ c \notin Zombies
    BY <1>2, <1>i DEF P!Exit, P!Zombies
  <2>3. IsFiniteSet(Zombies') /\ Cardinality(Zombies') = Cardinality(Zombies) + 1
    BY <1>i, <2>2, FS_AddElement
  <2>4. IF signal.pending THEN signal' = [pending |-> TRUE, merged |-> signal.merged + 1]
        ELSE signal' = [pending |-> TRUE, merged |-> signal.merged]
    BY <1>2, <1>i DEF P!Exit
  <2>5. signal' \in [pending : BOOLEAN, merged : Nat]
    <3>1. signal.merged \in Nat /\ signal.merged + 1 \in Nat
      BY <1>i
    <3> QED
      <4>1. PICK n \in Nat : signal' = [pending |-> TRUE, merged |-> n]
        BY <2>4, <3>1
      <4> QED
        BY <4>1
  <2>6. Counted'
    BY <1>i, <1>w, <2>1, <2>3, <2>4 DEF Counted
  <2> QED
    BY <2>1, <2>3, <2>5, <2>6 DEF ProcessesInv
<1>3. CASE P!SigchldHandler \/ P!ChildWrites \/ P!GracefulHandler
  <2>1. PICK b \in {"sigchld", "graceful"} : bytes' = Append(bytes, b)
    BY <1>3 DEF P!SigchldHandler, P!ChildWrites, P!GracefulHandler
  <2>2. /\ UNCHANGED <<child, monitored>>
        /\ \/ signal' = signal
           \/ /\ b = "sigchld" /\ signal.pending
              /\ signal' = [pending |-> FALSE, merged |-> signal.merged]
    BY <1>3, <1>i, <2>1, "sigchld" # "graceful" DEF P!SigchldHandler, P!ChildWrites, P!GracefulHandler
  <2>3. bytes' \in Seq({"sigchld", "graceful"}) /\ signal' \in [pending : BOOLEAN, merged : Nat]
    <3>1. bytes' \in Seq({"sigchld", "graceful"})
      BY <1>i, <2>1
    <3>2. signal.merged \in Nat
      BY <1>i
    <3> QED
      <4>1. CASE signal' = signal
        BY <1>i, <3>1, <4>1
      <4>2. CASE signal' # signal
        <5>1. PICK n \in Nat : signal' = [pending |-> FALSE, merged |-> n]
          BY <2>2, <3>2, <4>2
        <5> QED
          BY <3>1, <5>1
      <4> QED
        BY <4>1, <4>2
  <2>4. Zombies' = Zombies
    BY <2>2 DEF P!Zombies
  <2>5. Cardinality(Wakes(bytes')) = Cardinality(Wakes(bytes)) + IF b = "sigchld" THEN 1 ELSE 0
    BY <1>i, <2>1, WakesAppend
  <2>6. Counted'
    BY <1>i, <1>w, <2>2, <2>4, <2>5 DEF Counted
  <2> QED
    BY <1>i, <2>2, <2>3, <2>4, <2>6 DEF ProcessesInv
<1>4. CASE P!OnSigpfdReady
  <2>0. bytes # <<>> /\ bytes' = Tail(bytes) /\ UNCHANGED signal
    BY <1>4 DEF P!OnSigpfdReady
  <2>1. bytes' \in Seq({"sigchld", "graceful"})
    BY <1>i, <2>0
  <2>2. Cardinality(Wakes(bytes)) <=
            Cardinality(Wakes(bytes')) + IF Head(bytes) = "sigchld" THEN 1 ELSE 0
    BY <1>i, <2>0, WakesTail
  <2>w. Cardinality(Wakes(bytes')) \in Nat
    BY <2>1, WakesFinite
  <2>3. ASSUME NEW c \in Child, P!Dead(c), child' = [child EXCEPT ![c] = "reaped"],
               monitored' = monitored \ {c}
        PROVE  ProcessesInv'
    <3>1. /\ child' \in [Child -> {"unborn", "running", "zombie", "reaped"}]
          /\ \A d \in monitored' : child'[d] \in {"running", "zombie"}
      BY <1>i, <2>3
    <3>2. Zombies' = Zombies \ {c} /\ c \in Zombies
      BY <1>i, <2>3 DEF P!Dead, P!Zombies
    <3>3. IsFiniteSet(Zombies') /\ Cardinality(Zombies') = Cardinality(Zombies) - 1
      BY <1>i, <3>2, FS_RemoveElement
    <3>4. Counted'
      BY <1>i, <1>w, <2>0, <2>2, <2>w, <3>3 DEF Counted
    <3> QED
      BY <1>i, <2>0, <2>1, <3>1, <3>3, <3>4 DEF ProcessesInv
  <2>4. ASSUME Head(bytes) = "sigchld" => \A c \in Child : ~P!Dead(c),
               UNCHANGED <<child, monitored>>
        PROVE  ProcessesInv'
    <3>1. Zombies' = Zombies
      BY <2>4 DEF P!Zombies
    <3>2. Head(bytes) = "sigchld" => Cardinality(Zombies) = 0
      BY <2>4, FS_EmptySet DEF P!Dead, P!Zombies
    <3>4. Counted'
      BY <1>i, <1>w, <2>0, <2>2, <2>w, <3>1, <3>2 DEF Counted
    <3> QED
      BY <1>i, <2>0, <2>1, <2>4, <3>1, <3>4 DEF ProcessesInv
  <2> QED
    BY <1>4, <2>3, <2>4 DEF P!OnSigpfdReady
<1> QED
  BY <1>1, <1>2, <1>3, <1>4 DEF P!ProcessesNext

(***************************************************************************)
(* What status bars are told                                               *)
(***************************************************************************)

CONSTANTS Output, Window, Bar, Tag, Watched

VARIABLES loaded, screen, mapped, current, has, bar

B == INSTANCE Bars WITH Screen <- Output, window <- mapped, focused <- has

BarsAssumption ==
    /\ Output # {} /\ Tag # {}
    /\ None \notin Window /\ None \notin [on : Output, tag : Tag]

BarsType ==
    /\ loaded \in BOOLEAN
    /\ screen \in [Output -> [live : BOOLEAN, tag : Tag, tagsDue : BOOLEAN,
                              titleDue : Window \cup {None}]]
    /\ mapped \in [Window -> [on : Output, tag : Tag] \cup {None}]
    /\ current \in B!Live
    /\ has # None => has \in Window /\ mapped[has] # None

IsBar(r) ==
    /\ r.on \in Output /\ r.active \in BOOLEAN
    /\ r = [on |-> r.on, active |-> r.active, tags |-> r.tags, title |-> r.title]

(* The title of the window with the focus is known, or about to be sent.   *)
Told(b) ==
    bar[b] # None =>
        LET s == bar[b].on
        IN /\ loaded /\ IsBar(bar[b]) /\ s \in B!Live
           /\ bar[b].active = (current = s)
           /\ screen[s].tagsDue \/ bar[b].tags \in {None, B!Tags(s)}
           /\ has # None /\ mapped[has].on = s /\ screen[s].titleDue # has =>
                 bar[b].title \in {None, has}

BarsInv ==
    /\ BarsType
    /\ DOMAIN bar = Bar
    /\ \A b \in Bar : Told(b)

LEMMA BarsImplies == BarsInv => B!BarsFollow
<1> SUFFICES ASSUME BarsInv, NEW b \in Bar, bar[b] # None
             PROVE  LET s == bar[b].on
                    IN /\ s \in B!Live
                       /\ bar[b].active = (current = s)
                       /\ screen[s].tagsDue \/ bar[b].tags \in {None, B!Tags(s)}
                       /\ s = current /\ has # None /\ screen[s].titleDue = None =>
                             mapped[has].on # s \/ bar[b].title \in {None, has}
  BY DEF B!BarsFollow
<1>1. Told(b)
  BY DEF BarsInv
<1> QED
  BY <1>1 DEF Told

LEMMA BarsStart == BarsAssumption /\ B!BarsInit => BarsInv
<1> SUFFICES ASSUME BarsAssumption, B!BarsInit PROVE BarsInv
  OBVIOUS
<1>1. PICK t : t = CHOOSE x \in Tag : TRUE
  OBVIOUS
<1>2. t \in Tag
  BY <1>1 DEF BarsAssumption
<1>3. (CHOOSE s \in Output : TRUE) \in Output
  BY DEF BarsAssumption
<1>4. screen = [s \in Output |-> [live |-> TRUE, tag |-> t, tagsDue |-> FALSE, titleDue |-> None]]
  BY <1>1 DEF B!BarsInit, B!Fresh
<1>5. current \in B!Live
  BY <1>3, <1>4 DEF B!BarsInit, B!Live
<1>6. BarsType
  <2>1. screen \in [Output -> [live : BOOLEAN, tag : Tag, tagsDue : BOOLEAN,
                              titleDue : Window \cup {None}]]
    BY <1>2, <1>4
  <2>2. mapped \in [Window -> [on : Output, tag : Tag] \cup {None}]
    BY DEF B!BarsInit
  <2> QED
    BY <2>1, <2>2, <1>5 DEF B!BarsInit, BarsType
<1> QED
  BY <1>6 DEF B!BarsInit, BarsInv, Told

LEMMA SameTags ==
  ASSUME NEW s, screen'[s].tag = screen[s].tag,
         \A w \in Window : /\ w \in B!On(s) <=> w \in B!On(s)'
                           /\ w \in B!On(s) => mapped'[w].tag = mapped[w].tag
  PROVE  B!Tags(s)' = B!Tags(s)
<1>1. \A t \in Tag : {w \in B!On(s) : mapped[w].tag = t}
                     = {w \in B!On(s) : mapped[w].tag = t}'
  BY DEF B!On
<1> QED
  BY <1>1 DEF B!Tags

LEMMA BarsStutter == BarsInv /\ UNCHANGED B!barVars => BarsInv'
<1> SUFFICES ASSUME BarsInv, UNCHANGED B!barVars PROVE BarsInv'
  OBVIOUS
<1>1. B!Live' = B!Live
  BY DEF B!barVars, B!Live
<1>2. ASSUME NEW s PROVE B!Tags(s)' = B!Tags(s)
  BY SameTags DEF B!barVars, B!On
<1> QED
  BY <1>1, <1>2 DEF BarsInv, BarsType, Told, B!barVars

(***************************************************************************)
(* What a bar is told, field by field.                                     *)
(***************************************************************************)

LEMMA TitleTold ==
  ASSUME NEW s, NEW v, NEW b \in Bar
  PROVE  LET t == B!Tell(s, "title", v)[b]
         IN  /\ bar[b] = None => t = None
             /\ bar[b] # None /\ IsBar(bar[b]) =>
                  /\ IsBar(t) /\ t.on = bar[b].on /\ t.active = bar[b].active
                  /\ t.tags = bar[b].tags
                  /\ t.title = IF bar[b].on = s THEN v ELSE bar[b].title
BY DEF B!Tell, B!BarsOf, IsBar

LEMMA TagsTold ==
  ASSUME NEW s, NEW v, NEW b \in Bar
  PROVE  LET t == B!Tell(s, "tags", v)[b]
         IN  /\ bar[b] = None => t = None
             /\ bar[b] # None /\ IsBar(bar[b]) =>
                  /\ IsBar(t) /\ t.on = bar[b].on /\ t.active = bar[b].active
                  /\ t.title = bar[b].title
                  /\ t.tags = IF bar[b].on = s THEN v ELSE bar[b].tags
BY DEF B!Tell, B!BarsOf, IsBar

LEMMA TitleMissed ==
  ASSUME NEW told, NEW ss, NEW b \in Bar
  PROVE  LET t == B!Missed(told, ss, "title")[b]
         IN  /\ bar[b] = None \/ bar[b].on \notin ss => t = told[b]
             /\ bar[b] # None /\ IsBar(told[b]) /\ told[b].on = bar[b].on =>
                  /\ IsBar(t) /\ t.on = told[b].on /\ t.active = told[b].active
                  /\ t.tags = told[b].tags
                  /\ t.title = IF bar[b].on \in ss THEN None ELSE told[b].title
BY DEF B!Missed, IsBar

LEMMA TagsMissed ==
  ASSUME NEW told, NEW ss, NEW b \in Bar
  PROVE  LET t == B!Missed(told, ss, "tags")[b]
         IN  /\ bar[b] = None \/ bar[b].on \notin ss => t = told[b]
             /\ bar[b] # None /\ IsBar(told[b]) /\ told[b].on = bar[b].on =>
                  /\ IsBar(t) /\ t.on = told[b].on /\ t.active = told[b].active
                  /\ t.title = told[b].title
                  /\ t.tags = IF bar[b].on \in ss THEN None ELSE told[b].tags
BY DEF B!Missed, IsBar

(* The title of w is sent later, and the tags where d says so.             *)
LEMMA DueIs ==
  ASSUME BarsType, NEW t \in Output, NEW w \in Window
  PROVE  /\ B!DueTitle(t, w) \in [Output -> [live : BOOLEAN, tag : Tag, tagsDue : BOOLEAN,
                                            titleDue : Window \cup {None}]]
         /\ \A s \in Output : LET r == B!DueTitle(t, w)[s]
                IN /\ r.live = screen[s].live /\ r.tag = screen[s].tag
                   /\ r.tagsDue = screen[s].tagsDue
                   /\ r.titleDue = IF loaded /\ s = t /\ screen[s].titleDue = None THEN w
                                   ELSE screen[s].titleDue
BY DEF BarsType, B!DueTitle

LEMMA LaterIs ==
  ASSUME BarsType, NEW t \in Output
  PROVE  /\ B!TagsLater(t) \in [Output -> [live : BOOLEAN, tag : Tag, tagsDue : BOOLEAN,
                                            titleDue : Window \cup {None}]]
         /\ \A s \in Output : LET r == B!TagsLater(t)[s]
                IN /\ r.live = screen[s].live /\ r.tag = screen[s].tag
                   /\ r.tagsDue = IF s = t THEN loaded ELSE screen[s].tagsDue
                   /\ r.titleDue = screen[s].titleDue
BY DEF BarsType, B!TagsLater

DueTags(t, d) == [screen EXCEPT ![t].tagsDue = d]

LEMMA DueTagsIs ==
  ASSUME BarsType, NEW t \in Output, NEW d \in BOOLEAN
  PROVE  /\ DueTags(t, d) \in [Output -> [live : BOOLEAN, tag : Tag, tagsDue : BOOLEAN,
                                          titleDue : Window \cup {None}]]
         /\ \A s \in Output : LET r == DueTags(t, d)[s]
                IN /\ r.live = screen[s].live /\ r.tag = screen[s].tag
                   /\ r.tagsDue = IF s = t THEN d ELSE screen[s].tagsDue
                   /\ r.titleDue = screen[s].titleDue
<1> PICK all : all = DueTags(t, d)
  OBVIOUS
<1>1. screen[t] \in [live : BOOLEAN, tag : Tag, tagsDue : BOOLEAN, titleDue : Window \cup {None}]
  BY DEF BarsType
<1>2. PICK r : r = [screen[t] EXCEPT !.tagsDue = d]
  OBVIOUS
<1>3. /\ r \in [live : BOOLEAN, tag : Tag, tagsDue : BOOLEAN, titleDue : Window \cup {None}]
      /\ r.live = screen[t].live /\ r.tag = screen[t].tag
      /\ r.tagsDue = d /\ r.titleDue = screen[t].titleDue
  BY <1>1, <1>2
<1>4. all = [screen EXCEPT ![t] = r]
  BY <1>2 DEF DueTags
<1>5. screen \in [Output -> [live : BOOLEAN, tag : Tag, tagsDue : BOOLEAN,
                            titleDue : Window \cup {None}]]
  BY DEF BarsType
<1>6. /\ all \in [Output -> [live : BOOLEAN, tag : Tag, tagsDue : BOOLEAN,
                             titleDue : Window \cup {None}]]
      /\ all[t] = r /\ \A s \in Output : s # t => all[s] = screen[s]
  BY <1>3, <1>4, <1>5
<1> QED
  BY <1>3, <1>6

(* What is known of a bar before a step.                                   *)
LEMMA BarIs ==
  ASSUME BarsAssumption, BarsInv
  PROVE  /\ BarsType /\ DOMAIN bar = Bar
         /\ \A b \in Bar : bar[b] # None =>
              /\ loaded /\ IsBar(bar[b]) /\ bar[b].on \in B!Live
              /\ bar[b].active = (current = bar[b].on)
              /\ screen[bar[b].on].tagsDue \/ bar[b].tags \in {None, B!Tags(bar[b].on)}
              /\ has # None /\ mapped[has].on = bar[b].on /\ screen[bar[b].on].titleDue # has =>
                    bar[b].title \in {None, has}
BY DEF BarsInv, Told

(* A step after which a bar is where it was.                               *)
LEMMA BarStays ==
  ASSUME BarsAssumption, BarsInv, NEW b \in Bar, NEW s \in Output,
         bar[b] # None, bar[b].on = s, loaded',
         IsBar(bar'[b]), bar'[b].on = s, s \in B!Live',
         bar'[b].active = (current' = s),
         \/ screen'[s].tagsDue \/ bar'[b].tags = None \/ bar'[b].tags = B!Tags(s)'
         \/ /\ bar'[b].tags = bar[b].tags /\ screen'[s].tagsDue = screen[s].tagsDue
            /\ B!Tags(s)' = B!Tags(s),
         has' # None /\ mapped'[has'].on = s /\ screen'[s].titleDue # has' =>
             bar'[b].title \in {None, has'}
  PROVE  Told(b)'
<1>1. screen[s].tagsDue \/ bar[b].tags \in {None, B!Tags(s)}
  BY BarIs
<1>2. screen'[s].tagsDue \/ bar'[b].tags \in {None, B!Tags(s)'}
  BY <1>1
<1> QED
  BY <1>2 DEF Told

(* The two halves of a change of focus, as told to one bar.                *)
OnlyTitle(r, b) ==
    /\ bar[b] = None => r = None
    /\ bar[b] # None => /\ IsBar(r) /\ r.on = bar[b].on /\ r.active = bar[b].active
                        /\ r.tags = bar[b].tags

LEMMA UnfocusedIs ==
  ASSUME BarsAssumption, BarsInv, NEW w, NEW s, NEW b \in Bar
  PROVE  /\ OnlyTitle(B!Unfocused(w, s)[b], b)
         /\ has \in {None, w} => B!Unfocused(w, s) = bar
         /\ DOMAIN B!Unfocused(w, s) = Bar
<1> PICK u : u = B!Unfocused(w, s)
  OBVIOUS
<1>1. CASE has \notin {None, w} /\ mapped[has].on = s
  <2>1. PICK v : u = B!Tell(s, "title", v)
    BY <1>1, Zenon DEF B!Unfocused
  <2>2. DOMAIN u = Bar
    BY <2>1 DEF B!Tell
  <2>3. bar[b] # None => IsBar(bar[b])
    BY BarIs
  <2> QED
    BY <1>1, <2>1, <2>2, <2>3, TitleTold DEF OnlyTitle
<1>2. CASE ~(has \notin {None, w} /\ mapped[has].on = s)
  <2>1. u = bar
    BY <1>2 DEF B!Unfocused
  <2> QED
    BY <2>1, BarIs DEF OnlyTitle
<1> QED
  BY <1>1, <1>2

LEMMA SkippedIs ==
  ASSUME BarsAssumption, BarsInv, NEW t, NEW w, NEW told, NEW b \in Bar,
         OnlyTitle(told[b], b), DOMAIN told = Bar
  PROVE  /\ OnlyTitle(B!Skipped(told, t, w)[b], b)
         /\ bar[b] # None /\ bar[b].on = t
              /\ screen[t].titleDue \notin {None, w} => B!Skipped(told, t, w)[b].title = None
         /\ DOMAIN B!Skipped(told, t, w) = Bar
<1> PICK u : u = B!Skipped(told, t, w)
  OBVIOUS
<1>1. CASE screen[t].titleDue \notin {None, w}
  <2>1. u = B!Missed(told, {t}, "title")
    BY <1>1 DEF B!Skipped
  <2>2. DOMAIN u = Bar
    BY <2>1 DEF B!Missed
  <2> QED
    BY <1>1, <2>1, <2>2, TitleMissed DEF OnlyTitle
<1>2. CASE screen[t].titleDue \in {None, w}
  <2>1. u = told
    BY <1>2 DEF B!Skipped
  <2> QED
    BY <1>2, <2>1
<1> QED
  BY <1>1, <1>2

LEMMA BarFocusKeeps ==
  ASSUME BarsAssumption, BarsInv, NEW w \in Window, B!Focus(w) PROVE BarsInv'
<1> PICK t : t = mapped[w].on
  OBVIOUS
<1> PICK u : u = B!Unfocused(w, current)
  OBVIOUS
<1>0. /\ t \in Output /\ w # None /\ mapped[w] # None
      /\ has' = w /\ screen' = B!DueTitle(t, w) /\ bar' = B!Skipped(u, t, w)
      /\ UNCHANGED <<loaded, mapped, current>>
  BY BarIs DEF B!Focus, BarsType, BarsAssumption
<1>1. B!Live' = B!Live
  BY <1>0, BarIs, DueIs DEF B!Live
<1>2. BarsType'
  BY <1>0, <1>1, BarIs, DueIs DEF BarsType
<1>3. DOMAIN bar' = Bar
  <2>1. DOMAIN u = Bar
    BY BarIs DEF B!Unfocused, B!Tell
  <2> QED
    BY <1>0, <2>1 DEF B!Skipped, B!Missed
<1>4. ASSUME NEW b \in Bar, bar'[b] # None PROVE Told(b)'
  <2>1. OnlyTitle(u[b], b) /\ DOMAIN u = Bar
    BY UnfocusedIs
  <2>2. /\ OnlyTitle(bar'[b], b)
        /\ bar[b] # None /\ bar[b].on = t /\ screen[t].titleDue \notin {None, w} =>
              bar'[b].title = None
    BY <1>0, <1>4, <2>1, SkippedIs
  <2>3. bar[b] # None
    BY <1>4, <2>2 DEF OnlyTitle
  <2>4. PICK s \in Output : s = bar[b].on
    BY <2>3, BarIs DEF IsBar
  <2>5. B!Tags(s)' = B!Tags(s) /\ screen'[s].tagsDue = screen[s].tagsDue
    <3>1. B!On(s)' = B!On(s)
      BY <1>0 DEF B!On
    <3> QED
      BY <1>0, <3>1, BarIs, DueIs, SameTags
  <2>6. mapped'[has'].on = s /\ screen'[s].titleDue # has' => bar'[b].title = None
    <3>1. s = t => screen'[s].titleDue = IF screen[s].titleDue = None THEN w ELSE screen[s].titleDue
      BY <1>0, <2>3, BarIs, DueIs
    <3> QED
      BY <1>0, <2>2, <2>3, <2>4, <3>1
  <2> QED
    <3>1. IsBar(bar'[b]) /\ bar'[b].on = s /\ bar'[b].active = bar[b].active
          /\ bar'[b].tags = bar[b].tags
      BY <2>2, <2>3, <2>4 DEF OnlyTitle
    <3>2. loaded' /\ s \in B!Live' /\ bar'[b].active = (current' = s)
      BY <1>0, <1>1, <2>3, <2>4, <3>1, BarIs
    <3>3. has' # None /\ mapped'[has'].on = s /\ screen'[s].titleDue # has' =>
             bar'[b].title \in {None, has'}
      BY <2>6
    <3> QED
      BY <2>3, <2>4, <2>5, <3>1, <3>2, <3>3, BarStays
<1> QED
  BY <1>2, <1>3, <1>4 DEF BarsInv, Told

LEMMA BlurKeeps ==
  ASSUME BarsAssumption, BarsInv, B!Blur PROVE BarsInv'
<1> PICK u : u = B!Unfocused(None, current)
  OBVIOUS
<1>0. has' = None /\ bar' = u /\ UNCHANGED <<loaded, screen, mapped, current>>
  BY DEF B!Blur
<1>1. B!Live' = B!Live
  BY <1>0 DEF B!Live
<1>2. BarsType'
  BY <1>0, <1>1, BarIs DEF BarsType
<1>3. DOMAIN bar' = Bar
  BY <1>0, BarIs DEF B!Unfocused, B!Tell
<1>4. ASSUME NEW b \in Bar, bar'[b] # None PROVE Told(b)'
  <2>1. OnlyTitle(bar'[b], b)
    BY <1>0, UnfocusedIs
  <2>2. PICK s \in Output : s = bar[b].on
    BY <1>4, <2>1, BarIs DEF OnlyTitle, IsBar
  <2>3. B!Tags(s)' = B!Tags(s)
    <3>1. B!On(s)' = B!On(s)
      BY <1>0 DEF B!On
    <3> QED
      BY <1>0, <3>1, SameTags
  <2> QED
    BY <1>0, <1>1, <1>4, <2>1, <2>2, <2>3, BarIs, BarStays DEF OnlyTitle
<1> QED
  BY <1>2, <1>3, <1>4 DEF BarsInv, Told

(* A step that tells no bar anything.                                      *)
LEMMA QuietKeeps ==
  ASSUME BarsAssumption, BarsInv, BarsType', bar' = bar, loaded', has' = has, current' = current,
         B!Live \subseteq B!Live',
         has # None => mapped'[has].on = mapped[has].on,
         \A s \in Output : s \in B!Live =>
             /\ \/ screen'[s].tagsDue
                \/ screen'[s].tagsDue = screen[s].tagsDue /\ B!Tags(s)' = B!Tags(s)
             /\ \/ screen'[s].titleDue = screen[s].titleDue
                \/ screen'[s].titleDue = has
  PROVE  BarsInv'
<1>1. DOMAIN bar' = Bar
  BY BarIs
<1>2. ASSUME NEW b \in Bar, bar'[b] # None PROVE Told(b)'
  <2>1. PICK s \in Output : s = bar[b].on
    BY <1>2, BarIs DEF IsBar
  <2>2. bar[b] # None /\ s \in B!Live /\ loaded
    BY <1>2, <2>1, BarIs
  <2>3. has' # None /\ mapped'[has'].on = s /\ screen'[s].titleDue # has' =>
             bar'[b].title \in {None, has'}
    BY <1>2, <2>1, <2>2, BarIs
  <2>4. \/ screen'[s].tagsDue
        \/ screen'[s].tagsDue = screen[s].tagsDue /\ B!Tags(s)' = B!Tags(s)
    BY <2>2
  <2> QED
    BY <1>2, <2>1, <2>2, <2>3, <2>4, BarIs, BarStays
<1> QED
  BY <1>1, <1>2 DEF BarsInv, Told

(* Without the plugin there are no bars.                                   *)
LEMMA NoBarsKeeps ==
  ASSUME BarsType', DOMAIN bar' = Bar, \A b \in Bar : bar'[b] = None PROVE BarsInv'
BY DEF BarsInv, Told

LEMMA BarMapKeeps ==
  ASSUME BarsAssumption, BarsInv, NEW w \in Window, B!Map(w) PROVE BarsInv'
<1> DEFINE at == [on |-> current, tag |-> screen[current].tag]
<1>0. /\ mapped[w] = None /\ mapped' = [mapped EXCEPT ![w] = at]
      /\ screen' = B!TagsLater(current) /\ UNCHANGED <<loaded, current, has, bar>>
  BY DEF B!Map
<1>1. at \in [on : Output, tag : Tag] /\ current \in Output
  BY BarIs DEF BarsType, B!Live
<1> HIDE DEF at
<1>2. B!Live' = B!Live
  BY <1>0, <1>1, BarIs, LaterIs DEF B!Live
<1>3. has # None => has # w /\ mapped'[has] = mapped[has]
  BY <1>0, BarIs DEF BarsType
<1>4. BarsType'
  BY <1>0, <1>1, <1>2, <1>3, BarIs, LaterIs DEF BarsType
<1>5. ASSUME loaded, NEW s \in Output, ~screen'[s].tagsDue
      PROVE  screen'[s].tagsDue = screen[s].tagsDue /\ B!Tags(s)' = B!Tags(s)
  <2>1. s # current /\ screen'[s].tagsDue = screen[s].tagsDue /\ screen'[s].tag = screen[s].tag
    <3>1. /\ s = current => screen'[s].tagsDue = loaded
          /\ s # current => screen'[s].tagsDue = screen[s].tagsDue
          /\ screen'[s].tag = screen[s].tag
      BY <1>0, <1>1, BarIs, LaterIs
    <3> QED
      BY <1>5, <3>1
  <2>2. \A x \in Window : (x \in B!On(s) <=> x \in B!On(s)')
                          /\ (x \in B!On(s) => mapped'[x].tag = mapped[x].tag)
    BY <1>0, <2>1, BarIs DEF B!On, BarsType, at
  <2> QED
    BY <2>1, <2>2, SameTags
<1>6. CASE loaded
  <2>1. has # None => mapped'[has].on = mapped[has].on
    BY <1>3
  <2>2. ASSUME NEW s \in Output
        PROVE  /\ \/ screen'[s].tagsDue
                  \/ screen'[s].tagsDue = screen[s].tagsDue /\ B!Tags(s)' = B!Tags(s)
               /\ screen'[s].titleDue = screen[s].titleDue
    <3>1. screen'[s].titleDue = screen[s].titleDue
      BY <1>0, <1>1, BarIs, LaterIs
    <3> QED
      BY <1>5, <1>6, <3>1
  <2>3. loaded' /\ bar' = bar /\ has' = has /\ current' = current /\ B!Live \subseteq B!Live'
    BY <1>0, <1>2, <1>6
  <2> QED
    BY <1>4, <2>1, <2>2, <2>3, QuietKeeps
<1>7. CASE ~loaded
  BY <1>0, <1>4, <1>7, BarIs, NoBarsKeeps
<1> QED
  BY <1>6, <1>7

LEMMA BarTagKeeps ==
  ASSUME BarsAssumption, BarsInv, NEW t \in Tag,
         \/ \E w \in Window : B!SetTag(w, t)
         \/ \E o \in Output : B!View(o, t)
  PROVE  BarsInv'
<1>1. ASSUME NEW w \in Window, B!SetTag(w, t) PROVE BarsInv'
  <2> PICK o : o = mapped[w].on
    OBVIOUS
  <2>0. /\ mapped[w] # None /\ mapped' = [mapped EXCEPT ![w].tag = t]
        /\ screen' = B!TagsLater(o) /\ UNCHANGED <<loaded, current, has, bar>>
    BY <1>1 DEF B!SetTag
  <2>1. o \in Output /\ mapped[w] \in [on : Output, tag : Tag]
    BY <2>0, BarIs DEF BarsType
  <2>a. /\ mapped'[w] \in [on : Output, tag : Tag] /\ mapped'[w].on = o /\ mapped'[w] # None
        /\ \A x \in Window \ {w} : mapped'[x] = mapped[x]
    BY <2>0, <2>1, BarIs DEF BarsType, BarsAssumption
  <2>2. B!Live' = B!Live
    BY <2>0, <2>1, BarIs, LaterIs DEF B!Live
  <2>3. has # None => mapped'[has].on = mapped[has].on /\ mapped'[has] # None
    BY <2>0, <2>a, BarIs DEF BarsType
  <2>4. BarsType'
    BY <2>0, <2>1, <2>a, <2>2, <2>3, BarIs, LaterIs DEF BarsType
  <2>5. ASSUME loaded, NEW s \in Output, ~screen'[s].tagsDue
        PROVE  screen'[s].tagsDue = screen[s].tagsDue /\ B!Tags(s)' = B!Tags(s)
    <3>1. s # o /\ screen'[s].tagsDue = screen[s].tagsDue /\ screen'[s].tag = screen[s].tag
      <4>1. /\ s = o => screen'[s].tagsDue = loaded
            /\ s # o => screen'[s].tagsDue = screen[s].tagsDue
            /\ screen'[s].tag = screen[s].tag
        BY <2>0, <2>1, BarIs, LaterIs
      <4> QED
        BY <2>5, <4>1
    <3>2. \A x \in Window : (x \in B!On(s) <=> x \in B!On(s)')
                            /\ (x \in B!On(s) => mapped'[x].tag = mapped[x].tag)
      BY <2>0, <2>a, <3>1, BarIs DEF B!On, BarsType
    <3> QED
      BY <3>1, <3>2, SameTags
  <2>6. CASE loaded
    <3>1. \A s \in Output : screen'[s].titleDue = screen[s].titleDue /\ screen'[s].tagsDue \in BOOLEAN
      BY <2>0, <2>1, <2>4, BarIs, LaterIs DEF BarsType
    <3>2. \A s \in Output :
            \/ screen'[s].tagsDue
            \/ screen'[s].tagsDue = screen[s].tagsDue /\ B!Tags(s)' = B!Tags(s)
      BY <2>5, <2>6, <3>1
    <3> QED
      BY <2>0, <2>2, <2>3, <2>4, <2>6, <3>1, <3>2, QuietKeeps
  <2>7. CASE ~loaded
    BY <2>0, <2>4, <2>7, BarIs, NoBarsKeeps
  <2> QED
    BY <2>6, <2>7
<1>2. ASSUME NEW o \in Output, B!View(o, t) PROVE BarsInv'
  <2>0. /\ screen' = [B!TagsLater(o) EXCEPT ![o].tag = t] /\ UNCHANGED <<loaded, mapped, current, has, bar>>
    BY <1>2 DEF B!View
  <2>1. /\ screen' \in [Output -> [live : BOOLEAN, tag : Tag, tagsDue : BOOLEAN,
                                            titleDue : Window \cup {None}]]
        /\ \A s \in Output :
              /\ screen'[s].live = screen[s].live /\ screen'[s].titleDue = screen[s].titleDue
              /\ screen'[s].tagsDue = B!TagsLater(o)[s].tagsDue
              /\ s # o => screen'[s].tag = screen[s].tag
    BY <2>0, BarIs, LaterIs
  <2>2. B!Live' = B!Live
    BY <2>1 DEF B!Live
  <2>4. BarsType'
    BY <2>0, <2>1, <2>2, BarIs DEF BarsType
  <2>5. ASSUME loaded, NEW s \in Output, ~screen'[s].tagsDue
        PROVE  screen'[s].tagsDue = screen[s].tagsDue /\ B!Tags(s)' = B!Tags(s)
    <3>a. /\ s = o => B!TagsLater(o)[s].tagsDue = loaded
          /\ s # o => B!TagsLater(o)[s].tagsDue = screen[s].tagsDue
      BY BarIs, LaterIs
    <3>1. s # o /\ screen'[s].tagsDue = screen[s].tagsDue /\ screen'[s].tag = screen[s].tag
      BY <2>1, <2>5, <3>a
    <3>2. B!On(s)' = B!On(s)
      BY <2>0 DEF B!On
    <3> QED
      BY <2>0, <3>1, <3>2, SameTags
  <2>6. CASE loaded
    BY <2>0, <2>1, <2>2, <2>4, <2>5, <2>6, BarIs, QuietKeeps
  <2>7. CASE ~loaded
    BY <2>0, <2>4, <2>7, BarIs, NoBarsKeeps
  <2> QED
    BY <2>6, <2>7
<1> QED
  BY <1>1, <1>2

LEMMA BarPropKeeps ==
  ASSUME BarsAssumption, BarsInv, B!PropChange PROVE BarsInv'
<1> PICK o : o = mapped[has].on
  OBVIOUS
<1>0. /\ has # None /\ screen' = B!DueTitle(o, has) /\ UNCHANGED <<loaded, mapped, current, has, bar>>
  BY DEF B!PropChange
<1>1. o \in Output /\ has \in Window
  BY <1>0, BarIs DEF BarsType
<1>2. B!Live' = B!Live
  BY <1>0, <1>1, BarIs, DueIs DEF B!Live
<1>3. BarsType'
  BY <1>0, <1>1, <1>2, BarIs, DueIs DEF BarsType
<1>4. ASSUME NEW s \in Output
      PROVE  /\ screen'[s].tagsDue = screen[s].tagsDue /\ B!Tags(s)' = B!Tags(s)
             /\ \/ screen'[s].titleDue = screen[s].titleDue
                \/ screen'[s].titleDue = has
  <2>1. /\ screen'[s].tagsDue = screen[s].tagsDue /\ screen'[s].tag = screen[s].tag
        /\ \/ screen'[s].titleDue = screen[s].titleDue
           \/ screen'[s].titleDue = has
    BY <1>0, <1>1, BarIs, DueIs
  <2>2. B!On(s)' = B!On(s)
    BY <1>0 DEF B!On
  <2> QED
    BY <1>0, <2>1, <2>2, SameTags
<1>5. CASE loaded
  BY <1>0, <1>2, <1>3, <1>4, <1>5, BarIs, QuietKeeps
<1>6. CASE ~loaded
  BY <1>0, <1>3, <1>6, BarIs, NoBarsKeeps
<1> QED
  BY <1>5, <1>6

LEMMA PluginKeeps ==
  ASSUME BarsAssumption, BarsInv, B!DwlIpcSetup \/ B!DwlIpcCleanup PROVE BarsInv'
<1>1. UNCHANGED <<screen, mapped, current, has>> /\ loaded' \in BOOLEAN
      /\ DOMAIN bar' = Bar /\ \A b \in Bar : bar'[b] = None
  BY BarIs DEF B!DwlIpcSetup, B!DwlIpcCleanup
<1>2. BarsType'
  BY <1>1, BarIs DEF BarsType, B!Live
<1> QED
  BY <1>1, <1>2, NoBarsKeeps

LEMMA BarSelectKeeps ==
  ASSUME BarsAssumption, BarsInv, NEW s0 \in Output, NEW t \in Tag, B!Select(s0, t)
  PROVE  BarsInv'
<1>0. /\ screen' = [screen EXCEPT ![s0].tag = t] /\ bar' = B!Missed(bar, {s0}, "tags")
      /\ UNCHANGED <<loaded, mapped, current, has>>
  BY DEF B!Select
<1>1. /\ screen' \in [Output -> [live : BOOLEAN, tag : Tag, tagsDue : BOOLEAN,
                                 titleDue : Window \cup {None}]]
      /\ \A s \in Output : /\ screen'[s].live = screen[s].live
                           /\ screen'[s].titleDue = screen[s].titleDue
                           /\ screen'[s].tagsDue = screen[s].tagsDue
                           /\ s # s0 => screen'[s].tag = screen[s].tag
  BY <1>0, BarIs DEF BarsType
<1>2. B!Live' = B!Live
  BY <1>1 DEF B!Live
<1>3. BarsType'
  BY <1>0, <1>1, <1>2, BarIs DEF BarsType
<1>4. DOMAIN bar' = Bar
  BY <1>0, BarIs DEF B!Missed
<1>5. ASSUME NEW b \in Bar, bar'[b] # None PROVE Told(b)'
  <2>1. bar[b] # None /\ IsBar(bar[b])
    BY <1>0, <1>5, BarIs, TagsMissed
  <2>2. PICK s \in Output : s = bar[b].on
    BY <2>1 DEF IsBar
  <2>3. /\ IsBar(bar'[b]) /\ bar'[b].on = s /\ bar'[b].active = bar[b].active
        /\ bar'[b].title = bar[b].title
        /\ bar'[b].tags = IF s = s0 THEN None ELSE bar[b].tags
    BY <1>0, <2>1, <2>2, TagsMissed
  <2>k. /\ loaded /\ s \in B!Live /\ bar[b].active = (current = s)
        /\ has # None /\ mapped[has].on = s /\ screen[s].titleDue # has => bar[b].title \in {None, has}
    BY <2>1, <2>2, BarIs
  <2>l. /\ loaded' /\ s \in B!Live' /\ bar'[b].active = (current' = s)
        /\ has' # None /\ mapped'[has'].on = s /\ screen'[s].titleDue # has' =>
              bar'[b].title \in {None, has'}
    BY <1>0, <1>1, <1>2, <2>3, <2>k
  <2>4. CASE s = s0
    <3>1. bar'[b].tags = None
      BY <2>3, <2>4
    <3> QED
      BY <2>1, <2>2, <2>3, <2>l, <3>1, BarStays
  <2>5. CASE s # s0
    <3>1. B!On(s)' = B!On(s)
      BY <1>0 DEF B!On
    <3>2. B!Tags(s)' = B!Tags(s)
      BY <1>0, <1>1, <2>5, <3>1, SameTags
    <3>3. bar'[b].tags = bar[b].tags
      BY <2>3, <2>5
    <3> QED
      BY <1>1, <2>1, <2>2, <2>3, <2>l, <3>2, <3>3, BarStays
  <2> QED
    BY <2>4, <2>5
<1> QED
  BY <1>3, <1>4, <1>5 DEF BarsInv, Told

LEMMA BarTagsSentKeeps ==
  ASSUME BarsAssumption, BarsInv, NEW s0 \in Output, B!UpdateAllTagState(s0)
  PROVE  BarsInv'
<1> PICK v : v = B!Tags(s0)
  OBVIOUS
<1>0. /\ screen' = [screen EXCEPT ![s0].tagsDue = FALSE] /\ bar' = B!Tell(s0, "tags", v)
      /\ UNCHANGED <<loaded, mapped, current, has>>
  BY DEF B!UpdateAllTagState
<1>1. /\ screen' \in [Output -> [live : BOOLEAN, tag : Tag, tagsDue : BOOLEAN,
                                 titleDue : Window \cup {None}]]
      /\ \A s \in Output : /\ screen'[s].live = screen[s].live
                           /\ screen'[s].titleDue = screen[s].titleDue
                           /\ screen'[s].tag = screen[s].tag
                           /\ s # s0 => screen'[s].tagsDue = screen[s].tagsDue
  <2>1. PICK no \in BOOLEAN : no = FALSE
    OBVIOUS
  <2>2. screen' = DueTags(s0, no)
    BY <1>0, <2>1 DEF DueTags
  <2>3. BarsType
    BY BarIs
  <2>4. /\ screen' \in [Output -> [live : BOOLEAN, tag : Tag, tagsDue : BOOLEAN,
                                    titleDue : Window \cup {None}]]
        /\ \A s \in Output :
              /\ screen'[s].live = screen[s].live /\ screen'[s].tag = screen[s].tag
              /\ screen'[s].tagsDue = IF s = s0 THEN no ELSE screen[s].tagsDue
              /\ screen'[s].titleDue = screen[s].titleDue
    BY <2>2, <2>3, DueTagsIs
  <2> QED
    BY <2>4
<1>2. B!Live' = B!Live
  BY <1>1 DEF B!Live
<1>3. BarsType'
  BY <1>0, <1>1, <1>2, BarIs DEF BarsType
<1>4. DOMAIN bar' = Bar
  BY <1>0, BarIs DEF B!Tell
<1>5. ASSUME NEW b \in Bar, bar'[b] # None PROVE Told(b)'
  <2>1. bar[b] # None /\ IsBar(bar[b])
    BY <1>0, <1>5, BarIs, TagsTold
  <2>2. PICK s \in Output : s = bar[b].on
    BY <2>1 DEF IsBar
  <2>3. /\ IsBar(bar'[b]) /\ bar'[b].on = s /\ bar'[b].active = bar[b].active
        /\ bar'[b].title = bar[b].title
        /\ bar'[b].tags = IF s = s0 THEN v ELSE bar[b].tags
    BY <1>0, <2>1, <2>2, TagsTold
  <2>4. B!Tags(s)' = B!Tags(s)
    <3>1. B!On(s)' = B!On(s)
      BY <1>0 DEF B!On
    <3> QED
      BY <1>0, <1>1, <3>1, SameTags
  <2>k. /\ loaded /\ s \in B!Live /\ bar[b].active = (current = s)
        /\ has # None /\ mapped[has].on = s /\ screen[s].titleDue # has => bar[b].title \in {None, has}
    BY <2>1, <2>2, BarIs
  <2>l. /\ loaded' /\ s \in B!Live' /\ bar'[b].active = (current' = s)
        /\ has' # None /\ mapped'[has'].on = s /\ screen'[s].titleDue # has' =>
              bar'[b].title \in {None, has'}
    BY <1>0, <1>1, <1>2, <2>3, <2>k
  <2>5. \/ bar'[b].tags = B!Tags(s)'
        \/ bar'[b].tags = bar[b].tags /\ screen'[s].tagsDue = screen[s].tagsDue
    BY <1>1, <2>3, <2>4
  <2> QED
    BY <2>1, <2>2, <2>3, <2>4, <2>5, <2>l, BarStays
<1> QED
  BY <1>3, <1>4, <1>5 DEF BarsInv, Told

LEMMA BarTitleSentKeeps ==
  ASSUME BarsAssumption, BarsInv, NEW s0 \in Output, B!UpdateProp(s0)
  PROVE  BarsInv'
<1>0. /\ screen' = [screen EXCEPT ![s0].titleDue = None]
      /\ bar' = IF screen[s0].titleDue = has THEN B!Tell(s0, "title", has) ELSE bar
      /\ UNCHANGED <<loaded, mapped, current, has>>
  BY DEF B!UpdateProp
<1>1. /\ screen' \in [Output -> [live : BOOLEAN, tag : Tag, tagsDue : BOOLEAN,
                                 titleDue : Window \cup {None}]]
      /\ \A s \in Output : /\ screen'[s].live = screen[s].live
                           /\ screen'[s].tagsDue = screen[s].tagsDue
                           /\ screen'[s].tag = screen[s].tag
                           /\ s # s0 => screen'[s].titleDue = screen[s].titleDue
  BY <1>0, BarIs DEF BarsType
<1>2. B!Live' = B!Live
  BY <1>1 DEF B!Live
<1>3. BarsType'
  BY <1>0, <1>1, <1>2, BarIs DEF BarsType
<1>4. DOMAIN bar' = Bar
  BY <1>0, BarIs DEF B!Tell
<1>5. ASSUME NEW b \in Bar, bar'[b] # None PROVE Told(b)'
  <2>1. bar[b] # None /\ IsBar(bar[b])
    BY <1>0, <1>5, BarIs, TitleTold
  <2>2. PICK s \in Output : s = bar[b].on
    BY <2>1 DEF IsBar
  <2>3. /\ IsBar(bar'[b]) /\ bar'[b].on = s /\ bar'[b].active = bar[b].active
        /\ bar'[b].tags = bar[b].tags
        /\ bar'[b].title = IF s = s0 /\ screen[s0].titleDue = has THEN has ELSE bar[b].title
    BY <1>0, <2>1, <2>2, TitleTold
  <2>4. B!Tags(s)' = B!Tags(s)
    <3>1. B!On(s)' = B!On(s)
      BY <1>0 DEF B!On
    <3> QED
      BY <1>0, <1>1, <3>1, SameTags
  <2>5. has # None /\ mapped[has].on = s /\ screen'[s].titleDue # has => bar'[b].title \in {None, has}
    <3>1. has # None /\ mapped[has].on = s /\ screen[s].titleDue # has => bar[b].title \in {None, has}
      BY <2>1, <2>2, BarIs
    <3> QED
      BY <1>1, <2>3, <3>1
  <2> QED
    BY <1>0, <1>1, <1>2, <2>1, <2>2, <2>3, <2>4, <2>5, BarIs, BarStays
<1> QED
  BY <1>3, <1>4, <1>5 DEF BarsInv, Told

LEMMA BarBindKeeps ==
  ASSUME BarsAssumption, BarsInv, NEW b0 \in Bar,
         B!Release(b0) \/ \E s \in Output : B!Bind(b0, s)
  PROVE  BarsInv'
<1>0. UNCHANGED <<loaded, screen, mapped, current, has>>
  BY DEF B!Release, B!Bind
<1>1. B!Live' = B!Live
  BY <1>0 DEF B!Live
<1>2. BarsType'
  BY <1>0, <1>1, BarIs DEF BarsType
<1>3. DOMAIN bar' = Bar /\ \A b \in Bar \ {b0} : bar'[b] = bar[b]
  BY BarIs DEF B!Release, B!Bind
<1>4. \A s : B!Tags(s)' = B!Tags(s)
  BY <1>0, SameTags DEF B!On
<1>5. ASSUME NEW b \in Bar \ {b0} PROVE Told(b)'
  BY <1>0, <1>1, <1>3, <1>4 DEF BarsInv, Told
<1>6. Told(b0)'
  <2>1. CASE B!Release(b0)
    BY <2>1, BarIs DEF B!Release, Told
  <2>2. ASSUME NEW s \in Output, B!Bind(b0, s) PROVE Told(b0)'
    <3> PICK v : v = B!Tags(s)
      OBVIOUS
    <3>1. PICK a \in BOOLEAN : a = (current = s)
      OBVIOUS
    <3>2. PICK x : bar' = [bar EXCEPT ![b0] = [on |-> s, active |-> current = s, tags |-> v, title |-> x]]
                   /\ (has \in B!On(s) => x \in {None, has})
      <4>1. PICK w \in Window \cup {None} :
              /\ IF has \in B!Shown(s) THEN w = has ELSE B!Newest(s, w)
              /\ bar' = [bar EXCEPT ![b0] =
                    [on |-> s, active |-> current = s, tags |-> v,
                     title |-> IF has \in B!On(s) \ B!Shown(s) THEN None
                               ELSE IF w = None THEN "" ELSE w]]
        BY <2>2, Zenon DEF B!Bind
      <4>2. PICK x : x = IF has \in B!On(s) \ B!Shown(s) THEN None
                         ELSE IF w = None THEN "" ELSE w
        OBVIOUS
      <4>3. has \in B!On(s) => x \in {None, has}
        <5>1. CASE has \in B!On(s) \ B!Shown(s)
          BY <4>2, <5>1
        <5>2. CASE has \in B!Shown(s)
          BY <4>1, <4>2, <5>2, BarsAssumption DEF B!Shown, B!On, BarsAssumption
        <5> QED
          BY <5>1, <5>2
      <4> QED
        BY <4>1, <4>2, <4>3, Zenon
    <3>3. bar'[b0] = [on |-> s, active |-> a, tags |-> v, title |-> x]
      BY <3>1, <3>2, BarIs
    <3>4. /\ IsBar(bar'[b0]) /\ bar'[b0].on = s /\ bar'[b0].active = a
          /\ bar'[b0].tags = v /\ bar'[b0].title = x
      BY <3>1, <3>3 DEF IsBar
    <3>5. loaded /\ s \in B!Live
      BY <2>2 DEF B!Bind
    <3>6. has # None /\ mapped[has].on = s => has \in B!On(s)
      BY BarIs DEF BarsType, B!On
    <3> QED
      BY <1>0, <1>1, <1>4, <3>1, <3>2, <3>4, <3>5, <3>6 DEF Told
  <2> QED
    BY <2>1, <2>2
<1> QED
  BY <1>2, <1>3, <1>5, <1>6 DEF BarsInv, Told

LEMMA BarPlugKeeps ==
  ASSUME BarsAssumption, BarsInv, NEW s0 \in Output, B!Plug(s0)
  PROVE  BarsInv'
<1> PICK t : t = CHOOSE x \in Tag : TRUE
  OBVIOUS
<1>0. /\ s0 \notin B!Live /\ UNCHANGED <<loaded, mapped, current, has, bar>>
      /\ screen' = [screen EXCEPT ![s0] = [live |-> TRUE, tag |-> t, tagsDue |-> FALSE, titleDue |-> None]]
  BY DEF B!Plug, B!Fresh
<1>1. t \in Tag
  BY DEF BarsAssumption
<1>2. /\ screen' \in [Output -> [live : BOOLEAN, tag : Tag, tagsDue : BOOLEAN,
                                 titleDue : Window \cup {None}]]
      /\ \A s \in Output \ {s0} : screen'[s] = screen[s]
      /\ screen'[s0].live
  BY <1>0, <1>1, BarIs DEF BarsType
<1>3. B!Live \subseteq B!Live'
  BY <1>2 DEF B!Live
<1>4. BarsType'
  BY <1>0, <1>2, <1>3, BarIs DEF BarsType
<1>5. ASSUME NEW s \in Output, s \in B!Live
      PROVE  /\ screen'[s].tagsDue = screen[s].tagsDue /\ B!Tags(s)' = B!Tags(s)
             /\ screen'[s].titleDue = screen[s].titleDue
  <2>1. screen'[s] = screen[s]
    BY <1>0, <1>2, <1>5
  <2>2. B!On(s)' = B!On(s)
    BY <1>0 DEF B!On
  <2> QED
    BY <1>0, <2>1, <2>2, SameTags
<1>6. CASE loaded
  BY <1>0, <1>3, <1>4, <1>5, <1>6, BarIs, QuietKeeps
<1>7. CASE ~loaded
  BY <1>0, <1>4, <1>7, BarIs, NoBarsKeeps
<1> QED
  BY <1>6, <1>7

LEMMA BarMoveKeeps ==
  ASSUME BarsAssumption, BarsInv, NEW w \in Window, NEW o \in Output, B!MoveToScreen(w, o)
  PROVE  BarsInv'
<1> PICK old : old = mapped[w].on
  OBVIOUS
<1> PICK at : at = [on |-> o, tag |-> screen[o].tag]
  OBVIOUS
<1> PICK told : told = B!Missed(bar, {o, old}, "tags")
  OBVIOUS
<1>0. /\ mapped[w] # None /\ mapped' = [mapped EXCEPT ![w] = at]
      /\ bar' = IF w = has THEN B!Missed(told, {o}, "title") ELSE told
      /\ UNCHANGED <<loaded, screen, current, has>>
  BY DEF B!MoveToScreen
<1>1. at \in [on : Output, tag : Tag] /\ at.on = o
  BY BarIs DEF BarsType
<1>2. B!Live' = B!Live
  BY <1>0 DEF B!Live
<1>a. /\ mapped' \in [Window -> [on : Output, tag : Tag] \cup {None}]
      /\ mapped'[w].on = o /\ mapped'[w] # None
      /\ \A x \in Window \ {w} : mapped'[x] = mapped[x]
  BY <1>0, <1>1, BarIs DEF BarsType, BarsAssumption
<1>3. BarsType'
  BY <1>0, <1>2, <1>a, BarIs DEF BarsType
<1>4. DOMAIN bar' = Bar
  BY <1>0, BarIs DEF B!Missed
<1>5. ASSUME NEW b \in Bar, bar'[b] # None PROVE Told(b)'
  <2>2. bar[b] # None /\ IsBar(bar[b])
    <3>1. bar[b] # None
      BY <1>0, <1>5, TagsMissed, TitleMissed
    <3> QED
      BY <3>1, BarIs
  <2>3. PICK s \in Output : s = bar[b].on
    BY <2>2 DEF IsBar
  <2>4. /\ IsBar(told[b]) /\ told[b].on = s /\ told[b].active = bar[b].active
        /\ told[b].title = bar[b].title
        /\ told[b].tags = IF s \in {o, old} THEN None ELSE bar[b].tags
    BY <2>2, <2>3, TagsMissed
  <2>5. /\ IsBar(bar'[b]) /\ bar'[b].on = s /\ bar'[b].active = bar[b].active
        /\ bar'[b].tags = told[b].tags
        /\ bar'[b].title = IF w = has /\ s = o THEN None ELSE bar[b].title
    BY <1>0, <2>2, <2>3, <2>4, TitleMissed
  <2>6. /\ loaded /\ s \in B!Live /\ bar[b].active = (current = s)
        /\ has # None /\ mapped[has].on = s /\ screen[s].titleDue # has => bar[b].title \in {None, has}
    BY <2>2, <2>3, BarIs
  <2>7. /\ loaded' /\ s \in B!Live' /\ bar'[b].active = (current' = s)
        /\ has' # None /\ mapped'[has'].on = s /\ screen'[s].titleDue # has' =>
              bar'[b].title \in {None, has'}
    <3>1. has # None /\ has # w => mapped'[has] = mapped[has]
      BY <1>a, BarIs DEF BarsType
    <3> QED
      BY <1>0, <1>2, <1>a, <2>5, <2>6, <3>1
  <2>8. bar'[b].tags = None \/ (bar'[b].tags = bar[b].tags /\ B!Tags(s)' = B!Tags(s))
    <3>1. CASE s \in {o, old}
      BY <2>4, <2>5, <3>1
    <3>2. CASE s \notin {o, old}
      <4>1. \A x \in Window : (x \in B!On(s) <=> x \in B!On(s)')
                              /\ (x \in B!On(s) => mapped'[x].tag = mapped[x].tag)
        BY <1>0, <1>a, <3>2 DEF B!On
      <4> QED
        BY <1>0, <2>4, <2>5, <3>2, <4>1, SameTags
    <3> QED
      BY <3>1, <3>2
  <2> QED
    BY <1>0, <2>2, <2>3, <2>5, <2>7, <2>8, BarStays
<1> QED
  BY <1>3, <1>4, <1>5 DEF BarsInv, Told

LEMMA BarUnmapKeeps ==
  ASSUME BarsAssumption, BarsInv, NEW w \in Window, B!Unmap(w)
  PROVE  BarsInv'
<1> PICK o : o = mapped[w].on
  OBVIOUS
<1>0. /\ mapped[w] # None /\ w # has /\ mapped' = [mapped EXCEPT ![w] = None]
      /\ screen' = B!TagsLater(o)
      /\ bar' = IF o = current THEN B!Missed(bar, {current}, "title") ELSE bar
      /\ UNCHANGED <<loaded, current, has>>
  BY DEF B!Unmap
<1>1. o \in Output
  BY <1>0, BarIs DEF BarsType
<1>2. B!Live' = B!Live
  BY <1>0, <1>1, BarIs, LaterIs DEF B!Live
<1>a. /\ mapped' \in [Window -> [on : Output, tag : Tag] \cup {None}] /\ mapped'[w] = None
      /\ \A x \in Window \ {w} : mapped'[x] = mapped[x]
      /\ has # None => mapped'[has] = mapped[has]
  BY <1>0, BarIs DEF BarsType
<1>3. BarsType'
  BY <1>0, <1>1, <1>2, <1>a, BarIs, LaterIs DEF BarsType
<1>4. DOMAIN bar' = Bar
  BY <1>0, BarIs DEF B!Missed
<1>5. ASSUME NEW b \in Bar, bar'[b] # None PROVE Told(b)'
  <2>1. bar[b] # None /\ IsBar(bar[b])
    BY <1>0, <1>5, BarIs, TitleMissed
  <2>2. PICK s \in Output : s = bar[b].on
    BY <2>1 DEF IsBar
  <2>3. /\ IsBar(bar'[b]) /\ bar'[b].on = s /\ bar'[b].active = bar[b].active
        /\ bar'[b].tags = bar[b].tags
        /\ bar'[b].title \in {None, bar[b].title}
    BY <1>0, <2>1, <2>2, TitleMissed
  <2>4. /\ loaded /\ s \in B!Live /\ bar[b].active = (current = s)
        /\ has # None /\ mapped[has].on = s /\ screen[s].titleDue # has => bar[b].title \in {None, has}
    BY <2>1, <2>2, BarIs
  <2>5. /\ s = o => screen'[s].tagsDue = loaded
        /\ s # o => screen'[s].tagsDue = screen[s].tagsDue
        /\ screen'[s].titleDue = screen[s].titleDue /\ screen'[s].tag = screen[s].tag
    BY <1>0, <1>1, BarIs, LaterIs
  <2>6. /\ loaded' /\ s \in B!Live' /\ bar'[b].active = (current' = s)
        /\ has' # None /\ mapped'[has'].on = s /\ screen'[s].titleDue # has' =>
              bar'[b].title \in {None, has'}
    BY <1>0, <1>2, <1>a, <2>3, <2>4, <2>5
  <2>7. screen'[s].tagsDue \/ (bar'[b].tags = bar[b].tags /\ screen'[s].tagsDue = screen[s].tagsDue
                               /\ B!Tags(s)' = B!Tags(s))
    <3>1. CASE s = o
      BY <2>4, <2>5, <3>1
    <3>2. CASE s # o
      <4>1. \A x \in Window : (x \in B!On(s) <=> x \in B!On(s)')
                              /\ (x \in B!On(s) => mapped'[x].tag = mapped[x].tag)
        BY <1>0, <1>a, <3>2 DEF B!On
      <4> QED
        BY <2>3, <2>5, <3>2, <4>1, SameTags
    <3> QED
      BY <3>1, <3>2
  <2> QED
    BY <2>1, <2>2, <2>3, <2>6, <2>7, BarStays
<1> QED
  BY <1>3, <1>4, <1>5 DEF BarsInv, Told

(* A title that is emptied on one screen.                                  *)
LEMMA EmptiedIs ==
  ASSUME BarsAssumption, BarsInv, NEW s, NEW v, NEW b \in Bar
  PROVE  OnlyTitle(B!Tell(s, "title", v)[b], b) /\ OnlyTitle(bar[b], b)
<1>1. bar[b] # None => IsBar(bar[b])
  BY BarIs
<1> QED
  BY <1>1, TitleTold DEF OnlyTitle

LEMMA BarUnmapFocusedKeeps ==
  ASSUME BarsAssumption, BarsInv, NEW w \in Window, B!UnmapFocused(w)
  PROVE  BarsInv'
<1> PICK o : o = mapped[w].on
  OBVIOUS
<1>p. PICK told, n :
          /\ told = bar \/ \E v : told = B!Tell(o, "title", v)
          /\ n \in (Window \cup {None}) \ {w}
          /\ IF B!Shown(o) \subseteq {w} THEN n = None ELSE n \in B!Shown(o)
          /\ has' = n
          /\ IF n = None THEN screen' = B!TagsLater(o) /\ bar' = told
             ELSE /\ screen' = [B!DueTitle(o, n) EXCEPT ![o].tagsDue = loaded]
                  /\ bar' = B!Skipped(told, o, n)
  <2>1. PICK n \in (Window \cup {None}) \ {w} :
          /\ IF B!Shown(o) \subseteq {w} THEN n = None ELSE n \in B!Shown(o)
          /\ has' = n
          /\ IF n = None
             THEN /\ screen' = B!TagsLater(o)
                  /\ bar' = IF o = current THEN B!Tell(o, "title", "") ELSE bar
             ELSE /\ screen' = [B!DueTitle(o, n) EXCEPT ![o].tagsDue = loaded]
                  /\ bar' = B!Skipped(IF o = current THEN B!Tell(o, "title", "") ELSE bar, o, n)
    BY Zenon DEF B!UnmapFocused
  <2>2. PICK told : told = IF o = current THEN B!Tell(o, "title", "") ELSE bar
    BY Zenon
  <2>3. told = bar \/ \E v : told = B!Tell(o, "title", v)
    BY <2>2, Zenon
  <2> QED
    BY <2>1, <2>2, <2>3, Zenon
<1>0. /\ n \in (Window \cup {None}) \ {w} /\ (n = None \/ n \in B!Shown(o)) /\ has' = n
      /\ IF n = None THEN screen' = B!TagsLater(o) /\ bar' = told
         ELSE /\ screen' = [B!DueTitle(o, n) EXCEPT ![o].tagsDue = loaded]
              /\ bar' = B!Skipped(told, o, n)
  BY <1>p
<1>u. /\ mapped[w] # None /\ w = has /\ mapped' = [mapped EXCEPT ![w] = None]
      /\ UNCHANGED <<loaded, current>>
  BY Zenon DEF B!UnmapFocused
<1>1. o \in Output
  BY <1>u, BarIs DEF BarsType
<1>n. n # None => n \in Window /\ mapped[n] # None /\ mapped[n].on = o
  BY <1>0 DEF B!Shown, B!On
<1>t. \A b \in Bar : OnlyTitle(told[b], b)
  BY <1>p, EmptiedIs
<1>d. DOMAIN told = Bar
  BY <1>p, BarIs DEF B!Tell
<1>s. /\ screen' \in [Output -> [live : BOOLEAN, tag : Tag, tagsDue : BOOLEAN,
                                 titleDue : Window \cup {None}]]
      /\ \A s \in Output :
            /\ screen'[s].live = screen[s].live /\ screen'[s].tag = screen[s].tag
            /\ screen'[s].tagsDue = IF s = o THEN loaded ELSE screen[s].tagsDue
            /\ n # None /\ loaded /\ s = o =>
                  screen'[s].titleDue = IF screen[s].titleDue = None THEN n ELSE screen[s].titleDue
  <2>1. CASE n = None
    <3>1. screen' = B!TagsLater(o)
      BY <1>0, <2>1
    <3> QED
      BY <1>1, <2>1, <3>1, BarIs, LaterIs
  <2>2. CASE n # None
    <3>1. PICK d : d = B!DueTitle(o, n)
      OBVIOUS
    <3>2. d \in [Output -> [live : BOOLEAN, tag : Tag, tagsDue : BOOLEAN,
                            titleDue : Window \cup {None}]]
      BY <1>1, <1>n, <2>2, <3>1, BarIs, DueIs
    <3>3. \A s \in Output :
            /\ d[s].live = screen[s].live /\ d[s].tag = screen[s].tag
            /\ d[s].tagsDue = screen[s].tagsDue
            /\ loaded /\ s = o =>
                  d[s].titleDue = IF screen[s].titleDue = None THEN n ELSE screen[s].titleDue
      <4>1. BarsType /\ n \in Window
        BY <1>n, <2>2, BarIs
      <4>2. \A s \in Output :
              /\ d[s].live = screen[s].live /\ d[s].tag = screen[s].tag
              /\ d[s].tagsDue = screen[s].tagsDue
              /\ d[s].titleDue = IF loaded /\ s = o /\ screen[s].titleDue = None THEN n
                                ELSE screen[s].titleDue
        BY <1>1, <3>1, <4>1, DueIs
      <4> QED
        BY <4>2
    <3>4. screen' = [d EXCEPT ![o].tagsDue = loaded] /\ loaded \in BOOLEAN
      BY <1>0, <2>2, <3>1, BarIs DEF BarsType
    <3>5. /\ screen' \in [Output -> [live : BOOLEAN, tag : Tag, tagsDue : BOOLEAN,
                                     titleDue : Window \cup {None}]]
          /\ \A s \in Output :
                /\ screen'[s].live = d[s].live /\ screen'[s].tag = d[s].tag
                /\ screen'[s].tagsDue = IF s = o THEN loaded ELSE d[s].tagsDue
                /\ screen'[s].titleDue = d[s].titleDue
      <4> DEFINE t == [d[o] EXCEPT !.tagsDue = loaded]
                 ScreenType == [live : BOOLEAN, tag : Tag, tagsDue : BOOLEAN,
                                titleDue : Window \cup {None}]
      <4>1. d \in [Output -> ScreenType] /\ o \in Output
        BY <1>1, <3>2
      <4>2. t \in ScreenType
        BY <3>4, <4>1
      <4>3. t.live = d[o].live /\ t.tag = d[o].tag /\ t.tagsDue = loaded /\ t.titleDue = d[o].titleDue
        BY <4>1
      <4>4. screen' = [d EXCEPT ![o] = t]
        BY <3>4
      <4> HIDE DEF t, ScreenType
      <4>5. screen' \in [Output -> ScreenType]
        BY <4>1, <4>2, <4>4
      <4>6. screen'[o] = t /\ \A s \in Output : s # o => screen'[s] = d[s]
        BY <4>1, <4>4
      <4>7. \A s \in Output :
              /\ screen'[s].live = d[s].live /\ screen'[s].tag = d[s].tag
              /\ screen'[s].tagsDue = IF s = o THEN loaded ELSE d[s].tagsDue
              /\ screen'[s].titleDue = d[s].titleDue
        BY <4>3, <4>6
      <4> QED
        BY <4>5, <4>7 DEF ScreenType
    <3>6. ASSUME NEW s \in Output
          PROVE  /\ screen'[s].live = screen[s].live /\ screen'[s].tag = screen[s].tag
                 /\ screen'[s].tagsDue = IF s = o THEN loaded ELSE screen[s].tagsDue
                 /\ n # None /\ loaded /\ s = o =>
                       screen'[s].titleDue = IF screen[s].titleDue = None THEN n
                                             ELSE screen[s].titleDue
      BY <3>3, <3>5
    <3> QED
      BY <3>5, <3>6
  <2> QED
    BY <2>1, <2>2
<1>2. B!Live' = B!Live
  BY <1>s DEF B!Live
<1>a. /\ mapped' \in [Window -> [on : Output, tag : Tag] \cup {None}] /\ mapped'[w] = None
      /\ \A x \in Window \ {w} : mapped'[x] = mapped[x]
  BY <1>u, BarIs DEF BarsType
<1>b. has' # None => /\ has' = n /\ n # None /\ n \in Window /\ mapped'[n] # None
                     /\ mapped'[n].on = o /\ bar' = B!Skipped(told, o, n)
  BY <1>0, <1>n, <1>a
<1>3. BarsType'
  BY <1>u, <1>2, <1>s, <1>a, <1>b, BarIs DEF BarsType
<1>4. DOMAIN bar' = Bar
  BY <1>0, <1>d DEF B!Skipped, B!Missed
<1>5. ASSUME NEW b \in Bar, bar'[b] # None PROVE Told(b)'
  <2>1. OnlyTitle(bar'[b], b)
    <3>1. CASE n = None
      BY <1>0, <1>t, <3>1
    <3>2. CASE n # None
      <4>1. OnlyTitle(told[b], b)
        BY <1>t
      <4>2. OnlyTitle(B!Skipped(told, o, n)[b], b)
        BY <1>d, <4>1, SkippedIs
      <4> QED
        BY <1>0, <3>2, <4>2
    <3> QED
      BY <3>1, <3>2
  <2>2. bar[b] # None /\ IsBar(bar[b])
    BY <1>5, <2>1, BarIs DEF OnlyTitle
  <2>3. PICK s \in Output : s = bar[b].on
    BY <2>2 DEF IsBar
  <2>4. /\ IsBar(bar'[b]) /\ bar'[b].on = s /\ bar'[b].active = bar[b].active
        /\ bar'[b].tags = bar[b].tags
    BY <1>5, <2>1, <2>3 DEF OnlyTitle
  <2>5. loaded /\ s \in B!Live /\ bar[b].active = (current = s)
    BY <2>2, <2>3, BarIs
  <2>6. has' # None /\ mapped'[has'].on = s /\ screen'[s].titleDue # has' => bar'[b].title = None
    <3> SUFFICES ASSUME has' # None, mapped'[has'].on = s, screen'[s].titleDue # has'
                 PROVE  bar'[b].title = None
      OBVIOUS
    <3>1. /\ has' = n /\ n # None /\ s = o /\ bar' = B!Skipped(told, o, n)
      BY <1>b
    <3>2. screen[o].titleDue \notin {None, n}
      BY <1>1, <1>s, <2>5, <3>1
    <3> QED
      <4>1. OnlyTitle(told[b], b)
        BY <1>t
      <4>2. B!Skipped(told, o, n)[b].title = None
        <5>1. bar[b] # None /\ bar[b].on = o
          BY <2>2, <2>3, <3>1
        <5>2. /\ OnlyTitle(B!Skipped(told, o, n)[b], b)
              /\ bar[b] # None /\ bar[b].on = o /\ screen[o].titleDue \notin {None, n} =>
                    B!Skipped(told, o, n)[b].title = None
          BY <1>d, <4>1, SkippedIs
        <5> QED
          BY <3>2, <5>1, <5>2
      <4> QED
        BY <3>1, <4>2
  <2>7. screen'[s].tagsDue \/ (screen'[s].tagsDue = screen[s].tagsDue
                               /\ B!Tags(s)' = B!Tags(s))
    <3>1. CASE s = o
      BY <1>s, <2>5, <3>1
    <3>2. CASE s # o
      <4>1. \A x \in Window : (x \in B!On(s) <=> x \in B!On(s)')
                              /\ (x \in B!On(s) => mapped'[x].tag = mapped[x].tag)
        BY <1>u, <1>a, <3>2 DEF B!On
      <4> QED
        BY <1>s, <3>2, <4>1, SameTags
    <3> QED
      BY <3>1, <3>2
  <2>8. loaded' /\ s \in B!Live' /\ bar'[b].active = (current' = s)
    BY <1>u, <1>2, <2>4, <2>5
  <2> QED
    BY <2>2, <2>3, <2>4, <2>6, <2>7, <2>8, BarStays
<1> QED
  BY <1>3, <1>4, <1>5 DEF BarsInv, Told

LEMMA BarScreenFocusKeeps ==
  ASSUME BarsAssumption, BarsInv, NEW s0 \in Output, B!FocusScreen(s0)
  PROVE  BarsInv'
<1>0. PICK w, told :
          /\ w \in Window \cup {None}
          /\ B!Newest(s0, w) /\ has' = w
          /\ screen' = IF w \in {None, has} THEN screen ELSE B!DueTitle(s0, w)
          /\ told = IF w \in {None, has} THEN B!Unfocused(w, s0)
                    ELSE B!Skipped(B!Unfocused(w, s0), s0, w)
          /\ bar' = [b \in Bar |-> IF b \in B!BarsOf(s0) \cup B!BarsOf(current)
                                   THEN [told[b] EXCEPT !.active = (bar[b].on = s0)]
                                   ELSE told[b]]
  BY Zenon DEF B!FocusScreen
<1>u. /\ s0 \in B!Live /\ s0 # current /\ current' = s0 /\ UNCHANGED <<loaded, mapped>>
  BY Zenon DEF B!FocusScreen
<1>n. w # None => w \in Window /\ mapped[w] # None /\ mapped[w].on = s0
  BY <1>0 DEF B!Newest, B!Shown, B!On
<1>s. /\ screen' \in [Output -> [live : BOOLEAN, tag : Tag, tagsDue : BOOLEAN,
                                 titleDue : Window \cup {None}]]
      /\ \A s \in Output :
            /\ screen'[s].live = screen[s].live /\ screen'[s].tag = screen[s].tag
            /\ screen'[s].tagsDue = screen[s].tagsDue
            /\ w \notin {None, has} /\ loaded /\ s = s0 =>
                  screen'[s].titleDue = IF screen[s].titleDue = None THEN w ELSE screen[s].titleDue
            /\ w = has => screen'[s].titleDue = screen[s].titleDue
  <2>1. CASE w \in {None, has}
    BY <1>0, <2>1, BarIs DEF BarsType
  <2>2. CASE w \notin {None, has}
    BY <1>0, <1>n, <2>2, BarIs, DueIs
  <2> QED
    BY <2>1, <2>2
<1>2. B!Live' = B!Live
  BY <1>s DEF B!Live
<1>3. BarsType'
  BY <1>0, <1>u, <1>n, <1>2, <1>s, BarIs DEF BarsType
<1>4. DOMAIN bar' = Bar
  BY <1>0
<1>5. ASSUME NEW b \in Bar, bar'[b] # None PROVE Told(b)'
  <2>1. /\ OnlyTitle(told[b], b)
        /\ w \notin {None, has} /\ bar[b] # None /\ bar[b].on = s0
              /\ screen[s0].titleDue \notin {None, w} => told[b].title = None
        /\ w = has => told = bar
    <3>1. OnlyTitle(B!Unfocused(w, s0)[b], b) /\ DOMAIN B!Unfocused(w, s0) = Bar
      BY UnfocusedIs
    <3>2. CASE w \in {None, has}
      <4>1. told = B!Unfocused(w, s0)
        BY <1>0, <3>2
      <4> QED
        BY <3>1, <3>2, <4>1, UnfocusedIs
    <3>3. CASE w \notin {None, has}
      <4>1. told = B!Skipped(B!Unfocused(w, s0), s0, w)
        BY <1>0, <3>3
      <4> QED
        BY <3>1, <3>3, <4>1, SkippedIs
    <3> QED
      BY <3>2, <3>3
  <2>a. PICK a \in BOOLEAN : a = (bar[b].on = s0)
    OBVIOUS
  <2>b. bar'[b] = IF b \in B!BarsOf(s0) \cup B!BarsOf(current) THEN [told[b] EXCEPT !.active = a]
                  ELSE told[b]
    BY <1>0, <2>a
  <2>2. bar[b] # None /\ IsBar(bar[b])
    <3>1. bar[b] # None
      BY <1>5, <2>1, <2>b DEF OnlyTitle, B!BarsOf
    <3> QED
      BY <3>1, BarIs
  <2>3. PICK s \in Output : s = bar[b].on
    BY <2>2 DEF IsBar
  <2>4. /\ IsBar(told[b]) /\ told[b].on = s /\ told[b].active = bar[b].active
        /\ told[b].tags = bar[b].tags
    BY <2>1, <2>2, <2>3 DEF OnlyTitle
  <2>5. loaded /\ s \in B!Live /\ bar[b].active = (current = s)
    BY <2>2, <2>3, BarIs
  <2>c. /\ IsBar(bar'[b]) /\ bar'[b].on = s /\ bar'[b].tags = bar[b].tags
        /\ bar'[b].title = told[b].title
        /\ bar'[b].active = (s = s0)
    <3>1. CASE s \in {s0, current}
      <4>1. bar'[b] = [told[b] EXCEPT !.active = a]
        BY <2>b, <2>2, <2>3, <3>1 DEF B!BarsOf
      <4> QED
        BY <2>a, <2>3, <2>4, <4>1 DEF IsBar
    <3>2. CASE s \notin {s0, current}
      <4>1. bar'[b] = told[b]
        BY <2>b, <2>3, <3>2 DEF B!BarsOf
      <4> QED
        BY <2>4, <2>5, <3>2, <4>1 DEF IsBar
    <3> QED
      BY <3>1, <3>2
  <2>6. has' # None /\ mapped'[has'].on = s /\ screen'[s].titleDue # has' =>
            bar'[b].title \in {None, has'}
    <3> SUFFICES ASSUME has' # None, mapped'[has'].on = s, screen'[s].titleDue # has'
                 PROVE  bar'[b].title \in {None, has'}
      OBVIOUS
    <3>1. has' = w /\ w # None /\ s = s0
      BY <1>0, <1>u, <1>n
    <3>2. CASE w = has
      <4>1. bar[b].title \in {None, has}
        <5>1. mapped[has].on = s /\ screen[s].titleDue # has /\ has # None
          BY <1>u, <1>s, <3>1, <3>2
        <5> QED
          BY <2>2, <2>3, <5>1, BarIs
      <4> QED
        BY <2>1, <2>c, <3>1, <3>2, <4>1
    <3>3. CASE w # has
      <4>1. screen[s0].titleDue \notin {None, w}
        BY <1>s, <2>5, <3>1, <3>3
      <4> QED
        BY <2>1, <2>2, <2>3, <2>c, <3>1, <3>3, <4>1
    <3> QED
      BY <3>2, <3>3
  <2>7. screen'[s].tagsDue = screen[s].tagsDue /\ B!Tags(s)' = B!Tags(s)
    <3>1. B!On(s)' = B!On(s)
      BY <1>u DEF B!On
    <3> QED
      BY <1>u, <1>s, <3>1, SameTags
  <2>8. loaded' /\ s \in B!Live' /\ bar'[b].active = (current' = s)
    BY <1>u, <1>2, <2>c, <2>5
  <2> QED
    BY <2>2, <2>3, <2>c, <2>6, <2>7, <2>8, BarStays
<1> QED
  BY <1>3, <1>4, <1>5 DEF BarsInv, Told

(* The screens when the output s0 goes and its windows move to o.          *)
AfterUnplug(s, o, d) == [screen EXCEPT ![s] = B!Gone, ![o].tagsDue = d]

LEMMA UnplugScreens ==
  ASSUME BarsAssumption, BarsType, NEW s0 \in Output, NEW o \in Output, o # s0,
         NEW d \in BOOLEAN, screen' = AfterUnplug(s0, o, d)
  PROVE  /\ screen' \in [Output -> [live : BOOLEAN, tag : Tag, tagsDue : BOOLEAN,
                                    titleDue : Window \cup {None}]]
         /\ ~screen'[s0].live
         /\ \A s \in Output \ {s0} :
               /\ screen'[s].live = screen[s].live /\ screen'[s].tag = screen[s].tag
               /\ screen'[s].tagsDue = IF s = o THEN d ELSE screen[s].tagsDue
               /\ screen'[s].titleDue = screen[s].titleDue
<1> USE DEF AfterUnplug
<1> PICK t : t = CHOOSE x \in Tag : TRUE
  OBVIOUS
<1>g. B!Gone = [live |-> FALSE, tag |-> t, tagsDue |-> FALSE, titleDue |-> None] /\ t \in Tag
  <2> PICK f : f = [live |-> TRUE, tag |-> t, tagsDue |-> FALSE, titleDue |-> None]
    OBVIOUS
  <2>1. B!Fresh = f
    BY DEF B!Fresh
  <2>2. B!Gone = [f EXCEPT !.live = FALSE]
    BY <2>1, Zenon DEF B!Gone
  <2>3. t \in Tag
    BY DEF BarsAssumption
  <2> QED
    BY <2>2, <2>3
<1> DEFINE due == DueTags(o, d)
<1>d. /\ due \in [Output -> [live : BOOLEAN, tag : Tag, tagsDue : BOOLEAN,
                             titleDue : Window \cup {None}]]
      /\ \A s \in Output : /\ due[s].live = screen[s].live /\ due[s].tag = screen[s].tag
                           /\ due[s].tagsDue = IF s = o THEN d ELSE screen[s].tagsDue
                           /\ due[s].titleDue = screen[s].titleDue
  BY DueTagsIs
<1>2. PICK f : f = due
  OBVIOUS
<1> HIDE DEF due
<1>3. /\ f \in [Output -> [live : BOOLEAN, tag : Tag, tagsDue : BOOLEAN,
                           titleDue : Window \cup {None}]]
      /\ \A s \in Output : /\ f[s].live = screen[s].live /\ f[s].tag = screen[s].tag
                           /\ f[s].tagsDue = IF s = o THEN d ELSE screen[s].tagsDue
                           /\ f[s].titleDue = screen[s].titleDue
  BY <1>d, <1>2
<1>4. PICK g : g = B!Gone
  OBVIOUS
<1>5. screen' = [f EXCEPT ![s0] = g]
  <2>1. /\ DOMAIN screen' = Output /\ screen'[s0] = g
        /\ screen'[o] = [screen[o] EXCEPT !.tagsDue = d]
        /\ \A s \in Output \ {s0, o} : screen'[s] = screen[s]
    BY <1>4 DEF BarsType
  <2>2. f[o] = [screen[o] EXCEPT !.tagsDue = d] /\ \A s \in Output \ {o} : f[s] = screen[s]
    BY <1>2 DEF due, BarsType, DueTags
  <2>3. screen' = [s \in Output |-> screen'[s]]
    BY DEF BarsType
  <2>4. \A s \in Output : screen'[s] = IF s = s0 THEN g ELSE f[s]
    BY <2>1, <2>2
  <2> QED
    BY <1>3, <2>3, <2>4
<1>6. g \in [live : BOOLEAN, tag : Tag, tagsDue : BOOLEAN, titleDue : Window \cup {None}]
      /\ ~g.live
  BY <1>g, <1>4
<1> QED
  BY <1>3, <1>5, <1>6

LEMMA BarUnplugKeeps ==
  ASSUME BarsAssumption, BarsInv, NEW s0 \in Output, NEW o \in Output, B!Unplug(s0, o)
  PROVE  BarsInv'
<1>d. PICK d \in BOOLEAN : /\ screen' = AfterUnplug(s0, o, d)
                           /\ B!On(s0) = {} => d = screen[o].tagsDue
  <2> DEFINE due == screen[o].tagsDue \/ (loaded /\ \E w \in B!On(s0) :
                                                    mapped[w].tag # screen[o].tag)
  <2>1. screen' = AfterUnplug(s0, o, due)
    BY Zenon DEF B!Unplug, AfterUnplug
  <2>2. due \in BOOLEAN
    OBVIOUS
  <2>3. screen[o].tagsDue \in BOOLEAN
    BY BarIs DEF BarsType
  <2>4. B!On(s0) = {} => due = screen[o].tagsDue
    BY <2>3
  <2> HIDE DEF due
  <2> QED
    BY <2>1, <2>2, <2>4
<1> PICK kept : kept = [b \in Bar |-> IF b \in B!BarsOf(s0) THEN None ELSE bar[b]]
  OBVIOUS
<1> PICK told : told = IF B!On(s0) = {} THEN kept ELSE B!Missed(kept, {o}, "tags")
  OBVIOUS
<1>0. /\ s0 \in B!Live /\ s0 # current /\ o \in B!Live /\ o # s0
      /\ mapped' = [w \in Window |-> IF w \in B!On(s0) THEN [mapped[w] EXCEPT !.on = o]
                                     ELSE mapped[w]]
      /\ bar' = IF has \in B!On(s0) THEN B!Missed(told, {o}, "title") ELSE told
      /\ UNCHANGED <<loaded, current, has>>
  BY DEF B!Unplug
<1>s. /\ screen' \in [Output -> [live : BOOLEAN, tag : Tag, tagsDue : BOOLEAN,
                                 titleDue : Window \cup {None}]]
      /\ ~screen'[s0].live
      /\ \A s \in Output \ {s0} :
            /\ screen'[s].live = screen[s].live /\ screen'[s].tag = screen[s].tag
            /\ screen'[s].tagsDue = IF s = o THEN d ELSE screen[s].tagsDue
            /\ screen'[s].titleDue = screen[s].titleDue
  BY <1>0, <1>d, BarIs, UnplugScreens
<1>2. B!Live' = B!Live \ {s0}
  BY <1>s DEF B!Live
<1>a. /\ mapped' \in [Window -> [on : Output, tag : Tag] \cup {None}]
      /\ \A w \in Window : /\ w \notin B!On(s0) => mapped'[w] = mapped[w]
                           /\ w \in B!On(s0) => mapped'[w] # None /\ mapped'[w].on = o
  BY <1>0, BarIs DEF BarsType, BarsAssumption, B!On
<1>3. BarsType'
  BY <1>0, <1>2, <1>s, <1>a, BarIs DEF BarsType
<1>4. DOMAIN bar' = Bar
  <2>1. DOMAIN told = Bar
    BY DEF B!Missed
  <2> QED
    BY <1>0, <2>1 DEF B!Missed
<1>5. ASSUME NEW b \in Bar, bar'[b] # None PROVE Told(b)'
  <2>1. kept[b] = None /\ (bar[b] # None => bar[b].on = s0) => bar'[b] = None
    <3> HAVE kept[b] = None /\ (bar[b] # None => bar[b].on = s0)
    <3>1. told[b] = None
      BY <1>0, TagsMissed
    <3> QED
      BY <1>0, <3>1, TitleMissed
  <2>2. bar[b] # None /\ kept[b] = bar[b] /\ bar[b].on # s0
    BY <1>5, <2>1 DEF B!BarsOf
  <2>3. bar[b] # None /\ IsBar(bar[b]) /\ kept[b] = bar[b] /\ bar[b].on # s0
    BY <2>2, BarIs
  <2>4. PICK s \in Output : s = bar[b].on
    BY <2>3 DEF IsBar
  <2>5. /\ IsBar(told[b]) /\ told[b].on = s /\ told[b].active = bar[b].active
        /\ told[b].title = bar[b].title
        /\ told[b].tags = IF B!On(s0) # {} /\ s = o THEN None ELSE bar[b].tags
    <3>1. CASE B!On(s0) = {}
      BY <2>3, <2>4, <3>1
    <3>2. CASE B!On(s0) # {}
      BY <2>3, <2>4, <3>2, TagsMissed
    <3> QED
      BY <3>1, <3>2
  <2>6. /\ IsBar(bar'[b]) /\ bar'[b].on = s /\ bar'[b].active = bar[b].active
        /\ bar'[b].tags = told[b].tags
        /\ bar'[b].title = IF has \in B!On(s0) /\ s = o THEN None ELSE bar[b].title
    BY <1>0, <2>3, <2>4, <2>5, TitleMissed
  <2>7. /\ loaded /\ s \in B!Live /\ s # s0 /\ bar[b].active = (current = s)
        /\ has # None /\ mapped[has].on = s /\ screen[s].titleDue # has => bar[b].title \in {None, has}
    BY <2>3, <2>4, BarIs
  <2>8. /\ loaded' /\ s \in B!Live' /\ bar'[b].active = (current' = s)
        /\ has' # None /\ mapped'[has'].on = s /\ screen'[s].titleDue # has' =>
              bar'[b].title \in {None, has'}
    <3>1. /\ has # None /\ has \notin B!On(s0) => mapped'[has] = mapped[has]
          /\ has # None /\ has \in B!On(s0) => mapped'[has].on = o
      BY <1>a, BarIs DEF BarsType
    <3>2. loaded' /\ s \in B!Live' /\ bar'[b].active = (current' = s)
      BY <1>0, <1>2, <2>6, <2>7
    <3>3. screen'[s].titleDue = screen[s].titleDue
      BY <1>s, <2>7
    <3>4. ASSUME has' # None, mapped'[has'].on = s, screen'[s].titleDue # has'
          PROVE  bar'[b].title \in {None, has'}
      <4>1. has' = has
        BY <1>0
      <4>2. CASE has \in B!On(s0)
        <5>1. s = o
          BY <3>1, <3>4, <4>1, <4>2
        <5> QED
          BY <2>6, <4>2, <5>1
      <4>3. CASE has \notin B!On(s0)
        <5>1. mapped[has].on = s /\ screen[s].titleDue # has /\ has # None
          BY <3>1, <3>3, <3>4, <4>1, <4>3
        <5> QED
          BY <2>6, <2>7, <4>1, <4>3, <5>1
      <4> QED
        BY <4>2, <4>3
    <3> QED
      BY <3>2, <3>4
  <2>9. \/ bar'[b].tags = None
        \/ /\ bar'[b].tags = bar[b].tags /\ B!Tags(s)' = B!Tags(s)
           /\ screen'[s].tagsDue = screen[s].tagsDue
    <3>1. CASE s = o /\ B!On(s0) # {}
      BY <2>5, <2>6, <3>1
    <3>2. CASE s # o \/ B!On(s0) = {}
      <4>1. \A x \in Window : (x \in B!On(s) <=> x \in B!On(s)')
                              /\ (x \in B!On(s) => mapped'[x].tag = mapped[x].tag)
        BY <1>a, <2>7, <3>2 DEF B!On
      <4>2. screen'[s].tag = screen[s].tag /\ screen'[s].tagsDue = screen[s].tagsDue
        <5>1. s \in Output \ {s0}
          BY <2>7
        <5>2. /\ screen'[s].tag = screen[s].tag
              /\ screen'[s].tagsDue = IF s = o THEN d ELSE screen[s].tagsDue
          BY <1>s, <5>1
        <5>3. CASE s # o
          BY <5>2, <5>3
        <5>4. CASE s = o
          <6>1. B!On(s0) = {}
            BY <3>2, <5>4
          <6>2. d = screen[o].tagsDue
            BY <1>d, <6>1
          <6> QED
            BY <5>2, <5>4, <6>2
        <5> QED
          BY <5>3, <5>4
      <4> QED
        <5>1. B!Tags(s)' = B!Tags(s)
          BY <4>1, <4>2, SameTags
        <5>2. bar'[b].tags = bar[b].tags
          BY <2>5, <2>6, <3>2
        <5> QED
          BY <4>2, <5>1, <5>2
    <3> QED
      BY <3>1, <3>2
  <2> QED
    BY <1>0, <2>3, <2>4, <2>6, <2>8, <2>9, BarStays
<1> QED
  BY <1>3, <1>4, <1>5 DEF BarsInv, Told

LEMMA BarsStep == BarsAssumption /\ BarsInv /\ B!BarsNext => BarsInv'
<1> SUFFICES ASSUME BarsAssumption, BarsInv, B!BarsNext PROVE BarsInv'
  OBVIOUS
<1>1. ASSUME NEW w \in Window, B!Focus(w) \/ B!Map(w) \/ B!Unmap(w) \/ B!UnmapFocused(w)
      PROVE  BarsInv'
  BY <1>1, BarFocusKeeps, BarMapKeeps, BarUnmapKeeps, BarUnmapFocusedKeeps
<1>2. ASSUME NEW w \in Window, NEW t \in Tag, B!SetTag(w, t) PROVE BarsInv'
  BY <1>2, BarTagKeeps
<1>3. ASSUME NEW w \in Window, NEW s \in Output, B!MoveToScreen(w, s) PROVE BarsInv'
  BY <1>3, BarMoveKeeps
<1>4. ASSUME NEW s \in Output,
             B!FocusScreen(s) \/ B!UpdateAllTagState(s) \/ B!UpdateProp(s) \/ B!Plug(s)
      PROVE  BarsInv'
  BY <1>4, BarScreenFocusKeeps, BarTagsSentKeeps, BarTitleSentKeeps, BarPlugKeeps
<1>5. ASSUME NEW s \in Output, NEW t \in Tag, B!View(s, t) \/ B!Select(s, t) PROVE BarsInv'
  BY <1>5, BarTagKeeps, BarSelectKeeps
<1>6. ASSUME NEW s \in Output, NEW o \in Output, B!Unplug(s, o) PROVE BarsInv'
  BY <1>6, BarUnplugKeeps
<1>7. ASSUME NEW b \in Bar, B!Release(b) \/ \E s \in Watched : B!Bind(b, s) PROVE BarsInv'
  <2>1. \A s \in Watched : B!Bind(b, s) => s \in Output
    BY DEF B!Bind, B!Live
  <2> QED
    BY <1>7, <2>1, BarBindKeeps
<1> QED
  BY <1>1, <1>2, <1>3, <1>4, <1>5, <1>6, <1>7, BarPropKeeps, BlurKeeps, PluginKeeps DEF B!BarsNext

(***************************************************************************)
(* The hash map                                                            *)
(***************************************************************************)

CONSTANTS Hash, MaxUse, Prealloc
VARIABLES table, kept

H == INSTANCE HashMap WITH held <- kept

(* The hash of a key is never 0.                                           *)
MapAssumption == Hash \subseteq Nat \ {0} /\ Prealloc \in 0 .. 64

Slots(m) == 0 .. m.alloc - 1

Shaped(m) ==
    /\ m = [hash |-> m.hash, next |-> m.next, alloc |-> m.alloc, size |-> m.size,
            removed |-> m.removed]
    /\ m.alloc \in Nat /\ m.alloc > 0
    /\ m.hash \in [Slots(m) -> Nat] /\ m.next \in [Slots(m) -> Slots(m) \cup {-1}]
    /\ m.size \in Nat /\ m.removed \in Nat

(***************************************************************************)
(* Walking along a chain                                                   *)
(***************************************************************************)

WalksOn(f, n, m, h) ==
    f = [i \in 0 .. n |-> IF i = 0 THEN H!Root(m, h) ELSE H!Follow(m, h, f[i - 1])]

Steps(f, n, m, h) ==
    /\ f[0] = H!Root(m, h)
    /\ \A i \in 1 .. n : f[i] = H!Follow(m, h, f[i - 1])

LEMMA WalksSteps ==
  ASSUME NEW f, NEW n \in Nat, NEW m, NEW h
  PROVE  WalksOn(f, n, m, h) <=> f = [i \in 0 .. n |-> f[i]] /\ Steps(f, n, m, h)
<1> DEFINE Value(i) == H!Follow(m, h, f[i - 1])
           first == H!Root(m, h)
<1>1. WalksOn(f, n, m, h) <=> f = [i \in 0 .. n |-> IF i = 0 THEN first ELSE Value(i)]
  BY Zenon DEF WalksOn
<1> HIDE DEF Value, first
<1>2. /\ 0 \in 0 .. n /\ 1 .. n \subseteq 0 .. n /\ \A i \in 1 .. n : i # 0
      /\ \A i \in 0 .. n : i = 0 \/ i \in 1 .. n
  OBVIOUS
<1>3. ASSUME f = [i \in 0 .. n |-> IF i = 0 THEN first ELSE Value(i)]
      PROVE  f = [i \in 0 .. n |-> f[i]] /\ f[0] = first /\ \A i \in 1 .. n : f[i] = Value(i)
  BY <1>2, <1>3, Zenon
<1>4. ASSUME f = [i \in 0 .. n |-> f[i]], f[0] = first, \A i \in 1 .. n : f[i] = Value(i)
      PROVE  f = [i \in 0 .. n |-> IF i = 0 THEN first ELSE Value(i)]
  <2>1. \A i \in 0 .. n : f[i] = IF i = 0 THEN first ELSE Value(i)
    BY <1>2, <1>4
  <2> QED
    BY <1>4, <2>1, Zenon
<1> QED
  BY <1>1, <1>3, <1>4, Zenon DEF Value, first, Steps

LEMMA WalksExist == ASSUME NEW n \in Nat, NEW m, NEW h PROVE \E f : WalksOn(f, n, m, h)
<1> DEFINE Fails == {i \in Nat : ~ \E f : WalksOn(f, i, m, h)}
<1> SUFFICES ASSUME Fails # {} PROVE FALSE
  OBVIOUS
<1>1. PICK i \in Fails : \A j \in Fails : i <= j
  BY FirstPlace
<1>2. i # 0
  <2> DEFINE f == [j \in 0 .. 0 |-> H!Root(m, h)]
  <2>1. f = [j \in 0 .. 0 |-> f[j]] /\ f[0] = H!Root(m, h) /\ 0 \in Nat
    OBVIOUS
  <2>2. 1 .. 0 = {}
    OBVIOUS
  <2> HIDE DEF f
  <2>3. Steps(f, 0, m, h)
    BY <2>1, <2>2 DEF Steps
  <2>4. WalksOn(f, 0, m, h)
    BY <2>1, <2>3, WalksSteps
  <2> QED
    BY <2>4
<1>3. i - 1 \in Nat /\ i - 1 \notin Fails /\ i \in Nat
  BY <1>1, <1>2
<1>4. PICK f : WalksOn(f, i - 1, m, h)
  BY <1>3
<1>5. Steps(f, i - 1, m, h)
  BY <1>3, <1>4, WalksSteps
<1> DEFINE v == H!Follow(m, h, f[i - 1])
           g == [j \in 0 .. i |-> IF j = i THEN v ELSE f[j]]
<1> HIDE DEF v
<1>6. /\ g = [j \in 0 .. i |-> g[j]] /\ g[i] = v
      /\ \A j \in 0 .. i - 1 : g[j] = f[j]
  BY <1>2, <1>3
<1> HIDE DEF g, Fails
<1>7. /\ 0 \in 0 .. i - 1
      /\ \A j \in 1 .. i : j - 1 \in 0 .. i - 1
      /\ \A j \in 1 .. i : j # i => j \in 1 .. i - 1 /\ j \in 0 .. i - 1
  BY <1>2, <1>3
<1>8. g[0] = H!Root(m, h)
  BY <1>5, <1>6, <1>7, Zenon DEF Steps
<1>9. ASSUME NEW j \in 1 .. i PROVE g[j] = H!Follow(m, h, g[j - 1])
  <2>1. g[j - 1] = f[j - 1]
    BY <1>6, <1>7, Zenon
  <2>2. CASE j = i
    BY <1>6, <2>1, <2>2, Zenon DEF v
  <2>3. CASE j # i
    <3>1. j \in 1 .. i - 1 /\ j \in 0 .. i - 1
      BY <1>7, <2>3
    <3>2. g[j] = f[j] /\ f[j] = H!Follow(m, h, f[j - 1])
      BY <1>5, <1>6, <3>1, Zenon DEF Steps
    <3> QED
      BY <2>1, <3>2, Zenon
  <2> QED
    BY <2>2, <2>3
<1>10. Steps(g, i, m, h)
  BY <1>8, <1>9, Zenon DEF Steps
<1>11. WalksOn(g, i, m, h)
  BY <1>3, <1>6, <1>10, WalksSteps
<1> QED
  BY <1>1, <1>11 DEF Fails

(* The places of a walk are slots; a step leads along a link.              *)
LEMMA LookupIs ==
  ASSUME NEW m, Shaped(m), NEW h \in Nat
  PROVE  \E f : H!Lookup(m, h) = f[m.alloc] /\ Steps(f, m.alloc, m, h)
<1> DEFINE f == CHOOSE f : WalksOn(f, m.alloc, m, h)
<1>1. m.alloc \in Nat
  BY DEF Shaped
<1>2. WalksOn(f, m.alloc, m, h)
  BY <1>1, WalksExist
<1>3. H!Lookup(m, h) = f[m.alloc]
  BY Zenon DEF H!Lookup, WalksOn
<1> HIDE DEF f
<1>4. Steps(f, m.alloc, m, h)
  BY <1>1, <1>2, WalksSteps
<1> QED
  BY <1>3, <1>4

(* What a walk for h is at: in a slot, behind one that links to it unless  *)
(* it is the first; or past the end, behind the last of the chain.         *)
Placed(m, h, w) ==
    /\ w = [at |-> w.at, prev |-> w.prev]
    /\ w.at \in Slots(m) \cup {-1} /\ w.prev \in Slots(m)
    /\ \/ w.at = h % m.alloc /\ w.prev = w.at
       \/ w.at = m.next[w.prev] /\ m.hash[w.prev] # h

LEMMA RootIsPlaced ==
  ASSUME NEW m, Shaped(m), NEW h \in Nat
  PROVE  Placed(m, h, H!Root(m, h)) /\ H!Root(m, h).at \in Slots(m)
<1>1. m.alloc \in Nat /\ m.alloc > 0
  BY DEF Shaped
<1>2. h % m.alloc \in 0 .. m.alloc - 1
  BY <1>1
<1> QED
  BY <1>2 DEF Placed, H!Root, Slots

LEMMA FollowIsPlaced ==
  ASSUME NEW m, Shaped(m), NEW h \in Nat, NEW w, Placed(m, h, w)
  PROVE  Placed(m, h, H!Follow(m, h, w))
<1>1. CASE w.at = -1 \/ m.hash[w.at] = h
  BY <1>1 DEF H!Follow, H!NoLink
<1>2. CASE w.at # -1 /\ m.hash[w.at] # h
  <2>1. H!Follow(m, h, w) = [at |-> m.next[w.at], prev |-> w.at] /\ w.at \in Slots(m)
    BY <1>2 DEF H!Follow, H!NoLink, Placed
  <2>2. m.next[w.at] \in Slots(m) \cup {-1}
    BY <2>1 DEF Shaped
  <2> QED
    BY <1>2, <2>1, <2>2 DEF Placed
<1> QED
  BY <1>1, <1>2

LEMMA WalkIsPlaced ==
  ASSUME NEW m, Shaped(m), NEW h \in Nat, NEW f, Steps(f, m.alloc, m, h)
  PROVE  \A i \in 0 .. m.alloc : Placed(m, h, f[i])
<1> DEFINE Fails == {i \in 0 .. m.alloc : ~ Placed(m, h, f[i])}
<1> SUFFICES ASSUME Fails # {} PROVE FALSE
  OBVIOUS
<1>1. m.alloc \in Nat /\ Fails \subseteq Nat
  BY DEF Shaped
<1> HIDE DEF Fails
<1>2. PICK i \in Fails : \A j \in Fails : i <= j
  BY <1>1, FirstPlace
<1>3. i \in 0 .. m.alloc /\ ~ Placed(m, h, f[i])
  BY <1>2 DEF Fails
<1>4. i # 0
  BY <1>3, RootIsPlaced DEF Steps
<1>5. i \in 1 .. m.alloc /\ i - 1 \in 0 .. m.alloc /\ ~(i <= i - 1)
  BY <1>1, <1>3, <1>4
<1>6. Placed(m, h, f[i - 1])
  BY <1>2, <1>5 DEF Fails
<1>7. f[i] = H!Follow(m, h, f[i - 1])
  BY <1>5 DEF Steps
<1> QED
  BY <1>3, <1>6, <1>7, FollowIsPlaced

(* A walk that has come to an end stays there.                             *)
LEMMA WalkStops ==
  ASSUME NEW m, Shaped(m), NEW h \in Nat, NEW f, Steps(f, m.alloc, m, h),
         NEW k \in 0 .. m.alloc, f[k].at = -1 \/ m.hash[f[k].at] = h
  PROVE  \A i \in k .. m.alloc : f[i] = f[k]
<1> DEFINE Fails == {i \in k .. m.alloc : f[i] # f[k]}
<1> SUFFICES ASSUME Fails # {} PROVE FALSE
  OBVIOUS
<1>1. m.alloc \in Nat /\ Fails \subseteq Nat
  BY DEF Shaped
<1> HIDE DEF Fails
<1>2. PICK i \in Fails : \A j \in Fails : i <= j
  BY <1>1, FirstPlace
<1>3. i \in k .. m.alloc /\ f[i] # f[k]
  BY <1>2 DEF Fails
<1>4. i \in 1 .. m.alloc /\ i - 1 \in k .. m.alloc /\ ~(i <= i - 1)
  BY <1>1, <1>3
<1>5. f[i - 1] = f[k]
  BY <1>2, <1>4 DEF Fails
<1>6. f[i] = H!Follow(m, h, f[i - 1])
  BY <1>4 DEF Steps
<1> QED
  BY <1>3, <1>5, <1>6 DEF H!Follow, H!NoLink

(* Slots that lead nowhere: the walk that finds h does not come there.     *)
Dead(m, h, Dark) ==
    /\ Dark \subseteq Slots(m)
    /\ \A x \in Dark : m.hash[x] # h /\ m.next[x] \in Dark \cup {-1}

LEMMA DeadStays ==
  ASSUME NEW m, Shaped(m), NEW h \in Nat, NEW f, Steps(f, m.alloc, m, h), NEW Dark,
         Dead(m, h, Dark), f[m.alloc].at \in H!SlotsOf(m, h)
  PROVE  \A i \in 0 .. m.alloc : f[i].at \in Slots(m) \ Dark
<1> SUFFICES ASSUME NEW k \in 0 .. m.alloc, f[k].at \notin Slots(m) \ Dark PROVE FALSE
  OBVIOUS
<1> DEFINE Y == Dark \cup {-1}
           Fails == {i \in k .. m.alloc : f[i].at \notin Y}
<1>1. m.alloc \in Nat /\ Fails \subseteq Nat
  BY DEF Shaped
<1>2. f[k].at \in Y
  BY WalkIsPlaced DEF Placed
<1>3. m.alloc \in Fails
  <2>1. f[m.alloc].at \in Slots(m) /\ m.hash[f[m.alloc].at] = h /\ -1 \notin Slots(m)
    BY <1>1 DEF H!SlotsOf, Slots
  <2>2. m.alloc \in k .. m.alloc
    BY <1>1
  <2> QED
    BY <2>1, <2>2 DEF Dead
<1> HIDE DEF Fails
<1>4. PICK i \in Fails : \A j \in Fails : i <= j
  BY <1>1, <1>3, FirstPlace
<1>5. i \in k .. m.alloc /\ f[i].at \notin Y
  BY <1>4 DEF Fails
<1>6. i # k
  BY <1>2, <1>5
<1>7. i \in 1 .. m.alloc /\ i - 1 \in k .. m.alloc /\ ~(i <= i - 1)
  BY <1>1, <1>5, <1>6
<1>8. f[i - 1].at \in Y
  BY <1>4, <1>7 DEF Fails
<1>9. f[i] = H!Follow(m, h, f[i - 1])
  BY <1>7 DEF Steps
<1>10. CASE f[i - 1].at = -1
  BY <1>5, <1>9, <1>10 DEF H!Follow, H!NoLink
<1>11. CASE f[i - 1].at \in Dark
  BY <1>5, <1>9, <1>11 DEF H!Follow, H!NoLink, Dead
<1> QED
  BY <1>8, <1>10, <1>11

(* What changes in slots where a walk does not come, and hashes of others, *)
(* does not change the walk.                                               *)
LEMMA FoundStays ==
  ASSUME NEW m, Shaped(m), NEW n, Shaped(n), n.alloc = m.alloc, NEW h \in Nat, NEW Dark,
         Dead(m, h, Dark), H!Found(m, h),
         \A x \in Slots(m) : m.hash[x] = h <=> n.hash[x] = h,
         \A x \in Slots(m) \ Dark : m.hash[x] # h => n.next[x] = m.next[x]
  PROVE  H!Found(n, h)
<1>1. PICK f : H!Lookup(m, h) = f[m.alloc] /\ Steps(f, m.alloc, m, h)
  BY LookupIs
<1>2. PICK g : H!Lookup(n, h) = g[m.alloc] /\ Steps(g, m.alloc, n, h)
  BY LookupIs
<1>3. m.alloc \in Nat
  BY DEF Shaped
<1>4. f[m.alloc].at \in H!SlotsOf(m, h)
  BY <1>1 DEF H!Found
<1>5. \A i \in 0 .. m.alloc : f[i].at \in Slots(m) \ Dark
  BY <1>1, <1>4, DeadStays
<1> DEFINE Fails == {i \in 0 .. m.alloc : f[i] # g[i]}
<1>6. Fails = {}
  <2> SUFFICES ASSUME Fails # {} PROVE FALSE
    OBVIOUS
  <2>1. Fails \subseteq Nat
    BY <1>3
  <2> HIDE DEF Fails
  <2>2. PICK i \in Fails : \A j \in Fails : i <= j
    BY <2>1, FirstPlace
  <2>3. i \in 0 .. m.alloc /\ f[i] # g[i]
    BY <2>2 DEF Fails
  <2>4. i # 0
    BY <1>1, <1>2, <2>3 DEF Steps, H!Root
  <2>5. i \in 1 .. m.alloc /\ i - 1 \in 0 .. m.alloc /\ ~(i <= i - 1)
    BY <1>3, <2>3, <2>4
  <2>6. f[i - 1] = g[i - 1]
    BY <2>2, <2>5 DEF Fails
  <2>7. f[i] = H!Follow(m, h, f[i - 1]) /\ g[i] = H!Follow(n, h, f[i - 1])
    BY <1>1, <1>2, <2>5, <2>6 DEF Steps
  <2>8. f[i - 1].at \in Slots(m) \ Dark
    BY <1>5, <2>5
  <2> QED
    BY <2>3, <2>7, <2>8 DEF H!Follow
<1>7. f[m.alloc] = g[m.alloc]
  BY <1>3, <1>6
<1> QED
  BY <1>2, <1>4, <1>7 DEF H!Found, H!SlotsOf, Slots

(***************************************************************************)
(* What a table holds                                                      *)
(***************************************************************************)

(* Each of the keys is in one slot, and found there.                       *)
Good(m, Pool) ==
    /\ Shaped(m)
    /\ IsFiniteSet(Pool) /\ Pool \subseteq Nat \ {0} /\ m.size = Cardinality(Pool)
    /\ \A i \in Slots(m) : m.hash[i] # 0 => m.hash[i] \in Pool
    /\ \A i, j \in Slots(m) : m.hash[i] = m.hash[j] /\ m.hash[i] # 0 => i = j
    /\ \A h \in Pool : H!Found(m, h)

(* There are no more keys than slots, and with fewer a slot is free.       *)
LEMMA RoomForAll ==
  ASSUME NEW m, NEW Pool, Good(m, Pool)
  PROVE  m.size <= m.alloc
<1> DEFINE at == [h \in Pool |-> H!Lookup(m, h).at]
<1>1. \A h \in Pool : at[h] \in Slots(m) /\ m.hash[at[h]] = h
  BY DEF Good, H!Found, H!SlotsOf, Slots
<1> HIDE DEF at
<1>2. at \in Injection(Pool, Slots(m))
  <2>1. at \in [Pool -> Slots(m)]
    BY <1>1 DEF at
  <2> QED
    BY <1>1, <2>1 DEF Injection, IsInjective
<1>3. m.alloc \in Nat
  BY DEF Good, Shaped
<1>4. IsFiniteSet(Slots(m)) /\ Cardinality(Slots(m)) = m.alloc
  <2>1. PICK n \in Int : n = m.alloc - 1
    BY <1>3
  <2>2. IsFiniteSet(0 .. n) /\ Cardinality(0 .. n) = IF 0 > n THEN 0 ELSE n - 0 + 1
    BY FS_Interval
  <2>3. Slots(m) = 0 .. n
    BY <2>1 DEF Slots
  <2> QED
    BY <1>3, <2>1, <2>2, <2>3
<1>5. Cardinality(Pool) <= Cardinality(Slots(m))
  BY <1>2, <1>4, FS_Injection
<1> QED
  BY <1>4, <1>5 DEF Good

LEMMA FreeSlot ==
  ASSUME NEW m, NEW Pool, Good(m, Pool), m.size < m.alloc
  PROVE  \E i \in Slots(m) : m.hash[i] = 0
<1> SUFFICES ASSUME \A i \in Slots(m) : m.hash[i] # 0 PROVE FALSE
  OBVIOUS
<1>1. m.hash \in Injection(Slots(m), Pool)
  <2>1. m.hash \in [Slots(m) -> Pool]
    BY DEF Good, Shaped
  <2> QED
    BY <2>1 DEF Injection, IsInjective, Good
<1>2. m.alloc \in Nat
  BY DEF Good, Shaped
<1>3. Cardinality(Slots(m)) = m.alloc
  <2>1. PICK n \in Nat : n = m.alloc
    BY <1>2
  <2>2. 0 \in Int /\ n - 1 \in Int
    OBVIOUS
  <2>3. Cardinality(0 .. n - 1) = IF 0 > n - 1 THEN 0 ELSE (n - 1) - 0 + 1
    BY <2>2, FS_Interval
  <2>4. Cardinality(0 .. n - 1) = n
    BY <2>3
  <2> QED
    BY <2>1, <2>4 DEF Slots
<1>4. Cardinality(Slots(m)) <= Cardinality(Pool)
  <2>1. IsFiniteSet(Pool)
    BY DEF Good
  <2> QED
    BY <1>1, <2>1, FS_Injection, Zenon
<1> QED
  BY <1>2, <1>3, <1>4, FS_CardinalityType DEF Good

(* The slot of a new entry is free, and a last slot that is free is it.    *)
LEMMA ProbeIs ==
  ASSUME NEW m, Shaped(m), NEW from \in Slots(m), \E i \in Slots(m) : m.hash[i] = 0
  PROVE  /\ H!Probe(m, from) \in Slots(m) /\ m.hash[H!Probe(m, from)] = 0
         /\ H!Probe(m, from) # from => m.hash[from] # 0
<1> DEFINE n == m.alloc
           Fails == {d \in 0 .. n - 1 : m.hash[(from + d) % n] = 0}
           Right(d) == /\ m.hash[(from + d) % n] = 0
                       /\ \A e \in 0 .. d - 1 : m.hash[(from + e) % n] # 0
           d0 == CHOOSE d \in 0 .. n - 1 : Right(d)
<1>1. n \in Nat /\ n > 0 /\ from \in 0 .. n - 1
  BY DEF Shaped, Slots
<1>2. PICK j \in 0 .. n - 1 : m.hash[j] = 0
  BY DEF Slots
<1>3. PICK e \in 0 .. n - 1 : (from + e) % n = j
  <2>1. CASE j >= from
    <3>1. j - from \in 0 .. n - 1 /\ from + (j - from) = j /\ j % n = j
      BY <1>1, <2>1
    <3> QED
      BY <3>1
  <2>2. CASE j < from
    <3>1. j - from + n \in 0 .. n - 1 /\ from + (j - from + n) = j + n
      BY <1>1, <2>2
    <3>2. (j + n) % n = j
      BY <1>1
    <3> QED
      BY <3>1, <3>2
  <2> QED
    BY <1>1, <2>1, <2>2
<1>4. e \in Fails /\ Fails \subseteq Nat
  BY <1>1, <1>2, <1>3
<1> HIDE DEF Fails
<1>5. PICK d \in Fails : \A i \in Fails : d <= i
  BY <1>4, FirstPlace
<1>6. d \in 0 .. n - 1 /\ m.hash[(from + d) % n] = 0
  BY <1>5 DEF Fails
<1>7. \A i \in 0 .. d - 1 : m.hash[(from + i) % n] # 0
  <2> TAKE i \in 0 .. d - 1
  <2>1. i \in 0 .. n - 1 /\ ~(d <= i)
    BY <1>1, <1>6
  <2> QED
    BY <1>5, <2>1 DEF Fails
<1>8. Right(d)
  BY <1>6, <1>7
<1> HIDE DEF Right
<1>9. d0 \in 0 .. n - 1 /\ Right(d0)
  BY <1>6, <1>8
<1>10. H!Probe(m, from) = (from + d0) % n
  BY Zenon DEF H!Probe, H!Free, d0, Right
<1> HIDE DEF d0
<1>11. (from + d0) % n \in 0 .. n - 1
  BY <1>1, <1>9
<1>12. m.hash[(from + d0) % n] = 0
  BY <1>9 DEF Right
<1>13. ASSUME (from + d0) % n # from PROVE m.hash[from] # 0
  <2>1. from % n = from /\ from + 0 = from
    BY <1>1
  <2>2. d0 # 0
    BY <1>13, <2>1
  <2>3. 0 \in 0 .. d0 - 1
    BY <1>9, <2>2
  <2>4. m.hash[(from + 0) % n] # 0
    BY <1>9, <2>3 DEF Right
  <2> QED
    BY <2>1, <2>4
<1> QED
  BY <1>10, <1>11, <1>12, <1>13 DEF Slots

(* A lookup that returns nothing has come to the end of a chain.           *)
LEMMA EndOfChain ==
  ASSUME NEW m, Shaped(m), NEW h \in Nat, H!Lookup(m, h).at = -1
  PROVE  LET prev == H!Lookup(m, h).prev
         IN prev \in Slots(m) /\ m.next[prev] = -1 /\ m.hash[prev] # h
<1>1. PICK f : H!Lookup(m, h) = f[m.alloc] /\ Steps(f, m.alloc, m, h)
  BY LookupIs
<1>2. m.alloc \in Nat /\ m.alloc > 0
  BY DEF Shaped
<1>3. Placed(m, h, H!Lookup(m, h))
  BY <1>1, <1>2, WalkIsPlaced
<1>4. h % m.alloc # -1
  BY <1>2
<1> QED
  BY <1>3, <1>4 DEF Placed

(* What is placed behind the chain where its key was looked for is found.  *)
LEMMA NewIsFound ==
  ASSUME NEW m, Shaped(m), NEW n, Shaped(n), n.alloc = m.alloc, NEW h \in Nat,
         H!Lookup(m, h).at = -1, \A x \in Slots(m) : m.hash[x] # h,
         NEW prev, prev = H!Lookup(m, h).prev, NEW slot \in Slots(m),
         n.hash[slot] = h, \A x \in Slots(m) \ {slot} : n.hash[x] = m.hash[x],
         slot # prev => n.next[prev] = slot,
         \A x \in Slots(m) \ {prev} : n.next[x] = m.next[x]
  PROVE  H!Found(n, h)
<1>1. PICK f : H!Lookup(m, h) = f[m.alloc] /\ Steps(f, m.alloc, m, h)
  BY LookupIs
<1>2. PICK g : H!Lookup(n, h) = g[m.alloc] /\ Steps(g, n.alloc, n, h)
  BY LookupIs
<1>3. m.alloc \in Nat /\ m.alloc > 0 /\ Slots(n) = Slots(m)
  BY DEF Shaped, Slots
<1>4. prev \in Slots(m) /\ m.next[prev] = -1
  BY EndOfChain
<1>5. SUFFICES ASSUME \A k \in 0 .. m.alloc : g[k].at # slot PROVE FALSE
  <2>1. ASSUME NEW k \in 0 .. m.alloc, g[k].at = slot PROVE H!Found(n, h)
    <3>1. \A i \in k .. m.alloc : g[i] = g[k]
      BY <1>2, <2>1, WalkStops
    <3>2. g[m.alloc] = g[k]
      BY <1>3, <3>1
    <3> QED
      BY <1>2, <1>3, <2>1, <3>2 DEF H!Found, H!SlotsOf, Slots
  <2> QED
    BY <2>1
<1> DEFINE Fails == {i \in 0 .. m.alloc : f[i].at = -1}
           D == {i \in 0 .. m.alloc : f[i] # g[i]}
<1>6. m.alloc \in Fails /\ Fails \subseteq Nat /\ D \subseteq Nat
  BY <1>1, <1>3
<1> HIDE DEF Fails, D
<1>7. PICK i \in Fails : \A j \in Fails : i <= j
  BY <1>6, FirstPlace
<1>8. i \in 0 .. m.alloc /\ f[i].at = -1 /\ i # 0
  <2>1. i \in 0 .. m.alloc /\ f[i].at = -1
    BY <1>7 DEF Fails
  <2>2. f[0].at # -1
    BY <1>1, <1>3, RootIsPlaced DEF Steps, Slots
  <2> QED
    BY <2>1, <2>2
<1>9. i \in 1 .. m.alloc /\ i - 1 \in 0 .. m.alloc /\ ~(i <= i - 1)
  BY <1>3, <1>8
<1>10. \A j \in 0 .. m.alloc : f[j].at \in Slots(m) \cup {-1}
  BY <1>1, WalkIsPlaced DEF Placed
<1>11. \A j \in 0 .. i - 1 : f[j].at \in Slots(m)
  <2> TAKE j \in 0 .. i - 1
  <2>1. j \in 0 .. m.alloc /\ ~(i <= j)
    BY <1>3, <1>9
  <2> QED
    BY <1>7, <1>10, <2>1 DEF Fails
<1>12. \A j \in 1 .. i : f[j] = [at |-> m.next[f[j - 1].at], prev |-> f[j - 1].at]
  <2> TAKE j \in 1 .. i
  <2>1. j \in 1 .. m.alloc /\ j - 1 \in 0 .. i - 1
    BY <1>3, <1>9
  <2>2. f[j] = H!Follow(m, h, f[j - 1]) /\ f[j - 1].at \in Slots(m)
    BY <1>1, <1>11, <2>1 DEF Steps
  <2>3. -1 \notin Slots(m)
    BY DEF Slots
  <2> QED
    BY <2>2, <2>3 DEF H!Follow, H!NoLink
<1>13. f[i - 1].at = prev
  <2>1. \A j \in i .. m.alloc : f[j] = f[i]
    BY <1>1, <1>8, WalkStops
  <2>2. m.alloc \in i .. m.alloc
    BY <1>3, <1>9
  <2>4. f[m.alloc] = f[i]
    BY <2>1, <2>2
  <2>5. i \in 1 .. i
    BY <1>3, <1>9
  <2>6. f[i] = [at |-> m.next[f[i - 1].at], prev |-> f[i - 1].at]
    BY <1>12, <2>5
  <2>3. f[i].prev = f[i - 1].at
    BY <2>6
  <2> QED
    BY <1>1, <2>3, <2>4
<1>14. \A j \in 0 .. i - 1 : f[j] = g[j]
  <2> SUFFICES ASSUME NEW j0 \in 0 .. i - 1, f[j0] # g[j0] PROVE FALSE
    OBVIOUS
  <2>1. j0 \in D
    BY <1>3, <1>9 DEF D
  <2>2. PICK j \in D : \A e \in D : j <= e
    BY <1>6, <2>1, FirstPlace
  <2>3. j \in 0 .. m.alloc /\ f[j] # g[j]
    BY <2>2 DEF D
  <2>4. j <= j0
    BY <2>1, <2>2
  <2>5. j # 0
    BY <1>1, <1>2, <2>3 DEF Steps, H!Root
  <2>6. j \in 1 .. i /\ j \in 1 .. m.alloc /\ j - 1 \in 0 .. m.alloc /\ j - 1 \in 0 .. i - 1
        /\ j \in 0 .. i - 1 /\ ~(j <= j - 1)
    BY <1>3, <1>9, <2>3, <2>4, <2>5
  <2>7. f[j - 1] = g[j - 1]
    BY <2>2, <2>6 DEF D
  <2> DEFINE p == f[j - 1].at
  <2>8. p \in Slots(m) /\ p # slot
    BY <1>5, <1>11, <2>6, <2>7
  <2>9. f[j].at = m.next[p] /\ f[j] = [at |-> m.next[p], prev |-> p]
    BY <1>12, <2>6
  <2>10. p # prev
    <3>1. f[j].at \in Slots(m) /\ -1 \notin Slots(m)
      BY <1>11, <2>6 DEF Slots
    <3> QED
      BY <1>4, <2>9, <3>1
  <2>11. g[j] = H!Follow(n, h, g[j - 1])
    BY <1>2, <2>6 DEF Steps
  <2>12. p # -1 /\ n.hash[p] # h /\ n.next[p] = m.next[p]
    BY <2>8, <2>10 DEF Slots
  <2>13. g[j] = [at |-> m.next[p], prev |-> p]
    BY <2>7, <2>11, <2>12 DEF H!Follow, H!NoLink
  <2> QED
    BY <2>3, <2>9, <2>13
<1>15. g[i - 1].at = prev
  BY <1>9, <1>13, <1>14
<1>16. prev # slot
  BY <1>5, <1>9, <1>15
<1>17. prev # -1 /\ n.hash[prev] # h /\ n.next[prev] = slot
  BY <1>4, <1>16 DEF Slots
<1>18. g[i] = H!Follow(n, h, g[i - 1])
  BY <1>2, <1>9 DEF Steps
<1>19. g[i].at = slot
  BY <1>15, <1>17, <1>18 DEF H!Follow, H!NoLink
<1> QED
  BY <1>5, <1>9, <1>19

(* What is changed when a key is placed: its slot, which was free, and the *)
(* link of the last one of its chain.                                      *)
LEMMA PlaceIs ==
  ASSUME NEW m, Shaped(m), NEW h \in Nat \ {0}, H!Lookup(m, h).at = -1,
         \E i \in Slots(m) : m.hash[i] = 0
  PROVE  /\ Shaped(H!Place(m, h)) /\ H!Place(m, h).alloc = m.alloc
         /\ H!Place(m, h).size = m.size + 1
         /\ H!Place(m, h).removed = m.removed
         /\ H!Lookup(m, h).prev \in Slots(m) /\ m.next[H!Lookup(m, h).prev] = -1
         /\ m.hash[H!Lookup(m, h).prev] # h
         /\ \E slot \in Slots(m) :
              /\ m.hash[slot] = 0 /\ H!Place(m, h).hash[slot] = h
              /\ \A x \in Slots(m) \ {slot} : H!Place(m, h).hash[x] = m.hash[x]
              /\ slot # H!Lookup(m, h).prev =>
                   /\ m.hash[H!Lookup(m, h).prev] # 0
                   /\ H!Place(m, h).next[H!Lookup(m, h).prev] = slot
              /\ slot = H!Lookup(m, h).prev =>
                   H!Place(m, h).next[H!Lookup(m, h).prev] = -1
         /\ \A x \in Slots(m) \ {H!Lookup(m, h).prev} : H!Place(m, h).next[x] = m.next[x]
<1> DEFINE prev == H!Lookup(m, h).prev
           slot == H!Probe(m, prev)
           link == IF slot # prev THEN slot ELSE m.next[prev]
           n == [hash |-> [m.hash EXCEPT ![slot] = h], next |-> [m.next EXCEPT ![prev] = link],
                 alloc |-> m.alloc, size |-> m.size + 1, removed |-> m.removed]
<1>1. prev \in Slots(m) /\ m.next[prev] = -1 /\ m.hash[prev] # h
  BY EndOfChain
<1>2. slot \in Slots(m) /\ m.hash[slot] = 0 /\ (slot # prev => m.hash[prev] # 0)
  BY <1>1, ProbeIs
<1>3. H!Place(m, h) = n
  <2>1. H!Place(m, h) = [m EXCEPT !.hash[slot] = h, !.size = @ + 1, !.next[prev] = link]
    BY Zenon DEF H!Place, H!NoLink, link, slot, prev
  <2> HIDE DEF link, slot, prev
  <2> QED
    BY <2>1 DEF Shaped
<1> HIDE DEF slot, prev
<1>4. link \in Slots(m) \cup {-1}
  BY <1>1, <1>2
<1> HIDE DEF link
<1>5. /\ [m.hash EXCEPT ![slot] = h] \in [Slots(m) -> Nat]
      /\ [m.hash EXCEPT ![slot] = h][slot] = h
      /\ \A x \in Slots(m) \ {slot} : [m.hash EXCEPT ![slot] = h][x] = m.hash[x]
  BY <1>2 DEF Shaped
<1>6. /\ [m.next EXCEPT ![prev] = link] \in [Slots(m) -> Slots(m) \cup {-1}]
      /\ [m.next EXCEPT ![prev] = link][prev] = link
      /\ \A x \in Slots(m) \ {prev} : [m.next EXCEPT ![prev] = link][x] = m.next[x]
  BY <1>1, <1>4 DEF Shaped
<1>7. Shaped(n)
  <2>1. m.size + 1 \in Nat /\ m.alloc \in Nat /\ m.alloc > 0 /\ m.removed \in Nat
    BY DEF Shaped
  <2>2. Slots(n) = Slots(m)
    BY DEF Slots
  <2> QED
    BY <1>5, <1>6, <2>1, <2>2 DEF Shaped
<1>8. (slot # prev => link = slot) /\ (slot = prev => link = -1)
  BY <1>1 DEF link
<1> DEFINE nh == [m.hash EXCEPT ![slot] = h]
           nn == [m.next EXCEPT ![prev] = link]
<1>9. n.hash = nh /\ n.next = nn /\ n.alloc = m.alloc /\ n.size = m.size + 1
      /\ n.removed = m.removed
  OBVIOUS
<1>10. /\ nh[slot] = h /\ \A x \in Slots(m) \ {slot} : nh[x] = m.hash[x]
       /\ nn[prev] = link /\ \A x \in Slots(m) \ {prev} : nn[x] = m.next[x]
  BY <1>5, <1>6
<1> HIDE DEF nh, nn, n
<1>11. \E s \in Slots(m) : /\ m.hash[s] = 0 /\ n.hash[s] = h
                           /\ \A x \in Slots(m) \ {s} : n.hash[x] = m.hash[x]
                           /\ s # prev => m.hash[prev] # 0 /\ n.next[prev] = s
                           /\ s = prev => n.next[prev] = -1
  BY <1>2, <1>8, <1>9, <1>10
<1>12. \A x \in Slots(m) \ {prev} : n.next[x] = m.next[x]
  BY <1>9, <1>10
<1> QED
  BY <1>1, <1>3, <1>7, <1>9, <1>11, <1>12 DEF prev

LEMMA PlaceGood ==
  ASSUME NEW m, NEW Pool, Good(m, Pool), m.size < m.alloc, NEW h \in Nat \ {0}, H!Returns(m, h)
  PROVE  /\ Good(H!Place(m, h), Pool \cup {h})
         /\ H!Place(m, h).alloc = m.alloc /\ H!Place(m, h).removed = m.removed
<1>1. Shaped(m) /\ -1 \notin Slots(m)
  BY DEF Good, Slots
<1>2. CASE h \in Pool
  <2>1. H!Lookup(m, h).at \in Slots(m)
    BY <1>2 DEF Good, H!Found, H!SlotsOf, Slots
  <2>2. H!Place(m, h) = m
    BY <1>1, <2>1 DEF H!Place, H!NoLink
  <2>3. Pool \cup {h} = Pool
    BY <1>2
  <2> QED
    BY <2>2, <2>3
<1>3. CASE h \notin Pool
  <2> DEFINE n == H!Place(m, h)
             prev == H!Lookup(m, h).prev
  <2>1. \A x \in Slots(m) : m.hash[x] # h
    BY <1>3 DEF Good
  <2>2. H!Lookup(m, h).at = -1
    BY <2>1 DEF H!Returns, H!SlotsOf, H!NoLink, Slots
  <2>3. \E i \in Slots(m) : m.hash[i] = 0
    BY FreeSlot
  <2>4. /\ Shaped(n) /\ n.alloc = m.alloc /\ n.size = m.size + 1 /\ n.removed = m.removed
        /\ prev \in Slots(m) /\ m.next[prev] = -1 /\ m.hash[prev] # h
        /\ \A x \in Slots(m) \ {prev} : n.next[x] = m.next[x]
    BY <1>1, <2>2, <2>3, PlaceIs
  <2>5. PICK slot \in Slots(m) : /\ m.hash[slot] = 0 /\ n.hash[slot] = h
                                 /\ \A x \in Slots(m) \ {slot} : n.hash[x] = m.hash[x]
                                 /\ slot # prev => n.next[prev] = slot
    BY <1>1, <2>2, <2>3, PlaceIs
  <2>6. Slots(n) = Slots(m)
    BY <2>4 DEF Slots
  <2>7. H!Found(n, h)
    <3> HIDE DEF n
    <3> QED
      BY <1>1, <2>1, <2>2, <2>4, <2>5, NewIsFound
  <2> HIDE DEF n, prev
  <2>8. ASSUME NEW k \in Pool PROVE H!Found(n, k)
    <3>1. k \in Nat /\ k # 0 /\ k # h /\ H!Found(m, k)
      BY <1>3, <2>8 DEF Good
    <3>2. \A x \in Slots(m) : m.hash[x] = k <=> n.hash[x] = k
      BY <2>5, <3>1
    <3>3. CASE m.hash[prev] = k
      <4>1. PICK Dark : Dark = {}
        OBVIOUS
      <4>2. Dead(m, k, Dark)
        BY <4>1 DEF Dead
      <4>3. \A x \in Slots(m) \ Dark : m.hash[x] # k => n.next[x] = m.next[x]
        BY <2>4, <3>3
      <4> QED
        BY <1>1, <2>4, <3>1, <3>2, <4>2, <4>3, FoundStays
    <3>4. CASE m.hash[prev] # k
      <4>1. PICK Dark : Dark = {prev}
        OBVIOUS
      <4>2. Dead(m, k, Dark)
        BY <2>4, <3>4, <4>1 DEF Dead
      <4>3. \A x \in Slots(m) \ Dark : m.hash[x] # k => n.next[x] = m.next[x]
        BY <2>4, <4>1
      <4> QED
        BY <1>1, <2>4, <3>1, <3>2, <4>2, <4>3, FoundStays
    <3> QED
      BY <3>3, <3>4
  <2>9. \A k \in Pool \cup {h} : H!Found(n, k)
    BY <2>7, <2>8
  <2>10. /\ IsFiniteSet(Pool \cup {h}) /\ Pool \cup {h} \subseteq Nat \ {0}
         /\ n.size = Cardinality(Pool \cup {h})
    <3>1. IsFiniteSet(Pool) /\ Pool \subseteq Nat \ {0} /\ m.size = Cardinality(Pool)
      BY DEF Good
    <3>2. IsFiniteSet(Pool \cup {h}) /\ Cardinality(Pool \cup {h}) = Cardinality(Pool) + 1
      BY <1>3, <3>1, FS_AddElement
    <3> QED
      BY <2>4, <3>1, <3>2
  <2>11. \A i \in Slots(n) : n.hash[i] # 0 => n.hash[i] \in Pool \cup {h}
    <3>1. \A i \in Slots(m) : m.hash[i] # 0 => m.hash[i] \in Pool
      BY DEF Good
    <3> QED
      BY <2>5, <2>6, <3>1
  <2>12. \A i, j \in Slots(n) : n.hash[i] = n.hash[j] /\ n.hash[i] # 0 => i = j
    <3>1. \A i, j \in Slots(m) : m.hash[i] = m.hash[j] /\ m.hash[i] # 0 => i = j
      BY DEF Good
    <3> QED
      BY <2>1, <2>5, <2>6, <3>1
  <2> QED
    BY <2>4, <2>9, <2>10, <2>11, <2>12 DEF Good, n
<1> QED
  BY <1>2, <1>3

LEMMA RemoveGood ==
  ASSUME NEW m, NEW Pool, Good(m, Pool), NEW h \in Pool
  PROVE  /\ Good(H!Cleared(m, H!Lookup(m, h)), Pool \ {h})
         /\ H!Cleared(m, H!Lookup(m, h)).alloc = m.alloc
         /\ H!Cleared(m, H!Lookup(m, h)).size = m.size - 1
<1> DEFINE w == H!Lookup(m, h)
           n == H!Cleared(m, w)
           nh == [m.hash EXCEPT ![w.at] = 0]
           last == m.next[w.at] = -1
           nn == IF last THEN [m.next EXCEPT ![w.prev] = -1] ELSE m.next
<1>1. Shaped(m) /\ -1 \notin Slots(m) /\ h \in Nat /\ h # 0 /\ m.alloc \in Nat /\ m.alloc > 0
  BY DEF Good, Slots, Shaped
<1>2. w.at \in Slots(m) /\ m.hash[w.at] = h
  BY DEF Good, H!Found, H!SlotsOf, Slots
<1>3. w.prev \in Slots(m) /\ (w.prev = w.at \/ m.next[w.prev] = w.at)
  <2>1. PICK f : H!Lookup(m, h) = f[m.alloc] /\ Steps(f, m.alloc, m, h)
    BY <1>1, LookupIs
  <2>2. Placed(m, h, w)
    BY <1>1, <2>1, WalkIsPlaced
  <2> QED
    BY <2>2 DEF Placed
<1> HIDE DEF w
<1>4. n = [hash |-> nh, next |-> nn, alloc |-> m.alloc, size |-> m.size - 1,
           removed |-> m.removed + 1]
  <2>1. m = [hash |-> m.hash, next |-> m.next, alloc |-> m.alloc, size |-> m.size,
             removed |-> m.removed]
    BY <1>1 DEF Shaped
  <2>2. CASE last
    BY <2>1, <2>2 DEF H!Cleared, H!NoLink, H!Free
  <2>3. CASE ~last
    BY <2>1, <2>3 DEF H!Cleared, H!NoLink, H!Free
  <2> QED
    BY <2>2, <2>3
<1>5. /\ nh \in [Slots(m) -> Nat] /\ nh[w.at] = 0
      /\ \A x \in Slots(m) \ {w.at} : nh[x] = m.hash[x]
  BY <1>1, <1>2 DEF Shaped
<1>6. /\ nn \in [Slots(m) -> Slots(m) \cup {-1}]
      /\ \A x \in Slots(m) \ {w.prev} : nn[x] = m.next[x]
      /\ ~last => nn = m.next
  BY <1>1, <1>3 DEF Shaped
<1> HIDE DEF n, nh, nn
<1>7. /\ IsFiniteSet(Pool \ {h}) /\ Pool \ {h} \subseteq Nat \ {0}
      /\ m.size - 1 = Cardinality(Pool \ {h}) /\ m.size - 1 \in Nat
  <2>1. IsFiniteSet(Pool) /\ Pool \subseteq Nat \ {0} /\ m.size = Cardinality(Pool)
    BY DEF Good
  <2>2. IsFiniteSet(Pool \ {h}) /\ Cardinality(Pool \ {h}) = Cardinality(Pool) - 1
    BY <2>1, FS_RemoveElement
  <2>3. Cardinality(Pool \ {h}) \in Nat
    BY <2>2, FS_CardinalityType
  <2> QED
    BY <2>1, <2>2, <2>3
<1>8. n.hash = nh /\ n.next = nn /\ n.alloc = m.alloc /\ n.size = m.size - 1
      /\ n.removed = m.removed + 1 /\ n = [hash |-> n.hash, next |-> n.next,
              alloc |-> n.alloc, size |-> n.size, removed |-> n.removed]
  BY <1>4
<1>9. Slots(n) = Slots(m)
  BY <1>8 DEF Slots
<1>10. Shaped(n)
  <2>1. m.removed + 1 \in Nat
    BY <1>1 DEF Shaped
  <2> QED
    BY <1>1, <1>5, <1>6, <1>7, <1>8, <1>9, <2>1 DEF Shaped
<1>11. ASSUME NEW k \in Pool \ {h} PROVE H!Found(n, k)
  <2>1. k \in Nat /\ k # 0 /\ k # h /\ H!Found(m, k)
    BY DEF Good
  <2>2. \A x \in Slots(m) : m.hash[x] = k <=> n.hash[x] = k
    BY <1>2, <1>5, <1>8, <2>1
  <2>3. CASE last
    <3>1. PICK Dark : Dark = {x \in {w.at, w.prev} : m.hash[x] # k}
      OBVIOUS
    <3>2. \A x \in Dark : x = w.at \/ m.next[x] = w.at
      BY <1>3, <3>1
    <3>3. w.at \in Dark /\ Dark \subseteq Slots(m)
      BY <1>2, <1>3, <2>1, <3>1
    <3>4. Dead(m, k, Dark)
      BY <2>3, <3>1, <3>2, <3>3 DEF Dead
    <3>5. \A x \in Slots(m) \ Dark : m.hash[x] # k => n.next[x] = m.next[x]
      BY <1>6, <1>8, <3>1
    <3> QED
      BY <1>1, <1>8, <1>10, <2>1, <2>2, <3>4, <3>5, FoundStays
  <2>4. CASE ~last
    <3>1. PICK Dark : Dark = {}
      OBVIOUS
    <3>2. Dead(m, k, Dark)
      BY <3>1 DEF Dead
    <3>3. \A x \in Slots(m) \ Dark : m.hash[x] # k => n.next[x] = m.next[x]
      BY <1>6, <1>8, <2>4
    <3> QED
      BY <1>1, <1>8, <1>10, <2>1, <2>2, <3>2, <3>3, FoundStays
  <2> QED
    BY <2>3, <2>4
<1>12. \A i, j \in Slots(m) : m.hash[i] = m.hash[j] /\ m.hash[i] # 0 => i = j
  BY DEF Good
<1>13. \A i \in Slots(m) : m.hash[i] # 0 => m.hash[i] \in Pool
  BY DEF Good
<1>14. \A i \in Slots(n) : n.hash[i] # 0 => n.hash[i] \in Pool \ {h}
  BY <1>1, <1>2, <1>5, <1>8, <1>9, <1>12, <1>13
<1>15. \A i, j \in Slots(n) : n.hash[i] = n.hash[j] /\ n.hash[i] # 0 => i = j
  BY <1>5, <1>8, <1>9, <1>12
<1>16. Good(n, Pool \ {h})
  BY <1>7, <1>8, <1>10, <1>11, <1>14, <1>15 DEF Good
<1> QED
  BY <1>8, <1>16 DEF n, w

(***************************************************************************)
(* A new table: its links lead from older to newer entries, so that every  *)
(* lookup returns                                                          *)
(***************************************************************************)

Ranked(m, r) ==
    /\ r \in [Slots(m) -> 0 .. m.size]
    /\ \A x \in Slots(m) : m.next[x] # -1 => r[x] < r[m.next[x]]
    /\ \A x \in Slots(m) : m.hash[x] = 0 => r[x] = 0 /\ m.next[x] = -1

LEMMA FreshReturns ==
  ASSUME NEW m, Shaped(m), m.size < m.alloc, NEW r, Ranked(m, r), NEW h \in Nat
  PROVE  H!Returns(m, h)
<1>1. PICK f : H!Lookup(m, h) = f[m.alloc] /\ Steps(f, m.alloc, m, h)
  BY LookupIs
<1>2. m.alloc \in Nat /\ m.size \in Nat /\ -1 \notin Slots(m)
  BY DEF Shaped, Slots
<1>3. \A i \in 0 .. m.alloc : Placed(m, h, f[i])
  BY <1>1, WalkIsPlaced
<1> SUFFICES ASSUME ~ H!Returns(m, h) PROVE FALSE
  OBVIOUS
<1>4. \A i \in 0 .. m.alloc : f[i].at \in Slots(m) /\ m.hash[f[i].at] # h
  <2> SUFFICES ASSUME NEW i \in 0 .. m.alloc, f[i].at = -1 \/ m.hash[f[i].at] = h
      PROVE FALSE
    BY <1>3 DEF Placed
  <2>1. m.alloc \in i .. m.alloc
    BY <1>2
  <2>2. f[m.alloc] = f[i]
    BY <1>1, <2>1, WalkStops
  <2>3. f[i].at \in Slots(m) \cup {-1}
    BY <1>3 DEF Placed
  <2> QED
    BY <1>1, <2>2, <2>3 DEF H!Returns, H!SlotsOf, H!NoLink, Slots
<1> DEFINE Fails == {i \in 0 .. m.alloc : r[f[i].at] < i}
<1>5. m.alloc \in Fails /\ Fails \subseteq Nat
  <2>1. m.alloc \in 0 .. m.alloc
    BY <1>2
  <2>2. r[f[m.alloc].at] \in 0 .. m.size
    BY <1>4, <2>1 DEF Ranked
  <2> QED
    BY <1>2, <2>1, <2>2
<1> HIDE DEF Fails
<1>6. PICK i \in Fails : \A j \in Fails : i <= j
  BY <1>5, FirstPlace
<1>7. i \in 0 .. m.alloc /\ r[f[i].at] < i
  BY <1>6 DEF Fails
<1>8. \A j \in 0 .. m.alloc : r[f[j].at] \in Nat
  BY <1>2, <1>4 DEF Ranked
<1>9. i \in 1 .. m.alloc /\ i - 1 \in 0 .. m.alloc /\ ~(i <= i - 1)
  BY <1>2, <1>7, <1>8
<1>10. f[i] = H!Follow(m, h, f[i - 1]) /\ f[i - 1].at # -1 /\ m.hash[f[i - 1].at] # h
  BY <1>1, <1>2, <1>4, <1>9 DEF Steps
<1>11. f[i].at = m.next[f[i - 1].at]
  BY <1>10 DEF H!Follow, H!NoLink
<1>12. r[f[i - 1].at] < r[f[i].at]
  BY <1>2, <1>4, <1>7, <1>9, <1>11 DEF Ranked
<1>13. ~(r[f[i - 1].at] < i - 1)
  BY <1>6, <1>9 DEF Fails
<1> QED
  BY <1>7, <1>8, <1>9, <1>12, <1>13

LEMMA EmptyGood ==
  ASSUME NEW n \in Nat, n > 0
  PROVE  LET m == H!EmptyTable(n)
         IN /\ \A Pool : Pool = {} => Good(m, Pool)
            /\ Ranked(m, [x \in Slots(m) |-> 0])
            /\ m.alloc = n /\ m.removed = 0
<1> DEFINE m == H!EmptyTable(n)
           nh == [i \in 0 .. n - 1 |-> 0]
           nn == [i \in 0 .. n - 1 |-> -1]
<1>1. m = [hash |-> nh, next |-> nn, alloc |-> n, size |-> 0, removed |-> 0]
  BY DEF H!EmptyTable, H!Free, H!NoLink
<1>2. /\ m.hash = nh /\ m.next = nn /\ m.alloc = n /\ m.size = 0 /\ m.removed = 0
      /\ m = [hash |-> m.hash, next |-> m.next, alloc |-> m.alloc, size |-> m.size,
              removed |-> m.removed]
  BY <1>1
<1> HIDE DEF m
<1>3. Slots(m) = 0 .. n - 1
  BY <1>2 DEF Slots
<1>4. \A i \in Slots(m) : m.hash[i] = 0 /\ m.next[i] = -1
  BY <1>2, <1>3
<1>5. m.hash \in [Slots(m) -> Nat] /\ m.next \in [Slots(m) -> Slots(m) \cup {-1}]
  BY <1>2, <1>3
<1>6. Shaped(m)
  BY <1>2, <1>5 DEF Shaped
<1>7. ASSUME NEW Pool, Pool = {} PROVE Good(m, Pool)
  <2>1. IsFiniteSet(Pool) /\ Cardinality(Pool) = 0
    BY <1>7, FS_EmptySet
  <2> QED
    BY <1>2, <1>4, <1>6, <1>7, <2>1 DEF Good
<1>8. Ranked(m, [x \in Slots(m) |-> 0])
  <2>1. m.size = 0 /\ 0 \in 0 .. m.size
    BY <1>2
  <2> QED
    BY <1>4, <2>1 DEF Ranked
<1> QED
  BY <1>2, <1>7, <1>8 DEF m

LEMMA RankedPlace ==
  ASSUME NEW m, NEW Pool, Good(m, Pool), m.size < m.alloc, NEW h \in Nat \ {0}, NEW r, Ranked(m, r)
  PROVE  \E q : Ranked(H!Place(m, h), q)
<1> DEFINE n == H!Place(m, h)
           prev == H!Lookup(m, h).prev
<1>1. Shaped(m) /\ -1 \notin Slots(m) /\ m.size \in Nat
  BY DEF Good, Slots, Shaped
<1>2. H!Returns(m, h)
  BY <1>1, FreshReturns
<1>3. CASE H!Lookup(m, h).at # -1
  BY <1>3 DEF H!Place, H!NoLink
<1>4. CASE H!Lookup(m, h).at = -1
  <2>1. \E i \in Slots(m) : m.hash[i] = 0
    BY FreeSlot
  <2>2. /\ Shaped(n) /\ n.alloc = m.alloc /\ n.size = m.size + 1
        /\ prev \in Slots(m) /\ m.next[prev] = -1
        /\ \A x \in Slots(m) \ {prev} : n.next[x] = m.next[x]
    BY <1>1, <1>4, <2>1, PlaceIs
  <2>3. PICK slot \in Slots(m) :
               /\ m.hash[slot] = 0 /\ n.hash[slot] = h
               /\ \A x \in Slots(m) \ {slot} : n.hash[x] = m.hash[x]
               /\ slot # prev => m.hash[prev] # 0 /\ n.next[prev] = slot
               /\ slot = prev => n.next[prev] = -1
    BY <1>1, <1>4, <2>1, PlaceIs
  <2>4. Slots(n) = Slots(m)
    BY <2>2 DEF Slots
  <2> HIDE DEF n, prev
  <2> DEFINE q == [r EXCEPT ![slot] = m.size + 1]
  <2>5. r[slot] = 0 /\ m.next[slot] = -1 /\ \A x \in Slots(m) : r[x] \in 0 .. m.size
    BY <2>3 DEF Ranked
  <2>6. /\ q \in [Slots(m) -> 0 .. m.size + 1] /\ q[slot] = m.size + 1
        /\ \A x \in Slots(m) \ {slot} : q[x] = r[x]
    BY <1>1, <2>5 DEF Ranked
  <2> HIDE DEF q
  <2>7. ASSUME NEW x \in Slots(m), n.next[x] # -1 PROVE q[x] < q[n.next[x]]
    <3>1. CASE x = prev
      <4>1. slot # prev /\ n.next[x] = slot
        BY <2>3, <2>7, <3>1
      <4> QED
        BY <1>1, <2>5, <2>6, <3>1, <4>1
    <3>2. CASE x # prev
      <4>1. n.next[x] = m.next[x] /\ x # slot
        BY <2>2, <2>5, <2>7, <3>2
      <4>2. r[x] < r[m.next[x]] /\ m.next[x] \in Slots(m)
        BY <1>1, <2>7, <4>1 DEF Ranked, Shaped
      <4>3. q[x] = r[x] /\ (m.next[x] # slot => q[m.next[x]] = r[m.next[x]])
        BY <2>6, <4>1, <4>2
      <4> QED
        BY <1>1, <2>5, <2>6, <4>1, <4>2, <4>3
    <3> QED
      BY <3>1, <3>2
  <2>8. ASSUME NEW x \in Slots(m), n.hash[x] = 0 PROVE q[x] = 0 /\ n.next[x] = -1
    <3>1. x # slot
      BY <2>3, <2>8
    <3>2. m.hash[x] = 0
      BY <2>3, <2>8, <3>1
    <3>3. r[x] = 0 /\ m.next[x] = -1
      BY <3>2 DEF Ranked
    <3>4. x # prev
      BY <2>3, <3>1, <3>2
    <3> QED
      BY <2>2, <2>6, <3>1, <3>3, <3>4
  <2>9. q \in [Slots(n) -> 0 .. n.size]
    BY <2>2, <2>4, <2>6
  <2>10. Ranked(n, q)
    BY <2>4, <2>7, <2>8, <2>9 DEF Ranked
  <2> QED
    BY <2>10 DEF n
<1> QED
  BY <1>3, <1>4

(***************************************************************************)
(* Making a table anew                                                     *)
(***************************************************************************)

Fills(f, k, m, n) ==
    f = [i \in 0 .. k |-> IF i = 0 THEN H!EmptyTable(n) ELSE H!Moved(m, i - 1, f[i - 1])]

Moves(f, k, m, n) ==
    /\ f[0] = H!EmptyTable(n)
    /\ \A i \in 1 .. k : f[i] = H!Moved(m, i - 1, f[i - 1])

LEMMA FillsMoves ==
  ASSUME NEW f, NEW k \in Nat, NEW m, NEW n
  PROVE  Fills(f, k, m, n) <=> f = [i \in 0 .. k |-> f[i]] /\ Moves(f, k, m, n)
<1> DEFINE Value(i) == H!Moved(m, i - 1, f[i - 1])
           first == H!EmptyTable(n)
<1>1. Fills(f, k, m, n) <=> f = [i \in 0 .. k |-> IF i = 0 THEN first ELSE Value(i)]
  BY Zenon DEF Fills
<1> HIDE DEF Value, first
<1>2. /\ 0 \in 0 .. k /\ 1 .. k \subseteq 0 .. k /\ \A i \in 1 .. k : i # 0
      /\ \A i \in 0 .. k : i = 0 \/ i \in 1 .. k
  OBVIOUS
<1>3. ASSUME f = [i \in 0 .. k |-> IF i = 0 THEN first ELSE Value(i)]
      PROVE  f = [i \in 0 .. k |-> f[i]] /\ f[0] = first /\ \A i \in 1 .. k : f[i] = Value(i)
  BY <1>2, <1>3, Zenon
<1>4. ASSUME f = [i \in 0 .. k |-> f[i]], f[0] = first, \A i \in 1 .. k : f[i] = Value(i)
      PROVE  f = [i \in 0 .. k |-> IF i = 0 THEN first ELSE Value(i)]
  <2>1. \A i \in 0 .. k : f[i] = IF i = 0 THEN first ELSE Value(i)
    BY <1>2, <1>4
  <2> QED
    BY <1>4, <2>1, Zenon
<1> QED
  BY <1>1, <1>3, <1>4, Zenon DEF Value, first, Moves

LEMMA FillsExist == ASSUME NEW k \in Nat, NEW m, NEW n PROVE \E f : Fills(f, k, m, n)
<1> DEFINE Fails == {i \in Nat : ~ \E f : Fills(f, i, m, n)}
<1> SUFFICES ASSUME Fails # {} PROVE FALSE
  OBVIOUS
<1>1. PICK i \in Fails : \A j \in Fails : i <= j
  BY FirstPlace
<1>2. i # 0
  <2> DEFINE f == [j \in 0 .. 0 |-> H!EmptyTable(n)]
  <2>1. f = [j \in 0 .. 0 |-> f[j]] /\ f[0] = H!EmptyTable(n) /\ 0 \in Nat
    OBVIOUS
  <2>2. 1 .. 0 = {}
    OBVIOUS
  <2> HIDE DEF f
  <2>3. Moves(f, 0, m, n)
    BY <2>1, <2>2 DEF Moves
  <2>4. Fills(f, 0, m, n)
    BY <2>1, <2>3, FillsMoves
  <2> QED
    BY <2>4
<1>3. i - 1 \in Nat /\ i - 1 \notin Fails /\ i \in Nat
  BY <1>1, <1>2
<1>4. PICK f : Fills(f, i - 1, m, n)
  BY <1>3
<1>5. Moves(f, i - 1, m, n)
  BY <1>3, <1>4, FillsMoves
<1> DEFINE v == H!Moved(m, i - 1, f[i - 1])
           g == [j \in 0 .. i |-> IF j = i THEN v ELSE f[j]]
<1> HIDE DEF v
<1>6. /\ g = [j \in 0 .. i |-> g[j]] /\ g[i] = v
      /\ \A j \in 0 .. i - 1 : g[j] = f[j]
  BY <1>2, <1>3
<1> HIDE DEF g, Fails
<1>7. /\ 0 \in 0 .. i - 1
      /\ \A j \in 1 .. i : j - 1 \in 0 .. i - 1
      /\ \A j \in 1 .. i : j # i => j \in 1 .. i - 1 /\ j \in 0 .. i - 1
  BY <1>2, <1>3
<1>8. g[0] = H!EmptyTable(n)
  BY <1>5, <1>6, <1>7, Zenon DEF Moves
<1>9. ASSUME NEW j \in 1 .. i PROVE g[j] = H!Moved(m, j - 1, g[j - 1])
  <2>1. g[j - 1] = f[j - 1]
    BY <1>6, <1>7, Zenon
  <2>2. CASE j = i
    BY <1>6, <2>1, <2>2, Zenon DEF v
  <2>3. CASE j # i
    <3>1. j \in 1 .. i - 1 /\ j \in 0 .. i - 1
      BY <1>7, <2>3
    <3>2. g[j] = f[j] /\ f[j] = H!Moved(m, j - 1, f[j - 1])
      BY <1>5, <1>6, <3>1, Zenon DEF Moves
    <3> QED
      BY <2>1, <3>2, Zenon
  <2> QED
    BY <2>2, <2>3
<1>10. Moves(g, i, m, n)
  BY <1>8, <1>9, Zenon DEF Moves
<1>11. Fills(g, i, m, n)
  BY <1>3, <1>6, <1>10, FillsMoves
<1> QED
  BY <1>1, <1>11 DEF Fails

LEMMA RehashIs ==
  ASSUME NEW m, Shaped(m), NEW n
  PROVE  \E f : H!Rehash(m, n) = f[m.alloc] /\ Moves(f, m.alloc, m, n)
<1> DEFINE f == CHOOSE f : Fills(f, m.alloc, m, n)
<1>1. m.alloc \in Nat
  BY DEF Shaped
<1>2. Fills(f, m.alloc, m, n)
  BY <1>1, FillsExist
<1>3. H!Rehash(m, n) = f[m.alloc]
  BY Zenon DEF H!Rehash, Fills
<1> HIDE DEF f
<1>4. Moves(f, m.alloc, m, n)
  BY <1>1, <1>2, FillsMoves
<1> QED
  BY <1>3, <1>4

(* Every key is inserted in the new table, and the last key fits.          *)
LEMMA RehashGood ==
  ASSUME NEW m, NEW Pool, Good(m, Pool), NEW n \in Nat, m.size < n
  PROVE  Good(H!Rehash(m, n), Pool) /\ H!Rehash(m, n).alloc = n /\ H!Rehash(m, n).size = m.size
<1> DEFINE Keys(i) == {m.hash[j] : j \in 0 .. i - 1} \ {0}
           Right(t, i) == /\ Good(t, Keys(i)) /\ t.alloc = n
                          /\ \E r : Ranked(t, r)
<1>1. Shaped(m) /\ m.alloc \in Nat /\ m.size \in Nat /\ n > 0 /\ m.hash \in [Slots(m) -> Nat]
  BY DEF Good, Shaped
<1>2. PICK f : H!Rehash(m, n) = f[m.alloc] /\ Moves(f, m.alloc, m, n)
  BY <1>1, RehashIs
<1>3. Right(f[0], 0)
  <2>1. Keys(0) = {}
    OBVIOUS
  <2>2. f[0] = H!EmptyTable(n)
    BY <1>2 DEF Moves
  <2> HIDE DEF Keys
  <2> QED
    BY <1>1, <2>1, <2>2, EmptyGood
<1>4. ASSUME NEW i \in 1 .. m.alloc, Right(f[i - 1], i - 1) PROVE Right(f[i], i)
  <2> DEFINE k == m.hash[i - 1]
             t == f[i - 1]
  <2>1. i - 1 \in Slots(m) /\ k \in Nat
    BY <1>1 DEF Slots
  <2>2. f[i] = H!Moved(m, i - 1, t)
    BY <1>2 DEF Moves
  <2>3. Keys(i) = (Keys(i - 1) \cup {k}) \ {0}
    <3>1. \A j \in 0 .. i - 1 : j \in 0 .. (i - 1) - 1 \/ j = i - 1
      BY <1>1
    <3>2. i - 1 \in 0 .. i - 1 /\ 0 .. (i - 1) - 1 \subseteq 0 .. i - 1
      BY <1>1
    <3>3. ASSUME NEW y PROVE y \in Keys(i) <=> y \in (Keys(i - 1) \cup {k}) \ {0}
      BY <3>1, <3>2
    <3> HIDE DEF Keys, k
    <3> QED
      BY <3>3
  <2>4. PICK r : Ranked(t, r)
    BY <1>4
  <2>5. 0 \notin Keys(i - 1)
    OBVIOUS
  <2>6. CASE k = 0
    <3>1. f[i] = t
      BY <2>2, <2>6 DEF H!Moved, H!Free
    <3>2. Keys(i) = Keys(i - 1)
      BY <2>3, <2>5, <2>6
    <3> HIDE DEF Keys
    <3> QED
      BY <1>4, <3>1, <3>2
  <2>7. CASE k # 0
    <3>1. f[i] = H!Place(t, k)
      BY <2>2, <2>7 DEF H!Moved, H!Free
    <3>2. Keys(i) = Keys(i - 1) \cup {k}
      BY <2>3, <2>5, <2>7
    <3>3. Keys(i - 1) \subseteq Pool
      <4>1. 0 .. (i - 1) - 1 \subseteq Slots(m)
        BY <1>1 DEF Slots
      <4> QED
        BY <4>1 DEF Good
    <3> HIDE DEF Keys, k, t
    <3>4. Good(t, Keys(i - 1)) /\ t.alloc = n
      BY <1>4 DEF t
    <3>5. t.size < t.alloc /\ Shaped(t)
      <4>1. t.size = Cardinality(Keys(i - 1)) /\ IsFiniteSet(Pool) /\ m.size = Cardinality(Pool)
        BY <3>4 DEF Good
      <4>2. Cardinality(Keys(i - 1)) <= Cardinality(Pool) /\ Cardinality(Keys(i - 1)) \in Nat
        BY <3>3, <4>1, FS_Subset, FS_CardinalityType
      <4> QED
        BY <1>1, <3>4, <4>1, <4>2 DEF Good
    <3>6. H!Returns(t, k)
      BY <2>1, <2>4, <3>5, FreshReturns
    <3>7. Good(f[i], Keys(i - 1) \cup {k}) /\ f[i].alloc = n
      BY <2>1, <2>7, <3>1, <3>4, <3>5, <3>6, PlaceGood
    <3>8. \E q : Ranked(f[i], q)
      BY <2>1, <2>4, <2>7, <3>1, <3>4, <3>5, RankedPlace
    <3> QED
      BY <3>2, <3>7, <3>8
  <2> QED
    BY <2>6, <2>7
<1> HIDE DEF Right
<1>5. \A i \in 0 .. m.alloc : Right(f[i], i)
  <2> DEFINE Fails == {i \in 0 .. m.alloc : ~ Right(f[i], i)}
  <2> SUFFICES ASSUME Fails # {} PROVE FALSE
    OBVIOUS
  <2>1. Fails \subseteq Nat
    BY <1>1
  <2> HIDE DEF Fails
  <2>2. PICK i \in Fails : \A j \in Fails : i <= j
    BY <2>1, FirstPlace
  <2>3. i \in 0 .. m.alloc /\ ~ Right(f[i], i)
    BY <2>2 DEF Fails
  <2>4. i \in 1 .. m.alloc /\ i - 1 \in 0 .. m.alloc /\ ~(i <= i - 1)
    BY <1>1, <1>3, <2>3
  <2>5. Right(f[i - 1], i - 1)
    BY <2>2, <2>4 DEF Fails
  <2> QED
    BY <1>4, <2>3, <2>4, <2>5
<1>6. Right(f[m.alloc], m.alloc)
  BY <1>1, <1>5
<1>7. Keys(m.alloc) = Pool
  <2>1. ASSUME NEW k \in Pool PROVE k \in Keys(m.alloc)
    <3>1. H!Lookup(m, k).at \in Slots(m) /\ m.hash[H!Lookup(m, k).at] = k
      BY DEF Good, H!Found, H!SlotsOf, Slots
    <3>2. k # 0
      BY DEF Good
    <3> QED
      BY <3>1, <3>2 DEF Slots
  <2>2. ASSUME NEW k \in Keys(m.alloc) PROVE k \in Pool
    BY DEF Good, Slots
  <2> HIDE DEF Keys
  <2> QED
    BY <2>1, <2>2
<1> HIDE DEF Keys
<1> QED
  BY <1>2, <1>6, <1>7 DEF Right, Good

(***************************************************************************)
(* The map                                                                 *)
(***************************************************************************)

MapInv == Good(table, kept) /\ table.size < table.alloc /\ kept \subseteq Hash

LEMMA MapStart == ASSUME MapAssumption, H!MapInit PROVE MapInv
<1>1. \A n \in {8, 16, 32, 64} : n \in Nat /\ n > 0
  OBVIOUS
<1>2. H!Alloc0 \in {8, 16, 32, 64}
  <2>1. \E n \in {8, 16, 32, 64} : n >= Prealloc /\ (n = 8 \/ n \div 2 < Prealloc)
    BY DEF MapAssumption
  <2> QED
    BY <2>1 DEF H!Alloc0
<1> DEFINE n == H!Alloc0
<1>3. n \in Nat /\ n > 0
  BY <1>1, <1>2
<1> HIDE DEF n
<1>4. Good(H!EmptyTable(n), kept) /\ H!EmptyTable(n).alloc = n
  BY <1>3, EmptyGood DEF H!MapInit
<1>5. H!EmptyTable(n).size = 0
  BY DEF H!EmptyTable
<1> QED
  BY <1>3, <1>4, <1>5 DEF MapInv, H!MapInit, n

LEMMA MapInsertStep ==
  ASSUME MapAssumption, MapInv, NEW h \in Hash, H!MapInsert(h) PROVE MapInv'
<1> DEFINE m == H!Place(table, h)
           t == kept \cup {h}
<1>1. Good(table, kept) /\ table.size < table.alloc /\ h \in Nat \ {0} /\ H!Returns(table, h)
      /\ kept \subseteq Hash /\ table' = H!Expanded(m) /\ kept' = t
  BY DEF MapInv, H!MapInsert, MapAssumption
<1>2. Good(m, t)
  BY <1>1, PlaceGood
<1> HIDE DEF m, t
<1>3. m.alloc \in Nat /\ m.alloc > 0 /\ m.size \in Nat /\ m.size <= m.alloc
  BY <1>2, RoomForAll DEF Good, Shaped
<1>4. CASE m.size <= (m.alloc * 3) \div 4
  <2>1. H!Expanded(m) = m /\ m.size < m.alloc
    BY <1>3, <1>4 DEF H!Expanded
  <2> QED
    BY <1>1, <1>2, <2>1 DEF MapInv, t
<1>5. CASE ~(m.size <= (m.alloc * 3) \div 4)
  <2>1. H!Expanded(m) = H!Rehash(m, m.alloc * 2)
    BY <1>5 DEF H!Expanded
  <2>2. m.alloc * 2 \in Nat /\ m.size < m.alloc * 2
    BY <1>3
  <2>3. Good(H!Rehash(m, m.alloc * 2), t) /\ H!Rehash(m, m.alloc * 2).alloc = m.alloc * 2
        /\ H!Rehash(m, m.alloc * 2).size = m.size
    BY <1>2, <2>2, RehashGood
  <2> QED
    BY <1>1, <2>1, <2>2, <2>3 DEF MapInv, t
<1> QED
  BY <1>4, <1>5

LEMMA MapRemoveStep ==
  ASSUME MapAssumption, MapInv, NEW h \in Hash, H!MapRemove(h) PROVE MapInv'
<1> DEFINE m == H!Cleared(table, H!Lookup(table, h))
           t == kept \ {h}
<1>1. /\ Good(table, kept) /\ table.size < table.alloc /\ h \in Nat \ {0}
      /\ kept \subseteq Hash /\ kept' = t
      /\ table' = IF H!Found(table, h) THEN H!Rehashed(m) ELSE table
  BY DEF MapInv, H!MapRemove, MapAssumption
<1>2. CASE h \in kept
  <2>1. H!Found(table, h)
    BY <1>1, <1>2 DEF Good
  <2>2. Good(m, t) /\ m.alloc = table.alloc /\ m.size = table.size - 1
    BY <1>1, <1>2, RemoveGood
  <2> HIDE DEF m, t
  <2>3. table' = H!Rehashed(m)
    BY <1>1, <2>1
  <2>4. m.alloc \in Nat /\ m.size \in Nat /\ m.size < m.alloc
    BY <1>1, <2>2 DEF Good, Shaped
  <2>5. CASE m.removed < m.alloc
    <3>1. table' = m
      BY <2>3, <2>5 DEF H!Rehashed
    <3> QED
      BY <1>1, <2>2, <2>4, <3>1 DEF MapInv, t
  <2>6. CASE ~(m.removed < m.alloc)
    <3>1. table' = H!Rehash(m, m.alloc)
      BY <2>3, <2>6 DEF H!Rehashed
    <3>2. Good(H!Rehash(m, m.alloc), t) /\ H!Rehash(m, m.alloc).alloc = m.alloc
          /\ H!Rehash(m, m.alloc).size = m.size
      BY <2>2, <2>4, RehashGood
    <3> QED
      BY <1>1, <2>4, <3>1, <3>2 DEF MapInv, t
  <2> QED
    BY <2>5, <2>6
<1>3. CASE h \notin kept
  <2>1. \A x \in Slots(table) : table.hash[x] # h
    BY <1>1, <1>3 DEF Good
  <2>2. ~ H!Found(table, h)
    BY <2>1 DEF H!Found, H!SlotsOf, Slots
  <2>3. table' = table /\ kept' = kept
    BY <1>1, <1>3, <2>2
  <2> QED
    BY <2>3 DEF MapInv
<1> QED
  BY <1>2, <1>3

LEMMA MapStep == ASSUME MapAssumption, MapInv, H!MapNext PROVE MapInv'
  BY MapInsertStep, MapRemoveStep DEF H!MapNext

LEMMA MapStutter == ASSUME MapInv, UNCHANGED <<table, kept>> PROVE MapInv'
  BY DEF MapInv

LEMMA MapImplies == ASSUME MapAssumption, MapInv PROVE H!MapAnswers
<1>1. \A h \in kept : H!Found(table, h)
  BY DEF MapInv, Good
<1>2. ASSUME NEW h \in Hash \ kept PROVE ~ H!Found(table, h)
  <2>1. h # 0
    BY DEF MapAssumption
  <2>2. \A x \in Slots(table) : table.hash[x] # h
    BY <1>2, <2>1 DEF MapInv, Good
  <2> QED
    BY <2>2 DEF H!Found, H!SlotsOf, Slots
<1>3. table.size = Cardinality(kept)
  BY DEF MapInv, Good
<1>4. H!Cardinality(kept) = Cardinality(kept)
  BY Zenon DEF H!Cardinality, Cardinality
<1> QED
  BY <1>1, <1>2, <1>3, <1>4 DEF H!MapAnswers
(***************************************************************************)
(* The vector                                                              *)
(***************************************************************************)

CONSTANTS Value, Span, MaxHeld
VARIABLES cells, count, elements, failed

G == INSTANCE Vector WITH held <- elements

VectorAssumption == Value \subseteq Int /\ Span \in Nat \ {0} /\ MaxHeld \in Nat

(* While there was memory, the storage begins with the elements, and it is *)
(* never empty.                                                            *)
VectorInv ==
    /\ failed \in BOOLEAN
    /\ ~failed =>
         /\ elements \in Seq(Value) /\ cells \in Seq(Int)
         /\ count = Len(elements) /\ count <= Len(cells) /\ Len(cells) >= 4
         /\ \A i \in 1 .. count : cells[i] = G!Packed(elements[i])

LEMMA PackedIs == ASSUME VectorAssumption, NEW v \in Value PROVE G!Packed(v) \in Int
BY DEF VectorAssumption, G!Packed

LEMMA StorageIs ==
  ASSUME VectorAssumption, NEW c \in Seq(Int), NEW m \in Nat, m <= Len(c), NEW n \in Nat
  PROVE  /\ G!Storage(c, m, n) \in Seq(Int) /\ Len(G!Storage(c, m, n)) = n
         /\ \A i \in 1 .. n : i <= m => G!Storage(c, m, n)[i] = c[i]
<1> DEFINE f == [i \in 1 .. n |-> IF i <= m THEN c[i] ELSE Span]
<1>1. G!Storage(c, m, n) = f
  BY DEF G!Storage, G!Junk
<1>2. \A i \in 1 .. n : f[i] \in Int
  <2> TAKE i \in 1 .. n
  <2>1. i <= m => i \in 1 .. Len(c)
    OBVIOUS
  <2> QED
    BY <2>1 DEF VectorAssumption
<1>3. f \in [1 .. n -> Int]
  BY <1>2
<1>4. f \in Seq(Int) /\ Len(f) = n
  BY <1>3
<1>5. \A i \in 1 .. n : i <= m => f[i] = c[i]
  OBVIOUS
<1> QED
  BY <1>1, <1>4, <1>5

LEMMA ExpandedIs ==
  ASSUME VectorAssumption, VectorInv, ~failed
  PROVE  /\ G!Expanded \in Seq(Int) /\ Len(G!Expanded) >= count + 1
         /\ Len(G!Expanded) >= 4
         /\ \A i \in 1 .. count : G!Expanded[i] = cells[i]
<1>1. /\ cells \in Seq(Int) /\ count \in Nat /\ count <= Len(cells) /\ Len(cells) >= 4
      /\ Len(cells) \in Nat
  BY DEF VectorInv
<1> DEFINE n == IF count = Len(cells) THEN 2 * count ELSE Len(cells)
<1>2. n \in Nat /\ n >= count + 1 /\ n >= 4
  BY <1>1
<1>3. G!Expanded = G!Storage(cells, count, n)
  BY DEF G!Expanded
<1> HIDE DEF n
<1>4. \A i \in 1 .. count : i \in 1 .. n /\ i <= count
  BY <1>1, <1>2
<1> QED
  BY <1>1, <1>2, <1>3, <1>4, StorageIs

LEMMA ShrunkIs ==
  ASSUME VectorAssumption, NEW c \in Seq(Int), Len(c) >= 4, NEW n \in Nat, n <= Len(c),
         NEW r \in G!Shrunk(c, n)
  PROVE  /\ r \in Seq(Int) /\ n <= Len(r) /\ Len(r) >= 4
         /\ \A i \in 1 .. n : r[i] = c[i]
<1> DEFINE least == IF 5 * n <= 2 * Len(c) /\ n >= 8 THEN Len(c) \div 2 ELSE Len(c)
<1>1. Len(c) \in Nat
  OBVIOUS
<1>2. least \in Nat /\ n <= least /\ least >= 4
  BY <1>1
<1>3. PICK size \in {least, Len(c)} : r = G!Storage(c, n, size)
  BY DEF G!Shrunk
<1> HIDE DEF least
<1>4. size \in Nat /\ n <= size /\ size >= 4
  BY <1>1, <1>2
<1>5. \A i \in 1 .. n : i \in 1 .. size /\ i <= n
  BY <1>4
<1> QED
  BY <1>3, <1>4, <1>5, StorageIs

LEMMA VectorStart == ASSUME VectorAssumption, G!VectorInit PROVE VectorInv
<1>1. cells = [i \in 1 .. 4 |-> Span] /\ count = 0 /\ elements = <<>> /\ failed = FALSE
  BY DEF G!VectorInit, G!Reserved, G!Junk
<1>2. cells \in [1 .. 4 -> Int]
  BY <1>1 DEF VectorAssumption
<1>3. cells \in Seq(Int) /\ Len(cells) = 4
  <2>1. \A n \in Nat : cells \in [1 .. n -> Int] => cells \in Seq(Int) /\ Len(cells) = n
    OBVIOUS
  <2>2. 4 \in Nat
    OBVIOUS
  <2> QED
    BY <1>2, <2>1, <2>2
<1>4. elements \in Seq(Value) /\ Len(elements) = 0
  BY <1>1
<1>5. failed \in BOOLEAN
  BY <1>1
<1>6. count = Len(elements) /\ count <= Len(cells) /\ Len(cells) >= 4 /\ 1 .. count = {}
  BY <1>1, <1>3, <1>4
<1> QED
  BY <1>3, <1>4, <1>5, <1>6, Zenon DEF VectorInv

LEMMA VectorStutter ==
  ASSUME VectorInv, UNCHANGED <<cells, count, elements, failed>> PROVE VectorInv'
BY DEF VectorInv, G!Packed

LEMMA PushAtKeeps ==
  ASSUME VectorAssumption, VectorInv, ~failed, NEW v \in Value, NEW idx \in 0 .. MaxHeld,
         G!PushAt(idx, v)
  PROVE  VectorInv'
<1> DEFINE i == idx + 1
           e == G!Expanded
<1>1. /\ idx \in Nat /\ idx <= count /\ i - 1 = idx /\ i \in 1 .. Len(elements) + 1
      /\ elements \in Seq(Value) /\ count = Len(elements) /\ count \in Nat
  BY DEF VectorInv, G!PushAt, VectorAssumption
<1>2. elements' = SubSeq(elements, 1, i - 1) \o <<v>> \o SubSeq(elements, i, Len(elements))
  BY <1>1 DEF G!PushAt
<1>3. /\ elements' \in Seq(Value) /\ Len(elements') = count + 1 /\ elements'[i] = v
      /\ \A j \in 1 .. i - 1 : elements'[j] = elements[j]
      /\ \A j \in i .. count : elements'[j + 1] = elements[j]
  <2>1. PICK s : s = elements
    OBVIOUS
  <2>2. PICK k : k = i
    OBVIOUS
  <2>6. PICK one : one = <<v>>
    OBVIOUS
  <2> DEFINE r == InsertedAt(s, k, one)
  <2>3. s \in Seq(Value) /\ k \in 1 .. Len(s) + 1
    BY <1>1, <2>1, <2>2
  <2>4. /\ r \in Seq(Value) /\ Len(r) = Len(s) + 1 /\ r[k] = v
        /\ \A j \in 1 .. k - 1 : r[j] = s[j]
        /\ \A j \in k .. Len(s) : r[j + 1] = s[j]
    BY <2>3, <2>6, InsertedIs
  <2>5. elements' = r
    BY <1>2, <2>1, <2>2, <2>6 DEF InsertedAt
  <2> HIDE DEF r, i
  <2> QED
    BY <1>1, <2>1, <2>2, <2>4, <2>5
<1>4. /\ e \in Seq(Int) /\ Len(e) >= count + 1 /\ Len(e) >= 4 /\ Len(e) \in Nat
      /\ \A j \in 1 .. count : e[j] = cells[j]
  BY ExpandedIs
<1>5. cells' = [j \in 1 .. Len(e) |-> IF j = i THEN G!Packed(v)
                                     ELSE IF j \in i + 1 .. count + 1 THEN e[j - 1] ELSE e[j]]
  <2>1. DOMAIN e = 1 .. Len(e) /\ idx + 2 = i + 1
    BY <1>1, <1>4
  <2> QED
    BY <2>1 DEF G!PushAt
<1> HIDE DEF e
<1>6. G!Packed(v) \in Int
  BY PackedIs
<1>7. cells' \in [1 .. Len(e) -> Int]
  <2>1. \A j \in 1 .. Len(e) : j \in i + 1 .. count + 1 => j - 1 \in 1 .. Len(e)
    BY <1>1, <1>4
  <2>2. \A j \in 1 .. Len(e) : e[j] \in Int
    <3>1. e \in Seq(Int)
      BY <1>4
    <3> QED
      BY <3>1
  <2> QED
    BY <1>5, <1>6, <2>1, <2>2
<1>8. cells' \in Seq(Int) /\ Len(cells') = Len(e)
  BY <1>4, <1>7
<1>9. \A j \in 1 .. count : cells[j] = G!Packed(elements[j])
  BY DEF VectorInv
<1>10. ASSUME NEW j \in 1 .. count + 1 PROVE cells'[j] = G!Packed(elements'[j])
  <2>0. j \in 1 .. Len(e)
    BY <1>1, <1>4
  <2>1. CASE j = i
    BY <1>3, <1>5, <2>0, <2>1
  <2>2. CASE j < i
    <3>1. j \in 1 .. i - 1 /\ j \in 1 .. count /\ j # i /\ j \notin i + 1 .. count + 1
      BY <1>1, <2>2
    <3>2. cells'[j] = e[j]
      BY <1>5, <2>0, <3>1
    <3> QED
      BY <1>3, <1>4, <1>9, <3>1, <3>2
  <2>3. CASE j > i
    <3>1. /\ j - 1 \in i .. count /\ j - 1 \in 1 .. count /\ j # i /\ (j - 1) + 1 = j
          /\ j \in i + 1 .. count + 1
      BY <1>1, <2>3
    <3>2. cells'[j] = e[j - 1]
      BY <1>5, <2>0, <3>1
    <3>3. elements'[j] = elements[j - 1]
      BY <1>3, <3>1
    <3> QED
      BY <1>4, <1>9, <3>1, <3>2, <3>3
  <2> QED
    BY <1>1, <2>1, <2>2, <2>3
<1>11. count' = count + 1 /\ failed' = failed
  BY DEF G!PushAt
<1>12. count' = Len(elements') /\ count' <= Len(cells') /\ Len(cells') >= 4
  BY <1>3, <1>4, <1>8, <1>11
<1>13. \A j \in 1 .. count' : cells'[j] = (G!Packed(elements[j]))'
  <2>1. \A j \in 1 .. count' : cells'[j] = G!Packed(elements'[j])
    BY <1>10, <1>11
  <2> QED
    BY <2>1 DEF G!Packed
<1> QED
  BY <1>3, <1>8, <1>11, <1>12, <1>13 DEF VectorInv

LEMMA PushKeeps ==
  ASSUME VectorAssumption, VectorInv, ~failed, NEW v \in Value, G!Push(v)
  PROVE  VectorInv'
<1> DEFINE e == G!Expanded
<1>1. elements \in Seq(Value) /\ count = Len(elements) /\ count \in Nat
  BY DEF VectorInv
<1>2. /\ e \in Seq(Int) /\ Len(e) >= count + 1 /\ Len(e) >= 4 /\ Len(e) \in Nat
      /\ \A j \in 1 .. count : e[j] = cells[j]
  BY ExpandedIs
<1>3. cells' = [e EXCEPT ![count + 1] = G!Packed(v)] /\ count' = count + 1
      /\ elements' = Append(elements, v) /\ failed' = failed
  BY DEF G!Push
<1> HIDE DEF e
<1>4. G!Packed(v) \in Int /\ count + 1 \in 1 .. Len(e)
  BY <1>1, <1>2, PackedIs
<1>5. /\ cells' \in Seq(Int) /\ Len(cells') = Len(e) /\ cells'[count + 1] = G!Packed(v)
      /\ \A j \in 1 .. count : cells'[j] = e[j]
  BY <1>1, <1>2, <1>3, <1>4
<1>6. /\ elements' \in Seq(Value) /\ Len(elements') = count + 1 /\ elements'[count + 1] = v
      /\ \A j \in 1 .. count : elements'[j] = elements[j]
  BY <1>1, <1>3
<1>7. \A j \in 1 .. count : cells[j] = G!Packed(elements[j])
  BY DEF VectorInv
<1>8. ASSUME NEW j \in 1 .. count + 1 PROVE cells'[j] = G!Packed(elements'[j])
  <2>1. CASE j = count + 1
    BY <1>5, <1>6, <2>1
  <2>2. CASE j # count + 1
    <3>1. j \in 1 .. count
      BY <1>1, <2>2
    <3> QED
      BY <1>2, <1>5, <1>6, <1>7, <3>1
  <2> QED
    BY <2>1, <2>2
<1>9. \A j \in 1 .. count' : cells'[j] = (G!Packed(elements[j]))'
  <2>1. \A j \in 1 .. count' : cells'[j] = G!Packed(elements'[j])
    BY <1>3, <1>8
  <2> QED
    BY <2>1 DEF G!Packed
<1>10. count' = Len(elements') /\ count' <= Len(cells') /\ Len(cells') >= 4
  BY <1>2, <1>3, <1>5, <1>6
<1> QED
  BY <1>3, <1>5, <1>6, <1>9, <1>10 DEF VectorInv

(* The elements from idx on move down by one, over the one at idx.         *)
LEMMA PopAtKeeps ==
  ASSUME VectorAssumption, VectorInv, ~failed, NEW idx \in 0 .. MaxHeld, G!PopAt(idx)
  PROVE  VectorInv'
<1> DEFINE i == idx + 1
           c == [j \in 1 .. Len(cells) |-> IF j \in i .. count - 1 THEN cells[j + 1] ELSE cells[j]]
<1>1. /\ idx \in Nat /\ idx < count /\ i - 1 = idx /\ i + 1 = idx + 2
      /\ i \in 1 .. Len(elements) /\ elements \in Seq(Value) /\ count = Len(elements)
      /\ count \in Nat /\ cells \in Seq(Int) /\ count <= Len(cells) /\ Len(cells) >= 4
      /\ Len(cells) \in Nat
  BY DEF VectorInv, G!PopAt, VectorAssumption
<1>2. elements' = SubSeq(elements, 1, i - 1) \o SubSeq(elements, i + 1, Len(elements))
  BY <1>1 DEF G!PopAt
<1>3. /\ elements' \in Seq(Value) /\ Len(elements') = count - 1
      /\ \A j \in 1 .. count - 1 : elements'[j] = IF j < i THEN elements[j] ELSE elements[j + 1]
  <2> HIDE DEF i
  <2> QED
    BY <1>1, <1>2, RemovedIs
<1>4. cells' \in G!Shrunk(c, count - 1) /\ count' = count - 1 /\ failed' = failed
  <2>1. DOMAIN cells = 1 .. Len(cells)
    BY <1>1
  <2> QED
    BY <2>1 DEF G!PopAt
<1>5. c \in [1 .. Len(cells) -> Int]
  <2>1. \A j \in 1 .. Len(cells) : j \in i .. count - 1 => j + 1 \in 1 .. Len(cells)
    BY <1>1
  <2>2. \A j \in 1 .. Len(cells) : cells[j] \in Int
    BY <1>1
  <2> QED
    BY <2>1, <2>2
<1>6. c \in Seq(Int) /\ Len(c) = Len(cells)
  BY <1>1, <1>5
<1>7. \A j \in 1 .. count - 1 : c[j] = IF j < i THEN cells[j] ELSE cells[j + 1]
  BY <1>1
<1> HIDE DEF c, i
<1>8. count - 1 \in Nat /\ count - 1 <= Len(c)
  BY <1>1, <1>6
<1>9. /\ cells' \in Seq(Int) /\ count - 1 <= Len(cells') /\ Len(cells') >= 4
      /\ \A j \in 1 .. count - 1 : cells'[j] = c[j]
  BY <1>1, <1>4, <1>6, <1>8, ShrunkIs
<1>10. \A j \in 1 .. count : cells[j] = G!Packed(elements[j])
  BY DEF VectorInv
<1>11. ASSUME NEW j \in 1 .. count - 1 PROVE cells'[j] = G!Packed(elements'[j])
  <2>1. j \in 1 .. count /\ j + 1 \in 1 .. count
    BY <1>1
  <2> QED
    BY <1>3, <1>7, <1>9, <1>10, <2>1
<1>12. \A j \in 1 .. count' : cells'[j] = (G!Packed(elements[j]))'
  <2>1. \A j \in 1 .. count' : cells'[j] = G!Packed(elements'[j])
    BY <1>4, <1>11
  <2> QED
    BY <2>1 DEF G!Packed
<1> QED
  BY <1>3, <1>4, <1>9, <1>12 DEF VectorInv

LEMMA PopKeeps ==
  ASSUME VectorAssumption, VectorInv, ~failed, G!Pop
  PROVE  VectorInv'
<1>1. /\ elements \in Seq(Value) /\ count = Len(elements) /\ count \in Nat /\ count > 0
      /\ cells \in Seq(Int) /\ count <= Len(cells) /\ Len(cells) >= 4 /\ Len(cells) \in Nat
      /\ count - 1 \in Nat /\ count - 1 <= Len(cells)
  BY DEF VectorInv, G!Pop
<1>2. /\ cells' \in G!Shrunk(cells, count - 1) /\ count' = count - 1 /\ failed' = failed
      /\ elements' = SubSeq(elements, 1, count - 1)
  BY DEF G!Pop
<1>3. /\ elements' \in Seq(Value) /\ Len(elements') = count - 1
      /\ \A j \in 1 .. count - 1 : elements'[j] = elements[j]
  <2>1. \A j \in 1 .. count - 1 : elements[j] \in Value
    BY <1>1
  <2> QED
    BY <1>1, <1>2, <2>1, SubSeqProperties
<1>4. /\ cells' \in Seq(Int) /\ count - 1 <= Len(cells') /\ Len(cells') >= 4
      /\ \A j \in 1 .. count - 1 : cells'[j] = cells[j]
  BY <1>1, <1>2, ShrunkIs
<1>5. \A j \in 1 .. count : cells[j] = G!Packed(elements[j])
  BY DEF VectorInv
<1>6. \A j \in 1 .. count' : cells'[j] = (G!Packed(elements[j]))'
  <2>1. ASSUME NEW j \in 1 .. count - 1 PROVE cells'[j] = G!Packed(elements'[j])
    <3>1. j \in 1 .. count
      BY <1>1
    <3> QED
      BY <1>3, <1>4, <1>5, <3>1
  <2> QED
    BY <1>2, <2>1 DEF G!Packed
<1> QED
  BY <1>2, <1>3, <1>4, <1>6 DEF VectorInv

LEMMA VectorStep ==
  ASSUME VectorAssumption, VectorInv, G!VectorNext PROVE VectorInv'
<1>1. ~failed
  BY DEF G!VectorNext
<1>2. CASE G!PushFails
  BY <1>2 DEF G!PushFails, VectorInv
<1>3. CASE G!Pop
  BY <1>1, <1>3, PopKeeps
<1>4. CASE \E v \in Value : G!Push(v)
  BY <1>1, <1>4, PushKeeps
<1>5. CASE \E v \in Value, idx \in 0 .. MaxHeld : G!PushAt(idx, v)
  BY <1>1, <1>5, PushAtKeeps
<1>6. CASE \E idx \in 0 .. MaxHeld : G!PopAt(idx)
  BY <1>1, <1>6, PopAtKeeps
<1> QED
  BY <1>2, <1>3, <1>4, <1>5, <1>6 DEF G!VectorNext

LEMMA VectorImplies == ASSUME VectorAssumption, VectorInv PROVE G!VectorAnswers
<1> SUFFICES ASSUME ~failed PROVE
      /\ count = Len(elements) /\ count <= Len(cells)
      /\ \A i \in 0 .. count - 1 : G!At(i) = G!Signed(G!Packed(elements[i + 1]))
      /\ \A v \in Value :
           IF \E i \in DOMAIN elements : G!Packed(elements[i]) = G!Packed(v)
           THEN /\ G!Find(v) >= 0 /\ G!Packed(elements[G!Find(v) + 1]) = G!Packed(v)
                /\ \A i \in 1 .. G!Find(v) : G!Packed(elements[i]) # G!Packed(v)
           ELSE G!Find(v) = -1
  BY DEF G!VectorAnswers
<1>1. /\ elements \in Seq(Value) /\ count = Len(elements) /\ count \in Nat /\ count <= Len(cells)
      /\ \A i \in 1 .. count : cells[i] = G!Packed(elements[i])
  BY DEF VectorInv
<1>2. \A i \in 0 .. count - 1 : i + 1 \in 1 .. count
  BY <1>1
<1>3. \A i \in 0 .. count - 1 : G!At(i) = G!Signed(G!Packed(elements[i + 1]))
  BY <1>1, <1>2 DEF G!At
<1>4. ASSUME NEW v \in Value
      PROVE  IF \E i \in DOMAIN elements : G!Packed(elements[i]) = G!Packed(v)
             THEN /\ G!Find(v) >= 0 /\ G!Packed(elements[G!Find(v) + 1]) = G!Packed(v)
                  /\ \A i \in 1 .. G!Find(v) : G!Packed(elements[i]) # G!Packed(v)
             ELSE G!Find(v) = -1
  <2> DEFINE places == {i \in 0 .. count - 1 : cells[i + 1] = G!Packed(v)}
             first == CHOOSE i \in places : \A j \in places : i <= j
  <2>1. G!Find(v) = IF places = {} THEN -1 ELSE first
    BY DEF G!Find
  <2>2. DOMAIN elements = 1 .. count
    BY <1>1
  <2>3. \A i \in 0 .. count - 1 : i \in places <=> G!Packed(elements[i + 1]) = G!Packed(v)
    BY <1>1, <1>2
  <2>4. places \subseteq 0 .. count - 1 /\ places \subseteq Nat
    BY <1>1
  <2> HIDE DEF places
  <2>5. ASSUME NEW i \in 1 .. count, G!Packed(elements[i]) = G!Packed(v) PROVE i - 1 \in places
    <3>1. i - 1 \in 0 .. count - 1 /\ (i - 1) + 1 = i
      BY <1>1
    <3> QED
      BY <2>3, <2>5, <3>1
  <2>6. CASE places = {}
    BY <2>1, <2>2, <2>5, <2>6
  <2>7. CASE places # {}
    <3>1. first \in places /\ \A j \in places : first <= j
      BY <2>4, <2>7, FirstPlace
    <3> HIDE DEF first
    <3>2. G!Find(v) = first /\ first \in 0 .. count - 1 /\ first + 1 \in 1 .. count
      BY <1>2, <2>1, <2>4, <2>7, <3>1
    <3>3. G!Packed(elements[first + 1]) = G!Packed(v)
      BY <2>3, <3>1, <3>2
    <3>4. ASSUME NEW i \in 1 .. first, G!Packed(elements[i]) = G!Packed(v) PROVE FALSE
      <4>1. i \in 1 .. count /\ ~(first <= i - 1)
        BY <1>1, <3>2
      <4> QED
        BY <2>5, <3>1, <3>4, <4>1
    <3> QED
      BY <2>2, <3>2, <3>3, <3>4
  <2> QED
    BY <2>6, <2>7
<1> QED
  BY <1>1, <1>3, <1>4
=============================================================================
