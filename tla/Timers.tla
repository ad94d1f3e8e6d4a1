------------------------------- MODULE Timers -------------------------------
(***************************************************************************)
(* The timers of the Lua library (objects/timer.c).  A timer has an event  *)
(* source, which is armed or not, and a flag `started' the methods decide  *)
(* by; the callback of a timer may use any method on any timer, its own    *)
(* included, and what the code does after the callback has returned does   *)
(* not look at what the callback did.  A timer destroyed by its own        *)
(* callback is read when it is freed, and is not followed.                 *)
(***************************************************************************)
EXTENDS Integers, Lists

CONSTANTS Timer, MaxNesting   \* bound: callbacks that are running at once

VARIABLES timers,   \* of each: kind, timeout, started, armed; "free" is no timer
          calls     \* the timers whose callback is running, innermost first

timerVars == <<timers, calls>>

NoTimer == [kind |-> "free", timeout |-> 0, started |-> FALSE, armed |-> FALSE]

Live(t) == timers[t].kind # "free"

(* wl_event_source_timer_update: a timeout of 0 disarms the source.        *)
Update(r) == [r EXCEPT !.armed = r.timeout > 0]

Disarm(r) == [r EXCEPT !.armed = FALSE]

(* What timer_timed_out does once the callback has returned.               *)
After(r) ==
    CASE r.kind = "one" -> NoTimer
      [] r.kind = "single" -> [r EXCEPT !.started = FALSE]
      [] OTHER -> Update(r)

TimeOut(t) ==
    /\ calls = <<>> /\ timers[t].armed
    /\ timers' = [timers EXCEPT ![t] = Disarm(@)]
    /\ calls' = <<t>>

Return ==
    /\ calls # <<>>
    /\ timers' = [timers EXCEPT ![Head(calls)] = After(@)]
    /\ calls' = Tail(calls)

(* luaC_timer_new; with call_now the callback is called at once, armed or  *)
(* not, which destroys a one shot timer before it is returned.             *)
New(t, kind, timeout, autostart, callNow) ==
    /\ ~Live(t)
    /\ callNow => kind # "one" /\ Len(calls) < MaxNesting
    /\ LET r == [kind |-> kind, timeout |-> timeout, started |-> autostart,
                 armed |-> FALSE]
       IN timers' = [timers EXCEPT ![t] = IF autostart THEN Update(r) ELSE r]
    /\ calls' = IF callNow THEN <<t>> \o calls ELSE calls

Does(t, r) ==
    /\ Live(t)
    /\ timers' = [timers EXCEPT ![t] = r]
    /\ UNCHANGED calls

SetStarted(t, on) ==
    LET r == IF ~on THEN Disarm(timers[t])
             ELSE IF timers[t].started THEN timers[t]
             ELSE Update(timers[t])
    IN Does(t, [r EXCEPT !.started = on])

(* A variant that arms the timer anew only when it is armed.               *)
SetTimeoutArmed(t, timeout) ==
    LET r == [timers[t] EXCEPT !.timeout = timeout]
    IN Does(t, IF r.armed THEN Update(r) ELSE r)

SetTimeout(t, timeout) ==
    LET r == [timers[t] EXCEPT !.timeout = timeout]
    IN Does(t, IF r.started THEN Update(r) ELSE r)

(* start arms the source and does not set the flag.                        *)
Start(t) == Does(t, IF timers[t].started THEN timers[t] ELSE Update(timers[t]))

Stop(t) == Does(t, [Disarm(timers[t]) EXCEPT !.started = FALSE])

Again(t) == Does(t, Update([timers[t] EXCEPT !.started = FALSE]))

Destroy(t) ==
    /\ t \notin ToSet(calls)
    /\ Does(t, NoTimer)

(* cwc_restart_lua destroys every timer, when no callback is running.      *)
ReloadTimers ==
    /\ calls = <<>>
    /\ timers' = [t \in Timer |-> NoTimer]
    /\ UNCHANGED calls

TimersInit == timers = [t \in Timer |-> NoTimer] /\ calls = <<>>

TimersNext ==
    \/ \E t \in Timer :
         \/ TimeOut(t) \/ Start(t) \/ Stop(t) \/ Again(t) \/ Destroy(t)
         \/ \E on \in BOOLEAN : SetStarted(t, on)
         \/ \E timeout \in {0, 1} : SetTimeout(t, timeout)
         \/ \E kind \in {"repeating", "single", "one"}, timeout \in {0, 1},
               auto, now \in BOOLEAN : New(t, kind, timeout, auto, now)
    \/ Return
    \/ ReloadTimers

TimersSpec == TimersInit /\ [][TimersNext]_timerVars

(***************************************************************************)
(* Properties                                                              *)
(***************************************************************************)

(* A timer that says it is started will time out, unless its timeout is 0  *)
(* or its callback is running: whatever mix of methods was used on it, in  *)
(* its callback and outside, the flag and the event source do not part in  *)
(* that direction (they do in the other: start does not set the flag, and  *)
(* a repeating timer is armed again although its callback stopped it).     *)
StartedTimersRun ==
    \A t \in Timer :
        timers[t].started /\ timers[t].timeout > 0 /\ t \notin ToSet(calls)
            => timers[t].armed

=============================================================================
