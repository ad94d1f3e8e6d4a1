------------------------------- MODULE LuaRefs -------------------------------
(***************************************************************************)
(* The Lua functions that C code keeps, by their number in a table of the  *)
(* Lua state: in the registry those of key bindings, of slots of signals   *)
(* and of child processes, in a table of their own those of timers and of  *)
(* delayed calls.  The module follows one such table, with the references  *)
(* of luaL_ref and luaL_unref as the auxiliary library makes them: a free  *)
(* place holds the number of the next free place, place 0 of the first.    *)
(*                                                                         *)
(* A reload closes the state.  cwc_restart_lua destroys bindings, slots of *)
(* signals and timers before; a child that runs and a call that is delayed *)
(* keep their number, which in the new state is another's or nobody's.     *)
(* Once it was given back there, nothing is followed until a next reload.  *)
(***************************************************************************)
EXTENDS Naturals, FiniteSets

CONSTANTS Holder,   \* bindings, slots and timers; children and delayed calls
          Outliving,\* the holders among them that a reload does not destroy
          MaxRef,   \* bound: places of the table
          Nil

VARIABLES place,    \* the table
          ref,      \* the number a holder keeps, or Nil
          stale,    \* the holders whose number is of a former state
          haunted   \* was a stale number given back to this state

refVars == <<place, ref, stale, haunted>>

Number == 0 .. MaxRef

(* lua_tointeger of what is in a place: 0 for a function and for nil.      *)
Integer(v) == IF v \in Number THEN v ELSE 0

Last == {n \in Number : place[n] # Nil /\ (n < MaxRef => place[n + 1] = Nil)}

(* luaL_ref: the first free place, or one past an end of the table.        *)
Refer(h) ==
    /\ ref[h] = Nil
    /\ LET first == Integer(place[0])
       IN IF first # 0
          THEN /\ place' = [place EXCEPT ![0] = place[first], ![first] = h]
               /\ ref' = [ref EXCEPT ![h] = first]
          ELSE \E n \in Last \ {MaxRef} :
                  /\ place' = [place EXCEPT ![n + 1] = h]
                  /\ ref' = [ref EXCEPT ![h] = n + 1]
    /\ UNCHANGED <<stale, haunted>>

(* luaL_unref.  An argument that was not given has the number 0.           *)
Unreferred(n) == [place EXCEPT ![n] = place[0], ![0] = n]

(* The holder goes: a binding that is removed or replaced, a slot that is  *)
(* disconnected, a timer that is destroyed, a child whose exit was reported*)
(* or a call that was made.  Whatever is in its place goes with it.        *)
Release(h) ==
    /\ ref[h] # Nil
    /\ place' = Unreferred(ref[h])
    /\ ref' = [ref EXCEPT ![h] = Nil]
    /\ stale' = stale \ {h}
    /\ haunted' = (haunted \/ h \in stale)

(* The same for a timer or a child that was given no data, or a child with *)
(* one callback of two: 0 is given back as well.                           *)
ReleaseWithout(h) ==
    /\ ref[h] # Nil
    /\ place' = [Unreferred(ref[h]) EXCEPT ![0] = 0]
    /\ ref' = [ref EXCEPT ![h] = Nil]
    /\ stale' = stale \ {h}
    /\ haunted' = (haunted \/ h \in stale)

(* A variant that destroys nothing.                                        *)
ClearedNot == {}

(* The holders that cwc_restart_lua destroys before it closes the state.   *)
Cleared == Holder \ Outliving

RestartLua ==
    /\ place' = [n \in Number |-> IF n = 0 THEN 0 ELSE Nil]
    /\ ref' = [h \in Holder |-> IF h \in Cleared THEN Nil ELSE ref[h]]
    /\ stale' = {h \in Outliving : ref[h] # Nil}
    /\ haunted' = FALSE

RefsInit ==
    /\ place = [n \in Number |-> IF n = 0 THEN 0 ELSE Nil]
    /\ ref = [h \in Holder |-> Nil]
    /\ stale = {} /\ haunted = FALSE

RefsNext ==
    \/ ~haunted /\ \E h \in Holder : Refer(h) \/ Release(h) \/ ReleaseWithout(h)
    \/ RestartLua

RefsSpec == RefsInit /\ [][RefsNext]_refVars

(***************************************************************************)
(* Properties                                                              *)
(***************************************************************************)

(* Whoever calls back calls the function that was registered with it, and  *)
(* a function is kept no longer than its holder, however numbers are given *)
(* back and taken again.  This ends when a child that was spawned before a *)
(* reload exits after it, or a call delayed before it is made (timer.c:167 *)
(* tells): free_spawn_obj then gives back a number of the new state, which *)
(* may be the place of a key binding.                                      *)
CallbacksAreTheirs ==
    ~haunted =>
        /\ \A h \in Holder \ stale : ref[h] # Nil => place[ref[h]] = h
        /\ \A n \in Number : place[n] \in Holder =>
              ref[place[n]] = n /\ place[n] \notin stale

=============================================================================
