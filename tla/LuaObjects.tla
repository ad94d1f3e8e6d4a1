------------------------------ MODULE LuaObjects ------------------------------
(***************************************************************************)
(* What Lua knows of the objects of the compositor (luaobject.h, luaclass.h*)
(* and luac.c, with the places that register and unregister).  A userdata  *)
(* holds the address of its object and is accepted while the registry of   *)
(* the Lua state has an entry for the address.  A reload closes the state: *)
(* bindings and maps of keys go with it, everything else lives on and has  *)
(* to be registered again by a walk over the lists of the compositor.      *)
(*                                                                         *)
(* A client stands for all classes whose objects are in such a list from   *)
(* their creation to their end: clients, containers, layer shells, input   *)
(* devices and tablets.  The groups of seats and those of virtual keyboards*)
(* have one class and two kinds, as only the first are walked.  A plugin   *)
(* that unloads itself from its own plugin::load, before it is in the list,*)
(* is not followed; nor are timers, which a reload destroys (Timers).      *)
(***************************************************************************)
EXTENDS Naturals

CONSTANTS Address,  \* what malloc returns
          Nothing   \* no object, no entry

VARIABLES object,   \* address -> the kind of the object there
          known,    \* address -> the class in the registry of the Lua state
          listed,   \* the addresses that a list of the compositor holds
          state,    \* of an output: its tag, its structure, or the former one
          missed    \* the tags that were in no list at a reload

objectVars == <<object, known, listed, state, missed>>

Class(k) == CASE k = "virtual" -> "kbd"
              [] k = "map" -> "kbindmap"
              [] OTHER -> k

(* luaC_object_*_register, luaC_object_unregister.                         *)
Known(a, k) == [known EXCEPT ![a] = Class(k)]
Unknown(a) == [known EXCEPT ![a] = Nothing]

Free(a) == object[a] = Nothing

(***************************************************************************)
(* Lists that the walk knows, and kinds it does not                        *)
(***************************************************************************)

(* cwc_toplevel_init_common_stuff and its like: in the list, then known.   *)
NewClient(a) ==
    /\ Free(a)
    /\ object' = [object EXCEPT ![a] = "client"]
    /\ listed' = listed \cup {a} /\ known' = Known(a, "client")
    /\ UNCHANGED <<state, missed>>

DestroyClient(a) ==
    /\ object[a] = "client"
    /\ object' = [object EXCEPT ![a] = Nothing]
    /\ listed' = listed \ {a} /\ known' = Unknown(a)
    /\ UNCHANGED <<state, missed>>

(* A seat has a cursor and a group of keyboards; the group is found by way *)
(* of the list of seats.                                                   *)
NewSeat(a, b) ==
    /\ a # b /\ Free(a) /\ Free(b)
    /\ object' = [object EXCEPT ![a] = "pointer", ![b] = "kbd"]
    /\ listed' = listed \cup {b}
    /\ known' = [Known(a, "pointer") EXCEPT ![b] = "kbd"]
    /\ UNCHANGED <<state, missed>>

DestroySeat(a, b) ==
    /\ object[a] = "pointer" /\ object[b] = "kbd"
    /\ object' = [object EXCEPT ![a] = Nothing, ![b] = Nothing]
    /\ listed' = listed \ {b}
    /\ known' = [Unknown(a) EXCEPT ![b] = Nothing]
    /\ UNCHANGED <<state, missed>>

NewVirtualKeyboard(a) ==
    /\ Free(a)
    /\ object' = [object EXCEPT ![a] = "virtual"] /\ known' = Known(a, "virtual")
    /\ UNCHANGED <<listed, state, missed>>

DestroyVirtualKeyboard(a) ==
    /\ object[a] = "virtual"
    /\ object' = [object EXCEPT ![a] = Nothing] /\ known' = Unknown(a)
    /\ UNCHANGED <<listed, state, missed>>

(* load_plugin and cwc_plugin_start; a plugin that is there is not loaded. *)
LoadPlugin(a) ==
    /\ Free(a) /\ \A p \in listed : object[p] # "plugin"
    /\ object' = [object EXCEPT ![a] = "plugin"]
    /\ listed' = listed \cup {a} /\ known' = Known(a, "plugin")
    /\ UNCHANGED <<state, missed>>

UnloadPlugin(a) ==
    /\ object[a] = "plugin"
    /\ object' = [object EXCEPT ![a] = Nothing]
    /\ listed' = listed \ {a} /\ known' = Unknown(a)
    /\ UNCHANGED <<state, missed>>

(***************************************************************************)
(* An output: its tags outlive it, and so does its freed-later structure   *)
(***************************************************************************)

(* on_new_output; the state is created with its tags (here one), or found  *)
(* in the cache, which frees the structure of the output that was here.    *)
Plug(a, t) ==
    /\ state.of = Nothing /\ Free(a) /\ a # t
    /\ IF state.tag = Nothing
       THEN /\ Free(t)
            /\ object' = [object EXCEPT ![a] = "screen", ![t] = "tag"]
            /\ known' = [Known(a, "screen") EXCEPT ![t] = "tag"]
       ELSE /\ t = state.tag
            /\ object' = [object EXCEPT ![a] = "screen", ![state.old] = Nothing]
            /\ known' = Known(a, "screen")
    /\ listed' = listed \cup {a, t}
    /\ state' = [tag |-> t, of |-> a, old |-> Nothing]
    /\ UNCHANGED missed

(* A variant that unregisters the output only when its memory is freed.    *)
UnplugKnown(a) ==
    /\ state.of = a
    /\ listed' = listed \ {a, state.tag}
    /\ state' = [state EXCEPT !.of = Nothing, !.old = a]
    /\ object' = [object EXCEPT ![a] = "gone"]
    /\ UNCHANGED <<known, missed>>

(* on_output_destroy keeps the memory, cwc_output_state_save the tags.     *)
Unplug(a) ==
    /\ state.of = a
    /\ listed' = listed \ {a, state.tag}
    /\ state' = [state EXCEPT !.of = Nothing, !.old = a]
    /\ object' = [object EXCEPT ![a] = "gone"]
    /\ known' = Unknown(a)
    /\ UNCHANGED missed

(***************************************************************************)
(* Maps of key bindings                                                    *)
(***************************************************************************)

NewMap(a) ==
    /\ Free(a)
    /\ object' = [object EXCEPT ![a] = "map"]
    /\ listed' = listed \cup {a} /\ known' = Known(a, "map")
    /\ UNCHANGED <<state, missed>>

(* The bindings of a map come and go with Bind, Clear and Reload.          *)
DestroyMap(a) ==
    /\ object[a] = "map"
    /\ object' = [object EXCEPT ![a] = Nothing]
    /\ listed' = listed \ {a} /\ known' = Unknown(a)
    /\ UNCHANGED <<state, missed>>

Bind(a) ==
    /\ Free(a)
    /\ object' = [object EXCEPT ![a] = "kbind"] /\ known' = Known(a, "kbind")
    /\ UNCHANGED <<listed, state, missed>>

Clear(a) ==
    /\ object[a] = "kbind"
    /\ object' = [object EXCEPT ![a] = Nothing] /\ known' = Unknown(a)
    /\ UNCHANGED <<listed, state, missed>>

(***************************************************************************)
(* cwc_restart_lua: destroy what cannot be kept, close the state, run the  *)
(* configuration (whose own objects follow as steps) and walk the lists.   *)
(* The main map, which no function hands out, is left out: the new one is  *)
(* created, and registered, before the old state goes.                     *)
(***************************************************************************)

Destroyed == {a \in Address : object[a] \in {"map", "kbind"}}

Walked == {a \in listed : object[a] \in {"client", "plugin", "kbd", "screen", "tag"}}

Reregistered == [a \in Address |-> IF a \in Walked THEN Class(object[a]) ELSE Nothing]

Reload ==
    /\ object' = [a \in Address |-> IF a \in Destroyed THEN Nothing ELSE object[a]]
    /\ listed' = listed \ Destroyed
    /\ known' = Reregistered
    /\ missed' = missed \cup {a \in Address \ listed : object[a] = "tag"}
    /\ UNCHANGED state

ObjectsInit ==
    /\ object = [a \in Address |-> Nothing]
    /\ known = [a \in Address |-> Nothing]
    /\ listed = {} /\ missed = {}
    /\ state = [tag |-> Nothing, of |-> Nothing, old |-> Nothing]

ObjectsNext ==
    \/ \E a \in Address :
          \/ NewClient(a) \/ DestroyClient(a)
          \/ NewVirtualKeyboard(a) \/ DestroyVirtualKeyboard(a)
          \/ LoadPlugin(a) \/ UnloadPlugin(a)
          \/ NewMap(a) \/ DestroyMap(a) \/ Bind(a) \/ Clear(a)
          \/ Unplug(a)
    \/ \E a, b \in Address : NewSeat(a, b) \/ DestroySeat(a, b) \/ Plug(a, b)
    \/ Reload

(***************************************************************************)
(* Properties                                                              *)
(***************************************************************************)

(* What the functions of cwc.client, cwc.kbd, cwc.plugin and cwc.screen    *)
(* give to Lua, directly or from an object they give.                      *)
HandedOut ==
    {a \in listed : object[a] \in {"client", "plugin", "kbd", "screen", "tag", "map"}}
      \cup {a \in Address : object[a] = "kbind"}

(* Lua is never let through to an object that is no longer there, also     *)
(* when its memory is kept, nor to one of another class; and what it is    *)
(* handed is an object and not nil, through any number of reloads and of   *)
(* outputs that come and go.  Two kinds are not: the tags of an output     *)
(* that was unplugged during a reload (cwc_output_state_try_restore does   *)
(* not register them), and pointers, which reregister_lua_object leaves    *)
(* out so that cwc.pointer.get returns an empty table after a reload.      *)
ObjectsAreKnown ==
    \A a \in Address :
        /\ known[a] # Nothing =>
             object[a] \notin {Nothing, "gone"} /\ known[a] = Class(object[a])
        /\ a \in HandedOut \ missed => known[a] = Class(object[a])

=============================================================================
