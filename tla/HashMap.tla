------------------------------- MODULE HashMap -------------------------------
(***************************************************************************)
(* The hash map of util-map.c, which holds the signals and every map of    *)
(* key bindings.  A colliding entry is put in the next empty slot of the   *)
(* table (linear probing) and linked behind the last entry of its chain.   *)
(* Entries of different chains meet, and removing an entry in the middle   *)
(* of a chain leaves its slot linked but free.  util.h says itself that    *)
(* inserts and removals "may cause infinite loop" (util.h:29): a freed     *)
(* slot reused behind its own chain closes the chain, and the lookup of an *)
(* absent key then never returns.  An operation is enabled here only while *)
(* its lookup returns.  A key stands for its 64-bit hash, which the code   *)
(* takes to be unique and never 0; the data is the abstract map `held'.    *)
(***************************************************************************)
EXTENDS Integers, FiniteSets

CONSTANTS Hash,     \* the hashes of the keys in use, positive
          MaxUse,   \* bound: entries held and removals since the last rehash
          Prealloc  \* the size the table is asked to start with

VARIABLES table,    \* the table of the code
          held      \* what a map would hold: the keys inserted and not removed

mapVars == <<table, held>>

NoLink == -1  \* NULL, for a link
Free == 0     \* the hash of a slot without an entry

(* init_alloc of cwc_hhmap_create: 8, doubled up to what is asked for.     *)
Alloc0 == CHOOSE n \in {8, 16, 32, 64} :
             n >= Prealloc /\ (n = 8 \/ n \div 2 < Prealloc)

EmptyTable(n) == [hash |-> [i \in 0 .. n - 1 |-> Free],
                  next |-> [i \in 0 .. n - 1 |-> NoLink], alloc |-> n, size |-> 0,
                  removed |-> 0]

(* The walk of a lookup: from the root slot of the hash along the links,   *)
(* to the entry (at) or past the end of the chain (at = NoLink, prev the   *)
(* last slot).  After as many steps as there are slots it is in a circle.  *)
Root(m, h) == [at |-> h % m.alloc, prev |-> h % m.alloc]

Follow(m, h, w) ==
    IF w.at = NoLink \/ m.hash[w.at] = h THEN w ELSE [at |-> m.next[w.at], prev |-> w.at]

Lookup(m, h) ==
    LET walk[i \in 0 .. m.alloc] ==
            IF i = 0 THEN Root(m, h) ELSE Follow(m, h, walk[i - 1])
    IN walk[m.alloc]

SlotsOf(m, h) == {i \in 0 .. m.alloc - 1 : m.hash[i] = h}

Found(m, h) == Lookup(m, h).at \in SlotsOf(m, h)

Returns(m, h) == Lookup(m, h).at \in SlotsOf(m, h) \cup {NoLink}

(* The first free slot from the last one of the chain on, wrapping round.  *)
Probe(m, from) ==
    LET d == CHOOSE d \in 0 .. m.alloc - 1 :
                /\ m.hash[(from + d) % m.alloc] = Free
                /\ \A e \in 0 .. d - 1 : m.hash[(from + e) % m.alloc] # Free
    IN (from + d) % m.alloc

(* A variant that links the entry only when it follows the chain directly. *)
PlaceUnlinked(m, h) ==
    LET w == Lookup(m, h)
        slot == Probe(m, w.prev)
    IN IF w.at # NoLink THEN m
       ELSE [m EXCEPT !.hash[slot] = h, !.size = @ + 1,
                      !.next[w.prev] = IF slot = w.prev + 1 THEN slot ELSE @]

(* __cwc_hhmap_insert up to the call that may expand the table.            *)
Place(m, h) ==
    LET w == Lookup(m, h)
        slot == Probe(m, w.prev)
    IN IF w.at # NoLink THEN m
       ELSE [m EXCEPT !.hash[slot] = h, !.size = @ + 1,
                      !.next[w.prev] = IF slot # w.prev THEN slot ELSE @]

(* Every entry of the old table is inserted in a new one, slot by slot.    *)
Moved(m, i, new) == IF m.hash[i] = Free THEN new ELSE Place(new, m.hash[i])

Rehash(m, n) ==
    LET new[i \in 0 .. m.alloc] ==
            IF i = 0 THEN EmptyTable(n) ELSE Moved(m, i - 1, new[i - 1])
    IN new[m.alloc]

Expanded(m) == IF m.size <= (m.alloc * 3) \div 4 THEN m ELSE Rehash(m, m.alloc * 2)

(* The build defines HHMAP_AUTOMATIC_REHASH (meson.build:6): after as many  *)
(* removals as there are slots the table is made anew, in its size, which  *)
(* drops the links of the freed slots; it never shrinks.                   *)
Rehashed(m) == IF m.removed < m.alloc THEN m ELSE Rehash(m, m.alloc)

(* Clearing the entry: the last of a chain is cut off it, another keeps    *)
(* its link for the entries behind it.                                     *)
Cleared(m, w) ==
    IF m.next[w.at] = NoLink
    THEN [m EXCEPT !.next[w.prev] = NoLink, !.hash[w.at] = Free, !.size = @ - 1,
                   !.removed = @ + 1]
    ELSE [m EXCEPT !.hash[w.at] = Free, !.size = @ - 1, !.removed = @ + 1]

(***************************************************************************)
(* Behaviour                                                               *)
(***************************************************************************)

MapInit == table = EmptyTable(Alloc0) /\ held = {}

MapInsert(h) ==
    /\ Returns(table, h)
    /\ table' = Expanded(Place(table, h))
    /\ held' = held \cup {h}

MapRemove(h) ==
    /\ Returns(table, h)
    /\ table' = IF Found(table, h) THEN Rehashed(Cleared(table, Lookup(table, h)))
                ELSE table
    /\ held' = held \ {h}

MapNext == \/ /\ table.size + table.removed < MaxUse
              /\ \E h \in Hash : MapInsert(h)
           \/ \E h \in Hash : MapRemove(h)

(***************************************************************************)
(* Properties                                                              *)
(***************************************************************************)

(* The table answers as the map it implements: an entry that was inserted  *)
(* and not removed is found, whatever was removed from the chain in front  *)
(* of it and whenever the table grew, and an entry that is not there is    *)
(* not found when the lookup returns at all (util-map.c, used by           *)
(* keybinding.c and signal.c).                                             *)
MapAnswers ==
    /\ \A h \in held : Found(table, h)
    /\ \A h \in Hash \ held : Returns(table, h) => ~Found(table, h)
    /\ table.size = Cardinality(held)

=============================================================================
