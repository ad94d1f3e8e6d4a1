------------------------------- MODULE Vector --------------------------------
(***************************************************************************)
(* The growing array of util-vec.c, in which a keyboard group remembers    *)
(* the keys that bindings have consumed (keyboard.c).  Elements are        *)
(* integers cut to the size of the vector.  The storage doubles when it is *)
(* full and is halved when at most two fifths of it are used; held is the  *)
(* list the calls describe.                                                *)
(*                                                                         *)
(* Indices are those a caller may pass: nothing checks that of push_at,    *)
(* and the others abort.  A push without memory counts an element that is  *)
(* not there and says so; what follows then is not modelled.               *)
(***************************************************************************)
EXTENDS Integers, Sequences

CONSTANTS Value,    \* what is pushed
          Span,     \* 2 to the bits of an element
          MaxHeld   \* bound on the elements

VARIABLES cells,   \* data, as long as alloc
          count,
          held, failed

vectorVars == <<cells, count, held, failed>>

Junk == Span  \* what the storage holds past the last element
Reserved == 4

Packed(v) == v % Span
Signed(u) == IF u < Span \div 2 THEN u ELSE u - Span

(* cwc_vec_at and cwc_vec_find, with indices from 0                        *)
At(i) == Signed(cells[i + 1])
Find(v) ==
    LET places == {i \in 0 .. count - 1 : cells[i + 1] = Packed(v)}
    IN IF places = {} THEN -1 ELSE CHOOSE i \in places : \A j \in places : i <= j

(* The first m elements in storage for n.                                  *)
Storage(c, m, n) == [i \in 1 .. n |-> IF i <= m THEN c[i] ELSE Junk]

(* check_expand, when there is memory                                      *)
Expanded == Storage(cells, count, IF count = Len(cells) THEN 2 * count ELSE Len(cells))

(* check_shrink to n elements; realloc may refuse                          *)
Shrunk(c, n) ==
    LET least == IF 5 * n <= 2 * Len(c) /\ n >= 8 THEN Len(c) \div 2 ELSE Len(c)
    IN {Storage(c, n, size) : size \in {least, Len(c)}}

Push(v) ==
    /\ cells' = [Expanded EXCEPT ![count + 1] = Packed(v)]
    /\ count' = count + 1
    /\ held' = Append(held, v)
    /\ UNCHANGED failed

PushAt(idx, v) ==
    /\ idx <= count
    /\ cells' = [i \in DOMAIN Expanded |->
                    IF i = idx + 1 THEN Packed(v)
                    ELSE IF i \in idx + 2 .. count + 1 THEN Expanded[i - 1]
                    ELSE Expanded[i]]
    /\ count' = count + 1
    /\ held' = SubSeq(held, 1, idx) \o <<v>> \o SubSeq(held, idx + 1, count)
    /\ UNCHANGED failed

PushFails ==
    /\ count = Len(cells)
    /\ count' = count + 1 /\ failed' = TRUE
    /\ UNCHANGED <<cells, held>>

Pop ==
    /\ count > 0
    /\ count' = count - 1
    /\ cells' \in Shrunk(cells, count - 1)
    /\ held' = SubSeq(held, 1, count - 1)
    /\ UNCHANGED failed

PopAt(idx) ==
    /\ idx < count
    /\ count' = count - 1
    /\ cells' \in Shrunk([i \in DOMAIN cells |->
                             IF i \in idx + 1 .. count - 1 THEN cells[i + 1] ELSE cells[i]],
                         count - 1)
    /\ held' = SubSeq(held, 1, idx) \o SubSeq(held, idx + 2, count)
    /\ UNCHANGED failed

VectorInit ==
    /\ cells = [i \in 1 .. Reserved |-> Junk]
    /\ count = 0 /\ held = <<>> /\ failed = FALSE

(* Bound: at most MaxHeld elements, and a value other than 0 once.         *)
MayPush(v) == count < MaxHeld /\ (v = 0 \/ \A i \in DOMAIN held : held[i] # v)

VectorNext ==
    /\ ~failed
    /\ \/ \E v \in Value : MayPush(v) /\ Push(v)
       \/ \E v \in Value, idx \in 0 .. MaxHeld : MayPush(v) /\ PushAt(idx, v)
       \/ PushFails \/ Pop
       \/ \E idx \in 0 .. MaxHeld : PopAt(idx)

(***************************************************************************)
(* Properties                                                              *)
(***************************************************************************)

(* However the storage has grown and shrunk, what was pushed and not       *)
(* popped is read again at its place, cut to the size of an element, and   *)
(* found at the first place where it is.                                   *)
VectorAnswers ==
    ~failed =>
      /\ count = Len(held) /\ count <= Len(cells)
      /\ \A i \in 0 .. count - 1 : At(i) = Signed(Packed(held[i + 1]))
      /\ \A v \in Value :
           IF \E i \in DOMAIN held : Packed(held[i]) = Packed(v)
           THEN /\ Find(v) >= 0 /\ Packed(held[Find(v) + 1]) = Packed(v)
                /\ \A i \in 1 .. Find(v) : Packed(held[i]) # Packed(v)
           ELSE Find(v) = -1

============================================================================
