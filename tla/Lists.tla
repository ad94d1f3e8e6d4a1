------------------------------- MODULE Lists --------------------------------
(***************************************************************************)
(* What the services do with a list (wl_list, and the arrays of plain C)   *)
(* that is a sequence here.  The operators have the names and the meaning  *)
(* that they have in SequencesExt, which is not extended because of the    *)
(* modules it brings along: a proof over several instances of the services *)
(* would carry the definitions of all of them once for each instance.      *)
(***************************************************************************)
EXTENDS Naturals, Sequences

(* The elements, whatever their places.                                    *)
ToSet(s) == { s[i] : i \in DOMAIN s }

(* The list without the element at place i (wl_list_remove).               *)
RemoveAt(s, i) == SubSeq(s, 1, i - 1) \o SubSeq(s, i + 1, Len(s))

(* The list without its last element.                                      *)
Front(s) == SubSeq(s, 1, Len(s) - 1)
=============================================================================
