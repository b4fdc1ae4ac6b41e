------------------------------- MODULE OcList --------------------------------
(***************************************************************************)
(* Linked lists, util/oc_list.c: a list is the sequence of its items.      *)
(***************************************************************************)
EXTENDS Naturals, Sequences

\* The list once oc_list_remove was called for each of its items that are in
\* S: the others are left, in their order.
Without(list, S) ==
  LET kept[n \in 0 .. Len(list)] ==
        IF n = 0 THEN << >>
        ELSE IF list[n] \in S THEN kept[n - 1]
        ELSE Append(kept[n - 1], list[n])
  IN kept[Len(list)]
=============================================================================
