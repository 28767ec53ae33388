------------------------------ MODULE ListSpec ------------------------------
(***************************************************************************)
(* What list.h promises: each list head stands for a sequence of items, an *)
(* item is added at one place of one sequence or taken out of it, and      *)
(* somebody who follows the list forward never sees anything in between.   *)
(***************************************************************************)
EXTENDS SequencesExt

CONSTANTS Heads, Items

VARIABLE items   \* the items of each list, in order

Linked == UNION {Range(items[h]) : h \in Heads}

Insert(h, i, item) ==
  /\ item \notin Linked
  /\ items' = [items EXCEPT ![h] = InsertAt(@, i, item)]

Delete(h, i) == items' = [items EXCEPT ![h] = RemoveAt(@, i)]

Init == items = [h \in Heads |-> <<>>]

Next == \E h \in Heads :
  \/ \E i \in 1..(Len(items[h]) + 1), item \in Items : Insert(h, i, item)
  \/ \E i \in 1..Len(items[h]) : Delete(h, i)

Spec == Init /\ [][Next]_items
=============================================================================
