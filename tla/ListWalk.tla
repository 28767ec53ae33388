------------------------------ MODULE ListWalk ------------------------------
(***************************************************************************)
(* The loops of list.h over the lists of IntrusiveList: list_for_each and  *)
(* its relatives, list_walk, list_find, list_size and list_destroy.  One   *)
(* loop is under way at a time; the body of the safe one may remove the    *)
(* item it is at.                                                          *)
(***************************************************************************)
EXTENDS IntrusiveList, SequencesExt

VARIABLES
  loop,    \* "none", or "each", "reverse", "safe", "destroy": the loop
  stage,   \* "test", "body", "advance" of the loop, or "over"
  head,    \* the list it goes over
  curr,    \* the loop variable
  saved,   \* the second loop variable of list_for_each_safe
  met,     \* the items the body has been called with, in order
  whole,   \* what the list held when the loop began, in its direction
  kept     \* those of whole that nobody has removed

walkVars == <<loop, stage, head, curr, saved, met, whole, kept>>
fixed == <<loop, head, whole>>
allVars == <<vars, walkVars>>

\* Every loop but list_for_each_reverse goes forward.
Link == IF loop = "reverse" THEN prev ELSE next

-----------------------------------------------------------------------------
(* Plausible mistakes: each stands in for the definition its comment names. *)

\* Following for list_for_each_safe written as list_for_each.
FollowingUnsaved == next[curr]

-----------------------------------------------------------------------------
\* The loop variables go out of scope.
Forget ==
  /\ loop' = "none" /\ head' = NULL /\ curr' = NULL /\ saved' = NULL
  /\ met' = <<>> /\ whole' = <<>> /\ kept' = <<>>

WalkInit ==
  /\ Init
  /\ loop = "none" /\ stage = "over" /\ head = NULL
  /\ curr = NULL /\ saved = NULL /\ met = <<>> /\ whole = <<>> /\ kept = <<>>

\* The expressions a for loop starts with; list_for_each_safe reads one link on.
Begin(kind, h) ==
  /\ pc = "idle" /\ loop = "none"
  /\ loop' = kind /\ stage' = "test" /\ head' = h
  /\ curr' = (IF kind = "reverse" THEN prev[h] ELSE next[h])
  /\ saved' = (IF kind = "safe" THEN next[next[h]] ELSE NULL)
  /\ met' = <<>>
  /\ whole' = (IF kind = "reverse" THEN Backward(h) ELSE Forward(h))
  /\ kept' = Forward(h)
  /\ UNCHANGED vars

\* curr != head, and the body is entered with the item.
Visit ==
  /\ stage = "test" /\ loop # "destroy"
  /\ curr # head
  /\ met' = Append(met, curr)
  /\ stage' = "body"
  /\ UNCHANGED <<vars, fixed, curr, saved, kept>>

\* The body is left, after it has removed the item or without.
LeaveBody ==
  /\ stage = "body" /\ loop # "destroy" /\ pc = "idle"
  /\ stage' = "advance"
  /\ UNCHANGED <<vars, fixed, curr, saved, met, kept>>

\* What the body of the safe loop may do: list_remove(curr).
RemoveCurrent ==
  /\ stage = "body" /\ loop = "safe"
  /\ ListRemove(curr)
  /\ \E k \in DOMAIN kept : kept[k] = curr /\ kept' = RemoveAt(kept, k)
  /\ UNCHANGED <<fixed, stage, curr, saved, met>>

\* Where list_for_each_safe continues, which must not be asked of an item that
\* is gone.
Following == saved

Advance ==
  /\ stage = "advance"
  /\ curr' = (IF loop = "safe" THEN Following ELSE Link[curr])
  /\ saved' = (IF loop = "safe" THEN next[Following] ELSE saved)
  /\ stage' = "test"
  /\ UNCHANGED <<vars, fixed, met, kept>>

\* The head is met again: list_size returns the length of met, list_walk has
\* called its visitor on each item, list_find returns NULL.
Ends ==
  /\ stage = "test" /\ loop # "destroy"
  /\ curr = head
  /\ stage' = "over"
  /\ UNCHANGED <<vars, fixed, curr, saved, met, kept>>

\* list_find returns the item that matches, the last one met.
Found ==
  /\ stage = "body" /\ loop = "each"
  /\ stage' = "over"
  /\ Forget
  /\ UNCHANGED vars

\* list_destroy: while the list is not empty, list_remove_after(head) ...
DestroyRemove ==
  /\ stage = "test" /\ loop = "destroy"
  /\ ListRemoveAfter(head)
  /\ curr' = next[head]
  /\ kept' = Tail(kept)
  /\ stage' = "body"
  /\ UNCHANGED <<fixed, saved, met>>

\* ... and destroy(item, data), which may make the memory of the item unusable.
DestroyItem ==
  /\ stage = "body" /\ loop = "destroy" /\ pc = "idle"
  /\ met' = Append(met, curr)
  /\ prev' = [prev EXCEPT ![curr] = Wild]
  /\ next' = [next EXCEPT ![curr] = Wild]
  /\ stage' = "test"
  /\ UNCHANGED <<pc, call, fixed, curr, saved, kept>>

DestroyEnds ==
  /\ stage = "test" /\ loop = "destroy" /\ pc = "idle"
  /\ IsEmpty(head)
  /\ stage' = "over"
  /\ UNCHANGED <<vars, fixed, curr, saved, met, kept>>

\* The caller goes on.
Leave ==
  /\ loop # "none" /\ stage = "over"
  /\ Forget
  /\ UNCHANGED <<vars, stage>>

Step ==
  \/ \E h \in Heads, kind \in {"each", "reverse", "safe", "destroy"} :
       Begin(kind, h)
  \/ Visit \/ LeaveBody \/ RemoveCurrent \/ Advance \/ Ends \/ Found
  \/ DestroyRemove \/ DestroyItem \/ DestroyEnds \/ Leave

WalkNext ==
  \/ loop = "none" /\ Call /\ UNCHANGED walkVars
  \/ Store /\ UNCHANGED walkVars
  \/ Step

WalkSpec == WalkInit /\ [][WalkNext]_allVars

-----------------------------------------------------------------------------
(* Properties.                                                             *)

\* Each loop calls its body once with each item of the list, in the order of its
\* direction, also when the body removes the item it is at; afterwards the list
\* holds what was not removed, and list_destroy leaves it empty.
WalksWhole ==
  loop # "none" =>
    /\ IsPrefix(met, whole)
    /\ stage = "over" => /\ met = whole
                         /\ Forward(head) = kept
                         /\ loop = "destroy" => IsEmpty(head)
=============================================================================
