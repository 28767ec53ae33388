--------------------------- MODULE IntrusiveList ---------------------------
(***************************************************************************)
(* The doubly linked list of list.h, one pointer store at a time.  Heads   *)
(* and items are nodes with two pointers; the heads are standalone, the    *)
(* items are embedded in structures (samples, entries).                    *)
(*                                                                         *)
(* One thread at a time changes the lists.  The comments in list.h say     *)
(* what somebody sees who follows the list while it is being changed, and  *)
(* the properties hold at every one of the stores.                         *)
(***************************************************************************)
EXTENDS Integers, Sequences, FiniteSets, Functions

CONSTANTS
  Heads,     \* the list heads
  Items,     \* the links embedded in structures
  Wild,      \* what a pointer in memory from malloc contains
  Dead,      \* the address of the local variable of entry_generic
  NULL

Nodes == Heads \cup Items

ASSUME NodesAssumption ==
  /\ IsFiniteSet(Heads) /\ IsFiniteSet(Items) /\ Heads \cap Items = {}
  /\ Wild \notin Nodes /\ Dead \notin Nodes /\ NULL \notin Nodes \cup Seq(Items)

VARIABLES
  prev, next,        \* the two pointers of each node
  pc,                \* the store that comes next, "idle" between two calls
  item, pred, succ   \* arguments of the call

vars == <<prev, next, pc, item, pred, succ>>
call == <<item, pred, succ>>

\* list_is_empty, for a head; for an item, whether it points to itself.
IsEmpty(node) == prev[node] = node /\ next[node] = node

\* The items met from a head in one direction before the head is met again, as
\* list_for_each and list_for_each_reverse do; NULL when they would not end.
Walk(link, head) ==
  LET node[n \in Nat] == IF n = 0 THEN link[head] ELSE link[node[n - 1]]
      steps == {n \in 0..Cardinality(Items) :
                  node[n] = head /\ \A k \in 0..(n - 1) : node[k] \in Items}
  IN  IF steps = {} THEN NULL
      ELSE [i \in 1..(CHOOSE n \in steps : TRUE) |-> node[i - 1]]

Forward(head) == Walk(next, head)
Backward(head) == Walk(prev, head)

\* The items somebody can reach from a head, in either direction.
Members(head) == Range(Forward(head)) \cup Range(Backward(head))
Free == Items \ UNION {Members(h) : h \in Heads}

-----------------------------------------------------------------------------
(* Plausible mistakes: each stands in for the definition its comment names. *)

\* LinkBackward that stores the forward pointer.
LinkForwardTwice ==
  /\ pc = "link_backward"
  /\ next' = [next EXCEPT ![pred] = item]
  /\ pc' = "link_forward"
  /\ UNCHANGED <<prev, call>>

\* UnlinkForward that steps over the successor as well.
UnlinkTwo ==
  /\ pc = "unlink_forward"
  /\ next' = [next EXCEPT ![pred] = next[succ]]
  /\ pc' = "reset"
  /\ UNCHANGED <<prev, call>>

\* Reset that is left out.
NoReset == pc = "reset" /\ pc' = "idle" /\ UNCHANGED <<prev, next, call>>

-----------------------------------------------------------------------------
(* Inserting: __list_insert_between(item, pred, succ).                     *)

\* The call; its caller has an item that is in no list.
InsertBetween(i, p, s) ==
  /\ pc = "idle" /\ i \in Free
  /\ item' = i /\ pred' = p /\ succ' = s
  /\ pc' = "link_item"
  /\ UNCHANGED <<prev, next>>

ListAddFirst(h, i) == InsertBetween(i, h, next[h])
ListAddLast(h, i) == InsertBetween(i, prev[h], h)
ListInsertAfter(i, p) == p \notin Free /\ InsertBetween(i, p, next[p])
ListInsertBefore(i, s) == s \notin Free /\ InsertBetween(i, prev[s], s)

\* item->next = succ; item->prev = pred
LinkItem ==
  /\ pc = "link_item"
  /\ next' = [next EXCEPT ![item] = succ]
  /\ prev' = [prev EXCEPT ![item] = pred]
  /\ pc' = "link_backward"
  /\ UNCHANGED call

\* succ->prev = item
LinkBackward ==
  /\ pc = "link_backward"
  /\ prev' = [prev EXCEPT ![succ] = item]
  /\ pc' = "link_forward"
  /\ UNCHANGED <<next, call>>

\* pred->next = item
LinkForward ==
  /\ pc = "link_forward"
  /\ next' = [next EXCEPT ![pred] = item]
  /\ pc' = "idle"
  /\ UNCHANGED <<prev, call>>

-----------------------------------------------------------------------------
(* Removing: __list_remove_between(item->prev, item->next), __list_init.   *)

RemoveItem(i) ==
  /\ pc = "idle"
  /\ item' = i /\ pred' = prev[i] /\ succ' = next[i]
  /\ pc' = "unlink_backward"
  /\ UNCHANGED <<prev, next>>

\* The caller has an item that is in a list.
ListRemove(i) == i \notin Free /\ RemoveItem(i)

\* The callers test ! list_is_empty(node) first.
ListRemoveAfter(node) == ~ IsEmpty(node) /\ RemoveItem(next[node])
ListRemoveBefore(node) == ~ IsEmpty(node) /\ RemoveItem(prev[node])

\* succ->prev = pred
UnlinkBackward ==
  /\ pc = "unlink_backward"
  /\ prev' = [prev EXCEPT ![succ] = pred]
  /\ pc' = "unlink_forward"
  /\ UNCHANGED <<next, call>>

\* pred->next = succ
UnlinkForward ==
  /\ pc = "unlink_forward"
  /\ next' = [next EXCEPT ![pred] = succ]
  /\ pc' = "reset"
  /\ UNCHANGED <<prev, call>>

\* __list_init(item)
Reset ==
  /\ pc = "reset"
  /\ prev' = [prev EXCEPT ![item] = item]
  /\ next' = [next EXCEPT ![item] = item]
  /\ pc' = "idle"
  /\ UNCHANGED call

-----------------------------------------------------------------------------
(* The other users of links.                                               *)

\* list_init, of a link that is in no list.
ListInit(i) ==
  /\ pc = "idle" /\ i \in Free
  /\ prev' = [prev EXCEPT ![i] = i] /\ next' = [next EXCEPT ![i] = i]
  /\ UNCHANGED <<pc, call>>

\* entry_init_* and entry_*: LIST_INIT(result.link) points to the local variable
\* of entry_generic, and the structure is returned by value.
EntryGeneric(i) ==
  /\ pc = "idle" /\ i \in Free
  /\ prev' = [prev EXCEPT ![i] = Dead] /\ next' = [next EXCEPT ![i] = Dead]
  /\ UNCHANGED <<pc, call>>

\* entry_destroy removes its entry from any list.  The entries the programs
\* destroy have been in a list.
EntryDestroy(i) ==
  /\ prev[i] \in Nodes
  /\ ~ IsEmpty(i)
  /\ RemoveItem(i)

Init ==
  /\ prev = [n \in Nodes |-> IF n \in Heads THEN n ELSE Wild]
  /\ next = [n \in Nodes |-> IF n \in Heads THEN n ELSE Wild]
  /\ pc = "idle" /\ item = NULL /\ pred = NULL /\ succ = NULL

Call ==
  \/ \E h \in Heads, i \in Items : ListAddFirst(h, i) \/ ListAddLast(h, i)
  \/ \E i, n \in Items : ListInsertAfter(i, n) \/ ListInsertBefore(i, n)
  \/ \E i \in Items : ListRemove(i) \/ EntryDestroy(i)
  \/ \E h \in Heads : ListRemoveAfter(h) \/ ListRemoveBefore(h)
  \/ \E i \in Items : ListInit(i) \/ EntryGeneric(i)

Store == LinkItem \/ LinkBackward \/ LinkForward
         \/ UnlinkBackward \/ UnlinkForward \/ Reset

Next == Call \/ Store

Spec == Init /\ [][Next]_vars

-----------------------------------------------------------------------------
(* Properties.                                                             *)

\* Pointers lead to nodes, except those of a link that is in no list yet.
TypeOK ==
  /\ prev \in [Nodes -> Nodes \cup {Wild, Dead}]
  /\ next \in [Nodes -> Nodes \cup {Wild, Dead}]
  /\ pc \in {"idle", "link_item", "link_backward", "link_forward",
             "unlink_backward", "unlink_forward", "reset"}
  /\ item \in Items \cup {NULL}
  /\ pred \in Nodes \cup {NULL} /\ succ \in Nodes \cup {NULL}

\* Between two calls, and already before a removed item is reset, the two
\* directions agree, every item is in one list at most, and list_is_empty tells
\* the empty lists.  A removed item keeps no pointer into the list it was in, so
\* entry_destroy does not touch that list again.
RingsClosed ==
  /\ pc \in {"idle", "reset"} => \A h \in Heads :
       /\ Forward(h) # NULL /\ Backward(h) # NULL
       /\ \A i \in DOMAIN Forward(h) :
            Forward(h)[i] = Backward(h)[Len(Forward(h)) + 1 - i]
       /\ IsEmpty(h) <=> Forward(h) = <<>>
       /\ \A g \in Heads \ {h} : Members(g) \cap Members(h) = {}
  /\ pc = "idle" => \A i \in Free : next[i] \in Nodes => IsEmpty(i)

\* The comment on __list_insert_between: the new item can be seen backward
\* before it can be seen forward, and never the other way round.
BackwardFirst ==
  \A h \in Heads :
    /\ Forward(h) # NULL /\ Backward(h) # NULL
    /\ pc \in {"link_item", "link_backward", "link_forward"} =>
         /\ item \notin Range(Forward(h))
         /\ Range(Forward(h)) \subseteq Range(Backward(h))

\* The comment on list_is_empty: for an item it is true when the item is not
\* linked in any list.
UnlinkedIsEmpty ==
  pc = "idle" =>
    \A i \in Free : next[i] # Wild => IsEmpty(i)

-----------------------------------------------------------------------------
Contents == [h \in Heads |-> Forward(h)]

Lists == INSTANCE ListSpec WITH items <- Contents

\* Somebody who follows the lists forward sees each call take effect at once.
ImplementsLists == Lists!Spec
=============================================================================
