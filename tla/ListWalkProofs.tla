--------------------------- MODULE ListWalkProofs ---------------------------
(***************************************************************************)
(* Theorems about IntrusiveList and ListWalk for all finite sets of heads  *)
(* and items.                                                              *)
(***************************************************************************)
EXTENDS ListWalk, SampleSeqs, FiniteSetTheorems

-----------------------------------------------------------------------------
(* Rings.                                                                  *)

\* What a list may hold: an item is linked once.
Orders == {list \in Seq(Items) : IsInjective(list)}

\* The node at a place: the head is before the first item and after the last.
NodeAt(h, list, i) == IF i \in 1..Len(list) THEN list[i] ELSE h

\* From the head the pointers lead to these items in this order, and back to it;
\* the other pointers lead the other way round.
Leads(link, h, list) ==
  \A i \in 0..Len(list) : link[NodeAt(h, list, i)] = NodeAt(h, list, i + 1)
LeadsBack(link, h, list) ==
  \A i \in 0..Len(list) : link[NodeAt(h, list, i + 1)] = NodeAt(h, list, i)

\* The longer list has one item more, at a place of its own.
Spliced(short, k, x, long) ==
  /\ Len(long) = Len(short) + 1 /\ k \in 1..Len(long)
  /\ long[k] = x
  /\ \A i \in 1..(k - 1) : long[i] = short[i]
  /\ \A i \in k..Len(short) : long[i + 1] = short[i]

\* What sequences of items are, for the provers.
LEMMA OrderIs ==
  ASSUME NEW list \in Orders
  PROVE  /\ list \in Seq(Items) /\ Len(list) \in Nat
         /\ DOMAIN list = 1..Len(list)
         /\ \A i \in 1..Len(list) : list[i] \in Items
         /\ \A i, j \in 1..Len(list) : list[i] = list[j] => i = j
         /\ Range(list) = {list[i] : i \in 1..Len(list)}
         /\ Range(list) \subseteq Items
<1>1. list \in Seq(Items) /\ IsInjective(list)
  BY DEF Orders
<1>2. DOMAIN list = 1..Len(list) /\ Len(list) \in Nat
  BY <1>1
<1>3. QED
  BY <1>1, <1>2 DEF IsInjective, Range

\* The nodes of a ring are nodes, and no two places of it are the same, when the
\* head is counted at one of its two places.
LEMMA Places ==
  ASSUME NEW list \in Orders, NEW h \in Heads
  PROVE  /\ \A i \in Int : NodeAt(h, list, i) \in Nodes
         /\ \A i \in 1..Len(list) : NodeAt(h, list, i) = list[i]
         /\ NodeAt(h, list, 0) = h /\ NodeAt(h, list, Len(list) + 1) = h
         /\ \A i, j \in 0..Len(list) :
              NodeAt(h, list, i) = NodeAt(h, list, j) => i = j
         /\ \A i, j \in 1..(Len(list) + 1) :
              NodeAt(h, list, i) = NodeAt(h, list, j) => i = j
         /\ \A i \in Int : NodeAt(h, list, i) \in {h} \cup Range(list)
<1>1. /\ Len(list) \in Nat
      /\ \A i \in 1..Len(list) : list[i] \in Items /\ list[i] \in Range(list)
      /\ \A i, j \in 1..Len(list) : list[i] = list[j] => i = j
  BY OrderIs
<1>2. h \notin Items /\ h \in Nodes /\ Items \subseteq Nodes
  BY NodesAssumption DEF Nodes
<1>3. \A i \in 1..Len(list) : list[i] # h
  BY <1>1, <1>2
<1>4. QED
  BY <1>1, <1>2, <1>3 DEF NodeAt

\* The nodes of the longer list in terms of those of the shorter one.
SplicedNodes(h, short, k, x, long) ==
  /\ k \in 1..(Len(short) + 1) /\ Len(long) = Len(short) + 1
  /\ x \in Items /\ x # h
  /\ NodeAt(h, long, k) = x
  /\ \A i \in 0..(k - 1) : NodeAt(h, long, i) = NodeAt(h, short, i)
  /\ \A i \in k..(Len(short) + 1) :
       NodeAt(h, long, i + 1) = NodeAt(h, short, i)
  /\ Range(long) = Range(short) \cup {x} /\ x \notin Range(short)

\* One item more in the list is one node more in the ring, at its place.
LEMMA SplicedPlaces ==
  ASSUME NEW short \in Orders, NEW long \in Orders, NEW x, NEW k, NEW h \in Heads,
         Spliced(short, k, x, long)
  PROVE  SplicedNodes(h, short, k, x, long)
<1>1. /\ Len(short) \in Nat /\ Len(long) = Len(short) + 1
      /\ k \in 1..(Len(short) + 1) /\ long[k] = x
      /\ \A i \in 1..(k - 1) : long[i] = short[i]
      /\ \A i \in k..Len(short) : long[i + 1] = short[i]
  BY OrderIs DEF Spliced
<1>2. /\ x \in Items
      /\ Range(long) = {long[i] : i \in 1..Len(long)}
      /\ Range(short) = {short[i] : i \in 1..Len(short)}
      /\ \A i, j \in 1..Len(long) : long[i] = long[j] => i = j
  BY <1>1, OrderIs
<1>3. x # h
  BY <1>2, NodesAssumption
<1>4. \A i \in 0..(k - 1) : NodeAt(h, long, i) = NodeAt(h, short, i)
  BY <1>1 DEF NodeAt
<1>5. \A i \in k..(Len(short) + 1) :
         NodeAt(h, long, i + 1) = NodeAt(h, short, i)
  BY <1>1 DEF NodeAt
<1>6. NodeAt(h, long, k) = x
  BY <1>1 DEF NodeAt
<1>7. ASSUME NEW i \in 1..Len(short)
      PROVE  \E j \in 1..Len(long) : long[j] = short[i] /\ j # k
  <2>1. CASE i < k
    BY <1>1, <2>1
  <2>2. CASE ~ (i < k)
    <3>1. i + 1 \in 1..Len(long) /\ long[i + 1] = short[i] /\ i + 1 # k
      BY <1>1, <2>2
    <3>2. QED
      BY <3>1
  <2>3. QED
    BY <2>1, <2>2
<1>8. ASSUME NEW i \in 1..Len(long), i # k
      PROVE  \E j \in 1..Len(short) : short[j] = long[i]
  <2>1. CASE i < k
    BY <1>1, <2>1
  <2>2. CASE ~ (i < k)
    <3>1. i - 1 \in k..Len(short) /\ (i - 1) + 1 = i
      BY <1>1, <1>8, <2>2
    <3>2. long[(i - 1) + 1] = short[i - 1] /\ i - 1 \in 1..Len(short)
      BY <1>1, <3>1
    <3>3. QED
      BY <3>1, <3>2
  <2>3. QED
    BY <2>1, <2>2
<1>9. k \in 1..Len(long)
  BY <1>1
<1>10. x \notin Range(short)
  BY <1>1, <1>2, <1>7, <1>9
<1>11. Range(long) = Range(short) \cup {x}
  <2>1. ASSUME NEW y \in Range(long) PROVE y \in Range(short) \cup {x}
    <3>1. PICK i \in 1..Len(long) : y = long[i]
      BY <1>2
    <3>2. QED
      BY <1>1, <1>2, <1>8, <3>1
  <2>2. ASSUME NEW y \in Range(short) PROVE y \in Range(long)
    <3>1. PICK i \in 1..Len(short) : y = short[i]
      BY <1>2
    <3>2. QED
      BY <1>2, <1>7, <3>1
  <2>3. x \in Range(long)
    BY <1>1, <1>2, <1>9
  <2>4. QED
    BY <2>1, <2>2, <2>3
<1>12. QED
  BY <1>1, <1>2, <1>3, <1>4, <1>5, <1>6, <1>10, <1>11 DEF SplicedNodes

\* pred->next = item, when item already points to succ.
LEMMA LinkForwardRing ==
  ASSUME NEW short \in Orders, NEW long \in Orders, NEW x, NEW k, NEW h \in Heads,
         Spliced(short, k, x, long), NEW link, NEW link2,
         Leads(link, h, short), link[x] = NodeAt(h, short, k),
         link2[NodeAt(h, short, k - 1)] = x,
         \A n \in Nodes \ {NodeAt(h, short, k - 1)} : link2[n] = link[n]
  PROVE  Leads(link2, h, long)
<1> SplicedNodes(h, short, k, x, long)
  BY SplicedPlaces
<1>1. /\ Len(short) \in Nat /\ k \in 1..(Len(short) + 1)
      /\ Len(long) = Len(short) + 1
  BY OrderIs DEF SplicedNodes
<1>2. /\ NodeAt(h, long, k) = x
      /\ \A i \in 0..(k - 1) : NodeAt(h, long, i) = NodeAt(h, short, i)
      /\ \A i \in k..(Len(short) + 1) :
              NodeAt(h, long, i + 1) = NodeAt(h, short, i)
      /\ x \in Items /\ x # h /\ x \notin Range(short)
  BY DEF SplicedNodes
<1>3. /\ \A i \in Int : /\ NodeAt(h, short, i) \in Nodes
                        /\ NodeAt(h, short, i) \in {h} \cup Range(short)
      /\ \A i, j \in 0..Len(short) :
           NodeAt(h, short, i) = NodeAt(h, short, j) => i = j
  BY Places
<1>4. SUFFICES ASSUME NEW i \in 0..Len(long)
               PROVE link2[NodeAt(h, long, i)] = NodeAt(h, long, i + 1)
  BY DEF Leads
<1>5. CASE i < k - 1
  <2>1. /\ i \in 0..Len(short) /\ k - 1 \in 0..Len(short) /\ i # k - 1
        /\ i \in 0..(k - 1) /\ i + 1 \in 0..(k - 1) /\ i \in Int
    BY <1>1, <1>5
  <2>2. NodeAt(h, short, i) # NodeAt(h, short, k - 1)
    BY <1>3, <2>1
  <2>3. link2[NodeAt(h, short, i)] = NodeAt(h, short, i + 1)
    BY <1>3, <2>1, <2>2 DEF Leads
  <2>4. QED
    BY <1>2, <2>1, <2>3
<1>6. CASE i = k - 1
  <2>1. i \in 0..(k - 1) /\ i + 1 = k
    BY <1>1, <1>6
  <2>2. QED
    BY <1>2, <1>6, <2>1
<1>7. CASE i = k
  <2>1. x # NodeAt(h, short, k - 1)
    BY <1>1, <1>2, <1>3
  <2>2. link2[x] = NodeAt(h, short, k) /\ k \in k..(Len(short) + 1)
    BY <1>1, <1>2, <2>1 DEF Nodes
  <2>3. QED
    BY <1>2, <1>7, <2>2
<1>8. CASE i > k
  <2>1. /\ i - 1 \in 0..Len(short) /\ k - 1 \in 0..Len(short) /\ i - 1 # k - 1
        /\ i - 1 \in k..(Len(short) + 1) /\ i \in k..(Len(short) + 1)
        /\ (i - 1) + 1 = i /\ i - 1 \in Int
    BY <1>1, <1>8
  <2>2. NodeAt(h, short, i - 1) # NodeAt(h, short, k - 1)
    BY <1>3, <2>1
  <2>3. link2[NodeAt(h, short, i - 1)] = NodeAt(h, short, (i - 1) + 1)
    BY <1>3, <2>1, <2>2 DEF Leads
  <2>4. /\ NodeAt(h, long, (i - 1) + 1) = NodeAt(h, short, i - 1)
        /\ NodeAt(h, long, i + 1) = NodeAt(h, short, i)
    BY <1>2, <2>1
  <2>5. QED
    BY <2>1, <2>3, <2>4
<1>9. i < k - 1 \/ i = k - 1 \/ i = k \/ i > k
  BY <1>1
<1>10. QED
  BY <1>5, <1>6, <1>7, <1>8, <1>9

\* succ->prev = item, when item already points to pred.
LEMMA LinkBackwardRing ==
  ASSUME NEW short \in Orders, NEW long \in Orders, NEW x, NEW k, NEW h \in Heads,
         Spliced(short, k, x, long), NEW link, NEW link2,
         LeadsBack(link, h, short), link[x] = NodeAt(h, short, k - 1),
         link2[NodeAt(h, short, k)] = x,
         \A n \in Nodes \ {NodeAt(h, short, k)} : link2[n] = link[n]
  PROVE  LeadsBack(link2, h, long)
<1> SplicedNodes(h, short, k, x, long)
  BY SplicedPlaces
<1>1. /\ Len(short) \in Nat /\ k \in 1..(Len(short) + 1)
      /\ Len(long) = Len(short) + 1
  BY OrderIs DEF SplicedNodes
<1>2. /\ NodeAt(h, long, k) = x
      /\ \A i \in 0..(k - 1) : NodeAt(h, long, i) = NodeAt(h, short, i)
      /\ \A i \in k..(Len(short) + 1) :
              NodeAt(h, long, i + 1) = NodeAt(h, short, i)
      /\ x \in Items /\ x # h /\ x \notin Range(short)
  BY DEF SplicedNodes
<1>3. /\ \A i \in Int : /\ NodeAt(h, short, i) \in Nodes
                        /\ NodeAt(h, short, i) \in {h} \cup Range(short)
      /\ \A i, j \in 1..(Len(short) + 1) :
           NodeAt(h, short, i) = NodeAt(h, short, j) => i = j
  BY Places
<1>4. SUFFICES ASSUME NEW i \in 0..Len(long)
               PROVE link2[NodeAt(h, long, i + 1)] = NodeAt(h, long, i)
  BY DEF LeadsBack
<1>5. CASE i < k - 1
  <2>1. /\ i \in 0..Len(short) /\ i + 1 \in 1..(Len(short) + 1) /\ i + 1 # k
        /\ k \in 1..(Len(short) + 1)
        /\ i \in 0..(k - 1) /\ i + 1 \in 0..(k - 1) /\ i + 1 \in Int
    BY <1>1, <1>5
  <2>2. NodeAt(h, short, i + 1) # NodeAt(h, short, k)
    BY <1>3, <2>1
  <2>3. link2[NodeAt(h, short, i + 1)] = NodeAt(h, short, i)
    BY <1>3, <2>1, <2>2 DEF LeadsBack
  <2>4. QED
    BY <1>2, <2>1, <2>3
<1>6. CASE i = k - 1
  <2>1. i \in 0..(k - 1) /\ i + 1 = k
    BY <1>1, <1>6
  <2>2. x # NodeAt(h, short, k)
    BY <1>1, <1>2, <1>3
  <2>3. link2[x] = NodeAt(h, short, k - 1)
    BY <1>1, <1>2, <2>2 DEF Nodes
  <2>4. QED
    BY <1>2, <1>6, <2>1, <2>3
<1>7. CASE i = k
  <2>1. k \in k..(Len(short) + 1)
    BY <1>1
  <2>2. QED
    BY <1>2, <1>7, <2>1
<1>8. CASE i > k
  <2>1. /\ i - 1 \in 0..Len(short) /\ i \in 1..(Len(short) + 1) /\ i # k
        /\ k \in 1..(Len(short) + 1)
        /\ i - 1 \in k..(Len(short) + 1) /\ i \in k..(Len(short) + 1)
        /\ (i - 1) + 1 = i /\ i \in Int
    BY <1>1, <1>8
  <2>2. NodeAt(h, short, i) # NodeAt(h, short, k)
    BY <1>3, <2>1
  <2>3. link[NodeAt(h, short, (i - 1) + 1)] = NodeAt(h, short, i - 1)
    BY <2>1 DEF LeadsBack
  <2>4. link2[NodeAt(h, short, i)] = NodeAt(h, short, i - 1)
    BY <1>3, <2>1, <2>2, <2>3
  <2>5. /\ NodeAt(h, long, (i - 1) + 1) = NodeAt(h, short, i - 1)
        /\ NodeAt(h, long, i + 1) = NodeAt(h, short, i)
    BY <1>2, <2>1
  <2>6. QED
    BY <2>1, <2>4, <2>5
<1>9. i < k - 1 \/ i = k - 1 \/ i = k \/ i > k
  BY <1>1
<1>10. QED
  BY <1>5, <1>6, <1>7, <1>8, <1>9

\* pred->next = succ
LEMMA UnlinkForwardRing ==
  ASSUME NEW short \in Orders, NEW long \in Orders, NEW x, NEW k, NEW h \in Heads,
         Spliced(short, k, x, long), NEW link, NEW link2,
         Leads(link, h, long),
         link2[NodeAt(h, short, k - 1)] = NodeAt(h, short, k),
         \A n \in Nodes \ {NodeAt(h, short, k - 1)} : link2[n] = link[n]
  PROVE  Leads(link2, h, short)
<1> SplicedNodes(h, short, k, x, long)
  BY SplicedPlaces
<1>1. /\ Len(short) \in Nat /\ k \in 1..(Len(short) + 1)
      /\ Len(long) = Len(short) + 1
  BY OrderIs DEF SplicedNodes
<1>2. /\ \A i \in 0..(k - 1) : NodeAt(h, long, i) = NodeAt(h, short, i)
      /\ \A i \in k..(Len(short) + 1) :
              NodeAt(h, long, i + 1) = NodeAt(h, short, i)
  BY DEF SplicedNodes
<1>3. /\ \A i \in Int : NodeAt(h, short, i) \in Nodes
      /\ \A i, j \in 0..Len(short) :
           NodeAt(h, short, i) = NodeAt(h, short, j) => i = j
  BY Places
<1>4. SUFFICES ASSUME NEW i \in 0..Len(short)
               PROVE link2[NodeAt(h, short, i)] = NodeAt(h, short, i + 1)
  BY DEF Leads
<1>5. CASE i < k - 1
  <2>1. /\ i \in 0..Len(long) /\ k - 1 \in 0..Len(short) /\ i # k - 1
        /\ i \in 0..(k - 1) /\ i + 1 \in 0..(k - 1) /\ i \in Int
    BY <1>1, <1>5
  <2>2. NodeAt(h, short, i) # NodeAt(h, short, k - 1)
    BY <1>3, <2>1
  <2>3. link[NodeAt(h, long, i)] = NodeAt(h, long, i + 1)
    BY <2>1 DEF Leads
  <2>4. QED
    BY <1>2, <1>3, <2>1, <2>2, <2>3
<1>6. CASE i = k - 1
  <2>1. i + 1 = k
    BY <1>1, <1>6
  <2>2. QED
    BY <1>6, <2>1
<1>7. CASE i >= k
  <2>1. /\ i + 1 \in 0..Len(long) /\ k - 1 \in 0..Len(short) /\ i # k - 1
        /\ i \in k..(Len(short) + 1) /\ i + 1 \in k..(Len(short) + 1)
        /\ i \in Int
    BY <1>1, <1>7
  <2>2. NodeAt(h, short, i) # NodeAt(h, short, k - 1)
    BY <1>3, <2>1
  <2>3. link[NodeAt(h, long, i + 1)] = NodeAt(h, long, (i + 1) + 1)
    BY <2>1 DEF Leads
  <2>4. /\ NodeAt(h, long, i + 1) = NodeAt(h, short, i)
        /\ NodeAt(h, long, (i + 1) + 1) = NodeAt(h, short, i + 1)
    BY <1>2, <2>1
  <2>5. link2[NodeAt(h, short, i)] = link[NodeAt(h, short, i)]
    BY <1>3, <2>1, <2>2
  <2>6. QED
    BY <2>3, <2>4, <2>5
<1>8. i < k - 1 \/ i = k - 1 \/ i >= k
  BY <1>1
<1>9. QED
  BY <1>5, <1>6, <1>7, <1>8

\* succ->prev = pred
LEMMA UnlinkBackwardRing ==
  ASSUME NEW short \in Orders, NEW long \in Orders, NEW x, NEW k, NEW h \in Heads,
         Spliced(short, k, x, long), NEW link, NEW link2,
         LeadsBack(link, h, long),
         link2[NodeAt(h, short, k)] = NodeAt(h, short, k - 1),
         \A n \in Nodes \ {NodeAt(h, short, k)} : link2[n] = link[n]
  PROVE  LeadsBack(link2, h, short)
<1> SplicedNodes(h, short, k, x, long)
  BY SplicedPlaces
<1>1. /\ Len(short) \in Nat /\ k \in 1..(Len(short) + 1)
      /\ Len(long) = Len(short) + 1
  BY OrderIs DEF SplicedNodes
<1>2. /\ \A i \in 0..(k - 1) : NodeAt(h, long, i) = NodeAt(h, short, i)
      /\ \A i \in k..(Len(short) + 1) :
              NodeAt(h, long, i + 1) = NodeAt(h, short, i)
  BY DEF SplicedNodes
<1>3. /\ \A i \in Int : NodeAt(h, short, i) \in Nodes
      /\ \A i, j \in 1..(Len(short) + 1) :
           NodeAt(h, short, i) = NodeAt(h, short, j) => i = j
  BY Places
<1>4. SUFFICES ASSUME NEW i \in 0..Len(short)
               PROVE link2[NodeAt(h, short, i + 1)] = NodeAt(h, short, i)
  BY DEF LeadsBack
<1>5. CASE i < k - 1
  <2>1. /\ i \in 0..Len(long) /\ i + 1 \in 1..(Len(short) + 1)
        /\ k \in 1..(Len(short) + 1) /\ i + 1 # k
        /\ i \in 0..(k - 1) /\ i + 1 \in 0..(k - 1) /\ i + 1 \in Int
    BY <1>1, <1>5
  <2>2. NodeAt(h, short, i + 1) # NodeAt(h, short, k)
    BY <1>3, <2>1
  <2>3. link[NodeAt(h, long, i + 1)] = NodeAt(h, long, i)
    BY <2>1 DEF LeadsBack
  <2>4. QED
    BY <1>2, <1>3, <2>1, <2>2, <2>3
<1>6. CASE i = k - 1
  <2>1. i + 1 = k
    BY <1>1, <1>6
  <2>2. QED
    BY <1>6, <2>1
<1>7. CASE i >= k
  <2>1. /\ i + 1 \in 0..Len(long) /\ i + 1 \in 1..(Len(short) + 1)
        /\ k \in 1..(Len(short) + 1) /\ i + 1 # k
        /\ i \in k..(Len(short) + 1) /\ i + 1 \in k..(Len(short) + 1)
        /\ i + 1 \in Int
    BY <1>1, <1>7
  <2>2. NodeAt(h, short, i + 1) # NodeAt(h, short, k)
    BY <1>3, <2>1
  <2>3. link[NodeAt(h, long, (i + 1) + 1)] = NodeAt(h, long, i + 1)
    BY <2>1 DEF LeadsBack
  <2>4. /\ NodeAt(h, long, i + 1) = NodeAt(h, short, i)
        /\ NodeAt(h, long, (i + 1) + 1) = NodeAt(h, short, i + 1)
    BY <1>2, <2>1
  <2>5. link2[NodeAt(h, short, i + 1)] = link[NodeAt(h, short, i + 1)]
    BY <1>3, <2>1, <2>2
  <2>6. QED
    BY <2>3, <2>4, <2>5
<1>8. i < k - 1 \/ i = k - 1 \/ i >= k
  BY <1>1
<1>9. QED
  BY <1>5, <1>6, <1>7, <1>8

\* A store elsewhere changes nothing.
LEMMA OtherRing ==
  ASSUME NEW list \in Orders, NEW h \in Heads, NEW link, NEW link2,
         \A n \in {h} \cup Range(list) : link2[n] = link[n]
  PROVE  /\ Leads(link, h, list) => Leads(link2, h, list)
         /\ LeadsBack(link, h, list) => LeadsBack(link2, h, list)
<1>1. /\ Len(list) \in Nat
      /\ \A i \in Int : NodeAt(h, list, i) \in {h} \cup Range(list)
  BY Places, OrderIs
<1>2. \A i \in 0..Len(list) :
        /\ link2[NodeAt(h, list, i)] = link[NodeAt(h, list, i)]
        /\ link2[NodeAt(h, list, i + 1)] = link[NodeAt(h, list, i + 1)]
  BY <1>1
<1>3. QED
  BY <1>2 DEF Leads, LeadsBack

\* InsertAt, item by item: a list with an item more, which was not linked.
LEMMA Longer ==
  ASSUME NEW short \in Orders, NEW x \in Items, x \notin Range(short),
         NEW k \in 1..(Len(short) + 1)
  PROVE  /\ InsertAt(short, k, x) \in Orders
         /\ Spliced(short, k, x, InsertAt(short, k, x))
<1> DEFINE n == Len(short)
           a == SubSeq(short, 1, k - 1)
           b == SubSeq(short, k, n)
           m == a \o <<x>>
           long == m \o b
<1>1. /\ short \in Seq(Items) /\ n \in Nat
      /\ \A i \in 1..n : short[i] \in Items
      /\ \A i, j \in 1..n : short[i] = short[j] => i = j
      /\ \A i \in 1..n : short[i] # x
      /\ k \in 1..(n + 1)
  BY OrderIs
<1>2. /\ a \in Seq(Items) /\ Len(a) = k - 1
      /\ \A i \in 1..(k - 1) : a[i] = short[i]
  BY <1>1, SubSeqProperties
<1>3. /\ b \in Seq(Items) /\ Len(b) = n + 1 - k
      /\ \A i \in 1..(n + 1 - k) : b[i] = short[k + i - 1]
  BY <1>1, SubSeqProperties
<1>4. <<x>> \in Seq(Items) /\ Len(<<x>>) = 1 /\ <<x>>[1] = x
  OBVIOUS
<1> HIDE DEF a, b
<1>5. /\ m \in Seq(Items) /\ Len(m) = k
      /\ \A i \in 1..(k - 1) : m[i] = short[i]
      /\ m[k] = x
  BY <1>1, <1>2, <1>4, ConcatProperties
<1> HIDE DEF m
<1>6. /\ long \in Seq(Items) /\ Len(long) = Len(m) + Len(b)
      /\ \A i \in 1..(Len(m) + Len(b)) :
           long[i] = IF i <= Len(m) THEN m[i] ELSE b[i - Len(m)]
  BY <1>3, <1>5, ConcatProperties
<1>7. Len(long) = n + 1
  BY <1>1, <1>3, <1>5, <1>6
<1> HIDE DEF long
<1>8. long[k] = x /\ \A i \in 1..(k - 1) : long[i] = short[i]
  BY <1>1, <1>3, <1>5, <1>6
<1>9. ASSUME NEW i \in k..n PROVE long[i + 1] = short[i]
  <2>1. /\ i + 1 \in 1..(Len(m) + Len(b)) /\ ~ (i + 1 <= Len(m))
        /\ (i + 1) - Len(m) \in 1..(n + 1 - k)
        /\ k + ((i + 1) - Len(m)) - 1 = i
    BY <1>1, <1>3, <1>5
  <2>2. long[i + 1] = b[(i + 1) - Len(m)]
    BY <1>6, <2>1
  <2>3. b[(i + 1) - Len(m)] = short[k + ((i + 1) - Len(m)) - 1]
    BY <1>3, <2>1
  <2>4. QED
    BY <2>1, <2>2, <2>3
<1>10. Spliced(short, k, x, long)
  BY <1>1, <1>7, <1>8, <1>9 DEF Spliced
<1>11. ASSUME NEW i \in 1..(n + 1)
       PROVE  \/ i = k /\ long[i] = x
              \/ i < k /\ i \in 1..n /\ long[i] = short[i]
              \/ i > k /\ i - 1 \in 1..n /\ long[i] = short[i - 1]
  <2>1. CASE i = k
    BY <1>8, <2>1
  <2>2. CASE i < k
    BY <1>1, <1>8, <2>2
  <2>3. CASE i > k
    <3>1. i - 1 \in k..n /\ (i - 1) + 1 = i /\ i - 1 \in 1..n
      BY <1>1, <2>3
    <3>2. long[(i - 1) + 1] = short[i - 1]
      BY <1>9, <3>1
    <3>3. QED
      BY <2>3, <3>1, <3>2
  <2>4. QED
    BY <1>1, <2>1, <2>2, <2>3
<1>12. ASSUME NEW i \in 1..(n + 1), NEW j \in 1..(n + 1), long[i] = long[j]
       PROVE  i = j
  <2>1. CASE i = k
    BY <1>1, <1>11, <1>12, <2>1
  <2>2. CASE i < k
    BY <1>1, <1>11, <1>12, <2>2
  <2>3. CASE i > k
    BY <1>1, <1>11, <1>12, <2>3
  <2>4. QED
    BY <1>1, <2>1, <2>2, <2>3
<1>13. long \in Orders
  <2>1. long \in Seq(Items) /\ DOMAIN long = 1..(n + 1)
    BY <1>6, <1>7
  <2>2. QED
    BY <1>12, <2>1 DEF Orders, IsInjective
<1>14. InsertAt(short, k, x) = long
  BY DEF InsertAt, long, m, a, b
<1>15. QED
  BY <1>10, <1>13, <1>14

\* RemoveAt, item by item: a list with an item less.
LEMMA Shorter ==
  ASSUME NEW long \in Orders, NEW k \in 1..Len(long)
  PROVE  /\ RemoveAt(long, k) \in Orders
         /\ Spliced(RemoveAt(long, k), k, long[k], long)
<1> DEFINE n == Len(long)
           a == SubSeq(long, 1, k - 1)
           b == SubSeq(long, k + 1, n)
           short == a \o b
<1>1. /\ long \in Seq(Items) /\ n \in Nat
      /\ \A i \in 1..n : long[i] \in Items
      /\ \A i, j \in 1..n : long[i] = long[j] => i = j
      /\ k \in 1..n
  BY OrderIs
<1>2. /\ a \in Seq(Items) /\ Len(a) = k - 1
      /\ \A i \in 1..(k - 1) : a[i] = long[i]
  BY <1>1, SubSeqProperties
<1>3. /\ b \in Seq(Items) /\ Len(b) = n - k
      /\ \A i \in 1..(n - k) : b[i] = long[k + i]
  BY <1>1, SubSeqProperties
<1> HIDE DEF a, b
<1>4. /\ short \in Seq(Items) /\ Len(short) = Len(a) + Len(b)
      /\ \A i \in 1..(Len(a) + Len(b)) :
           short[i] = IF i <= Len(a) THEN a[i] ELSE b[i - Len(a)]
  BY <1>2, <1>3, ConcatProperties
<1>5. Len(short) = n - 1 /\ Len(a) + Len(b) = n - 1
  BY <1>1, <1>2, <1>3, <1>4
<1> HIDE DEF short
<1>6. \A i \in 1..(k - 1) : short[i] = long[i]
  BY <1>1, <1>2, <1>4, <1>5
<1>7. ASSUME NEW i \in k..(n - 1) PROVE short[i] = long[i + 1]
  <2>1. /\ i \in 1..(Len(a) + Len(b)) /\ ~ (i <= Len(a))
        /\ i - Len(a) \in 1..(n - k) /\ k + (i - Len(a)) = i + 1
    BY <1>1, <1>2, <1>5
  <2>2. QED
    BY <1>3, <1>4, <2>1
<1>8. Spliced(short, k, long[k], long)
  BY <1>1, <1>5, <1>6, <1>7 DEF Spliced
<1>9. ASSUME NEW i \in 1..(n - 1)
      PROVE  \/ i < k /\ i \in 1..n /\ short[i] = long[i]
             \/ i >= k /\ i + 1 \in 1..n /\ short[i] = long[i + 1]
  BY <1>1, <1>6, <1>7
<1>10. ASSUME NEW i \in 1..(n - 1), NEW j \in 1..(n - 1), short[i] = short[j]
       PROVE  i = j
  <2>1. CASE i < k
    BY <1>1, <1>9, <1>10, <2>1
  <2>2. CASE i >= k
    BY <1>1, <1>9, <1>10, <2>2
  <2>3. QED
    BY <1>1, <2>1, <2>2
<1>11. short \in Orders
  BY <1>4, <1>5, <1>10 DEF Orders, IsInjective
<1>12. RemoveAt(long, k) = short
  BY DEF RemoveAt, short, a, b
<1>13. QED
  BY <1>8, <1>11, <1>12

\* InsertAt and RemoveAt are the only ways to get from one to the other.
LEMMA SplicedIs ==
  ASSUME NEW short \in Orders, NEW long \in Orders, NEW x, NEW k,
         Spliced(short, k, x, long)
  PROVE  long = InsertAt(short, k, x) /\ short = RemoveAt(long, k)
<1> DEFINE n == Len(short)
<1>1. /\ short \in Seq(Items) /\ long \in Seq(Items) /\ n \in Nat
      /\ Len(long) = n + 1 /\ k \in 1..(n + 1) /\ long[k] = x
      /\ \A i \in 1..(k - 1) : long[i] = short[i]
      /\ \A i \in k..n : long[i + 1] = short[i]
  BY OrderIs DEF Spliced
<1>2. short = RemoveAt(long, k)
  <2> DEFINE s == RemoveAt(long, k)
  <2>1. s \in Orders /\ Spliced(s, k, long[k], long)
    BY <1>1, Shorter
  <2> HIDE DEF s
  <2>2. /\ s \in Seq(Items) /\ Len(s) = n
        /\ \A i \in 1..(k - 1) : long[i] = s[i]
        /\ \A i \in k..n : long[i + 1] = s[i]
    BY <1>1, <2>1, OrderIs DEF Spliced
  <2>3. ASSUME NEW i \in 1..n PROVE s[i] = short[i]
    <3>1. i \in 1..(k - 1) \/ i \in k..n
      BY <1>1
    <3>2. QED
      BY <1>1, <2>2, <3>1
  <2>4. s = short
    BY <1>1, <2>2, <2>3, SeqEqual
  <2>5. QED
    BY <2>4 DEF s
<1>3. long = InsertAt(short, k, x)
  <2> DEFINE l == InsertAt(short, k, x)
  <2>1. x \in Items /\ x \notin Range(short)
    <3>1. x \in Items
      BY <1>1, OrderIs
    <3>2. ASSUME NEW i \in 1..n PROVE short[i] # x
      <4>1. \A p, q \in 1..(n + 1) : long[p] = long[q] => p = q
        BY <1>1, OrderIs
      <4>2. CASE i < k
        BY <1>1, <4>1, <4>2
      <4>3. CASE i >= k
        <5>1. i + 1 \in 1..(n + 1) /\ i + 1 # k /\ i \in k..n
          BY <1>1, <4>3
        <5>2. QED
          BY <1>1, <4>1, <5>1
      <4>4. QED
        BY <1>1, <4>2, <4>3
    <3>3. QED
      BY <3>1, <3>2, OrderIs
  <2>2. l \in Orders /\ Spliced(short, k, x, l)
    BY <1>1, <2>1, Longer
  <2> HIDE DEF l
  <2>3. /\ l \in Seq(Items) /\ Len(l) = n + 1 /\ l[k] = x
        /\ \A i \in 1..(k - 1) : l[i] = short[i]
        /\ \A i \in k..n : l[i + 1] = short[i]
    BY <1>1, <2>2, OrderIs DEF Spliced
  <2>4. ASSUME NEW i \in 1..(n + 1) PROVE l[i] = long[i]
    <3>1. CASE i <= k
      BY <1>1, <2>3, <3>1
    <3>2. CASE i > k
      <4>1. i - 1 \in k..n /\ (i - 1) + 1 = i
        BY <1>1, <3>2
      <4>2. l[(i - 1) + 1] = short[i - 1] /\ long[(i - 1) + 1] = short[i - 1]
        BY <1>1, <2>3, <4>1
      <4>3. QED
        BY <4>1, <4>2
    <3>3. QED
      BY <1>1, <3>1, <3>2
  <2>5. l = long
    BY <1>1, <2>3, <2>4, SeqEqual
  <2>6. QED
    BY <2>5 DEF l
<1>4. QED
  BY <1>2, <1>3

-----------------------------------------------------------------------------
(* What somebody sees who follows the pointers.                            *)

\* The reverse list, seen in the other direction.
LEMMA ReverseOrder ==
  ASSUME NEW list \in Orders
  PROVE  /\ Reverse(list) \in Orders /\ Len(Reverse(list)) = Len(list)
         /\ \A i \in 1..Len(list) : Reverse(list)[i] = list[Len(list) + 1 - i]
         /\ Range(Reverse(list)) = Range(list)
<1> DEFINE n == Len(list)
           r == Reverse(list)
<1>1. /\ list \in Seq(Items) /\ n \in Nat
      /\ \A i \in 1..n : list[i] \in Items
      /\ \A i, j \in 1..n : list[i] = list[j] => i = j
      /\ Range(list) = {list[i] : i \in 1..n}
  BY OrderIs
<1>2. \A i \in 1..n : (n - i) + 1 \in 1..n /\ (n - i) + 1 = n + 1 - i
  BY <1>1
<1>3. r = [i \in 1..n |-> list[(n - i) + 1]]
  BY DEF Reverse
<1> HIDE DEF n, r
<1>4. r \in [1..n -> Items] /\ \A i \in 1..n : r[i] = list[n + 1 - i]
  BY <1>1, <1>2, <1>3
<1>5. r \in Seq(Items) /\ Len(r) = n /\ DOMAIN r = 1..n
  BY <1>1, <1>4
<1>6. ASSUME NEW i \in 1..n, NEW j \in 1..n, r[i] = r[j] PROVE i = j
  <2>1. n + 1 - i \in 1..n /\ n + 1 - j \in 1..n
    BY <1>1
  <2>2. n + 1 - i = n + 1 - j
    BY <1>1, <1>4, <1>6, <2>1
  <2>3. QED
    BY <1>1, <2>2
<1>7. r \in Orders
  BY <1>5, <1>6 DEF Orders, IsInjective
<1>8. ASSUME NEW i \in 1..n
      PROVE  n + 1 - i \in 1..n /\ r[n + 1 - i] = list[i]
  <2>1. n + 1 - i \in 1..n /\ n + 1 - (n + 1 - i) = i
    BY <1>1
  <2>2. QED
    BY <1>4, <2>1
<1>9. ASSUME NEW i \in 1..n
      PROVE  n + 1 - i \in 1..n /\ r[i] = list[n + 1 - i]
  BY <1>1, <1>4
<1>10. Range(r) = {r[i] : i \in 1..n}
  BY <1>5 DEF Range
<1>11. Range(r) = Range(list)
  <2>1. ASSUME NEW y \in Range(r) PROVE y \in Range(list)
    BY <1>1, <1>9, <1>10
  <2>2. ASSUME NEW y \in Range(list) PROVE y \in Range(r)
    BY <1>1, <1>8, <1>10
  <2>3. QED
    BY <2>1, <2>2
<1>12. QED
  BY <1>4, <1>5, <1>7, <1>11 DEF n, r

\* The prev pointers lead through the reverse list.
LEMMA BackwardRing ==
  ASSUME NEW list \in Orders, NEW h \in Heads, NEW link,
         LeadsBack(link, h, list)
  PROVE  Leads(link, h, Reverse(list))
<1> DEFINE n == Len(list)
           r == Reverse(list)
<1>1. n \in Nat /\ Len(r) = n /\ \A i \in 1..n : r[i] = list[n + 1 - i]
  BY ReverseOrder, OrderIs
<1> HIDE DEF r
<1>2. ASSUME NEW i \in 0..(n + 1)
      PROVE  NodeAt(h, r, i) = NodeAt(h, list, n + 1 - i)
  <2>1. i \in 1..n <=> n + 1 - i \in 1..n
    BY <1>1
  <2>2. QED
    BY <1>1, <2>1 DEF NodeAt
<1>3. ASSUME NEW i \in 0..n PROVE link[NodeAt(h, r, i)] = NodeAt(h, r, i + 1)
  <2>1. /\ n - i \in 0..n /\ (n - i) + 1 = n + 1 - i /\ n + 1 - (i + 1) = n - i
        /\ i \in 0..(n + 1) /\ i + 1 \in 0..(n + 1)
    BY <1>1
  <2>2. link[NodeAt(h, list, (n - i) + 1)] = NodeAt(h, list, n - i)
    BY <2>1 DEF LeadsBack
  <2>3. /\ NodeAt(h, r, i) = NodeAt(h, list, n + 1 - i)
        /\ NodeAt(h, r, i + 1) = NodeAt(h, list, n + 1 - (i + 1))
    BY <1>2, <2>1
  <2>4. QED
    BY <2>1, <2>2, <2>3
<1>4. QED
  BY <1>1, <1>3 DEF Leads, r

\* A list is no longer than there are items.
LEMMA OrderBound ==
  ASSUME NEW list \in Orders
  PROVE  Cardinality(Items) \in Nat /\ Len(list) <= Cardinality(Items)
<1>1. /\ Len(list) \in Nat
      /\ \A i \in 1..Len(list) : list[i] \in Items
      /\ \A i, j \in 1..Len(list) : list[i] = list[j] => i = j
      /\ list \in [1..Len(list) -> Items]
  BY OrderIs DEF Orders
<1>2. IsFiniteSet(Items)
  BY NodesAssumption
<1>3. /\ IsFiniteSet(1..Len(list)) /\ Cardinality(1..Len(list)) = Len(list)
  BY <1>1, FS_Interval
<1>4. Cardinality(1..Len(list)) <= Cardinality(Items)
  BY <1>1, <1>2, FS_Injection DEF Injection, IsInjective
<1>5. QED
  BY <1>2, <1>3, <1>4, FS_CardinalityType

\* The remainder goes up by one, or is 0 again.
LEMMA NextRemainder ==
  ASSUME NEW m \in Nat, m > 0, NEW n \in Nat
  PROVE  /\ n % m \in 0..(m - 1)
         /\ (n + 1) % m = IF n % m = m - 1 THEN 0 ELSE (n % m) + 1
<1> DEFINE q == n \div m
           r == n % m
           q2 == (n + 1) \div m
           r2 == (n + 1) % m
           d == q2 - q
<1>1. /\ q \in Nat /\ r \in 0..(m - 1) /\ n = m * q + r
      /\ q2 \in Nat /\ r2 \in 0..(m - 1) /\ n + 1 = m * q2 + r2
  BY SMT
<1> HIDE DEF q, r, q2, r2
<1>2. /\ d \in Int /\ m * d \in Int /\ m * d = m * q2 - m * q
      /\ m * q \in Int /\ m * q2 \in Int
  BY <1>1
<1>3. m * d = r + 1 - r2
  BY <1>1, <1>2
<1> HIDE DEF d
<1>4. d <= 1
  <2>1. SUFFICES ASSUME d >= 2 PROVE FALSE
    BY <1>2
  <2>2. m * (d - 2) >= 0 /\ m * (d - 2) = m * d - 2 * m
    BY <1>2, <2>1
  <2>3. QED
    BY <1>1, <1>2, <1>3, <2>2
<1>5. d >= 0
  <2>1. SUFFICES ASSUME d <= -1 PROVE FALSE
    BY <1>2
  <2>2. m * (-1 - d) >= 0 /\ m * (-1 - d) = -m - m * d
    BY <1>2, <2>1
  <2>3. QED
    BY <1>1, <1>2, <1>3, <2>2
<1>6. CASE d = 0
  <2>1. m * d = 0
    BY <1>6
  <2>2. r2 = r + 1
    BY <1>1, <1>3, <2>1
  <2>3. QED
    BY <1>1, <2>2 DEF r, r2
<1>7. CASE d = 1
  <2>1. m * d = m
    BY <1>7
  <2>2. r = m - 1 /\ r2 = 0
    BY <1>1, <1>3, <2>1
  <2>3. QED
    BY <1>1, <2>2 DEF r, r2
<1>8. QED
  BY <1>2, <1>4, <1>5, <1>6, <1>7

\* A walk that begins at the head of a ring meets the items of the ring.
LEMMA WalkIs ==
  ASSUME NEW list \in Orders, NEW h \in Heads, NEW link,
         Leads(link, h, list)
  PROVE  Walk(link, h) = list
<1> DEFINE c == Len(list)
           m == c + 1
           node[n \in Nat] == IF n = 0 THEN link[h] ELSE link[node[n - 1]]
           f == [n \in Nat |-> NodeAt(h, list, (n + 1) % m)]
           steps == {n \in 0..Cardinality(Items) :
                       node[n] = h /\ \A k \in 0..(n - 1) : node[k] \in Items}
<1>1. /\ c \in Nat /\ m \in Nat /\ m > 0
      /\ \A i \in 1..c : list[i] \in Items /\ NodeAt(h, list, i) = list[i]
      /\ NodeAt(h, list, 0) = h /\ NodeAt(h, list, c + 1) = h
      /\ h \notin Items
  BY OrderIs, Places, NodesAssumption
<1>2. \A i \in 0..c : link[NodeAt(h, list, i)] = NodeAt(h, list, i + 1)
  BY DEF Leads
<1> HIDE DEF c
<1>3. ASSUME NEW i \in 0..c
      PROVE  link[NodeAt(h, list, i)] =
               NodeAt(h, list, IF i = c THEN 0 ELSE i + 1)
  BY <1>1, <1>2
<1>4. ASSUME NEW n \in Nat
      PROVE  f[n] = IF n = 0 THEN link[h] ELSE link[f[n - 1]]
  <2>1. /\ n % m \in 0..c
        /\ (n + 1) % m = IF n % m = c THEN 0 ELSE (n % m) + 1
    <3> HIDE DEF m
    <3>1. n % m \in 0..(m - 1)
      BY <1>1, NextRemainder
    <3>2. (n + 1) % m = IF n % m = m - 1 THEN 0 ELSE (n % m) + 1
      BY <1>1, NextRemainder
    <3>3. m - 1 = c
      BY <1>1 DEF m
    <3>4. QED
      BY <3>1, <3>2, <3>3
  <2>2. link[NodeAt(h, list, n % m)] = NodeAt(h, list, (n + 1) % m)
    BY <1>3, <2>1
  <2>3. f[n] = NodeAt(h, list, (n + 1) % m)
    OBVIOUS
  <2>4. CASE n = 0
    <3>1. n % m = 0
      BY <1>1, <2>4
    <3>2. QED
      BY <1>1, <2>2, <2>3, <2>4, <3>1
  <2>5. CASE n # 0
    <3>1. n - 1 \in Nat /\ (n - 1) + 1 = n
      BY <2>5
    <3>2. f[n - 1] = NodeAt(h, list, n % m)
      BY <3>1
    <3>3. QED
      BY <2>2, <2>3, <2>5, <3>2
  <2>6. QED
    BY <2>4, <2>5
<1>5. node = [n \in Nat |-> IF n = 0 THEN link[h] ELSE link[node[n - 1]]]
  <2>1. f = [n \in Nat |-> IF n = 0 THEN link[h] ELSE link[f[n - 1]]]
    BY <1>4
  <2> HIDE DEF f
  <2>2. QED
    BY <2>1
<1> HIDE DEF node
<1>6. node[0] = link[h] /\ \A n \in Nat : node[n + 1] = link[node[n]]
  <2>1. node[0] = link[h]
    BY <1>5
  <2>2. ASSUME NEW n \in Nat PROVE node[n + 1] = link[node[n]]
    <3>1. n + 1 \in Nat /\ n + 1 # 0 /\ (n + 1) - 1 = n
      OBVIOUS
    <3>2. node[n + 1] = link[node[(n + 1) - 1]]
      BY <1>5, <3>1
    <3>3. QED
      BY <3>1, <3>2
  <2>3. QED
    BY <2>1, <2>2
<1>7. \A n \in 0..c : node[n] = NodeAt(h, list, n + 1)
  <2> DEFINE I == {n \in Nat : n <= c => node[n] = NodeAt(h, list, n + 1)}
  <2>1. I \subseteq Nat
    OBVIOUS
  <2>2. 0 \in I
    <3>1. node[0] = NodeAt(h, list, 0 + 1)
      BY <1>1, <1>2, <1>6
    <3>2. QED
      BY <3>1
  <2>3. ASSUME NEW n \in I PROVE n + 1 \in I
    <3>1. SUFFICES ASSUME n + 1 <= c
                   PROVE  node[n + 1] = NodeAt(h, list, (n + 1) + 1)
      OBVIOUS
    <3>2. n \in Nat /\ n <= c /\ n + 1 \in 0..c
      BY <1>1, <3>1
    <3>3. node[n] = NodeAt(h, list, n + 1)
      BY <3>2
    <3>4. QED
      BY <1>2, <1>6, <3>2, <3>3
  <2> HIDE DEF I
  <2>4. I = Nat
    BY <2>1, <2>2, <2>3, Induction
  <2>5. QED
    BY <1>1, <2>4 DEF I
<1>8. node[c] = h /\ \A n \in 0..(c - 1) : node[n] \in Items
  <2>1. node[c] = h
    BY <1>1, <1>7
  <2>2. ASSUME NEW n \in 0..(c - 1) PROVE node[n] \in Items
    <3>1. n \in 0..c /\ n + 1 \in 1..c
      BY <1>1
    <3>2. QED
      BY <1>1, <1>7, <3>1
  <2>3. QED
    BY <2>1, <2>2
<1>9. c \in 0..Cardinality(Items)
  BY <1>1, OrderBound DEF c
<1>10. c \in steps
  BY <1>8, <1>9
<1>11. ASSUME NEW n \in steps PROVE n = c
  <2>1. n \in Nat /\ node[n] = h /\ \A k \in 0..(n - 1) : node[k] \in Items
    <3>1. n \in 0..Cardinality(Items)
      OBVIOUS
    <3>2. QED
      BY <1>9, <1>11, <3>1
  <2>2. ~ (n < c)
    BY <1>1, <1>8, <2>1
  <2>3. ~ (n > c)
    BY <1>1, <1>8, <2>1
  <2>4. QED
    BY <1>1, <2>1, <2>2, <2>3
<1> HIDE DEF steps
<1>12. steps # {} /\ (CHOOSE n \in steps : TRUE) = c
  BY <1>10, <1>11
<1>13. [i \in 1..c |-> node[i - 1]] = list
  <2>1. list = [i \in 1..c |-> list[i]]
    BY OrderIs DEF c, Orders
  <2>2. ASSUME NEW i \in 1..c PROVE node[i - 1] = list[i]
    <3>1. i - 1 \in 0..c /\ (i - 1) + 1 = i
      BY <1>1
    <3>2. QED
      BY <1>1, <1>7, <3>1
  <2>3. QED
    BY <2>1, <2>2
<1>14. Walk(link, h) = [i \in 1..(CHOOSE n \in steps : TRUE) |-> node[i - 1]]
  BY <1>12 DEF Walk, steps, node
<1>15. QED
  BY <1>12, <1>13, <1>14

-----------------------------------------------------------------------------
(* The inductive invariant of the lists.                                   *)

\* The next pointers form rings through q, the prev pointers through b.
Rings(q, b) ==
  \A h \in Heads : Leads(next, h, q[h]) /\ LeadsBack(prev, h, b[h])

\* An item is in one list at most.
Apart(q) == \A g, h \in Heads : g # h => Range(q[g]) \cap Range(q[h]) = {}

\* The stores before which the item of the call cannot be seen in a direction.
ShortForward == {"link_item", "link_backward", "link_forward", "reset"}
ShortBackward == {"link_item", "link_backward", "unlink_forward", "reset"}

\* The call that is under way: the list of h has item at place k, or it has not,
\* and which of the two somebody sees depends on the direction and the store.
Change(q, b, h, k, short, long) ==
  /\ Spliced(short, k, item, long)
  /\ pred = NodeAt(h, short, k - 1) /\ succ = NodeAt(h, short, k)
  /\ q[h] = IF pc \in ShortForward THEN short ELSE long
  /\ b[h] = IF pc \in ShortBackward THEN short ELSE long
  /\ \A g \in Heads \ {h} : q[g] = b[g] /\ Range(q[g]) \cap Range(long) = {}
  /\ pc \in {"link_backward", "link_forward"} => next[item] = succ
  /\ pc = "link_backward" => prev[item] = pred

\* The items nobody can reach.
Loose(q, b) ==
  {i \in Items : \A h \in Heads : i \notin Range(q[h]) /\ i \notin Range(b[h])}

\* Their pointers lead to no other node, once they have been reset.
LooseEmpty(q, b) ==
  \A i \in Loose(q, b) :
    (pc = "idle" \/ i # item) =>
      (prev[i] \in Nodes \/ next[i] \in Nodes => IsEmpty(i))

Shape(q, b) ==
  /\ Rings(q, b) /\ Apart(q) /\ LooseEmpty(q, b)
  /\ pc = "idle" => q = b
  /\ pc # "idle" =>
       \E h \in Heads, short, long \in Orders, k \in 1..Cardinality(Items) :
         Change(q, b, h, k, short, long)

ListInv ==
  /\ TypeOK
  /\ \E q, b \in [Heads -> Orders] : Shape(q, b)

\* What somebody sees who follows rings.
LEMMA Seen ==
  ASSUME NEW q \in [Heads -> Orders], NEW b \in [Heads -> Orders], NEW nx, NEW pv,
         \A h \in Heads : Leads(nx, h, q[h]) /\ LeadsBack(pv, h, b[h])
  PROVE  /\ \A h \in Heads : /\ Walk(nx, h) = q[h]
                             /\ Walk(pv, h) = Reverse(b[h])
                             /\ Range(Walk(nx, h)) = Range(q[h])
                             /\ Range(Walk(pv, h)) = Range(b[h])
         /\ [h \in Heads |-> Walk(nx, h)] = q
<1>1. ASSUME NEW h \in Heads
      PROVE  /\ Walk(nx, h) = q[h] /\ Walk(pv, h) = Reverse(b[h])
             /\ Range(Reverse(b[h])) = Range(b[h])
  <2>1. /\ q[h] \in Orders /\ b[h] \in Orders
        /\ Leads(nx, h, q[h]) /\ LeadsBack(pv, h, b[h])
    OBVIOUS
  <2>2. Leads(pv, h, Reverse(b[h])) /\ Reverse(b[h]) \in Orders
    BY <2>1, BackwardRing, ReverseOrder
  <2>3. Walk(nx, h) = q[h] /\ Walk(pv, h) = Reverse(b[h])
    BY <2>1, <2>2, WalkIs
  <2>4. Range(Reverse(b[h])) = Range(b[h])
    BY <2>1, ReverseOrder
  <2>5. QED
    BY <2>3, <2>4
<1>2. [h \in Heads |-> Walk(nx, h)] = q
  BY <1>1
<1>3. QED
  BY <1>1, <1>2

\* The operators of the model, in a state of this shape.
LEMMA SeenNow ==
  ASSUME NEW q \in [Heads -> Orders], NEW b \in [Heads -> Orders], Shape(q, b)
  PROVE  /\ \A h \in Heads : /\ Forward(h) = q[h]
                             /\ Backward(h) = Reverse(b[h])
                             /\ Members(h) = Range(q[h]) \cup Range(b[h])
         /\ Contents = q
         /\ Free = Loose(q, b)
<1>1. /\ \A h \in Heads : /\ Forward(h) = q[h]
                          /\ Backward(h) = Reverse(b[h])
                          /\ Range(Forward(h)) = Range(q[h])
                          /\ Range(Backward(h)) = Range(b[h])
      /\ [h \in Heads |-> Forward(h)] = q
  BY Seen DEF Shape, Rings, Forward, Backward
<1>2. \A h \in Heads : Members(h) = Range(q[h]) \cup Range(b[h])
  BY <1>1 DEF Members
<1>3. Free = Loose(q, b)
  BY <1>2 DEF Free, Loose
<1>4. QED
  BY <1>1, <1>2, <1>3 DEF Contents

\* The nodes a call works on.
LEMMA ChangeNodes ==
  ASSUME NEW q, NEW b, NEW h \in Heads, NEW short \in Orders, NEW long \in Orders,
         NEW k \in Int, Change(q, b, h, k, short, long)
  PROVE  /\ SplicedNodes(h, short, k, item, long)
         /\ item \in Items /\ item \notin Range(short)
         /\ Range(long) = Range(short) \cup {item}
         /\ pred \in {h} \cup Range(short) /\ succ \in {h} \cup Range(short)
         /\ pred \in Nodes /\ succ \in Nodes
         /\ pred # item /\ succ # item
<1>1. /\ Spliced(short, k, item, long)
      /\ pred = NodeAt(h, short, k - 1) /\ succ = NodeAt(h, short, k)
  BY DEF Change
<1>2. SplicedNodes(h, short, k, item, long)
  BY <1>1, SplicedPlaces
<1>3. /\ item \in Items /\ item \notin Range(short) /\ item # h
      /\ Range(long) = Range(short) \cup {item}
  BY <1>2 DEF SplicedNodes
<1>4. k - 1 \in Int /\ k \in Int
  OBVIOUS
<1>5. /\ pred \in {h} \cup Range(short) /\ succ \in {h} \cup Range(short)
      /\ pred \in Nodes /\ succ \in Nodes
  BY <1>1, <1>4, Places
<1>6. QED
  BY <1>2, <1>3, <1>5

\* A store at a node of one list leaves the others as they are.
LEMMA OthersKept ==
  ASSUME NEW h \in Heads, NEW long \in Orders, NEW link, NEW link2,
         NEW n \in {h} \cup Range(long),
         \A m \in Nodes \ {n} : link2[m] = link[m],
         NEW g \in Heads \ {h}, NEW list \in Orders,
         Range(list) \cap Range(long) = {}
  PROVE  /\ Leads(link, g, list) => Leads(link2, g, list)
         /\ LeadsBack(link, g, list) => LeadsBack(link2, g, list)
<1>1. Range(list) \subseteq Items /\ Range(long) \subseteq Items
  BY OrderIs
<1>2. h \notin Items /\ g \notin Items /\ g \in Nodes /\ Items \subseteq Nodes
  BY NodesAssumption DEF Nodes
<1>3. \A m \in {g} \cup Range(list) : m \in Nodes /\ m # n
  BY <1>1, <1>2
<1>4. \A m \in {g} \cup Range(list) : link2[m] = link[m]
  BY <1>3
<1>5. QED
  BY <1>4, OtherRing

-----------------------------------------------------------------------------
(* Every store and every call keeps the invariant.                         *)

LEMMA InitList == Init => ListInv
<1> SUFFICES ASSUME Init PROVE ListInv
  OBVIOUS
<1> DEFINE q == [h \in Heads |-> <<>>]
<1>1. <<>> \in Orders /\ Len(<<>>) = 0 /\ Range(<<>>) = {}
  BY DEF Orders, IsInjective, Range
<1>2. q \in [Heads -> Orders] /\ \A h \in Heads : q[h] = <<>>
  BY <1>1
<1>3. \A h \in Heads : next[h] = h /\ prev[h] = h
  BY DEF Init, Nodes
<1>4. \A h \in Heads : Leads(next, h, <<>>) /\ LeadsBack(prev, h, <<>>)
  BY <1>1, <1>3 DEF Leads, LeadsBack, NodeAt
<1>5. Rings(q, q) /\ Apart(q)
  BY <1>1, <1>2, <1>4 DEF Rings, Apart
<1>6. LooseEmpty(q, q)
  <2>1. \A i \in Items : prev[i] = Wild /\ next[i] = Wild
    BY NodesAssumption DEF Init, Nodes
  <2>2. QED
    BY <2>1, NodesAssumption DEF LooseEmpty, Loose
<1>7. TypeOK
  BY NodesAssumption DEF Init, TypeOK, Nodes
<1>8. pc = "idle"
  BY DEF Init
<1> HIDE DEF q
<1>9. QED
  BY <1>2, <1>5, <1>6, <1>7, <1>8 DEF ListInv, Shape

\* item->next = succ; item->prev = pred: nobody sees it.
LEMMA LinkItemList ==
  ASSUME ListInv, LinkItem
  PROVE  ListInv' /\ Contents' = Contents
<1>1. PICK q, b \in [Heads -> Orders] : Shape(q, b)
  BY DEF ListInv
<1>2. /\ pc = "link_item" /\ pc' = "link_backward"
      /\ next' = [next EXCEPT ![item] = succ]
      /\ prev' = [prev EXCEPT ![item] = pred]
      /\ item' = item /\ pred' = pred /\ succ' = succ
  BY DEF LinkItem, call
<1>3. PICK h \in Heads, short, long \in Orders, k \in 1..Cardinality(Items) :
         Change(q, b, h, k, short, long)
  BY <1>1, <1>2 DEF Shape
<1>4. /\ item \in Items /\ item \notin Range(short)
      /\ Range(long) = Range(short) \cup {item}
      /\ pred \in Nodes /\ succ \in Nodes
      /\ pred # item /\ succ # item
  BY <1>3, ChangeNodes, OrderIs
<1>5. /\ q[h] = short /\ b[h] = short
      /\ \A g \in Heads \ {h} : q[g] = b[g] /\ Range(q[g]) \cap Range(long) = {}
  BY <1>2, <1>3 DEF Change, ShortForward, ShortBackward
<1>6. TypeOK'
  BY <1>2, <1>4 DEF ListInv, TypeOK, Nodes
<1>7. /\ next'[item] = succ /\ prev'[item] = pred
      /\ \A n \in Nodes \ {item} : next'[n] = next[n] /\ prev'[n] = prev[n]
  BY <1>2, <1>4 DEF ListInv, TypeOK, Nodes
<1>8. \A g \in Heads : item \notin {g} \cup Range(q[g]) /\ q[g] = b[g]
  BY <1>4, <1>5, NodesAssumption
<1>9. ASSUME NEW g \in Heads
      PROVE  Leads(next', g, q[g]) /\ LeadsBack(prev', g, b[g])
  <2>1. q[g] \in Orders /\ b[g] = q[g]
    BY <1>8
  <2>2. Range(q[g]) \subseteq Items /\ g \in Nodes /\ Items \subseteq Nodes
    BY <2>1, OrderIs DEF Nodes
  <2>3. \A n \in {g} \cup Range(q[g]) : next'[n] = next[n] /\ prev'[n] = prev[n]
    BY <1>7, <1>8, <2>2
  <2>4. Leads(next, g, q[g]) /\ LeadsBack(prev, g, q[g])
    BY <1>1, <2>1 DEF Shape, Rings
  <2>5. QED
    BY <2>1, <2>3, <2>4, OtherRing
<1>10. Rings(q, b)' /\ Apart(q)'
  BY <1>1, <1>9 DEF Shape, Rings, Apart
<1>11. LooseEmpty(q, b)'
  <2>1. ASSUME NEW i \in Loose(q, b), i # item,
               prev'[i] \in Nodes \/ next'[i] \in Nodes
        PROVE  prev'[i] = i /\ next'[i] = i
    <3>1. i \in Nodes /\ prev'[i] = prev[i] /\ next'[i] = next[i]
      BY <1>7, <2>1 DEF Loose, Nodes
    <3>2. IsEmpty(i)
      BY <1>1, <2>1, <3>1 DEF Shape, LooseEmpty
    <3>3. QED
      BY <3>1, <3>2 DEF IsEmpty
  <2>2. QED
    BY <1>2, <2>1 DEF LooseEmpty, Loose, IsEmpty
<1>12. Change(q, b, h, k, short, long)'
  BY <1>2, <1>3, <1>5, <1>7 DEF Change, ShortForward, ShortBackward
<1>13. Shape(q, b)'
  BY <1>2, <1>3, <1>10, <1>11, <1>12 DEF Shape
<1>14. Contents' = q /\ Contents = q
  <2>1. [g \in Heads |-> Walk(next', g)] = q
    BY <1>9, Seen
  <2>2. QED
    BY <1>1, <2>1, SeenNow DEF Contents, Forward
<1>15. QED
  BY <1>6, <1>13, <1>14 DEF ListInv

\* succ->prev = item: item can be seen backward, and forward not yet.
LEMMA LinkBackwardList ==
  ASSUME ListInv, LinkBackward
  PROVE  ListInv' /\ Contents' = Contents
<1>1. PICK q, b \in [Heads -> Orders] : Shape(q, b)
  BY DEF ListInv
<1>2. /\ pc = "link_backward" /\ pc' = "link_forward"
      /\ prev' = [prev EXCEPT ![succ] = item] /\ next' = next
      /\ item' = item /\ pred' = pred /\ succ' = succ
  BY DEF LinkBackward, call
<1>3. PICK h \in Heads, short, long \in Orders, k \in 1..Cardinality(Items) :
         Change(q, b, h, k, short, long)
  BY <1>1, <1>2 DEF Shape
<1>4. /\ item \in Items /\ item \notin Range(short)
      /\ Range(long) = Range(short) \cup {item}
      /\ succ \in {h} \cup Range(short) /\ succ \in Nodes /\ succ # item
  BY <1>3, ChangeNodes
<1>5. /\ q[h] = short /\ b[h] = short
      /\ \A g \in Heads \ {h} : q[g] = b[g] /\ Range(q[g]) \cap Range(long) = {}
      /\ Spliced(short, k, item, long)
      /\ pred = NodeAt(h, short, k - 1) /\ succ = NodeAt(h, short, k)
      /\ next[item] = succ /\ prev[item] = pred
  BY <1>2, <1>3 DEF Change, ShortForward, ShortBackward
<1>6. TypeOK'
  BY <1>2, <1>4 DEF ListInv, TypeOK, Nodes
<1>7. /\ prev'[succ] = item
      /\ \A n \in Nodes \ {succ} : prev'[n] = prev[n]
  BY <1>2, <1>4 DEF ListInv, TypeOK
<1>8. PICK b2 \in [Heads -> Orders] : b2 = [b EXCEPT ![h] = long]
  OBVIOUS
<1>9. b2[h] = long /\ \A g \in Heads \ {h} : b2[g] = b[g]
  BY <1>8
<1>10. ASSUME NEW g \in Heads
       PROVE  Leads(next', g, q[g]) /\ LeadsBack(prev', g, b2[g])
  <2>1. Leads(next', g, q[g]) /\ LeadsBack(prev, g, b[g])
    BY <1>1, <1>2 DEF Shape, Rings
  <2>2. CASE g = h
    <3>1. LeadsBack(prev', h, long)
      BY <1>5, <1>7, <2>1, <2>2, LinkBackwardRing
    <3>2. QED
      BY <1>9, <2>1, <2>2, <3>1
  <2>3. CASE g # h
    <3>1. b[g] \in Orders /\ g \in Heads \ {h} /\ succ \in {h} \cup Range(long)
          /\ Range(b[g]) \cap Range(long) = {}
      BY <1>4, <1>5, <2>3
    <3>2. LeadsBack(prev', g, b[g])
      BY <1>7, <2>1, <3>1, OthersKept
    <3>3. QED
      BY <1>9, <2>1, <3>1, <3>2
  <2>4. QED
    BY <2>2, <2>3
<1>11. Rings(q, b2)' /\ Apart(q)'
  BY <1>1, <1>10 DEF Shape, Rings, Apart
<1>12. LooseEmpty(q, b2)'
  <2>1. ASSUME NEW i \in Loose(q, b2), prev'[i] \in Nodes \/ next'[i] \in Nodes
        PROVE  prev'[i] = i /\ next'[i] = i
    <3>1. i \in Loose(q, b) /\ i # item /\ i # succ /\ i \in Nodes
      BY <1>4, <1>5, <1>9, <2>1, NodesAssumption DEF Loose, Nodes
    <3>2. prev'[i] = prev[i] /\ next'[i] = next[i]
      BY <1>2, <1>7, <3>1
    <3>3. IsEmpty(i)
      BY <1>1, <2>1, <3>1, <3>2 DEF Shape, LooseEmpty
    <3>4. QED
      BY <3>2, <3>3 DEF IsEmpty
  <2>2. QED
    BY <1>2, <2>1 DEF LooseEmpty, Loose, IsEmpty
<1>13. Change(q, b2, h, k, short, long)'
  BY <1>2, <1>5, <1>9 DEF Change, ShortForward, ShortBackward
<1>14. Shape(q, b2)'
  BY <1>2, <1>3, <1>11, <1>12, <1>13 DEF Shape
<1>15. Contents' = q /\ Contents = q
  <2>1. [g \in Heads |-> Walk(next', g)] = q
    BY <1>8, <1>10, Seen
  <2>2. QED
    BY <1>1, <2>1, SeenNow DEF Contents, Forward
<1>16. QED
  BY <1>6, <1>14, <1>15 DEF ListInv

\* pred->next = item: the item is in the list for everybody.
LEMMA LinkForwardList ==
  ASSUME ListInv, LinkForward
  PROVE  /\ ListInv'
         /\ \E h \in Heads : \E k \in 1..(Len(Contents[h]) + 1) :
              Contents' = [Contents EXCEPT ![h] = InsertAt(@, k, item)]
         /\ item \in Items /\ \A h \in Heads : item \notin Range(Contents[h])
<1>1. PICK q, b \in [Heads -> Orders] : Shape(q, b)
  BY DEF ListInv
<1>2. /\ pc = "link_forward" /\ pc' = "idle"
      /\ next' = [next EXCEPT ![pred] = item] /\ prev' = prev
      /\ item' = item /\ pred' = pred /\ succ' = succ
  BY DEF LinkForward, call
<1>3. PICK h \in Heads, short, long \in Orders, k \in 1..Cardinality(Items) :
         Change(q, b, h, k, short, long)
  BY <1>1, <1>2 DEF Shape
<1>4. /\ item \in Items /\ item \notin Range(short)
      /\ Range(long) = Range(short) \cup {item}
      /\ pred \in {h} \cup Range(short) /\ pred \in Nodes /\ pred # item
  BY <1>3, ChangeNodes
<1>5. /\ q[h] = short /\ b[h] = long
      /\ \A g \in Heads \ {h} : q[g] = b[g] /\ Range(q[g]) \cap Range(long) = {}
      /\ Spliced(short, k, item, long)
      /\ pred = NodeAt(h, short, k - 1) /\ succ = NodeAt(h, short, k)
      /\ next[item] = succ
  BY <1>2, <1>3 DEF Change, ShortForward, ShortBackward
<1>6. TypeOK'
  BY <1>2, <1>4 DEF ListInv, TypeOK, Nodes
<1>7. /\ next'[pred] = item
      /\ \A n \in Nodes \ {pred} : next'[n] = next[n]
  BY <1>2, <1>4 DEF ListInv, TypeOK
<1>8. b = [q EXCEPT ![h] = long]
  BY <1>5
<1>9. ASSUME NEW g \in Heads
      PROVE  Leads(next', g, b[g]) /\ LeadsBack(prev', g, b[g])
  <2>1. Leads(next, g, q[g]) /\ LeadsBack(prev', g, b[g])
    BY <1>1, <1>2 DEF Shape, Rings
  <2>2. CASE g = h
    <3>1. Leads(next', h, long)
      BY <1>5, <1>7, <2>1, <2>2, LinkForwardRing
    <3>2. QED
      BY <1>5, <2>1, <2>2, <3>1
  <2>3. CASE g # h
    <3>1. q[g] \in Orders /\ g \in Heads \ {h} /\ pred \in {h} \cup Range(long)
          /\ Range(q[g]) \cap Range(long) = {} /\ b[g] = q[g]
      BY <1>4, <1>5, <2>3
    <3>2. Leads(next', g, q[g])
      BY <1>7, <2>1, <3>1, OthersKept
    <3>3. QED
      BY <2>1, <3>1, <3>2
  <2>4. QED
    BY <2>2, <2>3
<1>10. Apart(b)
  <2>1. ASSUME NEW f \in Heads, NEW g \in Heads, f # g
        PROVE  Range(b[f]) \cap Range(b[g]) = {}
    <3>1. CASE f = h
      BY <1>5, <2>1, <3>1
    <3>2. CASE g = h
      BY <1>5, <2>1, <3>2
    <3>3. CASE f # h /\ g # h
      BY <1>1, <1>5, <2>1, <3>3 DEF Shape, Apart
    <3>4. QED
      BY <3>1, <3>2, <3>3
  <2>2. QED
    BY <2>1 DEF Apart
<1>11. Rings(b, b)' /\ Apart(b)'
  BY <1>9, <1>10 DEF Rings, Apart
<1>12. LooseEmpty(b, b)'
  <2>1. ASSUME NEW i \in Loose(b, b), prev'[i] \in Nodes \/ next'[i] \in Nodes
        PROVE  prev'[i] = i /\ next'[i] = i
    <3>1. i \in Loose(q, b) /\ i # item /\ i # pred /\ i \in Nodes
      BY <1>4, <1>5, <2>1, NodesAssumption DEF Loose, Nodes
    <3>2. prev'[i] = prev[i] /\ next'[i] = next[i]
      BY <1>2, <1>7, <3>1
    <3>3. IsEmpty(i)
      BY <1>1, <2>1, <3>1, <3>2 DEF Shape, LooseEmpty
    <3>4. QED
      BY <3>2, <3>3 DEF IsEmpty
  <2>2. QED
    BY <1>2, <2>1 DEF LooseEmpty, Loose, IsEmpty
<1>13. Shape(b, b)'
  BY <1>2, <1>11, <1>12 DEF Shape
<1>14. Contents' = b /\ Contents = q
  <2>1. [g \in Heads |-> Walk(next', g)] = b
    BY <1>9, Seen
  <2>2. QED
    BY <1>1, <2>1, SeenNow DEF Contents, Forward
<1>15. /\ long = InsertAt(short, k, item)
       /\ k \in 1..(Len(q[h]) + 1)
  <2>1. long = InsertAt(short, k, item)
    BY <1>5, SplicedIs
  <2>2. k \in 1..(Len(short) + 1)
    BY <1>5 DEF Spliced
  <2>3. QED
    BY <1>5, <2>1, <2>2
<1>16. b = [q EXCEPT ![h] = InsertAt(@, k, item)]
  BY <1>5, <1>8, <1>15
<1>17. \A g \in Heads : item \notin Range(q[g])
  BY <1>4, <1>5
<1>18. QED
  BY <1>4, <1>6, <1>13, <1>14, <1>15, <1>16, <1>17 DEF ListInv

\* succ->prev = pred: item cannot be seen backward any more.
LEMMA UnlinkBackwardList ==
  ASSUME ListInv, UnlinkBackward
  PROVE  ListInv' /\ Contents' = Contents
<1>1. PICK q, b \in [Heads -> Orders] : Shape(q, b)
  BY DEF ListInv
<1>2. /\ pc = "unlink_backward" /\ pc' = "unlink_forward"
      /\ prev' = [prev EXCEPT ![succ] = pred] /\ next' = next
      /\ item' = item /\ pred' = pred /\ succ' = succ
  BY DEF UnlinkBackward, call
<1>3. PICK h \in Heads, short, long \in Orders, k \in 1..Cardinality(Items) :
         Change(q, b, h, k, short, long)
  BY <1>1, <1>2 DEF Shape
<1>4. /\ item \in Items /\ item \notin Range(short)
      /\ Range(long) = Range(short) \cup {item}
      /\ succ \in {h} \cup Range(short) /\ succ \in Nodes /\ pred \in Nodes
  BY <1>3, ChangeNodes
<1>5. /\ q[h] = long /\ b[h] = long
      /\ \A g \in Heads \ {h} : q[g] = b[g] /\ Range(q[g]) \cap Range(long) = {}
      /\ Spliced(short, k, item, long)
      /\ pred = NodeAt(h, short, k - 1) /\ succ = NodeAt(h, short, k)
  BY <1>2, <1>3 DEF Change, ShortForward, ShortBackward
<1>6. TypeOK'
  BY <1>2, <1>4 DEF ListInv, TypeOK, Nodes
<1>7. /\ prev'[succ] = pred
      /\ \A n \in Nodes \ {succ} : prev'[n] = prev[n]
  BY <1>2, <1>4 DEF ListInv, TypeOK
<1>8. PICK b2 \in [Heads -> Orders] : b2 = [b EXCEPT ![h] = short]
  OBVIOUS
<1>9. b2[h] = short /\ \A g \in Heads \ {h} : b2[g] = b[g]
  BY <1>8
<1>10. ASSUME NEW g \in Heads
       PROVE  Leads(next', g, q[g]) /\ LeadsBack(prev', g, b2[g])
  <2>1. Leads(next', g, q[g]) /\ LeadsBack(prev, g, b[g])
    BY <1>1, <1>2 DEF Shape, Rings
  <2>2. CASE g = h
    <3>1. LeadsBack(prev', h, short)
      BY <1>5, <1>7, <2>1, <2>2, UnlinkBackwardRing
    <3>2. QED
      BY <1>9, <2>1, <2>2, <3>1
  <2>3. CASE g # h
    <3>1. b[g] \in Orders /\ g \in Heads \ {h} /\ succ \in {h} \cup Range(long)
          /\ Range(b[g]) \cap Range(long) = {}
      BY <1>4, <1>5, <2>3
    <3>2. LeadsBack(prev', g, b[g])
      BY <1>7, <2>1, <3>1, OthersKept
    <3>3. QED
      BY <1>9, <2>1, <3>1, <3>2
  <2>4. QED
    BY <2>2, <2>3
<1>11. Rings(q, b2)' /\ Apart(q)'
  BY <1>1, <1>10 DEF Shape, Rings, Apart
<1>12. LooseEmpty(q, b2)'
  <2>1. ASSUME NEW i \in Loose(q, b2), i # item,
               prev'[i] \in Nodes \/ next'[i] \in Nodes
        PROVE  prev'[i] = i /\ next'[i] = i
    <3>1. i \in Loose(q, b) /\ i # succ /\ i \in Nodes
      BY <1>4, <1>5, <1>9, <2>1, NodesAssumption DEF Loose, Nodes
    <3>2. prev'[i] = prev[i] /\ next'[i] = next[i]
      BY <1>2, <1>7, <3>1
    <3>3. IsEmpty(i)
      BY <1>1, <2>1, <3>1, <3>2 DEF Shape, LooseEmpty
    <3>4. QED
      BY <3>2, <3>3 DEF IsEmpty
  <2>2. QED
    BY <1>2, <2>1 DEF LooseEmpty, Loose, IsEmpty
<1>13. Change(q, b2, h, k, short, long)'
  BY <1>2, <1>5, <1>9 DEF Change, ShortForward, ShortBackward
<1>14. Shape(q, b2)'
  BY <1>2, <1>3, <1>11, <1>12, <1>13 DEF Shape
<1>15. Contents' = q /\ Contents = q
  <2>1. [g \in Heads |-> Walk(next', g)] = q
    BY <1>8, <1>10, Seen
  <2>2. QED
    BY <1>1, <2>1, SeenNow DEF Contents, Forward
<1>16. QED
  BY <1>6, <1>14, <1>15 DEF ListInv

\* pred->next = succ: the item is in no list any more.
LEMMA UnlinkForwardList ==
  ASSUME ListInv, UnlinkForward
  PROVE  /\ ListInv'
         /\ \E h \in Heads : \E k \in 1..Len(Contents[h]) :
              /\ Contents[h][k] = item
              /\ Contents' = [Contents EXCEPT ![h] = RemoveAt(@, k)]
<1>1. PICK q, b \in [Heads -> Orders] : Shape(q, b)
  BY DEF ListInv
<1>2. /\ pc = "unlink_forward" /\ pc' = "reset"
      /\ next' = [next EXCEPT ![pred] = succ] /\ prev' = prev
      /\ item' = item /\ pred' = pred /\ succ' = succ
  BY DEF UnlinkForward, call
<1>3. PICK h \in Heads, short, long \in Orders, k \in 1..Cardinality(Items) :
         Change(q, b, h, k, short, long)
  BY <1>1, <1>2 DEF Shape
<1>4. /\ item \in Items /\ item \notin Range(short)
      /\ Range(long) = Range(short) \cup {item}
      /\ pred \in {h} \cup Range(short) /\ pred \in Nodes /\ succ \in Nodes
  BY <1>3, ChangeNodes
<1>5. /\ q[h] = long /\ b[h] = short
      /\ \A g \in Heads \ {h} : q[g] = b[g] /\ Range(q[g]) \cap Range(long) = {}
      /\ Spliced(short, k, item, long)
      /\ pred = NodeAt(h, short, k - 1) /\ succ = NodeAt(h, short, k)
  BY <1>2, <1>3 DEF Change, ShortForward, ShortBackward
<1>6. TypeOK'
  BY <1>2, <1>4 DEF ListInv, TypeOK, Nodes
<1>7. /\ next'[pred] = succ
      /\ \A n \in Nodes \ {pred} : next'[n] = next[n]
  BY <1>2, <1>4 DEF ListInv, TypeOK
<1>8. b = [q EXCEPT ![h] = short]
  BY <1>5
<1>9. ASSUME NEW g \in Heads
      PROVE  Leads(next', g, b[g]) /\ LeadsBack(prev', g, b[g])
  <2>1. Leads(next, g, q[g]) /\ LeadsBack(prev', g, b[g])
    BY <1>1, <1>2 DEF Shape, Rings
  <2>2. CASE g = h
    <3>1. Leads(next', h, short)
      BY <1>5, <1>7, <2>1, <2>2, UnlinkForwardRing
    <3>2. QED
      BY <1>5, <2>1, <2>2, <3>1
  <2>3. CASE g # h
    <3>1. q[g] \in Orders /\ g \in Heads \ {h} /\ pred \in {h} \cup Range(long)
          /\ Range(q[g]) \cap Range(long) = {} /\ b[g] = q[g]
      BY <1>4, <1>5, <2>3
    <3>2. Leads(next', g, q[g])
      BY <1>7, <2>1, <3>1, OthersKept
    <3>3. QED
      BY <2>1, <3>1, <3>2
  <2>4. QED
    BY <2>2, <2>3
<1>10. Apart(b)
  <2>1. ASSUME NEW f \in Heads, NEW g \in Heads, f # g
        PROVE  Range(b[f]) \cap Range(b[g]) = {}
    <3>1. CASE f = h
      BY <1>4, <1>5, <2>1, <3>1
    <3>2. CASE g = h
      BY <1>4, <1>5, <2>1, <3>2
    <3>3. CASE f # h /\ g # h
      BY <1>1, <1>5, <2>1, <3>3 DEF Shape, Apart
    <3>4. QED
      BY <3>1, <3>2, <3>3
  <2>2. QED
    BY <2>1 DEF Apart
<1>11. Rings(b, b)' /\ Apart(b)'
  BY <1>9, <1>10 DEF Rings, Apart
<1>12. LooseEmpty(b, b)'
  <2>1. ASSUME NEW i \in Loose(b, b), i # item,
               prev'[i] \in Nodes \/ next'[i] \in Nodes
        PROVE  prev'[i] = i /\ next'[i] = i
    <3>1. i \in Loose(q, b) /\ i # pred /\ i \in Nodes
      BY <1>4, <1>5, <2>1, NodesAssumption DEF Loose, Nodes
    <3>2. prev'[i] = prev[i] /\ next'[i] = next[i]
      BY <1>2, <1>7, <3>1
    <3>3. IsEmpty(i)
      BY <1>1, <2>1, <3>1, <3>2 DEF Shape, LooseEmpty
    <3>4. QED
      BY <3>2, <3>3 DEF IsEmpty
  <2>2. QED
    BY <1>2, <2>1 DEF LooseEmpty, Loose, IsEmpty
<1>13. Change(b, b, h, k, short, long)'
  BY <1>2, <1>5 DEF Change, ShortForward, ShortBackward
<1>14. Shape(b, b)'
  BY <1>2, <1>3, <1>11, <1>12, <1>13 DEF Shape
<1>15. Contents' = b /\ Contents = q
  <2>1. [g \in Heads |-> Walk(next', g)] = b
    BY <1>9, Seen
  <2>2. QED
    BY <1>1, <2>1, SeenNow DEF Contents, Forward
<1>16. /\ short = RemoveAt(long, k) /\ long[k] = item
       /\ k \in 1..Len(q[h])
  BY <1>5, SplicedIs DEF Spliced
<1>17. b = [q EXCEPT ![h] = RemoveAt(@, k)]
  BY <1>5, <1>8, <1>16
<1>18. QED
  BY <1>5, <1>6, <1>14, <1>15, <1>16, <1>17 DEF ListInv

\* __list_init(item), after the item has been taken out.
LEMMA ResetList ==
  ASSUME ListInv, Reset
  PROVE  ListInv' /\ Contents' = Contents /\ item \in Free'
<1>1. PICK q, b \in [Heads -> Orders] : Shape(q, b)
  BY DEF ListInv
<1>2. /\ pc = "reset" /\ pc' = "idle"
      /\ next' = [next EXCEPT ![item] = item]
      /\ prev' = [prev EXCEPT ![item] = item]
      /\ item' = item /\ pred' = pred /\ succ' = succ
  BY DEF Reset, call
<1>3. PICK h \in Heads, short, long \in Orders, k \in 1..Cardinality(Items) :
         Change(q, b, h, k, short, long)
  BY <1>1, <1>2 DEF Shape
<1>4. /\ item \in Items /\ item \notin Range(short)
      /\ Range(long) = Range(short) \cup {item}
  BY <1>3, ChangeNodes
<1>5. /\ q[h] = short /\ b[h] = short
      /\ \A g \in Heads \ {h} : q[g] = b[g] /\ Range(q[g]) \cap Range(long) = {}
  BY <1>2, <1>3 DEF Change, ShortForward, ShortBackward
<1>6. TypeOK'
  BY <1>2, <1>4 DEF ListInv, TypeOK, Nodes
<1>7. /\ next'[item] = item /\ prev'[item] = item
      /\ \A n \in Nodes \ {item} : next'[n] = next[n] /\ prev'[n] = prev[n]
  BY <1>2, <1>4 DEF ListInv, TypeOK, Nodes
<1>8. /\ \A g \in Heads : item \notin {g} \cup Range(q[g]) /\ q[g] = b[g]
      /\ q = b
  BY <1>4, <1>5, NodesAssumption
<1>9. ASSUME NEW g \in Heads
      PROVE  Leads(next', g, q[g]) /\ LeadsBack(prev', g, b[g])
  <2>1. q[g] \in Orders /\ b[g] = q[g]
    BY <1>8
  <2>2. Range(q[g]) \subseteq Items /\ g \in Nodes /\ Items \subseteq Nodes
    BY <2>1, OrderIs DEF Nodes
  <2>3. \A n \in {g} \cup Range(q[g]) : next'[n] = next[n] /\ prev'[n] = prev[n]
    BY <1>7, <1>8, <2>2
  <2>4. Leads(next, g, q[g]) /\ LeadsBack(prev, g, q[g])
    BY <1>1, <2>1 DEF Shape, Rings
  <2>5. QED
    BY <2>1, <2>3, <2>4, OtherRing
<1>10. Rings(q, b)' /\ Apart(q)'
  BY <1>1, <1>9 DEF Shape, Rings, Apart
<1>11. LooseEmpty(q, b)'
  <2>1. ASSUME NEW i \in Loose(q, b), prev'[i] \in Nodes \/ next'[i] \in Nodes
        PROVE  prev'[i] = i /\ next'[i] = i
    <3>1. CASE i = item
      BY <1>7, <3>1
    <3>2. CASE i # item
      <4>1. i \in Nodes /\ prev'[i] = prev[i] /\ next'[i] = next[i]
        BY <1>7, <2>1, <3>2 DEF Loose, Nodes
      <4>2. IsEmpty(i)
        BY <1>1, <2>1, <3>2, <4>1 DEF Shape, LooseEmpty
      <4>3. QED
        BY <4>1, <4>2 DEF IsEmpty
    <3>3. QED
      BY <3>1, <3>2
  <2>2. QED
    BY <1>2, <2>1 DEF LooseEmpty, Loose, IsEmpty
<1>12. Shape(q, b)'
  BY <1>2, <1>8, <1>10, <1>11 DEF Shape
<1>13. Contents' = q /\ Contents = q
  <2>1. [g \in Heads |-> Walk(next', g)] = q
    BY <1>9, Seen
  <2>2. QED
    BY <1>1, <2>1, SeenNow DEF Contents, Forward
<1>14. ASSUME NEW g \in Heads PROVE item \notin Members(g)'
  <2>1. /\ Leads(next', g, q[g]) /\ LeadsBack(prev', g, b[g])
        /\ q[g] \in Orders /\ b[g] \in Orders
    BY <1>9
  <2>2. Leads(prev', g, Reverse(b[g])) /\ Reverse(b[g]) \in Orders
        /\ Range(Reverse(b[g])) = Range(b[g])
    BY <2>1, BackwardRing, ReverseOrder
  <2>3. Walk(next', g) = q[g] /\ Walk(prev', g) = Reverse(b[g])
    BY <2>1, <2>2, WalkIs
  <2>4. QED
    BY <1>8, <2>2, <2>3 DEF Members, Forward, Backward
<1>15. item \in Free'
  BY <1>4, <1>14 DEF Free
<1>16. QED
  BY <1>6, <1>12, <1>13, <1>15 DEF ListInv

\* Between two calls both directions go through the same lists.
LEMMA IdleShape ==
  ASSUME ListInv, pc = "idle"
  PROVE  \E q \in [Heads -> Orders] :
           /\ Shape(q, q) /\ Contents = q /\ Free = Loose(q, q)
           /\ \A h \in Heads : Leads(next, h, q[h]) /\ LeadsBack(prev, h, q[h])
<1>1. PICK q, b \in [Heads -> Orders] : Shape(q, b)
  BY DEF ListInv
<1>2. q = b
  BY <1>1 DEF Shape
<1>3. QED
  BY <1>1, <1>2, SeenNow DEF Shape, Rings

\* The calls that insert an item begin between two neighbours of a ring.
LEMMA InsertBegins ==
  ASSUME ListInv, NEW q \in [Heads -> Orders], Shape(q, q), NEW h \in Heads,
         NEW k \in 1..(Len(q[h]) + 1), NEW i \in Items,
         InsertBetween(i, NodeAt(h, q[h], k - 1), NodeAt(h, q[h], k))
  PROVE  ListInv' /\ Contents' = Contents
<1>1. /\ pc = "idle" /\ pc' = "link_item" /\ i \in Free
      /\ item' = i /\ pred' = NodeAt(h, q[h], k - 1)
      /\ succ' = NodeAt(h, q[h], k)
      /\ prev' = prev /\ next' = next
  BY DEF InsertBetween
<1>2. Free = Loose(q, q) /\ \A g \in Heads : i \notin Range(q[g])
  BY <1>1, SeenNow DEF Loose
<1>3. PICK short \in Orders : short = q[h]
  OBVIOUS
<1>4. PICK long \in Orders : Spliced(short, k, i, long)
  BY <1>2, <1>3, Longer
<1>5. /\ SplicedNodes(h, short, k, i, long)
      /\ Cardinality(Items) \in Nat /\ Len(long) <= Cardinality(Items)
  BY <1>4, SplicedPlaces, OrderBound
<1>6. k \in 1..Cardinality(Items) /\ Range(long) = Range(short) \cup {i}
  BY <1>3, <1>5, OrderIs DEF SplicedNodes
<1>7. k - 1 \in Int /\ k \in Int
  OBVIOUS
<1>8. NodeAt(h, q[h], k - 1) \in Nodes /\ NodeAt(h, q[h], k) \in Nodes
  BY <1>7, Places
<1>9. TypeOK'
  BY <1>1, <1>8 DEF ListInv, TypeOK
<1>10. ASSUME NEW g \in Heads \ {h} PROVE Range(q[g]) \cap Range(long) = {}
  BY <1>2, <1>3, <1>6 DEF Shape, Apart
<1>11. Change(q, q, h, k, short, long)'
  BY <1>1, <1>3, <1>4, <1>10 DEF Change, ShortForward, ShortBackward
<1>12. (Rings(q, q) /\ Apart(q) /\ LooseEmpty(q, q))'
  BY <1>1 DEF Shape, Rings, Apart, LooseEmpty, Loose, IsEmpty
<1>13. Shape(q, q)'
  BY <1>1, <1>6, <1>11, <1>12 DEF Shape
<1>14. Contents' = Contents
  BY <1>1 DEF Contents, Forward
<1>15. QED
  BY <1>9, <1>13, <1>14 DEF ListInv

\* The calls that take an item out begin with its neighbours.
LEMMA RemoveBegins ==
  ASSUME ListInv, NEW q \in [Heads -> Orders], Shape(q, q), NEW h \in Heads,
         NEW k \in 1..Len(q[h]), RemoveItem(q[h][k])
  PROVE  ListInv' /\ Contents' = Contents
<1> DEFINE i == q[h][k]
<1>1. /\ pc = "idle" /\ pc' = "unlink_backward"
      /\ item' = i /\ pred' = prev[i] /\ succ' = next[i]
      /\ prev' = prev /\ next' = next
  BY DEF RemoveItem
<1> HIDE DEF i
<1>2. PICK long \in Orders : long = q[h]
  OBVIOUS
<1>3. k \in 1..Len(long) /\ i = long[k] /\ i \in Items
  BY <1>2, OrderIs DEF i
<1>4. PICK short \in Orders : Spliced(short, k, i, long)
  BY <1>3, Shorter
<1>5. /\ SplicedNodes(h, short, k, i, long)
      /\ Cardinality(Items) \in Nat /\ Len(long) <= Cardinality(Items)
      /\ Len(long) \in Nat
  BY <1>4, SplicedPlaces, OrderBound, OrderIs
<1>6. k \in 1..Cardinality(Items) /\ Range(long) = Range(short) \cup {i}
  BY <1>3, <1>5 DEF SplicedNodes
<1>7. /\ Len(short) \in Nat /\ Len(long) = Len(short) + 1 /\ i = NodeAt(h, long, k)
      /\ NodeAt(h, long, k - 1) = NodeAt(h, short, k - 1)
      /\ NodeAt(h, long, k + 1) = NodeAt(h, short, k)
  <2>1. k - 1 \in 0..(k - 1) /\ k \in k..(Len(short) + 1) /\ Len(short) \in Nat
    BY <1>5, OrderIs DEF SplicedNodes
  <2>2. QED
    BY <1>5, <2>1 DEF SplicedNodes
<1>8. /\ Leads(next, h, long) /\ LeadsBack(prev, h, long)
  BY <1>2 DEF Shape, Rings
<1>9. prev[i] = NodeAt(h, short, k - 1)
  <2>1. k - 1 \in 0..Len(long) /\ (k - 1) + 1 = k
    BY <1>3, <1>5
  <2>2. prev[NodeAt(h, long, (k - 1) + 1)] = NodeAt(h, long, k - 1)
    BY <1>8, <2>1 DEF LeadsBack
  <2>3. QED
    BY <1>7, <2>1, <2>2
<1>10. next[i] = NodeAt(h, short, k)
  <2>1. k \in 0..Len(long)
    BY <1>3, <1>5
  <2>2. next[NodeAt(h, long, k)] = NodeAt(h, long, k + 1)
    BY <1>8, <2>1 DEF Leads
  <2>3. QED
    BY <1>7, <2>2
<1>11. k - 1 \in Int /\ k \in Int
  OBVIOUS
<1>12. NodeAt(h, short, k - 1) \in Nodes /\ NodeAt(h, short, k) \in Nodes
  BY <1>11, Places
<1>13. TypeOK'
  BY <1>1, <1>3, <1>9, <1>10, <1>12 DEF ListInv, TypeOK
<1>14. ASSUME NEW g \in Heads \ {h} PROVE Range(q[g]) \cap Range(long) = {}
  BY <1>2 DEF Shape, Apart
<1>15. Change(q, q, h, k, short, long)'
  BY <1>1, <1>2, <1>4, <1>9, <1>10, <1>14
     DEF Change, ShortForward, ShortBackward
<1>16. (Rings(q, q) /\ Apart(q) /\ LooseEmpty(q, q))'
  BY <1>1 DEF Shape, Rings, Apart, LooseEmpty, Loose, IsEmpty
<1>17. Shape(q, q)'
  BY <1>1, <1>6, <1>15, <1>16 DEF Shape
<1>18. Contents' = Contents
  BY <1>1 DEF Contents, Forward
<1>19. QED
  BY <1>13, <1>17, <1>18 DEF ListInv

\* The pointers of an item that is in no list may be set to anything that is no
\* other node.
LEMMA FreeTouched ==
  ASSUME ListInv, pc = "idle", NEW i \in Free, NEW v \in {i, Dead, Wild},
         prev' = [prev EXCEPT ![i] = v], next' = [next EXCEPT ![i] = v],
         UNCHANGED <<pc, call>>
  PROVE  ListInv' /\ Contents' = Contents
<1>1. PICK q \in [Heads -> Orders] :
        /\ Shape(q, q) /\ Contents = q /\ Free = Loose(q, q)
        /\ \A h \in Heads : Leads(next, h, q[h]) /\ LeadsBack(prev, h, q[h])
  BY IdleShape
<1>2. pc' = "idle" /\ item' = item /\ pred' = pred /\ succ' = succ
  BY DEF call
<1>3. i \in Items /\ \A h \in Heads : i \notin {h} \cup Range(q[h])
  BY <1>1, NodesAssumption DEF Loose
<1>4. TypeOK'
  BY <1>2, <1>3 DEF ListInv, TypeOK, Nodes
<1>5. /\ next'[i] = v /\ prev'[i] = v
      /\ \A n \in Nodes \ {i} : next'[n] = next[n] /\ prev'[n] = prev[n]
  BY <1>3 DEF ListInv, TypeOK, Nodes
<1>6. ASSUME NEW g \in Heads
      PROVE  Leads(next', g, q[g]) /\ LeadsBack(prev', g, q[g])
  <2>1. q[g] \in Orders /\ Leads(next, g, q[g]) /\ LeadsBack(prev, g, q[g])
    BY <1>1
  <2>2. Range(q[g]) \subseteq Items /\ g \in Nodes /\ Items \subseteq Nodes
    BY <2>1, OrderIs DEF Nodes
  <2>3. \A n \in {g} \cup Range(q[g]) : next'[n] = next[n] /\ prev'[n] = prev[n]
    BY <1>3, <1>5, <2>2
  <2>4. QED
    BY <2>1, <2>3, OtherRing
<1>7. Rings(q, q)' /\ Apart(q)'
  BY <1>1, <1>6 DEF Shape, Rings, Apart
<1>8. LooseEmpty(q, q)'
  <2>1. ASSUME NEW j \in Loose(q, q), prev'[j] \in Nodes \/ next'[j] \in Nodes
        PROVE  prev'[j] = j /\ next'[j] = j
    <3>1. CASE j = i
      BY <1>5, <2>1, <3>1, NodesAssumption
    <3>2. CASE j # i
      <4>1. j \in Nodes /\ prev'[j] = prev[j] /\ next'[j] = next[j]
        BY <1>5, <2>1, <3>2 DEF Loose, Nodes
      <4>2. IsEmpty(j)
        BY <1>1, <2>1, <3>2, <4>1 DEF Shape, LooseEmpty
      <4>3. QED
        BY <4>1, <4>2 DEF IsEmpty
    <3>3. QED
      BY <3>1, <3>2
  <2>2. QED
    BY <1>2, <2>1 DEF LooseEmpty, Loose, IsEmpty
<1>9. Shape(q, q)'
  BY <1>2, <1>7, <1>8 DEF Shape
<1>10. Contents' = q
  <2>1. ASSUME NEW g \in Heads PROVE Walk(next', g) = q[g]
    <3>1. q[g] \in Orders /\ Leads(next', g, q[g])
      BY <1>6
    <3>2. QED
      BY <3>1, WalkIs
  <2>2. QED
    BY <2>1 DEF Contents, Forward
<1>11. QED
  BY <1>1, <1>4, <1>9, <1>10 DEF ListInv

\* Every call that begins leaves the lists as they are.
LEMMA CallList ==
  ASSUME ListInv, Call
  PROVE  ListInv' /\ Contents' = Contents
<1>1. pc = "idle"
  BY DEF Call, ListAddFirst, ListAddLast, ListInsertAfter, ListInsertBefore,
         ListRemove, EntryDestroy, ListRemoveAfter, ListRemoveBefore, ListInit,
         EntryGeneric, InsertBetween, RemoveItem
<1>2. PICK q \in [Heads -> Orders] :
        /\ Shape(q, q) /\ Contents = q /\ Free = Loose(q, q)
        /\ \A h \in Heads : Leads(next, h, q[h]) /\ LeadsBack(prev, h, q[h])
  BY <1>1, IdleShape
<1>3. \A h \in Heads : /\ q[h] \in Orders /\ Len(q[h]) \in Nat
                       /\ NodeAt(h, q[h], 0) = h
                       /\ NodeAt(h, q[h], Len(q[h]) + 1) = h
                       /\ \A j \in 1..Len(q[h]) : NodeAt(h, q[h], j) = q[h][j]
  BY OrderIs, Places
<1>4. ASSUME NEW h \in Heads
      PROVE  /\ \A j \in 0..Len(q[h]) :
                  next[NodeAt(h, q[h], j)] = NodeAt(h, q[h], j + 1)
             /\ \A j \in 0..Len(q[h]) :
                  prev[NodeAt(h, q[h], j + 1)] = NodeAt(h, q[h], j)
  BY <1>2 DEF Leads, LeadsBack
<1>5. ASSUME NEW i \in Items, i \notin Free
      PROVE  \E h \in Heads : \E j \in 1..Len(q[h]) : i = q[h][j]
  <2>1. PICK h \in Heads : i \in Range(q[h])
    BY <1>2, <1>5 DEF Loose
  <2>2. QED
    BY <2>1, <1>3, OrderIs
<1>6. ASSUME NEW h \in Heads, NEW i \in Items, ListAddFirst(h, i)
      PROVE  ListInv' /\ Contents' = Contents
  <2>1. 1 \in 1..(Len(q[h]) + 1) /\ 1 - 1 = 0 /\ 0 \in 0..Len(q[h]) /\ 0 + 1 = 1
    BY <1>3
  <2>2. next[h] = NodeAt(h, q[h], 1) /\ h = NodeAt(h, q[h], 1 - 1)
    BY <1>3, <1>4, <2>1
  <2>3. InsertBetween(i, NodeAt(h, q[h], 1 - 1), NodeAt(h, q[h], 1))
    BY <1>6, <2>2 DEF ListAddFirst
  <2>4. QED
    BY <1>2, <2>1, <2>3, InsertBegins
<1>7. ASSUME NEW h \in Heads, NEW i \in Items, ListAddLast(h, i)
      PROVE  ListInv' /\ Contents' = Contents
  <2> DEFINE k == Len(q[h]) + 1
  <2>1. k \in 1..(Len(q[h]) + 1) /\ k - 1 = Len(q[h]) /\ Len(q[h]) \in 0..Len(q[h])
    BY <1>3
  <2>2. prev[h] = NodeAt(h, q[h], k - 1) /\ h = NodeAt(h, q[h], k)
    BY <1>3, <1>4, <2>1
  <2>3. InsertBetween(i, NodeAt(h, q[h], k - 1), NodeAt(h, q[h], k))
    BY <1>7, <2>2 DEF ListAddLast
  <2> HIDE DEF k
  <2>4. QED
    BY <1>2, <2>1, <2>3, InsertBegins
<1>8. ASSUME NEW i \in Items, NEW p \in Items, ListInsertAfter(i, p)
      PROVE  ListInv' /\ Contents' = Contents
  <2>1. PICK h \in Heads : \E j \in 1..Len(q[h]) : p = q[h][j]
    BY <1>5, <1>8 DEF ListInsertAfter
  <2>2. PICK j \in 1..Len(q[h]) : p = q[h][j]
    BY <2>1
  <2> DEFINE k == j + 1
  <2>3. k \in 1..(Len(q[h]) + 1) /\ k - 1 = j /\ j \in 0..Len(q[h])
    BY <1>3
  <2>4. next[p] = NodeAt(h, q[h], k) /\ p = NodeAt(h, q[h], k - 1)
    BY <1>3, <1>4, <2>2, <2>3
  <2>5. InsertBetween(i, NodeAt(h, q[h], k - 1), NodeAt(h, q[h], k))
    BY <1>8, <2>4 DEF ListInsertAfter
  <2> HIDE DEF k
  <2>6. QED
    BY <1>2, <2>3, <2>5, InsertBegins
<1>9. ASSUME NEW i \in Items, NEW s \in Items, ListInsertBefore(i, s)
      PROVE  ListInv' /\ Contents' = Contents
  <2>1. PICK h \in Heads : \E j \in 1..Len(q[h]) : s = q[h][j]
    BY <1>5, <1>9 DEF ListInsertBefore
  <2>2. PICK k \in 1..Len(q[h]) : s = q[h][k]
    BY <2>1
  <2>3. k \in 1..(Len(q[h]) + 1) /\ k - 1 \in 0..Len(q[h]) /\ (k - 1) + 1 = k
    BY <1>3
  <2>4. prev[s] = NodeAt(h, q[h], k - 1) /\ s = NodeAt(h, q[h], k)
    BY <1>3, <1>4, <2>2, <2>3
  <2>5. InsertBetween(i, NodeAt(h, q[h], k - 1), NodeAt(h, q[h], k))
    BY <1>9, <2>4 DEF ListInsertBefore
  <2>6. QED
    BY <1>2, <2>3, <2>5, InsertBegins
<1>10. ASSUME NEW i \in Items, i \notin Free, RemoveItem(i)
       PROVE  ListInv' /\ Contents' = Contents
  <2>1. PICK h \in Heads : \E j \in 1..Len(q[h]) : i = q[h][j]
    BY <1>5, <1>10
  <2>2. PICK k \in 1..Len(q[h]) : i = q[h][k]
    BY <2>1
  <2>3. RemoveItem(q[h][k])
    BY <1>10, <2>2
  <2>4. QED
    BY <1>2, <2>3, RemoveBegins
<1>11. ASSUME NEW h \in Heads, ~ IsEmpty(h)
       PROVE  /\ 1 \in 1..Len(q[h]) /\ next[h] = q[h][1]
              /\ Len(q[h]) \in 1..Len(q[h]) /\ prev[h] = q[h][Len(q[h])]
  <2>1. /\ 0 \in 0..Len(q[h]) /\ 0 + 1 = 1 /\ Len(q[h]) \in 0..Len(q[h])
    BY <1>3
  <2>2. next[h] = NodeAt(h, q[h], 1) /\ prev[h] = NodeAt(h, q[h], Len(q[h]))
    BY <1>3, <1>4, <2>1
  <2>3. Len(q[h]) # 0
    BY <1>3, <1>11, <2>2 DEF IsEmpty
  <2>4. 1 \in 1..Len(q[h]) /\ Len(q[h]) \in 1..Len(q[h])
    BY <1>3, <2>3
  <2>5. QED
    BY <1>3, <2>2, <2>4
<1>12. ASSUME NEW h \in Heads, ListRemoveAfter(h) \/ ListRemoveBefore(h)
       PROVE  ListInv' /\ Contents' = Contents
  <2>1. ~ IsEmpty(h) /\ (RemoveItem(next[h]) \/ RemoveItem(prev[h]))
    BY <1>12 DEF ListRemoveAfter, ListRemoveBefore
  <2>2. \E k \in 1..Len(q[h]) : RemoveItem(q[h][k])
    BY <1>11, <2>1
  <2>3. QED
    BY <1>2, <2>2, RemoveBegins
<1>13. ASSUME NEW i \in Items, ListRemove(i) \/ EntryDestroy(i)
       PROVE  ListInv' /\ Contents' = Contents
  <2>1. RemoveItem(i)
    BY <1>13 DEF ListRemove, EntryDestroy
  <2>2. CASE ListRemove(i)
    BY <1>10, <2>1, <2>2 DEF ListRemove
  <2>3. CASE EntryDestroy(i)
    <3>1. prev[i] \in Nodes /\ ~ IsEmpty(i)
      BY <2>3 DEF EntryDestroy
    <3>2. i \notin Free
      BY <1>1, <1>2, <3>1 DEF Shape, LooseEmpty
    <3>3. QED
      BY <1>10, <2>1, <3>2
  <2>4. QED
    BY <1>13, <2>2, <2>3
<1>14. ASSUME NEW i \in Items, ListInit(i) \/ EntryGeneric(i)
       PROVE  ListInv' /\ Contents' = Contents
  <2>1. i \in Free /\ UNCHANGED <<pc, call>>
    BY <1>14 DEF ListInit, EntryGeneric
  <2>2. \E v \in {i, Dead, Wild} : /\ prev' = [prev EXCEPT ![i] = v]
                                   /\ next' = [next EXCEPT ![i] = v]
    BY <1>14 DEF ListInit, EntryGeneric
  <2>3. QED
    BY <1>1, <2>1, <2>2, FreeTouched
<1>15. QED
  BY <1>6, <1>7, <1>8, <1>9, <1>12, <1>13, <1>14 DEF Call

-----------------------------------------------------------------------------
(* What the invariant says of the lists, and the abstract lists.           *)

\* list_is_empty tells the empty lists.
LEMMA EmptyIs ==
  ASSUME NEW q \in [Heads -> Orders], NEW b \in [Heads -> Orders], Rings(q, b),
         NEW h \in Heads, q[h] = b[h]
  PROVE  /\ IsEmpty(h) <=> q[h] = <<>>
         /\ IsEmpty(h) <=> Len(q[h]) = 0
<1>1. /\ q[h] \in Orders /\ Leads(next, h, q[h]) /\ LeadsBack(prev, h, q[h])
  BY DEF Rings
<1>2. /\ q[h] \in Seq(Items) /\ Len(q[h]) \in Nat
      /\ NodeAt(h, q[h], 0) = h /\ NodeAt(h, q[h], Len(q[h]) + 1) = h
      /\ \A i \in 1..Len(q[h]) : NodeAt(h, q[h], i) \in Items
  BY <1>1, OrderIs, Places
<1>3. q[h] = <<>> <=> Len(q[h]) = 0
  BY <1>2, EmptySeq
<1>4. /\ 0 \in 0..Len(q[h]) /\ 0 + 1 = 1
      /\ next[NodeAt(h, q[h], 0)] = NodeAt(h, q[h], 0 + 1)
      /\ prev[NodeAt(h, q[h], 0 + 1)] = NodeAt(h, q[h], 0)
  BY <1>1, <1>2 DEF Leads, LeadsBack
<1>5. CASE Len(q[h]) = 0
  BY <1>2, <1>3, <1>4, <1>5 DEF IsEmpty
<1>6. CASE Len(q[h]) # 0
  <2>1. 1 \in 1..Len(q[h])
    BY <1>2, <1>6
  <2>2. next[h] \in Items
    BY <1>2, <1>4, <2>1
  <2>3. next[h] # h
    BY <2>2, NodesAssumption
  <2>4. QED
    BY <1>3, <1>6, <2>3 DEF IsEmpty
<1>7. QED
  BY <1>5, <1>6

\* Between two calls, and after an item is out, both directions agree.
LEMMA InvRings == ListInv => RingsClosed
<1>1. SUFFICES ASSUME ListInv, pc \in {"idle", "reset"}
               PROVE  RingsClosed
  BY DEF RingsClosed
<1>2. PICK q, b \in [Heads -> Orders] : Shape(q, b)
  BY <1>1 DEF ListInv
<1>3. \A h \in Heads : q[h] = b[h]
  <2>1. CASE pc = "idle"
    BY <1>2, <2>1 DEF Shape
  <2>2. CASE pc = "reset"
    <3>1. PICK h \in Heads, short, long \in Orders, k \in 1..Cardinality(Items) :
             Change(q, b, h, k, short, long)
      BY <1>2, <2>2 DEF Shape
    <3>2. QED
      BY <2>2, <3>1 DEF Change, ShortForward, ShortBackward
  <2>3. QED
    BY <1>1, <2>1, <2>2
<1>4. ASSUME NEW h \in Heads
      PROVE  /\ Forward(h) # NULL /\ Backward(h) # NULL
             /\ \A i \in DOMAIN Forward(h) :
                  Forward(h)[i] = Backward(h)[Len(Forward(h)) + 1 - i]
             /\ IsEmpty(h) <=> Forward(h) = <<>>
             /\ Members(h) = Range(q[h])
  <2>1. /\ q[h] \in Orders /\ Forward(h) = q[h] /\ Backward(h) = Reverse(q[h])
        /\ Members(h) = Range(q[h])
    <3>1. q[h] \in Orders /\ b[h] = q[h]
      BY <1>3
    <3>2. /\ Forward(h) = q[h] /\ Backward(h) = Reverse(b[h])
          /\ Members(h) = Range(q[h]) \cup Range(b[h])
      BY <1>2, SeenNow
    <3>3. QED
      BY <3>1, <3>2
  <2>2. /\ Reverse(q[h]) \in Orders /\ Len(q[h]) \in Nat
        /\ DOMAIN q[h] = 1..Len(q[h])
        /\ \A i \in 1..Len(q[h]) :
             Reverse(q[h])[i] = q[h][Len(q[h]) + 1 - i]
    BY <2>1, ReverseOrder, OrderIs
  <2>3. Forward(h) # NULL /\ Backward(h) # NULL
    BY <2>1, <2>2, NodesAssumption DEF Orders
  <2>4. ASSUME NEW i \in 1..Len(q[h])
        PROVE  q[h][i] = Reverse(q[h])[Len(q[h]) + 1 - i]
    <3>1. /\ Len(q[h]) + 1 - i \in 1..Len(q[h])
          /\ Len(q[h]) + 1 - (Len(q[h]) + 1 - i) = i
      BY <2>2
    <3>2. QED
      BY <2>2, <3>1
  <2>5. IsEmpty(h) <=> Forward(h) = <<>>
    BY <1>2, <1>3, <2>1, EmptyIs DEF Shape
  <2>6. QED
    BY <2>1, <2>2, <2>3, <2>4, <2>5
<1>5. \A h \in Heads : \A g \in Heads \ {h} : Members(g) \cap Members(h) = {}
  BY <1>2, <1>4 DEF Shape, Apart
<1>6. pc = "idle" => \A i \in Free : next[i] \in Nodes => IsEmpty(i)
  BY <1>2, SeenNow DEF Shape, LooseEmpty
<1>7. QED
  BY <1>4, <1>5, <1>6 DEF RingsClosed

\* While an item is being linked the backward direction has it first.
LEMMA InvBackward == ListInv => BackwardFirst
<1>1. SUFFICES ASSUME ListInv PROVE BackwardFirst
  OBVIOUS
<1>2. PICK q, b \in [Heads -> Orders] : Shape(q, b)
  BY <1>1 DEF ListInv
<1>3. ASSUME NEW g \in Heads
      PROVE  /\ Forward(g) # NULL /\ Backward(g) # NULL
             /\ Range(Forward(g)) = Range(q[g])
             /\ Range(Backward(g)) = Range(b[g])
  <2>1. /\ q[g] \in Orders /\ b[g] \in Orders
        /\ Forward(g) = q[g] /\ Backward(g) = Reverse(b[g])
    BY <1>2, SeenNow
  <2>2. Reverse(b[g]) \in Orders /\ Range(Reverse(b[g])) = Range(b[g])
    BY <2>1, ReverseOrder
  <2>3. QED
    BY <2>1, <2>2, NodesAssumption DEF Orders
<1>4. ASSUME pc \in {"link_item", "link_backward", "link_forward"},
             NEW g \in Heads
      PROVE  item \notin Range(q[g]) /\ Range(q[g]) \subseteq Range(b[g])
  <2>1. PICK h \in Heads, short, long \in Orders, k \in 1..Cardinality(Items) :
           Change(q, b, h, k, short, long)
    BY <1>2, <1>4 DEF Shape
  <2>2. item \notin Range(short) /\ Range(long) = Range(short) \cup {item}
    BY <2>1, ChangeNodes
  <2>3. /\ q[h] = short /\ b[h] \in {short, long}
        /\ \A f \in Heads \ {h} : q[f] = b[f] /\ Range(q[f]) \cap Range(long) = {}
    BY <1>4, <2>1 DEF Change, ShortForward
  <2>4. QED
    BY <2>2, <2>3
<1>5. QED
  BY <1>3, <1>4 DEF BackwardFirst

\* Every step keeps the invariant, and is an insertion or a deletion of the
\* abstract lists, or nothing that somebody sees who follows them forward.
LEMMA ListStep ==
  ASSUME ListInv, [Next]_vars
  PROVE  ListInv' /\ [Lists!Next]_Contents
<1>1. CASE Call
  BY <1>1, CallList
<1>2. CASE LinkItem
  BY <1>2, LinkItemList
<1>3. CASE LinkBackward
  BY <1>3, LinkBackwardList
<1>4. CASE LinkForward
  <2>1. /\ ListInv'
        /\ \E h \in Heads : \E k \in 1..(Len(Contents[h]) + 1) :
             Contents' = [Contents EXCEPT ![h] = InsertAt(@, k, item)]
        /\ item \in Items /\ \A h \in Heads : item \notin Range(Contents[h])
    BY <1>4, LinkForwardList
  <2>2. PICK h \in Heads : \E k \in 1..(Len(Contents[h]) + 1) :
          Contents' = [Contents EXCEPT ![h] = InsertAt(@, k, item)]
    BY <2>1
  <2>3. PICK k \in 1..(Len(Contents[h]) + 1) :
          Contents' = [Contents EXCEPT ![h] = InsertAt(@, k, item)]
    BY <2>2
  <2>4. Lists!Insert(h, k, item)
    <3>1. item \notin Lists!Linked
      BY <2>1 DEF Lists!Linked, Lists!Range, Range
    <3>2. Contents' = [Contents EXCEPT ![h] = Lists!InsertAt(@, k, item)]
      BY <2>3 DEF Lists!InsertAt, InsertAt
    <3>3. QED
      BY <3>1, <3>2 DEF Lists!Insert
  <2>5. QED
    BY <2>1, <2>4 DEF Lists!Next
<1>5. CASE UnlinkBackward
  BY <1>5, UnlinkBackwardList
<1>6. CASE UnlinkForward
  <2>1. /\ ListInv'
        /\ \E h \in Heads : \E k \in 1..Len(Contents[h]) :
              /\ Contents[h][k] = item
              /\ Contents' = [Contents EXCEPT ![h] = RemoveAt(@, k)]
    BY <1>6, UnlinkForwardList
  <2>2. PICK h \in Heads : \E k \in 1..Len(Contents[h]) :
          Contents' = [Contents EXCEPT ![h] = RemoveAt(@, k)]
    BY <2>1
  <2>3. PICK k \in 1..Len(Contents[h]) :
          Contents' = [Contents EXCEPT ![h] = RemoveAt(@, k)]
    BY <2>2
  <2>4. Lists!Delete(h, k)
    BY <2>3 DEF Lists!Delete, Lists!RemoveAt, RemoveAt
  <2>5. QED
    BY <2>1, <2>4 DEF Lists!Next
<1>7. CASE Reset
  BY <1>7, ResetList
<1>8. CASE UNCHANGED vars
  <2>1. /\ prev' = prev /\ next' = next /\ pc' = pc
        /\ item' = item /\ pred' = pred /\ succ' = succ
    BY <1>8 DEF vars
  <2>2. TypeOK'
    BY <2>1 DEF ListInv, TypeOK
  <2>3. PICK q, b \in [Heads -> Orders] : Shape(q, b)
    BY DEF ListInv
  <2>4. Shape(q, b)'
    BY <2>1, <2>3 DEF Shape, Rings, Apart, LooseEmpty, Loose, IsEmpty, Change
  <2>5. Contents' = Contents
    BY <2>1 DEF Contents, Forward
  <2>6. QED
    BY <2>2, <2>3, <2>4, <2>5 DEF ListInv
<1>9. QED
  BY <1>1, <1>2, <1>3, <1>4, <1>5, <1>6, <1>7, <1>8 DEF Next, Store

\* The abstract lists begin empty.
LEMMA InitAbstract == Init => Lists!Init
<1>1. SUFFICES ASSUME Init PROVE Contents = [h \in Heads |-> <<>>]
  BY DEF Lists!Init
<1>2. <<>> \in Orders
  BY DEF Orders, IsInjective
<1>3. ASSUME NEW h \in Heads PROVE Walk(next, h) = <<>>
  <2>1. next[h] = h
    BY <1>1 DEF Init, Nodes
  <2>2. Leads(next, h, <<>>)
    BY <2>1 DEF Leads, NodeAt
  <2>3. QED
    BY <1>2, <2>2, WalkIs
<1>4. QED
  BY <1>3 DEF Contents, Forward

\* The invariant of the lists, without loops over them.
THEOREM ListInvariant == Spec => []ListInv
<1>1. ListInv /\ [Next]_vars => ListInv'
  BY ListStep
<1>2. QED
  BY InitList, <1>1, PTL DEF Spec

-----------------------------------------------------------------------------
(* The inductive invariant of the loops.                                   *)

\* What is left of the list ends like the list the loop began with.
Suffix(rest, list, m) ==
  /\ Len(list) - m <= Len(rest)
  /\ \A j \in 1..(Len(list) - m) :
       rest[Len(rest) + 1 - j] = list[Len(list) + 1 - j]

\* The items met are the first of the list; where the next one is.
MetInv ==
  /\ head \in Heads /\ whole \in Orders /\ kept \in Orders
  /\ met \in Seq(Items) /\ Len(met) <= Len(whole)
  /\ \A i \in 1..Len(met) : met[i] = whole[i]
  /\ stage = "over" => Len(met) = Len(whole)

\* A body changes the list only by taking out the item it is at, and kept tells
\* what is left then.
BodyInv ==
  /\ \/ pc = "idle"
     \/ /\ stage = "body" /\ loop \in {"safe", "destroy"} /\ item = curr
        /\ pc \in {"unlink_backward", "unlink_forward", "reset"}
  /\ pc \in {"idle", "reset"} => Forward(head) = kept
  /\ pc \in {"unlink_backward", "unlink_forward"} =>
       \E k \in 1..Len(Forward(head)) : Spliced(kept, k, item, Forward(head))

\* Where the loop variable is in the list the loop began with.
CurrInv ==
  /\ stage = "test" => curr = NodeAt(head, whole, Len(met) + 1)
  /\ stage \in {"body", "advance"} => Len(met) >= 1 /\ curr = whole[Len(met)]

EachInv ==
  /\ CurrInv
  /\ whole = IF loop = "reverse" THEN Reverse(kept) ELSE kept

\* list_for_each_safe has read one link on, before the body may remove the item.
SafeInv ==
  /\ CurrInv
  /\ Suffix(kept, whole, Len(met))
  /\ stage = "test" /\ Len(met) < Len(whole)
       => saved = NodeAt(head, whole, Len(met) + 2)
  /\ stage \in {"body", "advance"}
       => saved = NodeAt(head, whole, Len(met) + 1)

\* list_destroy has taken out the items it has destroyed, and the one it is at.
DestroyInv ==
  /\ stage \in {"test", "over"} => /\ Len(kept) = Len(whole) - Len(met)
                                   /\ Suffix(kept, whole, Len(met))
  /\ stage = "body" => /\ Len(kept) = Len(whole) - Len(met) - 1
                       /\ Suffix(kept, whole, Len(met) + 1)
                       /\ Len(met) < Len(whole)
                       /\ curr = whole[Len(met) + 1]
                       /\ pc = "idle" => curr \in Free

WalkInv ==
  /\ loop \in {"none", "each", "reverse", "safe", "destroy"}
  /\ stage \in {"test", "body", "advance", "over"}
  /\ loop = "none" => stage = "over"
  /\ loop = "destroy" => stage # "advance"
  /\ loop # "none" => MetInv /\ BodyInv
  /\ loop \in {"each", "reverse"} => EachInv
  /\ loop = "safe" => SafeInv
  /\ loop = "destroy" => DestroyInv

\* The list of a head between two calls, in both directions.
LEMMA IdleRing ==
  ASSUME ListInv, pc = "idle", NEW h \in Heads
  PROVE  /\ Forward(h) \in Orders /\ Backward(h) = Reverse(Forward(h))
         /\ Leads(next, h, Forward(h))
         /\ Leads(prev, h, Reverse(Forward(h)))
         /\ IsEmpty(h) <=> Len(Forward(h)) = 0
<1>1. PICK q \in [Heads -> Orders] :
        /\ Shape(q, q) /\ Contents = q /\ Free = Loose(q, q)
        /\ \A g \in Heads : Leads(next, g, q[g]) /\ LeadsBack(prev, g, q[g])
  BY IdleShape
<1>2. q[h] \in Orders /\ Forward(h) = q[h] /\ Backward(h) = Reverse(q[h])
  BY <1>1, SeenNow
<1>3. Leads(next, h, q[h]) /\ LeadsBack(prev, h, q[h])
  BY <1>1
<1>4. Leads(prev, h, Reverse(q[h]))
  BY <1>2, <1>3, BackwardRing
<1>5. IsEmpty(h) <=> Len(q[h]) = 0
  BY <1>1, EmptyIs DEF Shape
<1>6. QED
  BY <1>2, <1>3, <1>4, <1>5

\* Where the pointers of a ring lead.
LEMMA Follow ==
  ASSUME NEW list \in Orders, NEW h \in Heads, NEW link, Leads(link, h, list)
  PROVE  /\ link[h] = NodeAt(h, list, 1)
         /\ \A j \in 1..Len(list) : link[list[j]] = NodeAt(h, list, j + 1)
<1>1. /\ Len(list) \in Nat /\ NodeAt(h, list, 0) = h
      /\ \A j \in 1..Len(list) : NodeAt(h, list, j) = list[j]
  BY OrderIs, Places
<1>2. 0 \in 0..Len(list) /\ 0 + 1 = 1 /\ 1..Len(list) \subseteq 0..Len(list)
  BY <1>1
<1>3. link[h] = NodeAt(h, list, 0 + 1)
  BY <1>1, <1>2 DEF Leads
<1>4. ASSUME NEW j \in 1..Len(list) PROVE link[list[j]] = NodeAt(h, list, j + 1)
  <2>1. link[NodeAt(h, list, j)] = NodeAt(h, list, j + 1)
    BY <1>2 DEF Leads
  <2>2. QED
    BY <1>1, <2>1
<1>5. QED
  BY <1>2, <1>3, <1>4

\* In a ring the head is met again exactly after the last item.
LEMMA HeadAgain ==
  ASSUME NEW list \in Orders, NEW h \in Heads, NEW m \in Nat, m <= Len(list)
  PROVE  /\ NodeAt(h, list, m + 1) = h => m = Len(list)
         /\ NodeAt(h, list, m + 1) # h =>
              m + 1 \in 1..Len(list) /\ NodeAt(h, list, m + 1) = list[m + 1]
<1>1. /\ Len(list) \in Nat /\ NodeAt(h, list, Len(list) + 1) = h
      /\ \A j \in 1..Len(list) : NodeAt(h, list, j) = list[j] /\ list[j] \in Items
      /\ h \notin Items
  <2>1. Len(list) \in Nat /\ \A j \in 1..Len(list) : list[j] \in Items
    BY OrderIs
  <2>2. /\ NodeAt(h, list, Len(list) + 1) = h
        /\ \A j \in 1..Len(list) : NodeAt(h, list, j) = list[j]
    BY Places
  <2>3. QED
    BY <2>1, <2>2, NodesAssumption
<1>2. m = Len(list) \/ m + 1 \in 1..Len(list)
  BY <1>1
<1>3. QED
  BY <1>1, <1>2

\* The whole list is a suffix of itself.
LEMMA SuffixWhole ==
  ASSUME NEW list \in Orders PROVE Suffix(list, list, 0)
BY OrderIs DEF Suffix

\* A shorter suffix.
LEMMA SuffixShorter ==
  ASSUME NEW rest \in Orders, NEW list \in Orders, NEW m \in Nat, m < Len(list),
         Suffix(rest, list, m)
  PROVE  Suffix(rest, list, m + 1)
<1>1. Len(rest) \in Nat /\ Len(list) \in Nat
  BY OrderIs
<1>2. /\ Len(list) - (m + 1) <= Len(rest)
      /\ \A j \in 1..(Len(list) - (m + 1)) : j \in 1..(Len(list) - m)
  BY <1>1 DEF Suffix
<1>3. QED
  BY <1>2 DEF Suffix

\* The next item of the list is still in what is left, and after it comes what
\* came after it.
LEMMA SuffixNext ==
  ASSUME NEW rest \in Orders, NEW list \in Orders, NEW m \in Nat, m < Len(list),
         Suffix(rest, list, m), NEW h \in Heads, NEW link, Leads(link, h, rest)
  PROVE  link[list[m + 1]] = NodeAt(h, list, m + 2)
<1> DEFINE r == Len(rest)
           n == Len(list)
           p == r + 1 - (n - m)
<1>1. r \in Nat /\ n \in Nat /\ n - m \in 1..(n - m) /\ n - m <= r
  BY OrderIs DEF Suffix
<1>2. p \in 1..r /\ n + 1 - (n - m) = m + 1
  BY <1>1
<1>3. rest[p] = list[m + 1]
  <2>1. rest[r + 1 - (n - m)] = list[n + 1 - (n - m)]
    BY <1>1 DEF Suffix
  <2>2. QED
    BY <1>2, <2>1
<1>4. link[rest[p]] = NodeAt(h, rest, p + 1)
  <2> HIDE DEF p
  <2>1. QED
    BY <1>2, Follow
<1>5. NodeAt(h, rest, p + 1) = NodeAt(h, list, m + 2)
  <2>1. CASE n - m = 1
    BY <1>1, <2>1 DEF NodeAt
  <2>2. CASE n - m > 1
    <3>1. /\ n - m - 1 \in 1..(n - m) /\ r + 1 - (n - m - 1) = p + 1
          /\ n + 1 - (n - m - 1) = m + 2
          /\ p + 1 \in 1..r /\ m + 2 \in 1..n
      BY <1>1, <2>2
    <3>2. rest[r + 1 - (n - m - 1)] = list[n + 1 - (n - m - 1)]
      BY <3>1 DEF Suffix
    <3>3. rest[p + 1] = list[m + 2]
      BY <3>1, <3>2
    <3>4. QED
      BY <3>1, <3>3 DEF NodeAt
  <2>3. QED
    BY <1>1, <2>1, <2>2
<1>6. QED
  BY <1>3, <1>4, <1>5

\* Taking out an item that has been met leaves the suffix.
LEMMA SuffixRemove ==
  ASSUME NEW rest \in Orders, NEW list \in Orders, NEW m \in Nat, m <= Len(list),
         m >= 1, Suffix(rest, list, m),
         NEW k \in 1..Len(rest), rest[k] = list[m]
  PROVE  /\ RemoveAt(rest, k) \in Orders
         /\ Spliced(RemoveAt(rest, k), k, rest[k], rest)
         /\ Suffix(RemoveAt(rest, k), list, m)
<1> DEFINE s == RemoveAt(rest, k)
           r == Len(rest)
           n == Len(list)
<1>1. /\ r \in Nat /\ n \in Nat /\ n - m <= r
      /\ \A i, j \in 1..n : list[i] = list[j] => i = j
      /\ \A j \in 1..(n - m) : rest[r + 1 - j] = list[n + 1 - j]
  BY OrderIs DEF Suffix
<1>2. s \in Orders /\ Spliced(s, k, rest[k], rest)
  BY Shorter
<1> HIDE DEF s
<1>3. /\ Len(s) = r - 1 /\ \A i \in k..(r - 1) : s[i] = rest[i + 1]
  BY <1>1, <1>2, OrderIs DEF Spliced
<1>4. k <= r - (n - m)
  <2>1. SUFFICES ASSUME k > r - (n - m) PROVE FALSE
    BY <1>1
  <2>2. r + 1 - k \in 1..(n - m) /\ r + 1 - (r + 1 - k) = k
    BY <1>1, <2>1
  <2>3. rest[r + 1 - (r + 1 - k)] = list[n + 1 - (r + 1 - k)]
    BY <1>1, <2>2
  <2>4. list[m] = list[n + 1 - (r + 1 - k)]
    BY <2>2, <2>3
  <2>5. m \in 1..n /\ n + 1 - (r + 1 - k) \in 1..n
        /\ m # n + 1 - (r + 1 - k)
    BY <1>1, <2>2
  <2>6. QED
    BY <1>1, <2>4, <2>5
<1>5. ASSUME NEW j \in 1..(n - m) PROVE s[(r - 1) + 1 - j] = list[n + 1 - j]
  <2>1. r - j \in k..(r - 1) /\ (r - j) + 1 = r + 1 - j /\ (r - 1) + 1 - j = r - j
    BY <1>1, <1>4
  <2>2. s[r - j] = rest[(r - j) + 1]
    BY <1>3, <2>1
  <2>3. QED
    BY <1>1, <2>1, <2>2
<1>6. n - m <= r - 1
  BY <1>1, <1>4
<1>7. Suffix(s, list, m)
  BY <1>3, <1>5, <1>6 DEF Suffix
<1>8. QED
  BY <1>2, <1>7 DEF s

\* The first item taken from a suffix leaves the next suffix.
LEMMA SuffixTail ==
  ASSUME NEW rest \in Orders, NEW list \in Orders, NEW m \in Nat, m < Len(list),
         Suffix(rest, list, m), Len(rest) = Len(list) - m
  PROVE  /\ Tail(rest) \in Orders
         /\ Spliced(Tail(rest), 1, rest[1], rest)
         /\ rest[1] = list[m + 1]
         /\ Suffix(Tail(rest), list, m + 1)
         /\ Len(Tail(rest)) = Len(list) - m - 1
<1> DEFINE t == Tail(rest)
           r == Len(rest)
           n == Len(list)
<1>1. /\ r \in Nat /\ n \in Nat /\ n - m = r /\ r > 0
      /\ \A j \in 1..(n - m) : rest[r + 1 - j] = list[n + 1 - j]
      /\ rest \in Seq(Items) /\ IsInjective(rest)
  <2>1. r \in Nat /\ n \in Nat
    BY OrderIs
  <2>2. rest \in Seq(Items) /\ IsInjective(rest)
    BY DEF Orders
  <2>3. QED
    BY <2>1, <2>2 DEF Suffix
<1>2. rest # <<>>
  BY <1>1
<1>3. t \in Seq(Items) /\ Len(t) = r - 1 /\ IsInjective(t)
  BY <1>1, <1>2, TakeFirst
<1>4. \A i \in 1..(r - 1) : t[i] = rest[i + 1]
  BY <1>1, <1>2, HeadTailProperties
<1> HIDE DEF t
<1>5. Spliced(t, 1, rest[1], rest)
  BY <1>1, <1>3, <1>4 DEF Spliced
<1>6. rest[1] = list[m + 1]
  <2>1. r \in 1..(n - m) /\ r + 1 - r = 1 /\ n + 1 - r = m + 1
    BY <1>1
  <2>2. rest[r + 1 - r] = list[n + 1 - r]
    BY <1>1, <2>1
  <2>3. QED
    BY <2>1, <2>2
<1>7. ASSUME NEW j \in 1..(n - (m + 1)) PROVE t[(r - 1) + 1 - j] = list[n + 1 - j]
  <2>1. /\ j \in 1..(n - m) /\ r - j \in 1..(r - 1) /\ (r - j) + 1 = r + 1 - j
        /\ (r - 1) + 1 - j = r - j
    BY <1>1
  <2>2. t[r - j] = rest[(r - j) + 1]
    BY <1>4, <2>1
  <2>3. QED
    BY <1>1, <2>1, <2>2
<1>8. n - (m + 1) <= r - 1
  BY <1>1
<1>9. Suffix(t, list, m + 1)
  BY <1>3, <1>7, <1>8 DEF Suffix
<1>10. QED
  BY <1>1, <1>3, <1>5, <1>6, <1>9 DEF t, Orders

-----------------------------------------------------------------------------
(* Every step of a loop keeps both invariants.                             *)

\* What the lists make of the steps of the loops: those that change them are
\* calls and stores, and list_destroy makes memory unusable that is in no list.
LEMMA WalkListStep ==
  ASSUME ListInv, WalkInv, [WalkNext]_allVars
  PROVE  ListInv' /\ [Lists!Next]_Contents
<1>1. CASE UNCHANGED vars
  BY <1>1, ListStep
<1>2. CASE Call
  BY <1>2, ListStep DEF Next
<1>3. CASE Store
  BY <1>3, ListStep DEF Next
<1>4. CASE RemoveCurrent
  <2>1. loop = "safe" /\ stage = "body" /\ ListRemove(curr)
    BY <1>4 DEF RemoveCurrent
  <2>2. curr \in Items
    <3>1. MetInv /\ CurrInv
      BY <2>1 DEF WalkInv, SafeInv
    <3>2. /\ whole \in Orders /\ Len(met) \in Nat /\ Len(met) <= Len(whole)
          /\ Len(met) >= 1 /\ curr = whole[Len(met)]
      BY <2>1, <3>1 DEF MetInv, CurrInv
    <3>3. Len(whole) \in Nat /\ \A i \in 1..Len(whole) : whole[i] \in Items
      BY <3>2, OrderIs
    <3>4. Len(met) \in 1..Len(whole)
      BY <3>2, <3>3
    <3>5. QED
      BY <3>2, <3>3, <3>4
  <2>3. Call
    BY <2>1, <2>2 DEF Call
  <2>4. QED
    BY <2>3, ListStep DEF Next
<1>5. CASE DestroyRemove
  <2>1. ListRemoveAfter(head) /\ head \in Heads
    BY <1>5 DEF DestroyRemove, WalkInv, MetInv
  <2>2. Call
    BY <2>1 DEF Call
  <2>3. QED
    BY <2>2, ListStep DEF Next
<1>6. CASE DestroyItem
  <2>1. /\ pc = "idle" /\ UNCHANGED <<pc, call>>
        /\ prev' = [prev EXCEPT ![curr] = Wild]
        /\ next' = [next EXCEPT ![curr] = Wild]
    BY <1>6 DEF DestroyItem
  <2>2. curr \in Free
    BY <1>6 DEF DestroyItem, WalkInv, DestroyInv
  <2>3. QED
    BY <2>1, <2>2, FreeTouched
<1>7. \/ UNCHANGED vars \/ Call \/ Store \/ RemoveCurrent \/ DestroyRemove
      \/ DestroyItem
  BY DEF WalkNext, Step, allVars, Begin, Visit, LeaveBody, Advance, Ends, Found,
         DestroyEnds, Leave
<1>8. QED
  BY <1>1, <1>2, <1>3, <1>4, <1>5, <1>6, <1>7

\* A loop that is not under way promises nothing.
LEMMA OverKept == loop' = "none" /\ stage' = "over" => WalkInv'
BY DEF WalkInv

\* The loop begins with the first item of its direction.
LEMMA BeginKeeps ==
  ASSUME ListInv, WalkInv, NEW h \in Heads,
         NEW kind \in {"each", "reverse", "safe", "destroy"}, Begin(kind, h)
  PROVE  WalkInv'
<1>1. /\ pc = "idle" /\ loop' = kind /\ stage' = "test" /\ head' = h
      /\ met' = <<>> /\ kept' = Forward(h)
      /\ prev' = prev /\ next' = next /\ pc' = pc
  BY DEF Begin, vars
<1>2. /\ curr' = (IF kind = "reverse" THEN prev[h] ELSE next[h])
      /\ whole' = (IF kind = "reverse" THEN Backward(h) ELSE Forward(h))
      /\ saved' = (IF kind = "safe" THEN next[next[h]] ELSE NULL)
  BY DEF Begin
<1>3. PICK q \in Orders : q = Forward(h)
  BY <1>1, IdleRing
<1>4. /\ Backward(h) = Reverse(q) /\ Leads(next, h, q)
      /\ Leads(prev, h, Reverse(q))
  BY <1>1, <1>3, IdleRing
<1>5. Reverse(q) \in Orders
  BY <1>3, ReverseOrder
<1>6. PICK w \in Orders : w = whole'
  BY <1>2, <1>3, <1>4, <1>5
<1>7. curr' = NodeAt(h, w, 1)
  <2>1. next[h] = NodeAt(h, q, 1) /\ prev[h] = NodeAt(h, Reverse(q), 1)
    BY <1>3, <1>4, <1>5, Follow
  <2>2. QED
    BY <1>2, <1>3, <1>4, <1>6, <2>1
<1>8. Len(<<>>) = 0 /\ <<>> \in Seq(Items) /\ Len(w) \in Nat
  BY OrderIs
<1>9. MetInv'
  BY <1>1, <1>3, <1>6, <1>8 DEF MetInv
<1>10. Forward(h)' = q
  BY <1>1, <1>3 DEF Forward
<1>11. BodyInv'
  BY <1>1, <1>3, <1>10 DEF BodyInv
<1>12. CurrInv'
  BY <1>1, <1>6, <1>7, <1>8 DEF CurrInv
<1>13. kind \in {"each", "reverse"} => EachInv'
  BY <1>1, <1>2, <1>3, <1>4, <1>12 DEF EachInv
<1>14. kind # "reverse" => w = q /\ kept' = q
  BY <1>1, <1>2, <1>3, <1>6
<1>15. Suffix(q, q, 0)
  BY SuffixWhole
<1>16. kind = "safe" => SafeInv'
  <2>1. SUFFICES ASSUME kind = "safe" PROVE SafeInv'
    OBVIOUS
  <2>2. Suffix(kept', whole', Len(met'))
    BY <1>1, <1>6, <1>8, <1>14, <1>15, <2>1
  <2>3. ASSUME 0 < Len(w) PROVE saved' = NodeAt(h, w, 2)
    <3>1. 1 \in 1..Len(w) /\ NodeAt(h, w, 1) = w[1] /\ 1 + 1 = 2
      BY <1>8, <2>3 DEF NodeAt
    <3>2. Leads(next, h, w)
      BY <1>4, <1>14, <2>1
    <3>3. next[h] = w[1] /\ next[w[1]] = NodeAt(h, w, 1 + 1)
      BY <3>1, <3>2, Follow
    <3>4. QED
      BY <1>2, <2>1, <3>1, <3>3
  <2>4. stage' = "test" /\ Len(met') = 0 /\ 0 + 2 = 2
    BY <1>1, <1>8
  <2>5. QED
    BY <1>1, <1>6, <1>12, <2>2, <2>3, <2>4 DEF SafeInv
<1>17. kind = "destroy" => DestroyInv'
  <2>1. SUFFICES ASSUME kind = "destroy" PROVE DestroyInv'
    OBVIOUS
  <2>2. Suffix(kept', whole', Len(met'))
    BY <1>1, <1>6, <1>8, <1>14, <1>15, <2>1
  <2>3. Len(kept') = Len(whole') - Len(met')
    BY <1>1, <1>6, <1>8, <1>14, <2>1
  <2>4. QED
    BY <1>1, <2>2, <2>3 DEF DestroyInv
<1>18. QED
  BY <1>1, <1>9, <1>11, <1>13, <1>16, <1>17 DEF WalkInv

\* The body is entered with the next item.
LEMMA VisitKeeps ==
  ASSUME ListInv, WalkInv, Visit
  PROVE  WalkInv'
<1>1. /\ stage = "test" /\ loop # "destroy" /\ curr # head
      /\ met' = Append(met, curr) /\ stage' = "body"
      /\ loop' = loop /\ head' = head /\ whole' = whole
      /\ curr' = curr /\ saved' = saved /\ kept' = kept
      /\ pc' = pc /\ item' = item /\ prev' = prev /\ next' = next
  BY DEF Visit, vars, fixed
<1>2. loop \in {"each", "reverse", "safe"} /\ MetInv /\ BodyInv /\ CurrInv
  BY <1>1 DEF WalkInv, EachInv, SafeInv
<1>3. /\ head \in Heads /\ whole \in Orders /\ kept \in Orders
      /\ met \in Seq(Items) /\ Len(met) \in Nat /\ Len(met) <= Len(whole)
      /\ \A i \in 1..Len(met) : met[i] = whole[i]
      /\ curr = NodeAt(head, whole, Len(met) + 1)
      /\ Len(whole) \in Nat
  BY <1>1, <1>2, OrderIs DEF MetInv, CurrInv
<1>4. PICK m \in Nat : m = Len(met) + 1
  BY <1>3
<1>5. m \in 1..Len(whole) /\ curr = whole[m] /\ curr \in Items
  <2>1. Len(met) + 1 \in 1..Len(whole) /\ curr = whole[Len(met) + 1]
    BY <1>1, <1>3, HeadAgain
  <2>2. \A i \in 1..Len(whole) : whole[i] \in Items
    BY <1>3, OrderIs
  <2>3. QED
    BY <1>4, <2>1, <2>2
<1>6. /\ met' \in Seq(Items) /\ Len(met') = m
      /\ \A i \in 1..m : met'[i] = whole[i]
  <2>1. PICK n \in Seq(Items) : n = met'
    BY <1>1, <1>3, <1>5
  <2>2. /\ Len(n) = Len(met) + 1 /\ n[Len(met) + 1] = curr
        /\ \A i \in 1..Len(met) : n[i] = met[i]
    BY <1>1, <1>3, <1>5, <2>1
  <2>3. \A i \in 1..m : n[i] = whole[i]
    BY <1>3, <1>4, <1>5, <2>2
  <2>4. QED
    BY <1>4, <2>1, <2>2, <2>3
<1>7. MetInv'
  BY <1>1, <1>3, <1>5, <1>6 DEF MetInv
<1>8. BodyInv'
  BY <1>1, <1>2 DEF BodyInv, Forward
<1>9. CurrInv'
  BY <1>1, <1>5, <1>6 DEF CurrInv
<1>10. loop \in {"each", "reverse"} => EachInv'
  BY <1>1, <1>9 DEF EachInv, WalkInv
<1>11. loop = "safe" => SafeInv'
  <2>1. SUFFICES ASSUME loop = "safe" PROVE SafeInv'
    OBVIOUS
  <2>2. /\ Suffix(kept, whole, Len(met)) /\ Len(met) < Len(whole)
        /\ saved = NodeAt(head, whole, Len(met) + 2)
    BY <1>1, <1>3, <1>4, <1>5, <2>1 DEF WalkInv, SafeInv
  <2>3. Suffix(kept, whole, m)
    BY <1>3, <1>4, <2>2, SuffixShorter
  <2>4. m + 1 = Len(met) + 2
    BY <1>3, <1>4
  <2>5. saved = NodeAt(head, whole, m + 1)
    BY <2>2, <2>4
  <2>6. QED
    BY <1>1, <1>6, <1>9, <2>3, <2>5 DEF SafeInv
<1>12. QED
  BY <1>1, <1>2, <1>7, <1>8, <1>10, <1>11 DEF WalkInv

\* What holds while a loop that has a body goes on, in a form that the lemmas
\* about its steps share.
LEMMA Under ==
  ASSUME WalkInv, loop # "none"
  PROVE  /\ head \in Heads /\ whole \in Orders /\ kept \in Orders
         /\ met \in Seq(Items) /\ Len(met) \in Nat /\ Len(met) <= Len(whole)
         /\ \A i \in 1..Len(met) : met[i] = whole[i]
         /\ Len(whole) \in Nat /\ MetInv /\ BodyInv
         /\ \A i \in 1..Len(whole) : whole[i] \in Items
<1>1. MetInv /\ BodyInv
  BY DEF WalkInv
<1>2. /\ head \in Heads /\ whole \in Orders /\ kept \in Orders
      /\ met \in Seq(Items) /\ Len(met) \in Nat /\ Len(met) <= Len(whole)
      /\ \A i \in 1..Len(met) : met[i] = whole[i]
  BY <1>1 DEF MetInv
<1>3. Len(whole) \in Nat /\ \A i \in 1..Len(whole) : whole[i] \in Items
  BY <1>2, OrderIs
<1>4. QED
  BY <1>1, <1>2, <1>3

\* The body is left.
LEMMA LeaveBodyKeeps ==
  ASSUME WalkInv, LeaveBody
  PROVE  WalkInv'
<1>1. /\ stage = "body" /\ loop # "destroy" /\ pc = "idle"
      /\ stage' = "advance"
      /\ loop' = loop /\ head' = head /\ whole' = whole
      /\ curr' = curr /\ saved' = saved /\ met' = met /\ kept' = kept
      /\ pc' = pc /\ item' = item /\ prev' = prev /\ next' = next
  BY DEF LeaveBody, vars, fixed
<1>2. loop \in {"each", "reverse", "safe"} /\ MetInv /\ BodyInv /\ CurrInv
  BY <1>1 DEF WalkInv, EachInv, SafeInv
<1>3. MetInv' /\ BodyInv' /\ CurrInv'
  BY <1>1, <1>2 DEF MetInv, BodyInv, CurrInv, Forward
<1>4. loop \in {"each", "reverse"} => EachInv'
  BY <1>1, <1>3 DEF WalkInv, EachInv
<1>5. loop = "safe" => SafeInv'
  BY <1>1, <1>3 DEF WalkInv, SafeInv
<1>6. QED
  BY <1>1, <1>2, <1>3, <1>4, <1>5 DEF WalkInv

\* The body of list_for_each_safe begins to take out the item it is at: what is
\* kept of the list is what it will hold.
LEMMA RemoveCurrentKeeps ==
  ASSUME ListInv, WalkInv, RemoveCurrent
  PROVE  WalkInv'
<1>1. /\ stage = "body" /\ loop = "safe" /\ pc = "idle"
      /\ pc' = "unlink_backward" /\ item' = curr
      /\ prev' = prev /\ next' = next
      /\ loop' = loop /\ head' = head /\ whole' = whole
      /\ stage' = stage /\ curr' = curr /\ saved' = saved /\ met' = met
  BY DEF RemoveCurrent, ListRemove, RemoveItem, fixed
<1>2. PICK k \in DOMAIN kept : kept[k] = curr /\ kept' = RemoveAt(kept, k)
  BY DEF RemoveCurrent
<1>3. /\ head \in Heads /\ whole \in Orders /\ kept \in Orders
      /\ Len(met) \in Nat /\ Len(met) <= Len(whole) /\ MetInv /\ BodyInv
  BY <1>1, Under
<1>4. /\ SafeInv /\ CurrInv
  BY <1>1 DEF WalkInv, SafeInv
<1>5. /\ Len(met) >= 1 /\ curr = whole[Len(met)]
      /\ Suffix(kept, whole, Len(met))
  BY <1>1, <1>4 DEF SafeInv, CurrInv
<1>6. k \in 1..Len(kept)
  BY <1>2, <1>3, OrderIs
<1>7. /\ kept' \in Orders /\ Spliced(kept', k, curr, kept)
      /\ Suffix(kept', whole, Len(met))
  <2>1. kept[k] = whole[Len(met)]
    BY <1>2, <1>5
  <2>2. /\ RemoveAt(kept, k) \in Orders
        /\ Spliced(RemoveAt(kept, k), k, kept[k], kept)
        /\ Suffix(RemoveAt(kept, k), whole, Len(met))
    BY <1>3, <1>5, <1>6, <2>1, SuffixRemove
  <2>3. QED
    BY <1>2, <2>2
<1>8. Forward(head) = kept
  BY <1>1, <1>3 DEF BodyInv
<1>9. Forward(head)' = kept
  BY <1>1, <1>8 DEF Forward
<1>10. MetInv'
  BY <1>1, <1>3, <1>7 DEF MetInv
<1>11. BodyInv'
  BY <1>1, <1>6, <1>7, <1>9 DEF BodyInv
<1>12. SafeInv'
  BY <1>1, <1>4, <1>7 DEF SafeInv, CurrInv
<1>13. QED
  BY <1>1, <1>10, <1>11, <1>12 DEF WalkInv

\* The loop goes on to the next item of its direction.
LEMMA AdvanceKeeps ==
  ASSUME ListInv, WalkInv, Advance
  PROVE  WalkInv'
<1>1. /\ stage = "advance" /\ stage' = "test"
      /\ curr' = (IF loop = "safe" THEN saved ELSE Link[curr])
      /\ saved' = (IF loop = "safe" THEN next[saved] ELSE saved)
      /\ loop' = loop /\ head' = head /\ whole' = whole
      /\ met' = met /\ kept' = kept
      /\ pc' = pc /\ item' = item /\ prev' = prev /\ next' = next
  BY DEF Advance, Following, vars, fixed
<1>2. loop \in {"each", "reverse", "safe"} /\ CurrInv
  BY <1>1 DEF WalkInv, EachInv, SafeInv
<1>3. /\ head \in Heads /\ whole \in Orders /\ kept \in Orders
      /\ Len(met) \in Nat /\ Len(met) <= Len(whole) /\ Len(whole) \in Nat
      /\ MetInv /\ BodyInv
  BY <1>2, Under
<1>4. /\ pc = "idle" /\ Forward(head) = kept
      /\ Len(met) >= 1 /\ curr = whole[Len(met)]
  BY <1>1, <1>2, <1>3 DEF BodyInv, CurrInv
<1>5. PICK m \in Nat : m = Len(met)
  BY <1>3
<1>6. /\ Leads(next, head, kept) /\ Leads(prev, head, Reverse(kept))
  BY <1>3, <1>4, IdleRing
<1>7. m \in 1..Len(whole)
  BY <1>3, <1>4, <1>5
<1>8. MetInv' /\ BodyInv'
  BY <1>1, <1>3, <1>4 DEF MetInv, BodyInv, Forward
<1>9. CASE loop \in {"each", "reverse"}
  <2>1. whole = IF loop = "reverse" THEN Reverse(kept) ELSE kept
    BY <1>9 DEF WalkInv, EachInv
  <2>2. Leads(Link, head, whole)
    BY <1>6, <2>1 DEF Link
  <2>3. Link[whole[m]] = NodeAt(head, whole, m + 1)
    BY <1>3, <1>7, <2>2, Follow
  <2>4. CurrInv'
    BY <1>1, <1>4, <1>5, <1>9, <2>3 DEF CurrInv
  <2>5. EachInv'
    BY <1>1, <2>1, <2>4 DEF EachInv
  <2>6. QED
    BY <1>1, <1>8, <1>9, <2>5 DEF WalkInv
<1>10. CASE loop = "safe"
  <2>1. /\ Suffix(kept, whole, m) /\ saved = NodeAt(head, whole, m + 1)
    BY <1>1, <1>5, <1>10 DEF WalkInv, SafeInv
  <2>2. CurrInv'
    BY <1>1, <1>5, <1>10, <2>1 DEF CurrInv
  <2>3. ASSUME m < Len(whole) PROVE next[saved] = NodeAt(head, whole, m + 2)
    <3>1. NodeAt(head, whole, m + 1) = whole[m + 1]
      BY <1>3, <2>3 DEF NodeAt
    <3>2. next[whole[m + 1]] = NodeAt(head, whole, m + 2)
      BY <1>3, <1>6, <2>1, <2>3, SuffixNext
    <3>3. QED
      BY <2>1, <3>1, <3>2
  <2>4. SafeInv'
    BY <1>1, <1>5, <1>10, <2>1, <2>2, <2>3 DEF SafeInv
  <2>5. QED
    BY <1>1, <1>8, <1>10, <2>4 DEF WalkInv
<1>11. QED
  BY <1>2, <1>9, <1>10

\* The head is met again: every item has been met.
LEMMA EndsKeeps ==
  ASSUME WalkInv, Ends
  PROVE  WalkInv'
<1>1. /\ stage = "test" /\ loop # "destroy" /\ curr = head /\ stage' = "over"
      /\ loop' = loop /\ head' = head /\ whole' = whole
      /\ curr' = curr /\ saved' = saved /\ met' = met /\ kept' = kept
      /\ pc' = pc /\ item' = item /\ prev' = prev /\ next' = next
  BY DEF Ends, vars, fixed
<1>2. loop \in {"each", "reverse", "safe"} /\ CurrInv
  BY <1>1 DEF WalkInv, EachInv, SafeInv
<1>3. /\ head \in Heads /\ whole \in Orders
      /\ Len(met) \in Nat /\ Len(met) <= Len(whole) /\ MetInv /\ BodyInv
  BY <1>2, Under
<1>4. Len(met) = Len(whole)
  <2>1. NodeAt(head, whole, Len(met) + 1) = head
    BY <1>1, <1>2 DEF CurrInv
  <2>2. QED
    BY <1>3, <2>1, HeadAgain
<1>5. MetInv' /\ BodyInv' /\ CurrInv'
  BY <1>1, <1>3, <1>4 DEF MetInv, BodyInv, CurrInv, Forward
<1>6. loop \in {"each", "reverse"} => EachInv'
  BY <1>1, <1>5 DEF WalkInv, EachInv
<1>7. loop = "safe" => SafeInv'
  BY <1>1, <1>5 DEF WalkInv, SafeInv
<1>8. QED
  BY <1>1, <1>2, <1>5, <1>6, <1>7 DEF WalkInv

\* list_find returns, or the caller of a loop goes on.
LEMMA ForgetKeeps ==
  ASSUME WalkInv, Found \/ Leave
  PROVE  WalkInv'
<1>1. loop' = "none" /\ stage' = "over"
  BY DEF Found, Leave, Forget
<1>2. QED
  BY <1>1, OverKept

\* list_destroy begins to take out the first item.
LEMMA DestroyRemoveKeeps ==
  ASSUME ListInv, WalkInv, DestroyRemove
  PROVE  WalkInv'
<1>1. /\ stage = "test" /\ loop = "destroy" /\ pc = "idle" /\ ~ IsEmpty(head)
      /\ pc' = "unlink_backward" /\ item' = next[head]
      /\ prev' = prev /\ next' = next
      /\ curr' = next[head] /\ kept' = Tail(kept) /\ stage' = "body"
      /\ loop' = loop /\ head' = head /\ whole' = whole
      /\ saved' = saved /\ met' = met
  BY DEF DestroyRemove, ListRemoveAfter, RemoveItem, fixed
<1>2. /\ head \in Heads /\ whole \in Orders /\ kept \in Orders
      /\ Len(met) \in Nat /\ Len(met) <= Len(whole) /\ Len(whole) \in Nat
      /\ MetInv /\ BodyInv
  BY <1>1, Under
<1>3. DestroyInv /\ Forward(head) = kept
  BY <1>1, <1>2 DEF WalkInv, BodyInv
<1>4. Len(kept) = Len(whole) - Len(met) /\ Suffix(kept, whole, Len(met))
  BY <1>1, <1>3 DEF DestroyInv
<1>5. Leads(next, head, kept) /\ Len(kept) # 0 /\ Len(kept) \in Nat
  BY <1>1, <1>2, <1>3, IdleRing, OrderIs
<1>6. Len(met) < Len(whole)
  BY <1>2, <1>4, <1>5
<1>7. next[head] = kept[1]
  BY <1>2, <1>5, Follow DEF NodeAt
<1>8. PICK m \in Nat : m = Len(met)
  BY <1>2
<1>9. /\ Tail(kept) \in Orders /\ Spliced(Tail(kept), 1, kept[1], kept)
      /\ kept[1] = whole[m + 1] /\ Suffix(Tail(kept), whole, m + 1)
      /\ Len(Tail(kept)) = Len(whole) - m - 1
  BY <1>2, <1>4, <1>6, <1>8, SuffixTail
<1>10. Forward(head)' = kept
  BY <1>1, <1>3 DEF Forward
<1>11. MetInv'
  BY <1>1, <1>2, <1>9 DEF MetInv
<1>12. 1 \in 1..Len(kept)
  BY <1>5
<1>13. BodyInv'
  BY <1>1, <1>7, <1>9, <1>10, <1>12 DEF BodyInv
<1>14. DestroyInv'
  BY <1>1, <1>6, <1>7, <1>8, <1>9 DEF DestroyInv
<1>15. QED
  BY <1>1, <1>11, <1>13, <1>14 DEF WalkInv

\* The item that has been taken out is destroyed.
LEMMA DestroyItemKeeps ==
  ASSUME ListInv, WalkInv, DestroyItem
  PROVE  WalkInv'
<1>1. /\ stage = "body" /\ loop = "destroy" /\ pc = "idle"
      /\ met' = Append(met, curr) /\ stage' = "test"
      /\ prev' = [prev EXCEPT ![curr] = Wild]
      /\ next' = [next EXCEPT ![curr] = Wild]
      /\ loop' = loop /\ head' = head /\ whole' = whole
      /\ kept' = kept /\ pc' = pc /\ UNCHANGED <<pc, call>>
  BY DEF DestroyItem, fixed
<1>2. /\ head \in Heads /\ whole \in Orders /\ kept \in Orders
      /\ met \in Seq(Items) /\ Len(met) \in Nat /\ Len(met) <= Len(whole)
      /\ \A i \in 1..Len(met) : met[i] = whole[i]
      /\ Len(whole) \in Nat /\ MetInv /\ BodyInv
      /\ \A i \in 1..Len(whole) : whole[i] \in Items
  BY <1>1, Under
<1>3. /\ Len(kept) = Len(whole) - Len(met) - 1
      /\ Suffix(kept, whole, Len(met) + 1)
      /\ Len(met) < Len(whole) /\ curr = whole[Len(met) + 1] /\ curr \in Free
  BY <1>1 DEF WalkInv, DestroyInv
<1>4. PICK m \in Nat : m = Len(met) + 1
  BY <1>2
<1>5. m \in 1..Len(whole) /\ curr = whole[m] /\ curr \in Items
  BY <1>2, <1>3, <1>4
<1>6. /\ met' \in Seq(Items) /\ Len(met') = m
      /\ \A i \in 1..m : met'[i] = whole[i]
  <2>1. PICK n \in Seq(Items) : n = met'
    BY <1>1, <1>2, <1>5
  <2>2. /\ Len(n) = Len(met) + 1 /\ n[Len(met) + 1] = curr
        /\ \A i \in 1..Len(met) : n[i] = met[i]
    BY <1>1, <1>2, <1>5, <2>1
  <2>3. \A i \in 1..m : n[i] = whole[i]
    BY <1>2, <1>4, <1>5, <2>2
  <2>4. QED
    BY <1>4, <2>1, <2>2, <2>3
<1>7. Contents' = Contents
  BY <1>1, <1>3, FreeTouched
<1>8. Forward(head)' = Forward(head)
  <2>1. Contents[head] = Forward(head) /\ (Contents')[head] = Walk(next', head)
    BY <1>2 DEF Contents, Forward
  <2>2. QED
    BY <1>1, <1>7, <2>1 DEF Forward
<1>9. MetInv'
  BY <1>1, <1>2, <1>5, <1>6 DEF MetInv
<1>10. Forward(head)' = kept
  BY <1>1, <1>2, <1>8 DEF BodyInv
<1>11. BodyInv'
  BY <1>1, <1>10 DEF BodyInv
<1>12. Len(kept) = Len(whole) - m /\ Suffix(kept, whole, m)
  BY <1>2, <1>3, <1>4
<1>13. DestroyInv'
  BY <1>1, <1>6, <1>12 DEF DestroyInv
<1>14. QED
  BY <1>1, <1>9, <1>11, <1>13 DEF WalkInv

\* list_destroy ends with an empty list: it has destroyed every item.
LEMMA DestroyEndsKeeps ==
  ASSUME ListInv, WalkInv, DestroyEnds
  PROVE  WalkInv'
<1>1. /\ stage = "test" /\ loop = "destroy" /\ pc = "idle" /\ IsEmpty(head)
      /\ stage' = "over"
      /\ loop' = loop /\ head' = head /\ whole' = whole
      /\ curr' = curr /\ saved' = saved /\ met' = met /\ kept' = kept
      /\ pc' = pc /\ item' = item /\ prev' = prev /\ next' = next
  BY DEF DestroyEnds, vars, fixed
<1>2. /\ head \in Heads /\ whole \in Orders /\ kept \in Orders
      /\ Len(met) \in Nat /\ Len(met) <= Len(whole) /\ Len(whole) \in Nat
      /\ MetInv /\ BodyInv
  BY <1>1, Under
<1>3. DestroyInv /\ Forward(head) = kept
  BY <1>1, <1>2 DEF WalkInv, BodyInv
<1>4. Len(kept) = 0
  BY <1>1, <1>2, <1>3, IdleRing
<1>5. Len(met) = Len(whole)
  BY <1>1, <1>2, <1>3, <1>4 DEF DestroyInv
<1>6. MetInv' /\ BodyInv'
  BY <1>1, <1>2, <1>5 DEF MetInv, BodyInv, Forward
<1>7. DestroyInv'
  BY <1>1, <1>3 DEF DestroyInv
<1>8. QED
  BY <1>1, <1>6, <1>7 DEF WalkInv

\* The store that takes the item out of a list, when the body of a loop began to
\* take out the item it is at: it is the list of the loop, which holds what is
\* kept of it then.
LEMMA BodyTakesOut ==
  ASSUME ListInv, UnlinkForward, head \in Heads, kept \in Orders, BodyInv,
         pc = "unlink_forward"
  PROVE  (Contents')[head] = kept
<1>1. PICK h \in Heads : \E k \in 1..Len(Contents[h]) :
        /\ Contents[h][k] = item
        /\ Contents' = [Contents EXCEPT ![h] = RemoveAt(@, k)]
  BY UnlinkForwardList
<1>2. PICK k \in 1..Len(Contents[h]) :
        /\ Contents[h][k] = item
        /\ Contents' = [Contents EXCEPT ![h] = RemoveAt(@, k)]
  BY <1>1
<1>3. PICK q, b \in [Heads -> Orders] : Shape(q, b)
  BY DEF ListInv
<1>4. Contents = q /\ Apart(q)
  BY <1>3, SeenNow DEF Shape
<1>5. PICK j \in 1..Len(Forward(head)) : Spliced(kept, j, item, Forward(head))
  BY DEF BodyInv
<1>6. Forward(head) = q[head] /\ q[head] \in Orders
  BY <1>4 DEF Contents
<1>7. q[head][j] = item /\ j \in 1..Len(q[head])
  BY <1>5, <1>6 DEF Spliced
<1>8. q[h][k] = item /\ k \in 1..Len(q[h]) /\ q[h] \in Orders
  BY <1>2, <1>4
<1>9. item \in Range(q[head]) /\ item \in Range(q[h])
  BY <1>6, <1>7, <1>8, OrderIs
<1>10. h = head
  BY <1>4, <1>9 DEF Apart
<1>11. j = k
  BY <1>6, <1>7, <1>8, <1>10, OrderIs
<1>12. kept = RemoveAt(q[head], k)
  BY <1>5, <1>6, <1>11, SplicedIs
<1>13. QED
  BY <1>2, <1>4, <1>10, <1>12

\* A store that belongs to the body of a loop goes on with what the body began.
LEMMA StoreKeeps ==
  ASSUME ListInv, WalkInv, Store, UNCHANGED walkVars
  PROVE  WalkInv'
<1>1. /\ loop' = loop /\ stage' = stage /\ head' = head /\ curr' = curr
      /\ saved' = saved /\ met' = met /\ whole' = whole /\ kept' = kept
  BY DEF walkVars
<1>2. CASE loop = "none"
  BY <1>1, <1>2, OverKept DEF WalkInv
<1>3. CASE loop # "none"
  <2>1. /\ head \in Heads /\ kept \in Orders /\ MetInv /\ BodyInv
    BY <1>3, Under
  <2>2. pc # "idle"
    BY DEF Store, LinkItem, LinkBackward, LinkForward, UnlinkBackward,
           UnlinkForward, Reset
  <2>3. /\ stage = "body" /\ loop \in {"safe", "destroy"} /\ item = curr
        /\ pc \in {"unlink_backward", "unlink_forward", "reset"}
    BY <2>1, <2>2 DEF BodyInv
  <2>4. \A c : Contents' = c => Forward(head)' = c[head]
    BY <1>1, <2>1 DEF Contents, Forward
  <2>5. Forward(head) = Contents[head]
    BY <2>1 DEF Contents
  <2>6. MetInv'
    BY <1>1, <2>1 DEF MetInv
  <2>7. BodyInv' /\ item' = item /\ (pc' = "idle" => item \in Free')
    <3>1. CASE UnlinkBackward
      <4>1. pc = "unlink_backward" /\ pc' = "unlink_forward" /\ item' = item
        BY <3>1 DEF UnlinkBackward, call
      <4>2. Forward(head)' = Forward(head)
        BY <2>4, <2>5, <3>1, UnlinkBackwardList
      <4>3. QED
        BY <1>1, <2>1, <2>3, <4>1, <4>2 DEF BodyInv
    <3>2. CASE UnlinkForward
      <4>1. pc = "unlink_forward" /\ pc' = "reset" /\ item' = item
        BY <3>2 DEF UnlinkForward, call
      <4>2. Forward(head)' = kept
        BY <2>1, <2>3, <2>4, <2>5, <3>2, <4>1, BodyTakesOut
      <4>3. QED
        BY <1>1, <2>3, <4>1, <4>2 DEF BodyInv
    <3>3. CASE Reset
      <4>1. pc = "reset" /\ pc' = "idle" /\ item' = item
        BY <3>3 DEF Reset, call
      <4>2. Forward(head)' = Forward(head) /\ item \in Free'
        BY <2>4, <2>5, <3>3, ResetList
      <4>3. QED
        BY <1>1, <2>1, <4>1, <4>2 DEF BodyInv
    <3>4. QED
      BY <2>3, <3>1, <3>2, <3>3
         DEF Store, LinkItem, LinkBackward, LinkForward
  <2>8. loop = "safe" => SafeInv'
    BY <1>1 DEF WalkInv, SafeInv, CurrInv
  <2>9. loop = "destroy" => DestroyInv'
    BY <1>1, <2>3, <2>7 DEF WalkInv, DestroyInv
  <2>10. QED
    BY <1>1, <2>3, <2>6, <2>7, <2>8, <2>9 DEF WalkInv
<1>4. QED
  BY <1>2, <1>3

\* Every step keeps the invariant of the loops.
LEMMA WalkStep ==
  ASSUME ListInv, WalkInv, [WalkNext]_allVars
  PROVE  WalkInv'
<1>1. CASE loop = "none" /\ Call /\ UNCHANGED walkVars
  BY <1>1, OverKept DEF WalkInv, walkVars
<1>2. CASE Store /\ UNCHANGED walkVars
  BY <1>2, StoreKeeps
<1>3. CASE \E h \in Heads, kind \in {"each", "reverse", "safe", "destroy"} :
             Begin(kind, h)
  BY <1>3, BeginKeeps
<1>4. CASE Visit
  BY <1>4, VisitKeeps
<1>5. CASE LeaveBody
  BY <1>5, LeaveBodyKeeps
<1>6. CASE RemoveCurrent
  BY <1>6, RemoveCurrentKeeps
<1>7. CASE Advance
  BY <1>7, AdvanceKeeps
<1>8. CASE Ends
  BY <1>8, EndsKeeps
<1>9. CASE Found \/ Leave
  BY <1>9, ForgetKeeps
<1>10. CASE DestroyRemove
  BY <1>10, DestroyRemoveKeeps
<1>11. CASE DestroyItem
  BY <1>11, DestroyItemKeeps
<1>12. CASE DestroyEnds
  BY <1>12, DestroyEndsKeeps
<1>13. CASE UNCHANGED allVars
  <2>1. UNCHANGED <<vars, walkVars>>
    BY <1>13 DEF allVars
  <2>2. Free' = Free /\ Forward(head)' = Forward(head)
    BY <2>1 DEF vars, walkVars, Free, Members, Forward, Backward
  <2>3. QED
    BY <2>1, <2>2 DEF WalkInv, MetInv, BodyInv, EachInv, SafeInv, DestroyInv,
                      CurrInv, vars, walkVars
<1>14. QED
  BY <1>1, <1>2, <1>3, <1>4, <1>5, <1>6, <1>7, <1>8, <1>9, <1>10, <1>11, <1>12,
     <1>13 DEF WalkNext, Step

\* Both invariants hold before the first call.
LEMMA WalkInitInv == WalkInit => ListInv /\ WalkInv
<1>1. WalkInit => WalkInv
  BY DEF WalkInit, WalkInv
<1>2. WalkInit => ListInv
  BY InitList DEF WalkInit
<1>3. QED
  BY <1>1, <1>2

\* The invariants of the lists and of the loops over them.
THEOREM WalkInvariant == WalkSpec => [](ListInv /\ WalkInv)
<1>1. ListInv /\ WalkInv /\ [WalkNext]_allVars => (ListInv /\ WalkInv)'
  BY WalkListStep, WalkStep
<1>2. QED
  BY WalkInitInv, <1>1, PTL DEF WalkSpec

\* What the invariants say of the items met.
LEMMA InvWhole == ListInv /\ WalkInv => WalksWhole
<1>1. SUFFICES ASSUME ListInv, WalkInv, loop # "none"
               PROVE  /\ IsPrefix(met, whole)
                      /\ stage = "over" => /\ met = whole
                                           /\ Forward(head) = kept
                                           /\ loop = "destroy" => IsEmpty(head)
  BY DEF WalksWhole
<1>2. /\ head \in Heads /\ whole \in Orders /\ kept \in Orders
      /\ met \in Seq(Items) /\ Len(met) \in Nat /\ Len(met) <= Len(whole)
      /\ \A i \in 1..Len(met) : met[i] = whole[i]
      /\ Len(whole) \in Nat /\ MetInv /\ BodyInv
      /\ whole \in Seq(Items)
  BY <1>1, Under, OrderIs
<1>3. IsPrefix(met, whole)
  <2>1. DOMAIN met = 1..Len(met) /\ DOMAIN whole = 1..Len(whole)
    BY <1>2
  <2>2. QED
    BY <1>2, <2>1 DEF IsPrefix
<1>4. ASSUME stage = "over"
      PROVE  /\ met = whole /\ Forward(head) = kept
             /\ loop = "destroy" => IsEmpty(head)
  <2>1. Len(met) = Len(whole) /\ pc = "idle" /\ Forward(head) = kept
    BY <1>2, <1>4 DEF MetInv, BodyInv
  <2>2. met = whole
    BY <1>2, <2>1
  <2>3. ASSUME loop = "destroy" PROVE IsEmpty(head)
    <3>1. Len(kept) = Len(whole) - Len(met)
      BY <1>1, <1>4, <2>3 DEF WalkInv, DestroyInv
    <3>2. Len(Forward(head)) = 0
      BY <1>2, <2>1, <3>1
    <3>3. QED
      BY <1>1, <1>2, <2>1, <3>2, IdleRing
  <2>4. QED
    BY <2>1, <2>2, <2>3
<1>5. QED
  BY <1>3, <1>4

-----------------------------------------------------------------------------
(* The properties, for all finite sets of heads and items.                 *)

\* Between two calls, also those in the bodies of loops, both directions of each
\* list agree, no item is in two lists, and a removed item points into none.
THEOREM RingsClosedHolds == WalkSpec => []RingsClosed
BY WalkInvariant, InvRings, PTL

\* What __list_insert_between promises: while it links an item, the item is not
\* seen forward before it is seen backward; at no store of any call can a list
\* be followed without end.
THEOREM BackwardFirstHolds == WalkSpec => []BackwardFirst
BY WalkInvariant, InvBackward, PTL

\* The loops of list.h meet every item once and in order, also when their body
\* removes the item it is at; list_destroy leaves an empty list.
THEOREM WalksWholeHolds == WalkSpec => []WalksWhole
BY WalkInvariant, InvWhole, PTL

\* For somebody who follows the lists forward every store of list.h inserts one
\* item, takes one out, or changes nothing.
THEOREM ListsImplemented == WalkSpec => ImplementsLists
<1>1. WalkInit => Lists!Init
  BY InitAbstract DEF WalkInit
<1>2. ListInv /\ WalkInv /\ [WalkNext]_allVars => [Lists!Next]_Contents
  BY WalkListStep
<1>3. QED
  BY WalkInvariant, <1>1, <1>2, PTL DEF WalkSpec, ImplementsLists, Lists!Spec

\* What the calls of list.h do for the lists does not rest on how the loops use
\* them: it holds of the calls alone, in any order.
THEOREM CallsKeepLists ==
  Spec => []RingsClosed /\ []BackwardFirst /\ ImplementsLists
<1>1. Init => Lists!Init
  BY InitAbstract
<1>2. ListInv /\ [Next]_vars => [Lists!Next]_Contents
  BY ListStep
<1>3. Spec => ImplementsLists
  BY ListInvariant, <1>1, <1>2, PTL DEF Spec, ImplementsLists, Lists!Spec
<1>4. Spec => []RingsClosed /\ []BackwardFirst
  BY ListInvariant, InvRings, InvBackward, PTL
<1>5. QED
  BY <1>3, <1>4
=============================================================================
