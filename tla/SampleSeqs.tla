----------------------------- MODULE SampleSeqs -----------------------------
(***************************************************************************)
(* Facts about the two operations cpumon makes on its lists, taking the    *)
(* first item and adding a last one, seen as operations on a sequence, on  *)
(* two lists that are read as one after the other, on lists that grow item *)
(* by item, and induction over the natural numbers.                        *)
(***************************************************************************)
EXTENDS Integers, Sequences, Functions, SequenceTheorems,
        WellFoundedInduction, TLAPS

\* list_add_last adds its item to the list and changes nothing else; an item
\* that was not linked leaves a list without repetitions.
LEMMA AddLast ==
  ASSUME NEW S, NEW q \in Seq(S), NEW e \in S
  PROVE  /\ Append(q, e) \in Seq(S)
         /\ Len(Append(q, e)) = Len(q) + 1
         /\ Append(q, e) # <<>>
         /\ Range(Append(q, e)) = Range(q) \cup {e}
         /\ IsInjective(q) /\ e \notin Range(q) => IsInjective(Append(q, e))
<1> DEFINE r == Append(q, e)
<1>1. /\ r \in Seq(S) /\ Len(r) = Len(q) + 1 /\ Len(q) \in Nat
      /\ DOMAIN q = 1..Len(q) /\ DOMAIN r = 1..(Len(q) + 1)
      /\ r[Len(q) + 1] = e /\ \A i \in 1..Len(q) : r[i] = q[i]
  OBVIOUS
<1>2. r # <<>>
  BY <1>1
<1>3. Range(r) = Range(q) \cup {e}
  <2>1. ASSUME NEW x \in Range(r) PROVE x \in Range(q) \cup {e}
    BY <1>1 DEF Range
  <2>2. ASSUME NEW x \in Range(q) \cup {e} PROVE x \in Range(r)
    BY <1>1 DEF Range
  <2>3. QED
    BY <2>1, <2>2
<1>4. ASSUME IsInjective(q), e \notin Range(q) PROVE IsInjective(r)
  <2>1. \A i \in 1..Len(q) : q[i] # e
    BY <1>1, <1>4 DEF Range
  <2>2. QED
    BY <1>1, <1>4, <2>1 DEF IsInjective
<1>5. QED
  BY <1>1, <1>2, <1>3, <1>4

\* list_remove of the first item takes that item out and nothing else.
LEMMA TakeFirst ==
  ASSUME NEW S, NEW q \in Seq(S), q # <<>>
  PROVE  /\ Head(q) \in S /\ Head(q) \in Range(q)
         /\ Tail(q) \in Seq(S)
         /\ Len(Tail(q)) = Len(q) - 1
         /\ Range(q) = Range(Tail(q)) \cup {Head(q)}
         /\ IsInjective(q) => /\ IsInjective(Tail(q))
                              /\ Head(q) \notin Range(Tail(q))
<1> DEFINE t == Tail(q)
<1>1. /\ Len(q) \in Nat /\ Len(q) > 0 /\ DOMAIN q = 1..Len(q)
      /\ Head(q) = q[1] /\ q[1] \in S
      /\ t \in Seq(S) /\ Len(t) = Len(q) - 1 /\ DOMAIN t = 1..(Len(q) - 1)
      /\ \A i \in 1..(Len(q) - 1) : t[i] = q[i + 1]
  OBVIOUS
<1>2. Head(q) \in Range(q)
  BY <1>1 DEF Range
<1>3. Range(q) = Range(t) \cup {Head(q)}
  <2>1. ASSUME NEW i \in 1..Len(q) PROVE q[i] \in Range(t) \cup {Head(q)}
    <3>1. CASE i = 1
      BY <1>1, <3>1
    <3>2. CASE i # 1
      <4>1. i - 1 \in 1..(Len(q) - 1) /\ t[i - 1] = q[i]
        BY <1>1, <3>2
      <4>2. QED
        BY <1>1, <4>1 DEF Range
    <3>3. QED
      BY <3>1, <3>2
  <2>2. ASSUME NEW x \in Range(t) \cup {Head(q)} PROVE x \in Range(q)
    BY <1>1 DEF Range
  <2>3. QED
    BY <1>1, <2>1, <2>2 DEF Range
<1>4. ASSUME IsInjective(q)
      PROVE  IsInjective(t) /\ Head(q) \notin Range(t)
  <2>1. IsInjective(t)
    BY <1>1, <1>4 DEF IsInjective
  <2>2. \A i \in 1..(Len(q) - 1) : t[i] # q[1]
    BY <1>1, <1>4 DEF IsInjective
  <2>3. QED
    BY <1>1, <2>1, <2>2 DEF Range
<1>5. QED
  BY <1>1, <1>2, <1>3, <1>4

-----------------------------------------------------------------------------
(* Two lists, one after the other.                                         *)

\* The items of both, and a place for each item of one of them.
LEMMA ConcatItems ==
  ASSUME NEW S, NEW p \in Seq(S), NEW q \in Seq(S)
  PROVE  /\ p \o q \in Seq(S) /\ Len(p \o q) = Len(p) + Len(q)
         /\ Range(p \o q) = Range(p) \cup Range(q)
         /\ \A i \in 1..Len(p) : (p \o q)[i] = p[i]
         /\ \A i \in 1..Len(q) : (p \o q)[Len(p) + i] = q[i]
<1> DEFINE r == p \o q
<1>1. /\ r \in Seq(S) /\ Len(r) = Len(p) + Len(q)
      /\ Len(p) \in Nat /\ Len(q) \in Nat
      /\ \A i \in 1..(Len(p) + Len(q)) :
           r[i] = IF i <= Len(p) THEN p[i] ELSE q[i - Len(p)]
  BY ConcatProperties, LenProperties
<1> HIDE DEF r
<1>2. /\ DOMAIN r = 1..(Len(p) + Len(q)) /\ DOMAIN p = 1..Len(p)
      /\ DOMAIN q = 1..Len(q)
  BY <1>1, LenProperties
<1>3. /\ \A i \in 1..Len(p) : r[i] = p[i]
      /\ \A i \in 1..Len(q) : r[Len(p) + i] = q[i]
  <2>1. ASSUME NEW i \in 1..Len(p) PROVE r[i] = p[i]
    BY <1>1
  <2>2. ASSUME NEW i \in 1..Len(q) PROVE r[Len(p) + i] = q[i]
    <3>1. /\ Len(p) + i \in 1..(Len(p) + Len(q)) /\ ~ (Len(p) + i <= Len(p))
          /\ (Len(p) + i) - Len(p) = i
      BY <1>1
    <3>2. QED
      BY <1>1, <3>1
  <2>3. QED
    BY <2>1, <2>2
<1>4. ASSUME NEW x \in Range(r) PROVE x \in Range(p) \cup Range(q)
  <2>1. PICK i \in 1..(Len(p) + Len(q)) : x = r[i]
    BY <1>2, <1>4 DEF Range
  <2>2. CASE i <= Len(p)
    BY <1>1, <1>2, <2>1, <2>2 DEF Range
  <2>3. CASE i > Len(p)
    <3>1. i - Len(p) \in 1..Len(q) /\ x = q[i - Len(p)]
      BY <1>1, <2>1, <2>3
    <3>2. QED
      BY <1>2, <3>1 DEF Range
  <2>4. QED
    BY <1>1, <2>1, <2>2, <2>3
<1>5. ASSUME NEW x \in Range(p) \cup Range(q) PROVE x \in Range(r)
  <2>1. CASE x \in Range(p)
    BY <1>1, <1>2, <1>3, <2>1 DEF Range
  <2>2. CASE x \in Range(q)
    <3>1. PICK i \in 1..Len(q) : x = q[i]
      BY <1>2, <2>2 DEF Range
    <3>2. Len(p) + i \in DOMAIN r /\ r[Len(p) + i] = x
      BY <1>1, <1>2, <1>3, <3>1
    <3>3. QED
      BY <3>2 DEF Range
  <2>3. QED
    BY <1>5, <2>1, <2>2
<1>6. QED
  BY <1>1, <1>3, <1>4, <1>5 DEF r

\* An item added to the second list is the last of both.
LEMMA ConcatLast ==
  ASSUME NEW S, NEW p \in Seq(S), NEW q \in Seq(S), NEW e \in S
  PROVE  p \o Append(q, e) = Append(p \o q, e)
<1>1. /\ Append(q, e) = q \o <<e>> /\ <<e>> \in Seq(S)
      /\ p \o q \in Seq(S) /\ Append(p \o q, e) = (p \o q) \o <<e>>
  BY AppendIsConcat, ConcatProperties
<1>2. QED
  BY <1>1, ConcatAssociative

\* The first item of the second list moved to the end of the first: the order
\* of all items stays.
LEMMA ConcatMove ==
  ASSUME NEW S, NEW p \in Seq(S), NEW q \in Seq(S), q # <<>>
  PROVE  Append(p, Head(q)) \o Tail(q) = p \o q
<1> DEFINE a == Append(p, Head(q))
           t == Tail(q)
<1>1. /\ Head(q) \in S /\ t \in Seq(S) /\ Len(t) = Len(q) - 1
      /\ \A i \in 1..Len(t) : t[i] = q[i + 1]
      /\ Head(q) = q[1] /\ Len(q) \in Nat /\ Len(q) > 0
  BY HeadTailProperties, LenProperties
<1>2. /\ a \in Seq(S) /\ Len(a) = Len(p) + 1 /\ Len(p) \in Nat
      /\ \A i \in 1..Len(p) : a[i] = p[i]
      /\ a[Len(p) + 1] = q[1]
  BY <1>1, AppendProperties, LenProperties
<1> HIDE DEF a, t
<1>3. /\ a \o t \in Seq(S) /\ Len(a \o t) = Len(a) + Len(t)
      /\ \A i \in 1..(Len(a) + Len(t)) :
           (a \o t)[i] = IF i <= Len(a) THEN a[i] ELSE t[i - Len(a)]
  BY <1>1, <1>2, ConcatProperties
<1>4. /\ p \o q \in Seq(S) /\ Len(p \o q) = Len(p) + Len(q)
      /\ \A i \in 1..(Len(p) + Len(q)) :
           (p \o q)[i] = IF i <= Len(p) THEN p[i] ELSE q[i - Len(p)]
  BY ConcatProperties
<1>5. Len(a \o t) = Len(p \o q)
  BY <1>1, <1>2, <1>3, <1>4
<1>6. ASSUME NEW i \in 1..Len(a \o t) PROVE (a \o t)[i] = (p \o q)[i]
  <2>1. CASE i <= Len(p)
    BY <1>1, <1>2, <1>3, <1>4, <2>1
  <2>2. CASE i = Len(p) + 1
    BY <1>1, <1>2, <1>3, <1>4, <2>2
  <2>3. CASE i > Len(p) + 1
    <3>1. /\ (a \o t)[i] = t[i - (Len(p) + 1)]
          /\ (p \o q)[i] = q[i - Len(p)]
      BY <1>1, <1>2, <1>3, <1>4, <2>3
    <3>2. i - (Len(p) + 1) \in 1..Len(t)
      BY <1>1, <1>2, <1>3, <2>3
    <3>3. t[i - (Len(p) + 1)] = q[(i - (Len(p) + 1)) + 1]
      BY <1>1, <3>2
    <3>4. (i - (Len(p) + 1)) + 1 = i - Len(p)
      BY <1>1, <1>2, <1>3
    <3>5. QED
      BY <3>1, <3>3, <3>4
  <2>4. QED
    BY <1>1, <1>2, <1>3, <2>1, <2>2, <2>3
<1>7. QED
  BY <1>3, <1>4, <1>5, <1>6, SeqEqual DEF a, t

\* The first item taken from the first list is taken from both.
LEMMA ConcatTail ==
  ASSUME NEW S, NEW p \in Seq(S), NEW q \in Seq(S), p # <<>>
  PROVE  Tail(p) \o q = Tail(p \o q) /\ p \o q # <<>>
<1> DEFINE t == Tail(p)
           r == p \o q
<1>1. /\ t \in Seq(S) /\ Len(t) = Len(p) - 1
      /\ \A i \in 1..Len(t) : t[i] = p[i + 1]
      /\ Len(p) \in Nat /\ Len(p) > 0 /\ Len(q) \in Nat
  BY HeadTailProperties, LenProperties
<1>2. /\ r \in Seq(S) /\ Len(r) = Len(p) + Len(q)
      /\ \A i \in 1..(Len(p) + Len(q)) :
           r[i] = IF i <= Len(p) THEN p[i] ELSE q[i - Len(p)]
  BY ConcatProperties
<1>3. /\ t \o q \in Seq(S) /\ Len(t \o q) = Len(t) + Len(q)
      /\ \A i \in 1..(Len(t) + Len(q)) :
           (t \o q)[i] = IF i <= Len(t) THEN t[i] ELSE q[i - Len(t)]
  BY <1>1, ConcatProperties
<1> HIDE DEF t, r
<1>4. r # <<>>
  BY <1>1, <1>2
<1>5. /\ Tail(r) \in Seq(S) /\ Len(Tail(r)) = Len(r) - 1
      /\ \A i \in 1..Len(Tail(r)) : Tail(r)[i] = r[i + 1]
  BY <1>2, <1>4, HeadTailProperties
<1>6. ASSUME NEW i \in 1..Len(t \o q) PROVE (t \o q)[i] = Tail(r)[i]
  <2>1. CASE i <= Len(t)
    BY <1>1, <1>2, <1>3, <1>5, <2>1
  <2>2. CASE i > Len(t)
    <3>1. (t \o q)[i] = q[i - Len(t)] /\ Tail(r)[i] = q[(i + 1) - Len(p)]
      BY <1>1, <1>2, <1>3, <1>5, <2>2
    <3>2. i \in Nat /\ i - Len(t) = (i + 1) - Len(p)
      BY <1>1, <1>3
    <3>3. QED
      BY <3>1, <3>2
  <2>3. i <= Len(t) \/ i > Len(t)
    BY <1>1, <1>3
  <2>4. QED
    BY <2>1, <2>2, <2>3
<1>7. Len(t \o q) = Len(Tail(r))
  BY <1>1, <1>2, <1>3, <1>5
<1>8. QED
  BY <1>3, <1>4, <1>5, <1>6, <1>7, SeqEqual DEF t, r

-----------------------------------------------------------------------------
(* Lists that grow item by item.                                           *)

\* A list that is given item by item, and the same list with one item more.
LEMMA AppendItem ==
  ASSUME NEW k \in Nat, NEW f, NEW x, f = [i \in 1..k |-> f[i]]
  PROVE  /\ Len(f) = k /\ Len(Append(f, x)) = k + 1
         /\ Append(f, x) = [i \in 1..(k + 1) |-> IF i = k + 1 THEN x ELSE f[i]]
<1> DEFINE S == {f[i] : i \in 1..k} \cup {x}
           g == [i \in 1..(k + 1) |-> IF i = k + 1 THEN x ELSE f[i]]
<1>1. \A i \in 1..k : f[i] \in S
  OBVIOUS
<1>2. x \in S
  OBVIOUS
<1> HIDE DEF S
<1>3. f \in [1..k -> S] /\ g \in [1..(k + 1) -> S]
  BY <1>1, <1>2
<1>4. f \in Seq(S) /\ g \in Seq(S) /\ Len(f) = k /\ Len(g) = k + 1
  BY <1>3
<1>5. /\ Append(f, x) \in Seq(S) /\ Len(Append(f, x)) = k + 1
      /\ \A i \in 1..k : Append(f, x)[i] = f[i]
      /\ Append(f, x)[k + 1] = x
  BY <1>2, <1>4, AppendProperties
<1>6. \A i \in 1..(k + 1) : Append(f, x)[i] = g[i]
  BY <1>5
<1>7. Append(f, x) = g
  BY <1>4, <1>5, <1>6, SeqEqual
<1>8. QED
  BY <1>4, <1>5, <1>7

\* A list without an item.
LEMMA EmptyList ==
  ASSUME NEW f, f = [i \in 1..0 |-> f[i]] PROVE f = <<>>
<1>1. f \in [1..0 -> {}] 
  OBVIOUS
<1>2. f \in Seq({}) /\ Len(f) = 0 /\ <<>> \in Seq({}) /\ Len(<<>>) = 0
  BY <1>1
<1>3. QED
  BY <1>2, SeqEqual

-----------------------------------------------------------------------------
(* Induction over the natural numbers, as facts about sets of them.        *)

\* A set of numbers that has a member has a smallest one.
LEMMA Smallest ==
  ASSUME NEW T, T \subseteq Nat, NEW n \in T
  PROVE  \E m \in T : \A y \in T : m <= y
<1> DEFINE R == OpToRel(<, Nat)
<1>1. IsWellFoundedOn(R, Nat)
  BY NatLessThanWellFounded
<1>2. \A x, y \in Nat : x < y => <<x, y>> \in R
  BY DEF OpToRel
<1> HIDE DEF R
<1>3. PICK m \in T : \A y \in T : ~ (<<y, m>> \in R)
  BY <1>1, WFMin
<1>4. \A y \in T : ~ (y < m)
  BY <1>2, <1>3
<1>5. QED
  BY <1>4

\* Induction, about a set: the one that has 0 and all successors is Nat.
LEMMA Induction ==
  ASSUME NEW I, I \subseteq Nat, 0 \in I, \A n \in I : n + 1 \in I
  PROVE  I = Nat
<1>1. SUFFICES ASSUME NEW x \in Nat, x \notin I PROVE FALSE
  OBVIOUS
<1> DEFINE T == Nat \ I
<1>2. PICK m \in T : \A y \in T : m <= y
  <2>1. T \subseteq Nat /\ x \in T
    BY <1>1
  <2> HIDE DEF T
  <2>2. QED
    BY <2>1, Smallest
<1>3. m \in Nat /\ m # 0
  OBVIOUS
<1>4. m - 1 \in I
  BY <1>2, <1>3
<1>5. (m - 1) + 1 \in I
  BY <1>4
<1>6. QED
  BY <1>3, <1>5
=============================================================================
