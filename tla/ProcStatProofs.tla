--------------------------- MODULE ProcStatProofs ---------------------------
(***************************************************************************)
(* The values of every sample belong to the text it was parsed from, and   *)
(* to the signals of their columns, for every number of CPUs and of times  *)
(* and whatever CPUs go offline and come online.                           *)
(*                                                                         *)
(* While a text is parsed, the first index values of the structure are     *)
(* those of its first lines, and what is left of it are the other lines.   *)
(* The length of the structure is a multiple of the length of a line, so   *)
(* that a line is never cut in two; which line and which column a value    *)
(* comes from is then a quotient and a remainder, in the values and in the *)
(* names of the signals alike.                                             *)
(***************************************************************************)
EXTENDS ProcStat, SampleSeqs, FiniteSetTheorems, TLAPS

-----------------------------------------------------------------------------
(* Lines and columns.                                                      *)

\* Where the i-th value is: in which line, and in which column of it.
LEMMA InLine ==
  ASSUME NEW t \in Nat \ {0}, NEW k \in Nat, NEW i \in 1..(k * t)
  PROVE  /\ (i - 1) \div t \in 0..(k - 1)
         /\ ((i - 1) % t) \in 0..(t - 1)
<1>1. /\ (i - 1) \div t \in Nat /\ ((i - 1) % t) \in 0..(t - 1)
      /\ i - 1 = ((i - 1) \div t) * t + ((i - 1) % t)
  OBVIOUS
<1>2. (i - 1) \div t < k
  <2>1. SUFFICES ASSUME (i - 1) \div t >= k PROVE FALSE
    BY <1>1
  <2> DEFINE d == (i - 1) \div t
  <2>2. d * t >= k * t
    <3>1. PICK e \in Nat : d = k + e
      BY <1>1, <2>1
    <3>2. d * t = k * t + e * t /\ e * t \in Nat /\ k * t \in Nat
      BY <3>1
    <3>3. QED
      BY <3>2
  <2>3. i - 1 >= d * t /\ k * t \in Nat /\ d * t \in Nat
    BY <1>1
  <2>4. QED
    BY <2>2, <2>3
<1>3. QED
  BY <1>1, <1>2

\* The values of the line after the first m.
LEMMA NextLine ==
  ASSUME NEW t \in Nat \ {0}, NEW m \in Nat,
         NEW i \in (m * t + 1)..(m * t + t)
  PROVE  (i - 1) \div t = m /\ ((i - 1) % t) + 1 = i - m * t
<1> m * t \in Nat
  OBVIOUS
<1>1. PICK r \in 0..(t - 1) : i - 1 = m * t + r
  <2>1. i - 1 - m * t \in 0..(t - 1) /\ i - 1 = m * t + (i - 1 - m * t)
    OBVIOUS
  <2>2. QED
    BY <2>1
<1>2. (m * t + r) \div t = m /\ ((m * t + r) % t) = r
  OBVIOUS
<1>3. QED
  BY <1>1, <1>2

\* For every number that is less than how many CPUs there are, one of them
\* comes after so many others.
LEMMA CpuFound ==
  ASSUME NEW cpus, cpus \subseteq Nat, IsFiniteSet(cpus),
         NEW n \in Nat, n < Cardinality(cpus)
  PROVE  \E c \in cpus : Cardinality({d \in cpus : d < c}) = n
<1> DEFINE before(c) == {d \in cpus : d < c}
           I == {k \in Nat : k < Cardinality(cpus) =>
                               \E c \in cpus : Cardinality(before(c)) = k}
<1>0. Cardinality(cpus) \in Nat /\ \A d \in cpus : d \in Nat
  BY FS_CardinalityType
<1>1. 0 \in I
  <2>1. SUFFICES ASSUME 0 < Cardinality(cpus)
                 PROVE  \E c \in cpus : Cardinality(before(c)) = 0
    OBVIOUS
  <2>2. PICK x : x \in cpus
    BY <2>1, FS_EmptySet
  <2>3. PICK c \in cpus : \A d \in cpus : c <= d
    BY <2>2, Smallest
  <2>4. before(c) = {}
    <3>1. \A d \in cpus : ~ (d < c)
      BY <1>0, <2>3
    <3>2. QED
      BY <3>1
  <2>5. QED
    BY <2>4, FS_EmptySet
<1>2. ASSUME NEW k \in I PROVE k + 1 \in I
  <2>1. SUFFICES ASSUME k + 1 < Cardinality(cpus)
                 PROVE  \E c \in cpus : Cardinality(before(c)) = k + 1
    OBVIOUS
  <2>2. PICK c \in cpus : Cardinality(before(c)) = k
    BY <1>0, <1>2, <2>1
  <2> DEFINE after == {d \in cpus : d > c}
  <2>3. c \notin before(c) /\ IsFiniteSet(before(c))
    <3>1. before(c) \subseteq cpus
      OBVIOUS
    <3>2. IsFiniteSet(before(c))
      BY <3>1, FS_Subset
    <3>3. QED
      BY <3>2
  <2>4. Cardinality(before(c) \cup {c}) = k + 1
    BY <2>2, <2>3, FS_AddElement
  <2>5. after # {}
    <3>1. SUFFICES ASSUME after = {} PROVE FALSE
      OBVIOUS
    <3>2. cpus = before(c) \cup {c}
      <4>1. \A d \in cpus : ~ (d > c) /\ d \in Nat /\ c \in Nat
        BY <1>0, <3>1
      <4>2. \A d \in cpus : d < c \/ d = c
        BY <4>1
      <4>3. QED
        BY <4>2
    <3>3. QED
      BY <1>0, <2>1, <2>4, <3>2
  <2>6. PICK e \in after : \A d \in after : e <= d
    <3>1. after \subseteq Nat
      OBVIOUS
    <3>2. PICK x : x \in after
      BY <2>5
    <3> HIDE DEF after
    <3>3. QED
      BY <3>1, <3>2, Smallest
  <2>7. before(e) = before(c) \cup {c}
    <3>1. e > c /\ c \in Nat /\ e \in Nat
      BY <1>0, <2>6
    <3>2. \A d \in cpus : d \in Nat /\ (d > c => e <= d)
      BY <1>0, <2>6
    <3>3. \A d \in cpus : d < e <=> d < c \/ d = c
      BY <3>1, <3>2
    <3>4. QED
      BY <3>3
  <2>8. QED
    BY <2>4, <2>6, <2>7
<1>3. I = Nat
  <2>1. I \subseteq Nat
    OBVIOUS
  <2> HIDE DEF I
  <2>2. QED
    BY <1>1, <1>2, <2>1, Induction
<1>4. QED
  BY <1>3

\* The first line of a text is the summary, every other line is about a CPU;
\* when the CPUs have no gap, they are the CPUs the signals are named after.
LEMMA LinesOf ==
  ASSUME NEW cpus \in SUBSET (0..(Cpus - 1))
  PROVE  /\ IsFiniteSet(cpus) /\ Cardinality(cpus) \in Nat
         /\ Lines(cpus) \in Seq(0..(Cpus - 1) \cup {Summary})
         /\ Len(Lines(cpus)) = Cardinality(cpus) + 1
         /\ Lines(cpus)[1] = Summary
         /\ \A i \in 2..Len(Lines(cpus)) : Lines(cpus)[i] \in 0..(Cpus - 1)
         /\ \A n \in 1..Cpus : cpus = 0..(n - 1) =>
              \A i \in 1..Len(Lines(cpus)) : Lines(cpus)[i] = CpuName(i - 1)
<1>1. IsFiniteSet(cpus) /\ Cardinality(cpus) \in Nat /\ cpus \subseteq Nat
  <2>1. IsFiniteSet(0..(Cpus - 1))
    BY FS_Interval, ProcStatAssumption
  <2>2. IsFiniteSet(cpus)
    BY <2>1, FS_Subset
  <2>3. QED
    BY <2>2, FS_CardinalityType
<1> DEFINE k == Cardinality(cpus) + 1
<1>2. ASSUME NEW n \in Nat, n < Cardinality(cpus)
      PROVE  /\ CpuAfter(n, cpus) \in cpus
             /\ Cardinality({d \in cpus : d < CpuAfter(n, cpus)}) = n
  <2>1. \E c \in cpus : Cardinality({d \in cpus : d < c}) = n
    BY <1>1, <1>2, CpuFound
  <2>2. QED
    BY <2>1 DEF CpuAfter
<1>3. ASSUME NEW i \in 2..k
      PROVE  /\ Lines(cpus)[i] = CpuAfter(i - 2, cpus)
             /\ Lines(cpus)[i] \in cpus
             /\ i - 2 \in Nat /\ i - 2 < Cardinality(cpus)
  <2>1. i - 2 \in Nat /\ i - 2 < Cardinality(cpus)
    BY <1>1
  <2>2. CpuAfter(i - 2, cpus) \in cpus
    BY <1>2, <2>1
  <2>3. Lines(cpus)[i] = CpuAfter(i - 2, cpus)
    BY <1>1 DEF Lines
  <2>4. QED
    BY <2>1, <2>2, <2>3
<1>4. /\ k \in Nat /\ k > 0 /\ DOMAIN Lines(cpus) = 1..k
      /\ Lines(cpus)[1] = Summary
      /\ Lines(cpus) = [i \in 1..k |-> Lines(cpus)[i]]
  BY <1>1 DEF Lines
<1>5. /\ Lines(cpus) \in Seq(0..(Cpus - 1) \cup {Summary})
      /\ Len(Lines(cpus)) = k
  <2>1. \A i \in 1..k : Lines(cpus)[i] \in 0..(Cpus - 1) \cup {Summary}
    <3>1. SUFFICES ASSUME NEW i \in 1..k, i \in 2..k
                   PROVE  Lines(cpus)[i] \in 0..(Cpus - 1) \cup {Summary}
      BY <1>4
    <3>2. QED
      BY <1>3, <3>1
  <2> HIDE DEF k
  <2>2. Lines(cpus) \in [1..k -> 0..(Cpus - 1) \cup {Summary}]
    BY <1>4, <2>1
  <2>3. QED
    BY <1>4, <2>2
<1>6. ASSUME NEW n \in 1..Cpus, cpus = 0..(n - 1), NEW i \in 1..k
      PROVE  Lines(cpus)[i] = CpuName(i - 1)
  <2>1. CASE i = 1
    BY <1>4, <2>1 DEF CpuName
  <2>2. CASE i # 1
    <3> DEFINE c == Lines(cpus)[i]
    <3>1. c \in 0..(n - 1) /\ Cardinality({d \in cpus : d < c}) = i - 2
      BY <1>2, <1>3, <1>6, <2>2
    <3>2. n \in Nat
      BY ProcStatAssumption
    <3> HIDE DEF c
    <3>3. {d \in cpus : d < c} = 0..(c - 1)
      BY <1>6, <3>1, <3>2
    <3>4. Cardinality(0..(c - 1)) = c
      BY <3>1, <3>2, FS_Interval
    <3>5. c = i - 2
      BY <3>1, <3>3, <3>4
    <3>6. QED
      BY <1>1, <2>2, <3>5 DEF c, CpuName
  <2>3. QED
    BY <2>1, <2>2
<1>7. QED
  BY <1>1, <1>3, <1>4, <1>5, <1>6

-----------------------------------------------------------------------------
(* The inductive invariant.                                                *)

\* The i-th value of these lines.
Row(lines, i) ==
  [cpu |-> lines[((i - 1) \div Times) + 1], time |-> ((i - 1) % Times) + 1,
   fresh |-> TRUE]
Filled(rows, n, lines) == \A i \in 1..n : rows[i] = Row(lines, i)

\* The signals are those of whole lines.
StartInv ==
  IF started THEN \E n \in Nat \ {0} : signals = SignalNames(n, Times)
  ELSE signals = <<>> /\ ~ parsing /\ published = <<>>

\* What was parsed and what is left.
ParseInv ==
  LET lines == Lines(reading) IN
  parsing =>
    /\ index <= Len(lines) * Times
    /\ Filled(values, index, lines)
    /\ \/ text = <<>>
       \/ \E m \in 0..(Len(lines) - 1) :
            /\ index = m * Times
            /\ Len(text) = Len(lines) - m
            /\ \A i \in 1..Len(text) : text[i] = lines[m + i]

\* The last sample.
PublishedInv ==
  LET lines == Lines(covered) IN
  published # <<>> =>
    /\ Len(published) = Len(signals) /\ Len(signals) <= Len(lines) * Times
    /\ Filled(published, Len(published), lines)

\* The text is made of lines.
TextInv == text \in Seq(0..(Cpus - 1) \cup {Summary})

IInv == /\ TypeOK /\ TextInv
        /\ StartInv /\ ParseInv /\ PublishedInv

\* A structure for so many signals, and rows that are no longer new.
Row0 == [cpu : 0..(Cpus - 1) \cup {Summary, Nobody}, time : 0..Times,
         fresh : BOOLEAN]

\* Structures that were never filled, or filled before, are structures.
LEMMA RowsMade ==
  /\ \A k \in Nat : /\ [i \in 1..k |-> Unset] \in Rows
                    /\ Len([i \in 1..k |-> Unset]) = k
  /\ \A q \in Rows : Stale(q) \in Rows /\ Len(Stale(q)) = Len(q)
<1>1. Unset \in Row0
  BY ProcStatAssumption DEF Unset, Row0
<1>2. \A r \in Row0 : [r EXCEPT !.fresh = FALSE] \in Row0
  BY DEF Row0
<1>3. Rows = Seq(Row0)
  BY DEF Rows, Row0
<1>4. ASSUME NEW k \in Nat
      PROVE  /\ [i \in 1..k |-> Unset] \in Rows
             /\ Len([i \in 1..k |-> Unset]) = k
  BY <1>1, <1>3
<1>5. ASSUME NEW q \in Rows
      PROVE  Stale(q) \in Rows /\ Len(Stale(q)) = Len(q)
  <2>1. q \in [1..Len(q) -> Row0] /\ Len(q) \in Nat
    BY <1>3
  <2> HIDE DEF Row0
  <2>2. Stale(q) \in [1..Len(q) -> Row0]
    BY <1>2, <2>1 DEF Stale
  <2>3. QED
    BY <1>3, <2>1, <2>2
<1>6. QED
  BY <1>4, <1>5

\* The signal of a value, by its row and its column.
LEMMA SignalsMade ==
  ASSUME NEW n \in Nat
  PROVE  /\ n * Times \in Nat
         /\ Len(SignalNames(n, Times)) = n * Times
         /\ DOMAIN SignalNames(n, Times) = 1..(n * Times)
         /\ \A i \in 1..(n * Times) :
              SignalNames(n, Times)[i] =
                <<CpuName((i - 1) \div Times), ((i - 1) % Times) + 1>>
<1>1. n * Times \in Nat
  BY ProcStatAssumption
<1>2. QED
  BY <1>1 DEF SignalNames

\* When the next line is parsed, all its values fit.
LEMMA WholeLine ==
  ASSUME IInv, ParseLine, index < Len(signals)
  PROVE  \E m \in 0..(Len(Lines(reading)) - 1) :
           /\ index = m * Times /\ m * Times \in Nat
           /\ index + Times <= Len(signals)
           /\ Len(text) = Len(Lines(reading)) - m
           /\ \A i \in 1..Len(text) : text[i] = Lines(reading)[m + i]
<1>1. PICK m \in 0..(Len(Lines(reading)) - 1) :
           /\ index = m * Times
           /\ Len(text) = Len(Lines(reading)) - m
           /\ \A i \in 1..Len(text) : text[i] = Lines(reading)[m + i]
  BY DEF IInv, ParseInv, ParseLine
<1>2. PICK n \in Nat \ {0} : signals = SignalNames(n, Times)
  BY DEF IInv, StartInv, ParseLine
<1>3. Len(signals) = n * Times /\ Times \in Nat \ {0}
  BY <1>2, SignalsMade, ProcStatAssumption
<1>4. m \in Nat
  <2>1. reading \in SUBSET (0..(Cpus - 1))
    BY DEF IInv, TypeOK
  <2>2. Len(Lines(reading)) \in Nat
    BY <2>1, LinesOf
  <2>3. QED
    BY <1>1, <2>2
<1>5. m * Times \in Nat /\ n * Times \in Nat
  BY <1>3, <1>4
<1>6. m < n
  <2>1. SUFFICES ASSUME m >= n PROVE FALSE
    BY <1>4
  <2>2. PICK e \in Nat : m = n + e
    BY <1>4, <2>1
  <2>3. m * Times = n * Times + e * Times /\ e * Times \in Nat
    BY <1>3, <2>2
  <2>4. QED
    BY <1>1, <1>3, <1>5, <2>3
<1>7. m * Times + Times <= n * Times
  <2>1. PICK e \in Nat : n = m + 1 + e
    <3>1. n - m - 1 \in Nat /\ n = m + 1 + (n - m - 1)
      BY <1>4, <1>6
    <3>2. QED
      BY <3>1
  <2>2. n * Times = m * Times + Times + e * Times /\ e * Times \in Nat
    BY <1>3, <1>4, <2>1
  <2>3. QED
    BY <1>3, <1>5, <2>2
<1>8. QED
  BY <1>1, <1>3, <1>5, <1>7

\* A line that is parsed fills its part of the structure.
LEMMA ParseStep ==
  ASSUME IInv, ParseLine PROVE IInv'
<1> DEFINE lines == Lines(reading)
<1>0. /\ parsing /\ text # <<>> /\ parsing' = parsing
      /\ UNCHANGED <<online, started, signals, reading, published, covered,
                     kept, mixed>>
      /\ reading \in SUBSET (0..(Cpus - 1))
      /\ Times \in Nat \ {0}
  BY ProcStatAssumption DEF ParseLine, IInv, TypeOK
<1>1. /\ values \in Seq(Row0) /\ DOMAIN values = 1..Len(signals)
      /\ Len(values) = Len(signals) /\ Len(signals) \in Nat
  <2>1. values \in Seq(Row0) /\ Len(values) = Len(signals)
    BY DEF IInv, TypeOK, Rows, Row0
  <2>2. QED
    BY <2>1
<1>2. /\ Len(lines) \in Nat
      /\ index \in Nat /\ Len(signals) \in Nat /\ index <= Len(signals)
  <2>1. Len(lines) \in Nat
    BY <1>0, LinesOf
  <2>2. index \in 0..Len(signals)
    BY DEF IInv, TypeOK
  <2>3. QED
    BY <1>1, <2>1, <2>2
<1>3. /\ index' = IF index + Times < Len(signals) THEN index + Times
                                                 ELSE Len(signals)
      /\ text' = IF index + Times > Len(signals) THEN <<>> ELSE Tail(text)
  BY Zenon DEF ParseLine
<1>4. CASE index = Len(signals)
  <2>1. index' = index /\ text' = <<>>
    <3>1. /\ ~ (index + Times < Len(signals))
          /\ index + Times > Len(signals)
      BY <1>0, <1>1, <1>2, <1>4
    <3>2. QED
      BY <1>3, <1>4, <3>1
  <2>2. values' = values
    <3>1. values' = [i \in DOMAIN values |-> values[i]]
      BY <1>0, <1>1, <1>2, <1>4 DEF ParseLine
    <3>2. QED
      BY <1>1, <1>2, <3>1
  <2>3. QED
    BY <1>0, <2>1, <2>2
    DEF IInv, TypeOK, TextInv, StartInv, ParseInv, PublishedInv
<1>5. CASE index < Len(signals)
  <2>1. PICK m \in 0..(Len(lines) - 1) :
           /\ index = m * Times /\ m * Times \in Nat
           /\ index + Times <= Len(signals)
           /\ Len(text) = Len(lines) - m
           /\ \A i \in 1..Len(text) : text[i] = lines[m + i]
    BY <1>5, WholeLine
  <2> m \in Nat
    BY <1>1
  <2>2. index' = index + Times
    BY <1>0, <1>2, <1>3, <2>1
  <2>3. /\ Head(text) = lines[m + 1]
        /\ Head(text) \in 0..(Cpus - 1) \cup {Summary}
        /\ Tail(text) \in Seq(0..(Cpus - 1) \cup {Summary})
        /\ Len(Tail(text)) = Len(text) - 1
        /\ \A i \in 1..Len(Tail(text)) : Tail(text)[i] = text[i + 1]
    <3> DEFINE S == 0..(Cpus - 1) \cup {Summary}
    <3>1. text \in Seq(S)
      BY DEF IInv, TextInv
    <3> HIDE DEF S
    <3>2. /\ Head(text) = text[1] /\ text[1] \in S /\ Tail(text) \in Seq(S)
          /\ Len(Tail(text)) = Len(text) - 1 /\ Len(text) \in Nat \ {0}
          /\ \A i \in 1..Len(Tail(text)) : Tail(text)[i] = text[i + 1]
      BY <1>0, <3>1, HeadTailProperties, LenProperties
    <3>3. text[1] = lines[m + 1]
      BY <2>1, <3>2
    <3>4. QED
      BY <3>2, <3>3 DEF S
  <2>4. text' = Tail(text)
    BY <1>0, <1>1, <1>2, <1>3, <2>1
  <2>5. \A i \in 1..Len(signals) :
          values'[i] = IF i \in (index + 1)..(index + Times)
                       THEN [cpu |-> Head(text), time |-> i - index,
                             fresh |-> TRUE]
                       ELSE values[i]
    BY <1>0, <1>1, <1>2, <2>1 DEF ParseLine
  <2>6. values' \in Rows /\ Len(values') = Len(signals)
    <3>1. ASSUME NEW i \in (index + 1)..(index + Times)
          PROVE  [cpu |-> Head(text), time |-> i - index, fresh |-> TRUE]
                   \in Row0
      <4>1. index \in Nat /\ Times \in Nat
        BY <1>2, ProcStatAssumption
      <4>2. i - index \in 0..Times
        BY <4>1
      <4>3. QED
        BY <2>3, <4>2 DEF Row0
    <3>2. \A i \in 1..Len(signals) : values[i] \in Row0
      BY <1>1
    <3>3. \A i \in 1..Len(signals) : values'[i] \in Row0
      BY <2>5, <3>1, <3>2
    <3>4. values' = [i \in 1..Len(signals) |-> values'[i]]
      BY <1>1 DEF ParseLine
    <3>5. values' \in [1..Len(signals) -> Row0]
      BY <3>3, <3>4
    <3>6. QED
      BY <1>1, <1>2, <3>5 DEF Rows, Row0
  <2>7. Filled(values', index', lines)
    <3>1. SUFFICES ASSUME NEW i \in 1..(index + Times)
                   PROVE  values'[i] = Row(lines, i)
      BY <2>2 DEF Filled
    <3>2. CASE i \in 1..index
      <4>1. values[i] = Row(lines, i)
        BY <1>0, <3>2 DEF IInv, ParseInv, Filled
      <4>2. i \in 1..Len(signals) /\ ~ (i \in (index + 1)..(index + Times))
        BY <1>1, <1>2, <2>1, <3>2
      <4>3. QED
        BY <2>5, <4>1, <4>2
    <3>3. CASE i \in (index + 1)..(index + Times)
      <4>1. (i - 1) \div Times = m /\ ((i - 1) % Times) + 1 = i - m * Times
        BY <1>0, <2>1, <3>3, NextLine
      <4>2. i \in 1..Len(signals)
        BY <1>0, <1>1, <1>2, <2>1, <3>3
      <4>3. values'[i] = [cpu |-> lines[m + 1], time |-> i - m * Times,
                          fresh |-> TRUE]
        BY <2>1, <2>3, <2>5, <3>3, <4>2
      <4>4. QED
        BY <4>1, <4>3 DEF Row
    <3>4. QED
      BY <1>0, <1>1, <1>2, <3>2, <3>3
  <2>8. index' = (m + 1) * Times /\ index' <= Len(lines) * Times
    <3>1. (m + 1) * Times = m * Times + Times
      BY <1>0
    <3>2. PICK e \in Nat : Len(lines) = m + 1 + e
      <4>1. Len(lines) - m - 1 \in Nat
            /\ Len(lines) = m + 1 + (Len(lines) - m - 1)
        BY <1>1
      <4>2. QED
        BY <4>1
    <3>3. Len(lines) * Times = (m + 1) * Times + e * Times
          /\ e * Times \in Nat
      BY <1>0, <3>2
    <3>4. QED
      BY <1>0, <2>1, <2>2, <3>1, <3>3
  <2>9. \/ text' = <<>>
        \/ \E k \in 0..(Len(lines) - 1) :
             /\ index' = k * Times /\ Len(text') = Len(lines) - k
             /\ \A i \in 1..Len(text') : text'[i] = lines[k + i]
    <3>1. CASE m + 1 = Len(lines)
      <4>1. Len(text) = 1
        BY <1>2, <2>1, <3>1
      <4>2. Len(Tail(text)) = 0
        BY <2>3, <4>1
      <4>3. QED
        BY <2>3, <2>4, <4>2, EmptySeq
    <3>2. CASE m + 1 # Len(lines)
      <4>1. /\ m + 1 \in 0..(Len(lines) - 1)
            /\ Len(text') = Len(lines) - (m + 1)
        BY <1>1, <1>2, <2>1, <2>3, <2>4, <3>2
      <4>2. \A i \in 1..Len(text') : text'[i] = lines[(m + 1) + i]
        BY <1>1, <1>2, <2>1, <2>3, <2>4
      <4>3. QED
        BY <2>8, <4>1, <4>2
    <3>3. QED
      BY <3>1, <3>2
  <2>10. ParseInv'
    BY <1>0, <2>7, <2>8, <2>9 DEF ParseInv
  <2>11. index' \in 0..Len(signals)
    BY <1>0, <1>1, <1>2, <2>1, <2>2
  <2>12. TextInv'
    BY <2>3, <2>4 DEF TextInv
  <2>13. QED
    BY <1>0, <2>6, <2>10, <2>11, <2>12
    DEF IInv, TypeOK, StartInv, PublishedInv
<1>6. QED
  BY <1>2, <1>4, <1>5

\* Every step keeps the invariant.
LEMMA StatStep ==
  ASSUME IInv, [Next]_vars PROVE IInv'
<1> Times \in Nat \ {0} /\ Cpus \in Nat \ {0}
  BY ProcStatAssumption
<1>1. ASSUME NEW cpu \in 1..(Cpus - 1), Hotplug(cpu) PROVE IInv'
  <2>1. online' \subseteq 0..(Cpus - 1)
    BY <1>1 DEF Hotplug, IInv, TypeOK
  <2>2. UNCHANGED <<started, signals, text, reading, parsing, index, values,
                    published, covered, kept, mixed>>
    BY <1>1 DEF Hotplug
  <2>3. QED
    BY <2>1, <2>2
    DEF IInv, TypeOK, TextInv, StartInv, ParseInv, PublishedInv
<1>2. CASE Start
  <2> DEFINE n == CpuCount(Lines(online))
  <2>1. n \in Nat \ {0}
    BY LinesOf DEF IInv, TypeOK, CpuCount
  <2>2. /\ started' = TRUE /\ signals' = SignalNames(n, Times)
        /\ values' = [i \in 1..(n * Times) |-> Unset]
        /\ kept' = [i \in 1..(n * Times) |-> Unset]
        /\ ~ started
        /\ UNCHANGED <<online, text, reading, parsing, index, published,
                       covered, mixed>>
    BY <1>2 DEF Start, TimeCount
  <2> HIDE DEF n
  <2>3. n * Times \in Nat /\ Len(signals') = n * Times
    BY <2>1, <2>2, SignalsMade
  <2>4. /\ values' \in Rows /\ Len(values') = Len(signals')
        /\ kept' \in Rows /\ Len(kept') = Len(signals')
    BY <2>2, <2>3, RowsMade
  <2>5. index = 0
    <3>1. index \in 0..Len(signals) /\ signals = <<>>
      BY <2>2 DEF IInv, TypeOK, StartInv
    <3>2. QED
      BY <3>1
  <2>6. index' \in 0..Len(signals')
    BY <2>2, <2>3, <2>5
  <2>7. TypeOK'
    BY <2>2, <2>4, <2>6 DEF IInv, TypeOK
  <2>8. StartInv'
    BY <2>1, <2>2 DEF StartInv
  <2>9. ParseInv' /\ PublishedInv' /\ TextInv'
    BY <2>2 DEF IInv, StartInv, ParseInv, PublishedInv, TextInv
  <2>10. QED
    BY <2>7, <2>8, <2>9 DEF IInv
<1>3. CASE Read
  <2> DEFINE lines == Lines(online)
  <2>1. /\ started /\ ~ parsing
        /\ text' = lines /\ reading' = online
        /\ parsing' = TRUE /\ index' = 0 /\ values' = Stale(values)
        /\ UNCHANGED <<online, started, signals, published, covered, kept,
                       mixed>>
    BY <1>3 DEF Read
  <2>2. /\ lines \in Seq(0..(Cpus - 1) \cup {Summary})
        /\ Len(lines) \in Nat \ {0}
    BY LinesOf DEF IInv, TypeOK
  <2>3. values' \in Rows /\ Len(values') = Len(signals)
    BY <2>1, RowsMade DEF IInv, TypeOK
  <2>4. Len(signals) \in Nat
    BY <2>3 DEF Rows
  <2>5. TypeOK'
    BY <2>1, <2>3, <2>4 DEF IInv, TypeOK
  <2>6. TextInv'
    BY <2>1, <2>2 DEF TextInv
  <2>7. ParseInv'
    <3> HIDE DEF lines
    <3>1. Lines(reading') = lines
      BY <2>1 DEF lines
    <3>2. Len(lines) * Times \in Nat
      BY <2>2
    <3>3. /\ 0 \in 0..(Len(lines) - 1) /\ index' = 0 * Times
          /\ Len(text') = Len(lines) - 0
          /\ \A i \in 1..Len(text') : text'[i] = lines[0 + i]
      BY <2>1, <2>2
    <3>4. index' <= Len(lines) * Times /\ Filled(values', index', lines)
      BY <2>1, <3>2 DEF Filled
    <3>5. QED
      BY <3>1, <3>3, <3>4 DEF ParseInv
  <2>8. QED
    BY <2>1, <2>5, <2>6, <2>7 DEF IInv, StartInv, PublishedInv
<1>4. CASE ParseLine
  BY <1>4, ParseStep
<1>5. CASE ParseTooFew
  BY <1>5
  DEF ParseTooFew, IInv, TypeOK, TextInv, StartInv, ParseInv, PublishedInv
<1>6. CASE Publish
  <2>1. /\ parsing /\ index = Len(signals) /\ parsing' = FALSE
        /\ published' = values /\ covered' = reading /\ kept' = Stale(values)
        /\ UNCHANGED <<online, started, signals, text, reading, index, values>>
        /\ mixed' \in BOOLEAN
    BY <1>6 DEF Publish
  <2>2. kept' \in Rows /\ Len(kept') = Len(signals)
    BY <2>1, RowsMade DEF IInv, TypeOK
  <2>3. TypeOK'
    BY <2>1, <2>2 DEF IInv, TypeOK
  <2>4. PublishedInv'
    BY <2>1 DEF IInv, TypeOK, ParseInv, PublishedInv
  <2>5. QED
    BY <2>1, <2>3, <2>4 DEF IInv, TextInv, StartInv, ParseInv
<1>7. CASE UNCHANGED vars
  BY <1>7
  DEF vars, IInv, TypeOK, TextInv, StartInv, ParseInv, PublishedInv
<1>8. QED
  BY <1>1, <1>2, <1>3, <1>4, <1>5, <1>6, <1>7 DEF Next

\* What was parsed into a published sample, for every reachable state.
THEOREM InductiveInvariant == Spec => []IInv
<1>1. Init => IInv
  <2> SUFFICES ASSUME Init PROVE IInv
    OBVIOUS
  <2>1. <<>> \in Rows /\ Len(<<>>) = 0
    BY DEF Rows
  <2>2. <<>> \in Seq(0..(Cpus - 1) \cup {Summary})
    OBVIOUS
  <2>3. TypeOK
    <3>1. index \in 0..Len(signals)
      BY <2>1 DEF Init
    <3>2. online \subseteq 0..(Cpus - 1)
      BY DEF Init
    <3>3. /\ values \in Rows /\ kept \in Rows /\ published \in Rows
          /\ Len(values) = Len(signals) /\ Len(kept) = Len(signals)
      BY <2>1, Zenon DEF Init
    <3>4. QED
      BY <3>1, <3>2, <3>3, Zenon DEF Init, TypeOK
  <2>4. TextInv
    BY <2>2 DEF Init, TextInv
  <2>5. StartInv /\ ParseInv /\ PublishedInv
    BY DEF Init, StartInv, ParseInv, PublishedInv
  <2>6. QED
    BY <2>3, <2>4, <2>5 DEF IInv
<1>2. IInv /\ [Next]_vars => IInv'
  BY StatStep
<1>3. QED
  BY <1>1, <1>2, PTL DEF Spec

\* No value of a published sample was left in the structure by an earlier
\* attempt that failed (proc_stat_parse_times, cpumon_main).
THEOREM ValuesFresh == Spec => []FreshValues
<1>1. IInv => FreshValues
  <2> SUFFICES ASSUME IInv, NEW i \in DOMAIN published
               PROVE  published[i].fresh
    BY DEF FreshValues
  <2>1. published \in Rows /\ published # <<>>
    BY DEF IInv, TypeOK
  <2>2. i \in 1..Len(published)
    BY <2>1 DEF Rows
  <2>3. published[i] = Row(Lines(covered), i)
    BY <2>1, <2>2 DEF IInv, PublishedInv, Filled
  <2>4. QED
    BY <2>3 DEF Row
<1>2. QED
  BY <1>1, InductiveInvariant, PTL

\* The values of a sample and the signals, by line and column.
LEMMA RowOf ==
  ASSUME IInv, NEW i \in DOMAIN published
  PROVE  \E line \in 0..(Len(Lines(covered)) - 1) :
           /\ published[i].cpu = Lines(covered)[line + 1]
           /\ published[i].time = ((i - 1) % Times) + 1
           /\ signals[i] = <<CpuName(line), ((i - 1) % Times) + 1>>
<1> DEFINE lines == Lines(covered)
           line == (i - 1) \div Times
<1>1. published \in Rows /\ published # <<>>
  BY DEF IInv, TypeOK
<1>2. i \in 1..Len(published) /\ Len(published) \in Nat
  BY <1>1 DEF Rows
<1>3. /\ published[i] = Row(lines, i)
      /\ Len(published) = Len(signals)
      /\ Len(signals) <= Len(lines) * Times
  BY <1>1, <1>2 DEF IInv, PublishedInv, Filled
<1>4. Len(lines) \in Nat
  BY LinesOf DEF IInv, TypeOK
<1>5. Times \in Nat \ {0}
  BY ProcStatAssumption
<1>6. i \in 1..(Len(lines) * Times)
  <2>1. Len(lines) * Times \in Nat
    BY <1>4, <1>5
  <2>2. QED
    BY <1>2, <1>3, <2>1
<1>7. line \in 0..(Len(lines) - 1)
  BY <1>4, <1>5, <1>6, InLine
<1>8. signals[i] = <<CpuName(line), ((i - 1) % Times) + 1>>
  <2>1. started
    BY <1>1 DEF IInv, StartInv
  <2>2. PICK n \in Nat \ {0} : signals = SignalNames(n, Times)
    BY <2>1 DEF IInv, StartInv
  <2>3. i \in 1..(n * Times)
    BY <1>2, <1>3, <2>2, SignalsMade
  <2>4. QED
    BY <2>2, <2>3, SignalsMade
<1>9. QED
  BY <1>3, <1>7, <1>8 DEF Row

\* The signals are fed from the columns they are named after, whatever CPUs come
\* and go (proc_stat_parse_times, checked_create_time_signals).
THEOREM ColumnsMatch == Spec => []TimesAligned
<1>1. IInv => TimesAligned
  <2> SUFFICES ASSUME IInv, NEW i \in DOMAIN published
      PROVE  /\ published[i].time = signals[i][2]
             /\ (published[i].cpu = Summary) <=> (signals[i][1] = Summary)
    BY DEF TimesAligned
  <2> DEFINE lines == Lines(covered)
  <2>1. PICK line \in 0..(Len(lines) - 1) :
           /\ published[i].cpu = lines[line + 1]
           /\ published[i].time = ((i - 1) % Times) + 1
           /\ signals[i] = <<CpuName(line), ((i - 1) % Times) + 1>>
    BY RowOf
  <2>2. /\ Len(lines) \in Nat /\ lines[1] = Summary
        /\ \A j \in 2..Len(lines) : lines[j] \in 0..(Cpus - 1)
    BY LinesOf DEF IInv, TypeOK
  <2>3. published[i].time = signals[i][2] /\ signals[i][1] = CpuName(line)
    BY <2>1
  <2>4. CASE line = 0
    BY <2>1, <2>2, <2>3, <2>4 DEF CpuName
  <2>5. CASE line # 0
    <3>1. line + 1 \in 2..Len(lines) /\ line \in Int
      BY <2>1, <2>2, <2>5
    <3>2. lines[line + 1] # Summary
      BY <2>2, <3>1, ProcStatAssumption
    <3>3. CpuName(line) # Summary
      BY <2>5, <3>1, ProcStatAssumption DEF CpuName
    <3>4. QED
      BY <2>1, <2>3, <3>2, <3>3
  <2>6. QED
    BY <2>4, <2>5
<1>2. QED
  BY <1>1, InductiveInvariant, PTL

\* As long as no CPU between others is offline, the signals are fed from the
\* CPUs they are named after (supply_cpu_name, proc_stat_parse_times).
THEOREM CpusMatch == Spec => []CpusAligned
<1>1. IInv => CpusAligned
  <2> SUFFICES ASSUME IInv, NEW n \in 1..Cpus, covered = 0..(n - 1),
                      NEW i \in DOMAIN published
               PROVE  published[i].cpu = signals[i][1]
    BY DEF CpusAligned
  <2> DEFINE lines == Lines(covered)
  <2>1. PICK line \in 0..(Len(lines) - 1) :
           /\ published[i].cpu = lines[line + 1]
           /\ signals[i] = <<CpuName(line), ((i - 1) % Times) + 1>>
    BY RowOf
  <2>2. /\ Len(lines) \in Nat
        /\ \A j \in 1..Len(lines) : lines[j] = CpuName(j - 1)
    <3>1. covered \in SUBSET (0..(Cpus - 1))
      BY DEF IInv, TypeOK
    <3>2. QED
      BY <3>1, LinesOf
  <2>3. line + 1 \in 1..Len(lines) /\ (line + 1) - 1 = line
    BY <2>1, <2>2
  <2>4. lines[line + 1] = CpuName(line)
    BY <2>2, <2>3
  <2>5. QED
    BY <2>1, <2>4
<1>2. QED
  BY <1>1, InductiveInvariant, PTL

=============================================================================
