------------------------- MODULE CpuMonTimingProofs -------------------------
(***************************************************************************)
(* What CpuMonTiming.cfg checks for one choice of the periods holds for    *)
(* all of them.                                                            *)
(*                                                                         *)
(* Structures are never lost (CountInv), so it is enough to bound how many *)
(* are full or in the batch.  What is full before a dump is bounded by the *)
(* clock (ClockInv): the timestamps of the samples increase by at least    *)
(* Spacing, and the distance from the last one to next_dump changes only   *)
(* with a sample or a dump.  What becomes full during a request is bounded *)
(* by its duration (SampledIn).  With both, all but Steady structures are  *)
(* empty when the server has been up for CatchUp (SteadyInv); from there   *)
(* on the pool lasts for Tolerance at least (OutageInv).                   *)
(*                                                                         *)
(* ServedInv follows what is left through prompt requests.  Main does not  *)
(* look at the pool for a request and a check, and begins to do so with    *)
(* more than the limit, unless it overslept or has just dumped: then the   *)
(* batch that comes back makes up for it.  WaitInv bounds the wait.        *)
(*                                                                         *)
(* Arithmetic is done on names for the new values (DEFINE, then HIDE):     *)
(* the solver knows nothing of sums of primed variables.                   *)
(***************************************************************************)
EXTENDS CpuMonTiming, SampleSeqs, FiniteSetTheorems, TLAPS

-----------------------------------------------------------------------------
(* The constants.                                                          *)

\* Structures are counted by the time they last.
LEMMA Quotient ==
  ASSUME NEW s \in Nat \ {0}, NEW x \in Nat, NEW n \in Nat, n * s <= x + s
  PROVE  n <= x \div s + 1
<1>1. PICK q \in Nat, r \in 0..(s - 1) : x = q * s + r /\ x \div s = q
  <2> DEFINE q == x \div s
             r == (x % s)
  <2>1. q \in Nat /\ r \in 0..(s - 1) /\ x = q * s + r
    OBVIOUS
  <2>2. QED
    BY <2>1
<1>2. SUFFICES ASSUME n > q + 1 PROVE FALSE
  BY <1>1
<1>3. PICK e \in Nat : n = q + 2 + e
  <2>1. n - q - 2 \in Nat /\ n = q + 2 + (n - q - 2)
    BY <1>1, <1>2
  <2>2. QED
    BY <2>1
<1>4. n * s = q * s + s + s + e * s /\ e * s \in Nat /\ q * s \in Nat
  BY <1>1, <1>3
<1>5. QED
  BY <1>1, <1>4

\* There is a greatest step by which the clock is set back.
LEMMA Greatest ==
  ASSUME NEW S, IsFiniteSet(S), S \subseteq Nat, S # {}
  PROVE  Max(S) \in S /\ \A x \in S : x <= Max(S)
<1> DEFINE top(T) == \E m \in T : \A y \in T : y <= m
           I == {k \in Nat : \A T \in SUBSET S :
                               Cardinality(T) = k + 1 => top(T)}
<1>0. \A T \in SUBSET S : /\ IsFiniteSet(T) /\ Cardinality(T) \in Nat
                          /\ \A y \in T : y \in Nat
  BY FS_Subset, FS_CardinalityType
<1>1. 0 \in I
  <2>1. SUFFICES ASSUME NEW T \in SUBSET S, Cardinality(T) = 1
                 PROVE  top(T)
    OBVIOUS
  <2>2. PICK x : T = {x}
    BY <1>0, <2>1, FS_Singleton
  <2>3. QED
    BY <1>0, <2>2
<1>2. ASSUME NEW k \in I PROVE k + 1 \in I
  <2>1. SUFFICES ASSUME NEW T \in SUBSET S, Cardinality(T) = k + 2
                 PROVE  top(T)
    BY <1>2
  <2> k \in Nat
    BY <1>2
  <2>2. PICK x : x \in T
    BY <1>0, <2>1, FS_EmptySet
  <2>3. Cardinality(T \ {x}) = k + 1
    BY <1>0, <2>1, <2>2, FS_RemoveElement
  <2>4. PICK m \in T \ {x} : \A y \in T \ {x} : y <= m
    BY <1>2, <2>3
  <2>5. CASE x <= m
    BY <2>2, <2>4, <2>5
  <2>6. CASE ~ (x <= m)
    <3>1. \A y \in T : y <= x
      BY <1>0, <2>2, <2>4, <2>6
    <3>2. QED
      BY <2>2, <3>1
  <2>7. QED
    BY <2>5, <2>6
<1>3. I = Nat
  <2>1. I \subseteq Nat
    OBVIOUS
  <2> HIDE DEF I
  <2>2. QED
    BY <1>1, <1>2, <2>1, Induction
<1>4. Cardinality(S) - 1 \in Nat /\ Cardinality(S) = (Cardinality(S) - 1) + 1
  BY <1>0, FS_EmptySet
<1>5. top(S)
  BY <1>3, <1>4
<1>6. PICK m \in S : \A y \in S : m >= y
  BY <1>0, <1>5
<1>7. Max(S) \in S /\ \A y \in S : Max(S) >= y
  BY <1>6 DEF Max
<1>8. QED
  BY <1>0, <1>7

\* The periods and counts, each by its name.
LEMMA Constants ==
  /\ SampleCount \in Nat \ {0} /\ SamplePeriod \in Nat \ {0}
  /\ DumpPeriod \in Nat \ {0} /\ RetrySecs \in Nat \ {0}
  /\ CheckSecs \in Nat \ {0} /\ EmptyMin \in Nat /\ MaxPerform \in Nat
BY TimingAssumption

\* The clock is set back by up to MaxBack, which is one of the steps or none.
LEMMA Steps ==
  /\ MaxBack \in Nat
  /\ \A secs \in BackSteps : secs \in Nat \ {0} /\ secs <= MaxBack
  /\ BackSteps = {} => MaxBack = 0
<1> DEFINE S == BackSteps \cup {0}
<1>1. IsFiniteSet(S) /\ S \subseteq Nat /\ S # {}
  BY TimingAssumption, FS_AddElement
<1>2. Max(S) \in S /\ \A x \in S : x <= Max(S)
  <2> HIDE DEF S
  <2>1. QED
    BY <1>1, Greatest
<1>3. QED
  BY <1>1, <1>2, TimingAssumption DEF MaxBack

\* Samples are a period apart, or at least a second.
LEMMA Spaces ==
  /\ Spacing \in Nat \ {0} /\ Spacing <= SamplePeriod
  /\ BackSteps = {} => Spacing = SamplePeriod
  /\ BackSteps # {} => Spacing = 1
BY Constants DEF Spacing

\* What the time before a dump, and that of a request, says of the counts.
LEMMA Bounds ==
  /\ Window \in Nat \ {0} /\ Burst \in Nat \ {0}
  /\ Steady \in Nat /\ Steady - Burst >= Window /\ Steady - Burst >= Burst
  /\ \A n \in Nat : n * Spacing <= DumpPeriod + SamplePeriod + 1 + Spacing
                      => n <= Window
  /\ \A n \in Nat : n * SamplePeriod <= MaxPerform + SamplePeriod => n <= Burst
<1>1. Window \in Nat \ {0}
  BY Constants, Spaces DEF Window
<1>2. Burst \in Nat \ {0}
  BY Constants DEF Burst
<1>3. Max({Window, Burst}) \in Nat /\ Max({Window, Burst}) >= Window
      /\ Max({Window, Burst}) >= Burst
  <2> DEFINE S == {Window, Burst}
  <2>1. IsFiniteSet(S) /\ S \subseteq Nat /\ S # {}
    <3>1. S = {Window} \cup {Burst}
      OBVIOUS
    <3>2. IsFiniteSet({Window} \cup {Burst})
      BY FS_Singleton, FS_AddElement
    <3>3. QED
      BY <1>1, <1>2, <3>1, <3>2
  <2>2. Max(S) \in S /\ \A x \in S : x <= Max(S)
    <3> HIDE DEF S
    <3>1. QED
      BY <2>1, Greatest
  <2>3. QED
    BY <1>1, <1>2, <2>2
<1>4. Steady \in Nat /\ Steady - Burst >= Window /\ Steady - Burst >= Burst
  BY <1>1, <1>2, <1>3 DEF Steady
<1>5. ASSUME NEW n \in Nat,
             n * Spacing <= DumpPeriod + SamplePeriod + 1 + Spacing
      PROVE  n <= Window
  BY <1>5, Constants, Spaces, Quotient DEF Window
<1>6. ASSUME NEW n \in Nat, n * SamplePeriod <= MaxPerform + SamplePeriod
      PROVE  n <= Burst
  BY <1>6, Constants, Quotient DEF Burst
<1>7. QED
  BY <1>1, <1>2, <1>4, <1>5, <1>6

\* The derived times, and what Prompt was chosen for.
LEMMA Times ==
  /\ CatchUp \in Nat /\ CatchUp = RetrySecs + CheckSecs + 2 * MaxPerform
  /\ Prompt \in Int
  /\ (EmptyMin + 1) * SamplePeriod \in Nat
  /\ 2 * (Prompt + CheckSecs) < (EmptyMin + 1) * SamplePeriod
  /\ Tolerance \in Int
  /\ Tolerance = (SampleCount - EmptyMin - Steady - 2) * SamplePeriod
<1>1. CatchUp \in Nat /\ CatchUp = RetrySecs + CheckSecs + 2 * MaxPerform
  BY Constants DEF CatchUp
<1>2. (EmptyMin + 1) * SamplePeriod \in Nat
  BY Constants
<1>3. Prompt \in Int /\ 2 * (Prompt + CheckSecs) < (EmptyMin + 1) * SamplePeriod
  <2> DEFINE x == (EmptyMin + 1) * SamplePeriod
             h == (x - 1) \div 2
  <2>1. x \in Nat
    BY <1>2
  <2>2. h \in Int /\ 2 * h <= x - 1
    <3> HIDE DEF x
    <3>1. QED
      BY <2>1
  <2>3. Prompt = h - CheckSecs
    BY DEF Prompt
  <2> HIDE DEF h, x
  <2>4. Prompt \in Int /\ 2 * (Prompt + CheckSecs) < x
    BY <2>1, <2>2, <2>3, Constants
  <2>5. QED
    BY <2>4 DEF x
<1>4. Tolerance \in Int
      /\ Tolerance = (SampleCount - EmptyMin - Steady - 2) * SamplePeriod
  BY Constants, Bounds DEF Tolerance
<1>5. QED
  BY <1>1, <1>2, <1>3, <1>4

-----------------------------------------------------------------------------
(* The inductive invariant.                                                *)

held == IF holding THEN 1 ELSE 0
waiting == IF sampler = "wait" THEN 1 ELSE 0

\* No structure is lost, and what the states of the two threads mean.
CountInv ==
  /\ empty \in Nat /\ full \in Nat /\ batch \in Nat /\ holding \in BOOLEAN
  /\ empty + full + batch + held = SampleCount
  /\ sampler \in {"sleep", "wait"} /\ sample_in \in 0..SamplePeriod
  /\ waited \in Nat
  /\ sampler = "wait" => sample_in = 0 /\ ~ holding
  /\ sampler = "sleep" => waited = 0
  /\ main \in {"sleep", "perform", "pause"} /\ (main = "sleep" <=> batch = 0)
  /\ busy \in 0..MaxPerform /\ (main # "perform" => busy = 0)
  /\ check_in \in 0..CheckSecs
  /\ retry_delay \in 0..RetrySecs
  /\ main = "pause" => retry_delay > 0

\* The clock.  After so many samples the timestamp is so much closer to the next
\* dump: dump_in + age is the distance of the two, which stays as it is when the
\* clock goes on or is set back.
ClockInv ==
  /\ age \in Int /\ dump_in \in Int /\ behind \in 0..MaxBack
  /\ age <= SamplePeriod + 1 /\ age + behind >= 0 /\ dump_in >= -Overdue
  /\ BackSteps = {} /\ sampler = "sleep" => age + sample_in >= SamplePeriod
  /\ dump_in - behind > -Overdue =>
       (full + waiting) * Spacing + dump_in + age
         <= DumpPeriod + SamplePeriod + 1 + Spacing

\* The world.
WorldInv ==
  /\ server \in {"up", "down"} /\ slow \in BOOLEAN /\ failing_for \in Int
  /\ up_for \in 0..CatchUp
  /\ up_for > 0 => behind = 0 /\ server = "up"

\* What is full was sampled in so many seconds.
SampledIn(secs) == full * SamplePeriod <= secs + sample_in

\* Either the server was out of reach not long ago, or only so many structures
\* are in use.
SteadyInv ==
  /\ main = "pause" => up_for + check_in + retry_delay <= RetrySecs + CheckSecs
  /\ main = "perform" =>
       \/ up_for < RetrySecs + CheckSecs + busy
       \/ /\ SampledIn(busy)
          /\ \/ batch <= Steady - Burst
             \/ up_for < RetrySecs + CheckSecs + MaxPerform + busy
  /\ main = "sleep" /\ dump_in < 0 =>
       \/ up_for < RetrySecs + CheckSecs + MaxPerform
       \/ SampledIn(MaxPerform)

\* How long the empty structures last.
lasts == empty * SamplePeriod + sample_in

\* What was left when the server went out of reach is used up no faster.
OutageInv ==
  \/ failing_for >= Tolerance
  \/ (SampleCount - Steady - 1) * SamplePeriod <= failing_for + lasts

\* As long as requests are prompt, what is left is enough for the time that main
\* is blind.  Where less is left, main overslept, or dumped a first time since:
\* then few structures are full, and the batch that comes back is large.
Enough == (EmptyMin + 1) * SamplePeriod
Missed == Prompt + CheckSecs
LeftAfter(secs) ==
  \/ lasts + secs >= Enough
  \/ lasts + secs >= Enough - Missed /\ SampledIn(secs)
ServedInv ==
  \/ slow
  \/ /\ sampler = "sleep"
     /\ main = "sleep" =>
          /\ empty * SamplePeriod >= Enough - Missed
          /\ dump_in < 0 => lasts >= Enough + SamplePeriod - Missed
     /\ main = "perform" => busy <= Prompt /\ LeftAfter(busy)
     /\ main = "pause" => LeftAfter(Missed - check_in)

\* How long the sampler waits: not while main sleeps.
WaitInv ==
  /\ waited <= Blind
  /\ main = "sleep" /\ empty = 0 =>
       sampler = "sleep" /\ (dump_in < 0 => sample_in = SamplePeriod)
  /\ sampler = "wait" /\ empty = 0 =>
       /\ main = "perform" => waited <= busy
       /\ main = "pause" => waited <= MaxPerform + CheckSecs - check_in

-----------------------------------------------------------------------------
(* The structures.                                                         *)

\* What filling a structure does to the pool.
LEMMA Fills ==
  ASSUME CountInv, FillSample
  PROVE  /\ \/ full' = full + 1 /\ empty' \in {empty, empty - 1}
            \/ full' = full /\ empty' \in {empty, empty - 1}
         /\ empty' \in Nat /\ full' \in Nat /\ holding' \in BOOLEAN
         /\ empty' = empty - 1 \/ holding
         /\ empty' + full' + batch' + held' = SampleCount
         /\ sampler' = "sleep" /\ sample_in' = SamplePeriod /\ waited' = 0
         /\ UNCHANGED <<batch, main, dump_in, busy, check_in, retry_delay,
                        server, behind, up_for, failing_for, slow>>
<1>1. /\ holding \/ empty > 0
      /\ empty' = IF holding THEN empty ELSE empty - 1
      /\ \/ full' = full + 1 /\ holding' = FALSE
         \/ full' = full /\ holding' = TRUE
      /\ sampler' = "sleep" /\ sample_in' = SamplePeriod /\ waited' = 0
      /\ UNCHANGED <<batch, main, dump_in, busy, check_in, retry_delay,
                     server, behind, up_for, failing_for, slow>>
  BY DEF FillSample, mainVars, worldVars
<1>2. /\ empty \in Nat /\ full \in Nat /\ batch \in Nat
      /\ empty + full + batch + held = SampleCount
  BY DEF CountInv
<1>3. /\ \/ empty' = empty /\ held = 1
         \/ empty' = empty - 1 /\ empty > 0 /\ held = 0
      /\ \/ full' = full + 1 /\ held' = 0
         \/ full' = full /\ held' = 1
      /\ holding' \in BOOLEAN
      /\ empty' = empty - 1 \/ holding
  BY <1>1, Zenon DEF held
<1>4. /\ empty' \in Nat /\ full' \in Nat
      /\ empty' + full' + batch' + held' = SampleCount
  BY <1>1, <1>2, <1>3
<1>5. QED
  BY <1>1, <1>3, <1>4

\* No step loses a structure.
LEMMA CountStep ==
  ASSUME CountInv, [Next]_vars PROVE CountInv'
<1> USE Constants
<1>1. CASE SkipReading
  BY <1>1 DEF SkipReading, SamplerWakes, CountInv, held, mainVars, poolVars,
              worldVars
<1>2. CASE TakeSample
  BY <1>2, Fills DEF TakeSample, CountInv
<1>3. CASE StartWait
  BY <1>3 DEF StartWait, SamplerWakes, CountInv, held, mainVars, poolVars,
              worldVars
<1>4. CASE EndWait
  BY <1>4, Fills DEF EndWait, CountInv
<1>5. CASE Dump
  BY <1>5 DEF Dump, CountInv, held, samplerVars, worldVars
<1>6. CASE RequestSucceeds
  BY <1>6 DEF RequestSucceeds, ReturnBatch, CountInv, held, samplerVars,
              worldVars
<1>7. CASE RequestFails
  BY <1>7 DEF RequestFails, CountInv, held, samplerVars, poolVars, worldVars
<1>8. CASE DropRequest
  BY <1>8 DEF DropRequest, Check, ReturnBatch, CountInv, held, samplerVars,
              worldVars
<1>9. CASE PauseOn
  BY <1>9 DEF PauseOn, Check, Left, CountInv, held, samplerVars, poolVars,
              worldVars
<1>10. CASE RetryNow
  BY <1>10 DEF RetryNow, Check, CountInv, held, samplerVars, poolVars, worldVars
<1>11. CASE ServerFails
  BY <1>11 DEF ServerFails, CountInv, held, samplerVars, mainVars, poolVars
<1>12. CASE ServerReturns
  BY <1>12 DEF ServerReturns, CountInv, held, samplerVars, mainVars, poolVars
<1>13. CASE Tick
  BY <1>13 DEF Tick, SamplerWakes, Check, CountInv, held, poolVars
<1>14. ASSUME NEW secs \in BackSteps, SetClockBack(secs) PROVE CountInv'
  BY <1>14 DEF SetClockBack, CountInv, held, poolVars
<1>15. CASE UNCHANGED vars
  BY <1>15 DEF vars, CountInv, held, samplerVars, mainVars, poolVars
<1>16. QED
  BY <1>1, <1>2, <1>3, <1>4, <1>5, <1>6, <1>7, <1>8, <1>9, <1>10, <1>11,
     <1>12, <1>13, <1>14, <1>15 DEF Next

-----------------------------------------------------------------------------
(* The clock.                                                              *)

\* Products of counts.
LEMMA Products ==
  ASSUME NEW s \in Nat, NEW n \in Nat
  PROVE  /\ n * s \in Nat /\ (n + 1) * s = n * s + s /\ 1 * s = s /\ 0 * s = 0
         /\ n > 0 => (n - 1) * s = n * s - s
OBVIOUS

\* The timestamps of two samples are so far apart.
LEMMA Apart ==
  ASSUME CountInv, ClockInv, SamplerWakes, IsLater PROVE age >= Spacing
<1>1. sampler = "sleep" /\ sample_in = 0 /\ age > 0
  BY DEF SamplerWakes, IsLater
<1>2. CASE BackSteps = {}
  <2>1. age + sample_in >= SamplePeriod /\ age \in Int
    BY <1>1, <1>2 DEF ClockInv
  <2>2. QED
    BY <1>1, <1>2, <2>1, Spaces, Constants
<1>3. CASE BackSteps # {}
  <2>1. age \in Int
    BY DEF ClockInv
  <2>2. QED
    BY <1>1, <1>3, <2>1, Spaces
<1>4. QED
  BY <1>2, <1>3

\* A sampled structure counts as much as the timestamp advances.
LEMMA ClockSampled ==
  ASSUME CountInv, ClockInv, SamplerWakes, IsLater,
         age' = 0, full' + waiting' \in {full, full + 1}, full' \in Nat,
         sampler' = "sleep" => sample_in' = SamplePeriod,
         UNCHANGED <<dump_in, behind>>
  PROVE  ClockInv'
<1> DEFINE n == full' + waiting'
<1>1. age >= Spacing
  BY Apart
<1>2. waiting = 0 /\ full \in Nat /\ waiting' \in Nat
  BY DEF SamplerWakes, waiting, CountInv
<1>3. n \in Nat /\ (n = full \/ n = full + 1)
  <2>1. n = full \/ n = full + 1
    OBVIOUS
  <2> HIDE DEF n
  <2>2. QED
    BY <1>2, <2>1
<1> HIDE DEF n
<1>4. n * Spacing <= full * Spacing + Spacing
  <2>1. /\ full * Spacing \in Nat
        /\ (full + 1) * Spacing = full * Spacing + Spacing
    BY <1>2, Spaces, Products
  <2>2. QED
    BY <1>3, <2>1, Spaces
<1>5. /\ age \in Int /\ dump_in \in Int /\ behind \in 0..MaxBack
      /\ age + behind >= 0 /\ dump_in >= -Overdue
      /\ dump_in - behind > -Overdue =>
           (full + waiting) * Spacing + dump_in + age
             <= DumpPeriod + SamplePeriod + 1 + Spacing
  BY DEF ClockInv
<1>6. dump_in - behind > -Overdue =>
        n * Spacing + dump_in + 0 <= DumpPeriod + SamplePeriod + 1 + Spacing
  <2>1. full + waiting = full
    BY <1>2
  <2>2. full * Spacing \in Nat /\ n * Spacing \in Nat
    BY <1>2, <1>3, Spaces, Products
  <2>3. SUFFICES ASSUME full * Spacing + dump_in + age
                          <= DumpPeriod + SamplePeriod + 1 + Spacing
                 PROVE  n * Spacing + dump_in + 0
                          <= DumpPeriod + SamplePeriod + 1 + Spacing
    BY <1>5, <2>1
  <2>4. QED
    BY <1>1, <1>4, <1>5, <2>2, <2>3, Constants, Spaces
<1>7. /\ 0 <= SamplePeriod + 1 /\ 0 + behind >= 0
      /\ 0 + SamplePeriod >= SamplePeriod
  BY <1>5, Constants, Steps
<1>8. QED
  BY <1>5, <1>6, <1>7 DEF ClockInv, n

\* A second brings the last timestamp and the next dump no closer.
LEMMA ClockTick ==
  ASSUME CountInv, ClockInv, Tick PROVE ClockInv'
<1>0. Overdue \in Nat /\ MaxBack \in Nat /\ Overdue = MaxBack + 1
  BY Steps DEF Overdue
<1>1. /\ age' = AtMost(age + 1, SamplePeriod + 1)
      /\ dump_in' = AtLeast(dump_in - 1, -Overdue)
      /\ behind' = AtLeast(behind - 1, 0)
      /\ UNCHANGED <<sampler, full>> /\ waiting' = waiting
      /\ sampler = "sleep" => sample_in # 0 /\ sample_in' = sample_in - 1
  BY DEF Tick, SamplerWakes, poolVars, waiting
<1>2. /\ age \in Int /\ dump_in \in Int /\ behind \in Nat /\ behind <= MaxBack
      /\ age <= SamplePeriod + 1 /\ age + behind >= 0 /\ dump_in >= -Overdue
      /\ sample_in \in Nat
  BY <1>0, Constants DEF ClockInv, CountInv
<1>3. /\ age' \in Int /\ age' <= SamplePeriod + 1 /\ age' <= age + 1
      /\ age' = age + 1 \/ age' = SamplePeriod + 1
  BY <1>1, <1>2, Constants DEF AtMost
<1>4. /\ dump_in' \in Int /\ dump_in' >= -Overdue
      /\ dump_in' = dump_in - 1 \/ (dump_in' = -Overdue /\ dump_in = -Overdue)
  BY <1>0, <1>1, <1>2 DEF AtLeast
<1>5. /\ behind' \in Nat /\ behind' <= MaxBack
      /\ behind > 0 => behind' = behind - 1
      /\ behind = 0 => behind' = 0
  BY <1>0, <1>1, <1>2 DEF AtLeast
<1>6. age' + behind' >= 0
  <2>1. CASE age' = SamplePeriod + 1
    <3> DEFINE a == age'
               b == behind'
    <3>1. b \in Nat /\ a = SamplePeriod + 1
      BY <1>5, <2>1
    <3> HIDE DEF a, b
    <3>2. a + b >= 0
      BY <3>1, Constants
    <3>3. QED
      BY <3>2 DEF a, b
  <2>2. CASE age' = age + 1 /\ behind > 0
    BY <1>2, <1>5, <2>2
  <2>3. CASE age' = age + 1 /\ behind = 0
    BY <1>2, <1>5, <2>3
  <2>4. QED
    BY <1>2, <1>3, <2>1, <2>2, <2>3
<1>7. BackSteps = {} /\ sampler' = "sleep" => age' + sample_in' >= SamplePeriod
  <2>1. SUFFICES ASSUME BackSteps = {}, sampler = "sleep"
                 PROVE  age' + sample_in' >= SamplePeriod
    BY <1>1
  <2>2. age + sample_in >= SamplePeriod
    BY <2>1 DEF ClockInv
  <2>3. QED
    BY <1>1, <1>2, <1>3, <2>1, <2>2, Constants
<1>8. dump_in' - behind' > -Overdue =>
        (full' + waiting') * Spacing + dump_in' + age'
          <= DumpPeriod + SamplePeriod + 1 + Spacing
  <2> DEFINE m == (full + waiting) * Spacing
  <2>1. full + waiting \in Nat /\ m \in Nat
    BY Spaces, Products DEF waiting, CountInv
  <2>2. SUFFICES ASSUME dump_in' - behind' > -Overdue
                 PROVE  m + dump_in' + age'
                          <= DumpPeriod + SamplePeriod + 1 + Spacing
    BY <1>1
  <2>3. dump_in' = dump_in - 1 /\ dump_in - behind > -Overdue
    <3>1. dump_in' # -Overdue
      <4> DEFINE a == dump_in'
                 b == behind'
      <4>1. b \in Nat /\ a \in Int /\ a - b > -Overdue
        BY <1>4, <1>5, <2>2
      <4> HIDE DEF a, b
      <4>2. a # -Overdue
        BY <1>0, <4>1
      <4>3. QED
        BY <4>2 DEF a
    <3>2. dump_in' = dump_in - 1
      BY <1>4, <3>1
    <3>3. CASE behind > 0
      BY <1>0, <1>2, <1>5, <2>2, <3>2, <3>3
    <3>4. CASE behind = 0
      BY <1>0, <1>2, <1>5, <2>2, <3>2, <3>4
    <3>5. QED
      BY <1>2, <3>2, <3>3, <3>4
  <2>4. m + dump_in + age <= DumpPeriod + SamplePeriod + 1 + Spacing
    BY <2>3 DEF ClockInv
  <2> HIDE DEF m
  <2>5. age' <= age + 1 /\ age' \in Int
    BY <1>3
  <2>6. age \in Int /\ dump_in \in Int
    BY <1>2
  <2>7. m \in Nat
    BY <2>1
  <2> DEFINE top == DumpPeriod + SamplePeriod + 1 + Spacing
  <2>8. top \in Int
    BY Constants, Spaces
  <2>9. m + dump_in + age <= top
    BY <2>4
  <2> HIDE DEF top
  <2>10. dump_in' = dump_in - 1
    BY <2>3
  <2> DEFINE a == age'
  <2>11. a \in Int /\ a <= age + 1
    BY <2>5
  <2> HIDE DEF a
  <2>12. m + (dump_in - 1) + a <= top
    BY <2>6, <2>7, <2>8, <2>9, <2>11
  <2>13. QED
    BY <2>10, <2>12 DEF top, a
<1>9. behind' \in 0..MaxBack
  BY <1>0, <1>5
<1>10. QED
  BY <1>3, <1>4, <1>6, <1>7, <1>8, <1>9 DEF ClockInv

\* Only samples and dumps change the distance of the two.
LEMMA ClockStep ==
  ASSUME CountInv, ClockInv, [Next]_vars PROVE ClockInv'
<1>0. Overdue \in Nat /\ MaxBack \in Nat
  BY Steps DEF Overdue
<1>1. CASE SkipReading
  <2>1. /\ sampler = "sleep" /\ sample_in = 0 /\ sample_in' = SamplePeriod
        /\ UNCHANGED <<sampler, age, dump_in, behind, full>>
    BY <1>1 DEF SkipReading, SamplerWakes, mainVars, poolVars, worldVars
  <2>2. age \in Int /\ (BackSteps = {} => age >= SamplePeriod)
    BY <2>1, Constants DEF ClockInv
  <2>3. BackSteps = {} => age' + sample_in' >= SamplePeriod
    BY <2>1, <2>2, Constants
  <2>4. QED
    BY <2>1, <2>3 DEF ClockInv, waiting
<1>2. CASE TakeSample
  BY <1>2, Fills, ClockSampled DEF TakeSample, CountInv, waiting
<1>3. CASE StartWait
  <2>1. /\ SamplerWakes /\ IsLater /\ age' = 0 /\ sampler' = "wait"
        /\ UNCHANGED <<full, dump_in, behind>>
    BY <1>3 DEF StartWait, mainVars, poolVars, worldVars
  <2>2. full \in Nat /\ waiting' = 1
    BY <2>1 DEF CountInv, waiting
  <2>3. QED
    BY <2>1, <2>2, ClockSampled
<1>4. CASE EndWait
  <2>1. /\ UNCHANGED <<age, dump_in, behind>> /\ sample_in' = SamplePeriod
        /\ full' = full \/ full' = full + 1
        /\ sampler = "wait" /\ sampler' = "sleep" /\ full \in Nat
    BY <1>4, Fills DEF EndWait, CountInv
  <2>2. BackSteps = {} => age' + sample_in' >= SamplePeriod
    BY <2>1, Steps, Constants DEF ClockInv
  <2>3. /\ full + waiting = full + 1
        /\ full' + waiting' = full \/ full' + waiting' = full + 1
    BY <2>1 DEF waiting
  <2>4. (full' + waiting') * Spacing <= (full + waiting) * Spacing
    <3>1. full * Spacing <= (full + 1) * Spacing
      BY <2>1, Spaces, Products
    <3>2. (full + 1) * Spacing <= (full + 1) * Spacing
      BY <2>1, Spaces, Products
    <3>3. QED
      BY <2>3, <3>1, <3>2
  <2>5. /\ (full' + waiting') * Spacing \in Nat
        /\ (full + waiting) * Spacing \in Nat
    BY <2>1, <2>3, Spaces, Products
  <2>6. dump_in - behind > -Overdue =>
          (full' + waiting') * Spacing + dump_in + age
            <= DumpPeriod + SamplePeriod + 1 + Spacing
    <3>1. SUFFICES ASSUME (full + waiting) * Spacing + dump_in + age
                            <= DumpPeriod + SamplePeriod + 1 + Spacing
                   PROVE  (full' + waiting') * Spacing + dump_in + age
                            <= DumpPeriod + SamplePeriod + 1 + Spacing
      BY DEF ClockInv
    <3> DEFINE a == (full' + waiting') * Spacing
               b == (full + waiting) * Spacing
    <3>2. dump_in \in Int /\ age \in Int
      BY DEF ClockInv
    <3> HIDE DEF a, b
    <3>3. a \in Nat /\ b \in Nat /\ a <= b
      BY <2>4, <2>5 DEF a, b
    <3>4. b + dump_in + age <= DumpPeriod + SamplePeriod + 1 + Spacing
      BY <3>1 DEF b
    <3>5. a + dump_in + age <= DumpPeriod + SamplePeriod + 1 + Spacing
      BY <3>2, <3>3, <3>4, Constants, Spaces
    <3>6. QED
      BY <3>5 DEF a
  <2>7. QED
    BY <2>1, <2>2, <2>6 DEF ClockInv
<1>5. CASE Dump
  <2>1. /\ dump_in' = DumpPeriod /\ full' = 0
        /\ UNCHANGED <<age, behind, sampler, sample_in>>
    BY <1>5 DEF Dump, samplerVars, worldVars
  <2>2. waiting' \in {0, 1}
    BY DEF waiting
  <2>3. (full' + waiting') * Spacing <= Spacing
        /\ (full' + waiting') * Spacing \in Nat
    <3>1. full' + waiting' = 0 \/ full' + waiting' = 1
      <4>1. full' = 0
        BY <2>1
      <4>2. waiting' = 0 \/ waiting' = 1
        BY <2>2
      <4>3. QED
        BY <4>1, <4>2
    <3>2. 0 * Spacing = 0 /\ 1 * Spacing = Spacing /\ Spacing \in Nat
      BY Spaces
    <3>3. QED
      BY <3>1, <3>2
  <2>4. age \in Int /\ age <= SamplePeriod + 1
    BY DEF ClockInv
  <2>5. (full' + waiting') * Spacing + dump_in' + age'
          <= DumpPeriod + SamplePeriod + 1 + Spacing
    <3> DEFINE a == (full' + waiting') * Spacing
    <3> HIDE DEF a
    <3>1. a \in Nat /\ a <= Spacing
      BY <2>3 DEF a
    <3>2. a + dump_in' + age' <= DumpPeriod + SamplePeriod + 1 + Spacing
      BY <2>1, <2>4, <3>1, Constants, Spaces
    <3>3. QED
      BY <3>2 DEF a
  <2>6. dump_in' \in Int /\ dump_in' >= -Overdue
    BY <1>0, <2>1, Constants
  <2>7. QED
    BY <2>1, <2>5, <2>6 DEF ClockInv
<1>6. CASE RequestSucceeds \/ DropRequest
  BY <1>6 DEF RequestSucceeds, DropRequest, ReturnBatch, ClockInv, waiting,
              samplerVars, worldVars
<1>7. CASE RequestFails \/ PauseOn \/ RetryNow
  BY <1>7 DEF RequestFails, PauseOn, RetryNow, ClockInv, waiting,
              samplerVars, poolVars, worldVars
<1>8. CASE ServerFails \/ ServerReturns
  BY <1>8 DEF ServerFails, ServerReturns, ClockInv, waiting,
              samplerVars, mainVars, poolVars
<1>9. CASE Tick
  BY <1>9, ClockTick
<1>10. ASSUME NEW secs \in BackSteps, SetClockBack(secs) PROVE ClockInv'
  <2>1. /\ secs \in Nat \ {0} /\ secs <= MaxBack
        /\ behind = 0 /\ age <= SamplePeriod /\ behind' = secs
        /\ age' = age - secs /\ dump_in' = dump_in + secs
        /\ UNCHANGED <<sampler, sample_in, full>> /\ waiting' = waiting
    BY <1>10, Steps DEF SetClockBack, poolVars, waiting
  <2> DEFINE m == (full + waiting) * Spacing
  <2>2. /\ age \in Int /\ dump_in \in Int /\ dump_in >= -Overdue /\ age >= 0
        /\ dump_in - 0 > -Overdue =>
             m + dump_in + age <= DumpPeriod + SamplePeriod + 1 + Spacing
    BY <2>1 DEF ClockInv
  <2>3. m \in Nat
    BY Spaces, Products DEF CountInv, waiting
  <2> HIDE DEF m
  <2>4. dump_in' - behind' > -Overdue =>
          m + dump_in' + age' <= DumpPeriod + SamplePeriod + 1 + Spacing
    BY <1>0, <2>1, <2>2, <2>3, Constants, Spaces
  <2>5. /\ age' \in Int /\ dump_in' \in Int /\ behind' \in 0..MaxBack
        /\ age' <= SamplePeriod + 1 /\ age' + behind' >= 0
        /\ dump_in' >= -Overdue
    BY <1>0, <2>1, <2>2, Constants
  <2>6. QED
    BY <2>1, <2>4, <2>5, <1>10 DEF ClockInv, m
<1>11. CASE UNCHANGED vars
  BY <1>11 DEF vars, ClockInv, waiting, samplerVars, mainVars, poolVars,
               worldVars
<1>12. QED
  BY <1>1, <1>2, <1>3, <1>4, <1>5, <1>6, <1>7, <1>8, <1>9, <1>10, <1>11
  DEF Next

\* The world.
LEMMA WorldStep ==
  ASSUME CountInv, ClockInv, WorldInv, [Next]_vars PROVE WorldInv'
<1>0. CatchUp \in Nat
  BY Times
<1>1. CASE SkipReading \/ TakeSample \/ StartWait \/ EndWait
  BY <1>1 DEF SkipReading, TakeSample, StartWait, EndWait, FillSample, WorldInv,
              worldVars
<1>2. CASE Dump \/ RequestSucceeds \/ RequestFails
  BY <1>2 DEF Dump, RequestSucceeds, RequestFails, ReturnBatch, WorldInv,
              worldVars
<1>3. CASE DropRequest \/ PauseOn \/ RetryNow
  BY <1>3 DEF DropRequest, PauseOn, RetryNow, ReturnBatch, WorldInv, worldVars
<1>4. CASE ServerFails \/ ServerReturns
  BY <1>0, <1>4 DEF ServerFails, ServerReturns, WorldInv
<1>5. CASE Tick
  <2>1. /\ behind' = AtLeast(behind - 1, 0)
        /\ up_for' = IF server = "up" /\ behind = 0
                     THEN AtMost(up_for + 1, CatchUp) ELSE up_for
        /\ failing_for' = AtMost(failing_for + 1, Tolerance)
        /\ server' = server /\ slow' \in BOOLEAN
    BY <1>5 DEF Tick
  <2>2. /\ up_for \in 0..CatchUp /\ failing_for \in Int /\ behind \in Nat
        /\ up_for > 0 => behind = 0 /\ server = "up"
    BY Steps DEF WorldInv, ClockInv
  <2>3. up_for' \in 0..CatchUp
    BY <1>0, <2>1, <2>2 DEF AtMost
  <2>4. failing_for' \in Int
    BY <2>1, <2>2, Times DEF AtMost
  <2>5. up_for' > 0 => behind' = 0 /\ server' = "up"
    <3>1. CASE server = "up" /\ behind = 0
      BY <2>1, <3>1 DEF AtLeast
    <3>2. CASE ~ (server = "up" /\ behind = 0)
      BY <2>1, <2>2, <3>2
    <3>3. QED
      BY <3>1, <3>2
  <2>6. QED
    BY <2>1, <2>3, <2>4, <2>5 DEF WorldInv
<1>6. ASSUME NEW secs \in BackSteps, SetClockBack(secs) PROVE WorldInv'
  BY <1>0, <1>6 DEF SetClockBack, WorldInv
<1>7. CASE UNCHANGED vars
  BY <1>7 DEF vars, WorldInv, worldVars
<1>8. QED
  BY <1>1, <1>2, <1>3, <1>4, <1>5, <1>6, <1>7 DEF Next

-----------------------------------------------------------------------------
(* A step of the sampler, and a second.                                    *)

\* What is full is sampled no faster, and what is left lasts as long as before.
LEMMA Sampled ==
  ASSUME CountInv, SkipReading \/ TakeSample \/ StartWait \/ EndWait
  PROVE  /\ UNCHANGED <<batch, main, dump_in, busy, check_in, retry_delay,
                        server, behind, up_for, failing_for, slow>>
         /\ full' * SamplePeriod - sample_in' <= full * SamplePeriod - sample_in
         /\ empty' * SamplePeriod + sample_in' >= lasts
         /\ full' \in Nat /\ empty' \in Nat /\ sample_in' \in 0..SamplePeriod
         /\ sample_in' >= sample_in
<1> USE Constants
<1>1. /\ UNCHANGED <<batch, main, dump_in, busy, check_in, retry_delay,
                     server, behind, up_for, failing_for, slow>>
      /\ \/ sample_in' = SamplePeriod /\ sample_in = 0
         \/ sample_in' = sample_in /\ full' = full /\ empty' = empty
      /\ full' = full \/ full' = full + 1
      /\ empty' = empty \/ empty' = empty - 1
      /\ full' \in Nat /\ empty' \in Nat
  <2>1. CASE SkipReading \/ StartWait
    BY <2>1 DEF SkipReading, StartWait, SamplerWakes, CountInv, mainVars,
                poolVars, worldVars
  <2>2. CASE TakeSample \/ EndWait
    BY <2>2, Fills DEF TakeSample, EndWait, SamplerWakes, CountInv
  <2>3. QED
    BY <2>1, <2>2
<1>2. full \in Nat /\ empty \in Nat /\ sample_in \in 0..SamplePeriod
  BY DEF CountInv
<1>3. /\ (full + 1) * SamplePeriod = full * SamplePeriod + SamplePeriod
      /\ (empty - 1) * SamplePeriod = empty * SamplePeriod - SamplePeriod
      /\ full * SamplePeriod \in Nat /\ empty * SamplePeriod \in Nat
  BY <1>2
<1>4. full' * SamplePeriod - sample_in' <= full * SamplePeriod - sample_in
  BY <1>1, <1>2, <1>3
<1>5. empty' * SamplePeriod + sample_in' >= lasts
  BY <1>1, <1>2, <1>3 DEF lasts
<1>6. sample_in' \in 0..SamplePeriod /\ sample_in' >= sample_in
  BY <1>1, <1>2
<1>7. QED
  BY <1>1, <1>4, <1>5, <1>6

\* A second, for whoever sleeps, waits or performs.
LEMMA Second ==
  ASSUME CountInv, ClockInv, WorldInv, Tick
  PROVE  /\ UNCHANGED <<empty, full, batch, holding, sampler, main, retry_delay,
                        server>>
         /\ sampler = "sleep" => sample_in > 0 /\ sample_in' = sample_in - 1
                                 /\ waited' = waited
         /\ sampler = "wait" => empty = 0 /\ sample_in' = sample_in
                                /\ waited' = waited + 1
         /\ main = "sleep" => ~ (dump_in' < 0) /\ busy' = busy
         /\ main = "perform" => busy < MaxPerform /\ busy' = busy + 1
         /\ main = "pause" => check_in > 0 /\ check_in' = check_in - 1
                              /\ busy' = busy
         /\ up_for' = up_for \/ up_for' = up_for + 1
         /\ sample_in' = sample_in \/ sample_in' = sample_in - 1
<1>1. /\ UNCHANGED <<empty, full, batch, holding, sampler, main, retry_delay,
                     server>>
      /\ sample_in' = IF sampler = "sleep" THEN sample_in - 1 ELSE sample_in
      /\ waited' = IF sampler = "wait" THEN waited + 1 ELSE waited
      /\ dump_in' = AtLeast(dump_in - 1, -Overdue)
      /\ busy' = IF main = "perform" THEN busy + 1 ELSE busy
      /\ check_in' = IF main = "pause" THEN check_in - 1 ELSE check_in
      /\ up_for' = IF server = "up" /\ behind = 0
                   THEN AtMost(up_for + 1, CatchUp) ELSE up_for
      /\ main = "sleep" => dump_in > 0
      /\ main = "perform" => busy < MaxPerform
      /\ ~ (main = "pause" /\ check_in = 0)
      /\ ~ (sampler = "sleep" /\ sample_in = 0)
      /\ ~ (sampler = "wait" /\ empty > 0)
  BY DEF Tick, SamplerWakes, Check, poolVars
<1>2. /\ sampler \in {"sleep", "wait"} /\ sample_in \in Nat /\ empty \in Nat
      /\ check_in \in Nat /\ dump_in \in Int /\ up_for \in 0..CatchUp
      /\ CatchUp \in Nat
  BY Constants, Times DEF CountInv, ClockInv, WorldInv
<1>3. up_for' = up_for \/ up_for' = up_for + 1
  BY <1>1, <1>2 DEF AtMost
<1>4. main = "sleep" => ~ (dump_in' < 0)
  <2>1. Overdue \in Nat
    BY Steps DEF Overdue
  <2>2. SUFFICES ASSUME main = "sleep" PROVE ~ (dump_in' < 0)
    OBVIOUS
  <2>3. dump_in' = IF dump_in - 1 > -Overdue THEN dump_in - 1 ELSE -Overdue
    BY <1>1 DEF AtLeast
  <2>4. dump_in > 0
    BY <1>1, <2>2
  <2>5. dump_in' = dump_in - 1 \/ (dump_in = 1 /\ dump_in' = 0)
    BY <1>2, <2>1, <2>3, <2>4
  <2>6. QED
    BY <1>2, <2>4, <2>5
<1>5. /\ sampler = "sleep" => sample_in > 0
      /\ sampler = "wait" => empty = 0
      /\ main = "pause" => check_in > 0
  BY <1>1, <1>2
<1>6. QED
  BY <1>1, <1>2, <1>3, <1>4, <1>5

-----------------------------------------------------------------------------
(* When the server has been back for a while.                              *)

\* At the end of a sleep that was long enough little is full.
LEMMA WindowFull ==
  ASSUME CountInv, ClockInv, ~ (dump_in < 0), behind = 0 PROVE full <= Window
<1>1. /\ dump_in \in Int /\ age \in Int /\ age + behind >= 0
      /\ dump_in - behind > -Overdue =>
           (full + waiting) * Spacing + dump_in + age
             <= DumpPeriod + SamplePeriod + 1 + Spacing
  BY DEF ClockInv
<1>2. dump_in - behind > -Overdue
  BY <1>1, Steps DEF Overdue
<1>3. (full + waiting) * Spacing + dump_in + age
        <= DumpPeriod + SamplePeriod + 1 + Spacing
  BY <1>1, <1>2
<1>4. full \in Nat /\ (waiting = 0 \/ waiting = 1)
  BY DEF CountInv, waiting
<1>5. full * Spacing <= (full + waiting) * Spacing
      /\ full * Spacing \in Nat /\ (full + waiting) * Spacing \in Nat
  BY <1>4, Spaces, Products
<1>6. full * Spacing <= DumpPeriod + SamplePeriod + 1 + Spacing
  BY <1>1, <1>3, <1>5, Constants, Spaces
<1>7. QED
  BY <1>4, <1>6, Bounds

\* During a request so few structures become full.
LEMMA Few ==
  ASSUME CountInv, NEW secs \in 0..MaxPerform, SampledIn(secs)
  PROVE  full <= Burst
<1>1. full \in Nat /\ sample_in \in 0..SamplePeriod
  BY DEF CountInv
<1>2. full * SamplePeriod \in Nat /\ full * SamplePeriod <= secs + sample_in
  BY <1>1, Constants DEF SampledIn
<1>3. full * SamplePeriod <= MaxPerform + SamplePeriod
  BY <1>1, <1>2, Constants
<1>4. QED
  BY <1>1, <1>3, Bounds

\* In each state of main, enough time was left to get there.
LEMMA SteadyHolds ==
  ASSUME CountInv, ClockInv, WorldInv, SteadyInv PROVE CatchesUp
<1> SUFFICES ASSUME up_for = CatchUp PROVE full + batch <= Steady
  BY DEF CatchesUp
<1>1. /\ CatchUp = RetrySecs + CheckSecs + 2 * MaxPerform
      /\ RetrySecs \in Nat \ {0} /\ CheckSecs \in Nat \ {0}
      /\ MaxPerform \in Nat
  BY Constants, Times
<1>2. behind = 0
  BY <1>1 DEF WorldInv
<1>3. /\ full \in Nat /\ batch \in Nat /\ busy \in 0..MaxPerform
      /\ check_in \in Nat /\ retry_delay \in Nat
      /\ main \in {"sleep", "perform", "pause"} /\ (main = "sleep" => batch = 0)
      /\ main = "pause" => retry_delay > 0
  BY Constants DEF CountInv
<1>4. /\ Window \in Nat /\ Burst \in Nat /\ Steady \in Nat
      /\ Steady - Burst >= Window /\ Steady - Burst >= Burst
  BY Bounds
<1>5. main # "pause"
  <2>1. SUFFICES ASSUME main = "pause" PROVE FALSE
    OBVIOUS
  <2>2. up_for + check_in + retry_delay <= RetrySecs + CheckSecs
    BY <2>1 DEF SteadyInv
  <2>3. QED
    BY <1>1, <1>3, <2>1, <2>2
<1>6. CASE main = "perform"
  <2>1. \/ up_for < RetrySecs + CheckSecs + busy
        \/ /\ SampledIn(busy)
           /\ \/ batch <= Steady - Burst
              \/ up_for < RetrySecs + CheckSecs + MaxPerform + busy
    BY <1>6 DEF SteadyInv
  <2>2. SampledIn(busy) /\ batch <= Steady - Burst
    BY <1>1, <1>3, <2>1
  <2>3. full <= Burst
    BY <1>3, <2>2, Few
  <2>4. QED
    BY <1>3, <1>4, <2>2, <2>3
<1>7. CASE main = "sleep" /\ dump_in < 0
  <2>1. \/ up_for < RetrySecs + CheckSecs + MaxPerform
        \/ SampledIn(MaxPerform)
    BY <1>7 DEF SteadyInv
  <2>2. SampledIn(MaxPerform)
    BY <1>1, <2>1
  <2>3. full <= Burst
    BY <1>1, <2>2, Few
  <2>4. QED
    BY <1>3, <1>4, <1>7, <2>3
<1>8. CASE main = "sleep" /\ ~ (dump_in < 0)
  <2>1. full <= Window
    BY <1>2, <1>8, WindowFull
  <2>2. QED
    BY <1>3, <1>4, <1>8, <2>1
<1>9. QED
  BY <1>3, <1>5, <1>6, <1>7, <1>8

\* When main has just begun to pause, or the world changed, nothing is claimed.
LEMMA SteadyAnew ==
  ASSUME CountInv', up_for' = 0 PROVE SteadyInv'
<1> DEFINE a == check_in'
           b == retry_delay'
           c == busy'
<1>1. a \in 0..CheckSecs /\ b \in 0..RetrySecs /\ c \in 0..MaxPerform
  BY DEF CountInv
<1> HIDE DEF a, b, c
<1>2. /\ 0 + a + b <= RetrySecs + CheckSecs
      /\ 0 < RetrySecs + CheckSecs + c
      /\ 0 < RetrySecs + CheckSecs + MaxPerform
  BY <1>1, Constants
<1>3. /\ up_for' + check_in' + retry_delay' <= RetrySecs + CheckSecs
      /\ up_for' < RetrySecs + CheckSecs + busy'
      /\ up_for' < RetrySecs + CheckSecs + MaxPerform
  BY <1>2 DEF a, b, c
<1>4. QED
  BY <1>3 DEF SteadyInv

\* A sample is accounted for by the time of the sleep before it.
LEMMA SteadySampled ==
  ASSUME CountInv, SteadyInv, SkipReading \/ TakeSample \/ StartWait \/ EndWait
  PROVE  SteadyInv'
<1>1. UNCHANGED <<batch, main, dump_in, busy, check_in, retry_delay, up_for>>
  BY Sampled
<1>2. ASSUME NEW secs \in Nat, SampledIn(secs)
      PROVE  full' * SamplePeriod <= secs + sample_in'
  <2> DEFINE a == full' * SamplePeriod
             b == sample_in'
             c == full * SamplePeriod
  <2>1. a - b <= c - sample_in /\ a \in Nat /\ b \in Nat
    BY Sampled, Constants
  <2>2. c <= secs + sample_in /\ c \in Nat /\ sample_in \in Nat
    BY <1>2, Constants DEF SampledIn, CountInv
  <2> HIDE DEF a, b, c
  <2>3. a <= secs + b
    BY <2>1, <2>2
  <2>4. QED
    BY <2>3 DEF a, b
<1>3. busy \in Nat /\ MaxPerform \in Nat
  BY Constants DEF CountInv
<1>4. SampledIn(busy) => full' * SamplePeriod <= busy + sample_in'
  BY <1>2, <1>3
<1>5. SampledIn(MaxPerform) => full' * SamplePeriod <= MaxPerform + sample_in'
  BY <1>2, <1>3
<1>6. SampledIn(busy) => SampledIn(busy)'
  BY <1>1, <1>4 DEF SampledIn
<1>7. SampledIn(MaxPerform) => SampledIn(MaxPerform)'
  BY <1>5 DEF SampledIn
<1>8. QED
  BY <1>1, <1>6, <1>7 DEF SteadyInv

\* A second is added to the time of the request and to that since the outage.
LEMMA SteadyTick ==
  ASSUME CountInv, ClockInv, WorldInv, SteadyInv, Tick PROVE SteadyInv'
<1>1. /\ UNCHANGED <<full, batch, main, retry_delay>>
      /\ main = "sleep" => ~ (dump_in' < 0)
      /\ main = "perform" => busy' = busy + 1
      /\ main = "pause" => check_in' = check_in - 1
      /\ up_for' = up_for \/ up_for' = up_for + 1
      /\ sample_in' = sample_in \/ sample_in' = sample_in - 1
  BY Second
<1>2. /\ full \in Nat /\ sample_in \in Nat /\ busy \in Nat /\ check_in \in Nat
      /\ retry_delay \in Nat /\ batch \in Nat
      /\ main \in {"sleep", "perform", "pause"} /\ up_for \in 0..CatchUp
  BY Constants DEF CountInv, WorldInv
<1>3. CASE main = "sleep"
  BY <1>1, <1>3 DEF SteadyInv
<1>4. CASE main = "pause"
  <2>1. up_for + check_in + retry_delay <= RetrySecs + CheckSecs
    BY <1>4 DEF SteadyInv
  <2>2. up_for' + check_in' + retry_delay' <= RetrySecs + CheckSecs
    BY <1>1, <1>2, <1>4, <2>1, Constants, Times
  <2>3. QED
    BY <1>1, <1>4, <2>2 DEF SteadyInv
<1>5. CASE main = "perform"
  <2>1. \/ up_for < RetrySecs + CheckSecs + busy
        \/ /\ SampledIn(busy)
           /\ \/ batch <= Steady - Burst
              \/ up_for < RetrySecs + CheckSecs + MaxPerform + busy
    BY <1>5 DEF SteadyInv
  <2>2. CASE up_for < RetrySecs + CheckSecs + busy
    <3>1. up_for' < RetrySecs + CheckSecs + busy'
      BY <1>1, <1>2, <1>5, <2>2, Constants, Times
    <3>2. QED
      BY <1>1, <1>5, <3>1 DEF SteadyInv
  <2>3. CASE /\ SampledIn(busy)
             /\ \/ batch <= Steady - Burst
                \/ up_for < RetrySecs + CheckSecs + MaxPerform + busy
    <3>1. full * SamplePeriod \in Nat
          /\ full * SamplePeriod <= busy + sample_in
      BY <1>2, <2>3, Constants DEF SampledIn
    <3>2. full * SamplePeriod <= busy' + sample_in'
      BY <1>1, <1>2, <1>5, <3>1
    <3>3. SampledIn(busy)'
      BY <1>1, <3>2 DEF SampledIn
    <3>4. CASE batch <= Steady - Burst
      BY <1>1, <1>5, <3>3, <3>4 DEF SteadyInv
    <3>5. CASE up_for < RetrySecs + CheckSecs + MaxPerform + busy
      <4>1. up_for' < RetrySecs + CheckSecs + MaxPerform + busy'
        BY <1>1, <1>2, <1>5, <3>5, Constants, Times
      <4>2. QED
        BY <1>1, <1>5, <3>3, <4>1 DEF SteadyInv
    <3>6. QED
      BY <2>3, <3>4, <3>5
  <2>4. QED
    BY <2>1, <2>2, <2>3
<1>6. QED
  BY <1>2, <1>3, <1>4, <1>5

\* Each step leaves the bounds as they are, or begins anew.
LEMMA SteadyStep ==
  ASSUME CountInv, ClockInv, WorldInv, SteadyInv, [Next]_vars, CountInv'
  PROVE  SteadyInv'
<1>0. /\ busy \in 0..MaxPerform /\ check_in \in 0..CheckSecs
      /\ retry_delay \in 0..RetrySecs /\ up_for \in Nat
      /\ full \in Nat /\ sample_in \in 0..SamplePeriod
      /\ full * SamplePeriod \in Nat /\ 0 * SamplePeriod = 0
  BY Constants, Times DEF CountInv, WorldInv
<1>1. CASE SkipReading \/ TakeSample \/ StartWait \/ EndWait
  BY <1>1, SteadySampled
<1>2. CASE Dump
  <2>1. /\ main = "sleep" /\ dump_in <= 0 /\ dump_in' = DumpPeriod
        /\ full' = 0 /\ batch' = full
        /\ main' = "sleep" \/ main' = "perform"
        /\ UNCHANGED <<busy, up_for, sample_in>>
    BY <1>2 DEF Dump, samplerVars, worldVars
  <2>2. ~ (dump_in' < 0)
    BY <2>1, Constants
  <2>3. SampledIn(busy)'
    BY <1>0, <2>1 DEF SampledIn
  <2>4. \/ up_for < RetrySecs + CheckSecs + busy
        \/ full <= Steady - Burst
        \/ up_for < RetrySecs + CheckSecs + MaxPerform + busy
    <3>1. CASE dump_in < 0
      <4>1. \/ up_for < RetrySecs + CheckSecs + MaxPerform
            \/ SampledIn(MaxPerform)
        BY <2>1, <3>1 DEF SteadyInv
      <4>2. CASE up_for < RetrySecs + CheckSecs + MaxPerform
        BY <1>0, <4>2, Constants
      <4>3. CASE SampledIn(MaxPerform)
        <5>1. full <= Burst
          BY <4>3, Few, Constants
        <5>2. QED
          BY <1>0, <5>1, Bounds
      <4>4. QED
        BY <4>1, <4>2, <4>3
    <3>2. CASE ~ (dump_in < 0) /\ up_for = 0
      BY <1>0, <3>2, Constants
    <3>3. CASE ~ (dump_in < 0) /\ up_for > 0
      <4>1. full <= Window
        BY <3>3, WindowFull DEF WorldInv
      <4>2. QED
        BY <1>0, <4>1, Bounds
    <3>4. QED
      BY <1>0, <3>1, <3>2, <3>3
  <2>5. QED
    BY <2>1, <2>2, <2>3, <2>4 DEF SteadyInv
<1>3. CASE RequestSucceeds
  <2>1. main = "perform" /\ main' = "sleep"
        /\ UNCHANGED <<full, sample_in, up_for>>
    BY <1>3 DEF RequestSucceeds, ReturnBatch, samplerVars, worldVars
  <2>2. up_for < RetrySecs + CheckSecs + busy \/ SampledIn(busy)
    BY <2>1 DEF SteadyInv
  <2>3. \/ up_for < RetrySecs + CheckSecs + MaxPerform
        \/ full * SamplePeriod <= MaxPerform + sample_in
    BY <1>0, <2>2, Constants DEF SampledIn
  <2>4. QED
    BY <2>1, <2>3 DEF SteadyInv, SampledIn
<1>4. CASE RequestFails
  <2>1. server = "down" /\ up_for' = up_for
    BY <1>4 DEF RequestFails, worldVars
  <2>2. up_for' = 0
    BY <1>0, <2>1 DEF WorldInv
  <2>3. QED
    BY <2>2, SteadyAnew
<1>5. CASE DropRequest \/ RetryNow
  <2>1. /\ main = "pause" /\ check_in = 0 /\ main' \in {"sleep", "perform"}
        /\ up_for' = up_for
    BY <1>5 DEF DropRequest, RetryNow, Check, ReturnBatch, worldVars
  <2>2. up_for + check_in + retry_delay <= RetrySecs + CheckSecs
        /\ retry_delay > 0
    BY <2>1 DEF SteadyInv, CountInv
  <2>3. up_for < RetrySecs + CheckSecs
    BY <1>0, <2>1, <2>2, Constants
  <2> DEFINE c == busy'
  <2>4. c \in 0..MaxPerform
    BY DEF CountInv
  <2> HIDE DEF c
  <2>5. /\ up_for < RetrySecs + CheckSecs + c
        /\ up_for < RetrySecs + CheckSecs + MaxPerform
    BY <1>0, <2>3, <2>4, Constants
  <2>6. /\ up_for' < RetrySecs + CheckSecs + busy'
        /\ up_for' < RetrySecs + CheckSecs + MaxPerform
    BY <2>1, <2>5 DEF c
  <2>7. QED
    BY <2>1, <2>6 DEF SteadyInv
<1>6. CASE PauseOn
  <2>1. /\ main = "pause" /\ check_in = 0 /\ main' = main /\ up_for' = up_for
        /\ retry_delay' = retry_delay - CheckSecs /\ check_in' = CheckSecs
    BY <1>6 DEF PauseOn, Check, Left, worldVars
  <2>2. up_for + check_in + retry_delay <= RetrySecs + CheckSecs
    BY <2>1 DEF SteadyInv
  <2>3. up_for' + check_in' + retry_delay' <= RetrySecs + CheckSecs
    BY <1>0, <2>1, <2>2, Constants
  <2>4. QED
    BY <2>1, <2>3 DEF SteadyInv
<1>7. CASE ServerFails
  BY <1>7, SteadyAnew DEF ServerFails
<1>8. CASE ServerReturns
  BY <1>8 DEF ServerReturns, SteadyInv, SampledIn, samplerVars, mainVars,
              poolVars
<1>9. CASE Tick
  BY <1>9, SteadyTick
<1>10. ASSUME NEW secs \in BackSteps, SetClockBack(secs) PROVE SteadyInv'
  BY <1>10, SteadyAnew DEF SetClockBack
<1>11. CASE UNCHANGED vars
  BY <1>11 DEF vars, SteadyInv, SampledIn, samplerVars, mainVars, poolVars,
               worldVars
<1>12. QED
  BY <1>1, <1>2, <1>3, <1>4, <1>5, <1>6, <1>7, <1>8, <1>9, <1>10, <1>11
  DEF Next

-----------------------------------------------------------------------------
(* How long the pool lasts while the server is out of reach.               *)

\* What the pool is at the beginning of an outage, and at its limit.
LEMMA Outage ==
  /\ (SampleCount - Steady - 1) * SamplePeriod \in Int
  /\ Tolerance = (SampleCount - Steady - 1) * SamplePeriod
                   - (EmptyMin * SamplePeriod + SamplePeriod)
<1>1. /\ SampleCount \in Int /\ Steady \in Int /\ EmptyMin \in Int
      /\ SamplePeriod \in Int
  BY Constants, Bounds
<1>2. (SampleCount - EmptyMin - Steady - 2) * SamplePeriod
        = (SampleCount - Steady - 1) * SamplePeriod
            - (EmptyMin * SamplePeriod + SamplePeriod)
  BY <1>1
<1>3. QED
  BY <1>1, <1>2, Times

\* At the limit the tolerance is used up.
LEMMA OutageHolds ==
  ASSUME CountInv, WorldInv, OutageInv, DropRequest
  PROVE  failing_for >= Tolerance
<1>1. SUFFICES ASSUME (SampleCount - Steady - 1) * SamplePeriod
                        <= failing_for + lasts
               PROVE  failing_for >= Tolerance
  BY DEF OutageInv
<1>2. empty \in Nat /\ sample_in \in 0..SamplePeriod /\ empty <= EmptyMin
  BY DEF CountInv, DropRequest, LowOnSamples
<1>3. empty * SamplePeriod <= EmptyMin * SamplePeriod
      /\ empty * SamplePeriod \in Nat /\ EmptyMin * SamplePeriod \in Nat
  BY <1>2, Constants
<1>4. lasts = empty * SamplePeriod + sample_in
  BY DEF lasts
<1>5. failing_for \in Int
  BY DEF WorldInv
<1> DEFINE big == (SampleCount - Steady - 1) * SamplePeriod
           e == empty * SamplePeriod
           m == EmptyMin * SamplePeriod
<1>6. big \in Int /\ Tolerance = big - (m + SamplePeriod)
  BY Outage
<1>7. big <= failing_for + (e + sample_in) /\ e <= m /\ e \in Nat /\ m \in Nat
  BY <1>1, <1>3, <1>4
<1> HIDE DEF big, e, m
<1>8. QED
  BY <1>2, <1>5, <1>6, <1>7, Constants

\* The invariant is kept when the empty structures last no less.
LEMMA OutageLasts ==
  ASSUME CountInv, WorldInv, OutageInv,
         empty' * SamplePeriod + sample_in' >= lasts,
         empty' \in Nat, sample_in' \in Nat, failing_for' = failing_for
  PROVE  OutageInv'
<1>1. CASE failing_for >= Tolerance
  BY <1>1 DEF OutageInv
<1>2. CASE (SampleCount - Steady - 1) * SamplePeriod <= failing_for + lasts
  <2> DEFINE big == (SampleCount - Steady - 1) * SamplePeriod
             new == empty' * SamplePeriod + sample_in'
             old == lasts
  <2>1. big \in Int /\ new \in Int /\ old \in Int /\ failing_for \in Int
    BY Outage, Constants DEF lasts, CountInv, WorldInv
  <2>2. new >= old /\ big <= failing_for + old
    BY <1>2
  <2> HIDE DEF big, new, old
  <2>3. big <= failing_for + new
    BY <2>1, <2>2
  <2>4. QED
    BY <2>3 DEF big, new, OutageInv, lasts
<1>3. QED
  BY <1>1, <1>2 DEF OutageInv

\* No step takes more from the pool than the time allows.
LEMMA OutageStep ==
  ASSUME CountInv, ClockInv, WorldInv, SteadyInv, OutageInv, [Next]_vars
  PROVE  OutageInv'
<1>0. /\ empty \in Nat /\ batch \in Nat /\ sample_in \in Nat
      /\ failing_for \in Int
      /\ empty * SamplePeriod \in Nat /\ batch * SamplePeriod \in Nat
  BY Constants DEF CountInv, WorldInv
<1>1. CASE SkipReading \/ TakeSample \/ StartWait \/ EndWait
  <2>1. /\ empty' * SamplePeriod + sample_in' >= lasts
        /\ empty' \in Nat /\ sample_in' \in Nat /\ failing_for' = failing_for
    BY <1>1, Sampled, Constants
  <2>2. QED
    BY <2>1, OutageLasts
<1>2. CASE Dump \/ RequestFails \/ PauseOn \/ RetryNow \/ ServerReturns
  BY <1>2 DEF Dump, RequestFails, PauseOn, RetryNow, ServerReturns, OutageInv,
              lasts, samplerVars, poolVars, worldVars
<1>3. CASE RequestSucceeds \/ DropRequest
  <2>1. /\ empty' = empty + batch /\ sample_in' = sample_in
        /\ failing_for' = failing_for
    BY <1>3 DEF RequestSucceeds, DropRequest, ReturnBatch, samplerVars,
                worldVars
  <2>2. (empty + batch) * SamplePeriod
          = empty * SamplePeriod + batch * SamplePeriod
    BY <1>0, Constants
  <2>3. (empty + batch) * SamplePeriod + sample_in >= lasts
    BY <1>0, <2>2 DEF lasts
  <2>4. empty' * SamplePeriod + sample_in' >= lasts
        /\ empty' \in Nat /\ sample_in' \in Nat
    BY <1>0, <2>1, <2>3
  <2>5. QED
    BY <2>1, <2>4, OutageLasts
<1>4. CASE ServerFails
  <2>1. /\ up_for = CatchUp /\ failing_for' = 0
        /\ UNCHANGED <<empty, sample_in>>
    BY <1>4 DEF ServerFails, samplerVars, poolVars
  <2>2. full + batch <= Steady
    BY <2>1, SteadyHolds DEF CatchesUp
  <2>3. /\ full \in Nat /\ held \in {0, 1}
        /\ empty + full + batch + held = SampleCount
    BY DEF CountInv, held
  <2>4. SampleCount - Steady - 1 <= empty /\ SampleCount - Steady - 1 \in Int
    BY <1>0, <2>2, <2>3, Constants, Bounds
  <2>5. (SampleCount - Steady - 1) * SamplePeriod <= empty * SamplePeriod
    BY <1>0, <2>4, Constants
  <2>6. (SampleCount - Steady - 1) * SamplePeriod
          <= 0 + (empty * SamplePeriod + sample_in)
    <3> DEFINE big == (SampleCount - Steady - 1) * SamplePeriod
               e == empty * SamplePeriod
    <3>1. big \in Int /\ e \in Nat /\ big <= e
      BY <1>0, <2>5, Outage
    <3> HIDE DEF big, e
    <3>2. big <= 0 + (e + sample_in)
      BY <1>0, <3>1
    <3>3. QED
      BY <3>2 DEF big, e
  <2>7. QED
    BY <2>1, <2>6 DEF OutageInv, lasts
<1>5. CASE Tick
  <2>1. /\ failing_for' = IF failing_for + 1 < Tolerance
                          THEN failing_for + 1 ELSE Tolerance
        /\ empty' = empty
        /\ sample_in' = sample_in \/ sample_in' = sample_in - 1
    BY <1>5, Second DEF Tick, AtMost
  <2>2. CASE failing_for' = Tolerance
    BY <2>2, Times DEF OutageInv
  <2>3. CASE failing_for + 1 < Tolerance /\ failing_for' = failing_for + 1
    <3>1. (SampleCount - Steady - 1) * SamplePeriod <= failing_for + lasts
      BY <1>0, <2>3, Times DEF OutageInv
    <3>2. (SampleCount - Steady - 1) * SamplePeriod
            <= failing_for' + (empty' * SamplePeriod + sample_in')
      <4> DEFINE big == (SampleCount - Steady - 1) * SamplePeriod
                 e == empty * SamplePeriod
      <4>1. big \in Int /\ e \in Nat /\ big <= failing_for + (e + sample_in)
        BY <1>0, <3>1, Outage DEF lasts
      <4> HIDE DEF big, e
      <4>2. big <= (failing_for + 1) + (e + sample_in)
            /\ big <= (failing_for + 1) + (e + (sample_in - 1))
        BY <1>0, <4>1
      <4>3. QED
        BY <2>1, <2>3, <4>2 DEF big, e
    <3>3. QED
      BY <3>2 DEF OutageInv, lasts
  <2>4. QED
    BY <2>1, <2>2, <2>3
<1>6. ASSUME NEW secs \in BackSteps, SetClockBack(secs) PROVE OutageInv'
  BY <1>6 DEF SetClockBack, OutageInv, lasts, poolVars
<1>7. CASE UNCHANGED vars
  BY <1>7 DEF vars, OutageInv, lasts, samplerVars, poolVars, worldVars
<1>8. QED
  BY <1>1, <1>2, <1>3, <1>4, <1>5, <1>6, <1>7 DEF Next

-----------------------------------------------------------------------------
(* The sampler that waits.                                                 *)

\* A tolerance means room for more than a dump takes, and for the limit.
LEMMA Room ==
  ASSUME 0 <= Tolerance
  PROVE  /\ SampleCount - Steady - 1 >= EmptyMin + 1
         /\ SampleCount >= EmptyMin + 2 + Window + Burst
         /\ Window >= 1 /\ Burst >= 1
<1>1. /\ SampleCount \in Nat /\ EmptyMin \in Nat /\ SamplePeriod \in Nat \ {0}
      /\ Steady \in Nat /\ Window \in Nat \ {0} /\ Burst \in Nat \ {0}
      /\ Steady - Burst >= Window
  BY Constants, Bounds
<1>2. (SampleCount - EmptyMin - Steady - 2) * SamplePeriod >= 0
  BY Times
<1> DEFINE n == SampleCount - EmptyMin - Steady - 2
<1>3. n \in Int /\ n * SamplePeriod >= 0
  BY <1>1, <1>2
<1>4. n >= 0
  <2> HIDE DEF n
  <2>1. QED
    BY <1>1, <1>3
<1>5. QED
  BY <1>1, <1>4

\* The window while main sleeps, whether the clock was set back or not, as soon
\* as a reading is taken.
LEMMA WindowSampled ==
  ASSUME CountInv, ClockInv, SamplerWakes, IsLater, ~ (dump_in < 0)
  PROVE  full + 1 <= Window
<1>1. /\ dump_in \in Int /\ age \in Int /\ behind \in 0..MaxBack
      /\ dump_in - behind > -Overdue =>
           (full + waiting) * Spacing + dump_in + age
             <= DumpPeriod + SamplePeriod + 1 + Spacing
  BY DEF ClockInv
<1>2. dump_in - behind > -Overdue
  BY <1>1, Steps DEF Overdue
<1>3. full \in Nat /\ waiting = 0
  BY DEF CountInv, waiting, SamplerWakes
<1>4. (full + waiting) * Spacing = full * Spacing /\ full * Spacing \in Nat
      /\ (full + 1) * Spacing = full * Spacing + Spacing
  BY <1>3, Spaces, Products
<1>5. age >= Spacing
  BY Apart
<1>6. full * Spacing + dump_in + age <= DumpPeriod + SamplePeriod + 1 + Spacing
  BY <1>1, <1>2, <1>4
<1>7. (full + 1) * Spacing <= DumpPeriod + SamplePeriod + 1 + Spacing
  BY <1>1, <1>4, <1>5, <1>6, Constants, Spaces
<1>8. QED
  BY <1>3, <1>7, Bounds

\* The sampler begins to wait only while main is blind.
LEMMA WaitStep ==
  ASSUME 0 <= Tolerance, CountInv, ClockInv, WorldInv, WaitInv, [Next]_vars
  PROVE  WaitInv'
<1>0. /\ empty \in Nat /\ batch \in Nat /\ full \in Nat /\ waited \in Nat
      /\ busy \in 0..MaxPerform /\ check_in \in 0..CheckSecs
      /\ sampler \in {"sleep", "wait"} /\ main \in {"sleep", "perform", "pause"}
      /\ Blind = MaxPerform + CheckSecs
  BY DEF CountInv, Blind
<1>1. CASE SkipReading
  BY <1>1 DEF SkipReading, SamplerWakes, WaitInv, mainVars, poolVars
<1>2. CASE TakeSample \/ EndWait
  <2>1. sampler' = "sleep" /\ sample_in' = SamplePeriod /\ waited' = 0
    BY <1>2, Fills DEF TakeSample, EndWait
  <2>2. 0 <= Blind
    BY <1>0, Constants
  <2>3. QED
    BY <2>1, <2>2 DEF WaitInv
<1>3. CASE StartWait
  <2>1. /\ SamplerWakes /\ IsLater /\ empty = 0 /\ ~ holding
        /\ sampler' = "wait"
        /\ UNCHANGED <<waited, empty, main, busy, check_in>>
    BY <1>3 DEF StartWait, mainVars, poolVars
  <2>2. waited = 0
    BY <2>1 DEF SamplerWakes, CountInv
  <2>3. main # "sleep"
    <3>1. SUFFICES ASSUME main = "sleep" PROVE FALSE
      OBVIOUS
    <3>2. ~ (dump_in < 0)
      BY <2>1, <3>1, Constants DEF WaitInv, SamplerWakes
    <3>3. full + 1 <= Window
      BY <2>1, <3>2, WindowSampled
    <3>4. full = SampleCount
      BY <2>1, <3>1, Constants DEF CountInv, held
    <3>5. QED
      BY <1>0, <3>3, <3>4, Room, Bounds, Constants
  <2>4. /\ 0 <= Blind /\ 0 <= busy
        /\ 0 <= MaxPerform + CheckSecs - check_in
    BY <1>0, Constants
  <2>5. QED
    BY <2>1, <2>2, <2>3, <2>4 DEF WaitInv
<1>4. CASE Dump
  <2>1. /\ main = "sleep" /\ dump_in' = DumpPeriod
        /\ UNCHANGED <<sampler, sample_in, waited, empty>>
        /\ main' = main \/ main' = "perform"
    BY <1>4 DEF Dump, samplerVars
  <2>2. ~ (dump_in' < 0)
    BY <2>1, Constants
  <2>3. QED
    BY <2>1, <2>2 DEF WaitInv
<1>5. CASE RequestSucceeds \/ DropRequest
  <2>1. /\ main # "sleep" /\ empty' = empty + batch
        /\ UNCHANGED <<sampler, waited>>
    BY <1>5 DEF RequestSucceeds, DropRequest, Check, ReturnBatch, samplerVars
  <2>2. batch # 0
    BY <1>0, <2>1 DEF CountInv
  <2>3. empty + batch # 0
    BY <1>0, <2>2
  <2>4. QED
    BY <2>1, <2>3 DEF WaitInv
<1>6. CASE RequestFails
  <2>1. /\ main = "perform" /\ main' = "pause" /\ check_in' = CheckSecs
        /\ UNCHANGED <<sampler, waited, empty>>
    BY <1>6 DEF RequestFails, samplerVars, poolVars
  <2>2. sampler = "wait" /\ empty = 0 =>
          waited <= MaxPerform + CheckSecs - CheckSecs
    BY <1>0, <2>1, Constants DEF WaitInv
  <2>3. QED
    BY <2>1, <2>2 DEF WaitInv
<1>7. CASE PauseOn \/ RetryNow
  <2>1. ~ (empty <= EmptyMin) /\ UNCHANGED <<waited, empty>>
    BY <1>7 DEF PauseOn, RetryNow, LowOnSamples, poolVars, samplerVars
  <2>2. empty # 0
    BY <1>0, <2>1, Constants
  <2>3. QED
    BY <2>1, <2>2 DEF WaitInv
<1>8. CASE ServerFails \/ ServerReturns
  BY <1>8 DEF ServerFails, ServerReturns, WaitInv, samplerVars, mainVars,
              poolVars
<1>9. CASE Tick
  <2>1. /\ UNCHANGED <<empty, sampler, main>>
        /\ sampler = "sleep" => waited' = waited
        /\ sampler = "wait" => empty = 0 /\ waited' = waited + 1
        /\ main = "sleep" => ~ (dump_in' < 0)
        /\ main = "perform" => busy < MaxPerform /\ busy' = busy + 1
        /\ main = "pause" => check_in > 0 /\ check_in' = check_in - 1
    BY <1>9, Second
  <2>2. CASE sampler = "sleep"
    BY <2>1, <2>2 DEF WaitInv
  <2>3. CASE sampler = "wait" /\ main = "perform"
    <3>1. waited <= busy
      BY <2>1, <2>3 DEF WaitInv
    <3>2. waited + 1 <= busy + 1 /\ waited + 1 <= Blind
      BY <1>0, <2>1, <2>3, <3>1, Constants
    <3>3. QED
      BY <2>1, <2>3, <3>2 DEF WaitInv
  <2>4. CASE sampler = "wait" /\ main = "pause"
    <3>1. waited <= MaxPerform + CheckSecs - check_in
      BY <2>1, <2>4 DEF WaitInv
    <3>2. /\ waited + 1 <= MaxPerform + CheckSecs - (check_in - 1)
          /\ waited + 1 <= Blind
      BY <1>0, <2>1, <2>4, <3>1, Constants
    <3>3. QED
      BY <2>1, <2>4, <3>2 DEF WaitInv
  <2>5. CASE sampler = "wait" /\ main = "sleep"
    BY <2>1, <2>5 DEF WaitInv
  <2>6. QED
    BY <1>0, <2>2, <2>3, <2>4, <2>5
<1>10. ASSUME NEW secs \in BackSteps, SetClockBack(secs) PROVE WaitInv'
  <2>1. /\ dump_in' = dump_in + secs /\ secs \in Nat /\ dump_in \in Int
        /\ UNCHANGED <<empty, sampler, sample_in, waited, main, busy, check_in>>
    BY <1>10, Steps DEF SetClockBack, poolVars, ClockInv
  <2>2. dump_in' < 0 => dump_in < 0
    BY <2>1
  <2>3. QED
    BY <2>1, <2>2 DEF WaitInv
<1>11. CASE UNCHANGED vars
  BY <1>11 DEF vars, WaitInv, samplerVars, mainVars, poolVars
<1>12. QED
  BY <1>1, <1>2, <1>3, <1>4, <1>5, <1>6, <1>7, <1>8, <1>9, <1>10, <1>11
  DEF Next

-----------------------------------------------------------------------------
(* Prompt requests.                                                        *)

\* How the limit, a prompt request and the pool compare.
LEMMA Numbers ==
  ASSUME 0 <= Tolerance, 0 <= Prompt
  PROVE  /\ Prompt \in Nat /\ Missed \in Nat /\ Enough \in Nat
         /\ Missed = Prompt + CheckSecs /\ 2 * Missed < Enough
         /\ SampleCount * SamplePeriod
              >= Enough + SamplePeriod + SamplePeriod + SamplePeriod
         /\ SampleCount * SamplePeriod \in Nat
<1>1. /\ Prompt \in Nat /\ Missed \in Nat /\ Enough \in Nat
      /\ Missed = Prompt + CheckSecs /\ 2 * Missed < Enough
  BY Constants, Times DEF Missed, Enough
<1>2. SampleCount >= EmptyMin + 4
  BY Room, Constants, Bounds
<1>3. PICK k \in Nat : SampleCount = EmptyMin + 4 + k
  <2>1. SampleCount - EmptyMin - 4 \in Nat
        /\ SampleCount = EmptyMin + 4 + (SampleCount - EmptyMin - 4)
    BY <1>2, Constants
  <2>2. QED
    BY <2>1
<1>4. SampleCount * SamplePeriod
        = Enough + SamplePeriod + SamplePeriod + SamplePeriod + k * SamplePeriod
      /\ k * SamplePeriod \in Nat
  BY <1>3, Constants DEF Enough
<1>5. QED
  BY <1>1, <1>4, Constants

\* After the batch comes back, enough is left.
LEMMA Returned ==
  ASSUME 0 <= Tolerance, 0 <= Prompt, CountInv, batch # 0,
         NEW secs \in 0..Missed, LeftAfter(secs)
  PROVE  /\ (empty + batch) * SamplePeriod >= Enough - Missed
         /\ (empty + batch) * SamplePeriod + sample_in
              >= Enough + SamplePeriod - Missed
<1>1. /\ empty \in Nat /\ batch \in Nat /\ full \in Nat /\ held \in {0, 1}
      /\ empty + full + batch + held = SampleCount
      /\ sample_in \in 0..SamplePeriod /\ SamplePeriod \in Nat /\ batch >= 1
  BY Constants DEF CountInv, held
<1> DEFINE e == empty * SamplePeriod
           b == batch * SamplePeriod
           f == full * SamplePeriod
           h == held * SamplePeriod
           all == SampleCount * SamplePeriod
<1>2. /\ e \in Nat /\ b \in Nat /\ f \in Nat /\ h \in Nat
      /\ (empty + batch) * SamplePeriod = e + b
      /\ b >= SamplePeriod
  BY <1>1
<1>3. h <= SamplePeriod
  BY <1>1
<1>4. e + f + b + h = all
  <2>1. (empty + full + batch + held) * SamplePeriod = e + f + b + h
    BY <1>1
  <2>2. QED
    BY <1>1, <2>1
<1>5. /\ all >= Enough + SamplePeriod + SamplePeriod + SamplePeriod
      /\ Enough \in Nat /\ Missed \in Nat
  BY Numbers
<1>6. \/ (e + sample_in) + secs >= Enough
      \/ f <= secs + sample_in
  BY DEF LeftAfter, lasts, SampledIn
<1> HIDE DEF e, b, f, h, all
<1>7. /\ e + b >= Enough - Missed
      /\ e + b + sample_in >= Enough + SamplePeriod - Missed
  <2>1. CASE (e + sample_in) + secs >= Enough
    BY <1>1, <1>2, <1>5, <2>1
  <2>2. CASE f <= secs + sample_in
    BY <1>1, <1>2, <1>3, <1>4, <1>5, <2>2
  <2>3. QED
    BY <1>6, <2>1, <2>2
<1>8. QED
  BY <1>2, <1>7

\* What is left now, in all states of main.
LEMMA SomeLeft ==
  ASSUME 0 <= Tolerance, 0 <= Prompt, CountInv, ServedInv, ~ slow
  PROVE  lasts > 0
<1>1. /\ empty \in Nat /\ sample_in \in Nat /\ empty * SamplePeriod \in Nat
      /\ busy \in Nat /\ check_in \in 0..CheckSecs
      /\ main \in {"sleep", "perform", "pause"}
      /\ lasts = empty * SamplePeriod + sample_in /\ lasts \in Nat
  BY Constants DEF CountInv, lasts
<1>2. /\ Prompt \in Nat /\ Missed \in Nat /\ Enough \in Nat
      /\ Missed = Prompt + CheckSecs /\ 2 * Missed < Enough
  BY Numbers
<1>3. CASE main = "sleep"
  <2>1. empty * SamplePeriod >= Enough - Missed
    BY <1>3 DEF ServedInv
  <2>2. QED
    BY <1>1, <1>2, <2>1
<1>4. ASSUME NEW secs \in 0..Missed, LeftAfter(secs) PROVE lasts > 0
  <2>1. lasts + secs >= Enough \/ lasts + secs >= Enough - Missed
    BY <1>4 DEF LeftAfter
  <2>2. QED
    BY <1>1, <1>2, <2>1
<1>5. CASE main = "perform"
  <2>1. busy <= Prompt /\ LeftAfter(busy)
    BY <1>5 DEF ServedInv
  <2>2. busy \in 0..Missed
    BY <1>1, <1>2, <2>1, Constants
  <2>3. QED
    BY <1>4, <2>1, <2>2
<1>6. CASE main = "pause"
  <2>1. LeftAfter(Missed - check_in)
    BY <1>6 DEF ServedInv
  <2> DEFINE x == Missed - check_in
  <2>2. x \in 0..Missed
    BY <1>1, <1>2, Constants
  <2>3. LeftAfter(x)
    BY <2>1
  <2> HIDE DEF x
  <2>4. QED
    BY <1>4, <2>2, <2>3
<1>7. QED
  BY <1>1, <1>3, <1>5, <1>6

\* A sample does not change for how long enough is left.
LEMMA LeftSampled ==
  ASSUME 0 <= Tolerance, 0 <= Prompt, CountInv,
         SkipReading \/ TakeSample \/ StartWait \/ EndWait,
         NEW secs \in Nat, LeftAfter(secs)
  PROVE  \/ lasts' + secs >= Enough
         \/ /\ lasts' + secs >= Enough - Missed
            /\ full' * SamplePeriod <= secs + sample_in'
<1> DEFINE new == lasts'
           old == lasts
           f1 == full' * SamplePeriod
           f0 == full * SamplePeriod
           s1 == sample_in'
<1>1. f1 - s1 <= f0 - sample_in /\ new >= old /\ new \in Int /\ f1 \in Int
      /\ s1 \in Int
  <2>1. /\ full' * SamplePeriod - sample_in' <= full * SamplePeriod - sample_in
        /\ empty' * SamplePeriod + sample_in' >= lasts
        /\ full' \in Nat /\ empty' \in Nat /\ sample_in' \in 0..SamplePeriod
    BY Sampled
  <2>2. f1 - s1 <= f0 - sample_in /\ f1 \in Int /\ s1 \in Int
    BY <2>1, Constants
  <2>3. empty' * SamplePeriod + sample_in' \in Int
    BY <2>1, Constants
  <2>4. new >= old /\ new \in Int
    BY <2>1, <2>3 DEF lasts
  <2>5. QED
    BY <2>2, <2>4
<1>2. old \in Int /\ f0 \in Int /\ sample_in \in Int
  BY Constants DEF lasts, CountInv
<1>3. \/ old + secs >= Enough
      \/ old + secs >= Enough - Missed /\ f0 <= secs + sample_in
  BY DEF LeftAfter, SampledIn
<1>4. Enough \in Int /\ Missed \in Int
  BY Numbers
<1> HIDE DEF new, old, f1, f0, s1
<1>5. \/ new + secs >= Enough
      \/ new + secs >= Enough - Missed /\ f1 <= secs + s1
  BY <1>1, <1>2, <1>3, <1>4
<1>6. QED
  BY <1>5 DEF new, f1, s1

\* Before a dump little is full; later the time is accounted for.
LEMMA ServedSampled ==
  ASSUME 0 <= Tolerance, 0 <= Prompt, CountInv, ClockInv, ServedInv, CountInv',
         SkipReading \/ TakeSample \/ StartWait \/ EndWait
  PROVE  ServedInv'
<1>1. /\ UNCHANGED <<batch, main, dump_in, busy, check_in, slow>>
      /\ empty' * SamplePeriod + sample_in' >= lasts
      /\ full' \in Nat /\ empty' \in Nat /\ sample_in' \in 0..SamplePeriod
  BY Sampled
<1>2. CASE slow
  BY <1>1, <1>2 DEF ServedInv
<1>3. CASE ~ slow
  <2>1. /\ sampler = "sleep"
        /\ main = "sleep" =>
             /\ empty * SamplePeriod >= Enough - Missed
             /\ dump_in < 0 => lasts >= Enough + SamplePeriod - Missed
        /\ main = "perform" => busy <= Prompt /\ LeftAfter(busy)
        /\ main = "pause" => LeftAfter(Missed - check_in)
    BY <1>3 DEF ServedInv
  <2>2. /\ lasts > 0 /\ lasts = empty * SamplePeriod + sample_in
        /\ 0 * SamplePeriod = 0
    BY <1>3, SomeLeft, Constants DEF lasts
  <2>3. SkipReading \/ TakeSample
    <3>1. ~ StartWait
      BY <2>2 DEF StartWait, SamplerWakes
    <3>2. ~ EndWait
      BY <2>1 DEF EndWait
    <3>3. QED
      BY <3>1, <3>2
  <2>4. sampler' = "sleep"
    BY <2>1, <2>3, Fills DEF SkipReading, TakeSample
  <2>5. /\ Prompt \in Nat /\ Missed \in Nat /\ Enough \in Nat
        /\ Missed = Prompt + CheckSecs
    BY Numbers
  <2>6. /\ busy \in Nat /\ check_in \in 0..CheckSecs
        /\ main \in {"sleep", "perform", "pause"}
    BY DEF CountInv
  <2>7. CASE main = "perform"
    <3>1. \/ lasts' + busy >= Enough
          \/ /\ lasts' + busy >= Enough - Missed
             /\ full' * SamplePeriod <= busy + sample_in'
      BY <2>1, <2>6, <2>7, LeftSampled
    <3>2. LeftAfter(busy)'
      BY <1>1, <3>1 DEF LeftAfter, SampledIn, Enough, Missed
    <3>3. QED
      BY <1>1, <2>1, <2>4, <2>7, <3>2 DEF ServedInv
  <2>8. CASE main = "pause"
    <3> DEFINE x == Missed - check_in
    <3>1. x \in Nat
      BY <2>5, <2>6, Constants
    <3>2. LeftAfter(x)
      BY <2>1, <2>8
    <3> HIDE DEF x
    <3>3. \/ lasts' + x >= Enough
          \/ /\ lasts' + x >= Enough - Missed
             /\ full' * SamplePeriod <= x + sample_in'
      BY <3>1, <3>2, LeftSampled
    <3>4. x' = x
      BY <1>1 DEF x, Missed
    <3>5. LeftAfter(x)'
      BY <3>3, <3>4 DEF LeftAfter, SampledIn, Enough, Missed
    <3>6. LeftAfter(Missed - check_in)'
      BY <3>5 DEF x
    <3>7. QED
      BY <1>1, <2>4, <2>8, <3>6 DEF ServedInv
  <2>9. CASE main = "sleep"
    <3>1. empty * SamplePeriod \in Nat /\ empty \in Nat /\ sample_in \in Nat
      BY Constants DEF CountInv
    <3>2. dump_in < 0 => lasts' >= Enough + SamplePeriod - Missed
      <4> DEFINE new == lasts'
                 old == lasts
      <4>1. new \in Int /\ old \in Int /\ new >= old
        <5>1. empty' * SamplePeriod + sample_in' \in Int
          BY <1>1, Constants
        <5>2. QED
          BY <1>1, <2>2, <3>1, <5>1 DEF lasts
      <4>2. dump_in < 0 => old >= Enough + SamplePeriod - Missed
        BY <2>1, <2>9
      <4> HIDE DEF new, old
      <4>3. dump_in < 0 => new >= Enough + SamplePeriod - Missed
        BY <2>5, <4>1, <4>2, Constants
      <4>4. QED
        BY <4>3 DEF new
    <3>3. empty' * SamplePeriod >= Enough - Missed
      <4>1. CASE SkipReading
        <5>1. empty' = empty
          BY <4>1 DEF SkipReading, poolVars
        <5>2. QED
          BY <2>1, <2>9, <5>1
      <4>2. CASE TakeSample /\ dump_in < 0
        <5>1. /\ empty' = empty \/ empty' = empty - 1
              /\ sample_in = 0
          BY <4>2, Fills DEF TakeSample, SamplerWakes
        <5>2. empty * SamplePeriod >= Enough + SamplePeriod - Missed
          BY <2>1, <2>2, <2>9, <3>1, <4>2, <5>1
        <5>3. (empty - 1) * SamplePeriod = empty * SamplePeriod - SamplePeriod
          BY <3>1, Constants
        <5>4. /\ empty * SamplePeriod >= Enough - Missed
              /\ (empty - 1) * SamplePeriod >= Enough - Missed
          BY <2>5, <3>1, <5>2, <5>3, Constants
        <5>5. QED
          BY <5>1, <5>4
      <4>3. CASE TakeSample /\ ~ (dump_in < 0)
        <5> DEFINE e == empty'
                   f == full'
                   h == held'
        <5>1. full + 1 <= Window
          BY <4>3, WindowSampled DEF TakeSample
        <5>2. /\ f = full \/ f = full + 1
              /\ e + f + 0 + h = SampleCount /\ e \in Nat
              /\ f \in Nat /\ h \in {0, 1} /\ full \in Nat
          BY <1>1, <2>9, <4>3, Fills DEF TakeSample, CountInv, held
        <5> HIDE DEF e, f, h
        <5>3. e >= EmptyMin + 1
          BY <5>1, <5>2, Room, Bounds, Constants
        <5>4. e * SamplePeriod >= Enough
          BY <5>2, <5>3, Constants DEF Enough
        <5>5. e * SamplePeriod \in Nat
          BY <5>2, Constants
        <5>6. e * SamplePeriod >= Enough - Missed
          BY <2>5, <5>4, <5>5
        <5>7. QED
          BY <5>6 DEF e
      <4>4. QED
        BY <2>3, <4>1, <4>2, <4>3
    <3>4. Enough' = Enough /\ Missed' = Missed
      BY DEF Enough, Missed
    <3>5. QED
      BY <1>1, <2>4, <2>9, <3>2, <3>3, <3>4 DEF ServedInv
  <2>10. QED
    BY <2>6, <2>7, <2>8, <2>9
<1>4. QED
  BY <1>2, <1>3

\* A second takes as much from what is left as it adds to the time since main
\* looked.
LEMMA ServedTick ==
  ASSUME 0 <= Tolerance, 0 <= Prompt, CountInv, ClockInv, WorldInv, SteadyInv,
         ServedInv, Tick
  PROVE  ServedInv'
<1>1. /\ UNCHANGED <<empty, full, sampler, main>>
      /\ sampler = "sleep" => sample_in > 0 /\ sample_in' = sample_in - 1
      /\ sampler = "wait" => empty = 0
      /\ main = "sleep" => ~ (dump_in' < 0)
      /\ main = "perform" => busy' = busy + 1
      /\ main = "pause" => check_in > 0 /\ check_in' = check_in - 1
  BY Second
<1>2. slow' = (busy' > Prompt \/ (slow /\ up_for < CatchUp))
  BY DEF Tick
<1>3. /\ Prompt \in Nat /\ Missed \in Nat /\ Enough \in Nat
      /\ Missed = Prompt + CheckSecs
  BY Numbers
<1>4. /\ busy \in Nat /\ check_in \in 0..CheckSecs /\ empty \in Nat
      /\ sample_in \in 0..SamplePeriod /\ full \in Nat
      /\ main \in {"sleep", "perform", "pause"} /\ sampler \in {"sleep", "wait"}
      /\ empty * SamplePeriod \in Nat /\ full * SamplePeriod \in Nat
  BY Constants DEF CountInv
<1>5. Enough' = Enough /\ Missed' = Missed
  BY DEF Enough, Missed
<1>6. CASE slow'
  BY <1>6 DEF ServedInv
<1>7. CASE ~ slow' /\ slow
  <2>1. up_for = CatchUp
    <3>1. ~ (up_for < CatchUp)
      BY <1>2, <1>7, Zenon
    <3>2. up_for \in 0..CatchUp /\ CatchUp \in Nat
      BY Times DEF WorldInv
    <3>3. QED
      BY <3>1, <3>2
  <2>2. full + batch <= Steady
    BY <2>1, SteadyHolds DEF CatchesUp
  <2>3. empty >= EmptyMin + 1
    <3>1. /\ empty + full + batch + held = SampleCount /\ held \in {0, 1}
          /\ batch \in Nat
      BY DEF CountInv, held
    <3>2. QED
      BY <1>4, <2>2, <3>1, Room, Constants, Bounds
  <2>4. sampler = "sleep"
    BY <1>1, <1>4, <2>3, Constants
  <2>5. empty * SamplePeriod >= Enough
    BY <1>4, <2>3, Constants DEF Enough
  <2>6. sample_in' = sample_in - 1 /\ sample_in > 0
    BY <1>1, <2>4
  <2>7. lasts' >= Enough /\ lasts' \in Nat
    <3>1. /\ empty * SamplePeriod + (sample_in - 1) >= Enough
          /\ empty * SamplePeriod + (sample_in - 1) \in Nat
      BY <1>3, <1>4, <2>5, <2>6
    <3>2. lasts' = empty * SamplePeriod + (sample_in - 1)
      BY <1>1, <2>6 DEF lasts
    <3>3. QED
      BY <3>1, <3>2
  <2>8. main = "sleep" => empty' * SamplePeriod >= Enough - Missed
    BY <1>1, <1>3, <1>4, <2>5
  <2> DEFINE new == lasts'
  <2>9. new \in Nat /\ new >= Enough
    BY <2>7
  <2> HIDE DEF new
  <2>10. main = "perform" => busy' <= Prompt /\ LeftAfter(busy)'
    <3>1. SUFFICES ASSUME main = "perform"
                   PROVE  busy' <= Prompt /\ LeftAfter(busy)'
      OBVIOUS
    <3>2. busy' = busy + 1 /\ ~ (busy' > Prompt)
      BY <1>1, <1>2, <1>7, <3>1
    <3>3. busy + 1 <= Prompt /\ new + (busy + 1) >= Enough
      BY <1>3, <1>4, <2>9, <3>2
    <3>4. QED
      BY <3>2, <3>3, <1>5 DEF LeftAfter, new
  <2>11. main = "pause" => LeftAfter(Missed - check_in)'
    <3>1. SUFFICES ASSUME main = "pause" PROVE LeftAfter(Missed - check_in)'
      OBVIOUS
    <3>2. check_in' = check_in - 1
      BY <1>1, <3>1
    <3>3. new + (Missed - (check_in - 1)) >= Enough
      BY <1>3, <1>4, <2>9, Constants
    <3>4. QED
      BY <3>2, <3>3, <1>5 DEF LeftAfter, new
  <2>12. QED
    BY <1>1, <1>5, <2>4, <2>8, <2>10, <2>11 DEF ServedInv
<1>8. CASE ~ slow' /\ ~ slow
  <2>1. /\ sampler = "sleep"
        /\ main = "sleep" => empty * SamplePeriod >= Enough - Missed
        /\ main = "perform" => LeftAfter(busy)
        /\ main = "pause" => LeftAfter(Missed - check_in)
    BY <1>8 DEF ServedInv
  <2>2. sample_in' = sample_in - 1 /\ sample_in > 0
    BY <1>1, <2>1
  <2> DEFINE e == empty * SamplePeriod
             f == full * SamplePeriod
  <2>3. /\ lasts = e + sample_in /\ lasts' = e + (sample_in - 1)
        /\ e \in Nat /\ f \in Nat
    BY <1>1, <1>4, <2>2 DEF lasts
  <2>4. ASSUME NEW secs \in Int, LeftAfter(secs)
        PROVE  \/ lasts' + (secs + 1) >= Enough
               \/ /\ lasts' + (secs + 1) >= Enough - Missed
                  /\ full' * SamplePeriod <= (secs + 1) + sample_in'
    <3>1. \/ e + sample_in + secs >= Enough
          \/ e + sample_in + secs >= Enough - Missed /\ f <= secs + sample_in
      BY <2>3, <2>4 DEF LeftAfter, SampledIn
    <3>2. full' * SamplePeriod = f /\ sample_in' = sample_in - 1
      BY <1>1, <2>2
    <3> HIDE DEF e, f
    <3>3. \/ e + (sample_in - 1) + (secs + 1) >= Enough
          \/ /\ e + (sample_in - 1) + (secs + 1) >= Enough - Missed
             /\ f <= (secs + 1) + (sample_in - 1)
      BY <1>3, <1>4, <2>3, <3>1
    <3>4. QED
      BY <2>3, <3>2, <3>3
  <2>5. main = "perform" => busy' <= Prompt /\ LeftAfter(busy)'
    <3>1. SUFFICES ASSUME main = "perform"
                   PROVE  busy' <= Prompt /\ LeftAfter(busy)'
      OBVIOUS
    <3>2. busy' = busy + 1 /\ ~ (busy' > Prompt)
      BY <1>1, <1>2, <1>8, <3>1
    <3>3. busy + 1 <= Prompt
      BY <1>3, <1>4, <3>2
    <3>4. \/ lasts' + (busy + 1) >= Enough
          \/ /\ lasts' + (busy + 1) >= Enough - Missed
             /\ full' * SamplePeriod <= (busy + 1) + sample_in'
      BY <1>4, <2>1, <2>4, <3>1
    <3>5. LeftAfter(busy)'
      BY <1>5, <3>2, <3>4 DEF LeftAfter, SampledIn
    <3>6. QED
      BY <3>2, <3>3, <3>5
  <2>6. main = "pause" => LeftAfter(Missed - check_in)'
    <3>1. SUFFICES ASSUME main = "pause" PROVE LeftAfter(Missed - check_in)'
      OBVIOUS
    <3> DEFINE x == Missed - check_in
    <3>2. x \in Int /\ Missed - (check_in - 1) = x + 1
      BY <1>3, <1>4, Constants
    <3>3. LeftAfter(x)
      BY <2>1, <3>1
    <3>4. (Missed - check_in)' = Missed - (check_in - 1)
      BY <1>1, <1>5, <3>1
    <3> HIDE DEF x
    <3>5. \/ lasts' + (x + 1) >= Enough
          \/ /\ lasts' + (x + 1) >= Enough - Missed
             /\ full' * SamplePeriod <= (x + 1) + sample_in'
      BY <2>4, <3>2, <3>3
    <3>6. (Missed - check_in)' = x + 1
      BY <3>2, <3>4
    <3>7. QED
      BY <1>5, <3>5, <3>6 DEF LeftAfter, SampledIn
  <2>7. QED
    BY <1>1, <1>5, <2>1, <2>5, <2>6 DEF ServedInv
<1>9. QED
  BY <1>6, <1>7, <1>8

\* What is left when main returns is enough for the next time.
LEMMA ServedStep ==
  ASSUME 0 <= Tolerance, 0 <= Prompt, CountInv, ClockInv, WorldInv, SteadyInv,
         ServedInv, [Next]_vars, CountInv'
  PROVE  ServedInv'
<1>0. Enough' = Enough /\ Missed' = Missed
  BY DEF Enough, Missed
<1>1. /\ Prompt \in Nat /\ Missed \in Nat /\ Enough \in Nat
      /\ Missed = Prompt + CheckSecs
  BY Numbers
<1>2. /\ busy \in Nat /\ check_in \in 0..CheckSecs /\ empty \in Nat
      /\ sample_in \in 0..SamplePeriod /\ full \in Nat
      /\ empty * SamplePeriod \in Nat /\ lasts \in Nat
      /\ lasts = empty * SamplePeriod + sample_in
  BY Constants DEF CountInv, lasts
<1>3. CASE SkipReading \/ TakeSample \/ StartWait \/ EndWait
  BY <1>3, ServedSampled
<1>4. CASE Tick
  BY <1>4, ServedTick
<1>5. CASE slow /\ slow' = slow
  BY <1>5 DEF ServedInv
<1>6. ASSUME ~ slow, Dump PROVE ServedInv'
  <2>1. /\ sampler = "sleep" /\ main = "sleep"
        /\ empty * SamplePeriod >= Enough - Missed
    BY <1>6 DEF ServedInv, Dump
  <2>2. /\ dump_in' = DumpPeriod /\ full' = 0
        /\ main' \in {"sleep", "perform"}
        /\ UNCHANGED <<sampler, sample_in, empty, busy>> /\ lasts' = lasts
    BY <1>6, <2>1 DEF Dump, samplerVars, lasts
  <2>3. busy = 0
    BY <2>1 DEF CountInv
  <2>4. ~ (dump_in' < 0)
    BY <2>2, Constants
  <2>5. /\ 0 <= Prompt /\ lasts + 0 >= Enough - Missed
        /\ 0 * SamplePeriod <= 0 + sample_in
    BY <1>1, <1>2, <2>1, Constants
  <2>6. LeftAfter(busy)'
    BY <1>0, <2>2, <2>3, <2>5 DEF LeftAfter, SampledIn
  <2>7. QED
    BY <1>0, <2>1, <2>2, <2>3, <2>4, <2>5, <2>6 DEF ServedInv
<1>7. ASSUME ~ slow, RequestSucceeds \/ DropRequest PROVE ServedInv'
  <2>1. PICK secs \in 0..Missed : LeftAfter(secs)
    <3>1. CASE RequestSucceeds
      <4>1. busy <= Prompt /\ LeftAfter(busy)
        BY <1>7, <3>1 DEF ServedInv, RequestSucceeds
      <4>2. busy \in 0..Missed
        BY <1>1, <1>2, <4>1, Constants
      <4>3. QED
        BY <4>1, <4>2
    <3>2. CASE DropRequest
      <4>1. LeftAfter(Missed - check_in) /\ check_in = 0
        BY <1>7, <3>2 DEF ServedInv, DropRequest, Check
      <4>2. Missed - check_in = Missed /\ Missed \in 0..Missed
        BY <1>1, <4>1
      <4>3. QED
        BY <4>1, <4>2
    <3>3. QED
      BY <1>7, <3>1, <3>2
  <2>2. /\ sampler = "sleep" /\ main # "sleep" /\ main' = "sleep"
        /\ empty' = empty + batch /\ UNCHANGED <<sampler, sample_in>>
    BY <1>7 DEF ServedInv, RequestSucceeds, DropRequest, Check, ReturnBatch,
                samplerVars
  <2>3. batch # 0
    BY <2>2 DEF CountInv
  <2>4. /\ (empty + batch) * SamplePeriod >= Enough - Missed
        /\ (empty + batch) * SamplePeriod + sample_in
             >= Enough + SamplePeriod - Missed
    BY <2>1, <2>3, Returned
  <2>5. QED
    BY <1>0, <2>2, <2>4 DEF ServedInv, lasts
<1>8. ASSUME ~ slow, RequestFails PROVE ServedInv'
  <2>1. busy <= Prompt /\ LeftAfter(busy) /\ sampler = "sleep"
    BY <1>8 DEF ServedInv, RequestFails
  <2>2. /\ main' = "pause" /\ check_in' = CheckSecs
        /\ UNCHANGED <<sampler, sample_in, empty, full>> /\ lasts' = lasts
    BY <1>8 DEF RequestFails, samplerVars, poolVars, lasts
  <2>3. Missed - CheckSecs = Prompt
    BY <1>1, Constants
  <2>4. \/ lasts + Prompt >= Enough
        \/ /\ lasts + Prompt >= Enough - Missed
           /\ full * SamplePeriod <= Prompt + sample_in
    <3> DEFINE f == full * SamplePeriod
    <3>1. f \in Nat
      BY <1>2, Constants
    <3>2. \/ lasts + busy >= Enough
          \/ lasts + busy >= Enough - Missed /\ f <= busy + sample_in
      BY <2>1 DEF LeftAfter, SampledIn
    <3> HIDE DEF f
    <3>3. \/ lasts + Prompt >= Enough
          \/ lasts + Prompt >= Enough - Missed /\ f <= Prompt + sample_in
      BY <1>1, <1>2, <2>1, <3>1, <3>2
    <3>4. QED
      BY <3>3 DEF f
  <2>5. (Missed - check_in)' = Prompt
    BY <1>0, <2>2, <2>3
  <2>6. LeftAfter(Missed - check_in)'
    BY <1>0, <2>2, <2>4, <2>5 DEF LeftAfter, SampledIn
  <2>7. QED
    BY <2>1, <2>2, <2>6 DEF ServedInv
<1>9. ASSUME ~ slow, PauseOn \/ RetryNow PROVE ServedInv'
  <2>1. /\ sampler = "sleep" /\ main = "pause" /\ ~ (empty <= EmptyMin)
        /\ UNCHANGED <<sampler, sample_in, empty, busy>> /\ lasts' = lasts
        /\ main' = "perform" \/ (main' = "pause" /\ check_in' = CheckSecs)
    BY <1>9 DEF ServedInv, PauseOn, RetryNow, Check, LowOnSamples, samplerVars,
                poolVars, lasts
  <2>2. busy = 0
    BY <2>1 DEF CountInv
  <2>3. empty * SamplePeriod >= Enough
    BY <1>2, <2>1, Constants DEF Enough
  <2>4. /\ 0 <= Prompt /\ lasts + 0 >= Enough
        /\ lasts + Prompt >= Enough /\ Missed - CheckSecs = Prompt
    BY <1>1, <1>2, <2>3, Constants
  <2>5. LeftAfter(busy)'
    BY <1>0, <2>1, <2>2, <2>4 DEF LeftAfter
  <2>6. main' = "pause" => LeftAfter(Missed - check_in)'
    BY <1>0, <2>1, <2>4 DEF LeftAfter
  <2>7. QED
    BY <2>1, <2>2, <2>4, <2>5, <2>6 DEF ServedInv
<1>10. ASSUME ServerFails \/ ServerReturns PROVE ServedInv'
  BY <1>10 DEF ServerFails, ServerReturns, ServedInv, LeftAfter, SampledIn,
               lasts, Enough, Missed, samplerVars, mainVars, poolVars
<1>11. ASSUME NEW secs \in BackSteps, SetClockBack(secs) PROVE ServedInv'
  <2>1. /\ dump_in' = dump_in + secs /\ secs \in Nat /\ dump_in \in Int
        /\ UNCHANGED <<empty, full, sampler, sample_in, main, busy, check_in,
                       slow>>
    BY <1>11, Steps DEF SetClockBack, poolVars, ClockInv
  <2>2. dump_in' < 0 => dump_in < 0
    BY <2>1
  <2>3. QED
    BY <2>1, <2>2 DEF ServedInv, LeftAfter, SampledIn, lasts, Enough, Missed
<1>12. CASE UNCHANGED vars
  BY <1>12 DEF vars, ServedInv, LeftAfter, SampledIn, lasts, Enough, Missed,
               samplerVars, mainVars, poolVars, worldVars
<1>13. ASSUME Dump \/ RequestSucceeds \/ RequestFails \/ DropRequest \/ PauseOn
              \/ RetryNow
       PROVE  slow' = slow
  BY <1>13 DEF Dump, RequestSucceeds, RequestFails, DropRequest, PauseOn,
               RetryNow, ReturnBatch, worldVars
<1>14. QED
  BY <1>3, <1>4, <1>5, <1>6, <1>7, <1>8, <1>9, <1>10, <1>11, <1>12, <1>13
  DEF Next

-----------------------------------------------------------------------------
(* The theorems.                                                           *)

\* What the first three theorems rest on, and the fourth: the periods leave room
\* for an outage at all, and for a request and a check, as the code's do.
IInv == CountInv /\ ClockInv /\ WorldInv /\ SteadyInv /\ OutageInv
Roomy == 0 <= Tolerance /\ 0 <= Prompt
ServedIInv == IInv /\ WaitInv /\ ServedInv

\* All structures are empty, and nobody is late.
LEMMA InitHolds ==
  ASSUME Init PROVE IInv
<1> USE Constants
<1>1. CountInv
  <2>1. /\ empty = SampleCount /\ full = 0 /\ batch = 0 /\ waited = 0
        /\ sampler = "sleep" /\ sample_in = SamplePeriod /\ main = "sleep"
        /\ busy = 0 /\ check_in = 0 /\ retry_delay = 0
    BY DEF Init
  <2>2. holding \in BOOLEAN /\ held = 0
    BY DEF Init, held
  <2>3. /\ empty + full + batch + held = SampleCount
        /\ empty \in Nat /\ full \in Nat /\ batch \in Nat /\ waited \in Nat
        /\ sample_in \in 0..SamplePeriod /\ busy \in 0..MaxPerform
        /\ check_in \in 0..CheckSecs /\ retry_delay \in 0..RetrySecs
    BY <2>1, <2>2
  <2>4. QED
    BY <2>1, <2>2, <2>3 DEF CountInv
<1>2. ClockInv
  <2>1. /\ full = 0 /\ sampler = "sleep" /\ age = SamplePeriod + 1
        /\ sample_in = SamplePeriod /\ dump_in = DumpPeriod /\ behind = 0
    BY DEF Init
  <2>2. waiting = 0 /\ 0 * Spacing = 0 /\ Spacing \in Nat \ {0}
    BY <2>1, Spaces DEF waiting
  <2>3. (full + waiting) * Spacing + dump_in + age
          <= DumpPeriod + SamplePeriod + 1 + Spacing
    BY <2>1, <2>2
  <2>4. Overdue \in Nat /\ MaxBack \in Nat
    BY Steps DEF Overdue
  <2>5. /\ age \in Int /\ dump_in \in Int /\ behind \in 0..MaxBack
        /\ age <= SamplePeriod + 1 /\ age + behind >= 0 /\ dump_in >= -Overdue
        /\ age + sample_in >= SamplePeriod
    BY <2>1, <2>4
  <2>6. QED
    BY <2>3, <2>5 DEF ClockInv
<1>3. WorldInv
  <2>1. slow \in BOOLEAN
    BY DEF Init
  <2>2. failing_for = Tolerance /\ up_for = 0 /\ server = "up"
    BY DEF Init
  <2>3. failing_for \in Int /\ up_for \in 0..CatchUp /\ ~ (up_for > 0)
    BY <2>2, Times
  <2>4. QED
    BY <2>1, <2>2, <2>3 DEF WorldInv
<1>4. SteadyInv
  BY DEF Init, SteadyInv
<1>5. OutageInv
  BY Times DEF Init, OutageInv
<1>6. QED
  BY <1>1, <1>2, <1>3, <1>4, <1>5 DEF IInv

\* Samples, threads, clock and server are what they are, the pool is as full as
\* the time allows, and never loses a structure.
THEOREM InductiveInvariant == Spec => []IInv
<1>1. Init => IInv
  BY InitHolds
<1>2. IInv /\ [Next]_vars => IInv'
  <2> SUFFICES ASSUME IInv, [Next]_vars PROVE IInv'
    OBVIOUS
  <2>1. CountInv /\ ClockInv /\ WorldInv /\ SteadyInv /\ OutageInv
    BY DEF IInv
  <2>2. CountInv'
    BY <2>1, CountStep
  <2>3. ClockInv'
    BY <2>1, ClockStep
  <2>4. WorldInv'
    BY <2>1, WorldStep
  <2>5. SteadyInv'
    BY <2>1, <2>2, SteadyStep
  <2>6. OutageInv'
    BY <2>1, OutageStep
  <2>7. QED
    BY <2>2, <2>3, <2>4, <2>5, <2>6 DEF IInv
<1>3. QED
  BY <1>1, <1>2, PTL DEF Spec

\* What was sampled while the server was out of reach is sent soon after it is
\* back, for all periods, pools and setbacks of the clock.
THEOREM SoonCaughtUp == Spec => []CatchesUp
<1>1. IInv => CatchesUp
  BY SteadyHolds DEF IInv
<1>2. QED
  BY <1>1, InductiveInvariant, PTL

\* No batch is given up in an outage that is shorter than the tolerance.
THEOREM OutagesTolerated == Spec => OutageTolerated
<1>1. IInv /\ [Next]_vars => [DropRequest => failing_for >= Tolerance]_vars
  BY OutageHolds DEF IInv
<1>2. QED
  BY <1>1, InductiveInvariant, PTL DEF Spec, OutageTolerated

\* With room for an outage at all, and for a request and a check, the sampler
\* does not wait as long as requests are prompt, and never longer than main is
\* blind.
THEOREM SamplerIsServed ==
  ASSUME Roomy PROVE Spec => []SamplerServed
<1>0. 0 <= Tolerance /\ 0 <= Prompt
  BY DEF Roomy
<1>1. Init => ServedIInv
  <2> SUFFICES ASSUME Init PROVE ServedIInv
    OBVIOUS
  <2>1. IInv
    BY InitHolds
  <2>2. /\ empty = SampleCount /\ sampler = "sleep" /\ main = "sleep"
        /\ waited = 0 /\ ~ (dump_in < 0) /\ empty # 0
    BY Constants DEF Init
  <2>3. WaitInv
    <3>1. 0 <= Blind
      BY Constants DEF Blind
    <3>2. QED
      BY <2>2, <3>1 DEF WaitInv
  <2>4. ServedInv
    <3>1. SampleCount * SamplePeriod >= Enough - Missed
      BY <1>0, Numbers, Constants
    <3>2. QED
      BY <2>2, <3>1 DEF ServedInv
  <2>5. QED
    BY <2>1, <2>3, <2>4 DEF ServedIInv
<1>2. IInv /\ IInv' /\ ServedIInv /\ [Next]_vars => ServedIInv'
  BY <1>0, WaitStep, ServedStep DEF ServedIInv, IInv
<1>3. ServedIInv => SamplerServed
  BY DEF ServedIInv, ServedInv, WaitInv, SamplerServed
<1>4. Spec => []IInv
  BY InductiveInvariant
<1>5. QED
  BY <1>1, <1>2, <1>3, <1>4, PTL DEF Spec

=============================================================================
