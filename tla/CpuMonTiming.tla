---------------------------- MODULE CpuMonTiming ----------------------------
(***************************************************************************)
(* The two threads of cpumon in time.  CpuMon says in which orders their   *)
(* steps can happen; here each step takes no time, sleeps and requests     *)
(* take theirs, and structures are counted.  The question is how the four  *)
(* periods and the two numbers at the top of cpumon.c go together.         *)
(*                                                                         *)
(* The sleep of the sampler and the pauses of main are relative, the sleep *)
(* between two dumps lasts until an absolute time, and the clock it is     *)
(* compared with may be set back.                                          *)
(***************************************************************************)
EXTENDS Integers, FiniteSetsExt

CONSTANTS
  SampleCount,   \* cpumon_sample_count
  EmptyMin,      \* cpumon_dump_empty_min
  SamplePeriod,  \* cpumon_sample_period_secs
  DumpPeriod,    \* cpumon_dump_period_secs
  RetrySecs,     \* cpumon_dump_retry_secs
  CheckSecs,     \* cpumon_dump_check_secs
  MaxPerform,    \* the longest that curl_easy_perform takes
  BackSteps      \* how far the clock can be set back

ASSUME TimingAssumption ==
  /\ {SampleCount, SamplePeriod, DumpPeriod, RetrySecs, CheckSecs}
       \subseteq Nat \ {0}
  /\ {EmptyMin, MaxPerform} \subseteq Nat
  /\ IsFiniteSet(BackSteps) /\ BackSteps \subseteq Nat \ {0}

MaxBack == Max(BackSteps \cup {0})

\* Main is so late that it is still late when the clock is set back.
Overdue == MaxBack + 1

\* How long main may not look at the pool: one request, and one check.
Blind == MaxPerform + CheckSecs

\* Requests that take no longer leave the sampler enough for two such times.  At
\* the check before, one structure more than the limit was left; what is lost
\* when main oversleeps, as the clock was set back, the next batch makes up for.
Prompt == ((EmptyMin + 1) * SamplePeriod - 1) \div 2 - CheckSecs

\* By how much the timestamps of two samples differ at least: the clock may be
\* set back between them, but the later one is later.
Spacing == IF BackSteps = {} THEN SamplePeriod ELSE 1

\* The structures that can be filled from one dump to the next, and during a
\* request.
Window == (DumpPeriod + SamplePeriod + 1) \div Spacing + 1
Burst == MaxPerform \div SamplePeriod + 1

\* The structures that are full or on their way to the server while all requests
\* succeed: those of the time before the last dump, and of the request.
Steady == Max({Window, Burst}) + Burst

\* How long the pool lasts from then on: the sampler may hold another structure,
\* and the next sample may be due.
Tolerance == (SampleCount - EmptyMin - Steady - 2) * SamplePeriod

\* How long it takes to be back there: the rest of a pause, the request again,
\* and a request with everything that was sampled meanwhile.
CatchUp == RetrySecs + CheckSecs + 2 * MaxPerform

VARIABLES
  empty,        \* the length of empty_samples
  full,         \* the length of full_samples
  batch,        \* the length of next_value_state.samples
  holding,      \* does the sampler still have a structure it could not fill?
  sampler,      \* "sleep", or "wait" for an empty sample
  sample_in,    \* the rest of the sleep of the sampler
  age,          \* the clock minus last_ts, at most SamplePeriod + 1
  main,         \* "sleep" until next_dump, "perform", "pause" before a retry
  dump_in,      \* next_dump minus the clock, at least -Overdue
  busy,         \* how long the request is under way
  check_in,     \* the rest of the sleep until the next check
  retry_delay,  \* as in the code
  server,       \* "up" or "down"
  behind,       \* how far the clock is behind, since it was set back
  up_for,       \* how long it is up, the clock not behind; at most CatchUp
  failing_for,  \* how long ago it went down; at most Tolerance
  slow,         \* was a request not prompt, since all was well?
  waited        \* how long the sampler has waited

samplerVars == <<sampler, sample_in, age, holding, waited>>
mainVars == <<main, dump_in, busy, check_in, retry_delay>>
poolVars == <<empty, full, batch>>
worldVars == <<server, behind, up_for, failing_for, slow>>
vars == <<samplerVars, mainVars, poolVars, worldVars>>

AtMost(n, bound) == IF n < bound THEN n ELSE bound
AtLeast(n, bound) == IF n > bound THEN n ELSE bound

-----------------------------------------------------------------------------
(* Plausible mistakes: each stands in for the definition its comment names. *)

\* IsLater that is forgotten.
AnyTime == TRUE

\* LowOnSamples with the wrong list.
LowOnFull == full <= EmptyMin

\* ReturnBatch with the next dump scheduled from the end of the work.
ReturnAndSchedule ==
  /\ empty' = empty + batch /\ batch' = 0
  /\ main' = "sleep" /\ dump_in' = DumpPeriod /\ busy' = 0 /\ retry_delay' = 0
  /\ UNCHANGED <<full, check_in, samplerVars, worldVars>>

-----------------------------------------------------------------------------
(* The sampler.                                                            *)

SamplerWakes == sampler = "sleep" /\ sample_in = 0

\* The clock is past the last timestamp.
IsLater == age > 0

\* It is not, or the reading fails.
SkipReading ==
  /\ SamplerWakes
  /\ sample_in' = SamplePeriod
  /\ UNCHANGED <<sampler, age, holding, waited, mainVars, poolVars, worldVars>>

\* A structure is taken, unless one is left from a parse that failed, filled and
\* published; or its parse fails, and it is left for the next reading.
FillSample ==
  /\ holding \/ empty > 0
  /\ empty' = IF holding THEN empty ELSE empty - 1
  /\ \/ full' = full + 1 /\ holding' = FALSE
     \/ full' = full /\ holding' = TRUE
  /\ sampler' = "sleep" /\ sample_in' = SamplePeriod /\ waited' = 0
  /\ UNCHANGED <<batch, mainVars, worldVars>>

TakeSample ==
  /\ SamplerWakes /\ IsLater
  /\ FillSample
  /\ age' = 0

\* No structure is left: the timestamp is kept, and used after the wait.
StartWait ==
  /\ SamplerWakes /\ IsLater /\ empty = 0 /\ ~ holding
  /\ sampler' = "wait" /\ age' = 0
  /\ UNCHANGED <<sample_in, holding, waited, mainVars, poolVars, worldVars>>
EndWait ==
  /\ sampler = "wait"
  /\ FillSample
  /\ UNCHANGED age

-----------------------------------------------------------------------------
(* The main thread.                                                        *)

\* The batch goes back to the pool, and main sleeps until next_dump.
ReturnBatch ==
  /\ empty' = empty + batch /\ batch' = 0
  /\ main' = "sleep" /\ busy' = 0 /\ retry_delay' = 0
  /\ UNCHANGED <<full, dump_in, check_in, samplerVars, worldVars>>

\* The sleep ends at next_dump, at once if that is over: the next one is
\* scheduled from now, and everything that is full is sent.
Dump ==
  /\ main = "sleep" /\ dump_in <= 0
  /\ dump_in' = DumpPeriod
  /\ full' = 0 /\ batch' = full
  /\ main' = IF full > 0 THEN "perform" ELSE main
  /\ UNCHANGED <<empty, busy, check_in, retry_delay, samplerVars, worldVars>>

RequestSucceeds == main = "perform" /\ server = "up" /\ ReturnBatch

RequestFails ==
  /\ main = "perform" /\ server = "down"
  /\ main' = "pause" /\ busy' = 0
  /\ retry_delay' = RetrySecs /\ check_in' = CheckSecs
  /\ UNCHANGED <<dump_in, samplerVars, poolVars, worldVars>>

\* The number of empty samples that the check finds is too low.
LowOnSamples == empty <= EmptyMin

\* A check, and what is left of the pause then: the batch is dropped, the pause
\* goes on, or the request is repeated.
Check == main = "pause" /\ check_in = 0
Left == retry_delay - CheckSecs

DropRequest == Check /\ LowOnSamples /\ ReturnBatch

PauseOn ==
  /\ Check /\ ~ LowOnSamples /\ Left > 0
  /\ retry_delay' = Left /\ check_in' = CheckSecs
  /\ UNCHANGED <<main, dump_in, busy, samplerVars, poolVars, worldVars>>

RetryNow ==
  /\ Check /\ ~ LowOnSamples /\ Left <= 0
  /\ main' = "perform" /\ retry_delay' = 0
  /\ UNCHANGED <<dump_in, busy, check_in, samplerVars, poolVars, worldVars>>

-----------------------------------------------------------------------------
(* The world.                                                              *)

\* The server stays out of reach as long as it likes, and then up until cpumon
\* had the time to catch up.
ServerFails ==
  /\ server = "up" /\ up_for = CatchUp
  /\ server' = "down" /\ up_for' = 0 /\ failing_for' = 0
  /\ UNCHANGED <<behind, slow, samplerVars, mainVars, poolVars>>
ServerReturns ==
  /\ server = "down"
  /\ server' = "up"
  /\ UNCHANGED <<behind, up_for, failing_for, slow, samplerVars, mainVars,
                 poolVars>>

\* The clock is set back, after a reading; not again before it is where it was.
SetClockBack(secs) ==
  /\ behind = 0 /\ age <= SamplePeriod
  /\ behind' = secs /\ up_for' = 0
  /\ age' = age - secs /\ dump_in' = dump_in + secs
  /\ UNCHANGED <<sampler, sample_in, holding, waited, main, busy, check_in,
                 retry_delay, poolVars, server, failing_for, slow>>

\* A second passes when nothing is due.
Tick ==
  /\ ~ SamplerWakes /\ ~ (sampler = "wait" /\ empty > 0)
  /\ main = "sleep" => dump_in > 0
  /\ main = "perform" => busy < MaxPerform
  /\ ~ Check
  /\ sample_in' = IF sampler = "sleep" THEN sample_in - 1 ELSE sample_in
  /\ waited' = IF sampler = "wait" THEN waited + 1 ELSE waited
  /\ age' = AtMost(age + 1, SamplePeriod + 1)
  /\ dump_in' = AtLeast(dump_in - 1, -Overdue)
  /\ busy' = IF main = "perform" THEN busy + 1 ELSE busy
  /\ check_in' = IF main = "pause" THEN check_in - 1 ELSE check_in
  /\ behind' = AtLeast(behind - 1, 0)
  /\ up_for' = IF server = "up" /\ behind = 0 THEN AtMost(up_for + 1, CatchUp)
                                             ELSE up_for
  /\ failing_for' = AtMost(failing_for + 1, Tolerance)
  /\ slow' = (busy' > Prompt \/ (slow /\ up_for < CatchUp))
  /\ UNCHANGED <<sampler, holding, main, retry_delay, poolVars, server>>

Init ==
  /\ empty = SampleCount /\ full = 0 /\ batch = 0
  /\ sampler = "sleep" /\ sample_in = SamplePeriod /\ age = SamplePeriod + 1
  /\ holding = FALSE /\ waited = 0
  /\ main = "sleep" /\ dump_in = DumpPeriod
  /\ busy = 0 /\ check_in = 0 /\ retry_delay = 0
  /\ server = "up" /\ behind = 0 /\ up_for = 0
  /\ failing_for = Tolerance /\ slow = FALSE

Next ==
  \/ SkipReading \/ TakeSample \/ StartWait \/ EndWait
  \/ Dump \/ RequestSucceeds \/ RequestFails
  \/ DropRequest \/ PauseOn \/ RetryNow
  \/ ServerFails \/ ServerReturns \/ Tick
  \/ \E secs \in BackSteps : SetClockBack(secs)

Spec == Init /\ [][Next]_vars

-----------------------------------------------------------------------------
(* Properties.                                                             *)

\* "Keep trying for some time": no request is given up before the pool has
\* lasted for as long as it should since the server went out of reach.
OutageTolerated == [][DropRequest => failing_for >= Tolerance]_vars

\* As long as requests are prompt, whatever their result, the sampler never
\* waits for a structure, not even when a batch is dropped and the next one
\* fails too; nor does it when the clock is set back and main oversleeps.  When
\* requests take longer, it may wait, but not longer than main is blind.
SamplerServed == /\ sampler = "wait" => slow
                 /\ waited <= Blind

\* When the server has been back for a pause and two requests, what was sampled
\* meanwhile is sent.
CatchesUp == up_for = CatchUp => full + batch <= Steady
=============================================================================
