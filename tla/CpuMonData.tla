----------------------------- MODULE CpuMonData -----------------------------
(***************************************************************************)
(* What the two threads of cpumon.c put into the sample structures and     *)
(* what main makes of them: the same steps as in module CpuMon, with the   *)
(* timestamps, the CPU times and the request.                              *)
(*                                                                         *)
(* What the kernel counts is given for each time, so a reading is told by  *)
(* the time it was taken, and a difference by two times and its numbers.   *)
(***************************************************************************)
EXTENDS CpuMon

CONSTANTS
  MaxTs,     \* the readings are taken at times up to this one
  CpuCount,  \* cpu_count
  TimeCount, \* time_count
  Counters,  \* ticks of each CPU and kind, since boot, at each time
  Modulus    \* 2^64 in the code: the values of an unsigned number

Cpus == 1..CpuCount
Times == 1..TimeCount

ASSUME DataAssumption ==
  /\ MaxTs \in Nat /\ {CpuCount, TimeCount, Modulus} \subseteq Nat \ {0}
  /\ Counters \in [0..MaxTs -> [Cpus -> [Times -> Nat]]]
  /\ Counters[0] = [c \in Cpus |-> [t \in Times |-> 0]]

VARIABLES
  last_ts,      \* last_ts of cpumon_main; also the time of the /proc/stat text
  value,        \* the contents of each sample structure
  last_sample,  \* args->last_sample: the readings kept for the subtraction
  last_index,   \* last_index of cpumon_main
  request,      \* the request buffer of main
  schema,       \* does main's variable schema point to the signals?
  server        \* what the server has stored, and whether it has the schema

samplerData == <<last_ts, last_sample, last_index>>
mainData == <<request, schema, server>>
dataVars == <<last_ts, value, last_sample, last_index, request, schema,
              server>>

\* time_values hold nothing yet, the values of a text that was too short, the
\* difference of two readings, the shares of each time in that difference, or
\* what becomes of the shares when they are converted a second time.
Forms == {"none", "partial", "difference", "percent", "garbage"}

\* A fraction, still undivided; in the code a double.
Fractions == [num : 0..(Modulus - 1), den : 0..(Modulus - 1)]

Contents == [ts : 0..MaxTs, from : 0..MaxTs, to : 0..MaxTs, form : Forms,
             times : [Cpus -> [Times -> 0..(Modulus - 1) \cup Fractions]]]

\* The unsigned numbers in the text of /proc/stat at some time.
Reading(ts) == [c \in Cpus |-> [t \in Times |-> Counters[ts][c][t] % Modulus]]

Unused == [ts |-> 0, from |-> 0, to |-> 0, form |-> "none",
           times |-> Reading(0)]

NoRequest == [schema |-> FALSE, data |-> <<>>]

-----------------------------------------------------------------------------
(* Plausible mistakes: none of them is in the code, each stands in for the *)
(* definition named in its comment to show that a property notices it.     *)

\* ParsePart that keeps the incomplete reading for the next subtraction.
PartialKept ==
  /\ FillFails
  /\ value' = [value EXCEPT ![sample].ts = last_ts, ![sample].form = "partial"]
  /\ last_sample' = [last_sample EXCEPT ![last_index] = last_ts]
  /\ UNCHANGED <<last_ts, last_index, mainData>>

\* Stamp that sets a structure's stamp only if a failed parse has not set it.
StampKept(contents) ==
  IF contents.form = "partial" THEN contents.ts ELSE last_ts

\* Fraction of the sum of all CPUs.
FractionOfAll(values, c, t) ==
  LET sums == [i \in Cpus |-> SumFunction(values[i])]
  IN  [num |-> values[c][t], den |-> SumFunction(sums) % Modulus]

\* FormatBatch without sbuf_clear.
FormatAppends ==
  /\ FormatDone
  /\ value' = [s \in Samples |->
                 IF s \in Range(batch) THEN [value[s] EXCEPT !.form = "percent"]
                                       ELSE value[s]]
  /\ request' = [schema |-> schema,
       data |-> request.data \o [i \in DOMAIN batch |-> value'[batch[i]]]]
  /\ UNCHANGED <<samplerData, schema, server>>

\* SendFails that leaves the schema out of the next request.
SchemaSentOnce ==
  /\ PerformFails
  /\ schema' = FALSE
  /\ UNCHANGED <<samplerData, value, request, server>>

-----------------------------------------------------------------------------
(* The sampler thread.                                                     *)

\* clock_gettime answers a time above last_ts and /proc/stat is read at once.
TakeReading ==
  /\ SnapshotTaken
  /\ last_ts' \in (last_ts + 1)..MaxTs
  /\ UNCHANGED <<value, last_sample, last_index, mainData>>

\* id and ts of the sample are set whenever it is filled.
Stamp(contents) == last_ts

\* The timestamp is set and too few values are found: the last CPU is gone.
Partial(contents) ==
  [contents EXCEPT !.ts = Stamp(contents), !.form = "partial",
     !.times = [c \in Cpus |-> IF c = CpuCount THEN contents.times[c]
                                              ELSE Reading(last_ts)[c]]]
ParsePart ==
  /\ FillFails
  /\ value' = [value EXCEPT ![sample] = Partial(value[sample])]
  /\ UNCHANGED <<samplerData, mainData>>

\* sample_diff_unsigned
DiffUnsigned(values, last) ==
  [c \in Cpus |-> [t \in Times |-> (values[c][t] - last[c][t]) % Modulus]]

\* The reading is copied to the other of the two kept ones, and then the last
\* one is subtracted.
ParseAll ==
  /\ FillDone
  /\ last_index' = (last_index + 1) % 2
  /\ last_sample' = [last_sample EXCEPT ![last_index'] = last_ts]
  /\ LET last == last_sample'[last_index] IN
       value' = [value EXCEPT ![sample] =
         [ts |-> Stamp(value[sample]), from |-> last, to |-> last_ts,
          form |-> "difference",
          times |-> DiffUnsigned(Reading(last_ts), Reading(last))]]
  /\ UNCHANGED <<last_ts, mainData>>

-----------------------------------------------------------------------------
(* The main thread.                                                        *)

\* A time of a CPU, as a fraction of the sum of the times of that CPU.
Fraction(values, c, t) ==
  [num |-> values[c][t], den |-> SumFunction(values[c]) % Modulus]

\* convert_times_to_percentages works in place: unsigned times become doubles,
\* and doubles would become anything.
Convert(contents) ==
  IF contents.form # "difference" THEN [contents EXCEPT !.form = "garbage"]
  ELSE [contents EXCEPT !.form = "percent",
          !.times = [c \in Cpus |-> [t \in Times |->
                       Fraction(contents.times, c, t)]]]

\* Each structure of the batch is converted, the buffer cleared, and the request
\* formatted with a record for each structure.
FormatBatch ==
  /\ FormatDone
  /\ value' = [s \in Samples |->
                 IF s \in Range(batch) THEN Convert(value[s]) ELSE value[s]]
  /\ request' = [schema |-> schema,
                 data |-> [i \in DOMAIN batch |-> value'[batch[i]]]]
  /\ UNCHANGED <<samplerData, schema, server>>

\* The buffer is cleared before the formatting that fails.
FormatNothing ==
  /\ FormatFails
  /\ value' = [s \in Samples |->
                 IF s \in Range(batch) THEN Convert(value[s]) ELSE value[s]]
  /\ request' = NoRequest
  /\ UNCHANGED <<samplerData, schema, server>>

\* The server stores what the request holds.
Store == server' = [schema |-> server.schema \/ request.schema,
                    records |-> server.records \cup Range(request.data)]

\* The schema is left out once a request was answered with success.
SendOk ==
  /\ PerformOk
  /\ Store
  /\ schema' = FALSE
  /\ UNCHANGED <<samplerData, value, request>>

\* The request is lost, or it is stored and its answer is lost.
SendFails ==
  /\ PerformFails
  /\ Store \/ UNCHANGED server
  /\ UNCHANGED <<samplerData, value, request, schema>>

-----------------------------------------------------------------------------
\* The steps that move structures around and touch no contents.
MoveStep ==
  /\ \/ LoopTest \/ SnapshotFails \/ LockEmpty \/ TakeEmpty \/ WaitEmpty
     \/ SpuriousWakeup \/ Relock \/ StopAfterWait \/ TestAgain \/ UnlockEmpty
     \/ LockFull \/ AddFull \/ UnlockFull
     \/ DumpWakeup \/ LockGrab \/ NothingFull \/ BeginGrab \/ GrabOne
     \/ GrabEnds \/ UnlockGrab \/ RetryPause \/ RetryNow \/ LockCount
     \/ CountEmpty \/ UnlockCount \/ DropRequest \/ KeepRequest \/ LockReturn
     \/ ReturnOne \/ ReturnEnds \/ SignalEmpty \/ UnlockIdle
     \/ ShutdownNext
  /\ UNCHANGED dataVars

\* One of the kept readings is zeroed, so that the first difference is the times
\* since boot.  The other comes from malloc and can hold anything.
DataInit ==
  /\ Init
  /\ last_ts = 0
  /\ value = [s \in Samples |-> Unused]
  /\ last_sample \in {r \in [0..1 -> 0..MaxTs] : r[0] = 0} /\ last_index = 0
  /\ request = NoRequest /\ schema = TRUE
  /\ server = [schema |-> FALSE, records |-> {}]

DataNext == TakeReading \/ ParsePart \/ ParseAll
            \/ FormatBatch \/ FormatNothing \/ SendOk \/ SendFails \/ MoveStep

DataSpec == DataInit /\ [][DataNext]_<<vars, dataVars>>

-----------------------------------------------------------------------------
(* Properties.                                                             *)

\* Each variable of the data layer has the values it can take.
DataTypeOK ==
  /\ last_ts \in 0..MaxTs
  /\ value \in [Samples -> Contents]
  /\ last_sample \in [0..1 -> 0..MaxTs] /\ last_index \in 0..1
  /\ request.schema \in BOOLEAN /\ request.data \in Seq(Contents)
  /\ schema \in BOOLEAN
  /\ server.schema \in BOOLEAN /\ server.records \subseteq Contents

\* The structures that hold a finished reading, oldest first.
Finished ==
  batch \o full
    \o IF spc \in {"lock_full", "add_full"} THEN <<sample>> ELSE <<>>

\* While main sends the batch, its structures and the buffer agree.
Sending ==
  {"perform", "retry", "lock_count", "count", "unlock_count", "decide"}

\* After the break main still has the batch, and it ends with it.
Ending == {"set_stop", "signal_stop", "join", "cleanup", "done"}

\* The finished readings cut the time into consecutive intervals: each
\* difference starts where the one before ended, and the newest ends with the
\* reading kept for the next subtraction, whatever was retried in between.
InFlightContiguous ==
  /\ \A i \in 1..(Len(Finished) - 1) :
       value[Finished[i]].to = value[Finished[i + 1]].from
  /\ Finished # <<>> =>
       value[Finished[Len(Finished)]].to = last_sample[last_index]

\* The timestamp reported with a difference is the time its reading was taken,
\* even if the structure had to be waited for, or was kept after a failure.
StampMatchesReading ==
  \A i \in DOMAIN Finished : LET c == value[Finished[i]] IN
    c.ts = c.to /\ c.from < c.to

\* The ticks of a CPU from one reading to another.
Ticks(c, from, to) ==
  [t \in Times |-> Counters[to][c][t] - Counters[from][c][t]]

\* No counter of the CPU went back, some tick was counted, and an unsigned
\* number can hold the ticks of each kind and all of them together.
Regular(c, from, to) ==
  /\ \A t \in Times : Ticks(c, from, to)[t] \in 0..(Modulus - 1)
  /\ SumFunction(Ticks(c, from, to)) \in 1..(Modulus - 1)

\* What is sent, or sent again, was converted exactly once, and for each CPU it
\* is the ticks of the interval as fractions that make up the whole, even if the
\* counters have wrapped around in between.  When a counter was set back, or no
\* tick was counted, the code reports what comes out.
UsageReported ==
  \A r \in Range(request.data) :
    /\ r.form = "percent"
    /\ \A c \in Cpus, t \in Times : Regular(c, r.from, r.to) =>
         r.times[c][t] = [num |-> Ticks(c, r.from, r.to)[t],
                          den |-> SumFunction(Ticks(c, r.from, r.to))]

\* During all attempts the buffer holds one record for each structure of the
\* batch, in order, and nothing of an earlier request: the sampler, running at
\* the same time, reaches none of them.
RequestMatchesBatch ==
  mpc \in Sending =>
    request.data = [i \in DOMAIN batch |-> value[batch[i]]]

\* The server never stores records before it knows the schema they follow,
\* whichever requests were lost or dropped.
SchemaFirst == server.records # {} => server.schema

-----------------------------------------------------------------------------
Interval(s) == <<value[s].from, value[s].to>>

\* The data layer, seen as intervals that wait for their delivery.
Produced == IF spc \in {"lock_full", "add_full"} THEN value[sample].from
                                                 ELSE last_sample[last_index]
Waiting == LET q == IF mpc \in {"lock_return", "return"} THEN full
                                                         ELSE batch \o full
           IN  [i \in DOMAIN q |-> Interval(q[i])]
BeingSent == IF mpc \in Sending \cup {"format"} \cup Ending THEN Len(batch)
                                                           ELSE 0
Stored == {<<r.from, r.to>> : r \in server.records}

Service == INSTANCE Delivery WITH produced <- Produced, pending <- Waiting,
                                  sending <- BeingSent, delivered <- Stored

\* Every interval is delivered or given up deliberately, in order; none is lost
\* and none is skipped.
ImplementsDelivery == Service!Spec
=============================================================================
