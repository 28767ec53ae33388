------------------------------ MODULE ProcStat ------------------------------
(***************************************************************************)
(* From the text of /proc/stat to the columns of a sample (cpumon.c).  The *)
(* number of CPUs and of times is counted once, at the start, and the      *)
(* signals are named by position; every later text is parsed by position.  *)
(* In between, CPUs go offline and come online.                            *)
(*                                                                         *)
(* A text is the sequence of the CPUs its lines are about, the summary of  *)
(* all of them first; a value is identified by its CPU and its column.     *)
(***************************************************************************)
EXTENDS Integers, Sequences, FiniteSets

CONSTANTS
  Cpus,     \* how many CPUs there may be; CPU 0 is always online
  Times,    \* how many columns a line has
  Summary,  \* the first line: all CPUs together
  Nobody    \* what memory from malloc is about

ASSUME ProcStatAssumption ==
  /\ Cpus \in Nat \ {0} /\ Times \in Nat \ {0}
  /\ Summary \notin Int /\ Nobody \notin Int \cup {Summary}

VARIABLES
  online,     \* the CPUs that are online now
  started,    \* was the text of the start counted and the sampler started?
  signals,    \* the names of the signals after "ts", in order
  text,       \* the lines of the last text that are still to be parsed
  reading,    \* the CPUs in the last text
  parsing,    \* is proc_stat_parse_times at work?
  index,      \* local variable result of proc_stat_parse_times
  values,     \* time_values of the structure being filled
  published,  \* the values of the last sample put into full_samples
  covered,    \* the CPUs in the text it was made from
  kept,       \* last_sample: the values the next ones are subtracted from
  mixed       \* did the last subtraction mix two CPUs?

vars == <<online, started, signals, text, reading, parsing, index, values,
          published, covered, kept, mixed>>

\* The lines of a text: the summary, then the CPUs online, in order: each comes
\* after those with smaller numbers.
CpuAfter(n, cpus) == CHOOSE c \in cpus : Cardinality({d \in cpus : d < c}) = n
Lines(cpus) == [i \in 1..(Cardinality(cpus) + 1) |->
                  IF i = 1 THEN Summary ELSE CpuAfter(i - 2, cpus)]

\* proc_stat_get_cpu_count: the lines that begin with "cpu".
CpuCount(lines) == Len(lines)

\* A plausible mistake: CpuName without the special case of the summary.
CpuNameByIndex(i) == i

\* A plausible mistake: TimeCount that counts the label of the line.
TimeCountLabel(lines) == Times + 1

\* proc_stat_get_time_count: the columns of the first line.
TimeCount(lines) == Times

\* supply_cpu_name: "cpu", then "cpu0", "cpu1", ...
CpuName(i) == IF i = 0 THEN Summary ELSE i - 1

\* checked_create_time_signals: the names of all columns, CPU by CPU.
SignalNames(cpus, times) ==
  [i \in 1..(cpus * times) |-> <<CpuName((i - 1) \div times),
                                 ((i - 1) % times) + 1>>]

\* A value nobody wrote: memory from malloc.
Unset == [cpu |-> Nobody, time |-> 0, fresh |-> FALSE]

Stale(row) == [i \in DOMAIN row |-> [row[i] EXCEPT !.fresh = FALSE]]

-----------------------------------------------------------------------------
(* Plausible mistakes: each stands in for the definition its comment names. *)

\* ParseTooFew that takes a sample that is not complete.
AcceptAny ==
  /\ parsing /\ text = <<>> /\ index < Len(signals)
  /\ parsing' = FALSE
  /\ published' = values /\ covered' = reading
  /\ kept' = Stale(values) /\ mixed' = FALSE
  /\ UNCHANGED <<online, started, signals, text, reading, index, values>>

-----------------------------------------------------------------------------
\* The kernel takes a CPU offline or brings one online.
Hotplug(cpu) ==
  /\ online' = (online \ {cpu}) \cup ({cpu} \ online)
  /\ UNCHANGED <<started, signals, text, reading, parsing, index, values,
                 published, covered, kept, mixed>>

\* main counts CPUs and times in the text it has read, names the signals and
\* starts the sampler.
Start ==
  /\ ~ started
  /\ started' = TRUE
  /\ LET n == CpuCount(Lines(online))
         t == TimeCount(Lines(online))
     IN  /\ signals' = SignalNames(n, t)
         /\ values' = [i \in 1..(n * t) |-> Unset]
         /\ kept' = [i \in 1..(n * t) |-> Unset]
  /\ UNCHANGED <<online, text, reading, parsing, index, published, covered,
                 mixed>>

\* cpumon_main has read the file and has a structure to fill: a new one, or one
\* kept after an attempt that failed.
Read ==
  /\ started /\ ~ parsing
  /\ text' = Lines(online) /\ reading' = online
  /\ parsing' = TRUE /\ index' = 0 /\ values' = Stale(values)
  /\ UNCHANGED <<online, started, signals, published, covered, kept, mixed>>

\* proc_stat_parse_times: the columns of one line, as many as are expected.
ParseLine ==
  /\ parsing /\ text # <<>>
  /\ LET last == IF index + Times < Len(signals) THEN index + Times
                                                 ELSE Len(signals)
     IN  /\ values' = [i \in DOMAIN values |->
              IF i \in (index + 1)..last
              THEN [cpu |-> Head(text), time |-> i - index, fresh |-> TRUE]
              ELSE values[i]]
         /\ index' = last
  /\ text' = IF index + Times > Len(signals) THEN <<>> ELSE Tail(text)
  /\ UNCHANGED <<online, started, signals, reading, parsing, published, covered,
                 kept, mixed>>

\* Fewer values than expected: the structure is kept and everything retried.
ParseTooFew ==
  /\ parsing /\ text = <<>> /\ index < Len(signals)
  /\ parsing' = FALSE
  /\ UNCHANGED <<online, started, signals, text, reading, index, values,
                 published, covered, kept, mixed>>

\* sample_copy_from, sample_diff_unsigned, list_add_last.
Publish ==
  /\ parsing /\ text = <<>> /\ index = Len(signals)
  /\ parsing' = FALSE
  /\ published' = values /\ covered' = reading
  /\ kept' = Stale(values)
  /\ mixed' = \E i \in DOMAIN values :
                 kept[i].cpu \notin {Nobody, values[i].cpu}
  /\ UNCHANGED <<online, started, signals, text, reading, index, values>>

Init ==
  /\ online \in {s \in SUBSET (0..(Cpus - 1)) : 0 \in s}
  /\ started = FALSE /\ signals = <<>>
  /\ text = <<>> /\ reading = {} /\ parsing = FALSE /\ index = 0
  /\ values = <<>> /\ published = <<>> /\ covered = {} /\ kept = <<>>
  /\ mixed = FALSE

Next == \/ \E cpu \in 1..(Cpus - 1) : Hotplug(cpu)
        \/ Start \/ Read \/ ParseLine \/ ParseTooFew \/ Publish

Spec == Init /\ [][Next]_vars

-----------------------------------------------------------------------------
(* Properties.                                                             *)

\* Each variable has the values it can take; no value is stored outside the
\* structure.
Rows == Seq([cpu : 0..(Cpus - 1) \cup {Summary, Nobody}, time : 0..Times,
             fresh : BOOLEAN])
TypeOK ==
  /\ online \subseteq 0..(Cpus - 1) /\ reading \subseteq 0..(Cpus - 1)
  /\ covered \subseteq 0..(Cpus - 1)
  /\ started \in BOOLEAN /\ parsing \in BOOLEAN /\ mixed \in BOOLEAN
  /\ index \in 0..Len(signals)
  /\ values \in Rows /\ kept \in Rows /\ published \in Rows
  /\ Len(values) = Len(signals) /\ Len(kept) = Len(signals)

\* Every value of a published sample comes from its own text: none was left in
\* the structure by an earlier attempt that failed.
FreshValues == \A i \in DOMAIN published : published[i].fresh

\* Whatever CPUs come and go, a signal is fed from the column it is named after:
\* user times never end up in a signal for idle times, and the signals without a
\* CPU number, and no others, show the summary.
TimesAligned ==
  \A i \in DOMAIN published :
    /\ published[i].time = signals[i][2]
    /\ (published[i].cpu = Summary) <=> (signals[i][1] = Summary)

\* As long as the CPUs are numbered without a gap, a signal is fed from the CPU
\* it is named after.
CpusAligned ==
  published # <<>> /\ (\E n \in 1..Cpus : covered = 0..(n - 1)) =>
    \A i \in DOMAIN published : published[i].cpu = signals[i][1]

\* The comment on the subtraction: the previous sample is subtracted to get the
\* usage of each CPU for the last interval.
SameCpuSubtracted == ~ mixed
=============================================================================
