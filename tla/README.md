# TLA+ models of fivis-client

fivis-client is a C library that pushes signal data to a FIVIS server over
HTTPS, and two programs that use it: `mksigset`, which creates an empty signal
set, and `cpumon`, which samples `/proc/stat` in one thread and sends batches of
samples from another.  This directory holds models of the library and of both
programs, the TLC configurations that check them on small instances, and proofs
of the properties that matter most, checked by TLAPS.

Paths in this file are relative to the repository root; line numbers are those
of the sources the models were written from.

## The system

| Component | State | Operations | Interacts with |
|---|---|---|---|
| sampler thread, `cpumon_main` (cpumon.c) | structure being filled, last timestamp, two kept readings | sleep, read, wait for a structure, parse, subtract, publish | dump loop, through the two lists, `samples_mutex`, `empty_samples_cond` and `cpumon_stop`; procfile |
| dump loop, `main` (cpumon.c) | batch, request buffer, schema pointer, retry delay | grab, convert, format, perform, retry, drop, return, stop | sampler; fivis; sbuf |
| `/proc/stat` columns (cpumon.c) | number of CPUs and times, names of the signals | count, name, parse | kernel (CPUs come and go); sampler |
| iterator `cpumon_next_value` (cpumon.c) | position in the batch | next value | called by `format_data` |
| procfile (procfile.c) | buffer, its size, length of the text | open, read fully, close | kernel; sampler |
| fivis (fivis.c) | easy handle, URL, headers, error buffer, last error (per thread) | global init, init, format request, perform request, cleanup | libcurl, which keeps pointers to what it is given; server |
| `mksigset` (mksigset.c) | context, request buffer, exit code | one request with a schema and no data | fivis; whoever reads the exit code |
| sbuf (sbuf.c) | data, size, next | format, append, set, clear, destroy | fivis, entries, cpumon |
| list (list.h) | two pointers in every node | insert, remove, iterate, size | samples and signals are linked with it |
| entries (entry.h, entry.c) | name, link, formatters | make, destroy | signals of a request |

What is hard about it:

- *Concurrency.*  300 sample structures go round between a list of empty ones,
  the sampler, a list of full ones and the dump loop.  The dump loop works for
  minutes on a batch with no lock held, counts the empty structures under the
  lock and acts on the count after releasing it.  The sampler sleeps on a
  condition variable that only the dump loop signals.
- *Failure.*  Readings fail, are too short, or are not newer than the last; the
  structure is then kept for the next attempt.  Requests fail and are sent
  again, or are given up when the pool of empty structures runs low.  An error
  does not say whether the server has stored the request.
- *Time.*  Samples are taken every 12 seconds and dumped every 60; a failed request
  is repeated after 20, with a look at the pool every 5, and dropped when 30
  structures are left.  Whether these numbers go together is stated nowhere.  One
  thread sleeps for a time, the other until a time, and the clock may be set.
- *Ordering.*  The schema must reach the server before data do; differences must
  be taken between consecutive readings; times are converted in place.
- *Boundaries.*  Strings and file contents that just fill their buffer, counters
  that wrap around, CPUs that come and go while columns are matched by position.
- *Partial failure.*  `fivis_init` acquires five resources in turn, `procfile_open`
  four, and the programs have exits at every stage.

What makes each component correct:

- threads: no structure is lost, doubled or used by both sides; lists change
  only under the mutex; no wakeup is lost; a batch is given up only when the
  pool is low; the monitor never stops for good; main cleans up after the
  sampler is gone;
- periods: an outage is tolerated for as long as the pool lasts, the sampler is not
  kept waiting, what was sampled meanwhile is sent soon afterwards;
- data: consecutive intervals without gap or overlap, timestamps that match,
  one conversion to the right fractions, the request equal to the batch, the
  schema first;
- columns: values are fresh, in the right column, of the right CPU;
- strings, files, requests: zeros inside buffers, whole texts, whole records, and
  nothing but one whole request is ever posted;
- lists: closed rings, and loops that meet each item once;
- context and programs: nothing leaks, nothing freed is reached, errors and exit
  codes are told truly.

## The modules

`CpuMonState`, `CpuMon` - **the two threads.**
One action is one step between two points where the other thread can interleave;
every access to a shared list is a step of its own, so that a step taken without
the mutex would be seen to interfere.  The program counters `spc` and `mpc` stand
for positions in `cpumon_main` and in the loop at the end of `main`; `sample`,
`retry_delay`, `empty_count`, `stop`, `empty` and `full` have the names of the C
variables; `batch` is `next_value_state.samples`; `mutex` is the holder of
`samples_mutex`.  `pthread_cond_wait` is three steps: release and wait in one
(`WaitEmpty`), be woken by a signal or for no reason (`CondSignal`,
`SpuriousWakeup`), and take the mutex again (`Relock`).

Near the top of each module stand variants of some of its definitions with
plausible mistakes; they show that the properties notice such mistakes and are part
of no specification.

`SamplePool` - **the abstract pool**: a structure moves along the one cycle empty,
sampler, full, main, empty.  `CpuMon!ImplementsPool` is the refinement.

`CpuMonTiming` - **the two threads in time.**  Steps take no time, sleeps and requests
do; structures are counted.  `sample_in`, `dump_in` and `check_in` are what is left of
the three sleeps; `age` is how far the clock is past `last_ts`, which a clock that is
set back makes negative (`IsLater` is the test at cpumon.c:359) while it makes
`dump_in` longer, as that sleep is absolute.  `Tick` lets a second pass when nothing
is due.  A request takes any time up to `MaxPerform`, and its result depends on
whether the server is up when it ends.  The four derived times at the top are what the
properties say of the constants:

- `Prompt`: requests of up to ((30 + 1) * 12 - 1) / 2 - 5 = 180 seconds never keep the
  sampler waiting, whatever fails.  libcurl waits for a connection longer than that
  (300 seconds by default), so a server that swallows packets can.
- `Blind`: when they take longer, it waits no longer than one request and a check.
- `Steady`: as many structures are full or in a request while requests succeed.  The
  timestamps of two samples are a period apart, or, if the clock may be set back by
  any number of seconds between them, just one (`Spacing`).  With requests of up to 5
  seconds and a clock that is not set back it is 8, else 75.
- `Tolerance`: with such requests no batch is given up within
  (300 - 30 - 8 - 2) * 12 = 3120 seconds, 52 minutes, of an outage; if the clock may be
  set back, within (300 - 30 - 75 - 2) * 12 = 2316 seconds.
- `CatchUp`: a pause, a check and two requests after the end of an outage everything
  sampled meanwhile is sent, and at most `Steady` structures are in use again.

`CpuMonData` - **the contents.**  The same steps (each action of `CpuMon` is a
conjunct) with timestamps, kept readings, differences, the request, the schema
and the server.  `Counters` says what the kernel has counted at each time; a reading
is these numbers modulo `Modulus`, the 2^64 of an unsigned number, a difference is
taken modulo `Modulus`, and a share is kept as a fraction, numerator and sum.  The
factor of 100 and the rounding are left out.  A failed request may or may not have
been stored.

`Delivery` - **the abstract service**: intervals that follow each other, each
delivered or given up in order.  `CpuMonData!ImplementsDelivery` is the
refinement; the batch being returned to the pool is already settled for it.

`ProcStat` - **columns.**  CPUs go offline and online (`Hotplug`) between any two
steps.  A text is the sequence of the CPUs its lines are about; `ParseLine` is one
round of the loop of `proc_stat_parse_times`.

`RequestFormat` - **the text of a request**: `fivis_signals_format_request` with
`format_schema`, and the two coroutines `format_data` and `cpumon_next_value`, call by
call.  What is appended goes behind what the buffer already holds.

`FivisResult`, `FivisContext` - **the context**: each step of `fivis_init` succeeds or
fails and goes to a label; `opt` counts the options set in the easy handle, some
of which are pointers (`Lent`); requests and their classification; `fivis_cleanup`.
The pointer to the data and its size (`fields`, `post_size`) stay in the handle
between requests, as in libcurl.

`FivisSession` - **the two programs**, composed of `FivisContext` and `RequestFormat`:
from `checked_global_init` to the exit handler.  `program` says which of the two it is
and `main` where it is.  `mksigset` makes one request with a schema and no data;
`cpumon` first reads `/proc/stat`, makes the names of its signals, allocates the
samples and starts the sampler (`SetupStep`), and ends where one of these steps fails
(`ProcStatFails`, `CheckFails`), with the context open.  It then sends batches (its sampler is a choice of how many samples there are),
repeats or drops them, and leaves out the schema after the first success.  One buffer
holds every request, and `ClearBuffer` and the destruction of the buffer invalidate
the pointer libcurl has.

`ProcFile` - **procfile.c** over a file whose length is another one at each read:
`procfile_open` with its labels, `read_fully`, `procfile_read_fully` and
`procfile_close`, any of whose calls may fail.

`Sbuf` - **the string buffer**: `size` and `next` as in the structure, `strlen` the
offset of the first zero byte.  `sbuf_vformat` is a loop of three steps.

`IntrusiveList`, `ListSpec` - **the list**, one pointer store at a time, and sequences
as the abstract lists.  The refinement is at the granularity of stores: whoever
follows a list forward never sees a state in between.  In the programs nobody follows a
list while another thread changes it (`samples_mutex`); `BackwardFirst` is about the
order of the stores that the comments at list.h:84-87 and 111-114 describe.

`ListWalk` - **the loops** over the lists of `IntrusiveList`: `list_for_each`, its typed,
reverse and safe versions, `list_walk`, `list_find`, `list_size` and `list_destroy`.

`MCCpuMonData` adds counters and a symmetry set for TLC.  `CpuMonTimingProofs`,
`ProcStatProofs`, `ProcFileProofs`, `SbufProofs` and `FivisSessionProofs` hold the
theorems about the modules they are named after, `CpuMonProofs` those about `CpuMon`
and `CpuMonData`, `ListWalkProofs` those about `IntrusiveList` and `ListWalk`, and
`SampleSeqs` lemmas about sequences and numbers that they share.

## The runs

| Run | Instance | Question |
|---|---|---|
| `threads` | 3 structures, limit 1, 2 checks in a pause, formatting may fail | pool, mutex, wakeups, drops, refinement of `SamplePool`; does a waiting sampler go on, do structures come back, do new samples appear for ever |
| `stop` | the same | does the end of `main` complete: **no** |
| `data` | 3 structures, 1 check, readings at times up to 5 of 2 CPUs with 2 counters modulo 32, formatting may fail | intervals, stamps, shares, request, schema; is the end of `main` clean; refinement of `Delivery` |
| `outage` | 17 structures, limit 2, periods 2, 4, 3 and 1, requests of up to 3, the clock set back by 3 | how long is an outage tolerated, when does the sampler wait, when has all been sent |
| `procstat` | 4 CPUs, 2 columns | fresh and aligned columns |
| `procstat_subtract` | 3 CPUs, 2 columns | is each CPU subtracted from itself: **no** |
| `session` | both programs; batches of up to 4 samples with up to 4 times; formatting may fail | unwinding and exits (the only ones with an open context are those of cpumon's setup), lent pointers, whole requests, an iterator that is exhausted at the end, results and exit codes |
| `procfile` | pages of 2 bytes, files up to 7 | whole text, room for the zero, release; the loop ends |
| `sbuf` | blocks of 4 bytes, texts up to 9, offsets up to 12 | offsets, terminator, one growth |
| `sbuf_memory` | texts up to 5, realloc may fail for ever | does the call return: **no** |
| `list` | 2 heads, 3 items | rings, loops, refinement of `ListSpec` |
| `list_entry` | the same, without loops | is an unlinked entry empty: **no** |

Each property of a passing run is also checked to be able to fail: for each,
`PROJECT.json` names a definition and a plausible mistake in it (a missing unlock, an
off-by-one, a forgotten reset) with which TLC finds the property violated.

**Bounds.**  The pool goes through a cycle of four places; three structures are
enough to have two in one place and one elsewhere, to empty the pool, and, with a
limit of 1, to let the count fall on both sides of it.  The code has 300
structures and a limit of 30; the theorems below hold for any.  Periods count for
their ratio only (20 s : 5 s in the code, 10 : 5 here: a first check in the pause
and a last one).  Five times give four intervals, more than the structures hold,
so that structures are used a second time; among the counters of the instance one
wraps around, one is set back and a CPU stands still.  In `outage` 17 structures and
a limit of 2 let the pool run low while requests take up to one and a half sampling
periods, which is longer than `Prompt`, so that the sampler does wait; `CatchUp` is
tight: one second less, and TLC finds a violation.  The other derived times are safe
bounds, and the theorems below say so for all constants; they replace bounds that were
tight for one instance and wrong for others.
Four CPUs give a gap with CPUs on both sides.  A text of two blocks and a byte crosses every boundary of the buffer; so
does a file of three pages and a byte.  With two heads and three items an item is
removed from one list and added to the other beside a neighbour on either side.
`MaxNext`, `MaxLength`, `MaxTs`, `MaxFile`, `MaxBatch` and `MaxValues` are bounds of
the instances only.

**Deadlock** is checked where the system goes on for ever.  It is not in `threads`,
`stop` and `data` (the program ends, and the data layer runs out of timestamps; that
the threads do not wedge is `WaiterServed` and `MonitoringContinues`) and `session`
(both programs end).  In `outage` it is checked: time can always go on.

**Fairness.**  `CpuMon!Fairness`: a thread that can take a step takes one - the
kernel schedules both, sleeps end, `curl_easy_perform` returns.  For the steps
that take the mutex it is strong fairness: the mutex is free again and again, as
it is held for a few list operations only and every thread sleeps for seconds
before it asks for it again; a thread that asked is served before the other has
slept.  No fairness is assumed for `SpuriousWakeup`, for success of requests or for
readings.  `SamplesRecycled` and `MonitoringContinues` state in the formula that
readings succeed now and then (`ReadingsRecover`): the clock gets ahead of the last
timestamp, and the text has all expected values; `WaiterServed` needs neither.  All
three hold until `main` gives up for good (`stop`).
The step functions of `Sbuf` and `ProcFile` are sequential
code and get weak fairness.  No timeout is set on requests (fivis.c:324), so that
`curl_easy_perform` returns is an assumption about TCP and the server.

## What the runs show to be otherwise than documented

- `stop`: the sampler can miss the request to stop, and `main` then waits in the
  join for ever (cpumon.c:759-761).  The end of `main` is reached only if a request
  cannot be formatted, which `sbuf_string` never reports at present.
- `sbuf_memory`: `sbuf_vformat` ignores a failed reallocation and loops (sbuf.c:144),
  where sbuf.h promises NULL.
- `list_entry`: `entry_generic` returns a link that points to its dead local
  variable (entry.h:53); list.h promises that unlinked items are empty.
- `procstat_subtract`: after a CPU comes online the number of values can be the same
  although the lines are about other CPUs, and the times of one CPU are subtracted
  from those of another (cpumon.c:167, 414, 427).

Smaller differences, met while modelling and described here only: `align_pow2`
rounds to multiples of a power of 2 and not to powers of 2 (util.h:26-27); the
schema is sent until the first success and not in the first request only
(cpumon.c:675-676); a CPU that comes online later is left out of samples that
should hold "all time values for all CPUs" (cpumon.c:401-402).

## The proofs

TLC checks small instances; the theorems hold for every value of the constants.
Safety properties are seldom inductive, so each module proves one inductive
invariant, action by action, and the properties from it.

| Module | Theorem | Property |
|---|---|---|
| `CpuMonProofs` | `TypeCorrect` | `TypeOK` |
| | `PoolPartitioned` | `PoolPartition` |
| | `WakeupNotLost` | `NoLostWakeup` |
| | `ShutdownClean` | `CleanShutdown` |
| | `ListsGuarded` | `ListsUnderMutex` |
| | `DropsJustified` | `DropOnlyUnderPressure` |
| | `PoolImplemented` | `ImplementsPool` |
| | `IntervalsContiguous` | `InFlightContiguous` |
| | `StampsMatch` | `StampMatchesReading` |
| | `RequestIsBatch` | `RequestMatchesBatch` |
| | `SchemaComesFirst` | `SchemaFirst` |
| | `UsageCorrect` | `UsageReported` |
| | `DeliveryImplemented` | `ImplementsDelivery` |
| `CpuMonTimingProofs` | `SoonCaughtUp` | `CatchesUp` |
| | `OutagesTolerated` | `OutageTolerated` |
| | `SamplerIsServed` | `SamplerServed` |
| `ProcStatProofs` | `ValuesFresh` | `FreshValues` |
| | `ColumnsMatch` | `TimesAligned` |
| | `CpusMatch` | `CpusAligned` |
| `ProcFileProofs` | `TerminatorInside` | `TerminatorFits` |
| | `TextIsWhole` | `WholeFile` |
| | `AllReleased` | `Released` |
| `SbufProofs` | `StaysWithinBuffer` | `WithinBuffer` |
| | `StringTerminated` | `Terminated` |
| | `OneGrowthSuffices` | `GrowsEnough` |
| `FivisSessionProofs` | `NoLeaks` | `NothingLeaked` |
| | `NothingDangles` | `LentIsAlive` |
| | `ResultsTruthful` | `ResultTruthful` |
| | `ExitsTruthful` | `ExitTruthful` |
| | `RecordsComplete` | `OneRecordPerSample` |
| | `IterationEnds` | `EndsAtNull` |
| | `PostsTheWhole` | `PostedWhole` |
| `ListWalkProofs` | `RingsClosedHolds` | `RingsClosed` |
| | `BackwardFirstHolds` | `BackwardFirst` |
| | `WalksWholeHolds` | `WalksWhole` |
| | `ListsImplemented`, `CallsKeepLists` | `ImplementsLists` |

*Threads.*  That a wakeup is not lost depends on who holds the mutex at each program
counter, that a structure is not used twice on where the sampler has a structure at
all and on the batch being empty when a new one is grabbed, and that a drop is
justified on the pool only shrinking between the count and the decision.  `IndInv`
adds these facts to `TypeOK` and `PoolPartition`.  The step is split into the control
part (`ControlStep`) and the pool part (`PoolStep`), which uses lemmas about appending
to and taking from injective sequences (`SampleSeqs`).  The refinement follows from
the same invariant: each action that moves a structure moves it along one edge of the
abstract cycle, and the others leave every place as it is.

*Data.*  `ControlRefined`: a step of the data layer is a step of the threads or none,
so that `IndInv` holds there too, and says which structures the sampler can write.
On top of it `DataIndInv` says what is in the structures.  The finished readings - the
batch, the full list, and the structure in the sampler's hand - are one chain of
intervals, each beginning where the last one ends, up to the reading kept for the
next subtraction.  The invariant further says: which structures are converted already, that
what they hold was made of the counters at the two ends of the interval, that from
the formatting to the end of the attempts the buffer is the batch, and that as long
as the server lacks the schema each request has it.  `UsageCorrect` then is arithmetic: a difference
modulo the width of an unsigned number is the number of ticks, if that is smaller
than the width.  `DeliveryImplemented` maps the chain to the queue of `Delivery`.

*Time.*  A structure that is not empty is full, in the batch, or held by the sampler
(`CountInv`).  `ClockInv` bounds what is full before a dump by the distance of the last
timestamp to the next dump: it shrinks with each sample by `Spacing`, and stays as it
is when the clock goes on or is set back.  `SampledIn` bounds what becomes full during
a request.  `SteadyInv` puts both together, along the way main takes from the end of an
outage (`SoonCaughtUp`); `OutageInv` counts from there (`OutagesTolerated`).
`SamplerIsServed` has hypotheses: `0 <= Tolerance`, so that the pool is large enough for
an outage at all, and `0 <= Prompt`, so that the limit leaves room for a check.  The
instance and the numbers of the code satisfy both.  `ServedInv` says
what is left of the pool while main sleeps, performs and pauses; `WaitInv` that the
sampler begins to wait only after main began to be blind.

*Columns.*  While a text is parsed, the first values of a structure are those of the
lines read so far, and the others still belong to an earlier text (`IInv`).  Both the
structure and the list of signals are cut into lines of equal length, so that the
line and the column of a value are a quotient and a remainder.

*Files and strings.*  `ProcFileProofs` has one invariant for what there is at each label
(descriptor first, structure last) and one for the lengths; `SbufProofs` adds that the
buffer grows only when the text did not fit.  Both rest on a lemma that aligning
never makes a size smaller.

*Sessions.*  `OwnedInv` says which resource there is at each step of `fivis_init`, at its
labels and in `fivis_cleanup`; `SessionInv` where the two programs are and what they
have done by then, in particular that a context which is still open at an exit is the
one of a cpumon in its setup, whose handler is registered and which has no request
(`ExitInv`, `LibraryInv`); `AnswerInv` what the results say.  `TextInvariant` is separate: how
much of the text of a request is written when the iterator is at a given value, for
every size of a batch and of a sample, and that the cursor is `Exhausted` when the
data end.

*Lists.*  `ListInv` says that at every store there is a sequence for each head along
which the `next` pointers lead from the head and back to it, and one along which the
`prev` pointers do, and that no item is in two of them.  Between two calls the two
sequences are the same.  During a call they differ, for one head, by one item at one
place, and which of them has it already is told by `pc`: an insertion shows it
backward first, a removal hides it backward first (`Change`).  This is a statement
about every place of a sequence instead of about paths, so that a store is followed at
the one place where it writes (`LinkForwardRing` and the three like it), and a list it
does not write to is kept because no item of it is written (`OtherRing`).  Only
`WalkIs`, that following pointers from the head gives the sequence, needs an induction,
over the number of pointers followed.  With that, `ListStep` gives the invariant and
the refinement at once: `LinkForward` is the abstract insertion, `UnlinkForward` the
abstract removal, and everything else changes nothing forward.

*Loops.*  `WalkInv` says that the items met are the first of what the list held at the
beginning (`MetInv`), that a body changes the list only by taking out the item it is
at (`BodyInv`), and where the loop variables are in the list of the beginning.  For
`list_for_each_safe` the reason why it meets the whole list although items go away is
`Suffix`: what is left of the list ends like the list of the beginning, behind the
items met, so that the item read ahead is still in the list and what follows it is
what followed it then.  `list_destroy` meets its items after they are out of the list:
there `kept` is the rest.  `CallsKeepLists` states of the calls alone what
`RingsClosedHolds`, `BackwardFirstHolds` and `ListsImplemented` state of the calls and
the loops together.  TLC found both invariants to hold before they were proved:
`ListInv` with two heads and two items and with one head and three items, `WalkInv`
with two heads and three items.

The assumptions are those of the modules (`ASSUME`), which TLC evaluates in every
run: a finite non-empty pool, natural numbers for limits and sizes, positive
periods and blocks, a history of the counters, that NULL is not a place of the
iterator (`NullAssumption`), and that heads and items are finitely many different
nodes, to which the contents of fresh memory do not point, and NULL neither a node nor
a sequence of items (`NodesAssumption`).  Where a proof needs induction over numbers (the greatest
step of the clock, the size of a request, the lines of a text), `SampleSeqs!Induction`
gives it for a set of numbers, from the fact that each non-empty set of numbers has a
least one.

Model-checked only is what is about liveness, since fairness needs `ENABLED`:
`WaiterServed`, `SamplesRecycled`, `MonitoringContinues` and `ReadReturns`.  Every other
property of a passing run is stated by a theorem.  That a loop over a list ends is not
stated: that it meets the items of a finite list once each is `WalksWhole`.

## What is not modelled

- The text of requests, names and messages, and the formatters of entries (one call
  of `sbuf_format` each); a name is a position, a request a record of its parts.
  That a sum of 0 gives NaN, which is no JSON, is therefore not seen;
  `UsageReported` excludes intervals without a tick, and those in which a counter of
  the CPU was set back: the code reports what comes out.
- The rounding of doubles and the factor of 100.
- TLS, HTTP and libcurl's inside; the server is a set of records.
- Error and debug output, configuration and build files.
- Errors of the mutex, of the condition and of `pthread_join`, which would end the
  program (`checked.h`): an initialised default mutex that its owner unlocks reports
  none.  Exhausted memory and a thread that cannot be created are modelled where the
  setup of cpumon checks for them (`CheckFails`).
- The pieces of a request that a failing `vsnprintf` would leave out (fivis.c:97, no
  result is looked at): each call is taken to append its piece.
- Which errors are permanent (cpumon.c:709), a CPU that stays offline (cpumon.c:414)
  and a request that never returns (fivis.c:324): the liveness properties assume that
  readings can be parsed again and that requests end, and say nothing without.
- The error buffer of a context before libcurl has written to it: `fivis.c:124` takes
  its `strlen` when setting an option fails, and `fivis_init` does not initialise
  it.  What is read there goes to a debug message only.
- Duplicate ids of records after the clock was set back or the program restarted.
- Steps of the clock that leave `last_ts` far behind it: back before the first
  reading, or forward and back again between two readings.  `SetClockBack` excludes
  them, since the comparison at cpumon.c:359 does not keep the sampler from filling
  the pool then, while `main` oversleeps by the step.

## Plan

Done, in this order: threads and pool with proofs; data layer; string buffer with
proofs; list; context and results; procfile; columns; formatting; the numbers of the
data layer; the threads in time; the two programs as sessions of the library; opening
and closing of procfile; loops over lists; proofs of the data layer and its
refinement, of the timing, of the columns, of the files, of the sessions, and of the
lists and the loops over them.

Next: ids of records across restarts of `cpumon`; a retry policy by kind of error,
should the code get one; that loops over lists end, under weak fairness.
