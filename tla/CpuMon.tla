------------------------------- MODULE CpuMon -------------------------------
(***************************************************************************)
(* The two threads of cpumon.c, one action per step between two points at  *)
(* which the other thread can interleave.  Everything a thread does to the *)
(* shared lists is a step of its own, so a step made without the mutex     *)
(* would be seen to interfere.                                             *)
(***************************************************************************)
EXTENDS CpuMonState

-----------------------------------------------------------------------------
(* Plausible mistakes, none of them in the code: each stands in for the     *)
(* action its comment names, to show that a property notices it.            *)

\* LockGrab without checked_mutex_lock.
GrabWithoutLock == MainMoves("lock_grab", "test_full")

\* FillFails that forgets the structure instead of keeping it for the retry.
FillFailsLeaks ==
  /\ SamplerGoto("fill", "loop")
  /\ sample' = NULL
  /\ UNCHANGED <<mainLocals, mutex, lists, stop>>

\* SignalEmpty without checked_cond_signal.
SignalForgotten == MainMoves("signal", "unlock_idle")

\* CountEmpty that measures the other list.
CountFull ==
  /\ MainGoto("count", "unlock_count")
  /\ empty_count' = Len(full)
  /\ UNCHANGED <<samplerLocals, batch, retry_delay, mutex, lists, stop>>

\* StopAfterWait without the unlock before the goto.
StopKeepsMutex == stop /\ SamplerMoves("test_stop", "done")

\* SnapshotTaken that asks for a structure although one was kept.
SnapshotForgets == SamplerMoves("snapshot", "lock_empty")

\* RetryPause that never looks at the delay.
PauseUnchecked ==
  /\ MainGoto("retry", "lock_count")
  /\ retry_delay' = retry_delay - CheckSecs
  /\ UNCHANGED <<samplerLocals, batch, empty_count, mutex, lists, stop>>

\* DropRequest that skips the return of the batch to the pool.
DropForgetsBatch == empty_count <= EmptyMin /\ MainMoves("decide", "sleep")

\* DropRequest that never gives up.
DropNever == FALSE /\ MainMoves("decide", "lock_return")

-----------------------------------------------------------------------------
(* The sampler thread: cpumon_main.                                        *)

\* while (!args->cpumon_stop): leave the loop, or sleep for a sample period.
LoopTest == SamplerMoves("loop", IF stop THEN "done" ELSE "snapshot")

\* After the sleep, clock_gettime fails, the clock has not advanced, or
\* /proc/stat cannot be read: try again in the next period.
SnapshotFails == SamplerMoves("snapshot", "loop")

\* A later timestamp and a snapshot of /proc/stat.  A structure kept from an
\* attempt whose parse failed is used again.
SnapshotTaken ==
  SamplerMoves("snapshot", IF sample = NULL THEN "lock_empty" ELSE "fill")

LockEmpty == SamplerLocks("lock_empty", "test_empty")

\* list_remove(args->empty_samples.next)
TakeEmpty ==
  /\ empty # <<>>
  /\ SamplerGoto("test_empty", "unlock_empty")
  /\ sample' = Head(empty)
  /\ empty' = Tail(empty)
  /\ UNCHANGED <<mainLocals, mutex, full, stop>>

\* No empty sample: pthread_cond_wait releases the mutex and waits, atomically.
WaitEmpty == empty = <<>> /\ SamplerUnlocks("test_empty", "waiting")

\* pthread_cond_wait may return without a signal.
SpuriousWakeup == SamplerMoves("waiting", "woken")

\* pthread_cond_wait takes the mutex again before it returns.
Relock == SamplerLocks("woken", "test_stop")

\* The stop flag is looked at after a wait, and only then.
StopAfterWait == stop /\ SamplerUnlocks("test_stop", "done")
TestAgain == ~ stop /\ SamplerMoves("test_stop", "test_empty")

UnlockEmpty == SamplerUnlocks("unlock_empty", "fill")

\* Fewer values than expected: everything is tried again, with this structure.
FillFails == SamplerMoves("fill", "loop")

\* All values parsed, the previous snapshot subtracted.
FillDone == SamplerMoves("fill", "lock_full")

LockFull == SamplerLocks("lock_full", "add_full")

\* list_add_last(&args->full_samples, &sample->link)
AddFull ==
  /\ SamplerGoto("add_full", "unlock_full")
  /\ full' = Append(full, sample)
  /\ UNCHANGED <<sample, mainLocals, mutex, empty, stop>>

UnlockFull ==
  /\ SamplerGoto("unlock_full", "loop")
  /\ MutexUnlock
  /\ sample' = NULL
  /\ UNCHANGED <<mainLocals, lists, stop>>

-----------------------------------------------------------------------------
(* The main thread: the dump loop of main.                                 *)

\* clock_nanosleep returns, possibly early, and the next wakeup is scheduled.
DumpWakeup == MainMoves("sleep", "lock_grab")

LockGrab == MainLocks("lock_grab", "test_full")

\* Nothing to send: straight to the unlock at the end of the loop body.
NothingFull == full = <<>> /\ MainMoves("test_full", "unlock_idle")

\* Something to send: a fresh next_value_state with an empty list.
BeginGrab ==
  /\ full # <<>>
  /\ MainGoto("test_full", "grab")
  /\ batch' = <<>>
  /\ UNCHANGED <<samplerLocals, retry_delay, empty_count, mutex, lists, stop>>

\* One round of the loop that empties full_samples.
GrabOne ==
  /\ mpc = "grab"
  /\ full # <<>>
  /\ batch' = Append(batch, Head(full))
  /\ full' = Tail(full)
  /\ UNCHANGED <<samplerLocals, mpc, retry_delay, empty_count, mutex, empty,
                 stop>>

GrabEnds == full = <<>> /\ MainMoves("grab", "unlock_grab")

UnlockGrab == MainUnlocks("unlock_grab", "format")

\* The samples are converted to percentages and the request is formatted.
FormatDone == MainMoves("format", "perform")

\* The request could not be formatted: break, leaving the batch as it is.
FormatFails == FormatCanFail /\ MainMoves("format", "set_stop")

\* fivis_signals_perform_request answers FIVIS_OK.
PerformOk == MainMoves("perform", "lock_return")

\* It answers any error: start the pause before the next attempt.
PerformFails ==
  /\ MainGoto("perform", "retry")
  /\ retry_delay' = RetrySecs
  /\ UNCHANGED <<samplerLocals, batch, empty_count, mutex, lists, stop>>

\* The pause goes on for another check period.
RetryPause ==
  /\ retry_delay > 0
  /\ MainGoto("retry", "lock_count")
  /\ retry_delay' = retry_delay - CheckSecs
  /\ UNCHANGED <<samplerLocals, batch, empty_count, mutex, lists, stop>>

\* The pause is over: the same request is performed again.
RetryNow == retry_delay <= 0 /\ MainMoves("retry", "perform")

LockCount == MainLocks("lock_count", "count")

\* list_size(&cpumon_args.empty_samples)
CountEmpty ==
  /\ MainGoto("count", "unlock_count")
  /\ empty_count' = Len(empty)
  /\ UNCHANGED <<samplerLocals, batch, retry_delay, mutex, lists, stop>>

UnlockCount == MainUnlocks("unlock_count", "decide")

\* The count was taken under the mutex and is used after its release.
DropRequest == empty_count <= EmptyMin /\ MainMoves("decide", "lock_return")
KeepRequest == empty_count > EmptyMin /\ MainMoves("decide", "retry")

LockReturn == MainLocks("lock_return", "return")

\* One round of the loop that returns the batch to empty_samples.
ReturnOne ==
  /\ mpc = "return"
  /\ batch # <<>>
  /\ empty' = Append(empty, Head(batch))
  /\ batch' = Tail(batch)
  /\ UNCHANGED <<samplerLocals, mpc, retry_delay, empty_count, mutex, full,
                 stop>>

ReturnEnds == batch = <<>> /\ MainMoves("return", "signal")

SignalEmpty ==
  /\ MainGoto("signal", "unlock_idle")
  /\ CondSignal
  /\ UNCHANGED <<sample, batch, retry_delay, empty_count, mutex, lists, stop>>

UnlockIdle == MainUnlocks("unlock_idle", "sleep")

-----------------------------------------------------------------------------
(* The main thread: the end of main, reached by the break only.            *)

SetStop ==
  /\ MainGoto("set_stop", "signal_stop")
  /\ stop' = TRUE
  /\ UNCHANGED <<samplerLocals, batch, retry_delay, empty_count, mutex, lists>>

\* Signalled without holding the mutex.
SignalStop ==
  /\ MainGoto("signal_stop", "join")
  /\ CondSignal
  /\ UNCHANGED <<sample, batch, retry_delay, empty_count, mutex, lists, stop>>

Join == spc = "done" /\ MainMoves("join", "cleanup")

\* sbuf_destroy, free_signals, procfile_close, fivis_cleanup, exit.
Cleanup == MainMoves("cleanup", "done")

-----------------------------------------------------------------------------
\* main allocates the pool, puts it into empty_samples and starts the sampler.
Init ==
  /\ spc = "loop" /\ sample = NULL
  /\ mpc = "sleep" /\ batch = <<>> /\ retry_delay = 0 /\ empty_count = 0
  /\ mutex = "free" /\ full = <<>> /\ stop = FALSE
  /\ empty \in Bijection(1..Cardinality(Samples), Samples)

SamplerNext ==
  \/ LoopTest \/ SnapshotFails \/ SnapshotTaken
  \/ LockEmpty \/ TakeEmpty \/ WaitEmpty \/ Relock \/ StopAfterWait
  \/ TestAgain \/ UnlockEmpty
  \/ FillFails \/ FillDone \/ LockFull \/ AddFull \/ UnlockFull

DumpNext ==
  \/ DumpWakeup \/ LockGrab \/ NothingFull \/ BeginGrab \/ GrabOne \/ GrabEnds
  \/ UnlockGrab \/ FormatDone \/ FormatFails
  \/ PerformOk \/ PerformFails \/ RetryPause \/ RetryNow
  \/ LockCount \/ CountEmpty \/ UnlockCount \/ DropRequest \/ KeepRequest
  \/ LockReturn \/ ReturnOne \/ ReturnEnds \/ SignalEmpty \/ UnlockIdle

ShutdownNext == SetStop \/ SignalStop \/ Join \/ Cleanup

MainNext == DumpNext \/ ShutdownNext

Next == SamplerNext \/ SpuriousWakeup \/ MainNext

Spec == Init /\ [][Next]_vars

-----------------------------------------------------------------------------
(* Fairness.  A thread that can take a step takes one: the kernel schedules *)
(* it, its sleeps end, and curl_easy_perform returns.  Strong fairness for *)
(* the mutex: it is held for a few list operations only, and each thread   *)
(* sleeps for seconds before it asks for it again.                         *)

Fairness ==
  /\ WF_vars(SamplerNext) /\ WF_vars(MainNext)
  /\ SF_vars(LockEmpty) /\ SF_vars(Relock) /\ SF_vars(LockFull)
  /\ SF_vars(LockGrab) /\ SF_vars(LockCount) /\ SF_vars(LockReturn)

\* The clock advances and /proc/stat can be read and parsed again, now and then.
ReadingsRecover == SF_vars(SnapshotTaken) /\ SF_vars(FillDone)

FairSpec == Spec /\ Fairness

-----------------------------------------------------------------------------
(* Properties.                                                             *)

\* Each variable has the values its C counterpart can take.
TypeOK ==
  /\ spc \in SamplerPCs
  /\ sample \in Samples \cup {NULL}
  /\ mpc \in MainPCs
  /\ batch \in Seq(Samples) /\ empty \in Seq(Samples) /\ full \in Seq(Samples)
  /\ retry_delay \in (1 - CheckSecs)..RetrySecs
  /\ empty_count \in Nat
  /\ mutex \in {"free", "cpumon", "main"}
  /\ stop \in BOOLEAN

\* The structure the sampler may write.  Its pointer outlives the hand-over to
\* full_samples by the unlock.
Held == IF sample = NULL \/ spc = "unlock_full" THEN {} ELSE {sample}

\* Every sample structure is in exactly one place: one of the two lists, the
\* batch being sent, or the hands of the sampler.  None is leaked on a failed
\* parse, a dropped request or a wait, and none is linked twice, so neither
\* thread ever touches a structure the other one is using.
PoolPartition ==
  /\ IsInjective(empty) /\ IsInjective(full) /\ IsInjective(batch)
  /\ Range(empty) \cap Range(full) = {}
  /\ Range(empty) \cap Range(batch) = {}
  /\ Range(full) \cap Range(batch) = {}
  /\ Held \cap (Range(empty) \cup Range(full) \cup Range(batch)) = {}
  /\ Samples = Held \cup Range(empty) \cup Range(full) \cup Range(batch)

\* The sampler sleeps on the condition variable with an empty sample available
\* only while main, inside the same critical section, has yet to signal it: no
\* interleaving of the test, the wait, the return and the signal loses the
\* wakeup.
NoLostWakeup ==
  spc = "waiting" /\ empty # <<>> => mpc \in {"return", "signal"}

\* A thread changes the shared lists only while it holds samples_mutex.
ListsUnderMutex ==
  [][lists' # lists => \/ mutex = "cpumon" /\ UNCHANGED mainLocals
                       \/ mutex = "main" /\ UNCHANGED samplerLocals]_vars

\* A request is given up only when the pool is low at that very moment: the
\* count that was taken under the mutex and is used after its release can only
\* have become too high.
DropOnlyUnderPressure ==
  [][mpc = "decide" /\ mpc' = "lock_return" => Len(empty) <= EmptyMin]_vars

\* main releases what the sampler uses (proc_stat, the lists, the mutex) only
\* when the sampler has terminated, and the sampler does not take the mutex
\* with it.
CleanShutdown == mpc \in {"cleanup", "done"} => spc = "done" /\ mutex = "free"

\* A sampler waiting for an empty sample goes on, unless main gives up: even
\* with the server out of reach the request is dropped, as the pool is empty,
\* and its samples return.
WaiterServed == (spc = "waiting") ~> (spc # "waiting" \/ stop)

\* As long as readings succeed now and then, a published sample structure is
\* eventually back in the pool, whatever the server answers.
SamplesRecycled ==
  ReadingsRecover =>
    \A s \in Samples : (s \in Range(full)) ~> (s \in Range(empty) \/ stop)

\* And samples are published again and again: nothing but a request that cannot
\* be formatted ends the monitoring, an unreachable server never wedges it.
MonitoringContinues == ReadingsRecover => []<>(spc = "add_full" \/ stop)

\* The comment on the end of main: once asked to stop, the sampler terminates
\* and main gets past the join.
ShutdownCompletes == (mpc = "join") ~> (mpc = "done")

-----------------------------------------------------------------------------
\* Where each structure is, as the abstract pool sees it.
Place == [s \in Samples |-> IF s \in Range(empty) THEN "empty"
                            ELSE IF s \in Range(full) THEN "full"
                            ELSE IF s \in Range(batch) THEN "main"
                            ELSE "sampler"]

Pool == INSTANCE SamplePool WITH place <- Place

\* The threads move structures around the one cycle of the abstract pool.
ImplementsPool == Pool!Spec
=============================================================================
