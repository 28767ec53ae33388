---------------------------- MODULE CpuMonProofs ----------------------------
(***************************************************************************)
(* Theorems about CpuMon for every pool, threshold and period, and, on top *)
(* of them, about CpuMonData for every history of the kernel's counters    *)
(* and every width of an unsigned number.                                  *)
(***************************************************************************)
EXTENDS CpuMonData, SampleSeqs, FiniteSetTheorems, SequenceTheorems

-----------------------------------------------------------------------------
(* The inductive invariant of the two threads.                             *)

\* Where each thread is inside a critical section.
SamplerCritical ==
  {"test_empty", "test_stop", "unlock_empty", "add_full", "unlock_full"}
MainCritical ==
  {"test_full", "grab", "unlock_grab", "count", "unlock_count", "return",
   "signal", "unlock_idle"}

\* The mutex is held by the thread that is inside a critical section.
MutexInv ==
  /\ mutex = "cpumon" <=> spc \in SamplerCritical
  /\ mutex = "main" <=> mpc \in MainCritical

\* The sampler has a structure exactly from TakeEmpty to UnlockFull; between
\* two attempts it may have one or not.
SampleInv ==
  /\ spc \in {"lock_empty", "test_empty", "waiting", "woken", "test_stop"}
       => sample = NULL
  /\ spc \in {"unlock_empty", "fill", "lock_full", "add_full", "unlock_full"}
       => sample # NULL

\* Outside the sending of a request main has no batch.
BatchInv ==
  mpc \in {"sleep", "lock_grab", "test_full", "signal", "unlock_idle"}
    => batch = <<>>

\* Only main adds to empty_samples, so a count is never exceeded while it is
\* in use.
CountInv == mpc \in {"unlock_count", "decide"} => Len(empty) <= empty_count

\* main joins the sampler before it cleans up.
JoinInv == mpc \in {"cleanup", "done"} => spc = "done"

IndInv == /\ TypeOK /\ MutexInv /\ SampleInv /\ BatchInv /\ CountInv
          /\ JoinInv /\ PoolPartition /\ NoLostWakeup

-----------------------------------------------------------------------------
(* The initial states.                                                     *)

\* The pool main allocates satisfies the invariant.
LEMMA InitInv == Init => IndInv
<1> SUFFICES ASSUME Init PROVE IndInv
  OBVIOUS
<1> DEFINE n == Cardinality(Samples)
<1>1. n \in Nat
  BY FS_CardinalityType, SamplesAssumption
<1>2. /\ empty \in [1..n -> Samples] /\ IsInjective(empty)
      /\ \A s \in Samples : \E i \in 1..n : empty[i] = s
  BY DEF Init, Bijection, Injection, Surjection
<1>3. empty \in Seq(Samples)
  BY <1>1, <1>2
<1>4. Range(empty) = Samples
  BY <1>2 DEF Range
<1>5. TypeOK
  <2>1. 0 \in (1 - CheckSecs)..RetrySecs
    BY PeriodAssumption
  <2>2. <<>> \in Seq(Samples)
    OBVIOUS
  <2>3. QED
    BY <1>3, <2>1, <2>2 DEF Init, TypeOK, SamplerPCs, MainPCs
<1>6. PoolPartition
  <2>1. Range(full) = {} /\ Range(batch) = {} /\ Held = {}
    BY DEF Init, Range, Held
  <2>2. IsInjective(full) /\ IsInjective(batch)
    BY DEF Init, IsInjective
  <2>3. QED
    BY <1>2, <1>4, <2>1, <2>2 DEF PoolPartition
<1>7. MutexInv /\ SampleInv /\ BatchInv /\ CountInv /\ JoinInv /\ NoLostWakeup
  BY DEF Init, MutexInv, SampleInv, BatchInv, CountInv, JoinInv, NoLostWakeup,
         SamplerCritical, MainCritical
<1>8. QED
  BY <1>5, <1>6, <1>7 DEF IndInv

-----------------------------------------------------------------------------
(* The steps, seen by everything but the partition of the pool.            *)

\* Every step keeps the types and the relations between the program counters,
\* the mutex, the batch, the count and the local pointer of the sampler.
LEMMA ControlStep ==
  ASSUME IndInv, [Next]_vars
  PROVE  /\ TypeOK' /\ MutexInv' /\ SampleInv' /\ BatchInv' /\ CountInv'
         /\ JoinInv' /\ NoLostWakeup'
<1> USE PeriodAssumption, SamplesAssumption, TakeFirst, AddLast
<1> USE DEF IndInv, TypeOK, MutexInv, SampleInv, BatchInv, CountInv, JoinInv,
            NoLostWakeup, SamplerCritical, MainCritical, SamplerPCs, MainPCs,
            lists, mainLocals, samplerLocals, MutexLock, MutexUnlock,
            SamplerGoto, SamplerMoves, SamplerLocks, SamplerUnlocks,
            MainGoto, MainMoves, MainLocks, MainUnlocks, CondSignal
<1>1. CASE LoopTest
  BY <1>1 DEF LoopTest
<1>2. CASE SnapshotFails
  BY <1>2 DEF SnapshotFails
<1>3. CASE SnapshotTaken
  BY <1>3 DEF SnapshotTaken
<1>4. CASE LockEmpty
  BY <1>4 DEF LockEmpty
<1>5. CASE TakeEmpty
  BY <1>5 DEF TakeEmpty
<1>6. CASE WaitEmpty
  BY <1>6 DEF WaitEmpty
<1>7. CASE Relock
  BY <1>7 DEF Relock
<1>8. CASE StopAfterWait
  BY <1>8 DEF StopAfterWait
<1>9. CASE TestAgain
  BY <1>9 DEF TestAgain
<1>10. CASE UnlockEmpty
  BY <1>10 DEF UnlockEmpty
<1>11. CASE FillFails
  BY <1>11 DEF FillFails
<1>12. CASE FillDone
  BY <1>12 DEF FillDone
<1>13. CASE LockFull
  BY <1>13 DEF LockFull
<1>14. CASE AddFull
  BY <1>14 DEF AddFull
<1>15. CASE UnlockFull
  BY <1>15 DEF UnlockFull
<1>16. CASE SpuriousWakeup
  BY <1>16 DEF SpuriousWakeup
<1>17. CASE DumpWakeup
  BY <1>17 DEF DumpWakeup
<1>18. CASE LockGrab
  BY <1>18 DEF LockGrab
<1>19. CASE NothingFull
  BY <1>19 DEF NothingFull
<1>20. CASE BeginGrab
  BY <1>20 DEF BeginGrab
<1>21. CASE GrabOne
  BY <1>21 DEF GrabOne
<1>22. CASE GrabEnds
  BY <1>22 DEF GrabEnds
<1>23. CASE UnlockGrab
  BY <1>23 DEF UnlockGrab
<1>24. CASE FormatDone
  BY <1>24 DEF FormatDone
<1>25. CASE FormatFails
  BY <1>25 DEF FormatFails
<1>26. CASE PerformOk
  BY <1>26 DEF PerformOk
<1>27. CASE PerformFails
  BY <1>27 DEF PerformFails
<1>28. CASE RetryPause
  BY <1>28 DEF RetryPause
<1>29. CASE RetryNow
  BY <1>29 DEF RetryNow
<1>30. CASE LockCount
  BY <1>30 DEF LockCount
<1>31. CASE CountEmpty
  BY <1>31 DEF CountEmpty
<1>32. CASE UnlockCount
  BY <1>32 DEF UnlockCount
<1>33. CASE DropRequest
  BY <1>33 DEF DropRequest
<1>34. CASE KeepRequest
  BY <1>34 DEF KeepRequest
<1>35. CASE LockReturn
  BY <1>35 DEF LockReturn
<1>36. CASE ReturnOne
  BY <1>36 DEF ReturnOne
<1>37. CASE ReturnEnds
  BY <1>37 DEF ReturnEnds
<1>38. CASE SignalEmpty
  BY <1>38 DEF SignalEmpty
<1>39. CASE UnlockIdle
  BY <1>39 DEF UnlockIdle
<1>40. CASE SetStop
  BY <1>40 DEF SetStop
<1>41. CASE SignalStop
  BY <1>41 DEF SignalStop
<1>42. CASE Join
  BY <1>42 DEF Join
<1>43. CASE Cleanup
  BY <1>43 DEF Cleanup
<1>44. CASE UNCHANGED vars
  BY <1>44 DEF vars
<1>45. QED
  BY <1>1, <1>2, <1>3, <1>4, <1>5, <1>6, <1>7, <1>8, <1>9, <1>10,
     <1>11, <1>12, <1>13, <1>14, <1>15, <1>16, <1>17, <1>18, <1>19, <1>20,
     <1>21, <1>22, <1>23, <1>24, <1>25, <1>26, <1>27, <1>28, <1>29, <1>30,
     <1>31, <1>32, <1>33, <1>34, <1>35, <1>36, <1>37, <1>38, <1>39, <1>40,
     <1>41, <1>42, <1>43, <1>44
  DEF Next, SamplerNext, MainNext, DumpNext, ShutdownNext

-----------------------------------------------------------------------------
(* The pool.                                                               *)

\* Everything PoolPartition and the abstract pool look at.
places == <<empty, full, batch, Held>>

\* Six steps of the two threads can touch a list, the batch or the pointer of
\* the sampler; all the others leave every structure where it is.
LEMMA PlacesTouched ==
  ASSUME IndInv, [Next]_vars
  PROVE  \/ TakeEmpty \/ AddFull \/ UnlockFull
         \/ BeginGrab \/ GrabOne \/ ReturnOne
         \/ UNCHANGED places
<1> USE DEF places, Held, IndInv, SampleInv, lists, mainLocals, samplerLocals,
            SamplerGoto, SamplerMoves, SamplerLocks, SamplerUnlocks,
            MainGoto, MainMoves, MainLocks, MainUnlocks, CondSignal
<1>1. CASE SamplerNext
  BY <1>1
  DEF SamplerNext, LoopTest, SnapshotFails, SnapshotTaken, LockEmpty,
      WaitEmpty, Relock, StopAfterWait, TestAgain, UnlockEmpty, FillFails,
      FillDone, LockFull
<1>2. CASE DumpNext
  BY <1>2
  DEF DumpNext, DumpWakeup, LockGrab, NothingFull, GrabEnds, UnlockGrab,
      FormatDone, FormatFails, PerformOk, PerformFails, RetryPause,
      RetryNow, LockCount, CountEmpty, UnlockCount, DropRequest,
      KeepRequest, LockReturn, ReturnEnds, SignalEmpty, UnlockIdle
<1>3. CASE SpuriousWakeup \/ ShutdownNext
  BY <1>3
  DEF SpuriousWakeup, ShutdownNext, SetStop, SignalStop, Join, Cleanup
<1>4. CASE UNCHANGED vars
  BY <1>4 DEF vars
<1>5. QED
  BY <1>1, <1>2, <1>3, <1>4 DEF Next, MainNext

\* Every step keeps each structure in exactly one place.
LEMMA PoolStep == ASSUME IndInv, [Next]_vars PROVE PoolPartition'
<1> USE DEF lists, mainLocals, samplerLocals
<1>1. PoolPartition /\ SampleInv /\ BatchInv
  BY DEF IndInv
<1>2. /\ empty \in Seq(Samples) /\ full \in Seq(Samples)
      /\ batch \in Seq(Samples) /\ sample \in Samples \cup {NULL}
  BY DEF IndInv, TypeOK
<1>3. CASE TakeEmpty
  <2>1. /\ empty # <<>> /\ sample = NULL /\ Held = {}
        /\ sample' = Head(empty) /\ empty' = Tail(empty)
        /\ full' = full /\ batch' = batch /\ spc' = "unlock_empty"
    BY <1>1, <1>3 DEF TakeEmpty, SamplerGoto, SampleInv, Held
  <2>2. /\ Head(empty) \in Samples
        /\ Range(empty) = Range(empty') \cup {Head(empty)}
        /\ IsInjective(empty') /\ Head(empty) \notin Range(empty')
    BY <1>1, <1>2, <2>1, TakeFirst DEF PoolPartition
  <2>3. Held' = {Head(empty)}
    BY <2>1, <2>2, SamplesAssumption DEF Held
  <2>4. QED
    BY <1>1, <2>1, <2>2, <2>3 DEF PoolPartition
<1>4. CASE AddFull
  <2>1. /\ sample # NULL /\ Held = {sample} /\ Held' = {}
        /\ full' = Append(full, sample)
        /\ empty' = empty /\ batch' = batch
    BY <1>1, <1>4 DEF AddFull, SamplerGoto, SampleInv, Held
  <2>2. sample \in Samples /\ sample \notin Range(full)
    BY <1>1, <1>2, <2>1 DEF PoolPartition
  <2>3. Range(full') = Range(full) \cup {sample} /\ IsInjective(full')
    BY <1>1, <1>2, <2>1, <2>2, AddLast DEF PoolPartition
  <2>4. QED
    BY <1>1, <2>1, <2>3 DEF PoolPartition
<1>5. CASE UnlockFull
  BY <1>1, <1>5 DEF UnlockFull, SamplerGoto, Held, PoolPartition
<1>6. CASE BeginGrab
  BY <1>1, <1>6 DEF BeginGrab, MainGoto, BatchInv, Held, PoolPartition
<1>7. CASE GrabOne
  <2>1. /\ full # <<>> /\ full' = Tail(full)
        /\ batch' = Append(batch, Head(full))
        /\ empty' = empty /\ Held' = Held
    BY <1>7 DEF GrabOne, Held
  <2>2. /\ Head(full) \in Samples /\ Head(full) \in Range(full)
        /\ Range(full) = Range(full') \cup {Head(full)}
        /\ IsInjective(full') /\ Head(full) \notin Range(full')
    BY <1>1, <1>2, <2>1, TakeFirst DEF PoolPartition
  <2>3. Head(full) \notin Range(batch)
    BY <1>1, <2>2 DEF PoolPartition
  <2>4. /\ Range(batch') = Range(batch) \cup {Head(full)}
        /\ IsInjective(batch')
    BY <1>1, <1>2, <2>1, <2>2, <2>3, AddLast DEF PoolPartition
  <2>5. QED
    BY <1>1, <2>1, <2>2, <2>4 DEF PoolPartition
<1>8. CASE ReturnOne
  <2>1. /\ batch # <<>> /\ batch' = Tail(batch)
        /\ empty' = Append(empty, Head(batch))
        /\ full' = full /\ Held' = Held
    BY <1>8 DEF ReturnOne, Held
  <2>2. /\ Head(batch) \in Samples /\ Head(batch) \in Range(batch)
        /\ Range(batch) = Range(batch') \cup {Head(batch)}
        /\ IsInjective(batch') /\ Head(batch) \notin Range(batch')
    BY <1>1, <1>2, <2>1, TakeFirst DEF PoolPartition
  <2>3. Head(batch) \notin Range(empty)
    BY <1>1, <2>2 DEF PoolPartition
  <2>4. /\ Range(empty') = Range(empty) \cup {Head(batch)}
        /\ IsInjective(empty')
    BY <1>1, <1>2, <2>1, <2>2, <2>3, AddLast DEF PoolPartition
  <2>5. QED
    BY <1>1, <2>1, <2>2, <2>4 DEF PoolPartition
<1>9. CASE UNCHANGED places
  BY <1>1, <1>9 DEF places, PoolPartition
<1>10. QED
  BY <1>3, <1>4, <1>5, <1>6, <1>7, <1>8, <1>9, PlacesTouched

-----------------------------------------------------------------------------
(* The invariants of the specification.                                    *)

\* The strengthening is an invariant of both threads together.
THEOREM InductiveInvariant == Spec => []IndInv
<1>1. Init => IndInv
  BY InitInv
<1>2. IndInv /\ [Next]_vars => IndInv'
  BY ControlStep, PoolStep DEF IndInv
<1>3. QED
  BY <1>1, <1>2, PTL DEF Spec

\* Every variable keeps the values of its C counterpart.
THEOREM TypeCorrect == Spec => []TypeOK
<1>1. IndInv => TypeOK
  BY DEF IndInv
<1>2. QED
  BY <1>1, InductiveInvariant, PTL

\* However the threads interleave and whatever fails, each sample structure is
\* in exactly one place: none is leaked, none is linked twice.
THEOREM PoolPartitioned == Spec => []PoolPartition
<1>1. IndInv => PoolPartition
  BY DEF IndInv
<1>2. QED
  BY <1>1, InductiveInvariant, PTL

\* The sampler never sleeps through the return of samples to the pool.
THEOREM WakeupNotLost == Spec => []NoLostWakeup
<1>1. IndInv => NoLostWakeup
  BY DEF IndInv
<1>2. QED
  BY <1>1, InductiveInvariant, PTL

\* main frees what the sampler uses after the sampler has terminated, and the
\* sampler terminates without the mutex.
THEOREM ShutdownClean == Spec => []CleanShutdown
<1>1. IndInv => CleanShutdown
  BY DEF IndInv, TypeOK, JoinInv, MutexInv, CleanShutdown, SamplerCritical,
         MainCritical
<1>2. QED
  BY <1>1, InductiveInvariant, PTL

-----------------------------------------------------------------------------
(* The action properties.                                                  *)

\* Neither thread changes a list without holding samples_mutex.
THEOREM ListsGuarded == Spec => ListsUnderMutex
<1> DEFINE Guarded ==
      lists' # lists => \/ mutex = "cpumon" /\ UNCHANGED mainLocals
                        \/ mutex = "main" /\ UNCHANGED samplerLocals
<1>1. IndInv /\ [Next]_vars => [Guarded]_vars
  <2> SUFFICES ASSUME IndInv, [Next]_vars, lists' # lists
               PROVE  Guarded
    OBVIOUS
  <2> USE DEF IndInv, MutexInv, SamplerCritical, MainCritical, lists,
              mainLocals, samplerLocals, SamplerGoto, MainGoto
  <2>1. CASE TakeEmpty
    BY <2>1 DEF TakeEmpty
  <2>2. CASE AddFull
    BY <2>2 DEF AddFull
  <2>3. CASE GrabOne
    BY <2>3 DEF GrabOne
  <2>4. CASE ReturnOne
    BY <2>4 DEF ReturnOne
  <2>5. ~ (UnlockFull \/ BeginGrab \/ UNCHANGED places)
    BY DEF UnlockFull, BeginGrab, places
  <2>6. QED
    BY <2>1, <2>2, <2>3, <2>4, <2>5, PlacesTouched
<1>2. QED
  BY <1>1, InductiveInvariant, PTL DEF Spec, ListsUnderMutex

\* A request is dropped only while the pool is low, although the decision uses
\* a count taken before: nobody but main adds to the pool.
THEOREM DropsJustified == Spec => DropOnlyUnderPressure
<1> DEFINE Low == mpc = "decide" /\ mpc' = "lock_return"
                    => Len(empty) <= EmptyMin
<1>1. IndInv /\ [Next]_vars => [Low]_vars
  <2> SUFFICES ASSUME IndInv, [Next]_vars,
                      mpc = "decide", mpc' = "lock_return"
               PROVE  Len(empty) <= EmptyMin
    OBVIOUS
  <2>1. /\ Len(empty) <= empty_count /\ Len(empty) \in Nat
        /\ empty_count \in Nat
    BY DEF IndInv, CountInv, TypeOK
  <2>2. empty_count <= EmptyMin
    <3> USE DEF SamplerGoto, SamplerMoves, SamplerLocks, SamplerUnlocks,
                MainGoto, MainMoves, MainLocks, MainUnlocks, mainLocals
    <3>1. ~ (SamplerNext \/ SpuriousWakeup \/ UNCHANGED vars)
      BY DEF SamplerNext, LoopTest, SnapshotFails, SnapshotTaken, LockEmpty,
             TakeEmpty, WaitEmpty, Relock, StopAfterWait, TestAgain,
             UnlockEmpty, FillFails, FillDone, LockFull, AddFull, UnlockFull,
             SpuriousWakeup, vars
    <3>2. ~ ShutdownNext
      BY DEF ShutdownNext, SetStop, SignalStop, Join, Cleanup
    <3>3. DumpNext => DropRequest
      BY DEF DumpNext, DumpWakeup, LockGrab, NothingFull, BeginGrab, GrabOne,
             GrabEnds, UnlockGrab, FormatDone, FormatFails, PerformOk,
             PerformFails, RetryPause, RetryNow, LockCount, CountEmpty,
             UnlockCount, KeepRequest, LockReturn, ReturnOne, ReturnEnds,
             SignalEmpty, UnlockIdle
    <3>4. QED
      BY <3>1, <3>2, <3>3 DEF Next, MainNext, DropRequest
  <2>3. QED
    BY <2>1, <2>2, EmptyMinAssumption
<1>2. QED
  BY <1>1, InductiveInvariant, PTL DEF Spec, DropOnlyUnderPressure

-----------------------------------------------------------------------------
(* The two threads implement the abstract pool.                            *)

\* Where the partition puts a structure, Place reports it.
LEMMA PlaceValues ==
  ASSUME PoolPartition, NEW s \in Samples
  PROVE  /\ s \in Range(empty) => Place[s] = "empty"
         /\ s \in Range(full) => Place[s] = "full"
         /\ s \in Range(batch) => Place[s] = "main"
         /\ s \in Held => Place[s] = "sampler"
         /\ Place[s] = "sampler" => s \in Held
  BY DEF PoolPartition, Place

\* A step that moves one structure, and no other, is a move of the pool.
LEMMA PlaceMoves ==
  ASSUME NEW s \in Samples, NEW to,
         \A t \in Samples \ {s} :
           /\ t \in Range(empty') <=> t \in Range(empty)
           /\ t \in Range(full') <=> t \in Range(full)
           /\ t \in Range(batch') <=> t \in Range(batch),
         Place'[s] = to
  PROVE  Place' = [Place EXCEPT ![s] = to]
  BY DEF Place

\* Init and every step of the threads map to Init, a step or a stutter of
\* SamplePool: structures only ever go round empty, sampler, full, main.
THEOREM PoolImplemented == Spec => ImplementsPool
<1>1. Init => Pool!Init
  <2> SUFFICES ASSUME Init PROVE Pool!Init
    OBVIOUS
  <2>1. PoolPartition /\ Range(full) = {} /\ Range(batch) = {} /\ Held = {}
    BY InitInv DEF IndInv, Init, Range, Held
  <2>2. \A s \in Samples : s \in Range(empty)
    BY <2>1 DEF PoolPartition
  <2>3. QED
    BY <2>2 DEF Pool!Init, Place
<1>2. IndInv /\ [Next]_vars => [Pool!Next]_Place
  <2> SUFFICES ASSUME IndInv, [Next]_vars PROVE [Pool!Next]_Place
    OBVIOUS
  <2> USE DEF lists, mainLocals, samplerLocals
  <2>1. /\ PoolPartition /\ PoolPartition' /\ SampleInv
        /\ empty \in Seq(Samples) /\ full \in Seq(Samples)
        /\ batch \in Seq(Samples) /\ sample \in Samples \cup {NULL}
    BY PoolStep DEF IndInv, TypeOK
  <2>2. CASE TakeEmpty
    <3> DEFINE s == Head(empty)
    <3>1. /\ empty # <<>> /\ sample = NULL /\ sample' = s
          /\ empty' = Tail(empty) /\ full' = full /\ batch' = batch
          /\ spc' = "unlock_empty"
      BY <2>1, <2>2 DEF TakeEmpty, SamplerGoto, SampleInv
    <3>2. /\ s \in Samples /\ s \in Range(empty)
          /\ Range(empty) = Range(empty') \cup {s}
      BY <2>1, <3>1, TakeFirst
    <3>3. Held = {} /\ Held' = {s}
      BY <3>1, <3>2, SamplesAssumption DEF Held
    <3>4. /\ Place[s] = "empty" /\ Place'[s] = "sampler"
          /\ \A t \in Samples : Place[t] # "sampler"
      BY <2>1, <3>2, <3>3 DEF PoolPartition, Place
    <3>5. Place' = [Place EXCEPT ![s] = "sampler"]
      BY <3>1, <3>2, <3>4, PlaceMoves
    <3>6. QED
      BY <3>2, <3>4, <3>5 DEF Pool!Next, Pool!Acquire, Pool!Move
  <2>3. CASE AddFull
    <3>1. /\ Held = {sample} /\ sample \in Samples
          /\ full' = Append(full, sample)
          /\ empty' = empty /\ batch' = batch
      BY <2>1, <2>3 DEF AddFull, SamplerGoto, SampleInv, Held
    <3>2. Range(full') = Range(full) \cup {sample}
      BY <2>1, <3>1, AddLast
    <3>3. Place[sample] = "sampler" /\ Place'[sample] = "full"
      BY <2>1, <3>1, <3>2 DEF PoolPartition, Place
    <3>4. Place' = [Place EXCEPT ![sample] = "full"]
      BY <3>1, <3>2, <3>3, PlaceMoves
    <3>5. QED
      BY <3>1, <3>3, <3>4 DEF Pool!Next, Pool!Publish, Pool!Move
  <2>4. CASE GrabOne
    <3> DEFINE s == Head(full)
    <3>1. /\ full # <<>> /\ full' = Tail(full) /\ batch' = Append(batch, s)
          /\ empty' = empty
      BY <2>4 DEF GrabOne
    <3>2. /\ s \in Samples /\ s \in Range(full)
          /\ Range(full) = Range(full') \cup {s}
      BY <2>1, <3>1, TakeFirst
    <3>3. Range(batch') = Range(batch) \cup {s}
      BY <2>1, <3>1, <3>2, AddLast
    <3>4. Place[s] = "full" /\ Place'[s] = "main"
      BY <2>1, <3>2, <3>3 DEF PoolPartition, Place
    <3>5. Place' = [Place EXCEPT ![s] = "main"]
      BY <3>1, <3>2, <3>3, <3>4, PlaceMoves
    <3>6. QED
      BY <3>2, <3>4, <3>5 DEF Pool!Next, Pool!Grab, Pool!Move
  <2>5. CASE ReturnOne
    <3> DEFINE s == Head(batch)
    <3>1. /\ batch # <<>> /\ batch' = Tail(batch) /\ empty' = Append(empty, s)
          /\ full' = full
      BY <2>5 DEF ReturnOne
    <3>2. /\ s \in Samples /\ s \in Range(batch)
          /\ Range(batch) = Range(batch') \cup {s}
      BY <2>1, <3>1, TakeFirst
    <3>3. Range(empty') = Range(empty) \cup {s}
      BY <2>1, <3>1, <3>2, AddLast
    <3>4. Place[s] = "main" /\ Place'[s] = "empty"
      BY <2>1, <3>2, <3>3 DEF PoolPartition, Place
    <3>5. Place' = [Place EXCEPT ![s] = "empty"]
      BY <3>1, <3>2, <3>3, <3>4, PlaceMoves
    <3>6. QED
      BY <3>2, <3>4, <3>5 DEF Pool!Next, Pool!Release, Pool!Move
  <2>6. CASE UnlockFull \/ BeginGrab \/ UNCHANGED places
    <3>1. UNCHANGED <<empty, full>> /\ Range(batch') = Range(batch)
      <4>1. CASE BeginGrab
        BY <4>1 DEF BeginGrab, MainGoto, IndInv, BatchInv
      <4>2. CASE UnlockFull \/ UNCHANGED places
        BY <4>2 DEF UnlockFull, places
      <4>3. QED
        BY <2>6, <4>1, <4>2
    <3>2. QED
      BY <3>1 DEF Place
  <2>7. QED
    BY <2>2, <2>3, <2>4, <2>5, <2>6, PlacesTouched
<1>3. QED
  BY <1>1, <1>2, InductiveInvariant, PTL
  DEF Spec, ImplementsPool, Pool!Spec

-----------------------------------------------------------------------------
(* The inductive invariant, on top of that of the two threads.             *)

\* The time of the reading kept for the next subtraction.
Kept == last_sample[last_index]

\* While the sampler looks for a structure, and while it fills it, it has a
\* reading that is newer than the kept one.
HasReading == {"lock_empty", "test_empty", "waiting", "woken", "test_stop",
               "unlock_empty", "fill"}

ReadingInv ==
  /\ last_ts \in 0..MaxTs
  /\ last_sample \in [0..1 -> 0..MaxTs] /\ last_index \in 0..1
  /\ Kept <= last_ts
  /\ spc \in HasReading => Kept < last_ts

Fields == {"ts", "from", "to", "form", "times"}
ContentsInv == /\ value = [s \in Samples |-> value[s]]
               /\ \A s \in Samples : DOMAIN value[s] = Fields

\* Finished readings follow each other.
IntervalInv ==
  /\ \A i \in DOMAIN Finished : LET c == value[Finished[i]] IN
       /\ c.from \in 0..MaxTs /\ c.to \in 0..MaxTs
       /\ c.ts = c.to /\ c.from < c.to
  /\ InFlightContiguous

\* The structure that is filled and not handed over yet.
InHand == IF spc \in {"lock_full", "add_full"} THEN <<sample>> ELSE <<>>

\* What the ticks between two readings become: a difference of unsigned numbers,
\* and the shares made of it.
Difference(from, to) == DiffUnsigned(Reading(to), Reading(from))
Shares(from, to) ==
  [c \in Cpus |-> [t \in Times |-> Fraction(Difference(from, to), c, t)]]

IsDifference(c) ==
  c.form = "difference" /\ c.times = Difference(c.from, c.to)
IsPercent(c) == c.form = "percent" /\ c.times = Shares(c.from, c.to)

\* While main collects the batch, until it is formatted.
Grabbing == {"grab", "unlock_grab", "format"}

\* A structure is converted when its batch is formatted, and not before.
FormInv ==
  /\ \A s \in Range(full) \cup Range(InHand) : IsDifference(value[s])
  /\ mpc \in Grabbing => \A s \in Range(batch) : IsDifference(value[s])
  /\ mpc \in Sending => \A s \in Range(batch) : IsPercent(value[s])

\* What the buffer holds, also when it was sent already.
BufferInv ==
  \A r \in Range(request.data) :
    r.from \in 0..MaxTs /\ r.to \in 0..MaxTs /\ IsPercent(r)

\* The server has the schema as soon as main leaves it out.
SchemaInv ==
  /\ schema \in BOOLEAN
  /\ ~ schema => server.schema
  /\ mpc \in Sending => request.schema = schema

\* There is something to send, and all of it is grabbed.
GrabInv ==
  /\ mpc = "grab" => batch # <<>> \/ full # <<>>
  /\ mpc = "unlock_grab" => full = <<>>
  /\ mpc \in {"unlock_grab", "format"} \cup Sending \cup Ending => batch # <<>>

DataInv == /\ ReadingInv /\ ContentsInv /\ IntervalInv /\ FormInv /\ BufferInv
           /\ RequestMatchesBatch /\ SchemaInv /\ SchemaFirst /\ GrabInv
DataIndInv == IndInv /\ DataInv

-----------------------------------------------------------------------------
(* The steps, seen from the threads.                                       *)

\* Every step of the data layer is a step of the two threads.
LEMMA DataIsControl == DataNext => Next
  BY DEF DataNext, TakeReading, ParsePart, ParseAll, FormatBatch,
         FormatNothing, SendOk, SendFails, MoveStep, Next, SamplerNext,
         MainNext, DumpNext

\* A step of the data layer is one of the threads, or none.
LEMMA StutterIsControl ==
  [DataNext]_<<vars, dataVars>> => [Next]_vars
  BY DataIsControl

\* It gets there by the end of a parse and leaves by being added to the list.
LEMMA HandStep ==
  ASSUME IndInv, [Next]_vars
  PROVE  FillDone \/ AddFull \/ InHand' = InHand
<1> USE DEF InHand, IndInv, SampleInv, lists, mainLocals, samplerLocals,
            SamplerGoto, SamplerMoves, SamplerLocks, SamplerUnlocks,
            MainGoto, MainMoves, MainLocks, MainUnlocks, CondSignal
<1>1. CASE SamplerNext
  BY <1>1
  DEF SamplerNext, LoopTest, SnapshotFails, SnapshotTaken, LockEmpty,
      TakeEmpty, WaitEmpty, Relock, StopAfterWait, TestAgain, UnlockEmpty,
      FillFails, LockFull, UnlockFull
<1>2. CASE DumpNext
  BY <1>2
  DEF DumpNext, DumpWakeup, LockGrab, NothingFull, BeginGrab, GrabOne,
      GrabEnds, UnlockGrab, FormatDone, FormatFails, PerformOk,
      PerformFails, RetryPause, RetryNow, LockCount, CountEmpty,
      UnlockCount, DropRequest, KeepRequest, LockReturn, ReturnOne,
      ReturnEnds, SignalEmpty, UnlockIdle
<1>3. CASE SpuriousWakeup \/ ShutdownNext
  BY <1>3
  DEF SpuriousWakeup, ShutdownNext, SetStop, SignalStop, Join, Cleanup
<1>4. CASE UNCHANGED vars
  BY <1>4 DEF vars
<1>5. QED
  BY <1>1, <1>2, <1>3, <1>4 DEF Next, MainNext

\* The finished readings are samples, each in one place; a structure that is
\* being filled is none of them.
LEMMA FinishedType ==
  ASSUME IndInv
  PROVE  /\ batch \o full \in Seq(Samples) /\ InHand \in Seq(Samples)
         /\ Finished = (batch \o full) \o InHand
         /\ Finished \in Seq(Samples)
         /\ Range(Finished) = Range(batch) \cup Range(full) \cup Range(InHand)
         /\ spc = "fill" => sample \in Samples \ Range(Finished)
<1>1. /\ batch \in Seq(Samples) /\ full \in Seq(Samples)
      /\ sample \in Samples \cup {NULL}
  BY DEF IndInv, TypeOK
<1>2. InHand \in Seq(Samples)
  <2>1. CASE spc \in {"lock_full", "add_full"}
    <3>1. sample \in Samples
      BY <1>1, <2>1 DEF IndInv, SampleInv
    <3>2. QED
      BY <2>1, <3>1 DEF InHand
  <2>2. CASE spc \notin {"lock_full", "add_full"}
    BY <2>2 DEF InHand
  <2>3. QED
    BY <2>1, <2>2
<1> DEFINE sent == batch \o full
<1>3. Finished = sent \o InHand
  BY DEF Finished, InHand
<1>4. sent \in Seq(Samples) /\ Range(sent) = Range(batch) \cup Range(full)
  BY <1>1, ConcatItems
<1> HIDE DEF sent
<1>5. /\ Finished \in Seq(Samples)
      /\ Range(Finished) = Range(batch) \cup Range(full) \cup Range(InHand)
  BY <1>2, <1>3, <1>4, ConcatItems
<1>6. ASSUME spc = "fill" PROVE sample \in Samples \ Range(Finished)
  <2>1. sample # NULL /\ Held = {sample} /\ InHand = <<>>
    BY <1>6 DEF IndInv, SampleInv, Held, InHand
  <2>2. Range(InHand) = {}
    BY <2>1 DEF Range
  <2>3. sample \notin Range(batch) \cup Range(full)
    BY <2>1 DEF IndInv, PoolPartition
  <2>4. QED
    BY <1>1, <1>5, <2>1, <2>2, <2>3
<1>7. QED
  BY <1>2, <1>3, <1>4, <1>5, <1>6 DEF sent

\* A reading is added at the end when it is finished, the oldest is taken out
\* when its batch is returned, and no other step changes their order.
LEMMA FinishedStep ==
  ASSUME IndInv, [Next]_vars
  PROVE  \/ FillDone /\ Finished' = Append(Finished, sample)
         \/ /\ ReturnOne /\ Finished # <<>> /\ batch # <<>>
            /\ Finished' = Tail(Finished)
         \/ ~ FillDone /\ ~ ReturnOne /\ Finished' = Finished
<1> USE DEF lists, mainLocals, samplerLocals
<1> DEFINE sent == batch \o full
<1>1. /\ batch \in Seq(Samples) /\ full \in Seq(Samples)
      /\ sample \in Samples \cup {NULL}
  BY DEF IndInv, TypeOK
<1>2. /\ sent \in Seq(Samples) /\ InHand \in Seq(Samples)
      /\ Finished = sent \o InHand /\ Finished' = sent' \o InHand'
  BY FinishedType DEF Finished, InHand
<1>3. CASE FillDone
  <2>1. /\ batch' = batch /\ full' = full /\ sample' = sample
        /\ InHand = <<>> /\ InHand' = <<sample>> /\ sample \in Samples
    BY <1>1, <1>3 DEF FillDone, SamplerMoves, SamplerGoto, InHand, IndInv,
                      SampleInv
  <2>2. Finished = sent
    BY <1>2, <2>1, ConcatEmptySeq
  <2>3. Finished' = Append(sent, sample)
    BY <1>2, <2>1, AppendIsConcat
  <2>4. QED
    BY <1>3, <2>2, <2>3
<1>4. CASE AddFull
  <2>1. /\ batch' = batch /\ full' = Append(full, sample)
        /\ InHand = <<sample>> /\ InHand' = <<>> /\ sample \in Samples
        /\ spc = "add_full" /\ mpc' = mpc
    BY <1>1, <1>4 DEF AddFull, SamplerGoto, InHand, IndInv, SampleInv
  <2>2. sent' = Append(sent, sample) /\ sent' \in Seq(Samples)
    BY <1>1, <1>2, <2>1, ConcatLast, AppendProperties
  <2>3. Finished = sent' /\ Finished' = sent'
    BY <1>2, <2>1, <2>2, AppendIsConcat, ConcatEmptySeq
  <2>4. ~ FillDone /\ ~ ReturnOne
    BY <2>1 DEF FillDone, SamplerMoves, SamplerGoto, ReturnOne, IndInv,
                MutexInv, SamplerCritical, MainCritical
  <2>5. QED
    BY <2>3, <2>4
<1>5. CASE ~ FillDone /\ ~ AddFull
  <2>1. InHand' = InHand
    BY <1>5, HandStep
  <2>2. CASE GrabOne
    <3>1. /\ full # <<>> /\ full' = Tail(full) /\ mpc = "grab"
          /\ batch' = Append(batch, Head(full))
      BY <2>2 DEF GrabOne
    <3>2. sent' = sent
      BY <1>1, <3>1, ConcatMove
    <3>3. ~ ReturnOne
      BY <3>1 DEF ReturnOne
    <3>4. QED
      BY <1>2, <1>5, <2>1, <3>2, <3>3
  <2>3. CASE ReturnOne
    <3>1. batch # <<>> /\ batch' = Tail(batch) /\ full' = full
      BY <2>3 DEF ReturnOne
    <3>2. sent # <<>> /\ sent' = Tail(sent)
      BY <1>1, <3>1, ConcatTail
    <3>3. Finished # <<>> /\ Finished' = Tail(Finished)
      BY <1>2, <2>1, <3>2, ConcatTail
    <3>4. QED
      BY <2>3, <3>1, <3>3
  <2>4. CASE ~ GrabOne /\ ~ ReturnOne
    <3>1. batch' = batch /\ full' = full
      <4>1. CASE TakeEmpty \/ UnlockFull
        BY <4>1 DEF TakeEmpty, UnlockFull
      <4>2. CASE BeginGrab
        BY <4>2 DEF BeginGrab, MainGoto, IndInv, BatchInv
      <4>3. CASE UNCHANGED places
        BY <4>3 DEF places
      <4>4. QED
        BY <1>5, <2>4, <4>1, <4>2, <4>3, PlacesTouched
    <3>2. QED
      BY <1>2, <1>5, <2>1, <2>4, <3>1
  <2>5. QED
    BY <2>2, <2>3, <2>4
<1>6. QED
  BY <1>3, <1>4, <1>5

-----------------------------------------------------------------------------
(* The contents of the structures.                                         *)

\* Neither a parse that fails nor a conversion changes which fields there are,
\* and a conversion leaves the interval and its stamp alone.
LEMMA ConvertKeeps ==
  ASSUME NEW c, DOMAIN c = Fields
  PROVE  /\ DOMAIN Convert(c) = Fields
         /\ Convert(c).ts = c.ts /\ Convert(c).from = c.from
         /\ Convert(c).to = c.to
  BY DEF Convert, Fields

\* A parse that fails leaves a structure a structure.
LEMMA PartialKeeps ==
  ASSUME NEW c, DOMAIN c = Fields PROVE DOMAIN Partial(c) = Fields
  BY DEF Partial, Fields

\* The steps that write into structures.
Converting == FormatBatch \/ FormatNothing

\* Only the parser and the formatter write into structures.
LEMMA ValueStep ==
  ASSUME [DataNext]_<<vars, dataVars>>
  PROVE  \/ ParsePart \/ ParseAll \/ Converting
         \/ UNCHANGED value
  BY DEF DataNext, TakeReading, SendOk, SendFails, MoveStep, dataVars,
         Converting

\* No other step than the end of a parse takes the sampler where it goes.
LEMMA ParseStep ==
  ASSUME [DataNext]_<<vars, dataVars>>, FillDone PROVE ParseAll
<1> USE DEF lists, mainLocals, samplerLocals, SamplerGoto, SamplerMoves,
            SamplerLocks, SamplerUnlocks, MainGoto, MainMoves, MainLocks,
            MainUnlocks, CondSignal
<1>1. spc = "fill" /\ spc' = "lock_full"
  BY DEF FillDone
<1>2. ~ MoveStep
  BY <1>1
  DEF MoveStep, LoopTest, SnapshotFails, LockEmpty, TakeEmpty, WaitEmpty,
      SpuriousWakeup, Relock, StopAfterWait, TestAgain, UnlockEmpty, LockFull,
      AddFull, UnlockFull, DumpWakeup, LockGrab, NothingFull, BeginGrab,
      GrabOne, GrabEnds, UnlockGrab, RetryPause, RetryNow, LockCount,
      CountEmpty, UnlockCount, DropRequest, KeepRequest, LockReturn,
      ReturnOne, ReturnEnds, SignalEmpty, UnlockIdle, ShutdownNext, SetStop,
      SignalStop, Join, Cleanup
<1>3. ~ (TakeReading \/ ParsePart \/ UNCHANGED vars)
  BY <1>1 DEF TakeReading, ParsePart, SnapshotTaken, FillFails, vars
<1>4. ~ (FormatBatch \/ FormatNothing \/ SendOk \/ SendFails)
  BY <1>1 DEF FormatBatch, FormatNothing, SendOk, SendFails, FormatDone,
              FormatFails, PerformOk, PerformFails
<1>5. QED
  BY <1>2, <1>3, <1>4 DEF DataNext

\* The end of a parse: the difference from the kept reading to the new one,
\* which is kept from now on.
Parsed == [ts |-> last_ts, from |-> Kept, to |-> last_ts,
           form |-> "difference", times |-> Difference(Kept, last_ts)]

\* A parse that succeeds makes a difference, and keeps the reading.
LEMMA ParseAllMeans ==
  ASSUME ReadingInv, ParseAll
  PROVE  /\ value' = [value EXCEPT ![sample] = Parsed]
         /\ last_ts' = last_ts /\ Kept' = last_ts
         /\ last_index' \in 0..1 /\ last_sample' \in [0..1 -> 0..MaxTs]
<1>1. /\ last_ts' = last_ts /\ last_index' = (last_index + 1) % 2
      /\ last_sample' = [last_sample EXCEPT ![last_index'] = last_ts]
  BY DEF ParseAll
<1>2. last_index \in 0..1 /\ last_ts \in 0..MaxTs
      /\ last_sample \in [0..1 -> 0..MaxTs]
  BY DEF ReadingInv
<1>3. last_index' \in 0..1 /\ last_index' # last_index
  BY <1>1, <1>2
<1>4. /\ last_sample' \in [0..1 -> 0..MaxTs]
      /\ last_sample'[last_index'] = last_ts
      /\ last_sample'[last_index] = last_sample[last_index]
  BY <1>1, <1>2, <1>3
<1>5. value' = [value EXCEPT ![sample] =
                  [ts |-> Stamp(value[sample]),
                   from |-> last_sample'[last_index], to |-> last_ts,
                   form |-> "difference",
                   times |-> DiffUnsigned(Reading(last_ts),
                                          Reading(last_sample'[last_index]))]]
  BY DEF ParseAll
<1>6. value' = [value EXCEPT ![sample] = Parsed]
  BY <1>4, <1>5 DEF Parsed, Kept, Difference, Stamp
<1>7. QED
  BY <1>1, <1>3, <1>4, <1>6 DEF Kept

\* The contents of a finished reading stay as they are, except for the
\* conversion of the batch, which keeps the interval and the stamp.
LEMMA ContentsStep ==
  ASSUME DataIndInv, [DataNext]_<<vars, dataVars>>
  PROVE  /\ ContentsInv'
         /\ \A s \in Range(Finished) :
              /\ value'[s].ts = value[s].ts /\ value'[s].from = value[s].from
              /\ value'[s].to = value[s].to
              /\ value'[s] = IF Converting /\ s \in Range(batch)
                               THEN Convert(value[s]) ELSE value[s]
<1>1. ContentsInv /\ IndInv /\ Range(Finished) \subseteq Samples
  <2>1. ContentsInv /\ IndInv
    BY DEF DataIndInv, DataInv
  <2>2. Finished \in Seq(Samples)
    BY <2>1, FinishedType
  <2>3. QED
    BY <2>1, <2>2 DEF Range
<1>2. spc = "fill" => sample \in Samples \ Range(Finished)
  BY <1>1, FinishedType
<1>3. Converting => mpc = "format"
  BY DEF Converting, FormatBatch, FormatNothing, FormatDone, FormatFails,
         MainMoves, MainGoto
<1>4. CASE ParsePart
  <2>1. /\ spc = "fill" /\ ~ Converting
        /\ value' = [value EXCEPT ![sample] = Partial(value[sample])]
    BY <1>3, <1>4 DEF ParsePart, FillFails, SamplerMoves, SamplerGoto,
                      Converting, FormatBatch, FormatNothing, FormatDone,
                      FormatFails, MainMoves, MainGoto, samplerLocals
  <2>2. /\ value' = [s \in Samples |-> value'[s]]
        /\ \A s \in Samples : s # sample => value'[s] = value[s]
        /\ sample \in Samples => value'[sample] = Partial(value[sample])
    BY <1>1, <2>1 DEF ContentsInv
  <2>3. ContentsInv'
    BY <1>1, <2>2, PartialKeeps DEF ContentsInv
  <2>4. QED
    BY <1>1, <1>2, <2>1, <2>2, <2>3
<1>5. CASE ParseAll
  <2>1. spc = "fill" /\ ~ Converting
    BY <1>3, <1>5 DEF ParseAll, FillDone, SamplerMoves, SamplerGoto,
                      Converting, FormatBatch, FormatNothing, FormatDone,
                      FormatFails, MainMoves, MainGoto, samplerLocals
  <2>2. value' = [value EXCEPT ![sample] = Parsed]
    BY <1>5, ParseAllMeans DEF DataIndInv, DataInv
  <2>3. /\ value' = [s \in Samples |-> value'[s]]
        /\ \A s \in Samples : s # sample => value'[s] = value[s]
        /\ sample \in Samples => value'[sample] = Parsed
    BY <1>1, <2>2 DEF ContentsInv
  <2>4. ContentsInv'
    BY <1>1, <2>3 DEF ContentsInv, Parsed, Fields
  <2>5. QED
    BY <1>1, <1>2, <2>1, <2>3, <2>4
<1>6. CASE Converting
  <2>1. value' = [s \in Samples |-> IF s \in Range(batch)
                                      THEN Convert(value[s]) ELSE value[s]]
    BY <1>6 DEF Converting, FormatBatch, FormatNothing
  <2>2. /\ value' = [s \in Samples |-> value'[s]]
        /\ \A s \in Samples : value'[s] = IF s \in Range(batch)
                                            THEN Convert(value[s]) ELSE value[s]
    BY <2>1
  <2>3. ContentsInv'
    BY <1>1, <2>2, ConvertKeeps DEF ContentsInv
  <2>4. ASSUME NEW s \in Range(Finished)
        PROVE  /\ value'[s].ts = value[s].ts /\ value'[s].from = value[s].from
               /\ value'[s].to = value[s].to
               /\ value'[s] = IF s \in Range(batch)
                                THEN Convert(value[s]) ELSE value[s]
    <3>1. s \in Samples /\ DOMAIN value[s] = Fields
      BY <1>1 DEF ContentsInv
    <3>2. QED
      BY <2>2, <3>1, ConvertKeeps
  <2>5. QED
    BY <1>6, <2>3, <2>4
<1>7. CASE UNCHANGED value /\ ~ Converting
  BY <1>1, <1>7 DEF ContentsInv
<1>8. QED
  BY <1>4, <1>5, <1>6, <1>7, ValueStep

-----------------------------------------------------------------------------
(* The readings and their intervals.                                       *)

\* Only the end of a parse changes which reading is kept.
LEMMA KeptStep ==
  ASSUME [DataNext]_<<vars, dataVars>>
  PROVE  ParseAll \/ UNCHANGED <<last_sample, last_index, Kept>>
  BY DEF DataNext, TakeReading, ParsePart, FormatBatch, FormatNothing, SendOk,
         SendFails, MoveStep, dataVars, samplerData, Kept

\* Times go up: a new reading is later than the kept one until it is kept.
LEMMA ReadingStep ==
  ASSUME DataIndInv, [DataNext]_<<vars, dataVars>> PROVE ReadingInv'
<1> USE DEF HasReading, lists, mainLocals, samplerLocals, SamplerGoto,
            SamplerMoves, SamplerLocks, SamplerUnlocks, MainGoto, MainMoves,
            MainLocks, MainUnlocks, CondSignal
<1>1. ReadingInv
  BY DEF DataIndInv, DataInv
<1>2. Kept \in 0..MaxTs /\ last_ts \in 0..MaxTs /\ MaxTs \in Nat
  BY <1>1, DataAssumption DEF ReadingInv, Kept
<1>3. CASE TakeReading
  <2>1. last_ts' \in (last_ts + 1)..MaxTs
        /\ UNCHANGED <<last_sample, last_index, Kept>>
    BY <1>3 DEF TakeReading, Kept
  <2>2. last_ts' \in 0..MaxTs /\ Kept' < last_ts'
    BY <1>1, <1>2, <2>1 DEF ReadingInv
  <2>3. QED
    BY <1>1, <1>2, <2>1, <2>2 DEF ReadingInv
<1>4. CASE ParseAll
  <2>1. spc' = "lock_full"
    BY <1>4 DEF ParseAll, FillDone
  <2>2. QED
    BY <1>1, <1>2, <1>4, <2>1, ParseAllMeans DEF ReadingInv
<1>5. CASE ~ TakeReading /\ ~ ParseAll
  <2>1. UNCHANGED <<last_ts, last_sample, last_index, Kept>>
    BY <1>5, KeptStep
    DEF DataNext, ParsePart, FormatBatch, FormatNothing, SendOk, SendFails,
        MoveStep, dataVars, samplerData
  <2>2. ASSUME MoveStep PROVE spc' \in HasReading => spc \in HasReading
    BY <2>2
    DEF MoveStep, LoopTest, SnapshotFails, LockEmpty, TakeEmpty, WaitEmpty,
        SpuriousWakeup, Relock, StopAfterWait, TestAgain, UnlockEmpty,
        LockFull, AddFull, UnlockFull, DumpWakeup, LockGrab, NothingFull,
        BeginGrab, GrabOne, GrabEnds, UnlockGrab, RetryPause, RetryNow,
        LockCount, CountEmpty, UnlockCount, DropRequest, KeepRequest,
        LockReturn, ReturnOne, ReturnEnds, SignalEmpty, UnlockIdle,
        ShutdownNext, SetStop, SignalStop, Join, Cleanup
  <2>3. spc' \in HasReading => spc \in HasReading
    BY <1>5, <2>2
    DEF DataNext, ParsePart, FillFails, FormatBatch, FormatNothing, SendOk,
        SendFails, FormatDone, FormatFails, PerformOk, PerformFails, vars
  <2>4. QED
    BY <1>1, <2>1, <2>3 DEF ReadingInv
<1>6. QED
  BY <1>3, <1>4, <1>5

\* The structures of f, with contents v, hold intervals that follow each other
\* up to the time last.
Chained(f, v, last) ==
  /\ \A i \in DOMAIN f : /\ v[f[i]].from \in 0..MaxTs
                         /\ v[f[i]].to \in 0..MaxTs
                         /\ v[f[i]].ts = v[f[i]].to
                         /\ v[f[i]].from < v[f[i]].to
  /\ \A i \in 1..(Len(f) - 1) : v[f[i]].to = v[f[i + 1]].from
  /\ f # <<>> => v[f[Len(f)]].to = last

\* A chain does not depend on what else changes in its structures.
LEMMA ChainKeeps ==
  ASSUME NEW f \in Seq(Samples), NEW v, NEW w, NEW last, Chained(f, v, last),
         \A s \in Range(f) : /\ w[s].ts = v[s].ts /\ w[s].from = v[s].from
                             /\ w[s].to = v[s].to
  PROVE  Chained(f, w, last)
<1>1. /\ Len(f) \in Nat /\ DOMAIN f = 1..Len(f) /\ (f # <<>> => Len(f) > 0)
      /\ \A i \in 1..Len(f) : f[i] \in Range(f)
  BY DEF Range
<1>2. \A i \in 1..Len(f) : /\ w[f[i]].ts = v[f[i]].ts
                           /\ w[f[i]].from = v[f[i]].from
                           /\ w[f[i]].to = v[f[i]].to
  BY <1>1
<1>3. QED
  BY <1>1, <1>2 DEF Chained

\* A chain without its first link.
LEMMA ChainTail ==
  ASSUME NEW f \in Seq(Samples), NEW v, NEW last, Chained(f, v, last),
         f # <<>>
  PROVE  Chained(Tail(f), v, last)
<1> DEFINE t == Tail(f)
<1>1. /\ t \in Seq(Samples) /\ Len(t) = Len(f) - 1
      /\ \A i \in 1..(Len(f) - 1) : t[i] = f[i + 1]
      /\ Len(f) \in Nat /\ Len(f) > 0 /\ DOMAIN f = 1..Len(f)
  BY HeadTailProperties, LenProperties
<1>2. DOMAIN t = 1..(Len(f) - 1) /\ (t # <<>> => Len(f) > 1)
  BY <1>1
<1> HIDE DEF t
<1>3. QED
  BY <1>1, <1>2 DEF Chained, t

\* A chain with a link that begins where it ends.
LEMMA ChainAdd ==
  ASSUME NEW f \in Seq(Samples), NEW v, NEW last, Chained(f, v, last),
         NEW e \in Samples, v[e].from = last, v[e].from < v[e].to,
         v[e].from \in 0..MaxTs, v[e].to \in 0..MaxTs, v[e].ts = v[e].to
  PROVE  Chained(Append(f, e), v, v[e].to)
<1> DEFINE a == Append(f, e)
<1>1. /\ a \in Seq(Samples) /\ Len(a) = Len(f) + 1 /\ a[Len(f) + 1] = e
      /\ \A i \in 1..Len(f) : a[i] = f[i]
      /\ Len(f) \in Nat /\ DOMAIN f = 1..Len(f) /\ DOMAIN a = 1..(Len(f) + 1)
  BY AppendProperties, LenProperties
<1> HIDE DEF a
<1>2. \A i \in DOMAIN a : /\ v[a[i]].from \in 0..MaxTs
                          /\ v[a[i]].to \in 0..MaxTs
                          /\ v[a[i]].ts = v[a[i]].to
                          /\ v[a[i]].from < v[a[i]].to
  BY <1>1 DEF Chained
<1>3. ASSUME NEW i \in 1..(Len(a) - 1) PROVE v[a[i]].to = v[a[i + 1]].from
  <2>1. CASE i < Len(f)
    BY <1>1, <2>1 DEF Chained
  <2>2. CASE i = Len(f)
    <3>1. f # <<>> /\ a[i] = f[Len(f)] /\ a[i + 1] = e
      BY <1>1, <2>2
    <3>2. QED
      BY <3>1 DEF Chained
  <2>3. i < Len(f) \/ i = Len(f)
    BY <1>1
  <2>4. QED
    BY <2>1, <2>2, <2>3
<1>4. QED
  BY <1>1, <1>2, <1>3 DEF Chained, a

\* Contiguous intervals, as a chain.
LEMMA IntervalsChained == IntervalInv <=> Chained(Finished, value, Kept)
  BY DEF IntervalInv, InFlightContiguous, Chained, Kept

\* A finished reading starts where the last one ended, and what it says of
\* itself stays true.
LEMMA IntervalStep ==
  ASSUME DataIndInv, [DataNext]_<<vars, dataVars>>
  PROVE  IntervalInv'
<1> SUFFICES Chained(Finished', value', Kept')
  BY DEF IntervalInv, InFlightContiguous, Chained, Kept
<1>1. IndInv /\ ReadingInv /\ ContentsInv /\ [Next]_vars
  BY StutterIsControl DEF DataIndInv, DataInv
<1>2. /\ Finished \in Seq(Samples)
      /\ spc = "fill" => sample \in Samples \ Range(Finished)
  BY <1>1, FinishedType
<1>3. Chained(Finished, value', Kept)
  <2>1. Chained(Finished, value, Kept)
    BY IntervalsChained DEF DataIndInv, DataInv
  <2>2. \A s \in Range(Finished) : /\ value'[s].ts = value[s].ts
                                   /\ value'[s].from = value[s].from
                                   /\ value'[s].to = value[s].to
    BY ContentsStep
  <2>3. QED
    BY <1>2, <2>1, <2>2, ChainKeeps
<1>4. CASE FillDone /\ Finished' = Append(Finished, sample)
  <2>1. ParseAll /\ spc = "fill"
    BY <1>4, ParseStep DEF FillDone, SamplerMoves, SamplerGoto
  <2>2. sample \in Samples
    BY <1>2, <2>1
  <2>3. value'[sample] = Parsed /\ Kept' = last_ts
    BY <1>1, <2>1, <2>2, ParseAllMeans DEF ContentsInv
  <2>4. last_ts \in 0..MaxTs /\ Kept \in 0..MaxTs /\ Kept < last_ts
    BY <1>1, <2>1, DataAssumption DEF ReadingInv, Kept, HasReading
  <2>5. /\ value'[sample].from = Kept /\ value'[sample].to = last_ts
        /\ value'[sample].ts = last_ts
    BY <2>3 DEF Parsed
  <2>6. Chained(Append(Finished, sample), value', value'[sample].to)
    BY <1>2, <1>3, <2>2, <2>4, <2>5, ChainAdd
  <2>7. QED
    BY <1>4, <2>3, <2>5, <2>6
<1>5. CASE ReturnOne /\ Finished # <<>> /\ Finished' = Tail(Finished)
  <2>1. Kept' = Kept
    BY <1>5, KeptStep
    DEF ReturnOne, ParseAll, FillDone, SamplerMoves, SamplerGoto, samplerLocals
  <2>2. QED
    BY <1>2, <1>3, <1>5, <2>1, ChainTail
<1>6. CASE ~ FillDone /\ Finished' = Finished
  <2>1. Kept' = Kept
    BY <1>6, KeptStep DEF ParseAll
  <2>2. QED
    BY <1>3, <1>6, <2>1
<1>7. QED
  BY <1>1, <1>4, <1>5, <1>6, FinishedStep

-----------------------------------------------------------------------------
(* The batch and its conversion.                                           *)

\* main reaches the states between the grab and the request, and those of the
\* request, by the steps in between only, and keeps its batch in them.
LEMMA MainStep ==
  ASSUME IndInv, [DataNext]_<<vars, dataVars>>
  PROVE  /\ mpc' \in Grabbing =>
              \/ BeginGrab \/ GrabOne
              \/ mpc \in Grabbing /\ batch' = batch /\ ~ Converting
         /\ mpc' \in Sending =>
              \/ FormatBatch
              \/ /\ mpc \in Sending /\ batch' = batch /\ ~ Converting
                 /\ UNCHANGED <<request, schema>>
<1> USE DEF Grabbing, Sending, Converting, lists, mainLocals, samplerLocals,
            SamplerGoto, SamplerMoves, SamplerLocks, SamplerUnlocks, MainGoto,
            MainMoves, MainLocks, MainUnlocks, CondSignal
<1>1. CASE MoveStep
  BY <1>1
  DEF MoveStep, LoopTest, SnapshotFails, LockEmpty, TakeEmpty, WaitEmpty,
      SpuriousWakeup, Relock, StopAfterWait, TestAgain, UnlockEmpty,
      LockFull, AddFull, UnlockFull, DumpWakeup, LockGrab, NothingFull,
      BeginGrab, GrabOne, GrabEnds, UnlockGrab, RetryPause, RetryNow,
      LockCount, CountEmpty, UnlockCount, DropRequest, KeepRequest,
      LockReturn, ReturnOne, ReturnEnds, SignalEmpty, UnlockIdle,
      ShutdownNext, SetStop, SignalStop, Join, Cleanup, FormatBatch,
      FormatNothing, FormatDone, FormatFails, dataVars
<1>2. CASE TakeReading \/ ParsePart \/ ParseAll \/ UNCHANGED <<vars, dataVars>>
  BY <1>2
  DEF TakeReading, ParsePart, ParseAll, SnapshotTaken, FillFails, FillDone,
      vars, dataVars, mainData, FormatBatch, FormatNothing, FormatDone,
      FormatFails
<1>3. CASE FormatBatch \/ FormatNothing \/ SendOk \/ SendFails
  BY <1>3
  DEF FormatBatch, FormatNothing, SendOk, SendFails, FormatDone, FormatFails,
      PerformOk, PerformFails
<1>4. QED
  BY <1>1, <1>2, <1>3 DEF DataNext

\* Structures wait, filled, until main grabs them.
LEMMA WaitingStep ==
  ASSUME IndInv, [Next]_vars
  PROVE  \/ FillDone /\ full' = full /\ InHand' = <<sample>>
         \/ Range(full') \cup Range(InHand') \subseteq
              Range(full) \cup Range(InHand)
<1> USE DEF lists, mainLocals, samplerLocals
<1>1. full \in Seq(Samples) /\ sample \in Samples \cup {NULL}
  BY DEF IndInv, TypeOK
<1>2. CASE FillDone
  BY <1>2 DEF FillDone, SamplerMoves, SamplerGoto, InHand
<1>3. CASE AddFull
  <2>1. /\ full' = Append(full, sample) /\ InHand = <<sample>>
        /\ InHand' = <<>> /\ sample \in Samples
    BY <1>1, <1>3 DEF AddFull, SamplerGoto, InHand, IndInv, SampleInv
  <2>2. Range(full') = Range(full) \cup {sample}
    BY <1>1, <2>1, AddLast
  <2>3. Range(InHand) = {sample} /\ Range(InHand') = {}
    BY <2>1 DEF Range
  <2>4. QED
    BY <2>2, <2>3
<1>4. CASE ~ FillDone /\ ~ AddFull
  <2>1. InHand' = InHand
    BY <1>4, HandStep
  <2>2. Range(full') \subseteq Range(full)
    <3>1. CASE GrabOne
      BY <1>1, <3>1, TakeFirst DEF GrabOne
    <3>2. CASE ~ GrabOne
      <4>1. full' = full
        BY <1>4, <3>2, PlacesTouched
        DEF TakeEmpty, UnlockFull, BeginGrab, ReturnOne, places
      <4>2. QED
        BY <4>1
    <3>3. QED
      BY <3>1, <3>2
  <2>3. QED
    BY <2>1, <2>2
<1>5. QED
  BY <1>2, <1>3, <1>4

\* The conversion of a difference gives its shares.
LEMMA ConvertMeans ==
  ASSUME NEW c, DOMAIN c = Fields, IsDifference(c)
  PROVE  IsPercent(Convert(c))
<1>1. Convert(c) = [c EXCEPT !.form = "percent",
                      !.times = [d \in Cpus |-> [t \in Times |->
                                   Fraction(c.times, d, t)]]]
  BY DEF Convert, IsDifference
<1>2. /\ Convert(c).form = "percent"
      /\ Convert(c).times = [d \in Cpus |-> [t \in Times |->
                               Fraction(c.times, d, t)]]
  BY <1>1 DEF Fields
<1>3. c.times = Difference(c.from, c.to)
  BY DEF IsDifference
<1>4. Convert(c).from = c.from /\ Convert(c).to = c.to
  BY ConvertKeeps
<1>5. QED
  BY <1>2, <1>3, <1>4 DEF IsPercent, Shares

\* Every structure holds what its place says.
LEMMA FormStep ==
  ASSUME DataIndInv, [DataNext]_<<vars, dataVars>> PROVE FormInv'
<1>1. IndInv /\ ReadingInv /\ ContentsInv /\ FormInv /\ [Next]_vars
  BY StutterIsControl DEF DataIndInv, DataInv
<1>2. /\ Range(Finished) = Range(batch) \cup Range(full) \cup Range(InHand)
      /\ Finished \in Seq(Samples)
      /\ (spc = "fill" => sample \in Samples)
  BY <1>1, FinishedType
<1>3. Range(Finished) \subseteq Samples
  BY <1>2 DEF Range
<1>4. \A s \in Range(Finished) :
        value'[s] = IF Converting /\ s \in Range(batch) THEN Convert(value[s])
                                                        ELSE value[s]
  BY ContentsStep
<1>5. \A s \in Range(full) \cup Range(InHand) : s \notin Range(batch)
  <2>1. Range(InHand) \subseteq Held
    BY <1>1 DEF InHand, Held, Range, IndInv, SampleInv
  <2>2. QED
    BY <1>1, <2>1 DEF IndInv, PoolPartition
<1>6. \A s \in Range(full) \cup Range(InHand) : IsDifference(value'[s])
  BY <1>1, <1>2, <1>4, <1>5 DEF FormInv
<1>7. \A s \in Range(full') \cup Range(InHand') : IsDifference(value'[s])
  <2>1. CASE FillDone /\ full' = full /\ InHand' = <<sample>>
    <3>1. ParseAll /\ sample \in Samples
      BY <1>2, <2>1, ParseStep DEF FillDone, SamplerMoves, SamplerGoto
    <3>2. value'[sample] = Parsed
      BY <1>1, <3>1, ParseAllMeans DEF ContentsInv
    <3>3. IsDifference(value'[sample])
      BY <3>2 DEF Parsed, IsDifference
    <3>4. Range(InHand') = {sample}
      BY <2>1 DEF Range
    <3>5. QED
      BY <1>6, <2>1, <3>3, <3>4
  <2>2. QED
    BY <1>1, <1>6, <2>1, WaitingStep
<1>8. ASSUME mpc' \in Grabbing, NEW s \in Range(batch')
      PROVE  IsDifference(value'[s])
  <2>1. CASE BeginGrab
    BY <1>8, <2>1 DEF BeginGrab, Range
  <2>2. CASE GrabOne
    <3>1. /\ full # <<>> /\ batch' = Append(batch, Head(full))
          /\ mpc = "grab" /\ ~ Converting
      BY <2>2 DEF GrabOne, Converting, FormatBatch, FormatNothing, FormatDone,
                  FormatFails, MainMoves, MainGoto
    <3>2. batch \in Seq(Samples) /\ full \in Seq(Samples)
      BY <1>1 DEF IndInv, TypeOK
    <3>3. s \in Range(batch) \cup Range(full)
      BY <1>8, <3>1, <3>2, AddLast, TakeFirst
    <3>4. IsDifference(value[s]) /\ value'[s] = value[s]
      BY <1>1, <1>2, <1>4, <3>1, <3>3 DEF FormInv, Grabbing
    <3>5. QED
      BY <3>4
  <2>3. CASE mpc \in Grabbing /\ batch' = batch /\ ~ Converting
    BY <1>1, <1>2, <1>4, <1>8, <2>3 DEF FormInv
  <2>4. QED
    BY <1>1, <1>8, <2>1, <2>2, <2>3, MainStep
<1>9. ASSUME mpc' \in Sending, NEW s \in Range(batch')
      PROVE  IsPercent(value'[s])
  <2>1. CASE FormatBatch
    <3>1. batch' = batch /\ mpc = "format" /\ Converting
      BY <2>1 DEF FormatBatch, FormatDone, MainMoves, MainGoto, Converting
    <3>2. s \in Samples /\ IsDifference(value[s]) /\ DOMAIN value[s] = Fields
      BY <1>1, <1>2, <1>3, <1>9, <3>1 DEF FormInv, Grabbing, ContentsInv
    <3>3. value'[s] = Convert(value[s])
      BY <1>2, <1>4, <1>9, <3>1
    <3>4. QED
      BY <3>2, <3>3, ConvertMeans
  <2>2. CASE mpc \in Sending /\ batch' = batch /\ ~ Converting
    BY <1>1, <1>2, <1>4, <1>9, <2>2 DEF FormInv
  <2>3. QED
    BY <1>1, <1>9, <2>1, <2>2, MainStep
<1>10. QED
  BY <1>7, <1>8, <1>9 DEF FormInv, IsDifference, IsPercent

-----------------------------------------------------------------------------
(* The request and the server.                                             *)

\* The buffer is written when a batch is formatted and cleared when that fails.
LEMMA RequestStep ==
  ASSUME [DataNext]_<<vars, dataVars>>
  PROVE  FormatBatch \/ request' = NoRequest \/ request' = request
  BY DEF DataNext, TakeReading, ParsePart, ParseAll, FormatNothing, SendOk,
         SendFails, MoveStep, dataVars, mainData

\* What the buffer holds is the batch as long as it is sent, and the shares of
\* an interval for ever.
LEMMA BufferStep ==
  ASSUME DataIndInv, [DataNext]_<<vars, dataVars>>
  PROVE  BufferInv' /\ RequestMatchesBatch'
<1>1. /\ IndInv /\ ReadingInv /\ IntervalInv /\ BufferInv
      /\ RequestMatchesBatch /\ [Next]_vars
  BY StutterIsControl DEF DataIndInv, DataInv
<1>2. Finished \in Seq(Samples)
      /\ Range(batch) \subseteq Range(Finished)
  BY <1>1, FinishedType
<1>3. CASE FormatBatch
  <2>1. /\ batch' = batch /\ mpc' = "perform"
        /\ request'.data = [i \in DOMAIN batch |-> value'[batch[i]]]
    BY <1>3 DEF FormatBatch, FormatDone, MainMoves, MainGoto
  <2>2. RequestMatchesBatch'
    BY <2>1 DEF RequestMatchesBatch
  <2>3. ASSUME NEW r \in Range(request'.data)
        PROVE  r.from \in 0..MaxTs /\ r.to \in 0..MaxTs /\ IsPercent(r)
    <3>1. PICK i \in DOMAIN batch : r = value'[batch[i]]
      BY <2>1, <2>3 DEF Range
    <3>2. batch[i] \in Range(batch)
      BY DEF Range
    <3>3. /\ value'[batch[i]].from = value[batch[i]].from
          /\ value'[batch[i]].to = value[batch[i]].to
      BY <1>2, <3>2, ContentsStep
    <3>4. PICK j \in DOMAIN Finished : batch[i] = Finished[j]
      BY <1>2, <3>2 DEF Range
    <3>5. r.from \in 0..MaxTs /\ r.to \in 0..MaxTs
      BY <1>1, <3>1, <3>3, <3>4 DEF IntervalInv
    <3>6. FormInv'
      BY FormStep
    <3>7. IsPercent(value'[batch[i]])
      BY <2>1, <3>2, <3>6 DEF FormInv, IsPercent, Sending
    <3>8. QED
      BY <3>1, <3>5, <3>7
  <2>4. QED
    BY <2>2, <2>3 DEF BufferInv, IsPercent
<1>4. CASE ~ FormatBatch
  <2>1. BufferInv'
    <3>1. CASE request' = NoRequest
      BY <3>1 DEF BufferInv, NoRequest, Range
    <3>2. CASE request' = request
      BY <1>1, <3>2 DEF BufferInv, IsPercent
    <3>3. QED
      BY <1>4, <3>1, <3>2, RequestStep
  <2>2. ASSUME mpc' \in Sending
        PROVE  request'.data = [i \in DOMAIN batch' |-> value'[batch'[i]]]
    <3>1. /\ mpc \in Sending /\ batch' = batch /\ ~ Converting
          /\ request' = request
      BY <1>1, <1>4, <2>2, MainStep
    <3>2. \A i \in DOMAIN batch : value'[batch[i]] = value[batch[i]]
      BY <1>2, <3>1, ContentsStep DEF Range
    <3>3. request.data = [i \in DOMAIN batch |-> value[batch[i]]]
      BY <1>1, <3>1 DEF RequestMatchesBatch
    <3>4. QED
      BY <3>1, <3>2, <3>3
  <2>3. QED
    BY <2>1, <2>2 DEF RequestMatchesBatch
<1>5. QED
  BY <1>3, <1>4

\* Only attempts to send change the server, and only a success the schema.
LEMMA ServerStep ==
  ASSUME [DataNext]_<<vars, dataVars>>
  PROVE  \/ SendOk
         \/ SendFails
         \/ server' = server /\ schema' = schema
  BY DEF DataNext, TakeReading, ParsePart, ParseAll, FormatBatch,
         FormatNothing, MoveStep, dataVars, mainData

\* The schema reaches the server no later than the first record.
LEMMA SchemaStep ==
  ASSUME DataIndInv, [DataNext]_<<vars, dataVars>>
  PROVE  SchemaInv' /\ SchemaFirst'
<1>1. IndInv /\ SchemaInv /\ SchemaFirst
  BY DEF DataIndInv, DataInv
<1>2. mpc' \in Sending => request'.schema = schema'
  <2>1. CASE FormatBatch
    BY <2>1 DEF FormatBatch
  <2>2. CASE ~ FormatBatch
    BY <1>1, <2>2, MainStep DEF SchemaInv
  <2>3. QED
    BY <2>1, <2>2
<1>3. ASSUME SendOk \/ SendFails
      PROVE  request.schema = schema
  <2>1. mpc = "perform"
    BY <1>3 DEF SendOk, SendFails, PerformOk, PerformFails, MainMoves, MainGoto
  <2>2. QED
    BY <1>1, <2>1 DEF SchemaInv, Sending
<1>4. ASSUME Store PROVE server'.schema = (server.schema \/ request.schema)
  BY <1>4 DEF Store
<1>5. CASE SendOk
  BY <1>1, <1>2, <1>3, <1>4, <1>5 DEF SchemaInv, SchemaFirst, SendOk
<1>6. CASE SendFails
  <2>1. schema' = schema
    BY <1>6 DEF SendFails
  <2>2. CASE Store
    BY <1>1, <1>2, <1>3, <1>4, <1>6, <2>1, <2>2 DEF SchemaInv, SchemaFirst
  <2>3. CASE UNCHANGED server
    BY <1>1, <1>2, <2>1, <2>3 DEF SchemaInv, SchemaFirst
  <2>4. QED
    BY <1>6, <2>2, <2>3 DEF SendFails
<1>7. CASE server' = server /\ schema' = schema
  BY <1>1, <1>2, <1>7 DEF SchemaInv, SchemaFirst
<1>8. QED
  BY <1>5, <1>6, <1>7, ServerStep

\* The grab takes everything, and what it takes stays until it is returned.
LEMMA GrabStep ==
  ASSUME DataIndInv, [DataNext]_<<vars, dataVars>> PROVE GrabInv'
<1> USE AddLast, TakeFirst
<1> USE DEF GrabInv, Sending, Ending, lists, mainLocals, samplerLocals,
            SamplerGoto, SamplerMoves, SamplerLocks, SamplerUnlocks, MainGoto,
            MainMoves, MainLocks, MainUnlocks, CondSignal
<1>1. /\ GrabInv /\ MutexInv /\ [Next]_vars
      /\ full \in Seq(Samples) /\ batch \in Seq(Samples)
      /\ sample \in Samples \cup {NULL} /\ SampleInv
  BY StutterIsControl DEF DataIndInv, DataInv, IndInv, TypeOK
<1>2. CASE SamplerNext \/ SpuriousWakeup
  <2>1. CASE AddFull
    BY <1>1, <2>1 DEF AddFull, MutexInv, SampleInv, SamplerCritical,
                      MainCritical
  <2>2. CASE ~ AddFull
    <3>1. full' = full /\ batch' = batch /\ mpc' = mpc
      BY <1>2, <2>2
      DEF SamplerNext, LoopTest, SnapshotFails, SnapshotTaken, LockEmpty,
          TakeEmpty, WaitEmpty, Relock, StopAfterWait, TestAgain,
          UnlockEmpty, FillFails, FillDone, LockFull, UnlockFull,
          SpuriousWakeup
    <3>2. QED
      BY <1>1, <3>1
  <2>3. QED
    BY <2>1, <2>2
<1>3. CASE DumpNext
  BY <1>1, <1>3
  DEF DumpNext, DumpWakeup, LockGrab, NothingFull, BeginGrab, GrabOne,
      GrabEnds, UnlockGrab, FormatDone, FormatFails, PerformOk,
      PerformFails, RetryPause, RetryNow, LockCount, CountEmpty,
      UnlockCount, DropRequest, KeepRequest, LockReturn, ReturnOne,
      ReturnEnds, SignalEmpty, UnlockIdle
<1>4. CASE ShutdownNext
  BY <1>1, <1>4 DEF ShutdownNext, SetStop, SignalStop, Join, Cleanup
<1>5. CASE UNCHANGED vars
  BY <1>1, <1>5 DEF vars
<1>6. QED
  BY <1>1, <1>2, <1>3, <1>4, <1>5 DEF Next, MainNext

-----------------------------------------------------------------------------
(* The data layer keeps its invariant.                                     *)

\* Nothing is read, sent or stored at the beginning.
LEMMA DataInitInv == DataInit => DataIndInv
<1> SUFFICES ASSUME DataInit PROVE DataIndInv
  OBVIOUS
<1>1. /\ Init /\ IndInv /\ last_ts = 0 /\ value = [s \in Samples |-> Unused]
      /\ last_sample \in [0..1 -> 0..MaxTs] /\ last_sample[0] = 0
      /\ last_index = 0 /\ request = NoRequest /\ schema = TRUE
      /\ server = [schema |-> FALSE, records |-> {}]
  BY InitInv DEF DataInit
<1>2. /\ spc = "loop" /\ mpc = "sleep" /\ batch = <<>> /\ full = <<>>
      /\ InHand = <<>>
  BY <1>1 DEF Init, InHand
<1>3. Finished = <<>> /\ Len(Finished) = 0 /\ DOMAIN Finished = {}
  BY <1>2, FinishedType, <1>1 DEF Finished
<1>4. ReadingInv
  BY <1>1, <1>2, DataAssumption DEF ReadingInv, HasReading, Kept
<1>5. ContentsInv
  BY <1>1 DEF ContentsInv, Unused, Fields
<1>6. IntervalInv
  BY <1>3 DEF IntervalInv, InFlightContiguous
<1>7. Range(batch) = {} /\ Range(full) = {} /\ Range(InHand) = {}
  BY <1>2 DEF Range
<1>8. FormInv
  BY <1>7 DEF FormInv
<1>9. BufferInv /\ RequestMatchesBatch
  BY <1>1, <1>2 DEF BufferInv, RequestMatchesBatch, NoRequest, Range, Sending
<1>10. SchemaInv /\ SchemaFirst /\ GrabInv
  BY <1>1, <1>2 DEF SchemaInv, SchemaFirst, GrabInv, Sending, Ending
<1>11. QED
  BY <1>1, <1>4, <1>5, <1>6, <1>8, <1>9, <1>10 DEF DataIndInv, DataInv

\* Whatever is read, converted, sent and answered, every part of the invariant
\* is kept by every step.
THEOREM DataInductiveInvariant == DataSpec => []DataIndInv
<1>1. ASSUME DataIndInv, [DataNext]_<<vars, dataVars>> PROVE DataIndInv'
  <2>1. IndInv /\ [Next]_vars
    BY <1>1, StutterIsControl DEF DataIndInv
  <2>2. IndInv'
    BY <2>1, ControlStep, PoolStep DEF IndInv
  <2>3. DataInv'
    BY <1>1, ContentsStep, ReadingStep, IntervalStep, FormStep, BufferStep,
       SchemaStep, GrabStep
    DEF DataInv
  <2>4. QED
    BY <2>2, <2>3 DEF DataIndInv
<1>2. QED
  BY <1>1, DataInitInv, PTL DEF DataSpec

\* The data layer adds nothing to what the threads do: all that is proved of
\* module CpuMon holds of it.
THEOREM ControlRefined == DataSpec => Spec
<1>1. DataInit => Init
  BY DEF DataInit
<1>2. QED
  BY <1>1, StutterIsControl, PTL DEF DataSpec, Spec

\* The differences that wait or are sent cut the time into intervals without a
\* gap or an overlap, up to the reading kept for the next one.
THEOREM IntervalsContiguous == DataSpec => []InFlightContiguous
<1>1. DataIndInv => InFlightContiguous
  BY DEF DataIndInv, DataInv, IntervalInv
<1>2. QED
  BY <1>1, DataInductiveInvariant, PTL

\* A structure's stamp is the time of the reading its difference ends with.
THEOREM StampsMatch == DataSpec => []StampMatchesReading
<1>1. DataIndInv => StampMatchesReading
  BY DEF DataIndInv, DataInv, IntervalInv, StampMatchesReading
<1>2. QED
  BY <1>1, DataInductiveInvariant, PTL

\* From the first attempt to the last the buffer holds the batch.
THEOREM RequestIsBatch == DataSpec => []RequestMatchesBatch
<1>1. DataIndInv => RequestMatchesBatch
  BY DEF DataIndInv, DataInv
<1>2. QED
  BY <1>1, DataInductiveInvariant, PTL

\* No server stores a record before it stores the schema.
THEOREM SchemaComesFirst == DataSpec => []SchemaFirst
<1>1. DataIndInv => SchemaFirst
  BY DEF DataIndInv, DataInv
<1>2. QED
  BY <1>1, DataInductiveInvariant, PTL

-----------------------------------------------------------------------------
(* The shares that are reported.                                           *)

\* A number is told by its parts: the rest is the only one below the modulus.
LEMMA ModUnique ==
  ASSUME NEW a \in Int, NEW M \in Nat \ {0}, NEW q \in Int,
         NEW r \in 0..(M - 1), a = M * q + r
  PROVE  a % M = r
<1> DEFINE p == a \div M
           s == a % M
<1>1. p \in Int /\ s \in 0..(M - 1) /\ a = M * p + s
  OBVIOUS
<1> HIDE DEF p, s
<1>2. M * (p - q) = r - s
  BY <1>1
<1>3. p - q = 0
  <2>1. CASE p - q >= 1
    <3>1. M * (p - q) >= M
      BY <1>1, <2>1
    <3>2. QED
      BY <1>1, <1>2, <2>1, <3>1
  <2>2. CASE p - q <= -1
    <3>1. M * (p - q) <= -M
      BY <1>1, <2>2
    <3>2. QED
      BY <1>1, <1>2, <2>2, <3>1
  <2>3. QED
    BY <1>1, <2>1, <2>2
<1>4. QED
  BY <1>1, <1>2, <1>3 DEF s

\* The two parts of a number.
LEMMA ModParts ==
  ASSUME NEW a \in Int, NEW M \in Nat \ {0}
  PROVE  \E p, x \in Int : x = a % M /\ a = M * p + x
<1>1. /\ a % M \in Int /\ a \div M \in Int
      /\ a = M * (a \div M) + (a % M)
  OBVIOUS
<1>2. QED
  BY <1>1

\* Numbers that are close enough have the right difference, whatever is cut off.
LEMMA DiffExact ==
  ASSUME NEW a \in Int, NEW b \in Int, NEW M \in Nat \ {0},
         a - b \in 0..(M - 1)
  PROVE  ((a % M) - (b % M)) % M = a - b
<1>1. PICK p \in Int, x \in Int : x = a % M /\ a = M * p + x
  BY ModParts
<1>2. PICK q \in Int, y \in Int : y = b % M /\ b = M * q + y
  BY ModParts
<1>3. M * (q - p) = M * q - M * p
  OBVIOUS
<1>4. x - y = M * (q - p) + (a - b)
  BY <1>1, <1>2, <1>3
<1> DEFINE d == x - y
           k == q - p
           r == a - b
<1>5. d \in Int /\ k \in Int /\ r \in 0..(M - 1) /\ d = M * k + r
  BY <1>4
<1> HIDE DEF d, k, r
<1>6. d % M = r
  BY <1>5, ModUnique
<1>7. QED
  BY <1>1, <1>2, <1>6 DEF d, r

\* The differences of the unsigned counters are the ticks of the interval.
LEMMA DifferenceIsTicks ==
  ASSUME NEW c \in Cpus, NEW from \in 0..MaxTs, NEW to \in 0..MaxTs,
         Regular(c, from, to)
  PROVE  Difference(from, to)[c] = Ticks(c, from, to)
<1>1. \A t \in Times :
        Counters[from][c][t] \in Nat /\ Counters[to][c][t] \in Nat
  BY DataAssumption
<1>2. ASSUME NEW t \in Times
      PROVE  ((Counters[to][c][t] % Modulus) - (Counters[from][c][t] % Modulus))
               % Modulus = Counters[to][c][t] - Counters[from][c][t]
  <2> DEFINE a == Counters[to][c][t]
             b == Counters[from][c][t]
  <2>1. a \in Int /\ b \in Int /\ Modulus \in Nat \ {0}
    BY <1>1, DataAssumption
  <2>2. a - b \in 0..(Modulus - 1)
    BY DEF Regular, Ticks
  <2> HIDE DEF a, b
  <2>3. ((a % Modulus) - (b % Modulus)) % Modulus = a - b
    BY <2>1, <2>2, DiffExact
  <2>4. QED
    BY <2>3 DEF a, b
<1>3. Difference(from, to)[c] =
        [t \in Times |-> ((Counters[to][c][t] % Modulus)
                            - (Counters[from][c][t] % Modulus)) % Modulus]
  BY DEF Difference, DiffUnsigned, Reading
<1>4. QED
  BY <1>2, <1>3 DEF Ticks

\* What is reported for a CPU is exactly the share of each kind of tick in the
\* ticks of the interval, for every history of counters that do not go back,
\* wherever they wrap around.
THEOREM UsageCorrect == DataSpec => []UsageReported
<1>1. ASSUME BufferInv, NEW r \in Range(request.data), NEW c \in Cpus,
             NEW t \in Times, Regular(c, r.from, r.to)
      PROVE  r.times[c][t] = [num |-> Ticks(c, r.from, r.to)[t],
                              den |-> SumFunction(Ticks(c, r.from, r.to))]
  <2>1. /\ r.from \in 0..MaxTs /\ r.to \in 0..MaxTs
        /\ r.times = Shares(r.from, r.to)
    BY <1>1 DEF BufferInv, IsPercent
  <2>2. r.times[c][t] = Fraction(Difference(r.from, r.to), c, t)
    BY <2>1 DEF Shares
  <2>3. Difference(r.from, r.to)[c] = Ticks(c, r.from, r.to)
    BY <1>1, <2>1, DifferenceIsTicks
  <2>4. r.times[c][t] = [num |-> Ticks(c, r.from, r.to)[t],
                         den |-> SumFunction(Ticks(c, r.from, r.to)) % Modulus]
    BY <2>2, <2>3 DEF Fraction
  <2>5. SumFunction(Ticks(c, r.from, r.to)) \in 1..(Modulus - 1)
    BY <1>1 DEF Regular
  <2> DEFINE s == SumFunction(Ticks(c, r.from, r.to))
  <2> HIDE DEF s
  <2>6. Modulus \in Nat \ {0} /\ s \in 1..(Modulus - 1)
    BY <2>5, DataAssumption DEF s
  <2>7. s \in Int /\ s \in 0..(Modulus - 1) /\ s = Modulus * 0 + s
    BY <2>6
  <2>8. s % Modulus = s
    BY <2>6, <2>7, ModUnique
  <2>9. QED
    BY <2>4, <2>8 DEF s
<1>2. DataIndInv => UsageReported
  BY <1>1 DEF DataIndInv, DataInv, BufferInv, IsPercent, UsageReported
<1>3. QED
  BY <1>2, DataInductiveInvariant, PTL

-----------------------------------------------------------------------------
(* The delivery of the intervals.                                          *)

\* The intervals of the structures of q, with contents v.
Intervals(q, v) == [i \in DOMAIN q |-> <<v[q[i]].from, v[q[i]].to>>]

\* The structures whose intervals wait or are being sent.
Queue == IF mpc \in {"lock_return", "return"} THEN full ELSE batch \o full

\* The intervals of a sequence of structures, one for each.
LEMMA IntervalsType ==
  ASSUME NEW q \in Seq(Samples), NEW v
  PROVE  /\ Intervals(q, v) \in Seq({<<v[s].from, v[s].to>> : s \in Samples})
         /\ Len(Intervals(q, v)) = Len(q)
         /\ \A i \in 1..Len(q) :
              Intervals(q, v)[i] = <<v[q[i]].from, v[q[i]].to>>
<1> DEFINE S == {<<v[s].from, v[s].to>> : s \in Samples}
<1>1. /\ Len(q) \in Nat /\ DOMAIN q = 1..Len(q)
      /\ \A i \in 1..Len(q) : q[i] \in Samples
  BY LenProperties
<1>2. Intervals(q, v) = [i \in 1..Len(q) |-> <<v[q[i]].from, v[q[i]].to>>]
  BY <1>1 DEF Intervals
<1>3. \A i \in 1..Len(q) : <<v[q[i]].from, v[q[i]].to>> \in S
  BY <1>1
<1> HIDE DEF S
<1>4. Intervals(q, v) \in [1..Len(q) -> S]
  BY <1>2, <1>3
<1>5. Intervals(q, v) \in Seq(S)
  BY <1>1, <1>4
<1>6. DOMAIN Intervals(q, v) = 1..Len(Intervals(q, v))
      /\ Len(Intervals(q, v)) \in Nat
  BY <1>5, LenProperties
<1>7. Len(Intervals(q, v)) = Len(q)
  BY <1>1, <1>2, <1>6
<1>8. QED
  BY <1>2, <1>5, <1>7 DEF S

\* A structure added at the end adds its interval at the end.
LEMMA IntervalsAdd ==
  ASSUME NEW q \in Seq(Samples), NEW e \in Samples, NEW v
  PROVE  Intervals(Append(q, e), v) =
           Append(Intervals(q, v), <<v[e].from, v[e].to>>)
<1> DEFINE S == {<<v[s].from, v[s].to>> : s \in Samples}
           a == Append(q, e)
           x == <<v[e].from, v[e].to>>
           f == Intervals(q, v)
           g == Intervals(a, v)
<1>1. /\ a \in Seq(Samples) /\ Len(a) = Len(q) + 1 /\ Len(q) \in Nat
      /\ \A i \in 1..Len(q) : a[i] = q[i]
      /\ a[Len(q) + 1] = e
  BY AppendProperties, LenProperties
<1> HIDE DEF a
<1>2. /\ f \in Seq(S) /\ Len(f) = Len(q)
      /\ \A i \in 1..Len(q) : f[i] = <<v[q[i]].from, v[q[i]].to>>
  BY IntervalsType
<1>3. /\ g \in Seq(S) /\ Len(g) = Len(a)
      /\ \A i \in 1..Len(a) : g[i] = <<v[a[i]].from, v[a[i]].to>>
  BY <1>1, IntervalsType
<1>4. x \in S
  OBVIOUS
<1> HIDE DEF S, f, g
<1>5. /\ Append(f, x) \in Seq(S) /\ Len(Append(f, x)) = Len(f) + 1
      /\ \A i \in 1..Len(f) : Append(f, x)[i] = f[i]
      /\ Append(f, x)[Len(f) + 1] = x
  BY <1>2, <1>4, AppendProperties
<1>6. ASSUME NEW i \in 1..Len(g) PROVE g[i] = Append(f, x)[i]
  <2>1. i \in 1..Len(q) \/ i = Len(q) + 1
    BY <1>1, <1>3
  <2>2. CASE i \in 1..Len(q)
    BY <1>1, <1>2, <1>3, <1>5, <2>2
  <2>3. CASE i = Len(q) + 1
    BY <1>1, <1>2, <1>3, <1>5, <2>3
  <2>4. QED
    BY <2>1, <2>2, <2>3
<1>7. Len(g) = Len(Append(f, x))
  BY <1>1, <1>2, <1>3, <1>5
<1>8. QED
  BY <1>3, <1>5, <1>6, <1>7, SeqEqual DEF a, f, g

\* The intervals of the first of two lists, and what is left without them.
LEMMA IntervalsRest ==
  ASSUME NEW p \in Seq(Samples), NEW q \in Seq(Samples), NEW v,
         NEW f, f = Intervals(p \o q, v)
  PROVE  /\ Len(f) = Len(p) + Len(q)
         /\ \A i \in 1..Len(p) : f[i] = <<v[p[i]].from, v[p[i]].to>>
         /\ SubSeq(f, Len(p) + 1, Len(f)) = Intervals(q, v)
<1> DEFINE S == {<<v[s].from, v[s].to>> : s \in Samples}
           r == p \o q
           g == Intervals(q, v)
           h == SubSeq(f, Len(p) + 1, Len(f))
<1>1. /\ r \in Seq(Samples) /\ Len(r) = Len(p) + Len(q)
      /\ Len(p) \in Nat /\ Len(q) \in Nat
      /\ \A i \in 1..Len(p) : r[i] = p[i]
      /\ \A i \in 1..Len(q) : r[Len(p) + i] = q[i]
  BY ConcatItems, LenProperties
<1> HIDE DEF r
<1>2. /\ f \in Seq(S) /\ Len(f) = Len(r)
      /\ \A i \in 1..Len(r) : f[i] = <<v[r[i]].from, v[r[i]].to>>
  <2>1. f = Intervals(r, v)
    BY DEF r
  <2>2. r \in Seq(Samples)
    BY <1>1
  <2>3. /\ Intervals(r, v) \in Seq(S) /\ Len(Intervals(r, v)) = Len(r)
        /\ \A i \in 1..Len(r) :
             Intervals(r, v)[i] = <<v[r[i]].from, v[r[i]].to>>
    BY <2>2, IntervalsType
  <2>4. QED
    BY <2>1, <2>3
<1>3. /\ g \in Seq(S) /\ Len(g) = Len(q)
      /\ \A i \in 1..Len(q) : g[i] = <<v[q[i]].from, v[q[i]].to>>
  BY IntervalsType
<1> HIDE DEF S, g
<1>4. \A i \in 1..Len(p) : f[i] = <<v[p[i]].from, v[p[i]].to>>
  BY <1>1, <1>2
<1>5. \A i \in (Len(p) + 1)..Len(f) : f[i] \in S
  BY <1>1, <1>2, ElementOfSeq
<1>6. /\ Len(p) + 1 \in Int /\ Len(f) \in Int
      /\ Len(f) - (Len(p) + 1) + 1 = Len(q)
      /\ Len(p) + 1 > Len(f) => Len(q) = 0
  BY <1>1, <1>2
<1>7. /\ h \in Seq(S)
      /\ Len(h) = IF Len(p) + 1 <= Len(f) THEN Len(f) - (Len(p) + 1) + 1 ELSE 0
      /\ \A i \in 1..(Len(f) - (Len(p) + 1) + 1) :
           h[i] = f[(Len(p) + 1) + i - 1]
  BY <1>5, <1>6, SubSeqProperties
<1> HIDE DEF h
<1>8. Len(h) = Len(g) /\ Len(g) = Len(q)
  BY <1>1, <1>2, <1>3, <1>6, <1>7
<1>9. ASSUME NEW i \in 1..Len(h) PROVE h[i] = g[i]
  <2>1. i \in 1..Len(q) /\ (Len(p) + 1) + i - 1 = Len(p) + i
        /\ Len(p) + i \in 1..Len(r)
    BY <1>1, <1>8
  <2>2. h[i] = f[Len(p) + i]
    BY <1>6, <1>7, <2>1
  <2>3. f[Len(p) + i] = <<v[q[i]].from, v[q[i]].to>>
    BY <1>1, <1>2, <2>1
  <2>4. QED
    BY <1>3, <2>1, <2>2, <2>3
<1>10. h = g
  BY <1>3, <1>7, <1>8, <1>9, SeqEqual
<1>11. QED
  BY <1>1, <1>2, <1>4, <1>10 DEF g, h

\* What waits or is sent consists of finished readings.
LEMMA QueueItems ==
  ASSUME IndInv
  PROVE  /\ batch \in Seq(Samples) /\ full \in Seq(Samples)
         /\ Queue \in Seq(Samples) /\ Range(Queue) \subseteq Range(Finished)
<1>1. batch \in Seq(Samples) /\ full \in Seq(Samples)
  BY DEF IndInv, TypeOK
<1>2. /\ batch \o full \in Seq(Samples)
      /\ Range(batch \o full) = Range(batch) \cup Range(full)
  BY <1>1, ConcatItems
<1>3. QED
  BY <1>1, <1>2, FinishedType DEF Queue

\* What waits for delivery, in the order of the queue.
LEMMA WaitingIs == Waiting = Intervals(Queue, value)
  BY DEF Waiting, Queue, Intervals, Interval

\* No step changes an interval that waits or is sent.
LEMMA IntervalsKept ==
  ASSUME DataIndInv, [DataNext]_<<vars, dataVars>>,
         NEW q \in Seq(Samples), Range(q) \subseteq Range(Finished)
  PROVE  Intervals(q, value') = Intervals(q, value)
<1>1. \A i \in DOMAIN q : q[i] \in Range(Finished)
  BY DEF Range
<1>2. \A i \in DOMAIN q : /\ value'[q[i]].from = value[q[i]].from
                          /\ value'[q[i]].to = value[q[i]].to
  BY <1>1, ContentsStep
<1>3. QED
  BY <1>2 DEF Intervals

\* What waits is taken as a whole for a request and shortened when the request
\* is done with; no other step but the one of the sampler touches it.
LEMMA QueueStep ==
  ASSUME IndInv, GrabInv, [Next]_vars, ~ AddFull
  PROVE  \/ /\ UnlockGrab
            /\ full = <<>> /\ batch' = batch /\ full' = full
         \/ /\ PerformOk \/ DropRequest
            /\ batch' = batch /\ full' = full
         \/ ~ PerformOk /\ Queue' = Queue /\ BeingSent' = BeingSent
<1> USE DEF lists, mainLocals, samplerLocals, SamplerGoto, SamplerMoves,
            SamplerLocks, SamplerUnlocks, MainGoto, MainMoves, MainLocks,
            MainUnlocks, CondSignal
<1>1. /\ batch \in Seq(Samples) /\ full \in Seq(Samples)
      /\ sample \in Samples \cup {NULL}
  BY DEF IndInv, TypeOK
<1>2. CASE UnlockGrab
  BY <1>2 DEF UnlockGrab, GrabInv
<1>3. CASE PerformOk \/ DropRequest
  BY <1>3 DEF PerformOk, DropRequest
<1>4. CASE GrabOne
  <2>1. /\ full # <<>> /\ mpc = "grab" /\ mpc' = "grab"
        /\ batch' = Append(batch, Head(full)) /\ full' = Tail(full)
    BY <1>4 DEF GrabOne
  <2>2. batch' \o full' = batch \o full
    BY <1>1, <2>1, ConcatMove
  <2>3. Queue' = Queue /\ BeingSent' = BeingSent
    BY <2>1, <2>2 DEF Queue, BeingSent, Sending, Ending
  <2>4. QED
    BY <2>1, <2>3 DEF PerformOk
<1>5. CASE ReturnOne
  BY <1>5 DEF ReturnOne, PerformOk, Queue, BeingSent, Sending, Ending
<1>6. CASE ReturnEnds
  <2>1. <<>> \o full = full
    BY <1>1, ConcatEmptySeq
  <2>2. QED
    BY <1>6, <2>1
    DEF ReturnEnds, PerformOk, Queue, BeingSent, Sending, Ending
<1>7. CASE BeginGrab
  BY <1>7 DEF BeginGrab, PerformOk, Queue, BeingSent, Sending, Ending, IndInv,
              BatchInv
<1>8. CASE \/ UNCHANGED vars
           \/ SamplerNext \/ SpuriousWakeup
  <2>1. full' = full /\ batch' = batch /\ mpc' = mpc
    BY <1>8
    DEF SamplerNext, LoopTest, SnapshotFails, SnapshotTaken, LockEmpty,
        TakeEmpty, WaitEmpty, Relock, StopAfterWait, TestAgain, UnlockEmpty,
        FillFails, FillDone, LockFull, UnlockFull, SpuriousWakeup, vars
  <2>2. QED
    BY <2>1 DEF Queue, BeingSent, PerformOk
<1>9. CASE \/ DumpWakeup \/ LockGrab \/ NothingFull \/ GrabEnds \/ FormatDone
            \/ FormatFails \/ PerformFails \/ RetryPause \/ RetryNow
            \/ LockCount \/ CountEmpty \/ UnlockCount \/ KeepRequest
            \/ LockReturn \/ SignalEmpty \/ UnlockIdle \/ ShutdownNext
  <2> USE DEF Sending, Ending
  <2>1. /\ full' = full /\ batch' = batch /\ ~ PerformOk
        /\ mpc \in {"lock_return", "return"} <=>
             mpc' \in {"lock_return", "return"}
        /\ mpc \in Sending \cup {"format"} \cup Ending <=>
             mpc' \in Sending \cup {"format"} \cup Ending
    BY <1>9
    DEF DumpWakeup, LockGrab, NothingFull, GrabEnds, FormatDone, FormatFails,
        PerformFails, RetryPause, RetryNow, LockCount, CountEmpty,
        UnlockCount, KeepRequest, LockReturn, SignalEmpty, UnlockIdle,
        ShutdownNext, SetStop, SignalStop, Join, Cleanup, PerformOk
  <2>2. QED
    BY <2>1 DEF Queue, BeingSent
<1>10. QED
  BY <1>2, <1>3, <1>4, <1>5, <1>6, <1>7, <1>8, <1>9
  DEF Next, MainNext, DumpNext

\* The time up to which intervals were handed over moves only when one is.
LEMMA ProducedStep ==
  ASSUME DataIndInv, [DataNext]_<<vars, dataVars>>, ~ AddFull
  PROVE  Produced' = Produced
<1>1. IndInv /\ ReadingInv /\ ContentsInv /\ [Next]_vars
  BY StutterIsControl DEF DataIndInv, DataInv
<1>2. CASE FillDone
  <2>1. /\ ParseAll /\ spc = "fill" /\ spc' = "lock_full" /\ sample' = sample
        /\ sample \in Samples
    BY <1>1, <1>2, ParseStep, FinishedType
    DEF FillDone, SamplerMoves, SamplerGoto, samplerLocals
  <2>2. value'[sample] = Parsed
    BY <1>1, <2>1, ParseAllMeans DEF ContentsInv
  <2>3. QED
    BY <2>1, <2>2 DEF Produced, Parsed, Kept
<1>3. CASE ~ FillDone
  <2>1. InHand' = InHand
    BY <1>1, <1>3, HandStep
  <2>2. CASE spc \in {"lock_full", "add_full"}
    <3>1. InHand = <<sample>>
      BY <2>2 DEF InHand
    <3>2. spc' \in {"lock_full", "add_full"} /\ sample' = sample
      BY <2>1, <3>1 DEF InHand
    <3>3. sample \in Range(Finished)
      BY <1>1, <3>1, FinishedType DEF Range
    <3>4. value'[sample].from = value[sample].from
      BY <3>3, ContentsStep
    <3>5. QED
      BY <2>2, <3>2, <3>4 DEF Produced
  <2>3. CASE spc \notin {"lock_full", "add_full"}
    <3>1. InHand = <<>>
      BY <2>3 DEF InHand
    <3>2. spc' \notin {"lock_full", "add_full"}
      BY <2>1, <3>1 DEF InHand
    <3>3. Kept' = Kept
      BY <1>3, KeptStep DEF ParseAll
    <3>4. QED
      BY <2>3, <3>2, <3>3 DEF Produced, Kept
  <2>4. QED
    BY <2>2, <2>3
<1>4. QED
  BY <1>2, <1>3

\* A request is answered, or not, only where it is performed.
LEMMA PerformStep ==
  ASSUME [DataNext]_<<vars, dataVars>>
  PROVE  /\ PerformOk => SendOk
         /\ SendOk => PerformOk
         /\ SendFails => mpc = "perform"
         /\ \/ SendOk \/ SendFails \/ server' = server
<1> USE DEF lists, mainLocals, samplerLocals, SamplerGoto, SamplerMoves,
            SamplerLocks, SamplerUnlocks, MainGoto, MainMoves, MainLocks,
            MainUnlocks, CondSignal
<1>1. ASSUME PerformOk PROVE SendOk
  <2>1. mpc = "perform" /\ mpc' = "lock_return"
    BY <1>1 DEF PerformOk
  <2>2. ~ MoveStep
    BY <2>1
    DEF MoveStep, LoopTest, SnapshotFails, LockEmpty, TakeEmpty, WaitEmpty,
        SpuriousWakeup, Relock, StopAfterWait, TestAgain, UnlockEmpty,
        LockFull, AddFull, UnlockFull, DumpWakeup, LockGrab, NothingFull,
        BeginGrab, GrabOne, GrabEnds, UnlockGrab, RetryPause, RetryNow,
        LockCount, CountEmpty, UnlockCount, DropRequest, KeepRequest,
        LockReturn, ReturnOne, ReturnEnds, SignalEmpty, UnlockIdle,
        ShutdownNext, SetStop, SignalStop, Join, Cleanup
  <2>3. ~ (TakeReading \/ ParsePart \/ ParseAll \/ UNCHANGED vars)
    BY <2>1 DEF TakeReading, ParsePart, ParseAll, SnapshotTaken, FillFails,
                FillDone, vars
  <2>4. ~ (FormatBatch \/ FormatNothing \/ SendFails)
    BY <2>1 DEF FormatBatch, FormatNothing, SendFails, FormatDone,
                FormatFails, PerformFails
  <2>5. QED
    BY <2>2, <2>3, <2>4 DEF DataNext
<1>2. SendOk => PerformOk
  BY DEF SendOk
<1>3. SendFails => mpc = "perform"
  BY DEF SendFails, PerformFails
<1>4. QED
  BY <1>1, <1>2, <1>3, ServerStep

\* While main sends, the intervals of its batch are the first that wait.
LEMMA SentIs ==
  ASSUME IndInv, mpc \in Sending
  PROVE  /\ BeingSent = Len(batch)
         /\ \A i \in 1..Len(batch) :
              Waiting[i] = <<value[batch[i]].from, value[batch[i]].to>>
         /\ SubSeq(Waiting, BeingSent + 1, Len(Waiting)) =
              Intervals(full, value)
<1>1. Queue = batch \o full /\ BeingSent = Len(batch)
  BY DEF Queue, BeingSent, Sending
<1>2. Waiting = Intervals(batch \o full, value)
  BY <1>1, WaitingIs
<1>3. QED
  BY <1>1, <1>2, QueueItems, IntervalsRest

\* What the server stores is what is being sent.
LEMMA StoredStep ==
  ASSUME DataIndInv, Store, mpc = "perform"
  PROVE  Stored' = Stored \cup Service!Sent
<1>1. IndInv /\ RequestMatchesBatch /\ mpc \in Sending
  BY DEF DataIndInv, DataInv, Sending
<1>2. /\ request.data = [i \in DOMAIN batch |-> value[batch[i]]]
      /\ DOMAIN batch = 1..Len(batch)
  BY <1>1, QueueItems DEF RequestMatchesBatch
<1>3. Range(request.data) = {value[batch[i]] : i \in 1..Len(batch)}
  BY <1>2 DEF Range
<1>4. server'.records = server.records \cup Range(request.data)
  BY DEF Store
<1>5. Service!Sent =
        {<<value[batch[i]].from, value[batch[i]].to>> : i \in 1..Len(batch)}
  BY <1>1, SentIs DEF Service!Sent
<1>6. QED
  BY <1>3, <1>4, <1>5 DEF Stored

\* A finished reading that is handed over starts where the last one ended.
LEMMA HandOver ==
  ASSUME DataIndInv, [DataNext]_<<vars, dataVars>>, AddFull
  PROVE  /\ sample \in Samples /\ Produced' > Produced
         /\ <<value[sample].from, value[sample].to>> = <<Produced, Produced'>>
         /\ Queue' = Append(Queue, sample) /\ BeingSent' = BeingSent
         /\ server' = server
<1> USE DEF SamplerGoto, mainLocals, samplerLocals
<1>1. IndInv /\ IntervalInv
  BY DEF DataIndInv, DataInv
<1>2. /\ spc = "add_full" /\ spc' = "unlock_full" /\ InHand = <<sample>>
      /\ UNCHANGED mpc
  BY DEF AddFull, InHand
<1>3. sample \in Samples
  BY <1>1, <1>2 DEF IndInv, SampleInv, TypeOK
<1>4. /\ Finished = (batch \o full) \o <<sample>>
      /\ batch \o full \in Seq(Samples) /\ Finished \in Seq(Samples)
  BY <1>1, <1>2, FinishedType
<1>5. /\ Finished = Append(batch \o full, sample)
      /\ Finished # <<>> /\ Finished[Len(Finished)] = sample
      /\ Len(Finished) \in DOMAIN Finished
  <2>1. Finished = Append(batch \o full, sample)
    BY <1>3, <1>4, AppendIsConcat
  <2>2. QED
    BY <1>3, <1>4, <2>1, AppendProperties, LenProperties
<1>6. /\ value[sample].to = Kept
      /\ value[sample].from \in 0..MaxTs /\ value[sample].to \in 0..MaxTs
      /\ value[sample].from < value[sample].to
  BY <1>1, <1>5 DEF IntervalInv, InFlightContiguous, Kept
<1>7. Kept' = Kept
  BY <1>2, KeptStep DEF ParseAll, FillDone, SamplerMoves
<1>8. Produced = value[sample].from /\ Produced' = Kept
  BY <1>2, <1>7 DEF Produced, Kept
<1>9. server' = server
  BY <1>2, PerformStep DEF PerformOk, MainMoves, MainGoto, SendFails,
                           PerformFails
<1>10. Queue' = Append(Queue, sample) /\ BeingSent' = BeingSent
  <2>1. full' = Append(full, sample) /\ batch' = batch /\ mpc' = mpc
    BY DEF AddFull
  <2>2. batch \o Append(full, sample) = Append(batch \o full, sample)
    BY <1>1, <1>3, ConcatLast DEF IndInv, TypeOK
  <2>3. QED
    BY <2>1, <2>2 DEF Queue, BeingSent
<1>11. QED
  BY <1>3, <1>6, <1>8, <1>9, <1>10, DataAssumption

\* Every step of the data layer hands an interval over, begins, repeats or ends
\* a request, or does nothing an observer of the intervals could see.
LEMMA ServiceStep ==
  ASSUME DataIndInv, [DataNext]_<<vars, dataVars>>
  PROVE  [Service!Next]_(Service!vars)
<1> USE DEF mainLocals, MainMoves, MainGoto, MainUnlocks
<1>1. IndInv /\ GrabInv /\ [Next]_vars
  BY StutterIsControl DEF DataIndInv, DataInv
<1>2. /\ batch \in Seq(Samples) /\ full \in Seq(Samples)
      /\ Queue \in Seq(Samples)
      /\ Range(Queue) \subseteq Range(Finished)
      /\ Range(full) \subseteq Range(Finished)
  BY <1>1, QueueItems, FinishedType
<1>3. /\ Waiting = Intervals(Queue, value)
      /\ Waiting' = Intervals(Queue', value')
      /\ Intervals(Queue, value') = Intervals(Queue, value)
      /\ Intervals(full, value') = Intervals(full, value)
  BY <1>2, WaitingIs, IntervalsKept DEF Waiting, Queue, Intervals, Interval
<1>4. CASE AddFull
  <2>1. /\ sample \in Samples /\ Produced' > Produced /\ server' = server
        /\ Queue' = Append(Queue, sample) /\ BeingSent' = BeingSent
        /\ <<value[sample].from, value[sample].to>> = <<Produced, Produced'>>
    BY <1>4, HandOver
  <2>2. <<value'[sample].from, value'[sample].to>> =
          <<value[sample].from, value[sample].to>>
    <3>1. sample \in Range(Finished)
      <4>1. InHand = <<sample>>
        BY <1>4 DEF AddFull, SamplerGoto, InHand
      <4>2. QED
        BY <1>1, <4>1, FinishedType DEF Range
    <3>2. QED
      BY <3>1, ContentsStep
  <2>3. Waiting' = Append(Waiting, <<Produced, Produced'>>)
    BY <1>2, <1>3, <1>4, <2>1, <2>2, IntervalsAdd
  <2>4. Stored' = Stored
    BY <2>1 DEF Stored
  <2>5. QED
    BY <1>4, <2>1, <2>3, <2>4 DEF Service!Next, Service!Produce
<1>5. CASE UnlockGrab /\ full = <<>> /\ batch' = batch /\ full' = full
  <2>1. mpc = "unlock_grab" /\ mpc' = "format" /\ batch # <<>>
    BY <1>1, <1>5 DEF UnlockGrab, GrabInv
  <2>2. Queue = batch /\ Queue' = Queue
    BY <1>2, <1>5, <2>1, ConcatEmptySeq DEF Queue
  <2>3. BeingSent = 0 /\ BeingSent' = Len(batch)
    BY <1>5, <2>1 DEF BeingSent, Sending, Ending
  <2>4. Len(Waiting) = Len(batch) /\ Waiting' = Waiting
    BY <1>2, <1>3, <2>2, IntervalsType
  <2>5. Waiting # <<>>
    BY <1>2, <2>1, <2>4, EmptySeq
  <2>6. Produced' = Produced
    BY <2>1, ProducedStep DEF AddFull
  <2>7. Stored' = Stored
    BY <2>1, PerformStep DEF Stored, PerformOk
  <2>8. QED
    BY <2>3, <2>4, <2>5, <2>6, <2>7 DEF Service!Next, Service!Begin
<1>6. CASE (PerformOk \/ DropRequest) /\ batch' = batch /\ full' = full
  <2>1. mpc \in Sending /\ mpc' = "lock_return"
    BY <1>6 DEF PerformOk, DropRequest, Sending
  <2>2. /\ BeingSent = Len(batch) /\ BeingSent' = 0
        /\ SubSeq(Waiting, BeingSent + 1, Len(Waiting)) =
             Intervals(full, value)
    BY <1>1, <2>1, SentIs DEF BeingSent, Sending, Ending
  <2>3. BeingSent > 0
    BY <1>1, <1>2, <2>1, <2>2 DEF GrabInv
  <2>4. Waiting' = SubSeq(Waiting, BeingSent + 1, Len(Waiting))
    BY <1>3, <1>6, <2>1, <2>2 DEF Queue
  <2>5. Produced' = Produced
    BY <2>1, ProducedStep DEF AddFull, Sending
  <2>6. Service!Settle
    BY <2>2, <2>3, <2>4, <2>5 DEF Service!Settle
  <2>7. CASE PerformOk
    <3>1. Store /\ mpc = "perform"
      BY <2>7, PerformStep DEF SendOk, PerformOk
    <3>2. QED
      BY <2>6, <3>1, StoredStep DEF Service!Next, Service!Acknowledge
  <2>8. CASE DropRequest
    <3>1. server' = server
      BY <2>8, PerformStep DEF DropRequest, PerformOk
    <3>2. QED
      BY <2>6, <3>1 DEF Service!Next, Service!GiveUp, Stored
  <2>9. QED
    BY <1>6, <2>7, <2>8
<1>7. CASE /\ ~ AddFull /\ ~ PerformOk
           /\ Queue' = Queue /\ BeingSent' = BeingSent
  <2>1. Produced' = Produced /\ Waiting' = Waiting
    BY <1>3, <1>7, ProducedStep
  <2>2. CASE SendFails /\ Store
    <3>1. mpc = "perform" /\ mpc \in Sending
      BY <2>2, PerformStep DEF Sending
    <3>2. BeingSent > 0
      BY <1>1, <1>2, <3>1, SentIs DEF GrabInv
    <3>3. Stored' = Stored \cup Service!Sent
      BY <2>2, <3>1, StoredStep
    <3>4. QED
      BY <1>7, <2>1, <3>2, <3>3 DEF Service!Next, Service!Attempt
  <2>3. CASE server' = server
    <3>1. Stored' = Stored
      BY <2>3 DEF Stored
    <3>2. QED
      BY <1>7, <2>1, <3>1 DEF Service!vars
  <2>4. QED
    BY <1>7, <2>2, <2>3, PerformStep DEF SendFails
<1>8. QED
  BY <1>1, <1>4, <1>5, <1>6, <1>7, QueueStep

\* cpumon does what module Delivery promises: intervals are cut without a gap,
\* wait in order, and leave only when they were stored or given up.
THEOREM DeliveryImplemented == DataSpec => ImplementsDelivery
<1>1. DataInit => Service!Init
  <2> SUFFICES ASSUME DataInit PROVE Service!Init
    OBVIOUS
  <2>1. /\ Init /\ last_sample[0] = 0 /\ last_index = 0
        /\ server = [schema |-> FALSE, records |-> {}]
    BY DEF DataInit
  <2>2. /\ spc = "loop" /\ mpc = "sleep" /\ batch = <<>> /\ full = <<>>
    BY <2>1 DEF Init
  <2>3. Queue = <<>>
    BY <2>2 DEF Queue
  <2>4. Waiting = <<>>
    BY <2>3, WaitingIs DEF Intervals
  <2>5. Produced = 0 /\ BeingSent = 0 /\ Stored = {}
    BY <2>1, <2>2 DEF Produced, BeingSent, Stored, Sending, Ending
  <2>6. QED
    BY <2>4, <2>5 DEF Service!Init
<1>2. QED
  BY <1>1, ServiceStep, DataInductiveInvariant, PTL
  DEF DataSpec, ImplementsDelivery, Service!Spec
=============================================================================
