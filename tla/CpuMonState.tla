---------------------------- MODULE CpuMonState ----------------------------
(***************************************************************************)
(* State of the cpumon program while its two threads run (cpumon.c): the   *)
(* sampler thread, cpumon_main, and the main thread, the loop at the end   *)
(* of main.  They exchange a fixed pool of sample structures through two   *)
(* lists guarded by samples_mutex.                                         *)
(*                                                                         *)
(* The contents of a sample are left to module CpuMonData; here a sample   *)
(* is only a structure that somebody owns.                                 *)
(***************************************************************************)
EXTENDS Integers, Sequences, FiniteSets, Functions

CONSTANTS
  Samples,        \* the sample structures allocated by main
  EmptyMin,       \* cpumon_dump_empty_min: drop a failing request at or below
  RetrySecs,      \* cpumon_dump_retry_secs: pause between two attempts
  CheckSecs,      \* cpumon_dump_check_secs: how often the pool is looked at
  FormatCanFail,  \* may fivis_signals_format_request answer NULL?
  NULL            \* the null pointer

ASSUME SamplesAssumption == /\ IsFiniteSet(Samples)
                            /\ Samples # {}
                            /\ NULL \notin Samples
ASSUME EmptyMinAssumption == EmptyMin \in Nat
ASSUME PeriodAssumption == /\ RetrySecs \in Nat \ {0}
                           /\ CheckSecs \in Nat \ {0}
ASSUME FormatAssumption == FormatCanFail \in BOOLEAN

VARIABLES
  spc,          \* where the sampler thread is
  sample,       \* local variable of cpumon_main: the structure being filled
  mpc,          \* where the main thread is
  batch,        \* next_value_state.samples: the structures being sent
  retry_delay,  \* local variable of main
  empty_count,  \* local variable of main
  mutex,        \* samples_mutex: the thread holding it, or "free"
  empty,        \* empty_samples, in list order
  full,         \* full_samples, in list order
  stop          \* cpumon_stop

samplerLocals == <<spc, sample>>
mainLocals == <<mpc, batch, retry_delay, empty_count>>
lists == <<empty, full>>
vars == <<spc, sample, mpc, batch, retry_delay, empty_count, mutex, empty,
          full, stop>>

SamplerPCs ==
  {"loop", "snapshot", "lock_empty", "test_empty", "waiting", "woken",
   "test_stop", "unlock_empty", "fill", "lock_full", "add_full",
   "unlock_full", "done"}

MainPCs ==
  {"sleep", "lock_grab", "test_full", "grab", "unlock_grab", "format",
   "perform", "retry", "lock_count", "count", "unlock_count", "decide",
   "lock_return", "return", "signal", "unlock_idle", "set_stop",
   "signal_stop", "join", "cleanup", "done"}

-----------------------------------------------------------------------------
(* The synchronisation primitives of checked.h.                            *)

\* checked_mutex_lock returns once the mutex is free and takes it.
MutexLock(thread) == mutex = "free" /\ mutex' = thread

\* checked_mutex_unlock.
MutexUnlock == mutex' = "free"

\* checked_cond_signal wakes the sampler, the only thread that ever waits; the
\* signal is lost when it is not waiting.
CondSignal == spc' = IF spc = "waiting" THEN "woken" ELSE spc

-----------------------------------------------------------------------------
(* The steps of one thread that touch nothing but its program counter and  *)
(* the mutex.                                                              *)

SamplerGoto(from, to) == spc = from /\ spc' = to
SamplerMoves(from, to) ==
  /\ SamplerGoto(from, to)
  /\ UNCHANGED <<sample, mainLocals, mutex, lists, stop>>
SamplerLocks(from, to) ==
  /\ SamplerGoto(from, to)
  /\ MutexLock("cpumon")
  /\ UNCHANGED <<sample, mainLocals, lists, stop>>
SamplerUnlocks(from, to) ==
  /\ SamplerGoto(from, to)
  /\ MutexUnlock
  /\ UNCHANGED <<sample, mainLocals, lists, stop>>

MainGoto(from, to) == mpc = from /\ mpc' = to
MainMoves(from, to) ==
  /\ MainGoto(from, to)
  /\ UNCHANGED <<samplerLocals, batch, retry_delay, empty_count, mutex, lists,
                 stop>>
MainLocks(from, to) ==
  /\ MainGoto(from, to)
  /\ MutexLock("main")
  /\ UNCHANGED <<samplerLocals, batch, retry_delay, empty_count, lists, stop>>
MainUnlocks(from, to) ==
  /\ MainGoto(from, to)
  /\ MutexUnlock
  /\ UNCHANGED <<samplerLocals, batch, retry_delay, empty_count, lists, stop>>
=============================================================================
