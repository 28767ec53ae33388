---------------------------- MODULE MCCpuMonData ----------------------------
(* Small instances of CpuMonData for TLC.                                  *)
EXTENDS CpuMonData, TLC

\* The sample structures are interchangeable.
DataSymmetry == Permutations(Samples)

\* Two CPUs with two counters: the first counter of the first CPU wraps around
\* 32 at time 3, its second one is set back at that time, and the second CPU has
\* no ticks from time 1 to time 2.
MCCounters ==
  [ts \in 0..MaxTs |->
     CASE ts = 0 -> <<<<0, 0>>, <<0, 0>>>>
       [] ts = 1 -> <<<<25, 2>>, <<2, 7>>>>
       [] ts = 2 -> <<<<28, 5>>, <<2, 7>>>>
       [] ts = 3 -> <<<<34, 4>>, <<4, 9>>>>
       [] ts = 4 -> <<<<36, 9>>, <<6, 9>>>>
       [] OTHER -> <<<<40, 12>>, <<9, 10>>>>]
=============================================================================
