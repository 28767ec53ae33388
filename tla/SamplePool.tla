----------------------------- MODULE SamplePool -----------------------------
(***************************************************************************)
(* What cpumon promises about its sample structures: a structure is in one *)
(* place at a time and moves around a single cycle, from the empty list to *)
(* the sampler, to the full list, to the main thread and back.  The        *)
(* sampler has at most one of them.                                        *)
(***************************************************************************)
CONSTANT Samples

VARIABLE place

Places == {"empty", "sampler", "full", "main"}

Move(s, from, to) == place[s] = from /\ place' = [place EXCEPT ![s] = to]

\* The sampler takes an empty structure when it has none to fill.
Acquire(s) ==
  /\ \A t \in Samples : place[t] # "sampler"
  /\ Move(s, "empty", "sampler")

Publish(s) == Move(s, "sampler", "full")
Grab(s) == Move(s, "full", "main")
Release(s) == Move(s, "main", "empty")

Init == place = [s \in Samples |-> "empty"]

Next == \E s \in Samples : Acquire(s) \/ Publish(s) \/ Grab(s) \/ Release(s)

Spec == Init /\ [][Next]_place
=============================================================================
