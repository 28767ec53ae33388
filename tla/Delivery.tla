------------------------------ MODULE Delivery ------------------------------
(***************************************************************************)
(* What cpumon promises about the readings it takes.  The CPU times are    *)
(* cut into intervals that follow each other without gap or overlap.  Each *)
(* interval waits in turn, is sent together with the others that waited,   *)
(* any number of times, and leaves when the server has it or when it is    *)
(* given up; nothing else makes an interval disappear.                     *)
(***************************************************************************)
EXTENDS Naturals, Sequences

VARIABLES
  produced,   \* the time up to which intervals were cut
  pending,    \* the intervals that wait or are being sent, in order
  sending,    \* how many of them, from the first, are being sent
  delivered   \* the intervals the server has

vars == <<produced, pending, sending, delivered>>

Sent == {pending[i] : i \in 1..sending}

Init == produced = 0 /\ pending = <<>> /\ sending = 0 /\ delivered = {}

\* A reading closes an interval that starts where the last one ended.
Produce ==
  /\ produced' > produced
  /\ pending' = Append(pending, <<produced, produced'>>)
  /\ UNCHANGED <<sending, delivered>>

\* Everything that waits is sent in one request.
Begin ==
  /\ sending = 0 /\ pending # <<>>
  /\ sending' = Len(pending)
  /\ UNCHANGED <<produced, pending, delivered>>

\* The server stores the request, and the client may never hear of it.
Attempt ==
  /\ sending > 0
  /\ delivered' = delivered \cup Sent
  /\ UNCHANGED <<produced, pending, sending>>

\* The request is done with, delivered or given up.
Settle ==
  /\ sending > 0
  /\ pending' = SubSeq(pending, sending + 1, Len(pending))
  /\ sending' = 0
  /\ UNCHANGED produced

Acknowledge == Settle /\ delivered' = delivered \cup Sent
GiveUp == Settle /\ UNCHANGED delivered

Next == Produce \/ Begin \/ Attempt \/ Acknowledge \/ GiveUp

Spec == Init /\ [][Next]_vars
=============================================================================
