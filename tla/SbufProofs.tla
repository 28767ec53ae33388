----------------------------- MODULE SbufProofs -----------------------------
(***************************************************************************)
(* Theorems about Sbuf for every block size and every bound.               *)
(***************************************************************************)
EXTENDS Sbuf, TLAPS

\* align_pow2 rounds up: to a size that is at least the one asked for.
LEMMA AlignUp ==
  ASSUME NEW v \in Nat PROVE Align(v) \in Nat /\ Align(v) >= v
<1> DEFINE a == v + Block - 1
           q == a \div Block
<1>1. Block \in Nat /\ Block > 0 /\ a \in Nat
  BY SbufAssumption
<1>2. q \in Nat /\ a = Block * q + (a % Block) /\ a % Block \in 0..(Block - 1)
  BY <1>1
<1>3. q * Block = Block * q /\ q * Block \in Nat
  BY <1>1, <1>2
<1>4. QED
  BY <1>1, <1>2, <1>3 DEF Align

-----------------------------------------------------------------------------
(* The inductive invariant.                                                *)

\* A call starts at an offset of at most MaxNext, and asks for more memory only
\* when the text did not fit.
CallInv == /\ pc # "idle" => next <= MaxNext
           /\ pc = "grow" => ~ Fits

IndInv == TypeOK /\ WithinBuffer /\ Terminated /\ CallInv

\* The buffer is empty at the beginning.
LEMMA InitInv == Init => IndInv
  BY SbufAssumption
  DEF Init, IndInv, TypeOK, WithinBuffer, Terminated, CallInv

\* Every step keeps the offsets inside.
LEMMA StepInv == IndInv /\ [Next]_vars => IndInv'
<1> SUFFICES ASSUME IndInv, [Next]_vars PROVE IndInv'
  OBVIOUS
<1> USE SbufAssumption
<1> USE DEF IndInv, TypeOK, WithinBuffer, Terminated, CallInv, Fits, Remaining,
            content
<1>1. ASSUME NEW n \in 0..MaxLength, Format(n) PROVE IndInv'
  BY <1>1 DEF Format
<1>2. CASE PrintAll
  BY <1>2 DEF PrintAll
<1>3. CASE PrintPart
  BY <1>3 DEF PrintPart
<1>4. CASE PrintFails
  BY <1>4 DEF PrintFails
<1>5. CASE Grow
  <2>1. Align(next + length + 1) \in Nat
        /\ Align(next + length + 1) >= next + length + 1
    BY AlignUp
  <2>2. QED
    BY <1>5, <2>1 DEF Grow
<1>6. CASE GrowFails
  BY <1>6 DEF GrowFails
<1>7. CASE Clear
  BY <1>7 DEF Clear
<1>8. CASE Destroy
  BY <1>8 DEF Destroy
<1>9. CASE UNCHANGED vars
  BY <1>9 DEF vars
<1>10. QED
  BY <1>1, <1>2, <1>3, <1>4, <1>5, <1>6, <1>7, <1>8, <1>9
  DEF Next, VFormatStep

\* Whatever fails, the invariant holds at every step.
LEMMA InductiveInvariant == Spec => []IndInv
  BY InitInv, StepInv, PTL DEF Spec

-----------------------------------------------------------------------------
\* Whatever vsnprintf and realloc answer, the offset stays inside the buffer.
THEOREM StaysWithinBuffer == Spec => []WithinBuffer
<1>1. IndInv => WithinBuffer
  BY DEF IndInv
<1>2. QED
  BY <1>1, InductiveInvariant, PTL

\* After a successful call the string in the buffer is as long as it is said to
\* be, also when earlier calls failed half way.
THEOREM StringTerminated == Spec => []Terminated
<1>1. IndInv => Terminated
  BY DEF IndInv
<1>2. QED
  BY <1>1, InductiveInvariant, PTL

\* One reallocation makes enough room, for any alignment of the buffer.
THEOREM OneGrowthSuffices == Spec => GrowsEnough
<1> DEFINE Enough == pc = "grow" /\ size' # size => length < size' - next
<1>1. IndInv /\ [Next]_vars => [Enough]_vars
  <2> SUFFICES ASSUME IndInv, [Next]_vars, pc = "grow", size' # size
               PROVE  length < size' - next
    OBVIOUS
  <2>1. Grow
    BY DEF Next, VFormatStep, Format, PrintAll, PrintPart, PrintFails,
           GrowFails, Clear, Destroy, vars, content
  <2>2. size' = Align(next + length + 1)
    BY <2>1 DEF Grow
  <2>3. next \in Nat /\ length \in Nat
    BY SbufAssumption DEF IndInv, TypeOK
  <2>4. QED
    BY <2>2, <2>3, AlignUp
<1>2. QED
  BY <1>1, InductiveInvariant, PTL DEF Spec, GrowsEnough
=============================================================================
