--------------------------- MODULE ProcFileProofs ---------------------------
(***************************************************************************)
(* Theorems about ProcFile for every page size and every file.             *)
(***************************************************************************)
EXTENDS ProcFile, TLAPS

\* align_pow2 rounds up: to a size that is at least the one asked for.
LEMMA AlignUp ==
  ASSUME NEW v \in Nat PROVE Align(v) \in Nat /\ Align(v) >= v
<1> DEFINE a == v + Page - 1
           q == a \div Page
<1>1. Page \in Nat /\ Page > 0 /\ a \in Nat
  BY ProcFileAssumption
<1>2. q \in Nat /\ a = Page * q + (a % Page) /\ a % Page \in 0..(Page - 1)
  BY <1>1
<1>3. q * Page = Page * q /\ q * Page \in Nat
  BY <1>1, <1>2
<1>4. QED
  BY <1>1, <1>2, <1>3 DEF Align

-----------------------------------------------------------------------------
(* The inductive invariant.                                                *)

\* The steps of read_fully, of a failing procfile_open, and all there are.
Reading == {"seek", "ensure", "read"}
Undoing == {"fail_pfile", "fail_read", "fail_copy"}
Steps == {"none", "copy", "construct", "idle", "terminate"} \cup Reading
           \cup Undoing

TypeInv == /\ pc \in Steps
           /\ size \in Nat /\ required \in Nat
           /\ length \in Int /\ zero \in Int /\ seen \in Nat
FlagInv == fd \in BOOLEAN /\ path \in BOOLEAN /\ file \in BOOLEAN

\* What there is at each step: the descriptor comes first and goes last, the
\* structure comes last.
StepInv ==
  /\ pc = "none" => ~ fd
  /\ pc \in Steps \ {"none", "idle"} => fd
  /\ pc = "idle" /\ ~ fd => last = "no_close"
  /\ pc \in {"none", "copy", "fail_copy"} => ~ path
  /\ pc \in Steps \ {"none", "copy", "fail_copy"} => path
  /\ pc \in {"idle", "terminate"} => file
  /\ pc \in {"none", "copy", "construct"} \cup Undoing => ~ file

\* The buffer is there as soon as it was sized, and a failing call leaves it
\* only when its first read failed.
BufferInv ==
  /\ pc \in Reading => required > 0
  /\ file \/ pc \in {"read", "construct"} => size > 0
  /\ pc = "copy" => size = 0
  /\ pc \in {"none", "fail_read", "fail_copy"} /\ size > 0 => last = "no_text"

\* A text is terminated where the last read ended.
TextInv ==
  /\ pc = "terminate" => length >= 0 /\ length < size /\ length = seen
  /\ WholeFile

CallInv == TypeInv /\ StepInv /\ BufferInv /\ TextInv
IndInv == FlagInv /\ CallInv

\* There is no file at the beginning.
LEMMA InitInv == Init => IndInv
<1>1. Init => FlagInv
  BY DEF Init, FlagInv
<1>2. Init => CallInv
  BY DEF Init, CallInv, TypeInv, StepInv, BufferInv, TextInv, WholeFile, Steps,
         Reading, Undoing
<1>3. QED
  BY <1>1, <1>2 DEF IndInv

\* What there is stays a yes or a no.
LEMMA FlagStep == FlagInv /\ [Next]_vars => FlagInv'
  BY DEF FlagInv, vars, resources, Next, CallNext, Open, CopyPath,
         CopyPathFails, Construct, ConstructFails, FreeBuffer, FreePath,
         CloseDescriptor, Seek, Ensure, ReadAll, ReadFull, ReadFails,
         BeginRead, Terminate, CloseFails, Close

\* Each step of the calls keeps the parts that depend on where they are.
LEMMA CallStep ==
  ASSUME CallInv, [Next]_vars PROVE CallInv'
<1> USE ProcFileAssumption
<1> USE DEF CallInv, TypeInv, StepInv, BufferInv, TextInv, WholeFile, Steps,
            Reading, Undoing, Goto, resources, text
<1>1. CASE Open
  BY <1>1 DEF Open
<1>2. CASE CopyPath \/ CopyPathFails
  BY <1>2 DEF CopyPath, CopyPathFails
<1>3. CASE Construct \/ ConstructFails
  BY <1>3 DEF Construct, ConstructFails
<1>4. CASE FreeBuffer \/ FreePath \/ CloseDescriptor
  BY <1>4 DEF FreeBuffer, FreePath, CloseDescriptor
<1>5. CASE Seek
  BY <1>5 DEF Seek
<1>6. CASE Ensure
  <2>1. Align(required) \in Nat /\ Align(required) >= required
    BY AlignUp
  <2>2. size' \in Nat /\ size' > 0
    BY <1>6, <2>1 DEF Ensure
  <2>3. QED
    BY <1>6, <2>2 DEF Ensure
<1>7. ASSUME NEW n \in 0..MaxFile, ReadAll(n) PROVE CallInv'
  BY <1>7 DEF ReadAll, ReadDone, Overwrite
<1>8. ASSUME NEW n \in 0..MaxFile, ReadFull(n) PROVE CallInv'
  BY <1>8 DEF ReadFull, Overwrite
<1>9. CASE ReadFails
  BY <1>9 DEF ReadFails
<1>10. CASE BeginRead
  BY <1>10 DEF BeginRead
<1>11. CASE Terminate
  BY <1>11 DEF Terminate
<1>12. CASE CloseFails \/ Close
  BY <1>12 DEF CloseFails, Close
<1>13. CASE UNCHANGED vars
  BY <1>13 DEF vars
<1>14. QED
  BY <1>1, <1>2, <1>3, <1>4, <1>5, <1>6, <1>7, <1>8, <1>9, <1>10, <1>11,
     <1>12, <1>13
  DEF Next, CallNext

\* Whatever fails and whatever the file does between two reads, all parts of the
\* invariant are kept.
THEOREM InductiveInvariant == Spec => []IndInv
<1>1. IndInv /\ [Next]_vars => IndInv'
  BY FlagStep, CallStep DEF IndInv
<1>2. QED
  BY <1>1, InitInv, PTL DEF Spec

-----------------------------------------------------------------------------
(* The results.                                                            *)

\* The zero that ends the text never falls outside of the buffer.
THEOREM TerminatorInside == Spec => []TerminatorFits
<1>1. IndInv => TerminatorFits
  BY DEF IndInv, CallInv, TextInv, TerminatorFits
<1>2. QED
  BY <1>1, InductiveInvariant, PTL

\* After a read that succeeded the buffer is the file as it was at one moment.
THEOREM TextIsWhole == Spec => []WholeFile
<1>1. IndInv => WholeFile
  BY DEF IndInv, CallInv, TextInv
<1>2. QED
  BY <1>1, InductiveInvariant, PTL

\* Nothing stays behind when there is no file, but for the buffer of a first
\* read that failed, and an open file has all it needs.
THEOREM AllReleased == Spec => []Released
<1>1. IndInv => Released
  BY DEF IndInv, CallInv, TypeInv, StepInv, BufferInv, Released, Steps, Reading,
         Undoing
<1>2. QED
  BY <1>1, InductiveInvariant, PTL
=============================================================================
