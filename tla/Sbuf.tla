-------------------------------- MODULE Sbuf --------------------------------
(***************************************************************************)
(* The growable string buffer of sbuf.c.  The text is abstracted to its    *)
(* length: what vsnprintf writes, how much of it fits, and whether the     *)
(* terminating zero stands where the structure says the string ends.       *)
(*                                                                         *)
(* sbuf_vformat is a loop around vsnprintf and realloc, either of which    *)
(* can fail; every other function is a single step.                        *)
(***************************************************************************)
EXTENDS Integers

CONSTANTS
  Block,      \* alignment of the buffer: 64 in the code
  MaxLength,  \* longest text one call formats
  MaxNext,    \* no call starts beyond this offset
  AllocFails  \* may realloc answer NULL?

ASSUME SbufAssumption == /\ Block \in Nat \ {0}
                         /\ MaxLength \in Nat /\ MaxNext \in Nat
                         /\ AllocFails \in BOOLEAN

VARIABLES
  size,    \* capacity; data is NULL exactly when it is 0
  next,    \* offset of the next available byte, the length of the string
  strlen,  \* offset of the first zero byte in data
  pc,      \* where a call of sbuf_vformat is
  length,  \* bytes the format expands to, as reported by vsnprintf
  result   \* what the last call returned: "data", "NULL", or "none" so far

vars == <<size, next, strlen, pc, length, result>>
content == <<size, next, strlen>>

\* align_pow2: up to a multiple of the block.
Align(value) == ((value + Block - 1) \div Block) * Block

\* __sbuf_remaining
Remaining == size - next

-----------------------------------------------------------------------------
(* Plausible mistakes: each stands in for the definition its comment names. *)

\* Fits that forgets the terminating zero.
FitsExactly == length <= Remaining

\* Grow that makes room for the text without the zero.
GrowShort ==
  /\ pc = "grow"
  /\ size' = Align(next + length)
  /\ pc' = "print"
  /\ UNCHANGED <<next, strlen, length, result>>

\* GrowFails that drops the old buffer.
GrowFailsLoses ==
  /\ AllocFails
  /\ pc = "grow"
  /\ pc' = "print" /\ size' = 0
  /\ UNCHANGED <<next, strlen, length, result>>

-----------------------------------------------------------------------------
(* sbuf_vformat, which sbuf_format, sbuf_append, sbuf_set and format_string *)
(* are made of.                                                            *)

\* A call with a format that expands to n bytes.
Format(n) ==
  /\ pc = "idle" /\ next <= MaxNext
  /\ pc' = "print" /\ length' = n /\ result' = "none"
  /\ UNCHANGED content

\* The text and its terminating zero fit.
Fits == length < Remaining

\* vsnprintf wrote everything.
PrintAll ==
  /\ pc = "print" /\ Fits
  /\ next' = next + length /\ strlen' = next + length
  /\ pc' = "idle" /\ result' = "data"
  /\ UNCHANGED <<size, length>>

\* vsnprintf wrote as much as there was room for, with a zero at the end.
PrintPart ==
  /\ pc = "print" /\ ~ Fits
  /\ strlen' = IF Remaining = 0 THEN strlen ELSE size - 1
  /\ pc' = "grow"
  /\ UNCHANGED <<size, next, length, result>>

\* vsnprintf answers a negative value; what it wrote is unspecified.
PrintFails ==
  /\ pc = "print"
  /\ strlen' \in IF Remaining = 0 THEN {strlen} ELSE next..(size - 1)
  /\ pc' = "idle" /\ result' = "NULL"
  /\ UNCHANGED <<size, next, length>>

\* __sbuf_ensure_capacity(sb, length + 1), then another attempt.
Grow ==
  /\ pc = "grow"
  /\ size' = Align(next + length + 1)
  /\ pc' = "print"
  /\ UNCHANGED <<next, strlen, length, result>>

\* realloc fails and keeps the old buffer; its result is not looked at.
GrowFails ==
  /\ AllocFails
  /\ pc = "grow"
  /\ pc' = "print"
  /\ UNCHANGED <<content, length, result>>

-----------------------------------------------------------------------------
(* The other functions.                                                    *)

\* sbuf_clear
Clear ==
  /\ pc = "idle"
  /\ next' = 0
  /\ strlen' = 0
  /\ UNCHANGED <<size, pc, length, result>>

\* sbuf_destroy
Destroy ==
  /\ pc = "idle"
  /\ size' = 0 /\ next' = 0 /\ strlen' = 0
  /\ UNCHANGED <<pc, length, result>>

Init == /\ size = 0 /\ next = 0 /\ strlen = 0
        /\ pc = "idle" /\ length = 0 /\ result = "none"

VFormatStep == PrintAll \/ PrintPart \/ PrintFails \/ Grow \/ GrowFails

Next == (\E n \in 0..MaxLength : Format(n)) \/ VFormatStep \/ Clear \/ Destroy

Spec == Init /\ [][Next]_vars

\* The loop of sbuf_vformat is ordinary code: it goes on while it can.
FairSpec == Spec /\ WF_vars(VFormatStep)

-----------------------------------------------------------------------------
(* Properties.                                                             *)

\* A string is never longer than what was asked for.
TypeOK ==
  /\ size \in Nat /\ next \in 0..(MaxNext + MaxLength) /\ strlen \in Nat
  /\ pc \in {"idle", "print", "grow"}
  /\ length \in 0..MaxLength
  /\ result \in {"data", "NULL", "none"}

\* The space left never wraps around below zero: the offset stays inside the
\* buffer in the middle of the loop, and after any failure.
WithinBuffer == next <= size /\ strlen <= size

\* After every successful call the C string in the buffer is as long as
\* sbuf_length says, with its zero inside the buffer, whatever failed before.
Terminated ==
  pc = "idle" /\ result = "data" =>
    strlen = next /\ (next < size \/ (size = 0 /\ next = 0))

\* One reallocation is enough: the attempt after it finds room for everything.
GrowsEnough ==
  [][pc = "grow" /\ size' # size => length < size' - next]_vars

\* The comments on sbuf_format and sbuf_append: the call returns, with the
\* contents of the buffer or with NULL.
FormatReturns == (pc = "print") ~> (pc = "idle")
=============================================================================
