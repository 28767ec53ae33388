------------------------------ MODULE ProcFile ------------------------------
(***************************************************************************)
(* A procfs file and its buffer (procfile.c): opened, read as a whole any  *)
(* number of times, closed.  The file has another length each time it is   *)
(* read; the buffer grows until one read leaves room in it, which is the   *)
(* proof that the read reached the end of the file, and the room is where  *)
(* the terminating zero goes.                                              *)
(***************************************************************************)
EXTENDS Integers

CONSTANTS
  Page,     \* page_size, and the alignment of the buffer: 4096 in the code
  MaxFile   \* the longest the file ever is

ASSUME ProcFileAssumption == Page \in Nat \ {0} /\ MaxFile \in Nat

VARIABLES
  pc,        \* the next step of the call in progress; "none" without a file
  fd,        \* is there an open file descriptor?
  path,      \* is there a copy of the path?
  file,      \* is there a struct procfile?
  size,      \* buffer_size, how much is allocated for the buffer
  required,  \* local variable of read_fully
  length,    \* length of the text in the buffer, -1 before the first
  zero,      \* where the terminating zero is, -1 when there is none
  seen,      \* length of the file at the last read
  last       \* what the last call did

resources == <<fd, path, file>>
text == <<length, zero, seen>>
vars == <<pc, resources, size, required, text, last>>

\* align_pow2(capacity, 12)
Align(capacity) == ((capacity + Page - 1) \div Page) * Page

Goto(from, to) == pc = from /\ pc' = to

\* A read stores n bytes, none of them zero.
Overwrite(n) == zero' = IF zero < n THEN -1 ELSE zero

\* read_fully returns to procfile_open, or to procfile_read_fully.
ReadDone == Goto("read", IF file THEN "terminate" ELSE "construct")

-----------------------------------------------------------------------------
(* Plausible mistakes: each stands in for the definition its comment names. *)

\* ReadAll that takes a full buffer for the whole file.
ReadExact(n) ==
  /\ n <= size
  /\ ReadDone
  /\ length' = IF file THEN n ELSE -1
  /\ seen' = n /\ Overwrite(n)
  /\ UNCHANGED <<resources, size, required, last>>

\* ReadFull that accepts what it has.
ReadTruncated(n) ==
  /\ n >= size
  /\ ReadDone
  /\ length' = IF file THEN size - 1 ELSE -1
  /\ seen' = n /\ Overwrite(size)
  /\ UNCHANGED <<resources, size, required, last>>

\* ReadFull that asks for the same size again.
ReadFullSame(n) ==
  /\ n >= size /\ Goto("read", "seek")
  /\ seen' = n /\ Overwrite(size)
  /\ UNCHANGED <<resources, size, required, length, last>>

\* ConstructFails that goes on at the label below the right one.
ConstructFailsLate ==
  /\ Goto("construct", "fail_read") /\ last' = "no_struct"
  /\ UNCHANGED <<resources, size, required, text>>

-----------------------------------------------------------------------------
(* procfile_open.  Without a descriptor it has nothing to undo.            *)

Open ==
  /\ Goto("none", "copy")
  /\ fd' = TRUE /\ size' = 0
  /\ UNCHANGED <<path, file, required, text, last>>

\* The file is read once, to size the buffer.
CopyPath ==
  /\ Goto("copy", "seek")
  /\ path' = TRUE /\ required' = Page
  /\ UNCHANGED <<fd, file, size, text, last>>
CopyPathFails ==
  /\ Goto("copy", "fail_copy") /\ last' = "no_path"
  /\ UNCHANGED <<resources, size, required, text>>

Construct ==
  /\ Goto("construct", "idle")
  /\ file' = TRUE /\ last' = "open"
  /\ UNCHANGED <<fd, path, size, required, text>>
ConstructFails ==
  /\ Goto("construct", "fail_pfile") /\ last' = "no_struct"
  /\ UNCHANGED <<resources, size, required, text>>

\* The labels at its end.  None of them frees the buffer of a read that failed.
FreeBuffer ==
  /\ Goto("fail_pfile", "fail_read") /\ size' = 0
  /\ UNCHANGED <<resources, required, text, last>>
FreePath ==
  /\ Goto("fail_read", "fail_copy") /\ path' = FALSE
  /\ UNCHANGED <<fd, file, size, required, text, last>>
CloseDescriptor ==
  /\ Goto("fail_copy", "none") /\ fd' = FALSE
  /\ UNCHANGED <<path, file, size, required, text, last>>

-----------------------------------------------------------------------------
(* read_fully                                                              *)

Seek == Goto("seek", "ensure")
        /\ UNCHANGED <<resources, size, required, text, last>>

\* __ensure_capacity
Ensure ==
  /\ Goto("ensure", "read")
  /\ size' = IF size = 0 \/ size < required THEN Align(required) ELSE size
  /\ UNCHANGED <<resources, required, text, last>>

\* The read left room in the buffer: the file of n bytes was read to its end.
ReadAll(n) ==
  /\ n < size
  /\ ReadDone
  /\ length' = IF file THEN n ELSE -1
  /\ seen' = n /\ Overwrite(n)
  /\ UNCHANGED <<resources, size, required, last>>

\* It filled the buffer: the file may be longer; try again with a larger one.
ReadFull(n) ==
  /\ n >= size /\ Goto("read", "seek")
  /\ required' = size + Page
  /\ seen' = n /\ Overwrite(size)
  /\ UNCHANGED <<resources, size, length, last>>

\* lseek, realloc or read fails.  procfile_read_fully keeps the buffer as it is.
ReadFails ==
  /\ pc \in {"seek", "ensure", "read"}
  /\ pc' = IF file THEN "idle" ELSE "fail_read"
  /\ last' = "no_text"
  /\ UNCHANGED <<resources, size, required, text>>

-----------------------------------------------------------------------------
(* procfile_read_fully and procfile_close.                                 *)

BeginRead ==
  /\ fd /\ Goto("idle", "seek")
  /\ required' = Page
  /\ UNCHANGED <<resources, size, text, last>>

\* buffer[length] = '\0'
Terminate ==
  /\ Goto("terminate", "idle")
  /\ zero' = length /\ last' = "text"
  /\ UNCHANGED <<resources, size, required, length, seen>>

\* close fails: the descriptor is gone, and nothing else until the next call.
CloseFails ==
  /\ pc = "idle" /\ fd
  /\ fd' = FALSE /\ last' = "no_close"
  /\ UNCHANGED <<pc, path, file, size, required, text>>

Close ==
  /\ Goto("idle", "none")
  /\ fd' = FALSE /\ path' = FALSE /\ file' = FALSE /\ size' = 0
  /\ length' = -1 /\ zero' = -1 /\ last' = "closed"
  /\ UNCHANGED <<required, seen>>

Init ==
  /\ pc = "none" /\ fd = FALSE /\ path = FALSE /\ file = FALSE
  /\ size = 0 /\ required = 0
  /\ length = -1 /\ zero = -1 /\ seen = 0 /\ last = "closed"

\* The steps that carry on with a call.
CallNext ==
  \/ CopyPath \/ CopyPathFails \/ Construct \/ ConstructFails
  \/ FreeBuffer \/ FreePath \/ CloseDescriptor
  \/ Seek \/ Ensure \/ (\E n \in 0..MaxFile : ReadAll(n) \/ ReadFull(n))
  \/ ReadFails \/ Terminate

Next == Open \/ BeginRead \/ CloseFails \/ Close \/ CallNext

Spec == Init /\ [][Next]_vars

\* A call that was begun is carried on with.
FairSpec == Spec /\ WF_vars(CallNext)

-----------------------------------------------------------------------------
(* Properties.                                                             *)

\* The terminating zero is stored inside the buffer.
TerminatorFits == pc = "terminate" => length >= 0 /\ length < size

\* After a call that succeeded the buffer holds a string, and it is the whole
\* file as it was at one moment: nothing of what was read before the buffer was
\* large enough, or at an earlier call that failed halfway.
WholeFile == pc = "idle" /\ last = "text" => zero = length /\ length = seen

\* When procfile_open fails, and after procfile_close, everything is released
\* that was acquired, with one exception: the buffer of a first read that
\* failed.  As long as there is a structure, its path and its buffer are there
\* too, and its descriptor until it is closed.
Released ==
  /\ pc = "none" => ~ fd /\ ~ path /\ ~ file /\ (size > 0 => last = "no_text")
  /\ file => path /\ size > 0 /\ (~ fd => pc = "idle" /\ last = "no_close")

\* However the file changes between two reads, read_fully returns.
ReadReturns == (pc = "seek") ~> (pc \in {"idle", "none"})
=============================================================================
