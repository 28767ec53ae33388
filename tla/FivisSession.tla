---------------------------- MODULE FivisSession ----------------------------
(***************************************************************************)
(* The two programs as users of the library, from the start of main to its *)
(* exit: mksigset makes one request with a schema and no data; cpumon      *)
(* sends one batch after the other, each as often as it takes or until it  *)
(* is dropped, with the schema until a request was answered with success.  *)
(* One buffer holds every request, and libcurl has a pointer to it.        *)
(***************************************************************************)
EXTENDS FivisContext, RequestFormat

CONSTANT FormatCanFail   \* can the formatting of a request answer NULL?

ASSUME SessionAssumption == FormatCanFail \in BOOLEAN

VARIABLES
  program,      \* which of the two programs it is
  main,         \* where its main is
  library,      \* "none", or libcurl "up" or "down" again
  handler,      \* is fivis_global_cleanup registered with atexit?
  request,      \* the buffer of the sbuf request: "none", "live" or "freed"
  unanswered,   \* schema of cpumon is not NULL: no answer was OK yet
  exit_code     \* "none", EXIT_SUCCESS or EXIT_FAILURE

programVars == <<program, library, handler, unanswered, exit_code>>
sessionVars == <<programVars, main, request>>
vars == <<contextVars, formatVars, sessionVars>>

MainGoto(from, to) == main = from /\ main' = to

Exit(from, code) ==
  /\ MainGoto(from, "exit")
  /\ exit_code' = code
  /\ UNCHANGED <<program, library, handler, request, unanswered>>

-----------------------------------------------------------------------------
(* Plausible mistakes: each stands in for the definition its comment names. *)

\* ClearBuffer that is forgotten.
KeepBuffer == UNCHANGED <<output, request, fields>>

\* Answered that looks for the one error it knows.
AnsweredUnlessRefused == result # "ERR_REQUEST"

-----------------------------------------------------------------------------
(* checked_global_init and the start of main.                              *)

GlobalInit ==
  /\ MainGoto("global_init", "atexit")
  /\ library' = "up"
  /\ UNCHANGED <<contextVars, formatVars, program, handler, request, unanswered,
                 exit_code>>
GlobalInitFails ==
  /\ Exit("global_init", "failure")
  /\ Report
  /\ UNCHANGED <<call, initVars, requestVars, formatVars>>

RegisterHandler ==
  /\ MainGoto("atexit", "fivis_init")
  /\ handler' = TRUE
  /\ UNCHANGED <<contextVars, formatVars, program, library, request, unanswered,
                 exit_code>>
RegisterFails ==
  /\ Exit("atexit", "failure")
  /\ UNCHANGED <<contextVars, formatVars>>

\* fivis_init, a step of it or its return.
InitStep ==
  /\ main = "fivis_init" /\ InitNext
  /\ UNCHANGED <<formatVars, sessionVars>>
InitSucceeds ==
  /\ call = "open"
  /\ MainGoto("fivis_init", IF program = "cpumon" THEN "proc_stat" ELSE "make")
  /\ UNCHANGED <<contextVars, formatVars, programVars, request>>
InitFails ==
  /\ call = "failed" /\ Exit("fivis_init", "failure")
  /\ UNCHANGED <<contextVars, formatVars>>

-----------------------------------------------------------------------------
(* The setup of cpumon, between the context and the loop.                  *)

Setup(from, to) ==
  /\ MainGoto(from, to)
  /\ UNCHANGED <<contextVars, formatVars, programVars, request>>

\* /proc/stat is opened and read, names are made for its columns, memory is
\* allocated for the samples, and the sampler is started.
OpenProcStat == Setup("proc_stat", "signals")
NameSignals == Setup("signals", "samples")
AllocateSamples == Setup("samples", "sampler")
StartSampler == Setup("sampler", "batch")

\* A step of the setup fails: /proc/stat by a test of main, the others, which
\* want memory or a thread, by a check that ends the program where it is.
ProcStatFails ==
  /\ Exit("proc_stat", "failure")
  /\ UNCHANGED <<contextVars, formatVars>>
CheckFails ==
  /\ \E place \in {"signals", "samples", "sampler"} : Exit(place, "failure")
  /\ UNCHANGED <<contextVars, formatVars>>

SetupStep ==
  \/ OpenProcStat \/ NameSignals \/ AllocateSamples \/ StartSampler
  \/ ProcStatFails \/ CheckFails

-----------------------------------------------------------------------------
(* A request.                                                              *)

\* sbuf_clear: the text of the last request is gone.  The buffer may move when
\* the next one is formatted, and what libcurl was given is freed.
ClearBuffer ==
  /\ output' = <<>> /\ request' = "live"
  /\ fields' = IF fields = "none" THEN "none" ELSE "freed"

\* make_request of mksigset.
MakeRequest ==
  /\ MainGoto("make", "format")
  /\ BeginFormat(0, FALSE, TRUE)
  /\ request' = "live"
  /\ UNCHANGED <<contextVars, output, programVars>>

\* cpumon has grabbed full samples.
GrabBatch(n) ==
  /\ MainGoto("batch", "format")
  /\ BeginFormat(n, TRUE, unanswered)
  /\ ClearBuffer
  /\ UNCHANGED <<call, initVars, reported, size, post_size, result, stored,
                 programVars>>

FormatStep ==
  /\ main = "format" /\ FormatNext
  /\ UNCHANGED <<contextVars, sessionVars>>

\* The request is formatted and performed, with the length of the buffer.
PerformRequest ==
  /\ step = "done"
  /\ MainGoto("format", "perform")
  /\ Request(SumFunction([i \in DOMAIN output |-> Pieces(output[i])]))
  /\ UNCHANGED <<formatVars, programVars, request>>

\* It could not be formatted: mksigset fails, cpumon breaks its loop and ends.
FormatFails ==
  /\ FormatCanFail /\ step = "done"
  /\ MainGoto("format", IF program = "cpumon" THEN "destroy" ELSE "unmade")
  /\ UNCHANGED <<contextVars, formatVars, programVars, request>>

RequestStep ==
  /\ main = "perform" /\ RequestNext
  /\ UNCHANGED <<formatVars, sessionVars>>

\* Both programs compare the result with FIVIS_OK.
Answered == result = "OK"

\* fivis_signals_perform_request has returned.
Returned == main = "perform" /\ call = "open"

\* mksigset destroys the buffer on success only.
RequestMade ==
  /\ Returned /\ program = "mksigset"
  /\ main' = IF Answered THEN "made" ELSE "unmade"
  /\ request' = IF Answered THEN "freed" ELSE request
  /\ fields' = IF Answered THEN "freed" ELSE fields
  /\ UNCHANGED <<call, initVars, reported, size, post_size, result, stored,
                 formatVars, programVars>>

\* cpumon leaves out the schema from now on.
BatchSent ==
  /\ Returned /\ program = "cpumon" /\ Answered
  /\ main' = "batch" /\ unanswered' = FALSE
  /\ UNCHANGED <<contextVars, formatVars, program, library, handler, request,
                 exit_code>>

\* The same text is sent again after a pause, or the batch is dropped.
SendAgain ==
  /\ Returned /\ program = "cpumon" /\ ~ Answered
  /\ Request(size)
  /\ UNCHANGED <<formatVars, sessionVars>>
BatchDropped ==
  /\ Returned /\ program = "cpumon" /\ ~ Answered
  /\ main' = "batch"
  /\ UNCHANGED <<contextVars, formatVars, programVars, request>>

-----------------------------------------------------------------------------
(* The end of both programs.                                               *)

\* cpumon destroys the buffer before it cleans up.
DestroyRequest ==
  /\ MainGoto("destroy", "ended")
  /\ request' = "freed"
  /\ fields' = IF fields = "none" THEN "none" ELSE "freed"
  /\ UNCHANGED <<call, initVars, reported, size, post_size, result, stored,
                 formatVars, programVars>>

CleanupStep ==
  /\ main \in {"made", "unmade", "ended"} /\ Cleanup
  /\ UNCHANGED <<formatVars, sessionVars>>

\* The code tells whether mksigset made its request; cpumon always succeeds.
ExitAfterCleanup ==
  /\ call = "closed"
  /\ \/ Exit("made", "success") \/ Exit("unmade", "failure")
     \/ Exit("ended", "success")
  /\ UNCHANGED <<contextVars, formatVars>>

\* fivis_global_cleanup, if it was registered.
RunHandlers ==
  /\ MainGoto("exit", "exited")
  /\ library' = IF handler THEN "down" ELSE library
  /\ UNCHANGED <<contextVars, formatVars, program, handler, request, unanswered,
                 exit_code>>

Init ==
  /\ program \in {"mksigset", "cpumon"} /\ main = "global_init"
  /\ library = "none" /\ handler = FALSE /\ request = "none"
  /\ unanswered = TRUE /\ exit_code = "none"
  /\ ContextInit /\ FormatInit(program)

Next ==
  \/ GlobalInit \/ GlobalInitFails \/ RegisterHandler \/ RegisterFails
  \/ InitStep \/ InitSucceeds \/ InitFails \/ SetupStep
  \/ MakeRequest \/ (\E n \in 1..MaxBatch : GrabBatch(n))
  \/ FormatStep \/ PerformRequest \/ FormatFails \/ RequestStep
  \/ RequestMade \/ BatchSent \/ SendAgain \/ BatchDropped
  \/ DestroyRequest \/ CleanupStep \/ ExitAfterCleanup \/ RunHandlers

Spec == Init /\ [][Next]_vars

-----------------------------------------------------------------------------
(* Properties.                                                             *)

\* Whichever step of fivis_init fails, nothing it acquired is left, and nothing
\* of the context when a program has ended, unless it is a cpumon that did not
\* complete its setup (cpumon.c 575-636): it makes no request, exits with the
\* context open, and its exit handler shuts libcurl down under the easy handle.
\* The buffer is left only by a request of mksigset that failed, and libcurl
\* only by a program that could not register the handler, before fivis_init.
NothingLeaked ==
  /\ call \in {"failed", "closed"} => \A r \in Resources : owned[r] = 0
  /\ call = "open" =>
       \A r \in Resources : owned[r] = IF r = "token" THEN 0 ELSE 1
  /\ main = "exited" =>
       /\ call = "open" =>
            /\ program = "cpumon" /\ exit_code = "failure"
            /\ request = "none" /\ library = "down"
       /\ request = "live" => program = "mksigset" /\ exit_code = "failure"
       /\ library = "up" => ~ handler /\ call = "start"

\* The easy handle never outlives the error buffer it writes to, even when it is
\* freed, and performs no request without its URL and its headers, with a buffer
\* that has moved or was freed, or with a libcurl that is not there.
LentIsAlive ==
  /\ owned["curl"] = 1 /\ "fivis" \in Lent => owned["fivis"] = 1
  /\ call = "perform" => /\ \A r \in Lent : owned[r] = 1
                         /\ fields = "live" /\ request = "live"
                         /\ library = "up"

\* Whatever is posted, at the first attempt or a later one, is one whole request
\* and nothing else: the schema if none was acknowledged yet, a record for each
\* sample, and the size libcurl is told is its size.
PostedWhole ==
  call = "perform" =>
    /\ output = <<Whole>>
    /\ schema = unanswered
    /\ post_size = Pieces(Whole)

\* mksigset succeeds only when the server has the signal set; when it fails
\* although the server has it, the server or the connection failed after the
\* fact.
ExitTruthful ==
  main = "exited" /\ program = "mksigset" =>
    /\ exit_code = "success" => stored
    /\ exit_code = "failure" /\ stored =>
         result \in {"ERR_GENERAL", "ERR_SERVER"}
=============================================================================
