------------------------- MODULE FivisSessionProofs -------------------------
(***************************************************************************)
(* Theorems about FivisSession, and about the context and the formatting   *)
(* of requests in it, for every size of a batch and of a sample.           *)
(***************************************************************************)
EXTENDS FivisSession, SampleSeqs, FiniteSetTheorems, TLAPS

-----------------------------------------------------------------------------
(* What the context owns.                                                  *)

\* The steps of fivis_init until it has all headers, those of its labels, those
\* of a context that can be used, and those of fivis_cleanup.
Acquiring == {"start", "malloc", "url", "url_host", "url_path", "headers",
              "token"}
Unwinding == {"fail_curl_init", "fail_http_headers", "fail_api_url",
              "fail_fivis", "failed"}
Using == {"open", "fields", "size", "perform"}
Closing == {"close_url", "close_curl", "close_fivis", "closed"}
Calls == Acquiring \cup {"setopt"} \cup Unwinding \cup Using \cup Closing

\* Where the context has each of its resources.
HasUrl == Using \cup {"url_host", "url_path", "headers", "token", "setopt",
                      "fail_curl_init", "fail_http_headers", "close_url"}
HasHeaders == Using \cup {"token", "setopt", "fail_curl_init"}

\* What was acquired is told by the step of the call, and by the list of headers
\* while it grows; the last option, the error buffer, is set only in a context
\* that is not unwound any more.
OwnedInv ==
  /\ call \in Calls /\ owned \in [Resources -> Nat]
  /\ owned["curl"] =
       IF call \in {"start", "failed", "close_fivis", "closed"} THEN 0 ELSE 1
  /\ owned["fivis"] =
       IF call \in {"start", "malloc", "fail_fivis", "failed", "closed"}
         THEN 0 ELSE 1
  /\ owned["url"] = IF call \in HasUrl THEN 1 ELSE 0
  /\ owned["headers"] =
       IF call \in HasHeaders \/ (call = "headers" /\ appended > 0)
         THEN 1 ELSE 0
  /\ owned["token"] = IF call = "token" THEN 1 ELSE 0
  /\ appended \in Nat
  /\ call \in Acquiring \ {"headers", "token"} => appended = 0
  /\ call = "token" => appended = 2
  /\ opt \in 0..8
  /\ call \in Acquiring \cup Unwinding => opt < 8

\* Nothing is acquired at the beginning.
LEMMA OwnedInit == Init => OwnedInv
  BY DEF Init, ContextInit, OwnedInv, Resources, Calls, Acquiring, HasUrl,
         HasHeaders, Using

\* fivis_init sets that many options.
LEMMA OptionsLength == Len(Options) = 8
  BY DEF Options

\* Only fivis_init and fivis_cleanup, when they run, acquire and release.
LEMMA OwnedStep ==
  ASSUME OwnedInv, [Next]_vars PROVE OwnedInv'
<1> USE OptionsLength
<1> USE DEF OwnedInv, Resources, Calls, Acquiring, Unwinding, Using, Closing,
            HasUrl, HasHeaders, Goto, Acquire, Release, initVars
<1>1. CASE InitNext
  BY <1>1
  DEF InitNext, CreateHandle, CreateHandleFails, AllocContext,
      AllocContextFails, CreateUrl, SetUrlPart, UrlFails, AppendHeader,
      FormatToken, AppendToken, HeadersFail, SetOption, SetOptionFails,
      InitDone, FreeHeaders, FreeUrl, FreeContext, FreeHandle
<1>2. CASE RequestNext
  BY <1>2 DEF RequestNext, SetFields, SetSize, RequestFails, Perform
<1>3. CASE Cleanup
  BY <1>3 DEF Cleanup
<1>4. CASE PerformRequest \/ SendAgain
  BY <1>4 DEF PerformRequest, SendAgain, Request
<1>5. CASE UNCHANGED <<call, owned, appended, opt>>
  BY <1>5
<1>6. QED
  BY <1>1, <1>2, <1>3, <1>4, <1>5
  DEF Next, vars, contextVars, GlobalInit, GlobalInitFails, RegisterHandler,
      RegisterFails, InitStep, InitSucceeds, InitFails, SetupStep,
      OpenProcStat, NameSignals, AllocateSamples, StartSampler, Setup,
      ProcStatFails, CheckFails, MakeRequest, GrabBatch, FormatStep,
      FormatFails, RequestStep, RequestMade, BatchSent, BatchDropped,
      DestroyRequest, CleanupStep, ExitAfterCleanup, RunHandlers

-----------------------------------------------------------------------------
(* The programs and their context.                                         *)

Starting == {"global_init", "atexit", "fivis_init"}
SettingUp == {"proc_stat", "signals", "samples", "sampler"}
Ending == {"made", "unmade", "ended"}
Exited == {"exit", "exited"}
Mains == Starting \cup SettingUp \cup Ending \cup Exited
           \cup {"batch", "make", "format", "perform", "destroy"}

\* A program that has not begun its first request.
Unbegun == Starting \cup SettingUp \cup {"make"}

\* Where main is tells which program it is and how far its context can be.
PlaceInv ==
  /\ main \in Mains /\ program \in {"mksigset", "cpumon"}
  /\ main \in SettingUp \cup {"batch", "destroy", "ended"} => program = "cpumon"
  /\ main \in {"make", "made", "unmade"} => program = "mksigset"
  /\ main \in {"global_init", "atexit"} => call = "start"
  /\ main = "fivis_init" =>
       call \in Acquiring \cup {"setopt", "open"} \cup Unwinding
  /\ main \in SettingUp \cup {"batch", "make", "format", "destroy"} =>
       call = "open"
  /\ main = "perform" => call \in Using
  /\ main \in Ending => call \in {"open"} \cup Closing
  /\ main \in Exited => call \in {"start", "failed", "open", "closed"}

\* libcurl is there, and its end is registered, until a program exits.
LibraryInv ==
  /\ main \notin {"global_init"} \cup Exited => library = "up"
  /\ main \notin {"global_init", "atexit"} \cup Exited => handler
  /\ main \in Exited /\ ~ handler => call = "start"
  /\ main = "exited" => library = "down" \/ ~ handler

\* The buffer is there while a request is made, and libcurl has it while the
\* request is performed.
RequestInv ==
  /\ main \in Unbegun => request = "none"
  /\ main \in {"format", "perform"} => request = "live"
  /\ main \in {"made", "ended"} => request # "live"
  /\ call \in {"size", "perform"} => fields = "live"

\* How a program ends.
ExitInv ==
  /\ main \in Exited /\ call = "open" =>
       program = "cpumon" /\ exit_code = "failure" /\ request = "none"
  /\ main \in Exited /\ request = "live" =>
       program = "mksigset" /\ exit_code = "failure"

SessionInv == PlaceInv /\ LibraryInv /\ RequestInv /\ ExitInv

\* No program has begun.
LEMMA SessionInit == Init => SessionInv
  BY DEF Init, ContextInit, SessionInv, PlaceInv, LibraryInv, RequestInv,
         ExitInv, Mains, Starting, SettingUp, Unbegun, Ending, Exited,
         Acquiring, Using, Closing

\* The steps of main keep it, and those of the context, which main waits for.
LEMMA SessionStep ==
  ASSUME SessionInv, [Next]_vars PROVE SessionInv'
<1> USE DEF SessionInv, PlaceInv, LibraryInv, RequestInv, ExitInv, Mains,
            Starting, SettingUp, Unbegun, Ending, Exited, Acquiring, Unwinding,
            Using, Closing, Goto, MainGoto, Exit, initVars, requestVars,
            contextVars, programVars, sessionVars
<1>1. CASE InitStep
  BY <1>1
  DEF InitStep, InitNext, CreateHandle, CreateHandleFails, AllocContext,
      AllocContextFails, CreateUrl, SetUrlPart, UrlFails, AppendHeader,
      FormatToken, AppendToken, HeadersFail, SetOption, SetOptionFails,
      InitDone, FreeHeaders, FreeUrl, FreeContext, FreeHandle
<1>2. CASE RequestStep
  BY <1>2
  DEF RequestStep, RequestNext, SetFields, SetSize, RequestFails, Perform
<1>3. CASE CleanupStep
  BY <1>3 DEF CleanupStep, Cleanup
<1>4. CASE GlobalInit \/ GlobalInitFails \/ RegisterHandler \/ RegisterFails
  BY <1>4 DEF GlobalInit, GlobalInitFails, RegisterHandler, RegisterFails
<1>5. CASE InitSucceeds \/ InitFails \/ SetupStep
  BY <1>5
  DEF InitSucceeds, InitFails, SetupStep, OpenProcStat, NameSignals,
      AllocateSamples, StartSampler, Setup, ProcStatFails, CheckFails
<1>6. CASE MakeRequest \/ (\E n \in 1..MaxBatch : GrabBatch(n))
  BY <1>6 DEF MakeRequest, GrabBatch, ClearBuffer
<1>7. CASE FormatStep \/ FormatFails
  BY <1>7 DEF FormatStep, FormatFails
<1>8. CASE PerformRequest
  BY <1>8 DEF PerformRequest, Request
<1>9. CASE SendAgain
  BY <1>9 DEF SendAgain, Request, Returned
<1>10. CASE RequestMade \/ BatchSent \/ BatchDropped
  BY <1>10 DEF RequestMade, BatchSent, BatchDropped, Returned, Answered
<1>11. CASE DestroyRequest \/ ExitAfterCleanup \/ RunHandlers
  BY <1>11 DEF DestroyRequest, ExitAfterCleanup, RunHandlers
<1>12. CASE UNCHANGED vars
  BY <1>12 DEF vars
<1>13. QED
  BY <1>1, <1>2, <1>3, <1>4, <1>5, <1>6, <1>7, <1>8, <1>9, <1>10, <1>11,
     <1>12
  DEF Next

-----------------------------------------------------------------------------
(* What is answered.                                                       *)

\* Nothing can be stored without an answer, or when it was a redirect.
LEMMA NotStored ==
  ASSUME NEW o, o.code # "UNKNOWN", o.status = 0 \/ o.status = 302
  PROVE  MayBeStored(o) = {FALSE}
<1>1. o.status # 500 /\ o.status # 200
  OBVIOUS
<1>2. MayBeStored(o) = {o.code = "OK" /\ o.status = 200}
  BY <1>1 DEF MayBeStored
<1>3. QED
  BY <1>1, <1>2, Zenon

\* FIVIS_OK is answered for a stored request; what may be stored in spite of an
\* error is known by the error.
LEMMA AnswerOf ==
  ASSUME NEW o \in Outcomes
  PROVE  /\ Classify(o) \in Results
         /\ Classify(o) = "OK" => MayBeStored(o) = {TRUE}
         /\ Classify(o) \notin {"OK", "ERR_GENERAL", "ERR_SERVER"} =>
              MayBeStored(o) = {FALSE}
         /\ MayBeStored(o) \subseteq BOOLEAN
<1>1. /\ o.code \in Codes /\ o.status \in {0, 200, 302, 404, 500}
      /\ o.status \in Statuses[o.code]
  BY DEF Outcomes
<1>2. CASE o.code = "OK" /\ o.status = 200
  <2>1. Classify(o) = "OK"
    BY <1>2 DEF Classify
  <2>2. MayBeStored(o) = {o.code = "OK" /\ o.status = 200}
    BY <1>2 DEF MayBeStored
  <2>3. MayBeStored(o) = {TRUE}
    BY <1>2, <2>2, Zenon
  <2>4. QED
    BY <2>1, <2>3 DEF Results
<1>3. CASE o.code = "OK" /\ o.status = 302
  <2>1. Classify(o) = "ERR_LOCATION"
    BY <1>3 DEF Classify
  <2>2. MayBeStored(o) = {FALSE}
    BY <1>3, NotStored DEF Statuses
  <2>3. QED
    BY <2>1, <2>2 DEF Results
<1>4. CASE o.code = "NO_CONNECTION"
  <2>1. Classify(o) = "ERR_NETWORK"
    BY <1>4 DEF Classify, ErrorOf
  <2>2. o.status = 0
    BY <1>1, <1>4 DEF Statuses
  <2>3. MayBeStored(o) = {FALSE}
    BY <1>4, <2>2, NotStored
  <2>4. QED
    BY <2>1, <2>3 DEF Results
<1>5. CASE o.code \in {"HTTP_RETURNED_ERROR", "UNKNOWN"}
  <2>1. Classify(o) \in {"ERR_SERVER", "ERR_GENERAL"}
    BY <1>5 DEF Classify, ErrorOf
  <2>2. MayBeStored(o) \subseteq BOOLEAN
    BY DEF MayBeStored
  <2>3. QED
    BY <2>1, <2>2 DEF Results
<1>6. o.code = "OK" => o.status = 200 \/ o.status = 302
  BY <1>1 DEF Statuses
<1>7. QED
  BY <1>1, <1>2, <1>3, <1>4, <1>5, <1>6 DEF Codes

\* Errors after which nobody can tell whether the request is stored.
Unsure == {"ERR_GENERAL", "ERR_SERVER"}

\* No request is stored before one is performed; the answer to the last one is
\* kept until the next.
ResultInv ==
  /\ call \in Acquiring \cup {"setopt"} \cup (Using \ {"open"}) =>
       result = "none" /\ ~ stored /\ (main \notin Exited => ~ reported)
  /\ call \in Unwinding => result = "none" /\ ~ stored /\ reported
  /\ main \in Unbegun =>
       result = "none" /\ ~ stored
  /\ ResultTruthful

\* What mksigset goes on with is what its request was answered.
OutcomeInv ==
  /\ program = "mksigset" /\ main = "format" => ~ stored
  /\ main = "made" => stored
  /\ main = "unmade" /\ stored => result \in Unsure
  /\ main \in Exited /\ program = "mksigset" =>
       /\ exit_code = "success" => stored
       /\ exit_code = "failure" /\ stored => result \in Unsure

AnswerInv == ResultInv /\ OutcomeInv

\* Nothing was answered.
LEMMA AnswerInit == Init => AnswerInv
  BY DEF Init, ContextInit, AnswerInv, ResultInv, OutcomeInv, ResultTruthful,
         Acquiring, Unwinding, Using, Starting, SettingUp, Unbegun, Exited

\* Only performing a request changes what is answered and stored, and the next
\* request, which begins with none of both.
LEMMA AnswerStep ==
  ASSUME SessionInv, AnswerInv, [Next]_vars PROVE AnswerInv'
<1> USE DEF SessionInv, PlaceInv, AnswerInv, ResultInv, OutcomeInv, Unsure,
            ResultTruthful, Mains, Starting, SettingUp, Unbegun, Ending, Exited,
            Acquiring, Unwinding, Using, Closing, Goto, MainGoto, Exit, Report,
            initVars, requestVars, contextVars, programVars, sessionVars
<1>1. CASE InitStep
  BY <1>1
  DEF InitStep, InitNext, CreateHandle, CreateHandleFails, AllocContext,
      AllocContextFails, CreateUrl, SetUrlPart, UrlFails, AppendHeader,
      FormatToken, AppendToken, HeadersFail, SetOption, SetOptionFails,
      InitDone, FreeHeaders, FreeUrl, FreeContext, FreeHandle
<1>2. CASE RequestStep
  <2>1. CASE SetFields \/ SetSize \/ RequestFails
    BY <1>2, <2>1 DEF RequestStep, SetFields, SetSize, RequestFails
  <2>2. ASSUME NEW o \in Outcomes, Perform(o) PROVE AnswerInv'
    <3>1. /\ main = "perform" /\ main' = main /\ call' = "open"
          /\ UNCHANGED <<program, exit_code>>
      BY <1>2, <2>2 DEF RequestStep, Perform
    <3>2. /\ result' \in Results
          /\ result' = "OK" => stored'
          /\ stored' => result' \in {"OK", "ERR_GENERAL", "ERR_SERVER"}
          /\ reported' <=> result' # "OK"
      BY <2>2, AnswerOf DEF Perform
    <3>3. QED
      BY <3>1, <3>2 DEF Results
  <2>3. QED
    BY <1>2, <2>1, <2>2 DEF RequestStep, RequestNext
<1>3. CASE CleanupStep
  BY <1>3 DEF CleanupStep, Cleanup
<1>4. CASE GlobalInit \/ GlobalInitFails \/ RegisterHandler \/ RegisterFails
  BY <1>4 DEF GlobalInit, GlobalInitFails, RegisterHandler, RegisterFails
<1>5. CASE InitSucceeds \/ InitFails \/ SetupStep
  BY <1>5
  DEF InitSucceeds, InitFails, SetupStep, OpenProcStat, NameSignals,
      AllocateSamples, StartSampler, Setup, ProcStatFails, CheckFails
<1>6. CASE MakeRequest \/ (\E n \in 1..MaxBatch : GrabBatch(n))
  <2>1. CASE MakeRequest
    BY <2>1 DEF MakeRequest
  <2>2. ASSUME NEW n \in 1..MaxBatch, GrabBatch(n) PROVE AnswerInv'
    <3>1. /\ main = "batch" /\ main' = "format"
          /\ UNCHANGED <<call, reported, result, stored, program, exit_code>>
      BY <2>2 DEF GrabBatch
    <3>2. QED
      BY <3>1
  <2>3. QED
    BY <1>6, <2>1, <2>2
<1>7. CASE FormatStep \/ FormatFails
  BY <1>7 DEF FormatStep, FormatFails
<1>8. CASE PerformRequest
  BY <1>8 DEF PerformRequest, Request
<1>9. CASE SendAgain
  BY <1>9 DEF SendAgain, Request, Returned
<1>10. CASE RequestMade \/ BatchSent \/ BatchDropped
  BY <1>10 DEF RequestMade, BatchSent, BatchDropped, Returned, Answered
<1>11. CASE DestroyRequest \/ ExitAfterCleanup \/ RunHandlers
  BY <1>11 DEF DestroyRequest, ExitAfterCleanup, RunHandlers
<1>12. CASE UNCHANGED vars
  BY <1>12 DEF vars
<1>13. QED
  BY <1>1, <1>2, <1>3, <1>4, <1>5, <1>6, <1>7, <1>8, <1>9, <1>10, <1>11,
     <1>12
  DEF Next

-----------------------------------------------------------------------------
(* The text of a request, and the parts Write replaces in it.              *)

Text(types, data, records, closed) ==
  <<[schema |-> types, data |-> data, records |-> records, closed |-> closed]>>

\* A buffer with one request is written by replacing a part of the request.
LEMMA OneReplaced ==
  ASSUME NEW r, NEW x
  PROVE  /\ Len(<<r>>) = 1 /\ Last(<<r>>) = r
         /\ [<<r>> EXCEPT ![1] = x] = <<x>>
<1> DEFINE S == {r, x}
           o == <<r>>
           t == <<x>>
           f == [o EXCEPT ![1] = x]
<1>1. /\ o \in Seq(S) /\ t \in Seq(S) /\ x \in S
      /\ Len(o) = 1 /\ o[1] = r /\ Len(t) = 1 /\ t[1] = x
  OBVIOUS
<1> HIDE DEF S, o, t
<1>2. /\ f \in Seq(S) /\ Len(f) = Len(o)
      /\ \A j \in 1..Len(o) : f[j] = IF j = 1 THEN x ELSE o[j]
  BY <1>1, ExceptSeq
<1> HIDE DEF f
<1>3. Len(f) = 1 /\ f[1] = x
  BY <1>1, <1>2
<1>4. f = t
  BY <1>1, <1>2, <1>3, SeqEqual
<1>5. Last(o) = r
  BY <1>1 DEF Last
<1>6. QED
  BY <1>1, <1>4, <1>5 DEF f, o, t

\* What Write makes of a text.
Replace(o, part, x) == [o EXCEPT ![Len(o)][part] = x]

\* A text after one of its parts was replaced.
LEMMA TextWith ==
  ASSUME NEW a, NEW b, NEW c, NEW d, NEW x
  PROVE  /\ Last(Text(a, b, c, d)).schema = a
         /\ Last(Text(a, b, c, d)).records = c
         /\ Replace(Text(a, b, c, d), "schema", x) = Text(x, b, c, d)
         /\ Replace(Text(a, b, c, d), "data", x) = Text(a, x, c, d)
         /\ Replace(Text(a, b, c, d), "records", x) = Text(a, b, x, d)
         /\ Replace(Text(a, b, c, d), "closed", x) = Text(a, b, c, x)
<1> DEFINE r == [schema |-> a, data |-> b, records |-> c, closed |-> d]
           o == Text(a, b, c, d)
<1>1. [r EXCEPT !["schema"] = x] =
        [schema |-> x, data |-> b, records |-> c, closed |-> d]
  OBVIOUS
<1>2. [r EXCEPT !["data"] = x] =
        [schema |-> a, data |-> x, records |-> c, closed |-> d]
  OBVIOUS
<1>3. [r EXCEPT !["records"] = x] =
        [schema |-> a, data |-> b, records |-> x, closed |-> d]
  OBVIOUS
<1>4. [r EXCEPT !["closed"] = x] =
        [schema |-> a, data |-> b, records |-> c, closed |-> x]
  OBVIOUS
<1>5. r.schema = a /\ r.records = c
  OBVIOUS
<1>6. o = <<r>>
  BY DEF Text
<1> HIDE DEF r, o
<1>7. Len(o) = 1 /\ Last(o) = r /\ o[1] = r
  BY <1>6, OneReplaced
<1>8. ASSUME NEW part
      PROVE  Replace(o, part, x) = <<[r EXCEPT ![part] = x]>>
  <2>1. Replace(o, part, x) = [o EXCEPT ![1] = [r EXCEPT ![part] = x]]
    BY <1>7 DEF Replace
  <2> DEFINE y == [r EXCEPT ![part] = x]
  <2> HIDE DEF y
  <2>2. [o EXCEPT ![1] = y] = <<y>>
    BY <1>6, OneReplaced
  <2>3. QED
    BY <2>1, <2>2 DEF y
<1>9. Replace(o, "schema", x) = Text(x, b, c, d)
  BY <1>1, <1>8, Zenon DEF Text
<1>10. Replace(o, "data", x) = Text(a, x, c, d)
  BY <1>2, <1>8, Zenon DEF Text
<1>11. Replace(o, "records", x) = Text(a, b, x, d)
  BY <1>3, <1>8, Zenon DEF Text
<1>12. Replace(o, "closed", x) = Text(a, b, c, x)
  BY <1>4, <1>8, Zenon DEF Text
<1>13. QED
  BY <1>5, <1>7, <1>9, <1>10, <1>11, <1>12 DEF o

\* The same before the data and in the data.
LEMMA BeforeData ==
  ASSUME NEW a, NEW c, NEW x
  PROVE  /\ Last(Text(a, FALSE, c, FALSE)).schema = a
         /\ Replace(Text(a, FALSE, c, FALSE), "schema", x)
              = Text(x, FALSE, c, FALSE)
         /\ Replace(Text(a, FALSE, c, FALSE), "data", TRUE)
              = Text(a, TRUE, c, FALSE)
<1> DEFINE no == FALSE
           yes == TRUE
<1> HIDE DEF no, yes
<1>1. Last(Text(a, no, c, no)).schema = a
  BY TextWith
<1>2. Replace(Text(a, no, c, no), "schema", x) = Text(x, no, c, no)
  BY TextWith
<1>3. Replace(Text(a, no, c, no), "data", yes) = Text(a, yes, c, no)
  BY TextWith
<1>4. QED
  BY <1>1, <1>2, <1>3 DEF no, yes

\* A text while its records are written, and when it is closed.
LEMMA InData ==
  ASSUME NEW a, NEW c, NEW x
  PROVE  /\ Last(Text(a, TRUE, c, FALSE)).records = c
         /\ Replace(Text(a, TRUE, c, FALSE), "records", x)
              = Text(a, TRUE, x, FALSE)
         /\ Replace(Text(a, TRUE, c, FALSE), "closed", TRUE)
              = Text(a, TRUE, c, TRUE)
<1> DEFINE no == FALSE
           yes == TRUE
<1> HIDE DEF no, yes
<1>1. Last(Text(a, yes, c, no)).records = c
  BY TextWith
<1>2. Replace(Text(a, yes, c, no), "records", x) = Text(a, yes, x, no)
  BY TextWith
<1>3. Replace(Text(a, yes, c, no), "closed", yes) = Text(a, yes, c, yes)
  BY TextWith
<1>4. QED
  BY <1>1, <1>2, <1>3 DEF no, yes

\* How many pieces there are in a request that has n records with c fields.
Even(q, n, c) == /\ Len(q.schema) \in Nat /\ DOMAIN q.records = 1..n
                 /\ \A i \in 1..n : Len(q.records[i].fields) = c

\* The number of pieces of a request with so many records.
LEMMA PiecesOf ==
  ASSUME NEW q, NEW n \in Nat, NEW c \in Nat, Even(q, n, c)
  PROVE  LET t == Len(q.schema) IN
         Pieces(q) = 6 + (IF t > 0 THEN 2 * t + 1 ELSE 0) + (3 + 2 * c) * n
<1> DEFINE t == Len(q.schema)
<1> USE DEF Even
<1> DEFINE k == 3 + 2 * c
           S == 1..n
           sum == [s \in SUBSET S |-> k * Cardinality(s)]
           it == CHOOSE f : f = [s \in SUBSET S |->
                     IF s = {} THEN 0
                     ELSE LET x == CHOOSE x \in s : TRUE
                          IN  (3 + 2 * Len(q.records[x].fields)) + f[s \ {x}]]
<1>1. Pieces(q) = 6 + (IF t > 0 THEN 2 * t + 1 ELSE 0) + it[S]
  BY DEF Pieces, MapThenSumSet, MapThenFoldSet
<1>2. \A s \in SUBSET S : IsFiniteSet(s) /\ Cardinality(s) \in Nat
  <2>1. IsFiniteSet(S) /\ Cardinality(S) = n
    BY FS_Interval
  <2> HIDE DEF S
  <2>2. QED
    BY <2>1, FS_Subset, FS_CardinalityType
<1>3. ASSUME NEW s \in SUBSET S, s # {}, NEW x \in s
      PROVE  /\ s \ {x} \in SUBSET S
             /\ Cardinality(s) # 0
             /\ Cardinality(s \ {x}) = Cardinality(s) - 1
             /\ 3 + 2 * Len(q.records[x].fields) = k
  BY <1>2, <1>3, FS_RemoveElement, FS_EmptySet
<1>4. sum = [s \in SUBSET S |->
                     IF s = {} THEN 0
                     ELSE LET x == CHOOSE x \in s : TRUE
                          IN  (3 + 2 * Len(q.records[x].fields)) + sum[s \ {x}]]
  <2>1. ASSUME NEW s \in SUBSET S
        PROVE  k * Cardinality(s) =
                 IF s = {} THEN 0
                 ELSE LET x == CHOOSE x \in s : TRUE
                      IN  (3 + 2 * Len(q.records[x].fields)) + sum[s \ {x}]
    <3>1. CASE s = {}
      BY <3>1, FS_EmptySet
    <3>2. CASE s # {}
      <4> DEFINE x == CHOOSE x \in s : TRUE
      <4>1. x \in s
        BY <3>2
      <4> HIDE DEF x
      <4>2. sum[s \ {x}] = k * (Cardinality(s) - 1)
        BY <1>3, <3>2, <4>1
      <4>3. k * Cardinality(s) = k + k * (Cardinality(s) - 1)
        BY <1>2
      <4>4. 3 + 2 * Len(q.records[x].fields) = k
        BY <1>3, <3>2, <4>1
      <4> HIDE DEF sum
      <4>5. QED
        BY <3>2, <4>2, <4>3, <4>4 DEF x
    <3>3. QED
      BY <3>1, <3>2
  <2>2. QED
    BY <2>1
<1>5. it = [s \in SUBSET S |->
                     IF s = {} THEN 0
                     ELSE LET x == CHOOSE x \in s : TRUE
                          IN  (3 + 2 * Len(q.records[x].fields)) + it[s \ {x}]]
  <2> HIDE DEF sum
  <2>1. QED
    BY <1>4
<1> HIDE DEF it
<1> DEFINE I == {m \in Nat : \A s \in SUBSET S :
                               Cardinality(s) = m => it[s] = k * m}
<1>6. 0 \in I
  BY <1>2, <1>5, FS_EmptySet
<1>7. ASSUME NEW m \in I PROVE m + 1 \in I
  <2>1. SUFFICES ASSUME NEW s \in SUBSET S, Cardinality(s) = m + 1
                 PROVE  it[s] = k * (m + 1)
    BY <1>7
  <2> DEFINE x == CHOOSE x \in s : TRUE
  <2> m \in Nat
    BY <1>7
  <2> HIDE DEF I, S, sum
  <2>2. Cardinality(s) # 0 /\ Cardinality(s) - 1 = m
    BY <2>1
  <2>3. s # {}
    BY <2>2, FS_EmptySet
  <2>4. x \in s
    BY <2>3
  <2>5. it[s] = (3 + 2 * Len(q.records[x].fields)) + it[s \ {x}]
    BY <1>5, <2>1, <2>3
  <2> HIDE DEF x
  <2>6. Cardinality(s \ {x}) = m /\ s \ {x} \in SUBSET S
    BY <1>3, <2>1, <2>2, <2>3, <2>4
  <2>7. it[s \ {x}] = k * m
    BY <1>7, <2>6 DEF I
  <2>8. 3 + 2 * Len(q.records[x].fields) = k
    BY <1>3, <2>3, <2>4
  <2>9. k * (m + 1) = k + k * m
    BY <1>7
  <2>10. QED
    BY <2>5, <2>7, <2>8, <2>9
<1>8. I = Nat
  <2>1. I \subseteq Nat
    OBVIOUS
  <2> HIDE DEF I
  <2>2. QED
    BY <1>6, <1>7, <2>1, Induction
<1>9. it[S] = k * n
  <2>1. Cardinality(S) = n /\ S \in SUBSET S
    BY FS_Interval
  <2>2. n \in I
    BY <1>8
  <2>3. QED
    BY <2>1, <2>2
<1>10. QED
  BY <1>1, <1>9

-----------------------------------------------------------------------------
(* The schema and the records, item by item.                               *)

\* Each signal of the schema, the values of a sample that are formatted after
\* the first k signals, its record then, the whole records, and those of the
\* samples before s with the one that is being written.
Types(k) == [c \in 1..k |-> [signal |-> c, comma |-> c > 1]]
Fields(s, k) == [c \in 1..k |-> [signal |-> c, value |-> Place(s, c - 2)]]
Begun(s, k) == [id |-> Place(s, Id), fields |-> Fields(s, k), end |-> "open"]
Records(k) == [s \in 1..k |-> Expected(s)]
RecordsAt(s, k) ==
  [i \in 1..s |-> IF i = s THEN Begun(s, k) ELSE Expected(i)]
Wanted == IF schema THEN Types(columns) ELSE <<>>

\* One signal more in the schema.
LEMMA TypesNext ==
  ASSUME NEW k \in Nat
  PROVE  /\ Types(0) = <<>> /\ Len(Types(k)) = k
         /\ Append(Types(k), [signal |-> k + 1, comma |-> k > 0]) = Types(k + 1)
<1>1. Types(0) = <<>>
  BY EmptyList DEF Types
<1> DEFINE f == Types(k)
           x == [signal |-> k + 1, comma |-> k > 0]
<1>2. f = [i \in 1..k |-> f[i]]
  BY DEF Types
<1>3. \A i \in 1..k : f[i] = [signal |-> i, comma |-> i > 1]
  BY DEF Types
<1>4. x = [signal |-> k + 1, comma |-> (k + 1) > 1]
  BY SMT
<1>5. Types(k + 1) = [i \in 1..(k + 1) |-> IF i = k + 1 THEN x ELSE f[i]]
  <2> HIDE DEF x, f
  <2>1. ASSUME NEW i \in 1..(k + 1)
        PROVE  [signal |-> i, comma |-> i > 1] = IF i = k + 1 THEN x ELSE f[i]
    <3>1. CASE i = k + 1
      BY <1>4, <3>1, Zenon
    <3>2. CASE i # k + 1
      <4>1. i \in 1..k
        BY <3>2
      <4>2. QED
        BY <1>3, <3>2, <4>1, Zenon
    <3>3. QED
      BY <3>1, <3>2
  <2>2. QED
    BY <2>1 DEF Types
<1> HIDE DEF f, x
<1>6. Len(f) = k /\ Append(f, x) = Types(k + 1)
  <2>1. /\ Len(f) = k
        /\ Append(f, x) = [i \in 1..(k + 1) |-> IF i = k + 1 THEN x ELSE f[i]]
    BY <1>2, AppendItem
  <2>2. QED
    BY <1>5, <2>1
<1>7. QED
  BY <1>1, <1>6 DEF f, x

\* One value more in a record.
LEMMA FieldsNext ==
  ASSUME NEW s, NEW k \in Nat
  PROVE  /\ Fields(s, 0) = <<>> /\ Len(Fields(s, k)) = k
         /\ Append(Fields(s, k), [signal |-> k + 1, value |-> Place(s, k - 1)])
              = Fields(s, k + 1)
<1>1. Fields(s, 0) = <<>>
  BY EmptyList DEF Fields
<1> DEFINE f == Fields(s, k)
           x == [signal |-> k + 1, value |-> Place(s, k - 1)]
<1>2. f = [i \in 1..k |-> f[i]]
  BY DEF Fields
<1>3. \A i \in 1..k : f[i] = [signal |-> i, value |-> Place(s, i - 2)]
  BY DEF Fields
<1>4. (k + 1) - 2 = k - 1
  OBVIOUS
<1>5. Fields(s, k + 1) = [i \in 1..(k + 1) |-> IF i = k + 1 THEN x ELSE f[i]]
  <2> HIDE DEF f
  <2>1. \A i \in 1..(k + 1) : [signal |-> i, value |-> Place(s, i - 2)] =
                                IF i = k + 1 THEN x ELSE f[i]
    BY <1>3, <1>4
  <2>2. QED
    BY <2>1 DEF Fields
<1> HIDE DEF f, x
<1>6. Len(f) = k /\ Append(f, x) = Fields(s, k + 1)
  <2>1. /\ Len(f) = k
        /\ Append(f, x) = [i \in 1..(k + 1) |-> IF i = k + 1 THEN x ELSE f[i]]
    BY <1>2, AppendItem
  <2>2. QED
    BY <1>5, <2>1
<1>7. QED
  BY <1>1, <1>6 DEF f, x

\* One record more, without its values.
LEMMA RecordsNext ==
  ASSUME NEW k \in Nat
  PROVE  /\ Records(0) = <<>> /\ Len(Records(k)) = k
         /\ Append(Records(k), Begun(k + 1, 0)) = RecordsAt(k + 1, 0)
<1>1. Records(0) = <<>>
  BY EmptyList DEF Records
<1> DEFINE f == Records(k)
           x == Begun(k + 1, 0)
<1>2. f = [i \in 1..k |-> f[i]]
  BY DEF Records
<1>3. \A i \in 1..k : f[i] = Expected(i)
  BY DEF Records
<1> HIDE DEF f
<1>4. RecordsAt(k + 1, 0) =
        [i \in 1..(k + 1) |-> IF i = k + 1 THEN x ELSE f[i]]
  BY <1>3 DEF RecordsAt
<1> HIDE DEF x
<1>5. Len(f) = k /\ Append(f, x) = RecordsAt(k + 1, 0)
  <2>1. /\ Len(f) = k
        /\ Append(f, x) = [i \in 1..(k + 1) |-> IF i = k + 1 THEN x ELSE f[i]]
    BY <1>2, AppendItem
  <2>2. QED
    BY <1>4, <2>1
<1>6. QED
  BY <1>1, <1>5 DEF f, x

\* The record that is being written is the last one.
LEMMA LastRecord ==
  ASSUME NEW s \in Nat \ {0}, NEW k
  PROVE  /\ Len(RecordsAt(s, k)) = s
         /\ Last(RecordsAt(s, k)) = Begun(s, k)
<1>1. Len(RecordsAt(s, k)) = s
  BY DEF RecordsAt
<1>2. RecordsAt(s, k)[s] = Begun(s, k)
  BY DEF RecordsAt
<1>3. QED
  BY <1>1, <1>2 DEF Last

\* A value is added to it.
LEMMA FieldAdded ==
  ASSUME NEW s \in Nat \ {0}, NEW k, NEW m
  PROVE  [RecordsAt(s, k) EXCEPT ![s]["fields"] = Fields(s, m)]
           = RecordsAt(s, m)
<1>1. [Begun(s, k) EXCEPT !["fields"] = Fields(s, m)] = Begun(s, m)
  BY DEF Begun
<1>2. RecordsAt(s, k)[s] = Begun(s, k)
  BY DEF RecordsAt
<1>3. [RecordsAt(s, k) EXCEPT ![s]["fields"] = Fields(s, m)] =
        [RecordsAt(s, k) EXCEPT ![s] = Begun(s, m)]
  BY <1>1, <1>2
<1>4. [RecordsAt(s, k) EXCEPT ![s] = Begun(s, m)] = RecordsAt(s, m)
  BY DEF RecordsAt
<1>5. QED
  BY <1>3, <1>4

\* It is closed, with a comma when another one follows.
LEMMA RecordClosed ==
  ASSUME NEW s \in Nat \ {0}, NEW e,
         e = IF s < batch THEN "comma" ELSE "last"
  PROVE  [RecordsAt(s, columns) EXCEPT ![s]["end"] = e] = Records(s)
<1>1. [Begun(s, columns) EXCEPT !["end"] = e] = Expected(s)
  <2>1. [Begun(s, columns) EXCEPT !["end"] = e] =
          [id |-> Place(s, Id), fields |-> Fields(s, columns), end |-> e]
    BY DEF Begun
  <2>2. QED
    BY <2>1, Zenon DEF Expected, Fields
<1>2. RecordsAt(s, columns)[s] = Begun(s, columns)
  BY DEF RecordsAt
<1>3. [RecordsAt(s, columns) EXCEPT ![s]["end"] = e] =
        [RecordsAt(s, columns) EXCEPT ![s] = Expected(s)]
  BY <1>1, <1>2
<1>4. [RecordsAt(s, columns) EXCEPT ![s] = Expected(s)] = Records(s)
  BY DEF RecordsAt, Records
<1>5. QED
  BY <1>3, <1>4

-----------------------------------------------------------------------------
(* The iterator.                                                           *)

\* The cursor once the first k values of sample s after its id were served.
At(s, k) ==
  IF k < columns
    THEN [sample |-> s, next_value |-> Place(s, k - 1), next_index |-> k]
  ELSE IF s < batch
    THEN [sample |-> s + 1, next_value |-> Place(s + 1, Id),
          next_index |-> value_count]
    ELSE [sample |-> s, next_value |-> NULL, next_index |-> value_count]

\* What a request is made of: cpumon has a column for each value and no empty
\* batch, mksigset no samples.
InputInv ==
  /\ batch \in 0..MaxBatch /\ value_count \in 0..MaxValues
  /\ columns \in Nat \ {0} /\ asked \in Nat
  /\ IF program = "cpumon" THEN columns = value_count + 1 ELSE columns = 4
  /\ IF supplied THEN program = "cpumon" /\ batch > 0 ELSE batch = 0

\* No value of a batch is the null pointer.
LEMMA NullFacts ==
  /\ \A s \in 1..MaxBatch : NULL # s
  /\ \A s \in 1..MaxBatch, f \in Id..MaxValues : NULL # Place(s, f)
  BY NullAssumption

\* The cursor with its three parts, and what the next call makes of it.
Cursor(s, v, i) == [sample |-> s, next_value |-> v, next_index |-> i]

\* From the id of a sample the iterator goes to its timestamp.
LEMMA AdvanceId ==
  ASSUME NEW s, NEW i, Place(s, Id) # NULL
  PROVE  Advance(Cursor(s, Place(s, Id), i)) = Cursor(s, Place(s, Ts), 0)
<1> DEFINE c == Cursor(s, Place(s, Id), i)
<1>1. c.next_value # NULL /\ c.next_value.field = Id
  BY DEF Cursor, Place
<1>2. [c EXCEPT !.next_value.field = Ts] = Cursor(s, Place(s, Ts), i)
  <2>1. [Place(s, Id) EXCEPT !["field"] = Ts] = Place(s, Ts)
    BY DEF Place
  <2>2. [c EXCEPT !.next_value.field = Ts] =
          [c EXCEPT !.next_value = [Place(s, Id) EXCEPT !["field"] = Ts]]
    BY DEF Cursor
  <2>3. [c EXCEPT !.next_value = Place(s, Ts)] = Cursor(s, Place(s, Ts), i)
    BY DEF Cursor
  <2>4. QED
    BY <2>1, <2>2, <2>3
<1>3. [c EXCEPT !.next_value.field = Ts, !.next_index = 0] =
        [[c EXCEPT !.next_value.field = Ts] EXCEPT !.next_index = 0]
  OBVIOUS
<1>4. [Cursor(s, Place(s, Ts), i) EXCEPT !.next_index = 0] =
        Cursor(s, Place(s, Ts), 0)
  BY DEF Cursor
<1>5. Advance(c) = [c EXCEPT !.next_value.field = Ts, !.next_index = 0]
  <2> HIDE DEF c
  <2>1. QED
    BY <1>1 DEF Advance
<1>6. QED
  BY <1>2, <1>3, <1>4, <1>5

\* After another value than an id come the times, then the next sample.
LEMMA AdvanceRest ==
  ASSUME NEW s \in Nat, NEW v, v = NULL \/ v.field # Id, NEW i \in Nat
  PROVE  Advance(Cursor(s, v, i)) =
           IF i < value_count THEN Cursor(s, Place(s, i), i + 1)
           ELSE IF s < batch THEN Cursor(s + 1, Place(s + 1, Id), i)
           ELSE Cursor(s, NULL, i)
<1> DEFINE c == Cursor(s, v, i)
<1>1. c.next_value = v /\ c.sample = s /\ c.next_index = i
  BY DEF Cursor
<1>2. [c EXCEPT !.next_value = Place(s, i), !.next_index = @ + 1] =
        [c EXCEPT !.next_value = Place(s, i), !.next_index = i + 1]
  BY <1>1
<1>3. [c EXCEPT !.sample = @ + 1, !.next_value = Place(s + 1, Id)] =
        [c EXCEPT !.sample = s + 1, !.next_value = Place(s + 1, Id)]
  BY <1>1
<1>4. [c EXCEPT !.next_value = Place(s, i), !.next_index = i + 1] =
        Cursor(s, Place(s, i), i + 1)
  <2>1. [c EXCEPT !.next_value = Place(s, i)] = Cursor(s, Place(s, i), i)
    BY DEF Cursor
  <2>2. [Cursor(s, Place(s, i), i) EXCEPT !.next_index = i + 1] =
          Cursor(s, Place(s, i), i + 1)
    BY DEF Cursor
  <2>3. [c EXCEPT !.next_value = Place(s, i), !.next_index = i + 1] =
          [[c EXCEPT !.next_value = Place(s, i)] EXCEPT !.next_index = i + 1]
    OBVIOUS
  <2>4. QED
    BY <2>1, <2>2, <2>3
<1>5. [c EXCEPT !.sample = s + 1, !.next_value = Place(s + 1, Id)] =
        Cursor(s + 1, Place(s + 1, Id), i)
  <2>1. [c EXCEPT !.sample = s + 1] = Cursor(s + 1, v, i)
    BY DEF Cursor
  <2>2. [Cursor(s + 1, v, i) EXCEPT !.next_value = Place(s + 1, Id)] =
          Cursor(s + 1, Place(s + 1, Id), i)
    BY DEF Cursor
  <2>3. [c EXCEPT !.sample = s + 1, !.next_value = Place(s + 1, Id)] =
          [[c EXCEPT !.sample = s + 1] EXCEPT !.next_value = Place(s + 1, Id)]
    OBVIOUS
  <2>4. QED
    BY <2>1, <2>2, <2>3
<1>6. [c EXCEPT !.next_value = NULL] = Cursor(s, NULL, i)
  BY DEF Cursor
<1> HIDE DEF c
<1>7. QED
  BY <1>1, <1>2, <1>3, <1>4, <1>5, <1>6 DEF Advance, c

\* The first call of next_value serves the id of the first sample.
LEMMA NextFirst ==
  ASSUME InputInv, supplied, cursor = Unstarted, NextValue
  PROVE  value' = Place(1, Id) /\ value' # NULL /\ cursor' = At(1, 0)
<1>1. 1 # NULL /\ Place(1, Id) # NULL /\ batch > 0 /\ 0 < columns
  BY NullFacts, RequestAssumption DEF InputInv, Id
<1>2. First(cursor) = Cursor(1, Place(1, Id), 0)
  <2>1. cursor = Cursor(NULL, NULL, 0) /\ cursor.sample = NULL
    BY DEF Cursor, Unstarted
  <2>2. [cursor EXCEPT !.sample = 1] = Cursor(1, NULL, 0)
    BY <2>1 DEF Cursor
  <2>3. [Cursor(1, NULL, 0) EXCEPT !.next_value = Place(1, Id)] =
          Cursor(1, Place(1, Id), 0)
    BY DEF Cursor
  <2>4. [cursor EXCEPT !.sample = 1, !.next_value = Place(1, Id)] =
          [[cursor EXCEPT !.sample = 1] EXCEPT !.next_value = Place(1, Id)]
    OBVIOUS
  <2>5. QED
    BY <1>1, <2>1, <2>2, <2>3, <2>4 DEF First
<1>3. Cursor(1, Place(1, Id), 0).sample = 1
      /\ Cursor(1, Place(1, Id), 0).next_value = Place(1, Id)
  BY DEF Cursor
<1>4. value' = Place(1, Id) /\ cursor' = Cursor(1, Place(1, Ts), 0)
  BY <1>1, <1>2, <1>3, AdvanceId DEF NextValue
<1>5. At(1, 0) = Cursor(1, Place(1, Ts), 0)
  BY <1>1 DEF At, Cursor, Ts
<1>6. QED
  BY <1>1, <1>4, <1>5

\* Each call but the first serves what the cursor points to.
LEMMA NextServed ==
  ASSUME NEW s, s # NULL, NEW v, NEW i, cursor = Cursor(s, v, i), NextValue
  PROVE  value' = v /\ cursor' = Advance(Cursor(s, v, i))
<1>1. cursor.sample = s /\ cursor.next_value = v
  BY DEF Cursor
<1>2. First(cursor) = cursor
  BY <1>1 DEF First
<1>3. QED
  BY <1>1, <1>2 DEF NextValue

\* A call for a column of the record serves the value of that column.
LEMMA NextAt ==
  ASSUME InputInv, supplied, NEW s \in 1..batch, NEW k \in 0..(columns - 1),
         cursor = At(s, k), NextValue
  PROVE  /\ value' = Place(s, k - 1) /\ value' # NULL
         /\ cursor' = At(s, k + 1)
<1>1. s # NULL /\ Place(s, k - 1) # NULL /\ columns = value_count + 1
  BY NullFacts, RequestAssumption DEF InputInv, Id
<1>2. cursor = Cursor(s, Place(s, k - 1), k)
  BY DEF At, Cursor, InputInv
<1>3. Place(s, k - 1).field # Id
  BY DEF Place, Id
<1>4. Advance(Cursor(s, Place(s, k - 1), k)) =
        IF k < value_count THEN Cursor(s, Place(s, k), k + 1)
        ELSE IF s < batch THEN Cursor(s + 1, Place(s + 1, Id), k)
        ELSE Cursor(s, NULL, k)
  BY <1>3, AdvanceRest
<1>5. At(s, k + 1) =
        IF k < value_count THEN Cursor(s, Place(s, k), k + 1)
        ELSE IF s < batch THEN Cursor(s + 1, Place(s + 1, Id), k)
        ELSE Cursor(s, NULL, k)
  <2>1. (k + 1) - 1 = k /\ value_count \in Nat
    BY DEF InputInv
  <2>2. k + 1 < columns <=> k < value_count
    BY <1>1, <2>1
  <2>3. ~ (k < value_count) => k = value_count
    BY <1>1, <2>1
  <2>4. QED
    BY <2>1, <2>2, <2>3 DEF At, Cursor
<1>6. QED
  BY <1>1, <1>2, <1>4, <1>5, NextServed

\* The call at the end of a record serves the id of the next sample, or NULL.
LEMMA NextEnd ==
  ASSUME InputInv, supplied, NEW s \in 1..batch, cursor = At(s, columns),
         NextValue
  PROVE  IF s < batch
           THEN /\ value' = Place(s + 1, Id) /\ value' # NULL
                /\ cursor' = At(s + 1, 0)
           ELSE value' = NULL /\ cursor' = Cursor(s, NULL, value_count)
<1>1. s # NULL /\ columns = value_count + 1 /\ value_count \in Nat
  BY NullFacts, RequestAssumption DEF InputInv, Id
<1>2. CASE s < batch
  <2>1. s + 1 # NULL /\ Place(s + 1, Id) # NULL
    BY <1>2, NullFacts, RequestAssumption DEF InputInv, Id
  <2>2. cursor = Cursor(s + 1, Place(s + 1, Id), value_count)
    BY <1>1, <1>2 DEF At, Cursor
  <2>3. /\ value' = Place(s + 1, Id)
        /\ cursor' = Cursor(s + 1, Place(s + 1, Ts), 0)
    BY <2>1, <2>2, NextServed, AdvanceId
  <2>4. At(s + 1, 0) = Cursor(s + 1, Place(s + 1, Ts), 0)
    BY <1>1 DEF At, Cursor, Ts
  <2>5. QED
    BY <1>2, <2>1, <2>3, <2>4
<1>3. CASE ~ (s < batch)
  <2>1. cursor = Cursor(s, NULL, value_count)
    BY <1>1, <1>3 DEF At, Cursor
  <2>2. value' = NULL /\ cursor' = Advance(Cursor(s, NULL, value_count))
    BY <1>1, <2>1, NextServed
  <2>3. QED
    BY <1>1, <1>3, <2>2, AdvanceRest
<1>4. QED
  BY <1>2, <1>3

-----------------------------------------------------------------------------
(* The formatting of a request.                                            *)

\* The cursor behind the last value of the last sample, where it stays.
Exhausted == Cursor(batch, NULL, value_count)

\* The iterator of an exhausted cursor answers NULL and leaves it as it is.
LEMMA StaysExhausted ==
  ASSUME InputInv, supplied
  PROVE  First(Exhausted) = Exhausted /\ Advance(Exhausted) = Exhausted
<1>1. batch # NULL /\ batch \in Nat /\ value_count \in Nat
  BY NullFacts, RequestAssumption DEF InputInv
<1>2. First(Exhausted) = Exhausted
  BY <1>1 DEF First, Exhausted, Cursor
<1>3. Advance(Exhausted) = Exhausted
  BY <1>1, AdvanceRest DEF Exhausted
<1>4. QED
  BY <1>2, <1>3

\* The text so far and the cursor, for each step of the formatting.
OpenInv == step = "open" =>
  output = <<>> /\ cursor = Unstarted /\ asked = 0
SchemaInv == step = "schema" =>
  /\ schema /\ column \in 0..columns /\ cursor = Unstarted /\ asked = 0
  /\ output = Text(Types(column), FALSE, <<>>, FALSE)
DataInv == step = "data" =>
  /\ cursor = Unstarted /\ asked = 0
  /\ output = Text(Wanted, FALSE, <<>>, FALSE)
RecordInv == step = "record" =>
  /\ supplied
  /\ \E k \in 0..batch :
       /\ asked = k * (columns + 1) + 1
       /\ output = Text(Wanted, TRUE, Records(k), FALSE)
       /\ IF k < batch THEN value = Place(k + 1, Id) /\ cursor = At(k + 1, 0)
                       ELSE value = NULL /\ cursor = Exhausted
ColumnInv == step = "columns" =>
  /\ supplied /\ column \in 0..columns
  /\ \E s \in 1..batch :
       /\ asked = (s - 1) * (columns + 1) + 1 + column
       /\ output = Text(Wanted, TRUE, RecordsAt(s, column), FALSE)
       /\ cursor = At(s, column)
CloseInv == step = "close" =>
  /\ asked = IF supplied THEN batch * (columns + 1) + 1 ELSE 0
  /\ supplied => cursor = Exhausted
  /\ output = Text(Wanted, TRUE, Records(batch), FALSE)
DoneInv == step = "done" =>
  /\ asked <= batch * (columns + 1) + 1
  /\ main \in Unbegun => output = <<>>
  /\ main \in {"format", "perform"} => output = <<Whole>>

\* A request is formatted only in its place in main, with a schema as long as
\* none was answered.
MakingInv ==
  /\ step \in {"open", "schema", "data", "record", "columns", "close", "done"}
  /\ main # "format" => step = "done"
  /\ main \in {"format", "perform"} => schema = unanswered
  /\ program = "mksigset" => unanswered

FormatInv ==
  /\ InputInv /\ MakingInv
  /\ OpenInv /\ SchemaInv /\ DataInv /\ RecordInv /\ ColumnInv /\ CloseInv
  /\ DoneInv

\* Nothing is formatted at first.
LEMMA FormatInvInit == Init => FormatInv
  BY RequestAssumption
  DEF Init, FormatInit, FormatInv, InputInv, MakingInv, OpenInv, SchemaInv,
      DataInv, RecordInv, ColumnInv, CloseInv, DoneInv

\* The formatting keeps it: each step adds to the text what it should.
LEMMA FormattingStep ==
  ASSUME FormatInv, FormatStep PROVE FormatInv'
<1>0. /\ main = "format" /\ UNCHANGED <<inputs, program, main, unanswered>>
      /\ batch \in Nat /\ columns \in Nat \ {0}
  <2>1. FormatNext => UNCHANGED inputs
    BY Zenon DEF FormatNext, OpenRequest, FormatType, EndSchema, FirstValue,
                 NoValues, OpenRecord, FormatColumn, CloseRecord, EndData,
                 CloseRequest
  <2>2. batch \in Nat /\ columns \in Nat \ {0}
    BY RequestAssumption DEF FormatInv, InputInv
  <2>3. QED
    BY <2>1, <2>2 DEF FormatStep, sessionVars, programVars
<1>1. UNCHANGED <<batch, value_count, columns, supplied, schema>>
  BY <1>0 DEF inputs
<1>2. InputInv' /\ MakingInv'
  <2>1. asked' = asked \/ asked' = asked + 1
    BY DEF FormatStep, FormatNext, OpenRequest, FormatType, EndSchema,
           FirstValue, NoValues, OpenRecord, FormatColumn, CloseRecord,
           EndData, CloseRequest, NextValue, iterator
  <2>2. InputInv'
    BY <1>0, <1>1, <2>1 DEF FormatInv, InputInv
  <2>3. step' \in {"schema", "data", "record", "columns", "close", "done"}
    BY DEF FormatStep, FormatNext, OpenRequest, FormatType, EndSchema,
           FirstValue, NoValues, OpenRecord, FormatColumn, CloseRecord,
           EndData, CloseRequest
  <2>4. QED
    BY <1>0, <1>1, <2>2, <2>3 DEF FormatInv, MakingInv
<1>3. /\ Wanted' = Wanted /\ Whole' = Whole
      /\ \A s, k : At(s, k)' = At(s, k) /\ RecordsAt(s, k)' = RecordsAt(s, k)
      /\ \A k : Records(k)' = Records(k)
  BY <1>1 DEF Wanted, Whole, At, RecordsAt, Records, Expected
<1>4. CASE OpenRequest
  <2>0. output' = Append(<<>>, Opened) /\ Append(<<>>, Opened) = <<Opened>>
    BY <1>4 DEF OpenRequest, FormatInv, OpenInv
  <2>1. output' = Text(<<>>, FALSE, <<>>, FALSE)
    BY <2>0, Zenon DEF Opened, Text
  <2>2. column' = 0 /\ UNCHANGED <<cursor, asked>> /\ Types(0) = <<>>
    BY <1>4, TypesNext DEF OpenRequest, iterator
  <2>3. step' = IF schema THEN "schema" ELSE "data"
    BY <1>4 DEF OpenRequest
  <2>4. cursor = Unstarted /\ asked = 0
    BY <1>4 DEF OpenRequest, FormatInv, OpenInv
  <2>5. CASE schema
    <3>0. column' \in 0..columns' /\ Types(column') = <<>>
      BY <1>0, <1>1, <2>2
    <3>1. SchemaInv'
      BY <1>1, <2>1, <2>2, <2>4, <2>5, <3>0 DEF SchemaInv
    <3>2. QED
      BY <1>2, <2>3, <2>5, <3>1
      DEF FormatInv, OpenInv, DataInv, RecordInv, ColumnInv, CloseInv, DoneInv
  <2>6. CASE ~ schema
    <3>1. DataInv'
      BY <1>1, <2>1, <2>2, <2>4, <2>6 DEF DataInv, Wanted
    <3>2. QED
      BY <1>2, <2>3, <2>6, <3>1
      DEF FormatInv, OpenInv, SchemaInv, RecordInv, ColumnInv, CloseInv, DoneInv
  <2>7. QED
    BY <2>5, <2>6
<1>5. CASE FormatType
  <2>1. /\ schema /\ column \in 0..columns /\ column < columns
        /\ output = Text(Types(column), FALSE, <<>>, FALSE)
        /\ column' = column + 1 /\ UNCHANGED <<cursor, asked>>
        /\ step = "schema" /\ step' = "schema"
        /\ cursor = Unstarted /\ asked = 0
    BY <1>5 DEF FormatType, FormatInv, SchemaInv, iterator
  <2>2. Append(Current.schema, [signal |-> column', comma |-> column > 0])
          = Types(column')
    <3>1. Current.schema = Types(column)
      BY <2>1, BeforeData DEF Current
    <3> column \in Nat
      BY <1>0, <2>1
    <3>2. Append(Types(column), [signal |-> column + 1, comma |-> column > 0])
            = Types(column + 1)
      BY <3>1, TypesNext
    <3>3. QED
      BY <2>1, <3>1, <3>2, Zenon
  <2>3. output' = Text(Types(column'), FALSE, <<>>, FALSE)
    <3> DEFINE old == Types(column)
               types == Types(column')
               no == FALSE
    <3>1. output' = Replace(output, "schema", types)
      BY <1>5, <2>2, Zenon DEF FormatType, Write, Replace
    <3>2. output = Text(old, no, <<>>, no)
      BY <2>1
    <3> HIDE DEF old, types, no
    <3>3. Replace(Text(old, no, <<>>, no), "schema", types)
            = Text(types, no, <<>>, no)
      BY TextWith
    <3>4. QED
      BY <3>1, <3>2, <3>3, Zenon DEF types, no
  <2>4. QED
    BY <1>0, <1>1, <1>2, <1>3, <2>1, <2>3
    DEF FormatInv, OpenInv, SchemaInv, DataInv, RecordInv, ColumnInv,
        CloseInv, DoneInv
<1>6. CASE EndSchema
  BY <1>0, <1>1, <1>2, <1>3, <1>6
  DEF EndSchema, iterator, FormatInv, OpenInv, SchemaInv, DataInv, RecordInv,
      ColumnInv, CloseInv, DoneInv, Wanted
<1>7. CASE FirstValue
  <2>1. /\ supplied /\ cursor = Unstarted /\ asked = 0 /\ step' = "record"
        /\ output = Text(Wanted, FALSE, <<>>, FALSE) /\ NextValue
        /\ batch > 0
    BY <1>7 DEF FirstValue, FormatInv, DataInv, InputInv
  <2>2. value' = Place(1, Id) /\ cursor' = At(1, 0) /\ asked' = 1
    BY <2>1, NextFirst DEF FormatInv, NextValue
  <2>3. output' = Text(Wanted, TRUE, Records(0), FALSE)
    <3>1. output' = Replace(output, "data", TRUE)
      BY <1>7, Zenon DEF FirstValue, Write, Replace
    <3>2. output' = Text(Wanted, TRUE, <<>>, FALSE)
      BY <2>1, <3>1, BeforeData
    <3>3. QED
      BY <3>2, RecordsNext
  <2>4. RecordInv'
    <3>1. asked' = 0 * (columns + 1) + 1 /\ 0 \in 0..batch /\ 0 < batch
          /\ 0 + 1 = 1
      BY <1>0, <2>1, <2>2
    <3>2. QED
      BY <1>1, <1>3, <2>1, <2>2, <2>3, <3>1 DEF RecordInv
  <2>5. QED
    BY <1>2, <2>1, <2>4
    DEF FormatInv, OpenInv, SchemaInv, DataInv, ColumnInv, CloseInv, DoneInv
<1>8. CASE NoValues
  <2>1. /\ ~ supplied /\ asked = 0 /\ batch = 0 /\ step' = "close"
        /\ output = Text(Wanted, FALSE, <<>>, FALSE) /\ asked' = 0
    BY <1>8 DEF NoValues, FormatInv, DataInv, InputInv, iterator
  <2>2. output' = Text(Wanted, TRUE, Records(0), FALSE)
    <3>1. output' = Replace(output, "data", TRUE)
      BY <1>8, Zenon DEF NoValues, Write, Replace
    <3>2. output' = Text(Wanted, TRUE, <<>>, FALSE)
      BY <2>1, <3>1, BeforeData
    <3>3. QED
      BY <3>2, RecordsNext
  <2>3. QED
    BY <1>1, <1>2, <1>3, <2>1, <2>2
    DEF FormatInv, OpenInv, SchemaInv, DataInv, RecordInv, ColumnInv,
        CloseInv, DoneInv
<1>9. CASE OpenRecord
  <2>1. /\ supplied /\ step' = "columns" /\ value # NULL /\ column' = 0
        /\ UNCHANGED <<cursor, asked>>
    BY <1>9 DEF OpenRecord, FormatInv, RecordInv, iterator
  <2>2. PICK k \in 0..batch :
          /\ asked = k * (columns + 1) + 1
          /\ output = Text(Wanted, TRUE, Records(k), FALSE)
          /\ IF k < batch THEN value = Place(k + 1, Id) /\ cursor = At(k + 1, 0)
                          ELSE value = NULL /\ cursor = Exhausted
    BY <1>9 DEF OpenRecord, FormatInv, RecordInv
  <2>3. k < batch /\ k \in Nat /\ value = Place(k + 1, Id)
        /\ cursor = At(k + 1, 0)
    BY <1>0, <2>1, <2>2
  <2>4. [id |-> value, fields |-> <<>>, end |-> "open"] = Begun(k + 1, 0)
    BY <2>3, FieldsNext DEF Begun
  <2>5. output' = Text(Wanted, TRUE, RecordsAt(k + 1, 0), FALSE)
    <3>1. Current.records = Records(k)
      BY <2>2, InData DEF Current
    <3>2. Append(Current.records, Begun(k + 1, 0)) = RecordsAt(k + 1, 0)
      BY <2>3, <3>1, RecordsNext
    <3>3. output' = Replace(output, "records", RecordsAt(k + 1, 0))
      BY <1>9, <2>4, <3>2, Zenon DEF OpenRecord, Write, Replace
    <3>4. QED
      BY <2>2, <3>3, InData
  <2>6. ColumnInv'
    <3>1. /\ k + 1 \in 1..batch /\ (k + 1) - 1 = k
          /\ asked' = ((k + 1) - 1) * (columns + 1) + 1 + column'
      BY <1>0, <2>1, <2>2, <2>3
    <3>2. column' \in 0..columns
      BY <1>0, <2>1
    <3>3. QED
      BY <1>1, <1>3, <2>1, <2>3, <2>5, <3>1, <3>2 DEF ColumnInv
  <2>7. QED
    BY <1>2, <2>1, <2>6
    DEF FormatInv, OpenInv, SchemaInv, DataInv, RecordInv, CloseInv, DoneInv
<1>10. CASE FormatColumn \/ CloseRecord
  <2>1. /\ supplied /\ column \in 0..columns /\ NextValue /\ asked' = asked + 1
    BY <1>10 DEF FormatColumn, CloseRecord, FormatInv, ColumnInv, NextValue
  <2>2. PICK s \in 1..batch :
          /\ asked = (s - 1) * (columns + 1) + 1 + column
          /\ output = Text(Wanted, TRUE, RecordsAt(s, column), FALSE)
          /\ cursor = At(s, column)
    BY <1>10 DEF FormatColumn, CloseRecord, FormatInv, ColumnInv
  <2>3. /\ s \in Nat \ {0} /\ Current.records = RecordsAt(s, column)
        /\ Len(Current.records) = s
        /\ Last(Current.records) = Begun(s, column)
    <3>1. s \in Nat \ {0}
      BY <1>0
    <3>2. Current.records = RecordsAt(s, column)
      BY <2>2, InData DEF Current
    <3>3. QED
      BY <3>1, <3>2, LastRecord
  <2>4. CASE FormatColumn
    <3>1. /\ column \in 0..(columns - 1) /\ step' = "columns"
          /\ column' = column + 1
      BY <1>0, <2>1, <2>4 DEF FormatColumn
    <3>2. value' = Place(s, column - 1) /\ value' # NULL
          /\ cursor' = At(s, column + 1)
      BY <2>1, <2>2, <3>1, NextAt DEF FormatInv
    <3>3. Append(Last(Current.records).fields,
                 [signal |-> column', value |-> value']) = Fields(s, column')
      BY <2>3, <3>1, <3>2, FieldsNext DEF Begun
    <3>4. [RecordsAt(s, column) EXCEPT ![s]["fields"] = Fields(s, column')]
            = RecordsAt(s, column')
      BY <2>3, FieldAdded
    <3>5. output' = Replace(output, "records", RecordsAt(s, column'))
      <4>1. WriteRecord("fields", Fields(s, column'))
        BY <2>4, <3>2, <3>3, Zenon DEF FormatColumn
      <4>2. QED
        BY <2>3, <3>4, <4>1, Zenon DEF WriteRecord, Write, Replace
    <3>6. output' = Text(Wanted, TRUE, RecordsAt(s, column'), FALSE)
      BY <2>2, <3>5, InData
    <3>7. ColumnInv'
      <4>1. /\ asked' = (s - 1) * (columns + 1) + 1 + column'
            /\ column' \in 0..columns
        BY <1>0, <2>1, <2>2, <3>1
      <4>2. QED
        BY <1>1, <1>3, <2>1, <3>1, <3>2, <3>6, <4>1 DEF ColumnInv
    <3>8. QED
      BY <1>2, <3>1, <3>7
      DEF FormatInv, OpenInv, SchemaInv, DataInv, RecordInv, CloseInv, DoneInv
  <2>5. CASE CloseRecord
    <3>1. column = columns /\ step' = "record"
      BY <2>5 DEF CloseRecord
    <3>2. IF s < batch
            THEN /\ value' = Place(s + 1, Id) /\ value' # NULL
                 /\ cursor' = At(s + 1, 0)
            ELSE value' = NULL /\ cursor' = Cursor(s, NULL, value_count)
      BY <2>1, <2>2, <3>1, NextEnd DEF FormatInv
    <3>3. (IF value' # NULL THEN "comma" ELSE "last")
            = IF s < batch THEN "comma" ELSE "last"
      BY <3>2
    <3>4. output' = Replace(output, "records", Records(s))
      <4> DEFINE e == IF s < batch THEN "comma" ELSE "last"
      <4>1. [RecordsAt(s, columns) EXCEPT ![s]["end"] = e] = Records(s)
        BY <2>3, RecordClosed
      <4>2. WriteRecord("end", e)
        BY <2>5, <3>3, Zenon DEF CloseRecord
      <4> HIDE DEF e
      <4>3. QED
        BY <2>3, <3>1, <4>1, <4>2, Zenon DEF WriteRecord, Write, Replace
    <3>5. output' = Text(Wanted, TRUE, Records(s), FALSE)
      BY <2>2, <3>4, InData
    <3>6. asked' = s * (columns + 1) + 1
      <4>1. s * (columns + 1) = (s - 1) * (columns + 1) + (columns + 1)
        BY <1>0, <2>3
      <4>2. (s - 1) * (columns + 1) \in Nat
        BY <1>0, <2>3
      <4>3. QED
        BY <1>0, <2>1, <2>2, <3>1, <4>1, <4>2
    <3>7. RecordInv'
      <4>1. s \in 0..batch /\ (~ (s < batch) => s = batch)
        BY <1>0
      <4>2. ~ (s < batch) => cursor' = Exhausted'
        BY <1>1, <3>2, <4>1 DEF Exhausted, Cursor
      <4>3. QED
        BY <1>1, <1>3, <2>1, <3>2, <3>5, <3>6, <4>1, <4>2 DEF RecordInv
    <3>8. QED
      BY <1>2, <3>1, <3>7
      DEF FormatInv, OpenInv, SchemaInv, DataInv, ColumnInv, CloseInv, DoneInv
  <2>6. QED
    BY <1>10, <2>4, <2>5
<1>11. CASE EndData
  <2>1. /\ supplied /\ step' = "close" /\ UNCHANGED <<output, asked, cursor>>
        /\ value = NULL
    BY <1>11 DEF EndData, FormatInv, RecordInv, iterator
  <2>2. PICK k \in 0..batch :
          /\ asked = k * (columns + 1) + 1
          /\ output = Text(Wanted, TRUE, Records(k), FALSE)
          /\ IF k < batch THEN value = Place(k + 1, Id) /\ cursor = At(k + 1, 0)
                          ELSE value = NULL /\ cursor = Exhausted
    BY <1>11 DEF EndData, FormatInv, RecordInv
  <2>3. k = batch
    <3>1. k < batch => Place(k + 1, Id) # NULL
      BY <1>0, NullFacts, RequestAssumption DEF FormatInv, InputInv, Id
    <3>2. QED
      BY <1>0, <2>1, <2>2, <3>1
  <2>4. CloseInv'
    <3>1. cursor' = Exhausted /\ Exhausted' = Exhausted
      BY <1>1, <2>1, <2>2, <2>3 DEF Exhausted, Cursor
    <3>2. QED
      BY <1>1, <1>3, <2>1, <2>2, <2>3, <3>1 DEF CloseInv
  <2>5. QED
    BY <1>2, <2>1, <2>4
    DEF FormatInv, OpenInv, SchemaInv, DataInv, RecordInv, ColumnInv, DoneInv
<1>12. CASE CloseRequest
  <2>1. /\ output = Text(Wanted, TRUE, Records(batch), FALSE)
        /\ asked = IF supplied THEN batch * (columns + 1) + 1 ELSE 0
        /\ step' = "done" /\ asked' = asked
    BY <1>12 DEF CloseRequest, FormatInv, CloseInv, iterator
  <2>2. output' = Text(Wanted, TRUE, Records(batch), TRUE)
    <3>1. output' = Replace(output, "closed", TRUE)
      BY <1>12, Zenon DEF CloseRequest, Write, Replace
    <3>2. QED
      BY <2>1, <3>1, InData
  <2>3. output' = <<Whole>>
    BY <2>2 DEF Whole, Text, Wanted, Types, Records
  <2>4. asked <= batch * (columns + 1) + 1
    <3>1. batch * (columns + 1) \in Nat
      BY <1>0
    <3>2. QED
      BY <2>1, <3>1
  <2>5. QED
    BY <1>0, <1>1, <1>2, <1>3, <2>1, <2>3, <2>4
    DEF FormatInv, OpenInv, SchemaInv, DataInv, RecordInv, ColumnInv,
        CloseInv, DoneInv, Starting, SettingUp, Unbegun
<1>13. QED
  BY <1>4, <1>5, <1>6, <1>7, <1>8, <1>9, <1>10, <1>11, <1>12
  DEF FormatStep, FormatNext

\* Main starts a request, clears the buffer for it, performs it when it is
\* formatted, and leaves the text alone otherwise.
LEMMA FormatInvStep ==
  ASSUME SessionInv, FormatInv, [Next]_vars PROVE FormatInv'
<1> USE DEF MakingInv, DoneInv, Starting, SettingUp, Unbegun, MainGoto, Exit
<1>0. /\ InputInv /\ MakingInv /\ DoneInv
      /\ OpenInv /\ SchemaInv /\ DataInv /\ RecordInv /\ ColumnInv /\ CloseInv
  BY DEF FormatInv
<1>1. CASE FormatStep
  BY <1>1, FormattingStep
<1>2. ASSUME batch' \in 0..MaxBatch, schema' = unanswered, cursor' = Unstarted,
             asked' = 0, step' = "open", output' = <<>>, main' = "format",
             UNCHANGED <<value_count, columns, program, unanswered>>,
             IF supplied' THEN batch' > 0 /\ program = "cpumon" ELSE batch' = 0
      PROVE  FormatInv'
  <2>1. InputInv'
    BY <1>0, <1>2 DEF InputInv
  <2>2. QED
    BY <1>0, <1>2, <2>1
    DEF FormatInv, OpenInv, SchemaInv, DataInv, RecordInv, ColumnInv, CloseInv,
        Unstarted
<1>3. CASE MakeRequest
  <2>1. /\ main = "make" /\ main' = "format" /\ BeginFormat(0, FALSE, TRUE)
        /\ UNCHANGED <<output, program, unanswered>>
    BY <1>3 DEF MakeRequest, programVars
  <2>2. output = <<>> /\ unanswered = TRUE
    <3>1. program = "mksigset"
      BY <2>1 DEF SessionInv, PlaceInv
    <3>2. QED
      BY <1>0, <2>1, <3>1
  <2>3. QED
    BY <1>2, <2>1, <2>2, RequestAssumption DEF BeginFormat
<1>4. ASSUME NEW n \in 1..MaxBatch, GrabBatch(n) PROVE FormatInv'
  <2>1. /\ main = "batch" /\ main' = "format"
        /\ BeginFormat(n, TRUE, unanswered)
        /\ output' = <<>> /\ UNCHANGED <<program, unanswered>>
    BY <1>4 DEF GrabBatch, ClearBuffer, programVars
  <2>2. program = "cpumon" /\ n \in 0..MaxBatch /\ n > 0
    BY <2>1, RequestAssumption DEF SessionInv, PlaceInv
  <2>3. QED
    BY <1>2, <2>1, <2>2 DEF BeginFormat
<1>5. ASSUME UNCHANGED <<formatVars, program>>,
             main # "format" => main' # "format",
             main' = "perform" => main \in {"format", "perform"},
             main = "format" /\ main' # "format" => step = "done",
             main' \in Unbegun => main \in Unbegun,
             unanswered' = unanswered
               \/ (main' = "batch" /\ program = "cpumon")
      PROVE  FormatInv'
  <2>1. UNCHANGED <<batch, value_count, columns, supplied, schema, cursor,
                    value, asked, column, output, step, program>>
    BY <1>5 DEF formatVars, inputs, iterator
  <2>2. /\ InputInv' /\ OpenInv' /\ SchemaInv' /\ DataInv' /\ RecordInv'
        /\ ColumnInv' /\ CloseInv'
    BY <1>0, <2>1
    DEF InputInv, OpenInv, SchemaInv, DataInv, RecordInv, ColumnInv, CloseInv,
        Exhausted, Cursor, Wanted, At, Records, RecordsAt, Expected, Begun,
        Fields
  <2>3. Whole' = Whole
    BY <2>1 DEF Whole, Expected
  <2>4. MakingInv' /\ DoneInv'
    BY <1>0, <1>5, <2>1, <2>3
  <2>5. QED
    BY <2>2, <2>4 DEF FormatInv
<1>6. CASE GlobalInit \/ GlobalInitFails \/ RegisterHandler \/ RegisterFails
  BY <1>5, <1>6
  DEF GlobalInit, GlobalInitFails, RegisterHandler, RegisterFails
<1>7. CASE InitStep \/ RequestStep \/ CleanupStep
  BY <1>5, <1>7 DEF InitStep, RequestStep, CleanupStep, sessionVars, programVars
<1>8. CASE InitSucceeds \/ InitFails \/ SetupStep
  BY <1>5, <1>8
  DEF InitSucceeds, InitFails, SetupStep, OpenProcStat, NameSignals,
      AllocateSamples, StartSampler, Setup, ProcStatFails, CheckFails,
      programVars
<1>9. CASE PerformRequest \/ FormatFails
  BY <1>5, <1>9 DEF PerformRequest, FormatFails, programVars
<1>10. CASE RequestMade \/ BatchSent \/ SendAgain \/ BatchDropped
  BY <1>5, <1>10
  DEF RequestMade, BatchSent, SendAgain, BatchDropped, Returned, sessionVars,
      programVars
<1>11. CASE DestroyRequest \/ ExitAfterCleanup \/ RunHandlers
  BY <1>5, <1>11 DEF DestroyRequest, ExitAfterCleanup, RunHandlers, programVars
<1>12. CASE UNCHANGED vars
  BY <1>5, <1>12 DEF vars, sessionVars, programVars
<1>13. QED
  BY <1>1, <1>3, <1>4, <1>6, <1>7, <1>8, <1>9, <1>10, <1>11, <1>12 DEF Next

\* The size of a whole request is that of its schema and of its records, and
\* never 0; alone in the buffer, it is the size of the buffer.
LEMMA WholeSize ==
  ASSUME InputInv
  PROVE  /\ Pieces(Whole) \in Nat /\ Pieces(Whole) > 0
         /\ SumFunction([i \in DOMAIN <<Whole>> |-> Pieces(<<Whole>>[i])])
              = Pieces(Whole)
<1>1. Pieces(Whole) \in Nat /\ Pieces(Whole) > 0
  <2>1. batch \in Nat /\ columns \in Nat
    BY RequestAssumption DEF InputInv
  <2>2. PICK t \in Nat : Len(Whole.schema) = t
    <3>1. Len(Types(columns)) = columns /\ Len(<<>>) = 0
      BY <2>1, TypesNext
    <3>2. Whole.schema = IF schema THEN Types(columns) ELSE <<>>
      BY DEF Whole, Types
    <3>3. QED
      BY <2>1, <3>1, <3>2
  <2>3. /\ DOMAIN Whole.records = 1..batch
        /\ \A i \in 1..batch : Whole.records[i].fields = Fields(i, columns)
    BY DEF Whole, Expected, Fields
  <2>4. \A i \in 1..batch : Len(Whole.records[i].fields) = columns
    BY <2>1, <2>3, FieldsNext
  <2> DEFINE q == Whole
  <2> HIDE DEF q
  <2>5. Pieces(q) =
          6 + (IF t > 0 THEN 2 * t + 1 ELSE 0) + (3 + 2 * columns) * batch
    <3>1. Even(q, batch, columns) /\ Len(q.schema) = t
      BY <2>2, <2>3, <2>4 DEF q, Even
    <3>2. QED
      BY <2>1, <3>1, PiecesOf
  <2>6. (3 + 2 * columns) * batch \in Nat
    BY <2>1
  <2>7. QED
    BY <2>5, <2>6 DEF q
<1>2. SumFunction([i \in DOMAIN <<Whole>> |-> Pieces(<<Whole>>[i])])
        = Pieces(Whole)
  <2> DEFINE k == Pieces(Whole)
             f == [i \in DOMAIN <<Whole>> |-> Pieces(<<Whole>>[i])]
  <2>1. DOMAIN f = {1} /\ f[1] = k
    OBVIOUS
  <2> HIDE DEF k, f
  <2> DEFINE it == CHOOSE h : h = [s \in SUBSET {1} |->
                     IF s = {} THEN 0
                     ELSE LET x == CHOOSE x \in s : TRUE
                          IN  f[x] + h[s \ {x}]]
             sum == [s \in SUBSET {1} |-> IF s = {} THEN 0 ELSE k]
  <2>2. SumFunction(f) = it[{1}]
    BY <2>1 DEF SumFunction, SumFunctionOnSet, FoldFunctionOnSet, MapThenFoldSet
  <2>3. sum = [s \in SUBSET {1} |->
                     IF s = {} THEN 0
                     ELSE LET x == CHOOSE x \in s : TRUE
                          IN  f[x] + sum[s \ {x}]]
    <3>1. ASSUME NEW s \in SUBSET {1}
          PROVE  (IF s = {} THEN 0 ELSE k) =
                   IF s = {} THEN 0
                   ELSE LET x == CHOOSE x \in s : TRUE
                        IN  f[x] + sum[s \ {x}]
      <4>1. CASE s = {1}
        <5> DEFINE x == CHOOSE x \in s : TRUE
        <5>1. x = 1 /\ s \ {x} = {} /\ sum[{}] = 0 /\ k + 0 = k
          BY <1>1, <4>1 DEF k
        <5> HIDE DEF x, sum
        <5>2. QED
          BY <2>1, <4>1, <5>1 DEF x
      <4>2. QED
        BY <4>1
    <3>2. QED
      BY <3>1
  <2>4. it = [s \in SUBSET {1} |->
                     IF s = {} THEN 0
                     ELSE LET x == CHOOSE x \in s : TRUE
                          IN  f[x] + it[s \ {x}]]
    <3> HIDE DEF sum
    <3>1. QED
      BY <2>3
  <2> HIDE DEF it
  <2>5. it[{1}] = f[1] + it[{}] /\ it[{}] = 0
    BY <2>4
  <2>6. QED
    BY <1>1, <2>1, <2>2, <2>5 DEF f, k
<1>3. QED
  BY <1>1, <1>2

\* The size libcurl is told is that of the text, at each attempt.
SizeInv ==
  /\ main = "perform" => size = Pieces(Whole)
  /\ call = "perform" => post_size = size

\* Only PerformRequest sets the size, and libcurl is told it.
LEMMA SizeStep ==
  ASSUME SessionInv, FormatInv, SizeInv, [Next]_vars PROVE SizeInv'
<1> USE DEF SizeInv, MainGoto, Exit, Goto
<1>1. Pieces(Whole) > 0
  BY WholeSize DEF FormatInv
<1>2. call = "size" => main = "perform"
  BY DEF SessionInv, PlaceInv, Mains, Starting, SettingUp, Ending, Exited,
         Acquiring, Unwinding, Closing, Using
<1>3. UNCHANGED inputs => Pieces(Whole)' = Pieces(Whole)
  <2>1. UNCHANGED inputs => Whole' = Whole
    BY DEF inputs, Whole, Expected
  <2>2. QED
    BY <2>1
<1>4. CASE PerformRequest
  <2>1. /\ step = "done" /\ main = "format" /\ UNCHANGED inputs
        /\ call' = "fields"
        /\ size' = SumFunction([i \in DOMAIN output |-> Pieces(output[i])])
    BY <1>4 DEF PerformRequest, formatVars, Request
  <2>2. output = <<Whole>>
    BY <2>1 DEF FormatInv, DoneInv
  <2>3. size' = Pieces(Whole)
    BY <2>1, <2>2, WholeSize DEF FormatInv
  <2>4. QED
    BY <1>3, <2>1, <2>3
<1>5. CASE RequestStep
  <2>1. main = "perform" /\ main' = "perform" /\ UNCHANGED inputs
    BY <1>5 DEF RequestStep, formatVars, sessionVars
  <2>2. UNCHANGED size /\ (call' = "perform" => post_size' = size)
    BY <1>1, <1>5, <2>1 
    DEF RequestStep, RequestNext, SetFields, SetSize, RequestFails, Perform
  <2>3. QED
    BY <1>3, <2>1, <2>2
<1>6. CASE UNCHANGED <<inputs, size, post_size>> /\ call' # "perform"
               /\ (main' = "perform" => main = "perform")
  BY <1>3, <1>6
<1>7. CASE UNCHANGED <<inputs, size, post_size, call>>
               /\ (main' = "perform" => main = "perform")
  BY <1>3, <1>7
<1>8. CASE SendAgain
  BY <1>3, <1>8 DEF SendAgain, Returned, Request, formatVars, sessionVars
<1>9. CASE InitStep
  BY <1>6, <1>9
  DEF InitStep, InitNext, CreateHandle, CreateHandleFails, AllocContext,
      AllocContextFails, CreateUrl, SetUrlPart, UrlFails, AppendHeader,
      FormatToken, AppendToken, HeadersFail, SetOption, SetOptionFails,
      InitDone, FreeHeaders, FreeUrl, FreeContext, FreeHandle, formatVars,
      sessionVars, requestVars
<1>10. CASE CleanupStep
  BY <1>6, <1>10 DEF CleanupStep, Cleanup, formatVars, sessionVars, requestVars
<1>11. CASE GlobalInit \/ GlobalInitFails \/ RegisterHandler \/ RegisterFails
  BY <1>7, <1>11
  DEF GlobalInit, GlobalInitFails, RegisterHandler, RegisterFails, contextVars,
      formatVars, requestVars
<1>12. CASE InitSucceeds \/ InitFails \/ SetupStep
  BY <1>7, <1>12
  DEF InitSucceeds, InitFails, SetupStep, OpenProcStat, NameSignals,
      AllocateSamples, StartSampler, Setup, ProcStatFails, CheckFails,
      contextVars, formatVars, requestVars
<1>13. CASE MakeRequest \/ FormatFails \/ (\E n \in 1..MaxBatch : GrabBatch(n))
  <2>1. /\ main' # "perform" /\ UNCHANGED <<size, post_size, call>>
    BY <1>13
    DEF MakeRequest, FormatFails, GrabBatch, contextVars, requestVars
  <2>2. call # "perform"
    BY <1>13
    DEF MakeRequest, FormatFails, GrabBatch, SessionInv, PlaceInv
  <2>3. QED
    BY <2>1, <2>2
<1>14. CASE FormatStep
  <2>1. UNCHANGED <<main, call, size, post_size>> /\ main = "format"
    BY <1>14 DEF FormatStep, contextVars, requestVars, sessionVars
  <2>2. QED
    BY <2>1
<1>15. CASE RequestMade \/ BatchSent \/ BatchDropped
  BY <1>7, <1>15
  DEF RequestMade, BatchSent, BatchDropped, contextVars, formatVars, requestVars
<1>16. CASE DestroyRequest \/ ExitAfterCleanup \/ RunHandlers
  BY <1>7, <1>16
  DEF DestroyRequest, ExitAfterCleanup, RunHandlers, contextVars, formatVars,
      requestVars
<1>17. CASE UNCHANGED vars
  BY <1>7, <1>17 DEF vars, contextVars, formatVars, requestVars, sessionVars
<1>18. QED
  BY <1>4, <1>5, <1>8, <1>9, <1>10, <1>11, <1>12, <1>13, <1>14, <1>15, <1>16,
     <1>17
  DEF Next

-----------------------------------------------------------------------------
(* The results about the context and the programs.                         *)

IndInv == OwnedInv /\ SessionInv /\ AnswerInv

\* Whatever fails, the context, the programs and the answers stay in step.
THEOREM InductiveInvariant == Spec => []IndInv
<1>1. Init => IndInv
  BY OwnedInit, SessionInit, AnswerInit DEF IndInv
<1>2. IndInv /\ [Next]_vars => IndInv'
  BY OwnedStep, SessionStep, AnswerStep DEF IndInv
<1>3. QED
  BY <1>1, <1>2, PTL DEF Spec

\* Everything acquired is released, whichever step fails, with the exceptions
\* that NothingLeaked names.
THEOREM NoLeaks == Spec => []NothingLeaked
<1>1. IndInv => NothingLeaked
  <2> SUFFICES ASSUME IndInv PROVE NothingLeaked
    OBVIOUS
  <2>1. /\ call \in {"failed", "closed"} => \A r \in Resources : owned[r] = 0
        /\ call = "open" =>
             \A r \in Resources : owned[r] = IF r = "token" THEN 0 ELSE 1
    BY DEF IndInv, OwnedInv, Resources, HasUrl, HasHeaders, Using
  <2>2. main = "exited" =>
          /\ call = "open" =>
               /\ program = "cpumon" /\ exit_code = "failure"
               /\ request = "none" /\ library = "down"
          /\ request = "live" =>
               program = "mksigset" /\ exit_code = "failure"
          /\ library = "up" => ~ handler /\ call = "start"
    BY DEF IndInv, SessionInv, LibraryInv, ExitInv, Exited
  <2>3. QED
    BY <2>1, <2>2 DEF NothingLeaked
<1>2. QED
  BY <1>1, InductiveInvariant, PTL

\* libcurl never uses memory that was given back.
THEOREM NothingDangles == Spec => []LentIsAlive
<1>1. IndInv => LentIsAlive
  <2> SUFFICES ASSUME IndInv PROVE LentIsAlive
    OBVIOUS
  <2> USE DEF OwnedInv, Resources, Calls, HasUrl, HasHeaders, Acquiring,
              Unwinding, Using, Closing
  <2>1. OwnedInv /\ SessionInv
    BY DEF IndInv
  <2>2. ASSUME owned["curl"] = 1, "fivis" \in Lent PROVE owned["fivis"] = 1
    <3>1. PICK i \in 1..opt : "fivis" = Options[i]
      BY <2>2 DEF Lent
    <3>2. i \in 1..8
      BY <2>1, <3>1
    <3>3. i = 8
      BY <3>1, <3>2 DEF Options
    <3>4. opt = 8
      BY <2>1, <3>1, <3>3
    <3>5. QED
      BY <2>1, <2>2, <3>4
  <2>3. ASSUME call = "perform"
        PROVE  /\ \A r \in Lent : owned[r] = 1
               /\ fields = "live" /\ request = "live" /\ library = "up"
    <3>1. main = "perform"
      BY <2>1, <2>3
      DEF SessionInv, PlaceInv, Mains, Starting, SettingUp, Ending, Exited
    <3>2. fields = "live" /\ request = "live" /\ library = "up"
      BY <2>1, <2>3, <3>1 DEF SessionInv, LibraryInv, RequestInv, Exited
    <3>3. ASSUME NEW r \in Lent PROVE r \in {"fivis", "url", "headers"}
      <4>1. PICK i \in 1..opt : r = Options[i] /\ r \in Resources
        BY DEF Lent
      <4>2. i \in 1..8
        BY <2>1, <4>1
      <4>3. QED
        BY <4>1, <4>2 DEF Options
    <3>4. QED
      BY <2>1, <2>3, <3>2, <3>3
  <2>4. QED
    BY <2>2, <2>3 DEF LentIsAlive
<1>2. QED
  BY <1>1, InductiveInvariant, PTL

\* What the library answers says what became of the request.
THEOREM ResultsTruthful == Spec => []ResultTruthful
<1>1. IndInv => ResultTruthful
  BY DEF IndInv, AnswerInv, ResultInv
<1>2. QED
  BY <1>1, InductiveInvariant, PTL

\* The exit code of mksigset says whether the signal set is there.
THEOREM ExitsTruthful == Spec => []ExitTruthful
<1>1. IndInv => ExitTruthful
  BY DEF IndInv, AnswerInv, OutcomeInv, ExitTruthful, Exited, Unsure
<1>2. QED
  BY <1>1, InductiveInvariant, PTL

-----------------------------------------------------------------------------
(* The results about the text of the requests.                             *)

\* The text, the iterator and the size go together all the time.
THEOREM TextInvariant == Spec => [](FormatInv /\ SizeInv)
<1>1. Init => FormatInv /\ SizeInv
  BY FormatInvInit DEF Init, ContextInit, SizeInv
<1>2. IndInv /\ FormatInv /\ SizeInv /\ [Next]_vars => (FormatInv /\ SizeInv)'
  BY FormatInvStep, SizeStep DEF IndInv
<1>3. QED
  BY <1>1, <1>2, InductiveInvariant, PTL DEF Spec

\* A request has one whole record for each sample, in order.
THEOREM RecordsComplete == Spec => []OneRecordPerSample
<1>1. FormatInv => OneRecordPerSample
  <2>1. SUFFICES ASSUME FormatInv, step = "close" 
                 PROVE Current.records = [s \in 1..batch |-> Expected(s)]
    BY DEF OneRecordPerSample
  <2>2. output = Text(Wanted, TRUE, Records(batch), FALSE)
    BY <2>1 DEF FormatInv, CloseInv
  <2>3. QED
    BY <2>2, InData DEF Current, Records
<1>2. QED
  BY <1>1, TextInvariant, PTL

\* The iterator is asked once for each value, and once more at the end, and is
\* exhausted then.
THEOREM IterationEnds == Spec => []EndsAtNull
<1>1. FormatInv => EndsAtNull
  <2> SUFFICES ASSUME FormatInv PROVE EndsAtNull
    OBVIOUS
  <2>1. /\ batch \in Nat /\ columns \in Nat /\ asked \in Nat
        /\ batch * (columns + 1) \in Nat
    BY RequestAssumption DEF FormatInv, InputInv
  <2>2. ASSUME step \notin {"record", "columns"}
        PROVE  /\ asked <= batch * (columns + 1) + 1
               /\ step = "close" /\ supplied =>
                    asked = batch * (columns + 1) + 1
    <3>1. \/ step \in {"open", "schema", "data"} /\ asked = 0
          \/ /\ step = "close"
             /\ asked = IF supplied THEN batch * (columns + 1) + 1 ELSE 0
          \/ step = "done" /\ asked <= batch * (columns + 1) + 1
      BY <2>2
      DEF FormatInv, MakingInv, OpenInv, SchemaInv, DataInv, CloseInv, DoneInv
    <3>2. QED
      BY <2>1, <3>1
  <2>3. ASSUME NEW k \in 0..batch
        PROVE  k * (columns + 1) <= batch * (columns + 1)
    <3>1. batch * (columns + 1) =
            k * (columns + 1) + (batch - k) * (columns + 1)
      BY <2>1
    <3>2. (batch - k) * (columns + 1) \in Nat /\ k * (columns + 1) \in Nat
      BY <2>1
    <3>3. QED
      BY <2>1, <3>1, <3>2
  <2>4. ASSUME step = "record" PROVE asked <= batch * (columns + 1) + 1
    <3>1. PICK k \in 0..batch : asked = k * (columns + 1) + 1
      BY <2>4 DEF FormatInv, RecordInv
    <3>2. k * (columns + 1) \in Int
      BY <2>1
    <3>3. QED
      BY <2>1, <2>3, <3>1, <3>2
  <2>5. ASSUME step = "columns" PROVE asked <= batch * (columns + 1) + 1
    <3>1. PICK s \in 1..batch : asked = (s - 1) * (columns + 1) + 1 + column
      BY <2>5 DEF FormatInv, ColumnInv
    <3>2. column \in 0..columns
      BY <2>5 DEF FormatInv, ColumnInv
    <3>3. /\ s \in 0..batch /\ s * (columns + 1) \in Int
          /\ (s - 1) * (columns + 1) + (columns + 1) = s * (columns + 1)
      BY <2>1
    <3>4. (s - 1) * (columns + 1) \in Int
      BY <2>1
    <3>5. s * (columns + 1) <= batch * (columns + 1)
      BY <2>3, <3>3
    <3>6. QED
      BY <2>1, <3>1, <3>2, <3>3, <3>4, <3>5
  <2>6. ASSUME step = "close", supplied
        PROVE  /\ cursor.sample = batch /\ cursor.next_value = NULL
               /\ First(cursor) = cursor /\ Advance(cursor) = cursor
    <3>1. cursor = Exhausted
      BY <2>6 DEF FormatInv, CloseInv
    <3>2. Exhausted.sample = batch /\ Exhausted.next_value = NULL
      BY DEF Exhausted, Cursor
    <3>3. QED
      BY <2>6, <3>1, <3>2, StaysExhausted DEF FormatInv
  <2>7. QED
    BY <2>2, <2>4, <2>5, <2>6 DEF EndsAtNull
<1>2. QED
  BY <1>1, TextInvariant, PTL

\* What is posted, at each attempt, is one whole request, in its size.
THEOREM PostsTheWhole == Spec => []PostedWhole
<1>1. IndInv /\ FormatInv /\ SizeInv => PostedWhole
  <2> SUFFICES ASSUME IndInv, FormatInv, SizeInv, call = "perform"
               PROVE  /\ output = <<Whole>> /\ schema = unanswered
                      /\ post_size = Pieces(Whole)
    BY DEF PostedWhole
  <2>1. main = "perform"
    BY DEF IndInv, SessionInv, PlaceInv, Mains, Starting, SettingUp, Ending,
           Exited, Acquiring, Unwinding, Closing
  <2>2. output = <<Whole>> /\ schema = unanswered
    BY <2>1 DEF FormatInv, MakingInv, DoneInv
  <2>3. QED
    BY <2>1, <2>2 DEF SizeInv
<1>2. QED
  BY <1>1, InductiveInvariant, TextInvariant, PTL
=============================================================================
