---------------------------- MODULE FivisContext ----------------------------
(***************************************************************************)
(* The life of a FIVIS context (fivis.c): the steps of fivis_init, each of *)
(* which can fail and unwinds what the ones before it acquired, requests   *)
(* over the context, and fivis_cleanup.  libcurl keeps pointers to what it *)
(* is given: the URL, the headers, the error buffer inside the context and *)
(* the data to post.                                                       *)
(***************************************************************************)
EXTENDS FivisResult, Sequences

Resources == {"curl", "fivis", "url", "headers", "token"}

\* A plausible mistake: Options with the error buffer set first.
ErrorBufferFirst ==
  <<"fivis", "url", "post", "headers", "encoding", "verify", "verbose",
    "fail_on_error">>

\* The options __curl_init sets, in order; three of them are pointers that the
\* easy handle keeps: the URL, the header list, the error buffer in the context.
Options == <<"url", "post", "headers", "encoding", "verify", "verbose",
             "fail_on_error", "fivis">>

VARIABLES
  call,       \* the next step of the call in progress
  owned,      \* how many times each resource is allocated
  appended,   \* strings in the header list
  opt,        \* options set in the easy handle
  reported,   \* was last_error set by the current call, or by the last one?
  fields,     \* CURLOPT_POSTFIELDS: "none", the "live" buffer or freed memory
  size,       \* argument of fivis_signals_perform_request
  post_size,  \* CURLOPT_POSTFIELDSIZE of the handle, -1 by default
  result,     \* what the last request answered
  stored      \* did the server store the last request?

initVars == <<owned, appended, opt>>
requestVars == <<fields, size, post_size, result, stored>>
contextVars == <<call, initVars, reported, requestVars>>

Goto(from, to) == call = from /\ call' = to
Acquire(r) == owned' = [owned EXCEPT ![r] = @ + 1]
Release(r) == owned' = [owned EXCEPT ![r] = @ - 1]
Report == reported' = TRUE

\* What the easy handle has pointers to.
Lent == {Options[i] : i \in 1..opt} \cap Resources

-----------------------------------------------------------------------------
(* Plausible mistakes: each stands in for the definition its comment names. *)

\* FreeHeaders that goes on at the wrong label.
FreeHeadersSkips ==
  /\ Goto("fail_curl_init", "fail_api_url") /\ Release("headers")
  /\ UNCHANGED <<appended, opt, reported, requestVars>>

-----------------------------------------------------------------------------
(* fivis_init.                                                             *)

CreateHandle ==
  /\ Goto("start", "malloc") /\ Acquire("curl")
  /\ UNCHANGED <<appended, opt, reported, requestVars>>
CreateHandleFails ==
  /\ Goto("start", "failed") /\ Report
  /\ UNCHANGED <<initVars, requestVars>>

AllocContext ==
  /\ Goto("malloc", "url") /\ Acquire("fivis")
  /\ UNCHANGED <<appended, opt, reported, requestVars>>
AllocContextFails ==
  /\ Goto("malloc", "fail_fivis") /\ Report
  /\ UNCHANGED <<initVars, requestVars>>

\* __curl_init_url: a URL handle, its host, its path.
CreateUrl ==
  /\ Goto("url", "url_host") /\ Acquire("url")
  /\ UNCHANGED <<appended, opt, reported, requestVars>>
SetUrlPart ==
  /\ Goto("url_host", "url_path") \/ Goto("url_path", "headers")
  /\ UNCHANGED <<initVars, reported, requestVars>>

\* It frees the handle itself when a part cannot be set.
UrlFails ==
  /\ call \in {"url", "url_host", "url_path"} /\ call' = "fail_api_url"
  /\ owned' = [owned EXCEPT !["url"] = 0]
  /\ Report
  /\ UNCHANGED <<appended, opt, requestVars>>

\* __prepare_http_headers: two fixed strings, then the access token, which is
\* formatted, copied into the list and freed.
AppendHeader ==
  /\ call = "headers" /\ appended < 2
  /\ appended' = appended + 1
  /\ owned' = [owned EXCEPT !["headers"] = 1]
  /\ UNCHANGED <<call, opt, reported, requestVars>>
FormatToken ==
  /\ appended = 2 /\ Goto("headers", "token") /\ Acquire("token")
  /\ UNCHANGED <<appended, opt, reported, requestVars>>
AppendToken ==
  /\ Goto("token", "setopt") /\ Release("token")
  /\ appended' = appended + 1
  /\ UNCHANGED <<opt, reported, requestVars>>

\* It frees the token and the list itself when one of these steps fails.
HeadersFail ==
  /\ call \in {"headers", "token"} /\ call' = "fail_http_headers"
  /\ owned' = [owned EXCEPT !["headers"] = 0, !["token"] = 0]
  /\ Report
  /\ UNCHANGED <<appended, opt, requestVars>>

\* __curl_init
SetOption ==
  /\ call = "setopt" /\ opt < Len(Options)
  /\ opt' = opt + 1
  /\ UNCHANGED <<call, owned, appended, reported, requestVars>>
SetOptionFails ==
  /\ opt < Len(Options) /\ Goto("setopt", "fail_curl_init") /\ Report
  /\ UNCHANGED <<initVars, requestVars>>
InitDone ==
  /\ opt = Len(Options) /\ Goto("setopt", "open")
  /\ UNCHANGED <<initVars, reported, requestVars>>

\* The labels at the end of fivis_init.
FreeHeaders ==
  /\ Goto("fail_curl_init", "fail_http_headers") /\ Release("headers")
  /\ UNCHANGED <<appended, opt, reported, requestVars>>
FreeUrl ==
  /\ Goto("fail_http_headers", "fail_api_url") /\ Release("url")
  /\ UNCHANGED <<appended, opt, reported, requestVars>>
FreeContext ==
  /\ Goto("fail_api_url", "fail_fivis") /\ Release("fivis")
  /\ UNCHANGED <<appended, opt, reported, requestVars>>
FreeHandle ==
  /\ Goto("fail_fivis", "failed") /\ Release("curl")
  /\ UNCHANGED <<appended, opt, reported, requestVars>>

-----------------------------------------------------------------------------
(* fivis_signals_perform_request.                                          *)

Request(n) ==
  /\ Goto("open", "fields")
  /\ size' = n /\ result' = "none" /\ stored' = FALSE /\ reported' = FALSE
  /\ UNCHANGED <<initVars, fields, post_size>>

\* libcurl keeps the pointer, not the data.
SetFields ==
  /\ Goto("fields", "size")
  /\ fields' = "live"
  /\ UNCHANGED <<initVars, reported, size, post_size, result, stored>>

\* A size of 0 leaves the option as it is.
SetSize ==
  /\ Goto("size", "perform")
  /\ post_size' = IF size > 0 THEN size ELSE post_size
  /\ UNCHANGED <<initVars, reported, fields, size, result, stored>>

\* Either option is refused.
RequestFails ==
  /\ call \in {"fields", "size"} /\ call' = "open"
  /\ result' = "ERR_REQUEST" /\ Report
  /\ UNCHANGED <<initVars, fields, size, post_size, stored>>

\* curl_easy_perform, and the answer made of its code and the HTTP status.
Perform(o) ==
  /\ Goto("perform", "open")
  /\ stored' \in MayBeStored(o)
  /\ result' = Classify(o)
  /\ reported' = (Classify(o) # "OK")
  /\ UNCHANGED <<initVars, fields, size, post_size>>

-----------------------------------------------------------------------------
(* fivis_cleanup.                                                          *)

Cleanup ==
  /\ \/ Goto("open", "close_url") /\ Release("headers")
     \/ Goto("close_url", "close_curl") /\ Release("url")
     \/ Goto("close_curl", "close_fivis") /\ Release("curl")
     \/ Goto("close_fivis", "closed") /\ Release("fivis")
  /\ UNCHANGED <<appended, opt, reported, requestVars>>

ContextInit ==
  /\ call = "start" /\ owned = [r \in Resources |-> 0]
  /\ appended = 0 /\ opt = 0 /\ reported = FALSE
  /\ fields = "none" /\ size = 0 /\ post_size = -1
  /\ result = "none" /\ stored = FALSE

InitNext ==
  \/ CreateHandle \/ CreateHandleFails \/ AllocContext \/ AllocContextFails
  \/ CreateUrl \/ SetUrlPart \/ UrlFails
  \/ AppendHeader \/ FormatToken \/ AppendToken \/ HeadersFail
  \/ SetOption \/ SetOptionFails \/ InitDone
  \/ FreeHeaders \/ FreeUrl \/ FreeContext \/ FreeHandle

RequestNext ==
  \/ SetFields \/ SetSize \/ RequestFails
  \/ \E o \in Outcomes : Perform(o)

-----------------------------------------------------------------------------
(* Properties.                                                             *)

\* FIVIS_OK is answered only for a request the server has, and no request it has
\* is reported as refused, redirected or never sent.  A call that fails leaves
\* its reason for fivis_last_error, and one that succeeds does not touch it.
ResultTruthful ==
  /\ call = "open" =>
       /\ result = "OK" => stored
       /\ stored => result \in {"OK", "ERR_GENERAL", "ERR_SERVER"}
       /\ reported <=> result \notin {"OK", "none"}
  /\ call = "failed" => reported
=============================================================================
