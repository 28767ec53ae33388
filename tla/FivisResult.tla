---------------------------- MODULE FivisResult ----------------------------
(***************************************************************************)
(* How fivis_signals_perform_request turns what libcurl reports into a     *)
(* fivis_result_t, and what may have become of the request in each case.   *)
(***************************************************************************)
EXTENDS Integers

\* fivis_result_t
Results == {"OK", "ERR_GENERAL", "ERR_REQUEST", "ERR_NETWORK", "ERR_LOCATION",
            "ERR_SERVER"}

\* Outcomes of curl_easy_perform the code tells apart: no connection could be
\* made (to the host or its proxy), CURLOPT_FAILONERROR saw a status of 400 or
\* more, any other error, or an answer with a status below 400.
Codes == {"OK", "NO_CONNECTION", "HTTP_RETURNED_ERROR", "UNKNOWN"}

\* The statuses that come with a code; 0 when there was no answer.
Statuses == [OK |-> {200, 302}, NO_CONNECTION |-> {0},
             HTTP_RETURNED_ERROR |-> {404, 500}, UNKNOWN |-> {0, 200}]

Outcomes == {o \in [code : Codes, status : {0, 200, 302, 404, 500}] :
               o.status \in Statuses[o.code]}

\* Did the server store the request?  Nobody can tell after an error of its own,
\* or when the connection breaks before the answer.
MayBeStored(o) == IF o.code = "UNKNOWN" \/ o.status = 500 THEN BOOLEAN
                  ELSE {o.code = "OK" /\ o.status = 200}

\* The switch over the code.
ErrorOf == [NO_CONNECTION |-> "ERR_NETWORK", UNKNOWN |-> "ERR_GENERAL",
            HTTP_RETURNED_ERROR |-> "ERR_SERVER"]

\* A mistake that stands in for Classify: the redirect is not looked for.
ClassifyNoRedirect(o) == IF o.code = "OK" THEN "OK" ELSE ErrorOf[o.code]

\* The switch, or the test for a redirect.
Classify(o) ==
  IF o.code # "OK" THEN ErrorOf[o.code]
  ELSE IF o.status >= 300 /\ o.status < 400 THEN "ERR_LOCATION" ELSE "OK"
=============================================================================
