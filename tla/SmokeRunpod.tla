---------------------------- MODULE SmokeRunpod ----------------------------
(***************************************************************************)
(* scripts/smoke_runpod.py --mode diagnose: three probes of the Pod, each  *)
(* of which may end the script with a category of its own.                 *)
(*                                                                         *)
(* The module has no behaviour of its own: manage_runpod.py runs the       *)
(* script as a child process.                                              *)
(***************************************************************************)
EXTENDS Integers

VARIABLE
    smoke  \* the child: what it is at, what it found, whether it was served

DiagnosticCategory ==
    {"endpoint_unset", "endpoint_unreachable", "health_non_200", "auth_failure",
     "model_mismatch_or_bad_request", "backend_not_ready", "malformed_response",
     "success"}

Probing == {"reach", "health", "chat"}

\* httpx.HTTPError instead of a status.
NoAnswer == 0

\* One status for each case that the probes tell apart.
Status == {200, 204, 302, 400, 401, 403, 404, 429, 500, 503}

NoSmoke == [at |-> "off", category |-> "none", served |-> FALSE]

Spawn == smoke' = [NoSmoke EXCEPT !.at = "reach"]

\* The child is waited for, or killed.
Gone == [smoke EXCEPT !.at = "off"]

Finds(category) == [smoke EXCEPT !.at = "exited", !.category = category]

-----------------------------------------------------------------------------

\* What connecting to the addresses of the host may come to; a refusal and a
\* reset are signs of life.
Connect == {"connected", "refused", "reset", "timed_out", "unreachable"}

\* No outcome at all: the name cannot be resolved.
_probe_endpoint_reachable(outcomes) ==
    outcomes \cap {"connected", "refused", "reset"} # {}

ProbeReach ==
    /\ smoke.at = "reach"
    /\ \E outcomes \in SUBSET Connect :
          smoke' = IF _probe_endpoint_reachable(outcomes)
                     THEN [smoke EXCEPT !.at = "health"]
                     ELSE Finds("endpoint_unreachable")

\* A template without the route is left to the next probe.
_probe_health(status) ==
    CASE status \in {200, 404} -> "none"
      [] status \in {401, 403} -> "auth_failure"
      [] status = NoAnswer     -> "endpoint_unreachable"
      [] OTHER                 -> "health_non_200"

ProbeHealth ==
    /\ smoke.at = "health"
    /\ \E status \in Status \cup {NoAnswer} :
          smoke' = IF _probe_health(status) = "none"
                     THEN [smoke EXCEPT !.at = "chat"]
                     ELSE Finds(_probe_health(status))

\* A bug: what is not an error is a success.
_classify_status_lax(status) ==
    CASE status < 400          -> "none"
      [] status \in {401, 403} -> "auth_failure"
      [] status \in 500..599   -> "backend_not_ready"
      [] OTHER                 -> "model_mismatch_or_bad_request"

_classify_status(status) ==
    CASE status \in 200..299   -> "none"
      [] status \in {401, 403} -> "auth_failure"
      [] status \in 500..599   -> "backend_not_ready"
      [] OTHER                 -> "model_mismatch_or_bad_request"

_probe_chat_completions(status, content) ==
    IF status = NoAnswer THEN "endpoint_unreachable"
    ELSE IF _classify_status(status) # "none" THEN _classify_status(status)
    ELSE IF content THEN "success" ELSE "malformed_response"

\* The Pod serves the completion: an answer of the 2xx class with content.
ProbeChat ==
    /\ smoke.at = "chat"
    /\ \E status \in Status \cup {NoAnswer}, content \in BOOLEAN :
          smoke' = [Finds(_probe_chat_completions(status, content)) EXCEPT
                      !.served = status \in 200..299 /\ content]

SmokeStep == ProbeReach \/ ProbeHealth \/ ProbeChat

SmokeTypeOK ==
    smoke \in [at: {"off", "exited"} \cup Probing,
               category: DiagnosticCategory \cup {"none"},
               served: BOOLEAN]

=============================================================================
