------------------------- MODULE OperationalReport -------------------------
(***************************************************************************)
(* operational_report.py and cli/operational_report.py: the JSON of a      *)
(* scenario is read, checked, classified, rendered as markdown and swept   *)
(* for sensitive shapes, which gives a page or an exit code.               *)
(*                                                                         *)
(* The JSON is a record of what these steps look at: whether it parses,    *)
(* the statuses of its phases, which shapes of text its tokens have and    *)
(* the two counters the classifier reads.  Every token of the JSON but     *)
(* runpod_cleanup_confirmed is rendered, so the shapes of the page are     *)
(* those of the input.                                                     *)
(***************************************************************************)
EXTENDS Naturals

PHASE_STATUS_VOCABULARY == {"ok", "warn", "fail", "skipped"}

\* confirmed: the value of runpod_cleanup_confirmed; only the JSON literal
\* true is "true", the string "true" or the number 1 is "truthy".
ScenarioResult ==
    [parses    : BOOLEAN,
     statuses  : SUBSET (PHASE_STATUS_VOCABULARY \cup {"error"}),
     shapes    : SUBSET {"plain", "vault_path", "url", "pod_id",
                         "bearer_token", "long_hex"},
     touched   : BOOLEAN,
     confirmed : {"true", "truthy", "false", "absent"}]

\* Fail-closed on the confirmation.
classify_result_state(r) ==
    IF "fail" \in r.statuses
      THEN IF ~r.touched \/ r.confirmed = "true" THEN "failed_cleaned"
           ELSE "failed_owner_action"
    ELSE IF "warn" \in r.statuses THEN "completed_with_warnings"
    ELSE "completed"

_LEAK_PATTERNS == {"vault_path", "url", "pod_id", "bearer_token", "long_hex"}

\* What the page shows: the state, the shapes of its text, and whether the
\* section for the owner is there.
render_report(r) ==
    LET state == classify_result_state(r) IN
    [state  |-> state,
     shapes |-> r.shapes \cup {"plain"},
     owner  |-> state = "failed_owner_action"]

\* _scrub_report lets the page pass.
Clean(page) == page.shapes \cap _LEAK_PATTERNS = {}

\* _parse_scenario_result accepts the input.
Valid(r) == r.parses /\ r.statuses \subseteq PHASE_STATUS_VOCABULARY

NoPage == [state |-> "none", shapes |-> {}, owner |-> FALSE]

\* main of the report, on the input r.
Report(r) ==
    IF ~Valid(r)                     THEN [exit |-> 1, page |-> NoPage]
    ELSE IF ~Clean(render_report(r)) THEN [exit |-> 2, page |-> NoPage]
    ELSE [exit |-> 0, page |-> render_report(r)]

=============================================================================
