---------------------------- MODULE ManageRunpod ----------------------------
(***************************************************************************)
(* scripts/manage_runpod.py: run_lifecycle drives the Pod library through  *)
(* create, wait, smoke and delete, says on stdout how each phase ended and *)
(* chooses the exit code.                                                  *)
(*                                                                         *)
(* The operator may interrupt it (KeyboardInterrupt) or the process may be *)
(* killed at any moment.  The smoke test is a child process: it is waited  *)
(* for, killed when the wait ends in any other way, and left alone when    *)
(* the script itself is killed.                                            *)
(***************************************************************************)
EXTENDS ManagedPod, SmokeRunpod, Sequences

VARIABLES
    keep,    \* --keep-pod
    key,     \* RUNPOD_API_KEY is set
    at,      \* where run_lifecycle is
    codes,   \* the exit codes collected so far
    said,    \* the categories printed as "lifecycle: <category>"
    urgent,  \* the urgent line was written to stderr
    exit     \* how the process ended

vars == <<podVars, smoke, keep, key, at, codes, said, urgent, exit>>

EXIT_OK == 0
EXIT_PHASE_FAILED == 1
EXIT_PREFLIGHT_FAILED == 2
EXIT_CLEANUP_FAILED == 3

\* How a process ends without an exit code of the script's choosing.
Running == -1
RaisedInterrupt == -2
Killed == -3

Init ==
    /\ PodInit
    /\ smoke = NoSmoke
    /\ keep \in BOOLEAN
    /\ key \in BOOLEAN
    /\ at = "preflight"
    /\ codes = << >>
    /\ said = {}
    /\ urgent = FALSE
    /\ exit = Running

Says(categories) == said' = said \cup categories

Exits(code) ==
    /\ at' = "over"
    /\ exit' = code

\* Cleanup outranks a phase; otherwise the last code that is not 0 is chosen.
_select_exit_code(cs) ==
    LET failures == {i \in DOMAIN cs : cs[i] # EXIT_OK}
        last == CHOOSE i \in failures : \A j \in failures : j <= i IN
    IF \E i \in DOMAIN cs : cs[i] = EXIT_PREFLIGHT_FAILED
      THEN EXIT_PREFLIGHT_FAILED
    ELSE IF \E i \in DOMAIN cs : cs[i] = EXIT_CLEANUP_FAILED
      THEN EXIT_CLEANUP_FAILED
    ELSE IF failures # {} THEN cs[last]
    ELSE EXIT_OK

-----------------------------------------------------------------------------

Preflight ==
    /\ at = "preflight" /\ ~key
    /\ Says({"api_key_missing"})
    /\ Exits(EXIT_PREFLIGHT_FAILED)
    /\ UNCHANGED <<podVars, smoke, keep, key, codes, urgent>>

Start ==
    /\ at = "preflight" /\ key
    /\ StartPod
    /\ at' = "starting"
    /\ UNCHANGED <<smoke, keep, key, codes, said, urgent, exit>>

\* A step of the library, while the script waits for it.
InLibrary ==
    /\ at # "over"
    /\ LibraryStep
    /\ UNCHANGED <<smoke, keep, key, at, codes, said, urgent, exit>>

Back(where) == at = where /\ lib.at = "idle"

\* A bug: a failed cleanup inside start_pod is reported like a clean timeout.
StartFailedQuietly ==
    /\ Back("starting") /\ lib.raised \in Category
    /\ Says({"wait_timeout"})
    /\ Exits(EXIT_PHASE_FAILED)
    /\ UNCHANGED <<podVars, smoke, keep, key, codes, urgent>>

StartFailed ==
    /\ Back("starting") /\ lib.raised \in Category
    /\ Says({lib.raised})
    /\ IF lib.raised = "wait_timeout_cleanup_failed"
         THEN urgent' = TRUE /\ Exits(EXIT_CLEANUP_FAILED)
         ELSE UNCHANGED urgent /\ Exits(EXIT_PHASE_FAILED)
    /\ UNCHANGED <<podVars, smoke, keep, key, codes>>

\* The Pod is announced before the try block that would delete it.
Announce ==
    /\ Back("starting") /\ lib.raised = "none"
    /\ Says({"created", "healthy"})
    /\ at' = "announced"
    /\ UNCHANGED <<podVars, smoke, keep, key, codes, urgent, exit>>

\* _run_smoke_subprocess starts the child.
EnterTry ==
    /\ at = "announced"
    /\ at' = "smoke"
    /\ Spawn
    /\ UNCHANGED <<podVars, keep, key, codes, said, urgent, exit>>

\* A step of the child; one that nobody waits for goes on.
InSmoke ==
    /\ SmokeStep
    /\ UNCHANGED <<podVars, keep, key, at, codes, said, urgent, exit>>

\* The child has ended; or its time is up, or it could not be run.
Verdicts ==
    IF smoke.at = "exited" THEN {smoke.category = "success"} ELSE {FALSE}

SmokeAndKeep(passed) ==
    /\ at = "smoke" /\ keep
    /\ smoke' = Gone
    /\ Says({IF passed THEN "smoke_passed" ELSE "smoke_failed", "kept"})
    /\ codes' = codes \o (IF passed THEN << >> ELSE << EXIT_PHASE_FAILED >>)
                      \o << EXIT_OK >>
    /\ Exits(_select_exit_code(codes'))
    /\ UNCHANGED <<podVars, keep, key, urgent>>

\* cleanup_attempted is set before stop_pod is called.
SmokeAndStop(passed) ==
    /\ at = "smoke" /\ ~keep
    /\ smoke' = Gone
    /\ Says({IF passed THEN "smoke_passed" ELSE "smoke_failed"})
    /\ codes' = codes \o (IF passed THEN << >> ELSE << EXIT_PHASE_FAILED >>)
    /\ StopPod
    /\ at' = "stopping"
    /\ UNCHANGED <<keep, key, urgent, exit>>

Stopped ==
    /\ Back("stopping") /\ lib.raised \in Category \cup {"none"}
    /\ IF lib.raised = "none"
         THEN /\ Says({"deleted"})
              /\ UNCHANGED <<codes, urgent>>
         ELSE /\ Says({"cleanup_failed"})
              /\ urgent' = TRUE
              /\ codes' = Append(codes, EXIT_CLEANUP_FAILED)
    /\ Exits(_select_exit_code(codes'))
    /\ UNCHANGED <<podVars, smoke, keep, key>>

InterruptedLibrary ==
    /\ at # "over"
    /\ Interrupted
    /\ UNCHANGED <<smoke, keep, key, at, codes, said, urgent, exit>>

\* A bug: cleanup_attempted is only set once stop_pod has returned.
InterruptedForGoodUnlessStopping ==
    IF Back("stopping") /\ lib.raised = "KeyboardInterrupt"
      THEN /\ StopPod
           /\ at' = "finally"
           /\ UNCHANGED <<smoke, keep, key, codes, said, urgent, exit>>
      ELSE /\ Back("starting") /\ lib.raised = "KeyboardInterrupt"
           /\ Exits(RaisedInterrupt)
           /\ UNCHANGED <<podVars, smoke, keep, key, codes, said, urgent>>

\* An interrupt that no cleanup follows: before the try block, with
\* --keep-pod, or when stop_pod was already called.
InterruptedForGood ==
    /\ \/ at \in {"starting", "stopping", "finally"}
             /\ lib.at = "idle" /\ lib.raised = "KeyboardInterrupt"
       \/ at \in {"preflight", "announced"}
       \/ at = "smoke" /\ keep
    /\ Exits(RaisedInterrupt)
    /\ smoke' = Gone
    /\ UNCHANGED <<podVars, keep, key, codes, said, urgent>>

\* A bug: the finally block does not look at --keep-pod.
InterruptedSmokeDeletes ==
    /\ at = "smoke"
    /\ StopPod
    /\ smoke' = Gone
    /\ at' = "finally"
    /\ UNCHANGED <<keep, key, codes, said, urgent, exit>>

\* A bug: the child is not killed.
InterruptedSmokeForgotten ==
    /\ at = "smoke" /\ ~keep
    /\ StopPod
    /\ at' = "finally"
    /\ UNCHANGED <<smoke, keep, key, codes, said, urgent, exit>>

\* The finally block deletes the Pod of an interrupted smoke test.
InterruptedSmoke ==
    /\ at = "smoke" /\ ~keep
    /\ StopPod
    /\ smoke' = Gone
    /\ at' = "finally"
    /\ UNCHANGED <<keep, key, codes, said, urgent, exit>>

\* The interrupt goes on, unless the deletion failed: return swallows it.
FinallyDone ==
    /\ Back("finally") /\ lib.raised \in Category \cup {"none"}
    /\ IF lib.raised = "none"
         THEN Exits(RaisedInterrupt) /\ UNCHANGED <<said, urgent>>
         ELSE /\ Says({"cleanup_failed"})
              /\ urgent' = TRUE
              /\ Exits(EXIT_CLEANUP_FAILED)
    /\ UNCHANGED <<podVars, smoke, keep, key, codes>>

Kill ==
    /\ at # "over"
    /\ Exits(Killed)
    /\ UNCHANGED <<podVars, smoke, keep, key, codes, said, urgent>>

\* The service may act on what is on the wire even after the script is over.
ServiceActs ==
    /\ \E r \in wire : Unheard(r)
    /\ UNCHANGED <<smoke, keep, key, at, codes, said, urgent, exit>>

\* What the script does of itself, and what the operator may do to it.
Progress ==
    \/ Preflight \/ Start \/ InLibrary \/ StartFailed \/ Announce \/ EnterTry
    \/ \E passed \in Verdicts : SmokeAndKeep(passed) \/ SmokeAndStop(passed)
    \/ Stopped \/ FinallyDone

Interrupt == InterruptedLibrary \/ InterruptedForGood \/ InterruptedSmoke

Next ==
    \/ Progress
    \/ Interrupt
    \/ Kill
    \/ InSmoke
    \/ ServiceActs

\* Every request has a time limit, and so has the smoke test; an exception
\* that is raised is propagated.
Fairness == WF_vars(Progress) /\ WF_vars(InterruptedForGood)

Spec == Init /\ [][Next]_vars /\ Fairness

-----------------------------------------------------------------------------
\* Properties

\* Every variable keeps the shape the code gives it.
TypeOK ==
    /\ PodTypeOK
    /\ SmokeTypeOK
    /\ keep \in BOOLEAN
    /\ key \in BOOLEAN
    /\ at \in {"preflight", "starting", "announced", "smoke", "stopping",
              "finally", "over"}
    /\ codes \in Seq({EXIT_OK, EXIT_PHASE_FAILED, EXIT_CLEANUP_FAILED})
    /\ said \subseteq Category \cup
          {"api_key_missing", "created", "healthy", "smoke_passed",
           "smoke_failed", "deleted", "kept"}
    /\ urgent \in BOOLEAN
    /\ exit \in {Killed, RaisedInterrupt, Running, EXIT_OK, EXIT_PHASE_FAILED,
                EXIT_PREFLIGHT_FAILED, EXIT_CLEANUP_FAILED}

\* Exit code 3 and the urgent line go together, on the three paths that can
\* leave a Pod behind, and outrank a failed smoke test.
OwnerCalled ==
    /\ exit = EXIT_CLEANUP_FAILED <=> urgent
    /\ urgent <=> said \cap {"cleanup_failed", "wait_timeout_cleanup_failed"} # {}

\* When run_lifecycle returns without --keep-pod, a Pod whose id was ever
\* known is gone, or the owner is told: exit code 3 and the urgent line, which
\* no other failure hides or feigns.  Answers may have been lost and requests
\* acted on late on the way.
NoSilentPod ==
    /\ exit \in 0..3 /\ ~keep /\ lib.known =>
          pod = "deleted" \/ exit = EXIT_CLEANUP_FAILED
    /\ OwnerCalled

\* The default flow: exit code 0 is a passed smoke test, and the Pod gone or
\* kept at the owner's request; it never hides a failure of another phase.
SuccessIsClean ==
    exit = EXIT_OK =>
        /\ "smoke_passed" \in said
        /\ pod = IF keep THEN "running" ELSE "deleted"
        /\ said \cap (Category \cup {"smoke_failed"}) = {}

\* start_pod's cleanup, the cleanup phase and the finally block never add up
\* to more DELETE requests than one bounded retry allows, however the run is
\* interrupted; none is sent before the Pod's id is known.
DeleteBudget == deletes <= IF lib.known THEN MaxAttempts ELSE 0

\* A Pod that was once reported healthy is never deleted under --keep-pod,
\* not even when the smoke test is interrupted.
KeptPodSurvives == keep /\ "healthy" \in said => pod = "running"

\* A smoke test is only reported as passed when the Pod did serve a
\* completion, whatever the child was answered and however it ended.
PassedIsServed == "smoke_passed" \in said => smoke.served

\* No probe is on its way to a Pod that is being deleted, nor after the
\* script: an interrupt that leads to the deletion ends the child first.
ProbeBeforeDelete ==
    smoke.at \in Probing /\ exit # Killed => at = "smoke" /\ deletes = 0

-----------------------------------------------------------------------------
\* The inductive invariant

\* How far the script has come with the Pod, and what it has said and
\* collected by then.  The budget of DELETE requests is spent only by the
\* call that is running; a Pod that is to be kept is not deleted at all.
Script ==
    /\ at = "preflight" =>
          lib.at = "idle" /\ ~lib.known /\ said = {} /\ codes = << >>
    /\ at = "starting" => Starting /\ said = {} /\ codes = << >>
    /\ at \in {"announced", "smoke"} =>
          /\ lib.at = "idle" /\ lib.known /\ deletes = 0
          /\ said = {"created", "healthy"} /\ codes = << >>
    /\ at = "stopping" =>
          /\ Stopping /\ ~keep
          /\ \/ said = {"created", "healthy", "smoke_passed"} /\ codes = << >>
             \/ said = {"created", "healthy", "smoke_failed"}
                   /\ codes = << EXIT_PHASE_FAILED >>
    /\ at = "finally" => Stopping /\ ~keep /\ said = {"created", "healthy"}
    /\ at # "over" => exit = Running /\ ~urgent
    /\ at = "over" => exit # Running
    /\ "smoke_passed" \in said => "healthy" \in said
    /\ "healthy" \in said => lib.known /\ (keep => deletes = 0)

\* The child lives between EnterTry and the end of the try block, unless the
\* script was killed beside it; "success" is a completion that was served.
Child ==
    /\ at \in {"preflight", "starting", "announced"} => smoke = NoSmoke
    /\ at \in {"stopping", "finally", "over"} /\ exit # Killed =>
          smoke.at = "off"
    /\ smoke.category = "success" => smoke.served
    /\ "smoke_passed" \in said => smoke.at = "off" /\ smoke.served

IInv ==
    /\ TypeOK
    /\ PodInv
    /\ Script
    /\ Child
    /\ NoSilentPod
    /\ SuccessIsClean

-----------------------------------------------------------------------------
\* The script ends, whatever the service does: its waits are bounded.
ScriptEnds == <>(at = "over")

-----------------------------------------------------------------------------
\* What the documentation says and the code does not do

\* "... so an agent run cannot accidentally leave a paid Pod running": a run
\* that an interrupt ended, the process alive to the end.
NoAccidentalPod ==
    exit = RaisedInterrupt /\ ~keep /\ lib.known =>
        pod # "running" \/ urgent

=============================================================================
