----------------------------- MODULE ManagedPod -----------------------------
(***************************************************************************)
(* runpod_lifecycle.ManageRunPodLifecycle in REST mode: start_pod creates  *)
(* one paid Pod, waits until it is healthy and deletes it if it never is;  *)
(* stop_pod deletes it, with one bounded retry.                            *)
(*                                                                         *)
(* The other end is the RunPod service, known only through the requests    *)
(* the code sends and the answers it tells apart.  A request stays on the  *)
(* wire until the service acts on it, which may be after the client gave   *)
(* up, or never; the answer may be lost.  A Pod is "absent", "running" or  *)
(* "deleted".                                                              *)
(*                                                                         *)
(* The module has no behaviour of its own: the scripts that drive the      *)
(* library extend it and call StartPod and StopPod.                        *)
(***************************************************************************)
EXTENDS Integers

CONSTANTS
    MaxPolls,    \* _MANAGE_HEALTH_POLL_MAX_ATTEMPTS, 60
    MaxAttempts  \* _MANAGE_CLEANUP_MAX_ATTEMPTS, 2

ASSUME BoundsAssumption ==
    /\ MaxPolls \in Nat \ {0}
    /\ MaxAttempts \in Nat \ {0}

VARIABLES
    pod,     \* what the RunPod account holds
    wire,    \* the requests the service has not acted on
    lib,     \* the library call that is running, or how the last one ended
    deletes  \* how many DELETE requests were ever sent

podVars == <<pod, wire, lib, deletes>>

\* Requests: POST /pods is 0, the n-th attempt of a stop_pod is n.
Create == 0
Request == {Create} \cup 1..MaxAttempts

Category ==
    {"create_failed", "wait_timeout", "wait_timeout_cleanup_failed",
     "cleanup_failed"}

\* known: the caller's side holds the Pod's id.  nested: stop_pod is called
\* by start_pod.  raised: the category of the PodUnavailableError.
Library ==
    [at     : {"idle", "creating", "waiting", "deleting"},
     raised : Category \cup {"none", "KeyboardInterrupt"},
     known  : BOOLEAN,
     nested : BOOLEAN,
     polls  : 0..MaxPolls,
     attempt: 0..MaxAttempts]

PodInit ==
    /\ pod = "absent"
    /\ wire = {}
    /\ lib = [at |-> "idle", raised |-> "none", known |-> FALSE,
              nested |-> FALSE, polls |-> 0, attempt |-> 0]
    /\ deletes = 0

\* The library returns to its caller: normally, or raising why.
Ends(l, why) == [l EXCEPT !.at = "idle", !.raised = why, !.nested = FALSE]

-----------------------------------------------------------------------------
\* start_pod: create

StartPod ==
    /\ lib' = [lib EXCEPT !.at = "creating", !.raised = "none"]
    /\ wire' = wire \cup {Create}
    /\ UNCHANGED <<pod, deletes>>

\* A 2xx answer with an id that can be read.
PodCreated ==
    /\ lib.at = "creating" /\ Create \in wire
    /\ wire' = wire \ {Create}
    /\ pod' = "running"
    /\ lib' = [lib EXCEPT !.at = "waiting", !.known = TRUE, !.polls = 0]
    /\ UNCHANGED deletes

\* A non-2xx answer, or a 2xx one of which the library cannot read the id.
CreateRefused ==
    /\ lib.at = "creating" /\ Create \in wire
    /\ wire' = wire \ {Create}
    /\ pod' \in {pod, "running"}
    /\ lib' = Ends(lib, "create_failed")
    /\ UNCHANGED deletes

\* httpx.HTTPError: the client stops listening, the request may live on.
CreateTimesOut ==
    /\ lib.at = "creating"
    /\ lib' = Ends(lib, "create_failed")
    /\ UNCHANGED <<pod, wire, deletes>>

-----------------------------------------------------------------------------
\* stop_pod

\* The n-th DELETE of the call is sent, beside the requests w.
SendDelete(l, w, n) ==
    /\ lib' = [l EXCEPT !.at = "deleting", !.attempt = n]
    /\ wire' = w \cup {n}
    /\ deletes' = deletes + 1

StopPod ==
    /\ SendDelete([lib EXCEPT !.raised = "none", !.nested = FALSE], wire, 1)
    /\ UNCHANGED pod

\* What stop_pod raises, as the caller of the library sees it.
CleanupFailed ==
    IF lib.nested THEN "wait_timeout_cleanup_failed" ELSE "cleanup_failed"

\* A bug: any answer to a DELETE is taken for success.
DeleteSucceedsAnyAnswer ==
    /\ lib.at = "deleting" /\ lib.attempt \in wire
    /\ wire' = wire \ {lib.attempt}
    /\ pod' \in {pod, "deleted"}
    /\ lib' = Ends(lib, IF lib.nested THEN "wait_timeout" ELSE "none")
    /\ UNCHANGED deletes

\* A 2xx answer: the Pod is gone.
DeleteSucceeds ==
    /\ lib.at = "deleting" /\ lib.attempt \in wire
    /\ wire' = wire \ {lib.attempt}
    /\ pod' = "deleted"
    /\ lib' = Ends(lib, IF lib.nested THEN "wait_timeout" ELSE "none")
    /\ UNCHANGED deletes

\* A bug: one attempt more than the bound.
DeleteFailsOffByOne ==
    /\ lib.at = "deleting"
    /\ IF lib.attempt <= MaxAttempts
         THEN SendDelete(lib, wire, lib.attempt + 1)
         ELSE /\ lib' = Ends(lib, CleanupFailed)
              /\ UNCHANGED <<wire, deletes>>
    /\ UNCHANGED pod

\* A non-2xx answer (the service is busy, or an earlier attempt did delete
\* the Pod) or httpx.HTTPError; the second leaves the request on the wire.
DeleteFails ==
    /\ lib.at = "deleting"
    /\ \E w \in {wire, wire \ {lib.attempt}} :
          IF lib.attempt < MaxAttempts
            THEN SendDelete(lib, w, lib.attempt + 1)
            ELSE /\ lib' = Ends(lib, CleanupFailed)
                 /\ wire' = w
                 /\ UNCHANGED deletes
    /\ UNCHANGED pod

-----------------------------------------------------------------------------
\* start_pod: wait

Healthy ==
    /\ lib.at = "waiting"
    /\ pod = "running"
    /\ lib' = Ends(lib, "none")
    /\ UNCHANGED <<pod, wire, deletes>>

\* A bug: a probe that got some answer starts the count over.
NotHealthyYetStartsOver ==
    /\ lib.at = "waiting"
    /\ lib.polls + 1 < MaxPolls
    /\ \E n \in {0, lib.polls + 1} : lib' = [lib EXCEPT !.polls = n]
    /\ UNCHANGED <<pod, wire, deletes>>

NotHealthyYet ==
    /\ lib.at = "waiting"
    /\ lib.polls + 1 < MaxPolls
    /\ lib' = [lib EXCEPT !.polls = lib.polls + 1]
    /\ UNCHANGED <<pod, wire, deletes>>

\* The last probe failed: wait_timeout, which is first cleaned up.
WaitTimesOut ==
    /\ lib.at = "waiting"
    /\ lib.polls + 1 = MaxPolls
    /\ SendDelete([lib EXCEPT !.polls = MaxPolls, !.nested = TRUE], wire, 1)
    /\ UNCHANGED pod

-----------------------------------------------------------------------------

\* The library's own steps.
LibraryStep ==
    \/ PodCreated \/ CreateRefused \/ CreateTimesOut
    \/ Healthy \/ NotHealthyYet \/ WaitTimesOut
    \/ DeleteSucceeds \/ DeleteFails

\* KeyboardInterrupt leaves the call at once: only PodUnavailableError is
\* caught in the library.
Interrupted ==
    /\ lib.at # "idle"
    /\ lib' = Ends(lib, "KeyboardInterrupt")
    /\ UNCHANGED <<pod, wire, deletes>>

\* The service acts on a request and nobody hears the answer.
Unheard(r) ==
    /\ r \in wire
    /\ wire' = wire \ {r}
    /\ pod' = IF r = Create THEN "running" ELSE "deleted"
    /\ UNCHANGED <<lib, deletes>>

PodTypeOK ==
    /\ pod \in {"absent", "running", "deleted"}
    /\ wire \subseteq Request
    /\ lib \in Library
    /\ deletes \in Nat

-----------------------------------------------------------------------------
\* What the library keeps true, for the scripts that call start_pod once and
\* then stop_pod at most once

\* A Pod whose id is known was created by the one POST, which is no longer on
\* the wire; a DELETE is only ever sent for such a Pod.
PodInv ==
    /\ lib.known => pod # "absent" /\ Create \notin wire
    /\ ~lib.known => deletes = 0
    /\ deletes = 0 => pod # "deleted" /\ wire \subseteq {Create}
    /\ deletes <= MaxAttempts

\* stop_pod counts its attempts, and is the first to delete anything.
Deleting ==
    lib.known /\ lib.attempt \in 1..MaxAttempts /\ deletes = lib.attempt

\* While start_pod runs, and when it has come back: normally, the Pod is known
\* and no DELETE was sent; raising, what the category says of the Pod is so.
Starting ==
    /\ lib.at = "creating" => ~lib.known
    /\ lib.at = "waiting" => lib.known /\ deletes = 0
    /\ lib.at = "deleting" => Deleting /\ lib.nested
    /\ lib.at = "idle" =>
          /\ lib.raised = "none" => lib.known /\ deletes = 0
          /\ lib.raised = "create_failed" => ~lib.known
          /\ lib.raised = "wait_timeout" => pod = "deleted"
          /\ lib.raised # "cleanup_failed"

\* While stop_pod runs, and when it has come back.
Stopping ==
    /\ lib.known
    /\ lib.at \in {"deleting", "idle"}
    /\ lib.at = "deleting" => Deleting /\ ~lib.nested
    /\ lib.at = "idle" =>
          /\ lib.raised \in {"none", "cleanup_failed", "KeyboardInterrupt"}
          /\ lib.raised = "none" => pod = "deleted"

=============================================================================
