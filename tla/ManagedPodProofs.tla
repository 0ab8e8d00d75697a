-------------------------- MODULE ManagedPodProofs --------------------------
(***************************************************************************)
(* Lemmas about the Pod library, for any bounds on its probes and its      *)
(* attempts: what a call of it, a step of it, an interrupt and the service *)
(* keep true.  The scripts that drive the library cite them.               *)
(***************************************************************************)
EXTENDS ManagedPod, TLAPS

\* A Pod that is known, and that nobody asked to delete, is running; one that
\* is known and was deleted stays so.
LEMMA KnownPod ==
    ASSUME PodTypeOK, PodInv, lib.known
    PROVE  /\ deletes = 0 => pod = "running" /\ wire = {}
           /\ \A r \in wire : r # Create
BY DEF PodTypeOK, PodInv

\* The first call of start_pod.
LEMMA StartPodStep ==
    ASSUME PodTypeOK, PodInv, ~lib.known, lib.at = "idle", StartPod
    PROVE  PodTypeOK' /\ PodInv' /\ Starting'
BY DEF PodTypeOK, PodInv, StartPod, Starting, Library, Request, Create

\* What the n-th DELETE of a call does, the call being l.
LEMMA SendDeleteStep ==
    ASSUME NEW l \in Library, NEW w \in SUBSET Request, NEW n \in 1..MaxAttempts,
           deletes \in Nat, pod \in {"absent", "running", "deleted"}, pod' = pod,
           SendDelete(l, w, n), l.known, pod # "absent", Create \notin w,
           n = deletes + 1
    PROVE  /\ PodTypeOK' /\ PodInv' /\ Deleting'
           /\ lib'.at = "deleting" /\ lib'.nested = l.nested /\ lib'.known
<1>1. /\ lib' \in Library /\ lib'.at = "deleting" /\ lib'.attempt = n
      /\ lib'.nested = l.nested /\ lib'.known
  <2> DEFINE m == [l EXCEPT !.at = "deleting"]
  <2>1. /\ m \in Library /\ m.at = "deleting"
        /\ m.nested = l.nested /\ m.known = l.known
    BY DEF Library
  <2>2. n \in 0..MaxAttempts
    BY BoundsAssumption
  <2>3. lib' = [m EXCEPT !.attempt = n]
    BY DEF SendDelete
  <2> HIDE DEF m
  <2> QED
    BY <2>1, <2>2, <2>3 DEF Library
<1>2. wire' \subseteq Request /\ Create \notin wire'
  BY DEF SendDelete, Request, Create
<1>3. deletes' \in Nat /\ deletes' = n /\ deletes' # 0 /\ deletes' <= MaxAttempts
  BY BoundsAssumption DEF SendDelete
<1> QED
  BY <1>1, <1>2, <1>3 DEF PodTypeOK, PodInv, Deleting

\* The first call of stop_pod.
LEMMA StopPodStep ==
    ASSUME PodTypeOK, PodInv, lib.known, deletes = 0, StopPod
    PROVE  PodTypeOK' /\ PodInv' /\ Stopping'
<1> DEFINE l == [lib EXCEPT !.raised = "none", !.nested = FALSE]
<1>1. l \in Library /\ l.known /\ l.nested = FALSE
  BY DEF PodTypeOK, Library, Category
<1>2. SendDelete(l, wire, 1) /\ pod' = pod
  BY DEF StopPod
<1> HIDE DEF l
<1>3. 1 \in 1..MaxAttempts
  BY BoundsAssumption
<1> QED
  BY <1>1, <1>2, <1>3, SendDeleteStep DEF Stopping, PodTypeOK, PodInv

\* The library returns to its caller.
LEMMA EndsStep ==
    ASSUME lib \in Library,
           NEW why \in Category \cup {"none", "KeyboardInterrupt"},
           lib' = Ends(lib, why)
    PROVE  /\ lib' \in Library
           /\ lib'.at = "idle" /\ lib'.raised = why /\ lib'.nested = FALSE
           /\ lib'.known = lib.known
<1> DEFINE l == [lib EXCEPT !.at = "idle"]
           m == [l EXCEPT !.raised = why]
<1>1. l \in Library /\ l.at = "idle" /\ l.known = lib.known
  BY DEF Library
<1>2. m \in Library /\ m.at = "idle" /\ m.raised = why /\ m.known = lib.known
  <2> HIDE DEF l
  <2> QED
    BY <1>1 DEF Library
<1>3. lib' = [m EXCEPT !.nested = FALSE]
  BY DEF Ends
<1> HIDE DEF m
<1> QED
  BY <1>2, <1>3 DEF Library

-----------------------------------------------------------------------------
\* The steps of a call

\* A DELETE that is acted on leaves a Pod deleted.
LEMMA DeleteSucceedsStep ==
    ASSUME PodTypeOK, PodInv, lib.known, DeleteSucceeds
    PROVE  /\ PodTypeOK' /\ PodInv' /\ pod' = "deleted"
           /\ lib'.at = "idle" /\ lib'.known
           /\ lib'.raised = IF lib.nested THEN "wait_timeout" ELSE "none"
<1> DEFINE why == IF lib.nested THEN "wait_timeout" ELSE "none"
<1>1. why \in Category \cup {"none", "KeyboardInterrupt"}
  BY DEF Category
<1>2. lib' = Ends(lib, why)
  BY DEF DeleteSucceeds
<1> HIDE DEF why
<1>3. lib' \in Library /\ lib'.at = "idle" /\ lib'.raised = why /\ lib'.known
  BY <1>1, <1>2, EndsStep DEF PodTypeOK
<1>4. lib.attempt # 0 /\ deletes # 0
  BY DEF DeleteSucceeds, PodInv, PodTypeOK, Create
<1> USE DEF why
<1> QED
  BY <1>3, <1>4 DEF DeleteSucceeds, PodTypeOK, PodInv

\* A DELETE that fails is tried again, or the call ends.
LEMMA DeleteFailsStep ==
    ASSUME PodTypeOK, PodInv, Deleting, DeleteFails
    PROVE  /\ PodTypeOK' /\ PodInv' /\ lib'.known
           /\ \/ Deleting' /\ lib'.at = "deleting" /\ lib'.nested = lib.nested
              \/ lib'.at = "idle" /\ lib'.raised = CleanupFailed
<1> PICK w \in {wire, wire \ {lib.attempt}} :
       IF lib.attempt < MaxAttempts
         THEN SendDelete(lib, w, lib.attempt + 1)
         ELSE /\ lib' = Ends(lib, CleanupFailed)
              /\ wire' = w
              /\ UNCHANGED deletes
  BY DEF DeleteFails
<1>1. w \in SUBSET Request /\ Create \notin w /\ w \subseteq wire /\ pod' = pod
  BY DEF DeleteFails, PodTypeOK, PodInv, Deleting
<1>2. CASE lib.attempt < MaxAttempts
  <2> DEFINE n == lib.attempt + 1
  <2>1. n \in 1..MaxAttempts /\ n = deletes + 1
    BY <1>2, BoundsAssumption DEF Deleting
  <2>2. SendDelete(lib, w, n)
    BY <1>2
  <2> HIDE DEF n
  <2> QED
    BY <1>1, <2>1, <2>2, SendDeleteStep DEF PodTypeOK, PodInv, Deleting
<1>3. CASE ~(lib.attempt < MaxAttempts)
  <2>1. CleanupFailed \in Category \cup {"none", "KeyboardInterrupt"}
    BY DEF CleanupFailed, Category
  <2>2. lib' \in Library /\ lib'.at = "idle" /\ lib'.raised = CleanupFailed /\ lib'.known
    BY <1>3, <2>1, EndsStep DEF PodTypeOK, Deleting
  <2> QED
    BY <1>1, <1>3, <2>2 DEF PodTypeOK, PodInv, Deleting
<1> QED
  BY <1>2, <1>3

\* start_pod keeps what it promises until it returns.
LEMMA StartingStep ==
    ASSUME PodTypeOK, PodInv, Starting, LibraryStep
    PROVE  PodTypeOK' /\ PodInv' /\ Starting'
<1>1. CASE PodCreated
  <2> DEFINE l == [lib EXCEPT !.at = "waiting"]
             m == [l EXCEPT !.known = TRUE]
  <2>1. l \in Library /\ l.at = "waiting"
    BY DEF PodTypeOK, Library
  <2>2. m \in Library /\ m.at = "waiting" /\ m.known
    <3> HIDE DEF l
    <3> QED
      BY <2>1 DEF Library
  <2>3. lib' = [m EXCEPT !.polls = 0]
    BY <1>1 DEF PodCreated
  <2>4. lib' \in Library /\ lib'.at = "waiting" /\ lib'.known
    <3> HIDE DEF m
    <3> QED
      BY <2>2, <2>3, BoundsAssumption DEF Library
  <2>5. deletes = 0
    BY <1>1 DEF PodCreated, Starting, PodInv
  <2> QED
    BY <1>1, <2>4, <2>5 DEF PodCreated, PodTypeOK, PodInv, Starting
<1>2. ASSUME lib.at = "creating", lib' = Ends(lib, "create_failed"),
             pod' \in {pod, "running"}, wire' \subseteq wire, UNCHANGED deletes
      PROVE  PodTypeOK' /\ PodInv' /\ Starting'
  <2>1. "create_failed" \in Category \cup {"none", "KeyboardInterrupt"}
    BY DEF Category
  <2>2. /\ lib' \in Library /\ lib'.at = "idle"
        /\ lib'.raised = "create_failed" /\ lib'.known = lib.known
    BY <1>2, <2>1, EndsStep DEF PodTypeOK
  <2> QED
    BY <1>2, <2>2 DEF PodTypeOK, PodInv, Starting
<1>3. CASE CreateRefused \/ CreateTimesOut
  BY <1>2, <1>3 DEF CreateRefused, CreateTimesOut
<1>4. CASE Healthy
  <2>1. /\ lib' \in Library /\ lib'.at = "idle"
        /\ lib'.raised = "none" /\ lib'.known = lib.known
    BY <1>4, EndsStep DEF Healthy, PodTypeOK
  <2> QED
    BY <1>4, <2>1 DEF Healthy, PodTypeOK, PodInv, Starting
<1>5. CASE NotHealthyYet
  <2>1. lib.polls + 1 \in 0..MaxPolls
    BY <1>5, BoundsAssumption DEF NotHealthyYet, PodTypeOK, Library
  <2>2. /\ lib' \in Library /\ lib'.at = "waiting"
        /\ lib'.known = lib.known
    BY <1>5, <2>1 DEF NotHealthyYet, PodTypeOK, Library
  <2> QED
    BY <1>5, <2>2 DEF NotHealthyYet, PodTypeOK, PodInv, Starting
<1>6. CASE WaitTimesOut
  <2> DEFINE l == [lib EXCEPT !.polls = MaxPolls, !.nested = TRUE]
  <2>1. l \in Library /\ l.known /\ l.nested = TRUE
    <3> DEFINE m == [lib EXCEPT !.polls = MaxPolls]
    <3>1. m \in Library /\ m.known
      BY <1>6, BoundsAssumption DEF WaitTimesOut, PodTypeOK, Library, Starting
    <3>2. l = [m EXCEPT !.nested = TRUE]
      OBVIOUS
    <3> HIDE DEF l, m
    <3> QED
      BY <3>1, <3>2 DEF Library
  <2>2. SendDelete(l, wire, 1) /\ pod' = pod /\ deletes = 0
    BY <1>6 DEF WaitTimesOut, Starting
  <2>3. 1 \in 1..MaxAttempts /\ 1 = deletes + 1
    BY <2>2, BoundsAssumption
  <2>4. lib.known
    BY <1>6 DEF WaitTimesOut, Starting
  <2> HIDE DEF l
  <2> QED
    BY <2>1, <2>2, <2>3, <2>4, SendDeleteStep DEF Starting, PodTypeOK, PodInv
<1>7. CASE DeleteSucceeds
  BY <1>7, DeleteSucceedsStep DEF DeleteSucceeds, Starting, Deleting
<1>8. CASE DeleteFails
  BY <1>8, DeleteFailsStep DEF DeleteFails, CleanupFailed, Starting
<1> QED
  BY <1>1, <1>3, <1>4, <1>5, <1>6, <1>7, <1>8 DEF LibraryStep

\* So does stop_pod.
LEMMA StoppingStep ==
    ASSUME PodTypeOK, PodInv, Stopping, LibraryStep
    PROVE  PodTypeOK' /\ PodInv' /\ Stopping'
<1>1. DeleteSucceeds \/ DeleteFails
  BY DEF LibraryStep, PodCreated, CreateRefused, CreateTimesOut, Healthy,
         NotHealthyYet, WaitTimesOut, Stopping
<1>2. lib.at = "deleting" /\ Deleting /\ ~lib.nested
  BY <1>1 DEF DeleteSucceeds, DeleteFails, Stopping
<1>3. CASE DeleteSucceeds
  BY <1>2, <1>3, DeleteSucceedsStep DEF Stopping, Deleting
<1>4. CASE DeleteFails
  BY <1>2, <1>4, DeleteFailsStep DEF CleanupFailed, Stopping
<1> QED
  BY <1>1, <1>3, <1>4

\* An interrupt ends either call, and tells nothing of the Pod.
LEMMA InterruptedStep ==
    ASSUME PodTypeOK, PodInv, Interrupted
    PROVE  PodTypeOK' /\ PodInv'
           /\ (Starting => Starting') /\ (Stopping => Stopping')
<1>1. /\ lib' \in Library /\ lib'.at = "idle"
      /\ lib'.raised = "KeyboardInterrupt" /\ lib'.known = lib.known
  BY EndsStep DEF Interrupted, PodTypeOK
<1> QED
  BY <1>1 DEF Interrupted, PodTypeOK, PodInv, Starting, Stopping

\* The service acts: what the library knows stays true.
LEMMA UnheardStep ==
    ASSUME PodTypeOK, PodInv, NEW r, Unheard(r)
    PROVE  /\ PodTypeOK' /\ PodInv' /\ lib' = lib /\ deletes' = deletes
           /\ (Starting => Starting') /\ (Stopping => Stopping')
           /\ lib.known /\ pod = "deleted" => pod' = "deleted"
           /\ lib.known /\ deletes = 0 => pod' = pod
<1>1. lib' = lib /\ deletes' = deletes /\ wire' \subseteq wire
  BY DEF Unheard
<1>2. CASE r = Create
  <2>1. pod' = "running" /\ ~lib.known
    BY <1>2 DEF Unheard, PodInv
  <2> QED
    BY <1>1, <2>1 DEF PodTypeOK, PodInv, Starting, Stopping, Deleting
<1>3. CASE r # Create
  <2>1. pod' = "deleted" /\ deletes # 0
    BY <1>3 DEF Unheard, PodInv
  <2> QED
    BY <1>1, <2>1 DEF PodTypeOK, PodInv, Starting, Stopping, Deleting
<1> QED
  BY <1>2, <1>3, <1>1

=============================================================================
