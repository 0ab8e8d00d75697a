------------------------- MODULE ManageRunpodProofs -------------------------
(***************************************************************************)
(* Proofs about ManageRunpod, for any number of health probes and of       *)
(* DELETE attempts.  What the library does is cited from ManagedPodProofs; *)
(* here is what the script makes of it.                                    *)
(***************************************************************************)
EXTENDS ManageRunpod, ManagedPodProofs

-----------------------------------------------------------------------------
\* The exit code

\* The sequences of codes that the script can collect before it returns, and
\* what is chosen: 3 when the deletion failed, otherwise the smoke's verdict.
LEMMA SelectedCodes ==
    /\ _select_exit_code(<< >>) = EXIT_OK
    /\ _select_exit_code(<< EXIT_OK >>) = EXIT_OK
    /\ _select_exit_code(<< EXIT_PHASE_FAILED >>) = EXIT_PHASE_FAILED
    /\ _select_exit_code(<< EXIT_PHASE_FAILED, EXIT_OK >>) = EXIT_PHASE_FAILED
    /\ _select_exit_code(<< EXIT_CLEANUP_FAILED >>) = EXIT_CLEANUP_FAILED
    /\ _select_exit_code(<< EXIT_PHASE_FAILED, EXIT_CLEANUP_FAILED >>)
          = EXIT_CLEANUP_FAILED
<1> USE DEF EXIT_OK, EXIT_PHASE_FAILED, EXIT_CLEANUP_FAILED, EXIT_PREFLIGHT_FAILED
<1>1. _select_exit_code(<< >>) = EXIT_OK
  BY DEF _select_exit_code
<1>2. _select_exit_code(<< 0 >>) = 0
  BY DEF _select_exit_code
<1>3. _select_exit_code(<< 1 >>) = 1
  BY DEF _select_exit_code
<1>4. _select_exit_code(<< 1, 0 >>) = 1
  BY DEF _select_exit_code
<1>5. _select_exit_code(<< 3 >>) = 3
  BY DEF _select_exit_code
<1>6. _select_exit_code(<< 1, 3 >>) = 3
  BY DEF _select_exit_code
<1> QED
  BY <1>1, <1>2, <1>3, <1>4, <1>5, <1>6

-----------------------------------------------------------------------------
\* The child

\* What a probe finds ends the child.
LEMMA FindsStep ==
    ASSUME SmokeTypeOK, NEW category \in DiagnosticCategory
    PROVE  /\ Finds(category) \in [at: {"off", "exited"} \cup Probing,
                                   category: DiagnosticCategory \cup {"none"},
                                   served: BOOLEAN]
           /\ Finds(category).at = "exited"
           /\ Finds(category).category = category
           /\ Finds(category).served = smoke.served
<1> DEFINE s == [smoke EXCEPT !.at = "exited"]
<1>1. /\ s \in [at: {"off", "exited"} \cup Probing,
                category: DiagnosticCategory \cup {"none"}, served: BOOLEAN]
      /\ s.at = "exited" /\ s.served = smoke.served
  BY DEF SmokeTypeOK
<1>2. Finds(category) = [s EXCEPT !.category = category]
  BY DEF Finds
<1> HIDE DEF s
<1> QED
  BY <1>1, <1>2

\* A probe goes on, or ends the child with what it found; only a completion
\* that was served is a success.
LEMMA ProbeStep ==
    ASSUME SmokeTypeOK, SmokeStep, smoke.category = "success" => smoke.served
    PROVE  /\ SmokeTypeOK' /\ smoke.at \in Probing
           /\ smoke'.at \in Probing \cup {"exited"}
           /\ smoke'.category = "success" => smoke'.served
<1>1. CASE ProbeReach
  <2>1. "endpoint_unreachable" \in DiagnosticCategory
    BY DEF DiagnosticCategory
  <2>2. smoke' = [smoke EXCEPT !.at = "health"] \/ smoke' = Finds("endpoint_unreachable")
    BY <1>1 DEF ProbeReach
  <2>3. smoke.at \in Probing
    BY <1>1 DEF ProbeReach, Probing
  <2> QED
    BY <2>1, <2>2, <2>3, FindsStep DEF SmokeTypeOK, Probing
<1>2. CASE ProbeHealth
  <2> PICK status \in Status \cup {NoAnswer} :
         smoke' = IF _probe_health(status) = "none"
                    THEN [smoke EXCEPT !.at = "chat"]
                    ELSE Finds(_probe_health(status))
    BY <1>2 DEF ProbeHealth
  <2> DEFINE found == _probe_health(status)
  <2>1. found \in (DiagnosticCategory \ {"success"}) \cup {"none"}
    BY DEF _probe_health, DiagnosticCategory
  <2>2. smoke' = IF found = "none" THEN [smoke EXCEPT !.at = "chat"] ELSE Finds(found)
    OBVIOUS
  <2>3. smoke.at \in Probing
    BY <1>2 DEF ProbeHealth, Probing
  <2> HIDE DEF found
  <2>4. CASE found = "none"
    BY <2>2, <2>3, <2>4 DEF SmokeTypeOK, Probing
  <2>5. CASE found # "none"
    BY <2>1, <2>2, <2>3, <2>5, FindsStep DEF SmokeTypeOK
  <2> QED
    BY <2>4, <2>5
<1>3. CASE ProbeChat
  <2> PICK status \in Status \cup {NoAnswer}, content \in BOOLEAN :
         smoke' = [Finds(_probe_chat_completions(status, content)) EXCEPT
                     !.served = status \in 200..299 /\ content]
    BY <1>3 DEF ProbeChat
  <2> DEFINE found == _probe_chat_completions(status, content)
             served == status \in 200..299 /\ content
             s == Finds(found)
  <2>1. found \in DiagnosticCategory
    BY DEF _probe_chat_completions, _classify_status, DiagnosticCategory
  <2>2. found = "success" => served
    BY DEF _probe_chat_completions, _classify_status, Status, NoAnswer
  <2>3. smoke' = [s EXCEPT !.served = served]
    OBVIOUS
  <2>4. smoke.at \in Probing
    BY <1>3 DEF ProbeChat, Probing
  <2>5. served \in BOOLEAN
    OBVIOUS
  <2> HIDE DEF found, served
  <2>6. /\ s \in [at: {"off", "exited"} \cup Probing,
                  category: DiagnosticCategory \cup {"none"}, served: BOOLEAN]
        /\ s.at = "exited" /\ s.category = found
    BY <2>1, FindsStep
  <2> HIDE DEF s
  <2> QED
    BY <2>2, <2>3, <2>4, <2>5, <2>6 DEF SmokeTypeOK
<1> QED
  BY <1>1, <1>2, <1>3 DEF SmokeStep

\* A child that is waited for or killed keeps what it found.
LEMMA GoneStep ==
    ASSUME SmokeTypeOK, smoke' = Gone
    PROVE  /\ SmokeTypeOK' /\ smoke'.at = "off"
           /\ smoke'.category = smoke.category /\ smoke'.served = smoke.served
BY DEF SmokeTypeOK, Gone

-----------------------------------------------------------------------------
\* The inductive invariant

\* The exit codes, and what stands for a process that chose none.
LEMMA Codes ==
    /\ EXIT_OK = 0 /\ EXIT_PHASE_FAILED = 1 /\ EXIT_PREFLIGHT_FAILED = 2
    /\ EXIT_CLEANUP_FAILED = 3 /\ Running = -1 /\ RaisedInterrupt = -2 /\ Killed = -3
BY DEF EXIT_OK, EXIT_PHASE_FAILED, EXIT_PREFLIGHT_FAILED, EXIT_CLEANUP_FAILED,
       Running, RaisedInterrupt, Killed

\* The owner is called for one of two reasons.
LEMMA OwnerSaid ==
    ASSUME NEW categories
    PROVE  categories \cap {"cleanup_failed", "wait_timeout_cleanup_failed"} # {}
              <=> \/ "cleanup_failed" \in categories
                  \/ "wait_timeout_cleanup_failed" \in categories
OBVIOUS

\* What the script collects before it returns.
LEMMA CodesTyped ==
    LET Code == {EXIT_OK, EXIT_PHASE_FAILED, EXIT_CLEANUP_FAILED} IN
    /\ << >> \in Seq(Code)
    /\ << EXIT_OK >> \in Seq(Code)
    /\ << EXIT_PHASE_FAILED >> \in Seq(Code)
    /\ << EXIT_PHASE_FAILED, EXIT_OK >> \in Seq(Code)
    /\ << EXIT_CLEANUP_FAILED >> \in Seq(Code)
    /\ << EXIT_PHASE_FAILED, EXIT_CLEANUP_FAILED >> \in Seq(Code)
<1> DEFINE Code == {EXIT_OK, EXIT_PHASE_FAILED, EXIT_CLEANUP_FAILED}
<1>1. EXIT_OK \in Code /\ EXIT_PHASE_FAILED \in Code /\ EXIT_CLEANUP_FAILED \in Code
  OBVIOUS
<1> HIDE DEF Code
<1>2. \A a, b \in Code : << >> \in Seq(Code) /\ << a >> \in Seq(Code) /\ << a, b >> \in Seq(Code)
  OBVIOUS
<1>3. /\ << >> \in Seq(Code)
      /\ << EXIT_OK >> \in Seq(Code)
      /\ << EXIT_PHASE_FAILED >> \in Seq(Code)
      /\ << EXIT_PHASE_FAILED, EXIT_OK >> \in Seq(Code)
      /\ << EXIT_CLEANUP_FAILED >> \in Seq(Code)
      /\ << EXIT_PHASE_FAILED, EXIT_CLEANUP_FAILED >> \in Seq(Code)
  BY <1>1, <1>2
<1> QED
  BY <1>3 DEF Code

\* The script begins with a library nobody has called.
LEMMA InitInv == Init => IInv
<1> SUFFICES ASSUME Init PROVE IInv
  OBVIOUS
<1>1. PodTypeOK /\ PodInv /\ lib.at = "idle" /\ ~lib.known
  BY BoundsAssumption DEF Init, PodInit, PodTypeOK, PodInv, Library
<1>2. SmokeTypeOK /\ smoke.at = "off" /\ smoke.category = "none"
  BY DEF Init, NoSmoke, SmokeTypeOK
<1> QED
  <2>1. TypeOK
    BY <1>1, <1>2, CodesTyped DEF Init, TypeOK
  <2>2. Script /\ Child
    BY <1>1, <1>2, Codes DEF Init, Script, Child
  <2>3. NoSilentPod /\ SuccessIsClean
    BY Codes, OwnerSaid DEF Init, NoSilentPod, OwnerCalled, SuccessIsClean
  <2> QED
    BY <1>1, <2>1, <2>2, <2>3 DEF IInv

\* Nothing that is said of the Pod changes while the Pod does not.
LEMMA SamePod ==
    ASSUME PodTypeOK, PodInv, UNCHANGED podVars
    PROVE  /\ PodTypeOK' /\ PodInv'
           /\ (Starting => Starting') /\ (Stopping => Stopping')
           /\ pod' = pod /\ lib' = lib /\ deletes' = deletes /\ wire' = wire
BY DEF podVars, PodTypeOK, PodInv, Starting, Stopping, Deleting

\* A failed preflight returns before the service is touched.
LEMMA PreflightInv == IInv /\ Preflight => IInv'
BY SamePod, Codes
   DEF Preflight, Says, Exits, IInv, TypeOK, SmokeTypeOK, Script, Child, NoSilentPod,
       OwnerCalled, SuccessIsClean, NoSmoke

\* The library is called for the first time.
LEMMA StartInv == IInv /\ Start => IInv'
BY StartPodStep, Codes
   DEF Start, IInv, TypeOK, SmokeTypeOK, Script, Child, NoSilentPod,
       OwnerCalled, SuccessIsClean

\* start_pod came back with a Pod: it is known, and no DELETE was sent.
LEMMA AnnounceInv == IInv /\ Announce => IInv'
<1> SUFFICES ASSUME IInv, Announce PROVE IInv'
  OBVIOUS
<1>1. /\ PodTypeOK' /\ PodInv' /\ lib' = lib /\ deletes' = deletes
      /\ lib.at = "idle" /\ lib.known /\ deletes = 0
  BY SamePod DEF Announce, Back, IInv, TypeOK, Script, Starting
<1>2. /\ at' = "announced" /\ said' = {"created", "healthy"} /\ codes' = << >>
      /\ exit' = Running /\ ~urgent'
  BY DEF Announce, Back, Says, IInv, Script
<1>3. UNCHANGED <<smoke, keep, key>> /\ smoke = NoSmoke /\ urgent' \in BOOLEAN
  BY DEF Announce, Back, IInv, TypeOK, Child
<1>4. TypeOK'
  BY <1>1, <1>2, <1>3, CodesTyped DEF IInv, TypeOK, SmokeTypeOK
<1>5. Script'
  BY <1>1, <1>2, <1>3, Codes DEF Script
<1>6. Child'
  BY <1>1, <1>2, <1>3, Codes DEF Child, NoSmoke
<1>7. NoSilentPod'
  BY <1>1, <1>2, <1>3, Codes, OwnerSaid DEF NoSilentPod, OwnerCalled
<1>8. SuccessIsClean'
  BY <1>1, <1>2, <1>3, Codes DEF SuccessIsClean
<1> QED
  BY <1>1, <1>4, <1>5, <1>6, <1>7, <1>8 DEF IInv

\* The smoke's child is started on a Pod that is up.
LEMMA EnterTryInv == IInv /\ EnterTry => IInv'
<1> SUFFICES ASSUME IInv, EnterTry PROVE IInv'
  OBVIOUS
<1>1. /\ PodTypeOK' /\ PodInv' /\ lib' = lib /\ deletes' = deletes
      /\ lib.at = "idle" /\ lib.known /\ deletes = 0
  BY SamePod DEF EnterTry, IInv, TypeOK, Script
<1>2. /\ at' = "smoke" /\ said' = {"created", "healthy"} /\ codes' = << >>
      /\ exit' = Running /\ ~urgent' /\ UNCHANGED <<keep, key, urgent>>
  BY DEF EnterTry, IInv, Script
<1>3. SmokeTypeOK' /\ smoke'.at = "reach" /\ smoke'.category = "none"
  BY DEF EnterTry, Spawn, NoSmoke, SmokeTypeOK, Probing
<1>4. TypeOK'
  BY <1>1, <1>2, <1>3, CodesTyped DEF IInv, TypeOK, Category
<1>5. Script'
  BY <1>1, <1>2, <1>3, Codes DEF Script
<1>6. Child'
  BY <1>1, <1>2, <1>3, Codes DEF Child
<1>7. NoSilentPod'
  BY <1>1, <1>2, <1>3, Codes, OwnerSaid DEF NoSilentPod, OwnerCalled
<1>8. SuccessIsClean'
  BY <1>1, <1>2, <1>3, Codes DEF SuccessIsClean, Category
<1> QED
  BY <1>1, <1>4, <1>5, <1>6, <1>7, <1>8 DEF IInv

\* start_pod raised: the script returns, and calls the owner if it must.
LEMMA StartFailedInv == IInv /\ StartFailed => IInv'
<1> SUFFICES ASSUME IInv, StartFailed PROVE IInv'
  OBVIOUS
<1>1. /\ PodTypeOK' /\ PodInv' /\ lib' = lib
      /\ lib.raised \in {"create_failed", "wait_timeout", "wait_timeout_cleanup_failed"}
      /\ lib.raised = "create_failed" => ~lib.known
      /\ lib.raised = "wait_timeout" => pod' = "deleted"
  BY SamePod DEF StartFailed, Back, IInv, TypeOK, Script, Starting, Category
<1>2. /\ at' = "over" /\ UNCHANGED <<keep, key, codes>> /\ codes = << >>
      /\ said' = {lib.raised} /\ urgent' \in BOOLEAN
      /\ urgent' <=> lib.raised = "wait_timeout_cleanup_failed"
      /\ exit' = IF lib.raised = "wait_timeout_cleanup_failed"
                  THEN EXIT_CLEANUP_FAILED ELSE EXIT_PHASE_FAILED
  <2>1. at = "starting" /\ codes = << >> /\ said = {} /\ urgent = FALSE
    BY DEF StartFailed, Back, IInv, TypeOK, Script
  <2>2. said' = {lib.raised}
    BY <2>1 DEF StartFailed, Says
  <2>3. CASE lib.raised = "wait_timeout_cleanup_failed"
    BY <2>1, <2>2, <2>3 DEF StartFailed, Exits
  <2>4. CASE lib.raised # "wait_timeout_cleanup_failed"
    BY <2>1, <2>2, <2>4 DEF StartFailed, Exits
  <2> QED
    BY <2>3, <2>4
<1>3. /\ SmokeTypeOK' /\ smoke'.at = "off" /\ smoke'.category = "none"
  BY DEF StartFailed, Back, IInv, TypeOK, Child, NoSmoke, SmokeTypeOK
<1>4. TypeOK'
  BY <1>1, <1>2, <1>3, CodesTyped DEF IInv, TypeOK, Category
<1>5. Script'
  BY <1>1, <1>2, <1>3, Codes DEF Script
<1>6. Child'
  BY <1>1, <1>2, <1>3, Codes DEF Child
<1>7. NoSilentPod'
  <2>1. exit' = EXIT_CLEANUP_FAILED <=> urgent'
    BY <1>1, <1>2, Codes
  <2>2. urgent' <=> \/ "cleanup_failed" \in said'
                    \/ "wait_timeout_cleanup_failed" \in said'
    BY <1>1, <1>2
  <2>3. exit' \in 0..3 /\ ~keep' /\ lib'.known =>
           pod' = "deleted" \/ exit' = EXIT_CLEANUP_FAILED
    BY <1>1, <1>2, Codes
  <2> QED
    BY <2>1, <2>2, <2>3, OwnerSaid DEF NoSilentPod, OwnerCalled
<1>8. SuccessIsClean'
  BY <1>1, <1>2, <1>3, Codes DEF SuccessIsClean, Category
<1> QED
  BY <1>1, <1>4, <1>5, <1>6, <1>7, <1>8 DEF IInv

\* The library runs on, or is interrupted: either call keeps its promises.
LEMMA InLibraryInv == IInv /\ (InLibrary \/ InterruptedLibrary) => IInv'
<1> SUFFICES ASSUME IInv, InLibrary \/ InterruptedLibrary PROVE IInv'
  OBVIOUS
<1>1. /\ PodTypeOK' /\ PodInv' /\ at \in {"starting", "stopping", "finally"}
      /\ (at = "starting" => Starting')
      /\ (at \in {"stopping", "finally"} => Stopping')
  <2>1. at \in {"starting", "stopping", "finally"}
    BY DEF InLibrary, InterruptedLibrary, LibraryStep, Interrupted, IInv, TypeOK, Script,
           PodCreated, CreateRefused, CreateTimesOut, Healthy,
           NotHealthyYet, WaitTimesOut, DeleteSucceeds, DeleteFails
  <2> QED
    BY <2>1, StartingStep, StoppingStep, InterruptedStep
       DEF InLibrary, InterruptedLibrary, IInv, TypeOK, Script
<1>2. UNCHANGED <<smoke, keep, key, at, codes, said, urgent, exit>>
  BY DEF InLibrary, InterruptedLibrary
<1> QED
  BY <1>1, <1>2, Codes
     DEF IInv, TypeOK, SmokeTypeOK, Script, Child, NoSilentPod,
         OwnerCalled, SuccessIsClean, Starting, Stopping

\* The child runs on, on its own.
LEMMA InSmokeInv == IInv /\ InSmoke => IInv'
BY ProbeStep, SamePod, Codes
   DEF InSmoke, IInv, TypeOK, Script, Child, NoSilentPod, OwnerCalled, SuccessIsClean, NoSmoke, Probing

\* The child's verdict is collected and stop_pod is called.
LEMMA SmokeAndStopInv ==
    ASSUME IInv, NEW passed \in Verdicts, SmokeAndStop(passed)
    PROVE  IInv'
<1>1. PodTypeOK' /\ PodInv' /\ Stopping'
  BY StopPodStep DEF SmokeAndStop, IInv, TypeOK, Script
<1>2. /\ at' = "stopping" /\ UNCHANGED <<keep, key, urgent, exit>>
      /\ exit' = Running /\ ~urgent' /\ ~keep /\ passed \in BOOLEAN
      /\ said' = {"created", "healthy",
                    IF passed THEN "smoke_passed" ELSE "smoke_failed"}
      /\ codes' = IF passed THEN << >> ELSE << EXIT_PHASE_FAILED >>
  <2>1. at = "smoke" /\ said = {"created", "healthy"} /\ codes = << >>
    BY DEF SmokeAndStop, IInv, Script
  <2> QED
    <3>1. /\ at' = "stopping" /\ UNCHANGED <<keep, key, urgent, exit>>
          /\ exit' = Running /\ ~urgent' /\ ~keep /\ passed \in BOOLEAN
      BY <2>1 DEF SmokeAndStop, Verdicts, IInv, Script
    <3>2. codes' = IF passed THEN << >> ELSE << EXIT_PHASE_FAILED >>
      BY <2>1, Codes DEF SmokeAndStop
    <3>3. said' = said \cup {IF passed THEN "smoke_passed" ELSE "smoke_failed"}
      BY DEF SmokeAndStop, Says
    <3> QED
      BY <2>1, <3>1, <3>2, <3>3
<1>3. /\ SmokeTypeOK' /\ smoke'.at = "off"
      /\ passed => smoke'.served
      /\ smoke'.category = "success" => smoke'.served
  BY GoneStep DEF SmokeAndStop, Verdicts, IInv, TypeOK, Child
<1>4. TypeOK'
  BY <1>1, <1>2, <1>3, CodesTyped DEF IInv, TypeOK, Category
<1>5. Script'
  BY <1>1, <1>2, <1>3, Codes DEF Script, Stopping
<1>6. Child'
  BY <1>1, <1>2, <1>3, Codes DEF Child
<1>7. NoSilentPod'
  BY <1>1, <1>2, <1>3, Codes, OwnerSaid DEF NoSilentPod, OwnerCalled
<1>8. SuccessIsClean'
  BY <1>1, <1>2, <1>3, Codes DEF SuccessIsClean, Category
<1> QED
  BY <1>1, <1>4, <1>5, <1>6, <1>7, <1>8 DEF IInv

\* The child's verdict is collected and the Pod is kept.
LEMMA SmokeAndKeepInv ==
    ASSUME IInv, NEW passed \in Verdicts, SmokeAndKeep(passed)
    PROVE  IInv'
<1>1. /\ PodTypeOK' /\ PodInv' /\ lib' = lib /\ lib.known
      /\ deletes' = 0 /\ pod' = "running"
  BY SamePod, KnownPod DEF SmokeAndKeep, IInv, TypeOK, Script
<1>2. /\ at' = "over" /\ UNCHANGED <<keep, key, urgent>>
      /\ exit' = IF passed THEN EXIT_OK ELSE EXIT_PHASE_FAILED
      /\ ~urgent' /\ keep /\ passed \in BOOLEAN
      /\ said' = {"created", "healthy", "kept",
                    IF passed THEN "smoke_passed" ELSE "smoke_failed"}
      /\ codes' = IF passed THEN << EXIT_OK >>
                   ELSE << EXIT_PHASE_FAILED, EXIT_OK >>
  <2>1. /\ at = "smoke" /\ said = {"created", "healthy"} /\ codes = << >>
        /\ passed \in BOOLEAN /\ ~urgent
    BY DEF SmokeAndKeep, Verdicts, IInv, Script
  <2>2. codes' = IF passed THEN << EXIT_OK >> ELSE << EXIT_PHASE_FAILED, EXIT_OK >>
    BY <2>1, Codes DEF SmokeAndKeep
  <2> QED
    BY <2>1, <2>2, SelectedCodes DEF SmokeAndKeep, Exits, Says
<1>3. /\ SmokeTypeOK' /\ smoke'.at = "off"
      /\ passed => smoke'.served
      /\ smoke'.category = "success" => smoke'.served
  BY GoneStep DEF SmokeAndKeep, Verdicts, IInv, TypeOK, Child
<1>4. TypeOK'
  BY <1>1, <1>2, <1>3, CodesTyped DEF IInv, TypeOK, Category
<1>5. Script'
  BY <1>1, <1>2, <1>3, Codes DEF Script
<1>6. Child'
  BY <1>1, <1>2, <1>3, Codes DEF Child
<1>7. NoSilentPod'
  BY <1>1, <1>2, <1>3, Codes, OwnerSaid DEF NoSilentPod, OwnerCalled
<1>8. SuccessIsClean'
  BY <1>1, <1>2, <1>3, Codes DEF SuccessIsClean, Category
<1> QED
  BY <1>1, <1>4, <1>5, <1>6, <1>7, <1>8 DEF IInv

\* stop_pod came back: the last failing phase decides the exit code.
LEMMA StoppedInv == IInv /\ Stopped => IInv'
<1> SUFFICES ASSUME IInv, Stopped PROVE IInv'
  OBVIOUS
<1>1. /\ PodTypeOK' /\ PodInv' /\ lib' = lib /\ lib.known
      /\ lib.raised \in {"none", "cleanup_failed"}
      /\ lib.raised = "none" => pod' = "deleted"
  BY SamePod DEF Stopped, Back, IInv, TypeOK, Script, Stopping, Category
<1>2. /\ at' = "over" /\ UNCHANGED <<keep, key>> /\ ~keep
      /\ urgent' \in BOOLEAN /\ (urgent' <=> lib.raised = "cleanup_failed")
      /\ codes' \in Seq({EXIT_OK, EXIT_PHASE_FAILED, EXIT_CLEANUP_FAILED})
      /\ \E passed \in BOOLEAN :
            /\ said' = {"created", "healthy",
                         IF passed THEN "smoke_passed" ELSE "smoke_failed",
                         IF lib.raised = "none" THEN "deleted" ELSE "cleanup_failed"}
            /\ exit' = IF lib.raised # "none" THEN EXIT_CLEANUP_FAILED
                        ELSE IF passed THEN EXIT_OK ELSE EXIT_PHASE_FAILED
            /\ passed => "smoke_passed" \in said
  <2>1. urgent = FALSE /\ ~keep
    BY DEF Stopped, Back, IInv, TypeOK, Script
  <2>2. PICK passed \in BOOLEAN :
          /\ said = {"created", "healthy",
                     IF passed THEN "smoke_passed" ELSE "smoke_failed"}
          /\ codes = IF passed THEN << >> ELSE << EXIT_PHASE_FAILED >>
    BY DEF Stopped, Back, IInv, Script
  <2>3. CASE lib.raised = "none"
    <3>1. codes' = codes /\ said' = said \cup {"deleted"} /\ urgent' = urgent
      BY <2>3 DEF Stopped, Says
    <3>2. exit' = IF passed THEN EXIT_OK ELSE EXIT_PHASE_FAILED
      BY <2>2, <2>3, <3>1, SelectedCodes DEF Stopped, Exits
    <3>3. codes' \in Seq({EXIT_OK, EXIT_PHASE_FAILED, EXIT_CLEANUP_FAILED})
      BY <2>2, <3>1, CodesTyped
    <3>4. urgent' = FALSE
      BY <2>1, <3>1
    <3> QED
      BY <2>1, <2>2, <2>3, <3>1, <3>2, <3>3, <3>4, Codes DEF Stopped, Exits
  <2>4. CASE lib.raised = "cleanup_failed"
    <3>1. said' = said \cup {"cleanup_failed"} /\ urgent' = TRUE
      BY <2>4 DEF Stopped, Says
    <3>2. codes' = IF passed THEN << EXIT_CLEANUP_FAILED >>
                   ELSE << EXIT_PHASE_FAILED, EXIT_CLEANUP_FAILED >>
      BY <2>2, <2>4, Codes DEF Stopped
    <3> QED
      BY <2>1, <2>2, <2>4, <3>1, <3>2, SelectedCodes, Codes DEF Stopped, Exits
  <2> QED
    BY <1>1, <2>3, <2>4
<1>3. /\ SmokeTypeOK' /\ smoke' = smoke /\ smoke.at = "off"
      /\ smoke.category = "success" => smoke.served
      /\ "smoke_passed" \in said => smoke.served
  BY Codes DEF Stopped, Back, IInv, TypeOK, Script, Child, SmokeTypeOK
<1>4. TypeOK'
  BY <1>1, <1>2, <1>3, CodesTyped DEF IInv, TypeOK, Category
<1>5. Script'
  BY <1>1, <1>2, <1>3, Codes DEF Script
<1>6. Child'
  BY <1>1, <1>2, <1>3, Codes DEF Child
<1>7. NoSilentPod'
  <2>1. exit' = EXIT_CLEANUP_FAILED <=> urgent'
    BY <1>1, <1>2, Codes
  <2>2. urgent' <=> \/ "cleanup_failed" \in said'
                    \/ "wait_timeout_cleanup_failed" \in said'
    BY <1>1, <1>2
  <2>3. exit' \in 0..3 /\ ~keep' /\ lib'.known =>
           pod' = "deleted" \/ exit' = EXIT_CLEANUP_FAILED
    BY <1>1, <1>2, Codes
  <2> QED
    BY <2>1, <2>2, <2>3, OwnerSaid DEF NoSilentPod, OwnerCalled
<1>8. SuccessIsClean'
  BY <1>1, <1>2, <1>3, Codes DEF SuccessIsClean, Category
<1> QED
  BY <1>1, <1>4, <1>5, <1>6, <1>7, <1>8 DEF IInv

\* The finally block's stop_pod came back: the interrupt goes on, or the owner is
\* called.
LEMMA FinallyDoneInv == IInv /\ FinallyDone => IInv'
<1> SUFFICES ASSUME IInv, FinallyDone PROVE IInv'
  OBVIOUS
<1>1. /\ PodTypeOK' /\ PodInv' /\ lib' = lib /\ lib.known
      /\ lib.raised \in {"none", "cleanup_failed"}
  BY SamePod DEF FinallyDone, Back, IInv, TypeOK, Script, Stopping, Category
<1>2. /\ at' = "over" /\ UNCHANGED <<keep, key, codes>> /\ ~keep
      /\ codes \in Seq({EXIT_OK, EXIT_PHASE_FAILED, EXIT_CLEANUP_FAILED})
      /\ urgent' \in BOOLEAN /\ (urgent' <=> lib.raised = "cleanup_failed")
      /\ said' = {"created", "healthy"} \cup
                   (IF lib.raised = "none" THEN {} ELSE {"cleanup_failed"})
      /\ exit' = IF lib.raised = "none" THEN RaisedInterrupt
                  ELSE EXIT_CLEANUP_FAILED
  BY <1>1 DEF FinallyDone, Back, Says, Exits, IInv, TypeOK, Script
<1>3. /\ SmokeTypeOK' /\ smoke' = smoke /\ smoke.at = "off"
      /\ smoke.category = "success" => smoke.served
  BY Codes DEF FinallyDone, Back, IInv, TypeOK, Script, Child, SmokeTypeOK
<1>4. TypeOK'
  BY <1>1, <1>2, <1>3, CodesTyped DEF IInv, TypeOK, Category
<1>5. Script'
  BY <1>1, <1>2, <1>3, Codes DEF Script
<1>6. Child'
  BY <1>1, <1>2, <1>3, Codes DEF Child
<1>7. NoSilentPod'
  <2>1. exit' = EXIT_CLEANUP_FAILED <=> urgent'
    BY <1>1, <1>2, Codes
  <2>2. urgent' <=> \/ "cleanup_failed" \in said'
                    \/ "wait_timeout_cleanup_failed" \in said'
    BY <1>1, <1>2
  <2>3. exit' \in 0..3 /\ ~keep' /\ lib'.known =>
           pod' = "deleted" \/ exit' = EXIT_CLEANUP_FAILED
    BY <1>1, <1>2, Codes
  <2> QED
    BY <2>1, <2>2, <2>3, OwnerSaid DEF NoSilentPod, OwnerCalled
<1>8. SuccessIsClean'
  BY <1>1, <1>2, <1>3, Codes DEF SuccessIsClean, Category
<1> QED
  BY <1>1, <1>4, <1>5, <1>6, <1>7, <1>8 DEF IInv

\* An interrupt that nothing cleans up after ends the script.
LEMMA InterruptedForGoodInv == IInv /\ InterruptedForGood => IInv'
BY SamePod, GoneStep, Codes
   DEF InterruptedForGood, Exits, IInv, TypeOK, Script, Child,
       NoSilentPod, OwnerCalled, SuccessIsClean, Starting, Stopping, NoSmoke

\* An interrupt during the smoke ends the child, then deletes the Pod.
LEMMA InterruptedSmokeInv == IInv /\ InterruptedSmoke => IInv'
<1> SUFFICES ASSUME IInv, InterruptedSmoke PROVE IInv'
  OBVIOUS
<1>1. PodTypeOK' /\ PodInv' /\ Stopping'
  BY StopPodStep DEF InterruptedSmoke, IInv, TypeOK, Script
<1>2. /\ at' = "finally" /\ UNCHANGED <<keep, key, urgent, exit, codes>>
      /\ exit' = Running /\ ~urgent' /\ ~keep
      /\ said' = {"created", "healthy"} /\ codes' = << >>
  BY DEF InterruptedSmoke, IInv, Script
<1>3. /\ SmokeTypeOK' /\ smoke'.at = "off"
      /\ smoke'.category = "success" => smoke'.served
  BY GoneStep DEF InterruptedSmoke, IInv, TypeOK, Child
<1>4. TypeOK'
  BY <1>1, <1>2, <1>3, CodesTyped DEF IInv, TypeOK, Category
<1>5. Script'
  BY <1>1, <1>2, <1>3, Codes DEF Script, Stopping
<1>6. Child'
  BY <1>1, <1>2, <1>3, Codes DEF Child
<1>7. NoSilentPod'
  BY <1>1, <1>2, <1>3, Codes, OwnerSaid DEF NoSilentPod, OwnerCalled
<1>8. SuccessIsClean'
  BY <1>1, <1>2, <1>3, Codes DEF SuccessIsClean, Category
<1> QED
  BY <1>1, <1>4, <1>5, <1>6, <1>7, <1>8 DEF IInv

\* A killed script takes no more steps, and promises nothing.
LEMMA KillInv == IInv /\ Kill => IInv'
BY SamePod, Codes
   DEF Kill, Exits, IInv, TypeOK, SmokeTypeOK, Script, Child, NoSilentPod,
       OwnerCalled, SuccessIsClean, Starting, Stopping

\* The service acts late on a request nobody waits for.
LEMMA ServiceActsInv == IInv /\ ServiceActs => IInv'
BY UnheardStep, KnownPod, Codes
   DEF ServiceActs, IInv, TypeOK, SmokeTypeOK, Script, Child, NoSilentPod,
       OwnerCalled, SuccessIsClean

\* The invariant of the script, which says at every point how far the library
\* has come with the Pod.
THEOREM Inductive == Spec => []IInv
<1>1. IInv /\ UNCHANGED vars => IInv'
  BY SamePod
     DEF vars, IInv, TypeOK, SmokeTypeOK, Script, Child, NoSilentPod,
         OwnerCalled, SuccessIsClean
<1>2. IInv /\ [Next]_vars => IInv'
  BY <1>1, PreflightInv, StartInv, AnnounceInv, EnterTryInv, StartFailedInv,
     InLibraryInv, InSmokeInv, SmokeAndStopInv, SmokeAndKeepInv, StoppedInv,
     FinallyDoneInv, InterruptedForGoodInv, InterruptedSmokeInv, KillInv,
     ServiceActsInv
     DEF Next, Progress, Interrupt
<1> QED
  BY <1>2, InitInv, PTL DEF Spec

-----------------------------------------------------------------------------
\* What follows

\* Every variable keeps its shape, and the exit codes collected are those of
\* the phases, whatever the service, the child and the operator do.
THEOREM TypeCorrect == Spec => []TypeOK
BY Inductive, PTL DEF IInv

\* No Pod whose id was known is left behind in silence by a run that returns:
\* it is deleted, or the owner is told, for any bounds on the waits.
THEOREM NoPodIsSilent == Spec => []NoSilentPod
BY Inductive, PTL DEF IInv

\* Exit code 0 tells of a passed smoke test, of the Pod's end and of no failure.
THEOREM SuccessTellsTheTruth == Spec => []SuccessIsClean
BY Inductive, PTL DEF IInv

\* One bounded retry is all the DELETE requests there ever are.
THEOREM DeletesAreBounded == Spec => []DeleteBudget
<1>1. IInv => DeleteBudget
  BY DEF IInv, PodInv, DeleteBudget
<1> QED
  BY <1>1, Inductive, PTL

\* A Pod that is to be kept and was healthy is never deleted.
THEOREM KeptPodsSurvive == Spec => []KeptPodSurvives
<1>1. IInv => KeptPodSurvives
  BY KnownPod DEF IInv, TypeOK, Script, KeptPodSurvives
<1> QED
  BY <1>1, Inductive, PTL

\* A smoke test that passed was served by the Pod.
THEOREM PassedWereServed == Spec => []PassedIsServed
<1>1. IInv => PassedIsServed
  BY DEF IInv, Child, PassedIsServed
<1> QED
  BY <1>1, Inductive, PTL

\* The child does not outlive the decision to delete its Pod.
THEOREM ProbesPrecedeDeletes == Spec => []ProbeBeforeDelete
<1>1. IInv => ProbeBeforeDelete
  BY DEF IInv, TypeOK, Script, Child, NoSmoke, Probing, ProbeBeforeDelete
<1> QED
  BY <1>1, Inductive, PTL

=============================================================================
