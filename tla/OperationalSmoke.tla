-------------------------- MODULE OperationalSmoke --------------------------
(***************************************************************************)
(* cli/operational_smoke.py: seven phases over one vault, a ledger of      *)
(* their statuses, the result synthesised from the ledger with its exit    *)
(* code, and the JSON payload that cli/operational_report.py reads.        *)
(*                                                                         *)
(* Phases 1 to 6 are local: they write the vault and read it back, each in *)
(* one step, as nobody else works on the vault.  Of the vault is kept what *)
(* later phases test: whose documents the index file holds, and the lines  *)
(* of the audit file (AuditLog).  Phase 7 drives the Pod library           *)
(* (ManagedPod).  Scenarios follow one another in the same vault, with the *)
(* same payload path, each in a process of its own.                        *)
(***************************************************************************)
EXTENDS ManagedPod, AuditLog, OperationalReport

CONSTANT
    MaxRuns  \* scenarios, one after the other

ASSUME RunsAssumption == MaxRuns \in Nat \ {0}

VARIABLES
    run,      \* the scenario that is running, or the last one
    args,     \* what the options and the environment say of the Pod and of
              \* the demo corpus
    at,       \* where main is
    vault,    \* what earlier phases and scenarios left
    gateway,  \* the documents in the process's own index
    record,   \* phase 5 has the audit_record_id of its row
    ledger,   \* the phases recorded so far
    result,   \* the token of the result line
    exit,     \* the exit code, or the one about to be returned
    emitted,  \* what became of --emit-json
    file,     \* the content of the payload's path
    demo      \* the temporary directory of --demo-corpus

local == <<vault, gateway, record>>
output == <<result, exit, emitted, file>>
vars == <<podVars, run, args, at, local, ledger, output, demo>>

Local == {"batch", "index_snapshot", "index_reload", "search_smoke",
          "restoration_request", "audit_inspect"}

\* --live-runpod, RUNPOD_API_KEY and --keep-pod, as far as each is read.
PodArgs == {"off", "no_key", "delete", "keep"}

\* --demo-corpus, without and with --keep-demo-corpus.
DemoArgs == {"off", "removed", "kept"}

\* What an index holds: "plain" documents have no row the query finds.
Documents == {"none", "plain", "persons"}

\* Of a local phase the ledger keeps the status: its categories are told
\* apart by nothing here.
LocalRecord(status) == [status |-> status, category |-> "local"]

PodRecord(status, category) == [status |-> status, category |-> category]

\* A file is the report's input with two fields for the properties: "from",
\* the scenario that wrote it (0: there is no file, -1: something else), and
\* "said", what that scenario's result line told.
NoFile == [from |-> 0, said |-> "none", parses |-> FALSE,
           statuses |-> {}, shapes |-> {}, touched |-> FALSE,
           confirmed |-> "absent"]

\* Files that something else may have left at the path: not JSON, a status
\* outside the vocabulary, a shape that must not be shown, and a failure
\* whose confirmation is a string.
Foreign ==
    LET Other == [NoFile EXCEPT !.from = -1, !.parses = TRUE] IN
    {[Other EXCEPT !.parses = FALSE],
     [Other EXCEPT !.statuses = {"ok", "error"}],
     [Other EXCEPT !.statuses = {"ok"}, !.shapes = {"url"}],
     [Other EXCEPT !.statuses = {"fail"}, !.touched = TRUE,
                   !.confirmed = "truthy"]}

\* The audit file may hold the row of a scenario that ran long before.
\* As bounds, the demo corpus is combined with an empty path only, a stranger's
\* file with no Pod, and a later scenario has none of the three.
Init ==
    /\ PodInit
    /\ run = 1
    /\ args \in [pod: PodArgs, demo: DemoArgs]
    /\ at = "start"
    /\ vault \in [index : {[of |-> 0, docs |-> "absent"]},
                  audit : {EmptyFile, Appended(EmptyFile, 0)}]
    /\ gateway = "none"
    /\ record = FALSE
    /\ ledger = << >>
    /\ result = "none"
    /\ exit = -1
    /\ emitted = "no"
    /\ file \in {NoFile} \cup Foreign
    /\ args.demo # "off" => file = NoFile
    /\ file # NoFile => args.pod \in {"off", "no_key"}
    /\ demo = "absent"

-----------------------------------------------------------------------------
\* Synthesis

Statuses(l) == {l[p].status : p \in DOMAIN l}

OwnerActionCategory == {"cleanup_failed", "wait_timeout_cleanup_failed"}

\* A bug: the category of a timeout whose cleanup failed is left out.
_synthesise_result_forgets(l) ==
    IF \E p \in DOMAIN l :
          l[p].status = "fail" /\ l[p].category = "cleanup_failed"
      THEN "failed_owner_action"
    ELSE IF "fail" \in Statuses(l) THEN "failed_cleaned"
    ELSE IF "warn" \in Statuses(l) THEN "completed_with_warnings"
    ELSE "completed"

_synthesise_result(l) ==
    IF \E p \in DOMAIN l :
          l[p].status = "fail" /\ l[p].category \in OwnerActionCategory
      THEN "failed_owner_action"
    ELSE IF "fail" \in Statuses(l) THEN "failed_cleaned"
    ELSE IF "warn" \in Statuses(l) THEN "completed_with_warnings"
    ELSE "completed"

ExitCode(r) ==
    CASE r = "failed_owner_action" -> 3
      [] r = "failed_cleaned"      -> 1
      [] OTHER                     -> 0

\* _build_scenario_payload and _synthesise_counters, as far as the report's
\* classifier reads them; every token of the payload is plain.
Payload(l) ==
    LET phase == "runpod_lifecycle"
        touched == phase \in DOMAIN l /\ l[phase].status # "skipped" IN
    [from      |-> run,
     said      |-> result,
     parses    |-> TRUE,
     statuses  |-> Statuses(l),
     shapes    |-> {"plain"},
     touched   |-> touched,
     confirmed |-> IF ~touched THEN "absent"
                   ELSE IF l[phase].category # "cleanup_failed" THEN "true"
                   ELSE "false"]

-----------------------------------------------------------------------------
\* Start

\* --demo-corpus copies two documents into a fresh directory; an OSError
\* here leaves the directory behind, as the try statement comes later.
MaterialiseDemo ==
    /\ at = "start" /\ args.demo # "off" /\ demo = "absent"
    /\ \/ demo' = "there" /\ UNCHANGED <<at, exit>>
       \/ demo' \in {"absent", "there"} /\ at' = "over" /\ exit' = 1
    /\ UNCHANGED <<podVars, run, args, local, ledger, result, emitted, file>>

Ready == at = "start" /\ (args.demo # "off" => demo = "there")

\* No inbox, no vault or no facade: one failed phase and the result.
StartupFails ==
    /\ Ready
    /\ ledger' = [p \in {"batch"} |-> LocalRecord("fail")]
    /\ at' = "synthesis"
    /\ UNCHANGED <<podVars, run, args, local, output, demo>>

-----------------------------------------------------------------------------
\* Phases 1 to 6

\* The phases that end in this step, with their statuses, and what is next.
PhasesEnd(statuses, next) ==
    /\ ledger' = [p \in DOMAIN ledger \cup DOMAIN statuses |->
                    IF p \in DOMAIN statuses THEN LocalRecord(statuses[p])
                    ELSE ledger[p]]
    /\ at' = next
    /\ UNCHANGED <<podVars, run, args, output, demo>>

\* SearchGateway.snapshot of what the process has indexed.
Snapshot(docs) == [of |-> run, docs |-> docs]

\* run_directory: what it commits goes into the vault and into the gateway,
\* and it tries to write the index file; that failing is not its failure.
RunDirectory(docs) ==
    /\ gateway' = docs
    /\ \E index \in {vault.index, Snapshot(docs)} :
          vault' = [vault EXCEPT !.index = index]

\* No document to go on with: run_directory raises, the inbox is empty, all
\* documents failed, or no manifest can be listed.  Every local phase fails,
\* the Pod phase runs.
BatchFails ==
    /\ Ready
    /\ \/ UNCHANGED <<vault, gateway>>
       \/ \E docs \in Documents : RunDirectory(docs)
    /\ UNCHANGED record
    /\ PhasesEnd([p \in Local |-> "fail"], "pod")

\* A warning when some documents failed.
RunBatch ==
    /\ Ready
    /\ \E docs \in Documents \ {"none"} : RunDirectory(docs)
    /\ UNCHANGED record
    /\ \E status \in {"ok", "warn"} :
          PhasesEnd([p \in {"batch"} |-> status], "snapshot")

SnapshotIndex ==
    /\ at = "snapshot"
    /\ vault' = [vault EXCEPT !.index = Snapshot(gateway)]
    /\ UNCHANGED <<gateway, record>>
    /\ PhasesEnd([p \in {"index_snapshot"} |-> "ok"], "reload")

SnapshotFails ==
    /\ at = "snapshot"
    /\ UNCHANGED local
    /\ PhasesEnd([p \in {"index_snapshot"} |-> "fail"], "reload")

\* The child process loads the index file and searches it.
Finds(phase) ==
    IF phase = "search_smoke" THEN {"persons"} ELSE {"plain", "persons"}

ReloadAndSearch ==
    /\ at = "reload"
    /\ UNCHANGED local
    /\ PhasesEnd([p \in {"index_reload", "search_smoke"} |->
                    IF vault.index.docs \in Finds(p) THEN "ok" ELSE "fail"],
                 "restore")

\* It does not start, times out, exits non-zero or prints no report.
ReloadFails ==
    /\ at = "reload"
    /\ UNCHANGED local
    /\ PhasesEnd([p \in {"index_reload", "search_smoke"} |-> "fail"],
                 "restore")

\* The facade denies the request, after it appended the row that says so.
RequestRestore ==
    /\ at = "restore"
    /\ vault' = [vault EXCEPT !.audit = Appended(@, run)]
    /\ record' = TRUE
    /\ UNCHANGED gateway
    /\ PhasesEnd([p \in {"restoration_request"} |-> "ok"], "inspect")

\* The row could not be appended (audit_write_failed), or the request failed
\* before it came to that.
RequestRestoreFails ==
    /\ at = "restore"
    /\ \E audit \in {AfterFault(vault.audit, run, f) : f \in AppendFault} :
          vault' = [vault EXCEPT !.audit = audit]
    /\ UNCHANGED <<gateway, record>>
    /\ PhasesEnd([p \in {"restoration_request"} |-> "fail"], "inspect")

\* A bug: any row the smoke's label fits is taken for this scenario's.
InspectAuditByLabel ==
    /\ at = "inspect"
    /\ UNCHANGED local
    /\ LET lines == vault.audit.lines
           found == record /\ \E i \in DOMAIN lines : lines[i] # Garbled IN
       PhasesEnd([p \in {"audit_inspect"} |-> IF found THEN "ok" ELSE "fail"],
                 "pod")

\* The row is looked for by the id phase 5 returned; lines that are not JSON
\* are passed over.
InspectAudit ==
    /\ at = "inspect"
    /\ UNCHANGED local
    /\ LET lines == vault.audit.lines
           found == record /\ \E i \in DOMAIN lines : lines[i] = run IN
       PhasesEnd([p \in {"audit_inspect"} |-> IF found THEN "ok" ELSE "fail"],
                 "pod")

InspectAuditFails ==
    /\ at = "inspect"
    /\ UNCHANGED local
    /\ PhasesEnd([p \in {"audit_inspect"} |-> "fail"], "pod")

-----------------------------------------------------------------------------
\* Phase 7

Back(where) == at = where /\ lib.at = "idle"

others == <<run, args, local, output, demo>>

PodPhase(status, category) ==
    /\ ledger' = [p \in DOMAIN ledger \cup {"runpod_lifecycle"} |->
                    IF p = "runpod_lifecycle" THEN PodRecord(status, category)
                    ELSE ledger[p]]
    /\ at' = "synthesis"
    /\ UNCHANGED <<podVars, others>>

SkipPod ==
    /\ at = "pod"
    /\ \/ args.pod = "off" /\ PodPhase("skipped", "disabled")
       \/ args.pod = "no_key" /\ PodPhase("fail", "api_key_missing")

StartPodPhase ==
    /\ at = "pod" /\ args.pod \in {"delete", "keep"}
    /\ StartPod
    /\ at' = "starting"
    /\ UNCHANGED <<others, ledger>>

InLibrary ==
    /\ LibraryStep
    /\ UNCHANGED <<others, at, ledger>>

StartFailed ==
    /\ Back("starting") /\ lib.raised \in Category
    /\ PodPhase("fail", lib.raised)

KeepPod ==
    /\ Back("starting") /\ lib.raised = "none" /\ args.pod = "keep"
    /\ PodPhase("warn", "kept")

StopPodPhase ==
    /\ Back("starting") /\ lib.raised = "none" /\ args.pod = "delete"
    /\ StopPod
    /\ at' = "stopping"
    /\ UNCHANGED <<others, ledger>>

Stopped ==
    /\ Back("stopping") /\ lib.raised \in Category \cup {"none"}
    /\ IF lib.raised = "none" THEN PodPhase("ok", "ok")
       ELSE PodPhase("fail", lib.raised)

Interrupt ==
    /\ Interrupted
    /\ UNCHANGED <<others, at, ledger>>

\* The finally block only matters to an interrupt that arrives between the
\* return of start_pod and the call of stop_pod; it hides a failed cleanup.
InterruptedBeforeStop ==
    /\ Back("starting") /\ lib.raised = "none" /\ args.pod = "delete"
    /\ StopPod
    /\ at' = "finally"
    /\ UNCHANGED <<others, ledger>>

\* The interrupt leaves main by its own finally: no result line, no payload.
InterruptedForGood ==
    /\ \/ at \in {"starting", "stopping"} /\ lib.at = "idle"
             /\ lib.raised = "KeyboardInterrupt"
       \/ Back("finally")
    /\ at' = "leaving"
    /\ exit' = 130
    /\ UNCHANGED <<podVars, run, args, local, ledger, result, emitted, file,
                   demo>>

\* An interrupt anywhere else in the phases; what a phase has done by then is
\* what the phase does, then interrupted at the next place.
InterruptedOutside ==
    /\ \/ Ready
       \/ at \in {"snapshot", "reload", "restore", "inspect", "pod", "synthesis"}
    /\ at' = "leaving"
    /\ exit' = 130
    /\ UNCHANGED <<podVars, run, args, local, ledger, result, emitted, file,
                   demo>>

\* The demo corpus is made before the try statement: it may be left behind.
InterruptedMaterialising ==
    /\ at = "start" /\ args.demo # "off"
    /\ at' = "over"
    /\ exit' = 130
    /\ demo' \in {demo, "there"}
    /\ UNCHANGED <<podVars, run, args, local, ledger, result, emitted, file>>

-----------------------------------------------------------------------------
\* The end

\* The result line; whether --emit-json was given is only read after it.
Synthesise ==
    /\ at = "synthesis"
    /\ result' = _synthesise_result(ledger)
    /\ exit' = ExitCode(result')
    /\ \/ emitted' = "no" /\ at' = "leaving"
       \/ emitted' = "asked" /\ at' = "emitting"
    /\ UNCHANGED <<podVars, run, args, local, ledger, file, demo>>

Emits(how) ==
    /\ at = "emitting"
    /\ emitted' = how
    /\ at' = "leaving"
    /\ UNCHANGED <<podVars, run, args, local, ledger, result, exit, demo>>

\* The payload is written beside the path (where nobody reads it) and renamed
\* onto it.
EmitJson == Emits("written") /\ file' = Payload(ledger)

\* A bug: the path is opened for writing, and what fails leaves it cut off.
EmitFailsInPlace ==
    /\ Emits("failed")
    /\ file' \in {file, [Payload(ledger) EXCEPT !.parses = FALSE]}

\* OSError: a notice on stderr, and the file of before stays.
EmitFails == Emits("failed") /\ UNCHANGED file

\* An interrupt after the result line and before the renaming: the file of
\* before stays, and only an OSError is announced.
InterruptedEmitting ==
    /\ at = "emitting"
    /\ emitted' = "interrupted"
    /\ exit' = 130
    /\ at' = "leaving"
    /\ UNCHANGED <<podVars, run, args, local, ledger, result, file, demo>>

\* main's finally: the demo corpus is removed unless it is to be kept.
Leave ==
    /\ at = "leaving"
    /\ at' = "over"
    /\ demo' = IF demo = "there" /\ args.demo = "removed" THEN "removed"
               ELSE demo
    /\ UNCHANGED <<podVars, run, args, local, ledger, output>>

\* rmtree raises out of the finally: the exit code is that of a traceback.
LeaveRaises ==
    /\ at = "leaving" /\ demo = "there" /\ args.demo = "removed"
    /\ at' = "over"
    /\ exit' = 1
    /\ demo' = "stuck"
    /\ UNCHANGED <<podVars, run, args, local, ledger, result, emitted, file>>

\* An interrupt of the return, or of rmtree.
InterruptedLeaving ==
    /\ at = "leaving"
    /\ at' = "over"
    /\ exit' = 130
    /\ demo' \in IF demo = "there" /\ args.demo = "removed"
                   THEN {"removed", "stuck"} ELSE {demo}
    /\ UNCHANGED <<podVars, run, args, local, ledger, result, emitted, file>>

\* The next scenario, in a new process.
NextScenario ==
    /\ at = "over" /\ run < MaxRuns
    /\ pod = "absent" /\ wire = {} /\ file.from # -1
    /\ run' = run + 1
    /\ args' \in [pod: {"off", "no_key"}, demo: {"off"}]
    /\ at' = "start"
    /\ gateway' = "none"
    /\ record' = FALSE
    /\ ledger' = << >>
    /\ result' = "none"
    /\ exit' = -1
    /\ emitted' = "no"
    /\ demo' = "absent"
    /\ UNCHANGED <<pod, wire, deletes, vault, file>>
    /\ lib' = [lib EXCEPT !.raised = "none"]

ServiceActs ==
    /\ \E r \in wire : Unheard(r)
    /\ UNCHANGED <<others, at, ledger>>

Progress ==
    \/ MaterialiseDemo \/ StartupFails
    \/ BatchFails \/ RunBatch \/ SnapshotIndex \/ SnapshotFails
    \/ ReloadAndSearch \/ ReloadFails \/ RequestRestore \/ RequestRestoreFails
    \/ InspectAudit \/ InspectAuditFails
    \/ SkipPod \/ StartPodPhase \/ InLibrary \/ StartFailed
    \/ KeepPod \/ StopPodPhase \/ Stopped
    \/ InterruptedForGood \/ Synthesise \/ EmitJson \/ EmitFails
    \/ Leave \/ LeaveRaises

Next ==
    \/ Progress \/ ServiceActs \/ NextScenario
    \/ Interrupt \/ InterruptedBeforeStop \/ InterruptedOutside
    \/ InterruptedMaterialising \/ InterruptedEmitting \/ InterruptedLeaving

Fairness == WF_vars(Progress)

Spec == Init /\ [][Next]_vars /\ Fairness

-----------------------------------------------------------------------------
\* Properties

\* A scenario that ends without --keep-pod leaves no Pod it knew of, or calls
\* the owner: whatever else failed, and whichever call of the library failed
\* to delete it.  The exit code says the same, unless the demo corpus could
\* not be removed or an interrupt came after the result line.
NoPodUnannounced ==
    /\ result # "none" /\ lib.known /\ args.pod = "delete" =>
          pod = "deleted" \/ result = "failed_owner_action"
    /\ result # "none" /\ demo # "stuck" /\ exit # 130 =>
          exit = ExitCode(result)

\* The unqualified "completed" leaves nothing behind at the service: not a
\* kept Pod, not one that was created behind the scenario's back.
CompletedLeavesNothing ==
    result = "completed" => pod # "running" /\ Create \notin wire

\* The result is honest about the Pod, whatever became of the other phases.
ResultTellsOfPod == NoPodUnannounced /\ CompletedLeavesNothing

\* A scenario that did not fail has proved what it set out to prove: the
\* index file holds its own documents and finds one, and the row of its own
\* restoration request can be read from the audit file, whatever earlier
\* scenarios left in the vault.
CompletedIsServed ==
    result \in {"completed", "completed_with_warnings"} =>
        /\ vault.index = [of |-> run, docs |-> "persons"]
        /\ \E i \in DOMAIN vault.audit.lines : vault.audit.lines[i] = run

\* A report that is read from the path of --emit-json, at any time, tells of
\* one whole scenario what its result line said, up to the kind of failure;
\* it tells of the scenario before the last one only if that one was not
\* asked to write, announced that it could not, or was interrupted: which the
\* exit code says, or the traceback of what then failed in its finally.
ReportOfScenario ==
    /\ file.from \in 1..MaxRuns =>
          /\ Report(file).exit = 0
          /\ LET state == Report(file).page.state IN
             \/ state = file.said
             \/ {state, file.said} = {"failed_cleaned", "failed_owner_action"}
    /\ at = "over" /\ result # "none" =>
          \/ file.from = run
          \/ emitted \in {"no", "failed"}
          \/ emitted = "interrupted" /\ (exit = 130 \/ demo = "stuck")

\* Of a file that is not a scenario's, nothing is shown that has a sensitive
\* shape, a status nobody knows is not reported as success, and a failure is
\* only "cleaned" on the literal true.
ReportOfStranger ==
    file.from = -1 /\ Report(file).exit = 0 =>
        /\ file.shapes \cap _LEAK_PATTERNS = {}
        /\ file.statuses \subseteq PHASE_STATUS_VOCABULARY
        /\ "fail" \in file.statuses /\ file.touched =>
              Report(file).page.owner

\* The report can be believed.
ReportTellsOfScenario == ReportOfScenario /\ ReportOfStranger

\* Every scenario ends, whatever the phases, the service and the disk do.
ScenarioEnds == []<>(at = "over")

-----------------------------------------------------------------------------
\* The inductive invariant

Phase == Local \cup {"runpod_lifecycle"}

\* The shapes of what the argument turns on.
TypeOK ==
    /\ PodTypeOK
    /\ run \in 1..MaxRuns
    /\ vault \in [index : [of: 0..MaxRuns, docs: Documents \cup {"absent"}],
                  audit : [lines: Seq((0..MaxRuns) \cup {Garbled}), open: BOOLEAN]]
    /\ vault.audit.open => vault.audit.lines # << >>
    /\ gateway \in Documents
    /\ DOMAIN ledger \subseteq Phase
    /\ Statuses(ledger) \subseteq PHASE_STATUS_VOCABULARY
    /\ emitted \in {"no", "asked", "written", "failed", "interrupted"}

\* Before its last phase a scenario has not touched the service; then the
\* library keeps its promises, and is idle again when the phase is recorded.
Untouched == pod = "absent" /\ wire = {} /\ ~lib.known /\ lib.at = "idle"

InPodPhase == {"starting", "stopping", "finally"}

PodPhaseInv ==
    /\ PodInv
    /\ at \in {"start", "snapshot", "reload", "restore", "inspect", "pod"} => Untouched
    /\ at = "starting" => Starting
    /\ at \in {"stopping", "finally"} => Stopping
    /\ at \notin InPodPhase => lib.at = "idle"

\* No phase is recorded twice.
RecordedOnce ==
    /\ at = "start" => DOMAIN ledger = {}
    /\ at = "snapshot" => DOMAIN ledger \subseteq {"batch"}
    /\ at = "reload" => DOMAIN ledger \subseteq {"batch", "index_snapshot"}
    /\ at = "restore" =>
          DOMAIN ledger \subseteq {"batch", "index_snapshot", "index_reload", "search_smoke"}
    /\ at = "inspect" => DOMAIN ledger \subseteq Local \ {"audit_inspect"}
    /\ at \in {"pod"} \cup InPodPhase => DOMAIN ledger \subseteq Local

\* As long as no phase has failed, the vault has what the phases looked for.
SomeFailed == "fail" \in Statuses(ledger)
IndexServed == vault.index = [of |-> run, docs |-> "persons"]
AuditServed == \E i \in DOMAIN vault.audit.lines : vault.audit.lines[i] = run

\* The ledger is complete, or was when the result was synthesised.
Complete == at = "synthesis" \/ result # "none"

ServedInv ==
    /\ at = "reload" => SomeFailed \/ vault.index.of = run
    /\ at \in {"restore", "inspect", "pod"} \cup InPodPhase \/ Complete =>
          SomeFailed \/ IndexServed
    /\ at \in {"pod"} \cup InPodPhase \/ Complete => SomeFailed \/ AuditServed

\* What a complete ledger says of the Pod.
CallsOwner(l) ==
    \E p \in DOMAIN l : l[p].status = "fail" /\ l[p].category \in OwnerActionCategory

PodStory ==
    /\ lib.known /\ args.pod = "delete" => pod = "deleted" \/ CallsOwner(ledger)
    /\ pod = "running" \/ Create \in wire => Statuses(ledger) \cap {"fail", "warn"} # {}

ResultInv ==
    /\ Complete => PodStory
    /\ result # "none" =>
          /\ at \in {"emitting", "leaving", "over"}
          /\ result = _synthesise_result(ledger)
          /\ exit \in {ExitCode(result), 130} \/ demo = "stuck"
    /\ at = "emitting" => result # "none"

\* The file at the path of the payload, and what was told of it.
FileInv ==
    /\ file.from \in 1..MaxRuns =>
          /\ Report(file).exit = 0
          /\ \/ Report(file).page.state = file.said
             \/ {Report(file).page.state, file.said} =
                   {"failed_cleaned", "failed_owner_action"}
    /\ file.from = -1 => file \in Foreign
    /\ emitted # "no" => at \in {"emitting", "leaving", "over"}
    /\ emitted = "asked" <=> at = "emitting"
    /\ emitted = "written" => file.from = run
    /\ emitted = "interrupted" => exit = 130 \/ demo = "stuck"

IInv ==
    TypeOK /\ PodPhaseInv /\ RecordedOnce /\ ServedInv /\ ResultInv /\ FileInv

-----------------------------------------------------------------------------
\* What the documentation says and the code does not do

\* "Mirror smoke's classifier here so both CLIs agree": the report classifies
\* the payload as the scenario did.
ReportAgrees ==
    file.from \in 1..MaxRuns => Report(file).page.state = file.said

=============================================================================
