----------------------- MODULE OperationalSmokeProofs -----------------------
(***************************************************************************)
(* For any number of scenarios and any bounds of the Pod library: what the *)
(* result line says of the Pod and of the vault is so, and a report read   *)
(* from the path of the payload tells of one whole scenario.               *)
(*                                                                         *)
(* IInv follows main from phase to phase.  Most steps leave most of it     *)
(* alone, so the first lemmas say what a step of each kind keeps: one that *)
(* records local phases, one inside the Pod phase, the one that records    *)
(* it, and one after the ledger is complete.                               *)
(***************************************************************************)
EXTENDS OperationalSmoke, ManagedPodProofs, AuditLogProofs

Early == {"start", "snapshot", "reload", "restore", "inspect", "pod"}

Late == {"emitting", "leaving", "over"}

\* Before the result line there is no result, and nothing was asked for.
LEMMA NoResultYet ==
    ASSUME IInv, at \notin Late
    PROVE  result = "none" /\ emitted = "no"
BY DEF IInv, ResultInv, FileInv, Late

\* The payload's file stays what it was while nobody writes it.
LEMMA FileKept ==
    ASSUME FileInv, UNCHANGED <<run, file, emitted>>,
           at # "emitting", at' # "emitting",
           emitted = "no" \/ at' \in Late,
           emitted = "interrupted" => exit' = 130 \/ demo' = "stuck"
    PROVE  FileInv'
BY DEF FileInv, Late

-----------------------------------------------------------------------------
\* A step that records local phases

\* The ledger gains the phases that end, and their statuses.
LEMMA LedgerGains ==
    ASSUME NEW statuses, NEW next, PhasesEnd(statuses, next),
           DOMAIN statuses \cap DOMAIN ledger = {}
    PROVE  /\ DOMAIN ledger' = DOMAIN ledger \cup DOMAIN statuses
           /\ Statuses(ledger)' =
                 Statuses(ledger) \cup {statuses[p] : p \in DOMAIN statuses}
<1> DEFINE D == DOMAIN ledger \cup DOMAIN statuses
<1>1. /\ DOMAIN ledger' = D
      /\ \A p \in DOMAIN statuses : ledger'[p].status = statuses[p]
      /\ \A p \in DOMAIN ledger : ledger'[p] = ledger[p]
  BY DEF PhasesEnd, LocalRecord
<1>2. Statuses(ledger)' = {ledger'[p].status : p \in D}
  BY <1>1 DEF Statuses
<1>3. {ledger'[p].status : p \in D} =
        {ledger[p].status : p \in DOMAIN ledger}
          \cup {statuses[p] : p \in DOMAIN statuses}
  BY <1>1
<1> QED
  BY <1>1, <1>2, <1>3 DEF Statuses

\* Up to the Pod phase the service is left alone, there is no result and no
\* payload: what such a step has to see to is the vault and the ledger.
LEMMA LocalPhase ==
    ASSUME IInv, at \in Early, NEW next \in Early \ {"start"},
           NEW statuses, PhasesEnd(statuses, next),
           DOMAIN statuses \subseteq Phase, DOMAIN statuses \cap DOMAIN ledger = {},
           \A p \in DOMAIN statuses : statuses[p] \in PHASE_STATUS_VOCABULARY,
           vault' \in [index : [of: 0..MaxRuns, docs: Documents \cup {"absent"}],
                       audit : FileOver(0..MaxRuns)],
           vault'.audit.open => vault'.audit.lines # << >>,
           gateway' \in Documents,
           RecordedOnce', ServedInv'
    PROVE  IInv'
<1>1. /\ DOMAIN ledger' = DOMAIN ledger \cup DOMAIN statuses
      /\ Statuses(ledger)' =
            Statuses(ledger) \cup {statuses[p] : p \in DOMAIN statuses}
  BY LedgerGains
<1>2. at' = next /\ UNCHANGED <<podVars, run, args, output, demo>>
  BY DEF PhasesEnd
<1>3. TypeOK'
  <2>1. PodTypeOK'
    BY <1>2 DEF IInv, TypeOK, PodTypeOK, podVars
  <2>2. run' \in 1..MaxRuns /\ emitted' \in {"no", "asked", "written", "failed", "interrupted"}
    BY <1>2 DEF IInv, TypeOK, output
  <2>3. DOMAIN ledger' \subseteq Phase /\ Statuses(ledger)' \subseteq PHASE_STATUS_VOCABULARY
    BY <1>1 DEF IInv, TypeOK
  <2> QED
    BY <2>1, <2>2, <2>3 DEF TypeOK, FileOver
<1>4. PodPhaseInv'
  <2>1. PodInv' /\ Untouched'
    BY <1>2 DEF IInv, PodPhaseInv, PodInv, Untouched, Early, podVars
  <2>2. at' \in Early
    BY <1>2
  <2> QED
    BY <2>1, <2>2 DEF PodPhaseInv, Early, Untouched, InPodPhase
<1>5. ResultInv'
  BY <1>2, NoResultYet DEF ResultInv, Complete, Early, Late, output
<1>6. FileInv'
  BY <1>2, FileKept, NoResultYet DEF IInv, Early, Late, output
<1> QED
  BY <1>3, <1>4, <1>5, <1>6 DEF IInv

-----------------------------------------------------------------------------
\* Phases 1 to 6

\* What the shapes of the vault allow a phase to write.
LEMMA VaultTyped ==
    ASSUME TypeOK
    PROVE  /\ run \in 0..MaxRuns /\ run \in 1..MaxRuns
           /\ vault \in [index : [of: 0..MaxRuns, docs: Documents \cup {"absent"}],
                         audit : FileOver(0..MaxRuns)]
           /\ vault.audit \in FileOver(0..MaxRuns)
           /\ vault.audit.open => vault.audit.lines # << >>
BY DEF TypeOK, FileOver

\* A directory that was run leaves the audit file alone.
LEMMA RunDirectoryTyped ==
    ASSUME TypeOK, NEW docs \in Documents, RunDirectory(docs)
    PROVE  /\ vault' \in [index : [of: 0..MaxRuns, docs: Documents \cup {"absent"}],
                          audit : FileOver(0..MaxRuns)]
           /\ vault'.audit = vault.audit
           /\ gateway' = docs
<1> PICK index \in {vault.index, Snapshot(docs)} :
       vault' = [vault EXCEPT !.index = index]
  BY DEF RunDirectory
<1>1. index \in [of: 0..MaxRuns, docs: Documents \cup {"absent"}]
  BY VaultTyped DEF Snapshot
<1> QED
  BY <1>1, VaultTyped DEF RunDirectory

\* No document to go on with: everything local has failed.
LEMMA BatchFailsInv == IInv /\ BatchFails => IInv'
<1> SUFFICES ASSUME IInv, BatchFails PROVE IInv'
  OBVIOUS
<1> DEFINE statuses == [p \in Local |-> "fail"]
<1>1. at = "start" /\ PhasesEnd(statuses, "pod") /\ DOMAIN ledger = {}
  BY DEF BatchFails, Ready, IInv, RecordedOnce
<1>2. DOMAIN statuses = Local /\ \A p \in Local : statuses[p] = "fail"
  OBVIOUS
<1>3. /\ vault' \in [index : [of: 0..MaxRuns, docs: Documents \cup {"absent"}],
                     audit : FileOver(0..MaxRuns)]
      /\ vault'.audit = vault.audit
      /\ gateway' \in Documents
  BY VaultTyped, RunDirectoryTyped DEF BatchFails, IInv, TypeOK
<1> HIDE DEF statuses
<1>4. /\ DOMAIN ledger' = Local
      /\ "fail" \in Statuses(ledger)'
  <2>1. "batch" \in Local
    BY DEF Local
  <2> QED
    BY <1>1, <1>2, <2>1, LedgerGains
<1>5. at' = "pod" /\ result' = "none"
  BY <1>1, NoResultYet DEF PhasesEnd, output, Late
<1>6. RecordedOnce' /\ ServedInv'
  BY <1>4, <1>5 DEF RecordedOnce, ServedInv, SomeFailed, Complete, InPodPhase
<1> QED
  BY <1>1, <1>2, <1>3, <1>6, VaultTyped, LocalPhase
     DEF IInv, Early, Phase, PHASE_STATUS_VOCABULARY

\* Something was indexed.
LEMMA RunBatchInv == IInv /\ RunBatch => IInv'
<1> SUFFICES ASSUME IInv, RunBatch PROVE IInv'
  OBVIOUS
<1> PICK status \in {"ok", "warn"} :
       PhasesEnd([p \in {"batch"} |-> status], "snapshot")
  BY DEF RunBatch
<1> DEFINE statuses == [p \in {"batch"} |-> status]
<1>1. at = "start" /\ PhasesEnd(statuses, "snapshot") /\ DOMAIN ledger = {}
  BY DEF RunBatch, Ready, IInv, RecordedOnce
<1>2. DOMAIN statuses = {"batch"} /\ \A p \in {"batch"} : statuses[p] = status
  OBVIOUS
<1>3. /\ vault' \in [index : [of: 0..MaxRuns, docs: Documents \cup {"absent"}],
                     audit : FileOver(0..MaxRuns)]
      /\ vault'.audit = vault.audit
      /\ gateway' \in Documents
  BY RunDirectoryTyped DEF RunBatch, IInv
<1> HIDE DEF statuses
<1>4. DOMAIN ledger' = {"batch"}
  BY <1>1, <1>2, LedgerGains
<1>5. at' = "snapshot" /\ result' = "none"
  BY <1>1, NoResultYet DEF PhasesEnd, output, Late
<1>6. RecordedOnce' /\ ServedInv'
  BY <1>4, <1>5 DEF RecordedOnce, ServedInv, Complete, InPodPhase
<1> QED
  BY <1>1, <1>2, <1>3, <1>6, VaultTyped, LocalPhase
     DEF IInv, Early, Phase, Local, PHASE_STATUS_VOCABULARY

\* The index file holds what this scenario indexed, or the phase has failed.
LEMMA SnapshotInv == IInv /\ (SnapshotIndex \/ SnapshotFails) => IInv'
<1> SUFFICES ASSUME IInv, SnapshotIndex \/ SnapshotFails PROVE IInv'
  OBVIOUS
<1> PICK status \in {"ok", "fail"} :
       /\ PhasesEnd([p \in {"index_snapshot"} |-> status], "reload")
       /\ status = "ok" => SnapshotIndex
       /\ status = "fail" => SnapshotFails
  BY DEF SnapshotIndex, SnapshotFails
<1> DEFINE statuses == [p \in {"index_snapshot"} |-> status]
<1>1. /\ at = "snapshot" /\ PhasesEnd(statuses, "reload")
      /\ DOMAIN ledger \subseteq {"batch"}
  BY DEF SnapshotIndex, SnapshotFails, IInv, RecordedOnce
<1>2. /\ DOMAIN statuses = {"index_snapshot"}
      /\ \A p \in {"index_snapshot"} : statuses[p] = status
  OBVIOUS
<1>3. /\ vault' \in [index : [of: 0..MaxRuns, docs: Documents \cup {"absent"}],
                     audit : FileOver(0..MaxRuns)]
      /\ vault'.audit = vault.audit
      /\ gateway' \in Documents
      /\ status = "ok" => vault'.index.of = run
  <2>1. Snapshot(gateway) \in [of: 0..MaxRuns, docs: Documents \cup {"absent"}]
    BY VaultTyped DEF Snapshot, IInv, TypeOK
  <2> QED
    BY <2>1, VaultTyped DEF SnapshotIndex, SnapshotFails, IInv, TypeOK, local, Snapshot
<1> HIDE DEF statuses
<1>4. /\ DOMAIN ledger' \subseteq {"batch", "index_snapshot"}
      /\ status = "fail" => "fail" \in Statuses(ledger)'
  BY <1>1, <1>2, LedgerGains
<1>5. at' = "reload" /\ result' = "none" /\ run' = run
  BY <1>1, NoResultYet DEF PhasesEnd, output, Late
<1>6. RecordedOnce' /\ ServedInv'
  BY <1>3, <1>4, <1>5 DEF RecordedOnce, ServedInv, SomeFailed, Complete, InPodPhase
<1> QED
  BY <1>1, <1>2, <1>3, <1>6, VaultTyped, LocalPhase
     DEF IInv, Early, Phase, Local, PHASE_STATUS_VOCABULARY

\* Both phases of the child process tell of the index file; when both are ok
\* it holds this scenario's documents and the one the query finds.
LEMMA ReloadInv == IInv /\ (ReloadAndSearch \/ ReloadFails) => IInv'
<1> SUFFICES ASSUME IInv, ReloadAndSearch \/ ReloadFails PROVE IInv'
  OBVIOUS
<1> DEFINE Both == {"index_reload", "search_smoke"}
<1> PICK statuses \in [Both -> {"ok", "fail"}] :
       /\ PhasesEnd(statuses, "restore")
       /\ \/ statuses["search_smoke"] = "fail"
          \/ vault.index.docs = "persons"
  <2>1. CASE ReloadAndSearch
    <3> DEFINE s == [p \in Both |->
                       IF vault.index.docs \in Finds(p) THEN "ok" ELSE "fail"]
    <3>1. s \in [Both -> {"ok", "fail"}] /\ PhasesEnd(s, "restore")
      BY <2>1 DEF ReloadAndSearch
    <3>2. s["search_smoke"] = "fail" \/ vault.index.docs = "persons"
      BY DEF Finds
    <3> QED
      BY <3>1, <3>2
  <2>2. CASE ReloadFails
    <3> DEFINE s == [p \in Both |-> "fail"]
    <3>1. /\ s \in [Both -> {"ok", "fail"}] /\ PhasesEnd(s, "restore")
          /\ s["search_smoke"] = "fail"
      BY <2>2 DEF ReloadFails
    <3> QED
      BY <3>1
  <2> QED
    BY <2>1, <2>2
<1>1. /\ at = "reload" /\ UNCHANGED local
      /\ DOMAIN ledger \subseteq {"batch", "index_snapshot"}
  BY DEF ReloadAndSearch, ReloadFails, IInv, RecordedOnce
<1>2. /\ DOMAIN statuses = Both
      /\ \A p \in DOMAIN statuses : statuses[p] \in PHASE_STATUS_VOCABULARY
      /\ DOMAIN statuses \subseteq Phase /\ DOMAIN statuses \cap DOMAIN ledger = {}
  BY <1>1 DEF Phase, Local, PHASE_STATUS_VOCABULARY
<1>3. /\ DOMAIN ledger' = DOMAIN ledger \cup Both
      /\ Statuses(ledger)' =
            Statuses(ledger) \cup {statuses[p] : p \in DOMAIN statuses}
  BY <1>2, LedgerGains
<1>4. at' = "restore" /\ result' = "none" /\ run' = run
  BY <1>1, NoResultYet DEF PhasesEnd, output, Late
<1>5. /\ vault' = vault /\ gateway' = gateway
      /\ vault'.audit.open => vault'.audit.lines # << >>
      /\ gateway' \in Documents
      /\ vault' \in [index : [of: 0..MaxRuns, docs: Documents \cup {"absent"}],
                     audit : FileOver(0..MaxRuns)]
  BY <1>1, VaultTyped DEF local, IInv, TypeOK
<1>6. "fail" \in Statuses(ledger)' \/ IndexServed'
  <2>1. CASE statuses["search_smoke"] = "fail"
    BY <1>2, <1>3, <2>1
  <2>2. CASE SomeFailed
    BY <1>3, <2>2 DEF SomeFailed
  <2>3. CASE vault.index.docs = "persons" /\ vault.index.of = run
    <3>1. vault.index \in [of: 0..MaxRuns, docs: Documents \cup {"absent"}]
      BY VaultTyped DEF IInv
    <3>2. vault.index = [of |-> run, docs |-> "persons"]
      BY <3>1, <2>3
    <3> QED
      BY <1>4, <1>5, <3>2 DEF IndexServed
  <2> QED
    BY <1>1, <2>1, <2>2, <2>3 DEF IInv, ServedInv
<1>7. RecordedOnce'
  BY <1>1, <1>3, <1>4 DEF RecordedOnce, InPodPhase
<1>8. ServedInv'
  BY <1>4, <1>6 DEF ServedInv, SomeFailed, Complete, InPodPhase
<1> QED
  BY <1>1, <1>2, <1>5, <1>7, <1>8, LocalPhase DEF Early

\* The restoration request leaves the index file alone.
LEMMA RestoreInv == IInv /\ (RequestRestore \/ RequestRestoreFails) => IInv'
<1> SUFFICES ASSUME IInv, RequestRestore \/ RequestRestoreFails PROVE IInv'
  OBVIOUS
<1> PICK status \in {"ok", "fail"} :
       PhasesEnd([p \in {"restoration_request"} |-> status], "inspect")
  BY DEF RequestRestore, RequestRestoreFails
<1> DEFINE statuses == [p \in {"restoration_request"} |-> status]
<1>1. /\ at = "restore" /\ PhasesEnd(statuses, "inspect") /\ gateway' = gateway
      /\ DOMAIN ledger \subseteq {"batch", "index_snapshot", "index_reload", "search_smoke"}
  BY DEF RequestRestore, RequestRestoreFails, IInv, RecordedOnce
<1>2. /\ DOMAIN statuses = {"restoration_request"}
      /\ \A p \in DOMAIN statuses : statuses[p] \in PHASE_STATUS_VOCABULARY
      /\ DOMAIN statuses \subseteq Phase /\ DOMAIN statuses \cap DOMAIN ledger = {}
  BY <1>1 DEF Phase, Local, PHASE_STATUS_VOCABULARY
<1>3. PICK audit \in FileOver(0..MaxRuns) :
         /\ vault' = [vault EXCEPT !.audit = audit]
         /\ audit.open => audit.lines # << >>
  <2>1. CASE RequestRestore
    BY <2>1, VaultTyped, AppendedFile DEF RequestRestore, IInv
  <2>2. CASE RequestRestoreFails
    <3> PICK f \in AppendFault :
           vault' = [vault EXCEPT !.audit = AfterFault(vault.audit, run, f)]
      BY <2>2 DEF RequestRestoreFails
    <3> DEFINE audit == AfterFault(vault.audit, run, f)
    <3>1. /\ audit \in FileOver(0..MaxRuns)
          /\ audit.open => audit.lines # << >>
      BY VaultTyped, AfterFaultFile DEF IInv
    <3> QED
      BY <3>1
  <2> QED
    BY <2>1, <2>2
<1>4. /\ vault' \in [index : [of: 0..MaxRuns, docs: Documents \cup {"absent"}],
                     audit : FileOver(0..MaxRuns)]
      /\ vault'.audit.open => vault'.audit.lines # << >>
      /\ vault'.index = vault.index
      /\ gateway' \in Documents
  BY <1>1, <1>3, VaultTyped DEF IInv, TypeOK
<1> HIDE DEF statuses
<1>5. /\ DOMAIN ledger' = DOMAIN ledger \cup {"restoration_request"}
      /\ Statuses(ledger) \subseteq Statuses(ledger)'
  BY <1>1, <1>2, LedgerGains
<1>6. at' = "inspect" /\ result' = "none" /\ run' = run
  BY <1>1, NoResultYet DEF PhasesEnd, output, Late
<1>7. RecordedOnce'
  BY <1>1, <1>5, <1>6 DEF RecordedOnce, InPodPhase, Local
<1>8. ServedInv'
  BY <1>1, <1>4, <1>5, <1>6
     DEF IInv, ServedInv, SomeFailed, IndexServed, Complete, InPodPhase
<1> QED
  BY <1>1, <1>2, <1>4, <1>7, <1>8, LocalPhase DEF Early

\* The phase is ok only when the row of this scenario's request was read.
LEMMA InspectInv == IInv /\ (InspectAudit \/ InspectAuditFails) => IInv'
<1> SUFFICES ASSUME IInv, InspectAudit \/ InspectAuditFails PROVE IInv'
  OBVIOUS
<1> PICK status \in {"ok", "fail"} :
       /\ PhasesEnd([p \in {"audit_inspect"} |-> status], "pod")
       /\ status = "ok" => AuditServed
  <2> DEFINE found == record /\ AuditServed
  <2>1. CASE InspectAudit
    <3>1. PhasesEnd([p \in {"audit_inspect"} |-> IF found THEN "ok" ELSE "fail"], "pod")
      BY <2>1 DEF InspectAudit, AuditServed
    <3> QED
      BY <3>1
  <2>2. CASE InspectAuditFails
    BY <2>2 DEF InspectAuditFails
  <2> QED
    BY <2>1, <2>2
<1> DEFINE statuses == [p \in {"audit_inspect"} |-> status]
<1>1. /\ at = "inspect" /\ PhasesEnd(statuses, "pod") /\ UNCHANGED local
      /\ DOMAIN ledger \subseteq Local \ {"audit_inspect"}
  BY DEF InspectAudit, InspectAuditFails, IInv, RecordedOnce
<1>2. /\ DOMAIN statuses = {"audit_inspect"}
      /\ \A p \in DOMAIN statuses : statuses[p] \in PHASE_STATUS_VOCABULARY
      /\ \A p \in DOMAIN statuses : statuses[p] = status
      /\ DOMAIN statuses \subseteq Phase /\ DOMAIN statuses \cap DOMAIN ledger = {}
  BY <1>1 DEF Phase, Local, PHASE_STATUS_VOCABULARY
<1>3. /\ vault' = vault /\ gateway' = gateway
      /\ vault'.audit.open => vault'.audit.lines # << >>
      /\ gateway' \in Documents
      /\ vault' \in [index : [of: 0..MaxRuns, docs: Documents \cup {"absent"}],
                     audit : FileOver(0..MaxRuns)]
  BY <1>1, VaultTyped DEF local, IInv, TypeOK
<1> HIDE DEF statuses
<1>4. /\ DOMAIN ledger' = DOMAIN ledger \cup {"audit_inspect"}
      /\ Statuses(ledger) \subseteq Statuses(ledger)'
      /\ status \in Statuses(ledger)'
  <2>1. /\ DOMAIN ledger' = DOMAIN ledger \cup DOMAIN statuses
        /\ Statuses(ledger)' =
              Statuses(ledger) \cup {statuses[p] : p \in DOMAIN statuses}
    BY <1>1, <1>2, LedgerGains
  <2>2. "audit_inspect" \in DOMAIN statuses /\ statuses["audit_inspect"] = status
    BY <1>2
  <2> QED
    BY <1>2, <2>1, <2>2
<1>5. at' = "pod" /\ result' = "none" /\ run' = run
  BY <1>1, NoResultYet DEF PhasesEnd, output, Late
<1>6. RecordedOnce'
  BY <1>1, <1>4, <1>5 DEF RecordedOnce, InPodPhase, Local
<1>7. ServedInv'
  <2>1. SomeFailed' \/ IndexServed'
    BY <1>1, <1>3, <1>4, <1>5 DEF IInv, ServedInv, SomeFailed, IndexServed
  <2>2. SomeFailed' \/ AuditServed'
    BY <1>3, <1>4, <1>5 DEF SomeFailed, AuditServed
  <2> QED
    BY <1>5, <2>1, <2>2 DEF ServedInv
<1> QED
  BY <1>1, <1>2, <1>3, <1>6, <1>7, LocalPhase DEF Early

-----------------------------------------------------------------------------
\* The Pod phase

\* A step inside the phase: the library keeps its promises, the rest stays.
LEMMA WithinPodPhase ==
    ASSUME IInv, at \in {"pod"} \cup InPodPhase, UNCHANGED <<others, ledger>>,
           at' \in InPodPhase, PodTypeOK', PodInv',
           at' = "starting" => Starting',
           at' \in {"stopping", "finally"} => Stopping'
    PROVE  IInv'
<1>1. UNCHANGED <<run, args, local, output, demo, ledger>>
  BY DEF others
<1>2. TypeOK'
  BY <1>1 DEF IInv, TypeOK, Statuses, local, output
<1>3. PodPhaseInv'
  BY DEF PodPhaseInv, InPodPhase
<1>4. RecordedOnce'
  BY <1>1 DEF IInv, RecordedOnce, InPodPhase
<1>5. result' = "none" /\ at' \notin Late /\ at' # "synthesis"
  BY <1>1, NoResultYet DEF InPodPhase, Late, output
<1>6. ServedInv'
  BY <1>1, <1>5 DEF IInv, ServedInv, SomeFailed, IndexServed, AuditServed, Complete,
                    InPodPhase, Statuses, local
<1>7. ResultInv'
  BY <1>5 DEF ResultInv, Complete, Late
<1>8. FileInv'
  BY <1>1, FileKept, NoResultYet DEF IInv, InPodPhase, Late, output
<1> QED
  BY <1>2, <1>3, <1>4, <1>6, <1>7, <1>8 DEF IInv

\* Once the library is idle and was driven by either call, a Pod is known only
\* if the scenario drives the service.
LEMMA PodPhaseBounds ==
    ASSUME IInv, lib.at # "idle"
    PROVE  at \in InPodPhase
BY DEF IInv, PodPhaseInv

\* The step that records the phase, when its status and category tell of the
\* Pod what they should.
LEMMA PodPhaseEnds ==
    ASSUME IInv, at \in {"pod"} \cup InPodPhase, lib.at = "idle",
           NEW status \in PHASE_STATUS_VOCABULARY, NEW category,
           PodPhase(status, category),
           lib.known /\ args.pod = "delete" =>
              pod = "deleted" \/ (status = "fail" /\ category \in OwnerActionCategory),
           pod = "running" \/ Create \in wire => status \in {"fail", "warn"}
    PROVE  IInv'
<1> DEFINE lifecycle == "runpod_lifecycle"
<1>1. /\ at' = "synthesis" /\ UNCHANGED <<podVars, run, args, local, output, demo>>
      /\ DOMAIN ledger' = DOMAIN ledger \cup {lifecycle}
      /\ ledger'[lifecycle].status = status /\ ledger'[lifecycle].category = category
      /\ \A p \in DOMAIN ledger : p # lifecycle => ledger'[p] = ledger[p]
  BY DEF PodPhase, PodRecord, others
<1>2. lifecycle \notin DOMAIN ledger /\ lifecycle \in Phase
  BY DEF IInv, RecordedOnce, Local, Phase
<1> HIDE DEF lifecycle
<1>3. Statuses(ledger)' = Statuses(ledger) \cup {status}
  <2>1. Statuses(ledger)' = {ledger'[p].status : p \in DOMAIN ledger \cup {lifecycle}}
    BY <1>1 DEF Statuses
  <2> QED
    BY <1>1, <1>2, <2>1 DEF Statuses
<1>4. TypeOK'
  <2>1. PodTypeOK'
    BY <1>1 DEF IInv, TypeOK, PodTypeOK, podVars
  <2>2. DOMAIN ledger' \subseteq Phase /\ Statuses(ledger)' \subseteq PHASE_STATUS_VOCABULARY
    BY <1>1, <1>2, <1>3 DEF IInv, TypeOK
  <2> QED
    BY <1>1, <2>1, <2>2 DEF IInv, TypeOK, local, output
<1>5. PodPhaseInv'
  <2>1. PodInv' /\ lib'.at = "idle"
    BY <1>1 DEF IInv, PodPhaseInv, PodInv, podVars
  <2> QED
    BY <1>1, <2>1 DEF PodPhaseInv, InPodPhase
<1>6. RecordedOnce'
  BY <1>1 DEF RecordedOnce, InPodPhase
<1>7. ServedInv'
  BY <1>1, <1>3 DEF IInv, ServedInv, SomeFailed, IndexServed, AuditServed, InPodPhase, local
<1>8. ResultInv'
  <2>1. result' = "none"
    BY <1>1, NoResultYet DEF InPodPhase, Late, output
  <2>2. status = "fail" /\ category \in OwnerActionCategory => CallsOwner(ledger')
    BY <1>1 DEF CallsOwner
  <2>3. PodStory'
    <3>1. (lib.known /\ args.pod = "delete" => pod = "deleted" \/ CallsOwner(ledger))'
      BY <1>1, <2>2 DEF podVars
    <3>2. (pod = "running" \/ Create \in wire =>
              Statuses(ledger) \cap {"fail", "warn"} # {})'
      BY <1>1, <1>3 DEF podVars
    <3> QED
      BY <3>1, <3>2 DEF PodStory
  <2> QED
    BY <1>1, <2>1, <2>3 DEF ResultInv
<1>9. FileInv'
  BY <1>1, FileKept, NoResultYet DEF IInv, InPodPhase, Late, output
<1> QED
  BY <1>4, <1>5, <1>6, <1>7, <1>8, <1>9 DEF IInv

\* Without a live Pod there is none.
LEMMA SkipPodInv == IInv /\ SkipPod => IInv'
<1> SUFFICES ASSUME IInv, SkipPod PROVE IInv'
  OBVIOUS
<1>1. at = "pod" /\ Untouched
  BY DEF SkipPod, IInv, PodPhaseInv
<1>2. PICK status \in PHASE_STATUS_VOCABULARY, category \in {"disabled", "api_key_missing"} :
         PodPhase(status, category)
  BY DEF SkipPod, PHASE_STATUS_VOCABULARY
<1> QED
  BY <1>1, <1>2, PodPhaseEnds DEF Untouched

\* The first call of the library.
LEMMA StartPodPhaseInv == IInv /\ StartPodPhase => IInv'
<1> SUFFICES ASSUME IInv, StartPodPhase PROVE IInv'
  OBVIOUS
<1>1. at = "pod" /\ at' = "starting" /\ StartPod /\ UNCHANGED <<others, ledger>>
  BY DEF StartPodPhase
<1>2. PodTypeOK /\ PodInv /\ ~lib.known /\ lib.at = "idle"
  BY <1>1 DEF IInv, TypeOK, PodPhaseInv, Untouched
<1> QED
  BY <1>1, <1>2, StartPodStep, WithinPodPhase DEF InPodPhase

\* A step of either call, or an interrupt of it.
LEMMA InLibraryInv == IInv /\ (InLibrary \/ Interrupt) => IInv'
<1> SUFFICES ASSUME IInv, InLibrary \/ Interrupt PROVE IInv'
  OBVIOUS
<1>1. lib.at # "idle" /\ at' = at /\ UNCHANGED <<others, ledger>>
  BY DEF InLibrary, Interrupt, LibraryStep, Interrupted, PodCreated, CreateRefused,
         CreateTimesOut, Healthy, NotHealthyYet, WaitTimesOut, DeleteSucceeds, DeleteFails
<1>2. at \in InPodPhase /\ PodTypeOK /\ PodInv
  BY <1>1, PodPhaseBounds DEF IInv, TypeOK, PodPhaseInv
<1>3. PodTypeOK' /\ PodInv' /\ (at = "starting" => Starting')
      /\ (at \in {"stopping", "finally"} => Stopping')
  <2>1. (at = "starting" => Starting) /\ (at \in {"stopping", "finally"} => Stopping)
    BY DEF IInv, PodPhaseInv
  <2> QED
    BY <1>2, <2>1, StartingStep, StoppingStep, InterruptedStep
       DEF InLibrary, Interrupt, InPodPhase
<1> QED
  BY <1>1, <1>2, <1>3, WithinPodPhase

\* start_pod raised: the Pod was never known, is deleted, or the owner is
\* called.
LEMMA StartFailedInv == IInv /\ StartFailed => IInv'
<1> SUFFICES ASSUME IInv, StartFailed PROVE IInv'
  OBVIOUS
<1>1. /\ at = "starting" /\ lib.at = "idle" /\ lib.raised \in Category
      /\ PodPhase("fail", lib.raised)
  BY DEF StartFailed, Back
<1>2. Starting
  BY <1>1 DEF IInv, PodPhaseInv
<1>3. lib.known => pod = "deleted" \/ lib.raised \in OwnerActionCategory
  BY <1>1, <1>2 DEF Starting, Category, OwnerActionCategory
<1> DEFINE category == lib.raised
<1>4. /\ PodPhase("fail", category)
      /\ "fail" \in PHASE_STATUS_VOCABULARY /\ "fail" \in {"fail", "warn"}
      /\ lib.known => pod = "deleted" \/ category \in OwnerActionCategory
  BY <1>1, <1>3 DEF PHASE_STATUS_VOCABULARY
<1> HIDE DEF category
<1> QED
  BY <1>1, <1>4, PodPhaseEnds DEF InPodPhase

\* The Pod is to be kept.
LEMMA KeepPodInv == IInv /\ KeepPod => IInv'
<1> SUFFICES ASSUME IInv, KeepPod PROVE IInv'
  OBVIOUS
<1> QED
  BY PodPhaseEnds DEF KeepPod, Back, InPodPhase, PHASE_STATUS_VOCABULARY

\* stop_pod is called once, on a Pod that was asked for and came up.
LEMMA StopPodInv == IInv /\ (StopPodPhase \/ InterruptedBeforeStop) => IInv'
<1> SUFFICES ASSUME IInv, StopPodPhase \/ InterruptedBeforeStop PROVE IInv'
  OBVIOUS
<1>1. /\ at = "starting" /\ at' \in {"stopping", "finally"} /\ StopPod
      /\ lib.at = "idle" /\ lib.raised = "none" /\ UNCHANGED <<others, ledger>>
  BY DEF StopPodPhase, InterruptedBeforeStop, Back
<1>2. PodTypeOK /\ PodInv /\ lib.known /\ deletes = 0
  BY <1>1 DEF IInv, TypeOK, PodPhaseInv, Starting
<1>3. PodTypeOK' /\ PodInv' /\ Stopping'
  BY <1>1, <1>2, StopPodStep
<1> QED
  BY <1>1, <1>3, WithinPodPhase DEF InPodPhase

\* stop_pod is back: the Pod is deleted, or the owner is called.
LEMMA StoppedInv == IInv /\ Stopped => IInv'
<1> SUFFICES ASSUME IInv, Stopped PROVE IInv'
  OBVIOUS
<1>1. at = "stopping" /\ lib.at = "idle" /\ Stopping /\ PodInv
  BY DEF Stopped, Back, IInv, PodPhaseInv
<1>2. lib.known /\ Create \notin wire
  BY <1>1 DEF Stopping, PodInv
<1>3. CASE lib.raised = "none"
  <2>1. pod = "deleted" /\ PodPhase("ok", "ok")
    BY <1>1, <1>3 DEF Stopped, Stopping
  <2>2. "ok" \in PHASE_STATUS_VOCABULARY /\ pod # "running"
    BY <2>1 DEF PHASE_STATUS_VOCABULARY
  <2> QED
    BY <1>1, <1>2, <2>1, <2>2, PodPhaseEnds DEF InPodPhase
<1>4. CASE lib.raised # "none"
  <2>1. lib.raised = "cleanup_failed" /\ PodPhase("fail", "cleanup_failed")
    BY <1>1, <1>4 DEF Stopped, Stopping, Category
  <2>2. "cleanup_failed" \in OwnerActionCategory
    BY DEF OwnerActionCategory
  <2> QED
    BY <1>1, <2>1, <2>2, PodPhaseEnds DEF InPodPhase, PHASE_STATUS_VOCABULARY
<1> QED
  BY <1>3, <1>4

-----------------------------------------------------------------------------
\* Start and end of a scenario

\* Without an inbox, a vault or a facade no phase runs.
LEMMA StartupFailsInv == IInv /\ StartupFails => IInv'
<1> SUFFICES ASSUME IInv, StartupFails PROVE IInv'
  OBVIOUS
<1>1. /\ at = "start" /\ at' = "synthesis" /\ result' = "none"
      /\ UNCHANGED <<podVars, run, args, local, output, demo>>
  BY NoResultYet DEF StartupFails, Ready, Late, output
<1>2. DOMAIN ledger' = {"batch"} /\ Statuses(ledger)' = {"fail"}
  BY DEF StartupFails, LocalRecord, Statuses
<1>3. Untouched /\ PodInv
  BY <1>1 DEF IInv, PodPhaseInv
<1>4. TypeOK'
  <2>1. PodTypeOK'
    BY <1>1 DEF IInv, TypeOK, PodTypeOK, podVars
  <2>2. DOMAIN ledger' \subseteq Phase /\ Statuses(ledger)' \subseteq PHASE_STATUS_VOCABULARY
    BY <1>2 DEF Phase, Local, PHASE_STATUS_VOCABULARY
  <2> QED
    BY <1>1, <2>1, <2>2 DEF IInv, TypeOK, local, output
<1>5. PodPhaseInv'
  <2>1. PodInv' /\ lib'.at = "idle"
    BY <1>1, <1>3 DEF Untouched, PodInv, podVars
  <2> QED
    BY <1>1, <2>1 DEF PodPhaseInv, InPodPhase
<1>6. RecordedOnce'
  BY <1>1 DEF RecordedOnce, InPodPhase
<1>7. ServedInv'
  BY <1>1, <1>2 DEF ServedInv, SomeFailed
<1>8. ResultInv'
  <2>1. PodStory'
    BY <1>1, <1>3 DEF PodStory, Untouched, podVars
  <2> QED
    BY <1>1, <2>1 DEF ResultInv
<1>9. FileInv'
  BY <1>1, FileKept, NoResultYet DEF IInv, Late, output
<1> QED
  BY <1>4, <1>5, <1>6, <1>7, <1>8, <1>9 DEF IInv

\* A step outside the phases keeps what was said of them: no step goes back.
LEMMA PhasesKept ==
    ASSUME IInv, UNCHANGED <<podVars, run, args, local, ledger>>,
           emitted' \in {"no", "asked", "written", "failed", "interrupted"},
           lib.at = "idle",
           \/ at' = at
           \/ at' \in Late
    PROVE  TypeOK' /\ PodPhaseInv' /\ RecordedOnce'
<1>1. TypeOK'
  BY DEF IInv, TypeOK, PodTypeOK, podVars, Statuses, local
<1>2. PodPhaseInv'
  <2>1. PodInv' /\ lib'.at = "idle"
    BY DEF IInv, PodPhaseInv, PodInv, podVars
  <2>2. (Untouched => Untouched') /\ (Starting => Starting') /\ (Stopping => Stopping')
    BY DEF Untouched, Starting, Stopping, Deleting, podVars
  <2>3. CASE at' = at
    BY <2>1, <2>2, <2>3 DEF IInv, PodPhaseInv
  <2>4. CASE at' \in Late
    BY <2>1, <2>4 DEF PodPhaseInv, Late, InPodPhase
  <2> QED
    BY <2>3, <2>4
<1>3. RecordedOnce'
  BY DEF IInv, RecordedOnce, Late, InPodPhase
<1> QED
  BY <1>1, <1>2, <1>3

\* What the phases found stays true of the vault, and the Pod's story with it.
LEMMA StoryKept ==
    ASSUME IInv, UNCHANGED <<podVars, run, args, local, ledger>>,
           Complete, at' \in Late
    PROVE  ServedInv' /\ PodStory'
<1>1. (SomeFailed \/ IndexServed) /\ (SomeFailed \/ AuditServed) /\ PodStory
  BY DEF IInv, ServedInv, ResultInv
<1>2. (SomeFailed => SomeFailed') /\ (IndexServed => IndexServed')
      /\ (AuditServed => AuditServed')
  BY DEF SomeFailed, Statuses, IndexServed, AuditServed, local
<1>3. PodStory'
  BY <1>1 DEF PodStory, CallsOwner, Statuses, podVars
<1> QED
  BY <1>1, <1>2, <1>3 DEF ServedInv, Late

\* A scenario that ends without a result says nothing.
LEMMA EndsWithoutResult ==
    ASSUME IInv, UNCHANGED <<podVars, run, args, local, ledger, result, emitted, file>>,
           result = "none", lib.at = "idle", at \notin Late,
           at' \in {"leaving", "over"}
    PROVE  IInv'
<1>1. TypeOK' /\ PodPhaseInv' /\ RecordedOnce'
  BY PhasesKept DEF IInv, TypeOK, Late
<1>2. ServedInv' /\ ResultInv'
  BY DEF ServedInv, ResultInv, Complete, InPodPhase
<1>3. FileInv'
  BY FileKept, NoResultYet DEF IInv, Late
<1> QED
  BY <1>1, <1>2, <1>3 DEF IInv

\* The demo corpus is there, or the scenario ends here.
LEMMA MaterialiseDemoInv == IInv /\ MaterialiseDemo => IInv'
<1> SUFFICES ASSUME IInv, MaterialiseDemo PROVE IInv'
  OBVIOUS
<1>1. /\ at = "start"
      /\ UNCHANGED <<podVars, run, args, local, ledger, result, emitted, file>>
  BY DEF MaterialiseDemo
<1>2. result = "none" /\ lib.at = "idle" /\ emitted = "no"
  BY <1>1, NoResultYet DEF Late, IInv, PodPhaseInv, InPodPhase
<1>3. CASE at' = "over"
  BY <1>1, <1>2, <1>3, EndsWithoutResult DEF Late
<1>4. CASE at' = at
  <2>1. TypeOK' /\ PodPhaseInv' /\ RecordedOnce'
    BY <1>1, <1>2, <1>4, PhasesKept DEF IInv, TypeOK
  <2>2. ServedInv' /\ ResultInv'
    BY <1>1, <1>2, <1>4 DEF ServedInv, ResultInv, Complete, InPodPhase
  <2>3. FileInv'
    BY <1>1, <1>2, <1>4, FileKept DEF IInv
  <2> QED
    BY <2>1, <2>2, <2>3 DEF IInv
<1> QED
  BY <1>3, <1>4 DEF MaterialiseDemo

\* An interrupt before the result line ends the scenario without one.
LEMMA InterruptedInv ==
    /\ IInv
    /\ InterruptedForGood \/ InterruptedOutside \/ InterruptedMaterialising
    => IInv'
<1> SUFFICES ASSUME IInv,
                    InterruptedForGood \/ InterruptedOutside \/ InterruptedMaterialising
    PROVE  IInv'
  OBVIOUS
<1>1. /\ at \notin Late /\ at' \in {"leaving", "over"} /\ lib.at = "idle"
      /\ UNCHANGED <<podVars, run, args, local, ledger, result, emitted, file>>
  BY DEF InterruptedForGood, InterruptedOutside, InterruptedMaterialising, Ready, Back,
         Late, IInv, PodPhaseInv, InPodPhase
<1>2. result = "none"
  BY <1>1, NoResultYet
<1> QED
  BY <1>1, <1>2, EndsWithoutResult DEF Late

\* The result line says what the ledger says.
LEMMA SynthesiseInv == IInv /\ Synthesise => IInv'
<1> SUFFICES ASSUME IInv, Synthesise PROVE IInv'
  OBVIOUS
<1>1. /\ at = "synthesis" /\ at' \in {"emitting", "leaving"}
      /\ result' = _synthesise_result(ledger') /\ exit' = ExitCode(result')
      /\ emitted' \in {"no", "asked"} /\ (emitted' = "asked" => at' = "emitting")
      /\ at' = "emitting" => emitted' = "asked"
      /\ UNCHANGED <<podVars, run, args, local, ledger, file, demo>>
  BY DEF Synthesise
<1>2. TypeOK' /\ PodPhaseInv' /\ RecordedOnce'
  BY <1>1, PhasesKept DEF Late, IInv, PodPhaseInv, InPodPhase
<1>3. ServedInv' /\ PodStory'
  BY <1>1, StoryKept DEF Complete, Late
<1>4. result' # "none"
  BY <1>1 DEF _synthesise_result
<1>5. ResultInv'
  BY <1>1, <1>3, <1>4 DEF ResultInv
<1>6. FileInv'
  BY <1>1 DEF IInv, FileInv
<1> QED
  BY <1>2, <1>3, <1>5, <1>6 DEF IInv

\* Of a ledger the synthesis found to say r, the report says r, up to the kind
\* of failure; the payload is always accepted.
LEMMA PayloadReported ==
    ASSUME Statuses(ledger) \subseteq PHASE_STATUS_VOCABULARY,
           result = _synthesise_result(ledger)
    PROVE  LET f == Payload(ledger) IN
           /\ f.from = run
           /\ Report(f).exit = 0
           /\ \/ Report(f).page.state = f.said
              \/ {Report(f).page.state, f.said} = {"failed_cleaned", "failed_owner_action"}
<1> DEFINE f     == Payload(ledger)
           state == classify_result_state(f)
<1>1. /\ f.from = run /\ f.said = result /\ f.parses
      /\ f.statuses = Statuses(ledger) /\ f.shapes = {"plain"}
  BY DEF Payload
<1> HIDE DEF f
<1>2. Valid(f) /\ Clean(render_report(f))
  BY <1>1 DEF Valid, Clean, render_report, _LEAK_PATTERNS
<1>3. Report(f).exit = 0 /\ Report(f).page.state = state
  BY <1>2 DEF Report, render_report
<1>4. CASE "fail" \in Statuses(ledger)
  <2>1. state \in {"failed_cleaned", "failed_owner_action"}
    BY <1>1, <1>4 DEF classify_result_state
  <2>2. result \in {"failed_cleaned", "failed_owner_action"}
    BY <1>4 DEF _synthesise_result
  <2> HIDE DEF state
  <2> QED
    BY <1>1, <1>3, <2>1, <2>2 DEF f
<1>5. CASE "fail" \notin Statuses(ledger)
  <2>1. ~\E p \in DOMAIN ledger : ledger[p].status = "fail"
    BY <1>5 DEF Statuses
  <2>2. state = result
    BY <1>1, <1>5, <2>1 DEF classify_result_state, _synthesise_result
  <2> QED
    BY <1>1, <1>3, <2>2 DEF f
<1> QED
  BY <1>4, <1>5

\* What comes after the result line leaves it, and what it tells of, alone.
LEMMA AfterResult ==
    ASSUME IInv, at \in Late, at' \in {"leaving", "over"},
           UNCHANGED <<podVars, run, args, local, ledger, result>>,
           emitted' \in {"no", "asked", "written", "failed", "interrupted"},
           exit' = exit \/ exit' = 130 \/ demo' = "stuck",
           demo = "stuck" => demo' = "stuck"
    PROVE  TypeOK' /\ PodPhaseInv' /\ RecordedOnce' /\ ServedInv' /\ ResultInv'
<1>1. TypeOK' /\ PodPhaseInv' /\ RecordedOnce'
  BY PhasesKept DEF Late, IInv, PodPhaseInv, InPodPhase
<1>2. CASE result = "none"
  BY <1>1, <1>2 DEF ServedInv, ResultInv, Complete, InPodPhase
<1>3. CASE result # "none"
  <2>1. ServedInv' /\ PodStory'
    BY <1>3, StoryKept DEF Complete, Late
  <2>2. /\ result = _synthesise_result(ledger)
        /\ exit \in {ExitCode(result), 130} \/ demo = "stuck"
    BY <1>3 DEF IInv, ResultInv
  <2> QED
    BY <1>1, <2>1, <2>2 DEF ResultInv
<1> QED
  BY <1>2, <1>3

\* The payload reaches its path whole, or the file of before stays: which is
\* announced, or the exit code is that of an interrupt.
LEMMA EmitInv == IInv /\ (EmitJson \/ EmitFails \/ InterruptedEmitting) => IInv'
<1> SUFFICES ASSUME IInv, EmitJson \/ EmitFails \/ InterruptedEmitting PROVE IInv'
  OBVIOUS
<1>1. /\ at = "emitting" /\ at' = "leaving"
      /\ emitted' \in {"written", "failed", "interrupted"}
      /\ exit' = exit \/ exit' = 130
      /\ UNCHANGED <<podVars, run, args, local, ledger, result, demo>>
  BY DEF EmitJson, EmitFails, InterruptedEmitting, Emits
<1>2. TypeOK' /\ PodPhaseInv' /\ RecordedOnce' /\ ServedInv' /\ ResultInv'
  BY <1>1, AfterResult DEF Late
<1>3. FileInv'
  <2>1. CASE EmitJson
    <3>1. /\ result = _synthesise_result(ledger) /\ run \in 1..MaxRuns
          /\ Statuses(ledger) \subseteq PHASE_STATUS_VOCABULARY
      BY <1>1 DEF IInv, ResultInv, TypeOK
    <3>2. file' = Payload(ledger) /\ emitted' = "written" /\ run' = run
      BY <1>1, <2>1 DEF EmitJson, Emits
    <3>3. /\ file'.from = run' /\ file'.from # -1
          /\ Report(file').exit = 0
          /\ \/ Report(file').page.state = file'.said
             \/ {Report(file').page.state, file'.said} =
                   {"failed_cleaned", "failed_owner_action"}
      BY <3>1, <3>2, PayloadReported, RunsAssumption
    <3> QED
      BY <1>1, <3>2, <3>3 DEF FileInv
  <2>2. CASE EmitFails
    BY <1>1, <2>2 DEF EmitFails, Emits, IInv, FileInv
  <2>3. CASE InterruptedEmitting
    BY <1>1, <2>3 DEF InterruptedEmitting, IInv, FileInv
  <2> QED
    BY <2>1, <2>2, <2>3
<1> QED
  BY <1>2, <1>3 DEF IInv

\* main's finally.
LEMMA LeaveInv == IInv /\ (Leave \/ LeaveRaises \/ InterruptedLeaving) => IInv'
<1> SUFFICES ASSUME IInv, Leave \/ LeaveRaises \/ InterruptedLeaving PROVE IInv'
  OBVIOUS
<1>1. /\ at = "leaving" /\ at' = "over"
      /\ UNCHANGED <<podVars, run, args, local, ledger, result, emitted, file>>
      /\ exit' = exit \/ exit' = 130 \/ demo' = "stuck"
      /\ demo = "stuck" => demo' = "stuck"
  BY DEF Leave, LeaveRaises, InterruptedLeaving, output
<1>2. TypeOK' /\ PodPhaseInv' /\ RecordedOnce' /\ ServedInv' /\ ResultInv'
  BY <1>1, AfterResult DEF Late, IInv, TypeOK
<1>3. FileInv'
  BY <1>1, FileKept DEF IInv, FileInv, Late
<1> QED
  BY <1>2, <1>3 DEF IInv

\* The next scenario starts over, in the vault and beside the payload of the
\* ones before.
LEMMA NextScenarioInv == IInv /\ NextScenario => IInv'
<1> SUFFICES ASSUME IInv, NextScenario PROVE IInv'
  OBVIOUS
<1>1. /\ at = "over" /\ run < MaxRuns /\ run' = run + 1 /\ at' = "start"
      /\ gateway' = "none" /\ ledger' = << >> /\ result' = "none" /\ emitted' = "no"
      /\ pod = "absent" /\ wire = {} /\ UNCHANGED <<pod, wire, deletes, vault, file>>
      /\ lib' = [lib EXCEPT !.raised = "none"]
  BY DEF NextScenario
<1>2. lib.at = "idle" /\ lib.known = FALSE /\ lib \in Library
  BY <1>1 DEF IInv, PodPhaseInv, PodInv, InPodPhase, TypeOK, PodTypeOK, Library
<1>3. lib' \in Library /\ lib'.at = "idle" /\ lib'.known = FALSE
  BY <1>1, <1>2 DEF Library
<1>4. DOMAIN ledger' = {} /\ Statuses(ledger)' = {}
  BY <1>1 DEF Statuses
<1>5. TypeOK'
  <2>1. PodTypeOK'
    BY <1>1, <1>3 DEF IInv, TypeOK, PodTypeOK
  <2>2. run' \in 1..MaxRuns /\ gateway' \in Documents
    BY <1>1, RunsAssumption DEF IInv, TypeOK, Documents
  <2> QED
    BY <1>1, <1>4, <2>1, <2>2 DEF IInv, TypeOK
<1>6. PodPhaseInv'
  <2>1. PodInv' /\ Untouched'
    BY <1>1, <1>2, <1>3 DEF IInv, PodPhaseInv, PodInv, Untouched
  <2> QED
    BY <1>1, <2>1 DEF PodPhaseInv, InPodPhase, Untouched
<1>7. RecordedOnce'
  BY <1>1, <1>4 DEF RecordedOnce, InPodPhase
<1>8. ServedInv' /\ ResultInv'
  BY <1>1 DEF ServedInv, ResultInv, Complete, InPodPhase
<1>9. FileInv'
  BY <1>1 DEF IInv, FileInv
<1> QED
  BY <1>5, <1>6, <1>7, <1>8, <1>9 DEF IInv

\* The service may act at any time: on nothing before the Pod phase, and later
\* never so that what was said of the Pod becomes wrong.
LEMMA ServiceActsInv == IInv /\ ServiceActs => IInv'
<1> SUFFICES ASSUME IInv, ServiceActs PROVE IInv'
  OBVIOUS
<1> PICK r \in wire : Unheard(r)
  BY DEF ServiceActs
<1>1. UNCHANGED <<run, args, local, output, demo, at, ledger>>
  BY DEF ServiceActs, others
<1>2. PodTypeOK /\ PodInv
  BY DEF IInv, TypeOK, PodPhaseInv
<1>3. /\ PodTypeOK' /\ PodInv' /\ lib' = lib
      /\ (Starting => Starting') /\ (Stopping => Stopping')
      /\ lib.known /\ pod = "deleted" => pod' = "deleted"
  BY <1>2, UnheardStep
<1>4. ~Untouched
  BY DEF Untouched
<1>5. TypeOK'
  BY <1>1, <1>3 DEF IInv, TypeOK, Statuses, local, output
<1>6. PodPhaseInv' /\ RecordedOnce'
  BY <1>1, <1>3, <1>4 DEF IInv, PodPhaseInv, RecordedOnce
<1>7. ServedInv'
  BY <1>1 DEF IInv, ServedInv, SomeFailed, Statuses, IndexServed, AuditServed, Complete,
              local, output
<1>8. ResultInv'
  <2>1. pod' = "running" \/ Create \in wire' => Create \in wire
    BY DEF Unheard
  <2>2. PodStory => PodStory'
    BY <1>1, <1>3, <2>1 DEF PodStory, CallsOwner, Statuses
  <2> QED
    BY <1>1, <2>2 DEF IInv, ResultInv, Complete, output
<1>9. FileInv'
  BY <1>1 DEF IInv, FileInv, output
<1> QED
  BY <1>5, <1>6, <1>7, <1>8, <1>9 DEF IInv

-----------------------------------------------------------------------------
\* The theorems

\* A file of something else is no scenario's, and its failures are not
\* confirmed.
LEMMA Strangers ==
    ASSUME NEW f \in Foreign
    PROVE  f.from = -1 /\ ("fail" \in f.statuses => f.confirmed = "truthy")
<1> DEFINE here  == [NoFile EXCEPT !.from = -1]
           Other == [here EXCEPT !.parses = TRUE]
           url   == [Other EXCEPT !.statuses = {"ok"}]
           fail  == [Other EXCEPT !.statuses = {"fail"}]
           live  == [fail EXCEPT !.touched = TRUE]
<1>1. \/ f = [Other EXCEPT !.parses = FALSE]
      \/ f = [Other EXCEPT !.statuses = {"ok", "error"}]
      \/ f = [url EXCEPT !.shapes = {"url"}]
      \/ f = [live EXCEPT !.confirmed = "truthy"]
  BY DEF Foreign
<1>2. /\ Other.from = -1 /\ Other.statuses = {}
      /\ DOMAIN Other = {"from", "said", "parses", "statuses", "shapes",
                        "touched", "confirmed"}
  BY DEF NoFile
<1> HIDE DEF Other
<1>3. CASE f = [Other EXCEPT !.parses = FALSE]
  BY <1>2, <1>3
<1>4. CASE f = [Other EXCEPT !.statuses = {"ok", "error"}]
  BY <1>2, <1>4
<1>5. CASE f = [url EXCEPT !.shapes = {"url"}]
  BY <1>2, <1>5
<1>6. CASE f = [live EXCEPT !.confirmed = "truthy"]
  BY <1>2, <1>6
<1> QED
  BY <1>1, <1>3, <1>4, <1>5, <1>6

\* The first scenario finds the vault and the path as earlier work left them.
LEMMA InitInv == Init => IInv
<1> SUFFICES ASSUME Init PROVE IInv
  OBVIOUS
<1>1. /\ pod = "absent" /\ wire = {} /\ deletes = 0
      /\ lib = [at |-> "idle", raised |-> "none", known |-> FALSE,
                nested |-> FALSE, polls |-> 0, attempt |-> 0]
      /\ run = 1 /\ at = "start" /\ gateway = "none" /\ ledger = << >>
      /\ result = "none" /\ emitted = "no"
  BY DEF Init, PodInit
<1>2. lib \in Library /\ lib.at = "idle" /\ lib.known = FALSE
  BY <1>1, BoundsAssumption DEF Library
<1>3. DOMAIN ledger = {} /\ Statuses(ledger) = {}
  BY <1>1 DEF Statuses
<1>4. TypeOK
  <2>1. PodTypeOK
    BY <1>1, <1>2 DEF PodTypeOK
  <2>2. 0 \in 0..MaxRuns /\ run \in 1..MaxRuns
    BY <1>1, RunsAssumption
  <2>3. PICK audit \in {EmptyFile, Appended(EmptyFile, 0)} :
           vault = [index |-> [of |-> 0, docs |-> "absent"], audit |-> audit]
    BY DEF Init
  <2>4. EmptyFile \in FileOver(0..MaxRuns) /\ ~EmptyFile.open
    BY DEF EmptyFile, FileOver
  <2>5. audit \in FileOver(0..MaxRuns) /\ ~audit.open
    BY <2>2, <2>3, <2>4, AppendedFile
  <2>6. /\ vault \in [index : [of: 0..MaxRuns, docs: Documents \cup {"absent"}],
                      audit : FileOver(0..MaxRuns)]
        /\ ~vault.audit.open
    BY <2>2, <2>3, <2>5
  <2> QED
    BY <1>1, <1>3, <2>1, <2>2, <2>6 DEF TypeOK, FileOver, Documents
<1>5. PodPhaseInv
  BY <1>1, <1>2, BoundsAssumption DEF PodPhaseInv, PodInv, Untouched, InPodPhase
<1>6. RecordedOnce
  BY <1>1, <1>3 DEF RecordedOnce, InPodPhase
<1>7. ServedInv /\ ResultInv
  BY <1>1 DEF ServedInv, ResultInv, Complete, InPodPhase
<1>8. FileInv
  <2>1. file = NoFile \/ file \in Foreign
    BY DEF Init
  <2>2. file.from \in {0, -1} /\ (file.from = -1 => file \in Foreign)
    BY <2>1, Strangers DEF NoFile
  <2> QED
    BY <1>1, <2>2, RunsAssumption DEF FileInv
<1> QED
  BY <1>4, <1>5, <1>6, <1>7, <1>8 DEF IInv

\* The invariant is kept by every step of main, of the library and of the
\* service.
THEOREM Inductive == Spec => []IInv
<1>1. IInv /\ [Next]_vars => IInv'
  <2> SUFFICES ASSUME IInv, [Next]_vars PROVE IInv'
    OBVIOUS
  <2>1. CASE MaterialiseDemo \/ StartupFails
    BY <2>1, MaterialiseDemoInv, StartupFailsInv
  <2>2. CASE BatchFails \/ RunBatch \/ SnapshotIndex \/ SnapshotFails
    BY <2>2, BatchFailsInv, RunBatchInv, SnapshotInv
  <2>3. CASE ReloadAndSearch \/ ReloadFails \/ RequestRestore \/ RequestRestoreFails
    BY <2>3, ReloadInv, RestoreInv
  <2>4. CASE InspectAudit \/ InspectAuditFails
    BY <2>4, InspectInv
  <2>5. CASE SkipPod \/ StartPodPhase \/ InLibrary \/ Interrupt \/ StartFailed
    BY <2>5, SkipPodInv, StartPodPhaseInv, InLibraryInv, StartFailedInv
  <2>6. CASE KeepPod \/ StopPodPhase \/ InterruptedBeforeStop \/ Stopped
    BY <2>6, KeepPodInv, StopPodInv, StoppedInv
  <2>7. CASE \/ InterruptedForGood \/ InterruptedOutside \/ InterruptedMaterialising
             \/ Synthesise
    BY <2>7, InterruptedInv, SynthesiseInv
  <2>8. CASE \/ EmitJson \/ EmitFails \/ InterruptedEmitting
             \/ Leave \/ LeaveRaises \/ InterruptedLeaving
    BY <2>8, EmitInv, LeaveInv
  <2>9. CASE NextScenario \/ ServiceActs
    BY <2>9, NextScenarioInv, ServiceActsInv
  <2>10. CASE UNCHANGED vars
    <3>1. UNCHANGED <<podVars, run, args, at, local, ledger, output, demo>>
      BY <2>10 DEF vars
    <3>2. TypeOK'
      BY <3>1 DEF IInv, TypeOK, PodTypeOK, podVars, Statuses, local, output
    <3>3. PodPhaseInv' /\ RecordedOnce'
      BY <3>1 DEF IInv, PodPhaseInv, PodInv, Untouched, Starting, Stopping, Deleting,
                  RecordedOnce, podVars
    <3>4. ServedInv'
      BY <3>1 DEF IInv, ServedInv, SomeFailed, Statuses, IndexServed, AuditServed,
                  Complete, local, output
    <3>5. ResultInv'
      BY <3>1 DEF IInv, ResultInv, PodStory, CallsOwner, Statuses, Complete, podVars, output
    <3>6. FileInv'
      BY <3>1 DEF IInv, FileInv, output
    <3> QED
      BY <3>2, <3>3, <3>4, <3>5, <3>6 DEF IInv
  <2> QED
    BY <2>1, <2>2, <2>3, <2>4, <2>5, <2>6, <2>7, <2>8, <2>9, <2>10 DEF Next, Progress
<1> QED
  BY <1>1, InitInv, PTL DEF Spec

\* The result line and the exit code are honest about the Pod: a Pod the
\* scenario knew of is deleted or the owner is called, and "completed" leaves
\* nothing running or on its way.
THEOREM ResultIsHonest == Spec => []ResultTellsOfPod
<1>1. IInv => ResultTellsOfPod
  <2> SUFFICES ASSUME IInv, result # "none" PROVE ResultTellsOfPod
    BY DEF ResultTellsOfPod, NoPodUnannounced, CompletedLeavesNothing
  <2>1. /\ result = _synthesise_result(ledger) /\ PodStory
        /\ exit \in {ExitCode(result), 130} \/ demo = "stuck"
    BY DEF IInv, ResultInv, Complete
  <2>2. CallsOwner(ledger) => result = "failed_owner_action"
    BY <2>1 DEF CallsOwner, _synthesise_result
  <2>3. result = "completed" => Statuses(ledger) \cap {"fail", "warn"} = {}
    BY <2>1 DEF _synthesise_result
  <2>4. NoPodUnannounced
    BY <2>1, <2>2 DEF NoPodUnannounced, PodStory
  <2>5. CompletedLeavesNothing
    BY <2>1, <2>3 DEF CompletedLeavesNothing, PodStory
  <2> QED
    BY <2>4, <2>5 DEF ResultTellsOfPod
<1> QED
  BY <1>1, Inductive, PTL

\* A scenario that did not fail leaves its own documents in the index file
\* and its own row in the audit file.
THEOREM CompletedTellsOfVault == Spec => []CompletedIsServed
<1>1. IInv => CompletedIsServed
  <2> SUFFICES ASSUME IInv, result \in {"completed", "completed_with_warnings"}
      PROVE  IndexServed /\ AuditServed
    BY DEF CompletedIsServed, IndexServed, AuditServed
  <2>1. result = _synthesise_result(ledger) /\ Complete
    BY DEF IInv, ResultInv, Complete
  <2>2. ~SomeFailed
    BY <2>1 DEF _synthesise_result, SomeFailed
  <2> QED
    BY <2>1, <2>2 DEF IInv, ServedInv
<1> QED
  BY <1>1, Inductive, PTL

\* A report read from the payload's path, at any time, tells of one whole
\* scenario, or is careful with what it was not told by one.
THEOREM ReportIsHonest == Spec => []ReportTellsOfScenario
<1>1. IInv => ReportTellsOfScenario
  <2> SUFFICES ASSUME IInv PROVE ReportTellsOfScenario
    OBVIOUS
  <2>1. ReportOfScenario
    BY DEF IInv, TypeOK, FileInv, ReportOfScenario
  <2>2. ReportOfStranger
    <3> SUFFICES ASSUME file.from = -1, Report(file).exit = 0
        PROVE  /\ file.shapes \cap _LEAK_PATTERNS = {}
               /\ file.statuses \subseteq PHASE_STATUS_VOCABULARY
               /\ "fail" \in file.statuses /\ file.touched => Report(file).page.owner
      BY DEF ReportOfStranger
    <3>1. file \in Foreign
      BY DEF IInv, FileInv
    <3>2. /\ Valid(file) /\ Clean(render_report(file))
          /\ Report(file).page = render_report(file)
      BY DEF Report
    <3>3. /\ file.shapes \cap _LEAK_PATTERNS = {}
          /\ file.statuses \subseteq PHASE_STATUS_VOCABULARY
      BY <3>2 DEF Valid, Clean, render_report
    <3>4. "fail" \in file.statuses => file.confirmed = "truthy"
      BY <3>1, Strangers
    <3>5. "fail" \in file.statuses /\ file.touched => render_report(file).owner
      BY <3>4 DEF render_report, classify_result_state
    <3> QED
      BY <3>2, <3>3, <3>5
  <2> QED
    BY <2>1, <2>2 DEF ReportTellsOfScenario
<1> QED
  BY <1>1, Inductive, PTL

=============================================================================
