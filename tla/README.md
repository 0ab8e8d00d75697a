# Verification of yomotsusaka

TLA+ models of yomotsusaka, a local pipeline that redacts documents, keeps what it
redacted in a private vault, and hands private values back only through an audited,
policy-checked boundary; beside it a small library and two scripts that rent a GPU Pod
by the hour and must give it back. Paths below are relative to the repository;
`boundary.py` and the like are files of `src/yomotsusaka/`.

`PROJECT.json` maps every definition to the lines it models and lists the runs, the
hazards, the findings, the theorems, and for each property a mutant: a plausible bug in
one definition under which the property fails. The mutants stand beside the definitions
they replace, under a comment that starts with "A bug:".

## 1. The system

| Component | State | Operations | Talks to |
|---|---|---|---|
| Restoration boundary (`boundary.restoration_request`, `restoration_api.py`) | none of its own | `restoration_request`, `restore` | policy table, audit file, private dictionaries |
| Audit log (`audit.py`, `boundary._append_restoration_audit`) | `<vault>/audit/restoration.jsonl` | append, read | written by restoration and template execution, read by the operational smoke |
| Restoration policy (`policy.py`) | an immutable table of rows | load, `evaluate` | asked by the boundary |
| Vault and commit (`commit.py`, `pipeline.py`) | `manifests/<id>.json`, `private/<id>.json` | `process_document`, `commit` | written by batch, process and template execution; read by `resolve`, inspect, status, restore |
| Pod library (`runpod_lifecycle.py`) | the Pod of an external service | `start_pod`, `stop_pod`, `is_ready` | RunPod REST API over HTTP |
| `scripts/manage_runpod.py` | exit codes so far, cleanup flags | `run_lifecycle` | Pod library, smoke child process |
| `scripts/smoke_runpod.py` | none | three probes | the Pod, over HTTP |
| Operational smoke and report (`cli/operational_smoke.py`, `operational_report.py`) | ledger of phases, JSON payload at a path, demo corpus | seven phases, synthesis, classification, report | facade, child process, Pod library |
| Search index (`search_gateway.py`) | in-memory rows, `index/manifests.jsonl` | index, translate, search, snapshot, load | batch runner, facade |
| Batch runner and queue (`batch_runner.py`, `batch_queue.py`) | queue of batches | `run_directory`, submit/start/complete/fail | process boundary, search index |
| Execution gateway (`execution_gateway.py`, `templates.py`, `scrubber.py`, `boundary.execute_request`) | none of its own | `execute_request` | policy, audit, vault, inference backend |
| Redaction (`redactor.py`, `validator.py`, `schemas.py`) | none | `redact`, `validate` | called by `process_document` |
| Span proposer and backends (`span_proposer.py`, `inference_backend.py`, `vllm_backend.py`) | none | `propose`, HTTP calls | called by `process_document` |
| Locators, tenants, facade (`boundary.py`, `tenant.py`, `facade.py`) | one vault root and one gateway per facade | `build_locator`, `parse_locator`, delegation | everything above |
| Taxonomy, registry, evaluation, transfer, repository linters | static tables or none | reporting | nothing at run time |

What is hard here. Nothing in the code takes a lock: restorations, commits and readers
of several processes meet in the audit file and in the vault's files, which are written
in place. Every audit append may fail, at three points of one call, and part of a line
may be left. A commit is two writes. The Pod service may act on a request whose answer
never arrives, the operator may interrupt the script at any instant, and each deletion
that was not heard must be retried within a bound and end in a call to the owner. A template
job scrubs its letter, what it prints and its record with one function that may raise on
each, on the last two after its output has been written.

What makes each component correct:

- restoration: no kernel read without passing every gate and a readable intent; no
  disclosure without a result record that counts it; every failure on record;
  every call answered;
- audit log: append-only, and the records of one call in one of three patterns;
- policy: the first failing requirement decides, an undeclared profile is denied;
- vault: a commit that returned is whole and readable whatever failed before it;
- Pod library and its drivers: a Pod whose id is known is deleted, or kept on request,
  or the owner is called; retries stay in their budget; success means clean;
- search index and batch: the written index is whole at every instant; what the summary
  does not list as failed is in the vault, whole, and, if the index was persisted, in it
  in the edition that was committed; a search finds a document once;
- execution: the gates come before the private values; an answer is on record before
  it is given; no letter and no record shows a value the job has seen; an accepted job's
  artifact is whole and stays its own;
- redaction: what is committed can be put together again from its entities, and what is
  refused still shows a value; who asks for a registered value finds its documents, up to
  the number asked for, and is shown its key;
- operational smoke and report: a scenario that did not fail has proved what it set out
  to prove with its own evidence; its result tells of the Pod; the report says what the
  scenario said, and nothing of a stranger's file that it must not say.

## 2. The modules

`Policy` (operators). A table is a record of rows, the default row's name and the
routing of undeclared profiles. `DenyReason` is `RestorationPolicyTable.evaluate`: the
requirements in the code's order. A ticket pattern is the set of the tickets it fully
matches.

`AuditLog` (operators). What an append does to a JSONL file. A file is its lines and
whether the last one lacks its newline. An append that raised `OSError` leaves
"nothing", "partial" or "all" of its line; after "partial" the next append continues the
unfinished line and both are `Garbled`.

`Restoration`. Each element of `Call` is one concurrent `restoration_request`. Its steps
end where the code next touches shared state: `Refuse` (steps a to c.5 and the refusal
record), `RecordIntent` (d), `KernelReturns` / `KernelRaises` (e), `RecordFailure`
(corrective record), `RecordResult` (g: filter, record, answer). `Crash` ends a call
anywhere. `BeginWrite` / `EndWrite` are the commits of other processes, which truncate
and then fill a dictionary. Variables: the request, position, kernel outcome and answer
of each call, the audit file and the dictionaries.

`AuditedDisclosure` is the abstract specification: a ledger on which an authorised call
is intended, then closed, and disclosure happens at most in the step that closes.
`Restoration` implements it (`AuditedDisclosureSpec`) with `intended` and `closed` read
off the audit file and `disclosed` off the answers.

Theorems stand in modules of their own, named after what they are about:
`RestorationProofs`, `PipelineProofs` (`Vault` and `Redaction`, the two halves of
`process_document`), `ExecutionProofs`, `BatchRunnerProofs`, `ManageRunpodProofs` and
`OperationalSmokeProofs`. `AuditLogProofs` and `ManagedPodProofs` hold the lemmas about the
audit file and the Pod library that several of them cite (section 5).

`Loops` has one operator, `Loop`: what a `for` loop of n turns makes of what it begins
with, written as a recursive function so that it can be reasoned about. The loops of
`redact`, of the proposers, of `register_entries`, `translate` and `search` are instances
of it.

`MCRestoration` gives `Restoration` its instance.

`Locators` (operators). A text is a sequence of tokens (the scheme, separators, words of
a charset); `parse_locator` and `build_locator` are the grammar with its classes, kinds,
lengths and traversal rule.

`Execution`. Each element of `Call` is one `execute_request`, through the boundary or the
facade: `Raise` (the arguments that name the vault), `Refuse` (steps 1 to 5), `Resolve` /
`ResolveFails` (6), `Summarise`, `Render` or `TemplateRaises` (7, the two templates),
`BeginOutput` / `EndOutput` / `OutputFails` (the template's own commit), then exactly one
record: `RecordFailure`, `RecordScrubFailed` or `RecordSuccess` (8 and 9), each of which
may fail, and `Answer`. The document is committed concurrently (`CommitManifest`,
`OpenPrivate`, `FillPrivate`). A text is the set of the private values that occur in it
in clear. `scrub_stream` takes out those it is given and raises if a replacement brings
one back (`Reappears`); the record is scrubbed as serialised JSON, which does not find a
value that JSON writes with an escape (`Escaped`) and does find one in a generated field
(`chance`). `MCExecution` gives two instances: documents with short ids, and with ids so
long that the artifact's id loses its unique part.

`Vault`. `Writer` is the set of `process_document` calls, `Reader` of the calls of
`resolve`, `inspect_request` and `status_report_request`. A writer redacts and validates
first (`Start`, or `Reject`), then opens and fills the manifest, then the dictionary;
`WriteFails` and `Crash` may hit before each step or in the middle of a filling. A file is
absent, empty, whole with a version, or garbled. A reader first looks whether the
manifest exists and reads in a later step; at each the system may refuse it a file that is
there (`ReadFails`): a read answers `artifact_missing` then, and `exists()` raises or says
no, depending on the error and the version of Python (what `KernelRaises` and `ResolveFails`
are to the two boundaries, which fail whatever is in the file). Four ghosts (`latest`, `alone`,
`expects`, `refused`) remember who ran beside whom and who was refused a file; no guard
reads them.

`Redactor` (operators). Texts character by character, offsets as in the code: the two
span proposers, the errors of the vLLM backend, `redact` with its sort, its skips and its
offset, `Validator.validate`, `QueryResolver.register` and `translate`, the needles of a
search, what a text shows up to case (`Lower`, `Shows`) and the snippet of a hit. The name of
a kind and the digest of a value count as
one character each, so keys are five characters long and two values may share one.

`Redaction`. One process puts each document of `Document` through `process_document` (`ProcessSpans`,
`ProcessByRules`, `ProcessByBackend`) and indexes it with or without its entries
(`IndexEntries`, `Index`), in any order (`RedactionSpec`). A manifest that is refused is kept
for the property about it. `Search` is the search with its `top_k`, needle by needle and row
by row. `MCRedaction` enumerates the documents: every
sequence of at most two spans over two short texts, thirteen replies of a backend, and four
other documents beside them.

`ManagedPod`. `ManageRunPodLifecycle` over REST, one operation at a time, and the service
at the other end. `wire` holds the requests on which the service has not acted; an answer
is one step with the acting (`PodCreated`, `DeleteSucceeds`), a lost answer is
`CreateTimesOut` or `DeleteFails` with `Unheard` before it or any time later.
It has no `Next`: its two drivers extend it.

`SmokeRunpod`. `scripts/smoke_runpod.py --mode diagnose`: is the host reachable, what
does `/health` answer, does a completion come back; each answer has a category, and the
exit code is 0 only at the end. It is a child process and has no `Next` of its own.

`ManageRunpod` is `scripts/manage_runpod.py` over both: preflight, start, announcement,
smoke child with its time limit, keep or stop, the `finally` block, the exit code.
`InterruptedLibrary`, `InterruptedForGood` and `InterruptedSmoke` are `KeyboardInterrupt`
in the library, where no cleanup follows, and inside the `try`; `Kill` is SIGKILL, after
which the library takes no more steps and only the service and the child go on.

`OperationalReport` (operators). The JSON of a scenario is what the report looks at: does
it parse, which statuses, which shapes of text, two counters. `Report` is the command:
check, classify, render, sweep, exit code.

`OperationalSmoke` is `cli/operational_smoke.py`, one scenario after another over one
vault and one payload path. Phases 1 to 6 leave and look for evidence: whose documents
the index file holds, and the rows of the audit file (`AuditLog`); phase 7 drives
`ManagedPod`. `_synthesise_result`, the exit code, the payload and its rename, the demo
corpus with the `finally` that removes it, are translated in full. `KeyboardInterrupt` may
come while the demo corpus is made (`InterruptedMaterialising`), before the phases and between
them (`InterruptedOutside`), in the Pod phase (`Interrupt`, `InterruptedForGood`,
`InterruptedBeforeStop`), while the payload is written, where only `OSError` is caught
(`InterruptedEmitting`), and while `main` cleans up (`InterruptedLeaving`). At first
the path may hold nothing or a stranger's file, and the audit file a row of an older
scenario with the same label.

`SearchIndex` (operators). A row is a document and an edition of its text, a text the set
of the needles found in it. `Latest` is what `snapshot` keeps of a gateway's rows: those
that are the last of their document (`LastRow`), in the order of the rows (`Picked`);
`SearchPlain` and `SearchResolved` are `search` without and with a resolver, whose
translation of a query is a sequence of needles. `top_k` is at least 1, as
`SearchRequest` demands.

`BatchRunner`. Each element of `Runner` is a place for a process with its own gateway: it
may load the written index, run a batch (`Begin`, then for each document `Process` and
`Reload`, or `GivesUp`, `ProcessFails`, `ReloadFails`, then `Finish`), write the snapshot
(`Write`, `Replace`, with `AttemptFails` in either and `SnapshotRefused` before both), and
end or crash and be followed by another with an empty gateway. `inbox` changes at any
time. A commit is one step here; when it fails it leaves what `Vault` shows it leaves
(`Remains`). The text of a document is read in the step that commits it: reading it
earlier would commit an older edition, which is the same as an `Edit` after the commit.
The exit code is that of `--fail-on-error`, the default. `MCBatchRunner` gives the
instance.

What composes what: `BatchRunner` the operators of `SearchIndex`; `Redaction` those of
`Redactor`; both of these use `Loops`; `Restoration` those of `Policy` and `AuditLog`; `Execution` those of
`AuditLog` and `Locators`; `ManageRunpod` the machines `ManagedPod` and `SmokeRunpod`;
`OperationalSmoke` the machine `ManagedPod` and the operators of `AuditLog` and
`OperationalReport`. What `Restoration` and `Execution` see of the vault is the part of
`Vault` they read.

## 3. The runs

Passing runs (properties in full in the modules, above each its meaning):

| Run | Instance | Shows |
|---|---|---|
| `restoration` | 2 calls, 1 document, 2 entries of 2 kinds, 7 requests, appends that fail leave nothing or all | `TypeOK`; `KernelOnlyAfterIntent`; `DisclosureAudited` (exactly two records, the second counts what was returned, even if the document is committed again meanwhile); `FailureAudited`; `RecordPattern`; `AppendOnly`; `EveryCallAnswered`; the refinement `AuditedDisclosureSpec` |
| `execution` | 2 calls, 1 document in 2 versions, 14 requests, 4 values (one that JSON escapes, one that a replacement brings back), appends may tear | `TypeOK`; `GatesFirst`; `AnswerOnRecord`; `OutputRedacted` (record and letter); `AcceptedIsDurable`; `OrphanHasReason` (no artifact is left behind without one of four reasons); `EveryExecutionEnds` |
| `redaction` | 2 documents: all span lists of length at most 2 over two texts of 3 and 2 characters, or 13 backend replies, beside 4 others; 3 rows, 5 queries, `top_k` 1 to 3; a letter in two cases | `RefusedForCause` (the validator refuses only for a value that is still shown); `EntitiesAccounted` (the text can be put together again; no span is passed over without an overlap); `IndexRaisesForCause`; `AskedValueIsShown` (the document, or `top_k` others that show its key) |
| `vault` | 2 writers, 1 reader, 1 document, 2 valid versions and 1 that fails validation | `DictionaryHasManifest`; `ReturnedIsDurable`; `ReadYourCommit` (what was committed is only called missing to whom the system refused a file); `CallsEnd` |
| `manage_runpod` | the code's own bounds: 60 probes, 2 deletes | `TypeOK`; `NoSilentPod` (with `OwnerCalled`); `SuccessIsClean`; `DeleteBudget`; `KeptPodSurvives`; `PassedIsServed`; `ProbeBeforeDelete`; `ScriptEnds` |
| `operational_smoke` | 2 scenarios, 3 probes, 2 deletes | `ResultTellsOfPod`; `CompletedIsServed` (a scenario that did not fail has its own documents in the index and its own row in the audit file); `ReportTellsOfScenario`; `ScenarioEnds` |
| `batch` | 1 place, 2 documents, 2 editions, 2 batches, 1 load, the code's 2 attempts | `IndexWhole`; `CommittedIsWhole` (a commit that was cut short is listed as failed); `CommittedIsServed`; `HitsOncePerDoc`; `BatchEnds` |

Why the bounds are enough. A restoration interacts with another only by its appends and
through the dictionary, so any conflict is between a call and one neighbour or a
commit; two calls and a document show every such pair, and the seven requests reach each
gate, each filter and both rows of the policy table. Two entries make a count that is
taken before the filter differ from one taken after it. Template jobs meet each other
only in the audit file and, with long ids, in the artifact: one call makes every request
beside one that writes a letter. The two versions make a value that the first resolved
show in clear in the second. For the vault, one
conflict needs two writers, and a third would start over what two have left, which is
again one of the four file states. One vault document is enough because no operation
touches the files of two.

Redaction: whatever two spans can be to each other (apart, adjacent, nested, crossing,
equal, empty, past the end, of equal or other kinds) they are over three characters; the
texts repeat a value, hold one that is a part of a key, and one that is another in lower
case. Two documents are what a value
with two keys needs, and three rows index one of them twice.

The Pod runs are bounded by the program itself; the smoke run shortens the wait from 60
probes to 3, since the number of probes is only compared with its bound, and
`manage_runpod` has it in full. What a scenario can mistake for its own is left by one
before it: two suffice. To keep the run small, the second has no Pod and no demo corpus,
and a stranger's file at the payload's path is combined with no demo corpus and with no Pod.

Two editions tell a newest row from an older one, and two batches write a document again,
in one process or, after `Ends` or `Crash`, in the next; two documents make a batch in
which one fails. One place is enough while one process writes at a time, since a process
that only reads is the same place between two batches; what one place cannot show is a
second process that kept its gateway over the batches of the first (section 6).

Deadlock checking is off where the system ends: a call that answered, a script that
is over.

Runs that show a disagreement between the code and what is written about it (each
checks one property taken from the text quoted in `findings`):

| Run | The text | The code |
|---|---|---|
| `execution_artifact` | collisions of artifact ids are vanishingly unlikely (`templates.py:147`) | the unique part is cut off when the document's id is long: the second job overwrites the artifact of the first |
| `redaction_residual` | a residual never contains a registered value (`search_gateway.py:133`) | the characters copied on both sides of a replaced value are joined (line 242) and may spell another |
| `manage_runpod_interrupt` | an agent run cannot accidentally leave a Pod running | an interrupt during the wait, or before the `try`, leaves it and says nothing |
| `operational_smoke_report` | report and scenario agree | after `wait_timeout_cleanup_failed` the payload claims a confirmed cleanup (`operational_smoke.py:764`): the report says `failed_cleaned`, the scenario said `failed_owner_action` |
| `batch_failed` | a failed batch must not corrupt the public index (`docs/architecture.md` §10) | the snapshot is written whatever became of the batch and holds only what this process indexed or loaded: a new process whose documents all fail replaces the index by an empty file |

Seen while modelling, without a run of their own.

Audit and vault:

- `boundary.py:1446` and `docs/architecture.md:681` take the last record of an
  `audit_record_id` for its outcome; if the result or the corrective record cannot be
  appended, the accepted intent stays last (`boundary.py:1053-1061` says so).
- `boundary.py:1132` says that the kernel is never reached without a durable record; a line
  torn by an earlier failed append swallows the intent that follows. With `"partial"` added
  to `AppendFaults` in `MCRestoration.cfg` and `KernelOnlyAfterIntent` as the only invariant,
  TLC shows it.
- `docs/architecture.md:472` and `docs/scaffold-status.md:39` call the commit atomic; it is
  two writes in place (`commit.py:54`), and a failure between or inside them is visible.
- `docs/architecture.md` §6.1 says of `audit_write_failed` that the kernel is not called, but
  it is also answered when the result cannot be appended after the kernel (nothing is
  disclosed, though).
- `read_records` documents that a malformed record raises (`audit.py:266`); a line that is
  JSON and no record is skipped (`audit.py:285`).

Redaction and search:

- `register` documents that a second key for a value cannot happen; one value under two
  kinds has two keys, and the second `index` with entries raises after its row is there.
- A span of length zero is committed, with an entry that `index` then refuses.
- `redact` documents that spans out of order are ignored; it sorts them.
- `inference_backend.py` says that the boundary catches the backend's errors; nothing does.
- A document in which no span is found always counts as failed; a search with a resolver
  returns the first, that is the oldest, of a document's rows in its gateway.

Batch: a process that runs one batch a day writes an index of that day's documents only,
unless somebody loads the earlier index first; an empty inbox writes an empty one; exit
code 0 does not say that the index was persisted.

Pods and scenarios:

- `docs/runpod-agent-lifecycle.md` says that `create_failed` means that no Pod was created,
  but a lost or unreadable answer to `POST /pods` leaves a Pod whose id nobody knows; and,
  at lines 114-117, that the cleanup after a wait timeout is skipped with `--keep-pod`, but
  `start_pod` does not know that flag.
- `_synthesise_result` says that `failed_cleaned` is only reached when no Pod needs the
  owner, but with `--keep-pod` and another failed phase it is reached with a running Pod.
- The module text of `operational_smoke.py` promises an urgent line with exit code 3, which
  only `manage_runpod.py` writes; when the demo corpus cannot be removed, the traceback's
  exit code 1 hides a 3, while the result line says `failed_owner_action`.
- Phase 1 takes its document from any manifest of the vault, not from those of its batch,
  and a demo corpus that fails to materialise leaves its directory.

## 4. Fairness

- `Restoration`, `Execution`, `Vault`: weak fairness of each call's own steps. A call is a
  synchronous function without waiting or locks; it runs on unless its process dies, and
  dying disables its steps. No fairness for commits, crashes or the start of a call in
  `Vault`. Whether an append or a write succeeds is chosen inside the step, so fairness does
  not make it succeed; that the system refuses a file (`ReadFails`) is never fair.
- `BatchRunner`: weak fairness of each process's steps: `run_directory` is one synchronous
  call, its retry sleeps for no time. None for crashes, loads and the inbox.
- `ManageRunpod`, `OperationalSmoke`: weak fairness of the program's progress as a whole
  (every request has a timeout in the code, the smoke child too), and of the propagation
  of an exception that was raised (part of `Progress` in `OperationalSmoke`). Interrupts, kills
  and the next scenario are never fair. Neither is the service: requests may stay on the
  wire for ever and every answer may be a failure.

## 5. What is proved

`RestorationProofs`, for every set of calls, documents, entries and requests, every
policy table that satisfies `IsTable`, and every set of dictionaries
(`RestorationAssumption`, `NoneAssumption`):

- `TypeCorrect`: `Spec => []TypeOK`, whatever appends do.
- `NothingRewritten`: `Spec => AppendOnly`, whatever appends do. The invariant behind it is
  that an unfinished last line is garbled (`TornTail`), so continuing it changes nothing.
- `Inductive`: if no append tears its line (`"partial" \notin AppendFaults`), `Spec =>
  []IInv`.
- `KernelGuarded`, `DisclosuresAudited`, `FailuresAudited`, `RecordsPatterned`: under the
  same condition, `KernelOnlyAfterIntent`, `DisclosureAudited`, `FailureAudited` and
  `RecordPattern`.
- `Implements`: under the same condition, `Spec => AuditedDisclosureSpec`. A line puts its
  call on the abstract ledger (`LedgerAppend`), and each step of a call is one abstract step
  or a stutter (`SettleImplements`, `StepImplements`).

The condition is necessary: section 3 tells how to see the counterexample without it.

None of the four invariants is inductive alone: that a disclosure has exactly two
records needs that a call about to record its result has exactly its intent on record,
which needs that a call that has not begun has none. `IInv` says for each position of a
call what its lines are (`CallInv`), that it has no answer before it returned, and that
the file's last line is whole. The argument has three parts: what `Appended` and
`AfterFault` do to a file (`AppendedFile`, `AfterFaultFile`, `AppendLines`: the lines of
the others stay where they are); a frame lemma (`CallInvFrame`): a step that keeps the
lines and the state of a call keeps its `CallInv`; and one lemma per action for the call
that moves (`RefuseCallInv` ... `CrashCallInv`). `OtherCallInv` and `NextIInv` join
them.

`PipelineProofs`, first part, for any writers, readers, documents and versions
(`VaultAssumption`):

- `TypeCorrect`, `DictionariesHaveManifests`, `ReturnedAreDurable`, `CommitsAreRead`: `TypeOK`,
  `DictionaryHasManifest`, `ReturnedIsDurable` and `ReadYourCommit`.

All four follow from `Vault!IInv`, proved inductive action by action: the last writer of a
document, if it met no other, is the only active one there and its files are as its
position says (`AloneInv`); a manifest is opened before its dictionary (`WriterInv`); the
writer a reader expects has returned (`ReaderInv`). A reader that was refused a file is told
what the others are not (`RefusedStep`). `WriterFiles` says what a writer's steps
may do to files, `GoesOnStep` and `AnswersStep` what they do to the records of calls.

`PipelineProofs`, second part, for texts of any length over any alphabet, any spans of
callers and any replies of a backend, any rules, kinds and digests, and any number of
documents and rows. `RedactionAssumption` says what the code and its callers ensure: offsets
of a caller are ordered naturals (`SpanSpec` validates them), a rule matches no empty
text, and `Lower` takes a character to one character.

- `RedactionInvariant`: `RedactionSpec => []RedactionInv`, the inductive invariant.
- `RefusalsHaveCause`, `RedactionAccountsForSpans`, `IndexRefusesForCause`,
  `AskedValuesAreShown`: the four invariants of the run, `RefusedForCause`,
  `EntitiesAccounted`, `IndexRaisesForCause` and `AskedValueIsShown`.

The state is simple and the operators are not, so most of the proof is about what the loops
compute. Each loop has a lemma that names its sequence of intermediate results (`Redacting`,
`Finding`, `Claiming`, `Ruling`, `Registering`, `Translating`, `Restoring`, and those of
`ScanLoop` and `SearchLoop`), and an invariant of its turns:

- `redact`: `DoneInv` (what was cut out and put in so far can be undone: the offset is the
  difference of the two texts, every entity points at its key, and with the values in their
  places the text so far is the raw text up to the cursor) and `AccountInv` (a span that was
  passed over reaches past the text or is reached into by one that was kept);
- the rules: `Claims` (no two claimed spans overlap, none is empty or past the text). With
  `AccountInv` it follows that `redact` passes over none of them;
- `register_entries`: `MapInv` (no value has two keys) and `MapOrigin` (every pair comes from
  the entries of a committed document), with which a refusal has its cause;
- `translate`: `TranslateKnown` (a query that is a registered value is replaced by its key as
  a whole, since nothing longer matches in it). The document whose entry it is shows that key,
  because `Validates` demands it, and in lower case too (`OccursShows`);
- `search`: a hit stays and is there once (`HitAppended`), and a row that shows the needle is
  a hit when all rows have been scanned (`ScanFinds`). If the cut at `top_k` takes the document
  away, there are `top_k` hits before it (`FirstHits`), each of which shows a needle
  (`HitsShow`);
- the snippet: `SnippetShows` (a window around the first place of a needle contains it, up to
  case, whatever `Window` is);
- the validator: `ValidUnlessShown` (a manifest of `redact` that shows no value passes every
  check). What the validator asks of keys and of the dictionary follows from `DoneInv`: a
  key stands where its entity is, hence occurs (`SliceOccurs`), it has the shape of a key
  (`KeyParts`), and an entity and an entry are made in one turn.

`RedactionInv` then says of each committed or refused document what `redact` and `validate` have
ensured (`ResultInv`), and of each answer of `index` what it says of the map (`IndexInv`), which
later calls can only add to. The last two of the four properties are not inductive alone: that
an asked value finds its document needs that a pair once registered keeps its key, whatever is
indexed later.

`ExecutionProofs`, for any calls, requests, document versions, values, ids and faults of
the audit file (`ExecutionAssumption`, `LocatorAssumption`, and `GarbledAssumption`: a line
that is not JSON is no record): `TypeCorrect`, `GatesComeFirst`, `AnswersAreOnRecord`,
`OutputIsRedacted`, `AcceptedArtifactsLast` and `OrphansHaveReason` state the six invariants
of the run. No condition on the faults is needed: a torn append is what `Legible` in
`AnswerOnRecord` is about. None of the last four is inductive. A record that says what the
answer says needs that a call that has not come to its record has no line and no answer
(`CallInv`); a letter that shows no value of its call needs that it was scrubbed before the
artifact was opened, and that whoever stands under an id has that id for its output
(`ArtifactInv`): an id that is not cut belongs to one call (`OwnId`), which is what
`AcceptedIsDurable` stands on. `OutputInv` says how far a call is with an output that nobody
else writes. `QuietStep` covers the steps that write neither the log nor an artifact,
`OutputSteps` those that write an artifact, `RecordSteps` those that append.

`ManageRunpodProofs`, for every bound on probes and on attempts (`BoundsAssumption`: both
at least 1): `TypeCorrect`, `NoPodIsSilent`, `SuccessTellsTheTruth`, `DeletesAreBounded`,
`KeptPodsSurvive`, `PassedWereServed` and `ProbesPrecedeDeletes` state all the invariants of
the run. The library's part is in `ManagedPodProofs`: `PodInv` (a known Pod's `POST` is off the
wire, a `DELETE` is only sent for a known Pod, within the budget), and what `start_pod` and
`stop_pod` promise while they run and when they return (`Starting`, `Stopping`), kept by a
step of the library, an interrupt and the service acting late (`StartingStep`,
`StoppingStep`, `InterruptedStep`, `UnheardStep`). The script's part is `Script`, which ties
its position to those promises and to what it has said and collected, and `Child`, which
ties the smoke's process to it. Why this is needed: `DeleteBudget` speaks of three call
sites of `stop_pod`, and is inductive only together with the fact that at each of them no
`DELETE` has been sent.

`BatchRunnerProofs`, for any documents, editions, attempts, loads and batches, and for any
number of places that keep their gateways (`RunnerAssumption`: the files of the inbox are
sorted, each once; `TextAssumption`): `IndexIsWhole`, `CommittedAreWhole`, `CommittedAreServed` and
`HitsAreOncePerDoc`. The invariant accounts for each document of the last batch: it is
still to come, failed, or in the vault as it was indexed (`Accounted`); its row is the last
one of the document in the gateway (`Indexed`), so `Latest` keeps that one and no other
(`LatestRows`); and what `snapshot` keeps is in the temporary file before it is in the index
(`Persisted`). `OneBatch` says that who runs a batch runs the last. `Ranks` and `PickedSeq`
are about the operator with which both `Latest` and `Begin` pick the elements of a sequence.
That a search with a resolver returns a document once is an invariant of its two nested loops
(`ScanOnce`, `ResolvedOnce`); one without inherits it from the rows it scans, which
`IndexWhole` describes (`PlainOnce`).

Loops are reasoned about by the least turn at which an invariant fails (`Turns`), which the
well-foundedness of the naturals gives (`LeastNatural`): induction stated over sets, since the
library's induction theorems take an operator as a parameter, which the installed provers
cannot instantiate.

`OperationalSmokeProofs`, for any number of scenarios over one vault and any bounds of the
library (`RunsAssumption`, `BoundsAssumption`): `ResultIsHonest`, `CompletedTellsOfVault` and
`ReportIsHonest` state the run's three invariants. What a result says is read off the ledger,
so the invariant says of the ledger, from phase to phase, that no phase is recorded twice
(`RecordedOnce`: a later phase cannot overwrite a failure), that unless one has failed the
vault has what the phases looked for (`ServedInv`), and, once it is complete, what it tells of
the Pod (`PodStory`), which late acts of the service cannot make wrong. `PodPhaseInv` is again
the library's promises. `FileInv` is about the payload's path over all scenarios; that the
report accepts every payload and says what the result said is a lemma about the operators
(`PayloadReported`), and so is what it says of a stranger's file.

All these invariants were first checked by TLC as invariants of the runs' instances (that of
`BatchRunner` with two places too, 1,923,132 states; for `RedactionInv`, `Symbol` is the set of
the symbols of the instance); the proofs hold for every value of the constants.

Only model-checked: all liveness (`EveryCallAnswered`, `EveryExecutionEnds`, `CallsEnd`,
`ScriptEnds`, `ScenarioEnds`, `BatchEnds`). It rests on fairness and `ENABLED`, which the
prover does not reason about. Every other property of the passing runs is proved.

## 6. What the models leave out

- Power loss and missing `fsync`: a write that returned is taken to be there. `Crash` is the
  death of a process.
- An append whose line is whole but for its newline counts as "partial".
- The wording of details, stripping of paths, log lines, `lifecycle.jsonl` rows.
- Policy files: reading and validating their JSON (`IsTable` is what is left of it).
- `kernel_error` by a handle outside the vault: the boundary builds the path itself.
- Execution: what a model words and a template prints are the values that occur in it; the
  manifest of an artifact is one file with its dictionary, in two steps.
- Redaction: characters whose lower case is two ('İ', which would move the window of a
  snippet) or depends on the place (final sigma); keys whose digests have more than one
  character, the detectors' regular expressions (a rule is a word), the HTTP client and
  the prompt of the backend.
- Facade: its one gateway per instance and the reserved tenant ids are checks in a
  constructor without later state.
- Pod library: `stop_pod(terminate=False)`, mock, attach and bypass variants;
  `smoke_runpod.py --mode generate`, which has no verdict.
- Operational smoke: the rendering of the report is the set of shapes its text may have.
- Batch: the derivation of document ids (taken to be one to one), malformed lines of the
  index, the argument checks of `run_batch` (exit 1); and two processes that batch in turn
  while both keep their gateways: the one with the older row of a document writes it over
  the newer one.

Not modelled: the operational taxonomy and the boundary registry (static tables that nothing
changes; what reads them is modelled with its reader), the evaluation harness (offline
counters over a fixture corpus), transfer (a stub that moves nothing), and the linters of
the repository's own docs and manifests. `PROJECT.json` repeats the reason beside each.

## 7. Plan

Done, in this order because what is disclosed, what is lost and what is billed matter
most: `Policy`, `AuditLog`, `AuditedDisclosure`, `Restoration` with its proofs; `Vault`;
`ManagedPod`, `ManageRunpod`; `SearchIndex`, `BatchRunner`; `Locators`, `Execution`;
`Redactor`, `Redaction`; `SmokeRunpod`; `OperationalReport`, `OperationalSmoke`;
`AuditLogProofs`, `ExecutionProofs`, `ManagedPodProofs`,
`ManageRunpodProofs`, `BatchRunnerProofs`, `OperationalSmokeProofs`; `Loops`,
`PipelineProofs`.

Next:

1. An abstract specification of the batch (a document is committed, then served) that
   `BatchRunner` implements.
2. Two processes that batch in turn: a property of what survives in the index when one
   of them has the older row of a document.
3. `stop_pod(terminate=False)` and the attach variant in `ManagedPod`.
