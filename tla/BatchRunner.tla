---------------------------- MODULE BatchRunner ----------------------------
(***************************************************************************)
(* batch_runner.BatchRunner.run_directory: an inbox is driven document by  *)
(* document through the pipeline, the manifests are indexed and the index  *)
(* is written to the vault; batch_queue.BatchQueue keeps the status of the *)
(* batch, and cli/run_batch chooses the exit code.                         *)
(*                                                                         *)
(* Each element of Runner is a place for a process with a gateway of its   *)
(* own.  A process may load the written index, search at any time (which   *)
(* changes nothing) and run several batches.  As search_gateway asks for,  *)
(* only one process runs a batch at a time.                                *)
(*                                                                         *)
(* How a commit interleaves with others is the subject of Vault: here it   *)
(* is one step that may fail and then leave what Vault shows it leaves.    *)
(***************************************************************************)
EXTENDS SearchIndex

CONSTANTS
    Runner,       \* processes that index, write, load and search
    Sorted,       \* the documents, in the order of their paths
    MaxRuns,      \* bound on the batches run
    MaxAttempts,  \* _SNAPSHOT_MAX_ATTEMPTS, 2
    MaxLoads      \* bound on the loads into one gateway

ASSUME RunnerAssumption ==
    /\ {MaxRuns, MaxAttempts, MaxLoads} \subseteq Nat \ {0}
    /\ Sorted \in Seq(Doc) /\ IsInjective(Sorted) /\ ToSet(Sorted) = Doc

VARIABLES
    inbox,     \* inbox[d]: the edition of the text in the inbox; 0: no file
    manifest,  \* manifest[d]: the manifest's edition; 0: none that can be read
    private,   \* private[d]: the same of the private dictionary
    index,     \* index/manifests.jsonl
    tmp,       \* index/manifests.jsonl.tmp
    runner,    \* runner[p]: where process p is, its gateway and its summary
    runs       \* how many batches were begun

files == <<manifest, private>>
vars == <<inbox, files, index, tmp, runner, runs>>

Edition == 0..MaxEdition

\* A file of rows is absent, cut short, or whole.
Absent == [state |-> "absent", rows |-> << >>]
Partial == [state |-> "partial", rows |-> << >>]
Whole(rows) == [state |-> "whole", rows |-> rows]

\* A process without a past.
Fresh == [pc |-> "idle", gateway |-> << >>, loads |-> 0, run |-> 0,
          batch |-> {}, refs |-> << >>, committed |-> {}, failed |-> {},
          status |-> "none", attempt |-> 0, persisted |-> FALSE, exit |-> -1]

Init ==
    /\ inbox \in [Doc -> {0, 1}]
    /\ manifest = [d \in Doc |-> 0]
    /\ private = [d \in Doc |-> 0]
    /\ index = Absent
    /\ tmp = Absent
    /\ runner = [p \in Runner |-> Fresh]
    /\ runs = 0

Running(p) == runner[p].pc \notin {"idle", "done"}

-----------------------------------------------------------------------------
\* The documents

\* submit, and start unless there is nothing to do.
Begin(p) ==
    LET refs == Picked(Sorted, {i \in DOMAIN Sorted : inbox[Sorted[i]] # 0}) IN
    /\ \A q \in Runner : ~Running(q)
    /\ runs < MaxRuns
    /\ runs' = runs + 1
    /\ runner' = [runner EXCEPT ![p] =
          [Fresh EXCEPT !.pc = "doc", !.run = runs + 1,
                        !.gateway = runner[p].gateway, !.loads = runner[p].loads,
                        !.refs = refs, !.batch = ToSet(refs),
                        !.status = IF refs = << >> THEN "PENDING" ELSE "RUNNING"]]
    /\ UNCHANGED <<inbox, files, index, tmp>>

\* The document that is next.
Current(p) == Head(runner[p].refs)

HasDoc(p, where) == runner[p].pc = where /\ runner[p].refs # << >>

\* _process_one returned None.
Fails(p) ==
    runner' = [runner EXCEPT ![p].pc = "doc", ![p].refs = Tail(@),
                             ![p].failed = @ \cup {Current(p)}]

\* Nothing is written: the file cannot be read, the proposer raises or finds
\* nothing, or the manifest does not pass validation.
GivesUp(p) ==
    /\ HasDoc(p, "doc")
    /\ Fails(p)
    /\ UNCHANGED <<inbox, files, index, tmp, runs>>

\* facade.process commits both files.
Process(p) ==
    LET d == Current(p) IN
    /\ HasDoc(p, "doc")
    /\ manifest' = [manifest EXCEPT ![d] = inbox[d]]
    /\ private' = [private EXCEPT ![d] = inbox[d]]
    /\ runner' = [runner EXCEPT ![p].pc = "reload"]
    /\ UNCHANGED <<inbox, index, tmp, runs>>

\* What a commit of document d leaves that is cut short.
Remains(d) ==
    \/ /\ manifest' = [manifest EXCEPT ![d] = 0]
       /\ UNCHANGED private
    \/ /\ manifest' = [manifest EXCEPT ![d] = inbox[d]]
       /\ private' \in {private, [private EXCEPT ![d] = 0]}

\* A bug: an exception is logged and the document goes on.
ProcessFailsUnnoticed(p) ==
    /\ HasDoc(p, "doc")
    /\ Remains(Current(p))
    /\ manifest'[Current(p)] # 0
    /\ runner' = [runner EXCEPT ![p].pc = "reload"]
    /\ UNCHANGED <<inbox, index, tmp, runs>>

\* facade.process raises.
ProcessFails(p) ==
    /\ HasDoc(p, "doc")
    /\ Remains(Current(p))
    /\ Fails(p)
    /\ UNCHANGED <<inbox, index, tmp, runs>>

\* The committed manifest is read again and indexed.
Reload(p) ==
    LET row == [doc |-> Current(p), edition |-> manifest[Current(p)]] IN
    /\ HasDoc(p, "reload")
    /\ runner' = [runner EXCEPT ![p].pc = "doc", ![p].refs = Tail(@),
                                ![p].gateway = Append(@, row),
                                ![p].committed = @ \cup {row}]
    /\ UNCHANGED <<inbox, files, index, tmp, runs>>

\* OSError: the document counts as failed although it is committed.
ReloadFails(p) ==
    /\ HasDoc(p, "reload")
    /\ Fails(p)
    /\ UNCHANGED <<inbox, files, index, tmp, runs>>

\* complete, fail, or neither when there was nothing to do.
Finish(p) ==
    /\ runner[p].pc = "doc" /\ runner[p].refs = << >>
    /\ runner' = [runner EXCEPT
          ![p].pc = "write", ![p].attempt = 1,
          ![p].status = IF @ = "PENDING" THEN @
                        ELSE IF runner[p].committed # {} \/ runner[p].failed = {}
                          THEN "DONE" ELSE "FAILED"]
    /\ UNCHANGED <<inbox, files, index, tmp, runs>>

-----------------------------------------------------------------------------
\* The snapshot

\* run_directory returns; the exit code is that of --fail-on-error.
Returns(p, persisted) ==
    runner' = [runner EXCEPT ![p].pc = "done", ![p].persisted = persisted,
                             ![p].exit = IF runner[p].failed = {} THEN 0 ELSE 2]

\* OSError from mkdir, which is not retried.
SnapshotRefused(p) ==
    /\ runner[p].pc = "write" /\ runner[p].attempt = 1
    /\ Returns(p, FALSE)
    /\ UNCHANGED <<inbox, files, index, tmp, runs>>

\* A bug: the rows are written where they are read.
WriteInPlace(p) ==
    /\ runner[p].pc = "write"
    /\ index' = Partial
    /\ tmp' = Whole(Latest(runner[p].gateway))
    /\ runner' = [runner EXCEPT ![p].pc = "replace"]
    /\ UNCHANGED <<inbox, files, runs>>

Write(p) ==
    /\ runner[p].pc = "write"
    /\ tmp' = Whole(Latest(runner[p].gateway))
    /\ runner' = [runner EXCEPT ![p].pc = "replace"]
    /\ UNCHANGED <<inbox, files, index, runs>>

Replace(p) ==
    /\ runner[p].pc = "replace"
    /\ index' = tmp
    /\ tmp' = Absent
    /\ Returns(p, TRUE)
    /\ UNCHANGED <<inbox, files, runs>>

\* A bug: the attempts are not counted.
AttemptFailsAgain(p) ==
    /\ runner[p].pc \in {"write", "replace"}
    /\ tmp' \in {Absent, Partial}
    /\ runner' = [runner EXCEPT ![p].pc = "write"]
    /\ UNCHANGED <<inbox, files, index, runs>>

\* OSError in either step: the temporary file is removed, which may fail too.
AttemptFails(p) ==
    /\ runner[p].pc \in {"write", "replace"}
    /\ tmp' \in {Absent, Partial}
    /\ IF runner[p].attempt < MaxAttempts
         THEN runner' = [runner EXCEPT ![p].pc = "write", ![p].attempt = @ + 1]
         ELSE Returns(p, FALSE)
    /\ UNCHANGED <<inbox, files, index, runs>>

-----------------------------------------------------------------------------
\* Processes come and go

Crash(p) ==
    /\ Running(p)
    /\ runner' = [runner EXCEPT ![p] = Fresh]
    /\ \/ UNCHANGED <<files, tmp>>
       \/ HasDoc(p, "doc") /\ Remains(Current(p)) /\ UNCHANGED tmp
       \/ runner[p].pc = "write" /\ tmp' = Partial /\ UNCHANGED files
    /\ UNCHANGED <<inbox, index, runs>>

\* A process that is done ends; the next one starts with an empty gateway.
Ends(p) ==
    /\ runner[p].pc = "done"
    /\ runner' = [runner EXCEPT ![p] = Fresh]
    /\ UNCHANGED <<inbox, files, index, tmp, runs>>

\* Whoever fills the inbox writes a document or a new edition of it.
Edit(d) ==
    /\ inbox[d] < MaxEdition
    /\ inbox' = [inbox EXCEPT ![d] = @ + 1]
    /\ UNCHANGED <<files, index, tmp, runner, runs>>

\* load appends what can be read; an open file outlives its replacement.
Load(p) ==
    /\ ~Running(p)
    /\ runner[p].loads < MaxLoads
    /\ runner' = [runner EXCEPT ![p].gateway = @ \o index.rows, ![p].loads = @ + 1]
    /\ UNCHANGED <<inbox, files, index, tmp, runs>>

-----------------------------------------------------------------------------

Step(p) ==
    \/ GivesUp(p) \/ Process(p) \/ ProcessFails(p) \/ Reload(p) \/ ReloadFails(p)
    \/ Finish(p)
    \/ SnapshotRefused(p) \/ Write(p) \/ Replace(p) \/ AttemptFails(p)

Next ==
    \/ \E p \in Runner : Begin(p) \/ Step(p) \/ Crash(p) \/ Ends(p) \/ Load(p)
    \/ \E d \in Doc : Edit(d)

\* run_directory is one synchronous call.
Fairness == \A p \in Runner : WF_vars(Step(p))

Spec == Init /\ [][Next]_vars /\ Fairness

-----------------------------------------------------------------------------
\* Properties

\* Whoever opens the written index, at any instant and after any crash, finds
\* whole rows, and each document once: snapshot writes beside the file, keeps
\* one row of each document, and replaces the file in one step.
IndexWhole ==
    /\ index.state # "partial"
    /\ \A i, j \in DOMAIN index.rows :
          index.rows[i].doc = index.rows[j].doc => i = j

\* The summary of p's batch is the last word on the documents.
LastSummary(p) == runner[p].pc = "done" /\ runner[p].run = runs

\* The summary accounts for each document, and one that it does not list as
\* failed is in the vault with its dictionary, both of the edition that was
\* indexed: a commit that was cut short is on the list, and exit code 0 says
\* that there is none.
CommittedIsWhole ==
    \A p \in Runner : LastSummary(p) =>
        /\ runner[p].batch =
              runner[p].failed \cup {row.doc : row \in runner[p].committed}
        /\ \A row \in runner[p].committed :
              /\ row.doc \notin runner[p].failed
              /\ manifest[row.doc] = row.edition /\ private[row.doc] = row.edition
        /\ runner[p].exit = 0 =>
              \A d \in runner[p].batch : manifest[d] = private[d] /\ manifest[d] # 0

\* If the summary says that the index was persisted, the written index has
\* each document of the batch that was committed in the edition that was
\* committed, whatever rows the gateway had of it from earlier batches and
\* loads.
CommittedIsServed ==
    \A p \in Runner : LastSummary(p) /\ runner[p].persisted =>
        runner[p].committed \subseteq ToSet(index.rows)

DocOnce(hits) ==
    \A i, j \in DOMAIN hits : hits[i].doc = hits[j].doc => i = j

\* A search with a resolver returns a document once, however often it was
\* indexed or loaded and whatever terms the query is translated to; and so does
\* a search without one in a gateway that has just loaded the written index.
HitsOncePerDoc ==
    \A top_k \in 1..(Len(Sorted) + 1) :
        /\ \A needles \in SeqOf(Needle, Len(Sorted)), p \in Runner :
              DocOnce(SearchResolved(runner[p].gateway, needles, top_k))
        /\ \A needle \in Needle : DocOnce(SearchPlain(index.rows, needle, top_k))

\* A batch comes to its end, whatever fails, unless its process dies.
BatchEnds == \A p \in Runner : Running(p) ~> ~Running(p)

-----------------------------------------------------------------------------
\* The inductive invariant

File == [state: {"absent", "partial", "whole"}, rows: Seq(Row)]

Place ==
    [pc: {"idle", "doc", "reload", "write", "replace", "done"}, gateway: Seq(Row),
     loads: Nat, run: Nat, batch: SUBSET Doc, refs: Seq(Doc),
     committed: SUBSET Row, failed: SUBSET Doc,
     status: {"none", "PENDING", "RUNNING", "DONE", "FAILED"}, attempt: Nat,
     persisted: BOOLEAN, exit: {-1, 0, 2}]

\* Every variable keeps the shape the code gives it.
TypeOK ==
    /\ inbox \in [Doc -> Edition]
    /\ manifest \in [Doc -> Edition] /\ private \in [Doc -> Edition]
    /\ index \in File /\ tmp \in File
    /\ runner \in [Runner -> Place]
    /\ runs \in Nat

\* Who runs a batch runs the last one, and nobody else has run that one.
OneBatch ==
    /\ \A p \in Runner : /\ runner[p].run <= runs
                         /\ runner[p].pc = "idle" <=> runner[p].run = 0
                         /\ Running(p) => runner[p].run = runs
    /\ \A p, q \in Runner :
          runner[p].run = runner[q].run /\ runner[p].run # 0 => p = q

\* p runs the last batch, or has run it.
LastBatch(p) == runner[p].pc # "idle" /\ runner[p].run = runs

\* Each document of the batch is still to come, failed, or is in the vault as
\* it was indexed.
Accounted(p) ==
    LET r == runner[p] IN
    /\ IsInjective(r.refs)
    /\ r.batch = r.failed \cup {row.doc : row \in r.committed} \cup ToSet(r.refs)
    /\ r.failed \cap ToSet(r.refs) = {}
    /\ \A row \in r.committed :
          /\ row.doc \notin r.failed \cup ToSet(r.refs)
          /\ manifest[row.doc] = row.edition /\ private[row.doc] = row.edition
    /\ \A d \in ToSet(r.refs) : inbox[d] # 0
    /\ r.pc = "reload" =>
          /\ r.refs # << >>
          /\ manifest[Current(p)] # 0 /\ manifest[Current(p)] = private[Current(p)]
    /\ r.pc \in {"write", "replace", "done"} => r.refs = << >>
    /\ r.pc = "done" => r.exit = IF r.failed = {} THEN 0 ELSE 2

\* What was committed stands behind what the gateway had of the documents.
Indexed(p) ==
    \A row \in runner[p].committed :
        \E i \in DOMAIN runner[p].gateway :
            runner[p].gateway[i] = row /\ LastRow(runner[p].gateway, i)

\* What is in the temporary file, and then in the index.
Persisted(p) ==
    /\ runner[p].pc = "replace" =>
          /\ tmp.state = "whole" /\ DocOnce(tmp.rows)
          /\ runner[p].committed \subseteq ToSet(tmp.rows)
    /\ runner[p].pc = "done" /\ runner[p].persisted =>
          runner[p].committed \subseteq ToSet(index.rows)

BatchInv(p) ==
    LastBatch(p) => Accounted(p) /\ (Running(p) => Indexed(p)) /\ Persisted(p)

IInv ==
    /\ TypeOK
    /\ OneBatch
    /\ IndexWhole
    /\ \A p \in Runner : BatchInv(p)

-----------------------------------------------------------------------------
\* What the documentation says and the code does not do

\* "A failed batch must not corrupt the public index" (docs/architecture.md
\* section 10): the snapshot of a batch whose status is FAILED leaves the
\* documents in the index that were there.
FailedBatchKeepsIndex ==
    [][\A p \in Runner :
          Replace(p) /\ runner[p].status = "FAILED" =>
              \A row \in ToSet(index.rows) :
                  \E new \in ToSet(index'.rows) : new.doc = row.doc]_vars

=============================================================================
