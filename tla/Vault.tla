------------------------------- MODULE Vault -------------------------------
(***************************************************************************)
(* One vault: the manifest and the private dictionary of each document,    *)
(* the process_document calls that write them and the boundary operations  *)
(* that read them (resolve, inspect_request, status_report_request).       *)
(*                                                                         *)
(* Writers and readers are calls of one or several processes; nothing in   *)
(* the code locks a vault.  write_text truncates a file and then fills it, *)
(* so each file is written in two steps, and a writer may raise OSError or *)
(* die before any of them.  What a writer would write is a version: the    *)
(* redacted text and the dictionary that redact derives from one raw text. *)
(* The system may refuse a reader a file that is there.                    *)
(*                                                                         *)
(* alone, latest, expects and refused are not in the code: they record who *)
(* ran when, and whom the system refused a file, for the properties.       *)
(***************************************************************************)
EXTENDS Naturals

CONSTANTS
    Writer,   \* calls of process_document
    Reader,   \* calls of the reading operations
    Doc,      \* document ids
    Version,  \* what documents may be processed into
    Valid,    \* the versions that pass Validator.validate
    NoWriter, \* no writer
    NoVersion \* no version

ASSUME VaultAssumption ==
    /\ Valid \subseteq Version
    /\ NoWriter \notin Writer
    /\ NoVersion \notin Version

VARIABLES
    manifest,  \* manifest[d]: <vault>/manifests/d.json
    private,   \* private[d]: <vault>/private/d.json
    writer,    \* writer[w]: a call of process_document
    reader,    \* reader[r]: a call that reads
    latest     \* latest[d]: the last writer to have started on d

vars == <<manifest, private, writer, reader, latest>>

\* A file is absent, truncated, whole with a version, or garbled: the remains
\* of a write cut short, or of two writes into each other.
File == [state: {"absent", "empty", "whole", "garbled"},
         version: Version \cup {NoVersion}]

FileOf(state) == [state |-> state, version |-> NoVersion]
Whole(v) == [state |-> "whole", version |-> v]

Operation == {"resolve", "inspect", "status"}

\* The scope of a resolve that materialises private state; the two others
\* only look for the manifest.
Scope == {"PRIVATE_BOUNDARY", "ORDINARY_AGENT", "AUDIT_REVIEWER"}

Idle == [pc |-> "idle", doc |-> NoVersion, version |-> NoVersion, alone |-> TRUE]

NotAsked == [pc |-> "idle", op |-> "none", scope |-> "none", doc |-> NoVersion,
             found |-> NoVersion, answer |-> "none", expects |-> NoWriter,
             refused |-> FALSE]

Init ==
    /\ manifest = [d \in Doc |-> FileOf("absent")]
    /\ private = [d \in Doc |-> FileOf("absent")]
    /\ writer = [w \in Writer |-> Idle]
    /\ reader = [r \in Reader |-> NotAsked]
    /\ latest = [d \in Doc |-> NoWriter]

-----------------------------------------------------------------------------
\* process_document and commit

Writing == {"manifest", "fill_manifest", "private", "fill_private"}

Active(d) == {w \in Writer : writer[w].pc \in Writing /\ writer[w].doc = d}

\* Redaction and validation come before the first write.
Start(w) ==
    /\ writer[w].pc = "idle"
    /\ \E d \in Doc, v \in Valid :
          /\ writer' = [x \in Writer |->
                IF x = w THEN [pc |-> "manifest", doc |-> d, version |-> v,
                               alone |-> Active(d) = {}]
                ELSE IF x \in Active(d) THEN [writer[x] EXCEPT !.alone = FALSE]
                ELSE writer[x]]
          /\ latest' = [latest EXCEPT ![d] = w]
    /\ UNCHANGED <<manifest, private, reader>>

\* A text that is not redacted cleanly: ValidationError, nothing is written.
Reject(w) ==
    /\ writer[w].pc = "idle"
    /\ \E d \in Doc, v \in Version \ Valid :
          writer' = [writer EXCEPT ![w] = [pc |-> "raised", doc |-> d,
                                           version |-> v, alone |-> TRUE]]
    /\ UNCHANGED <<manifest, private, reader, latest>>

\* A write over what another write has filled meanwhile may leave its tail.
Filled(f, v) ==
    {Whole(v)} \cup IF f.state = "empty" THEN {} ELSE {FileOf("garbled")}

GoesOn(w, next) == writer' = [writer EXCEPT ![w].pc = next]

OpenManifest(w) ==
    /\ writer[w].pc = "manifest"
    /\ manifest' = [manifest EXCEPT ![writer[w].doc] = FileOf("empty")]
    /\ GoesOn(w, "fill_manifest")
    /\ UNCHANGED <<private, reader, latest>>

FillManifest(w) ==
    LET d == writer[w].doc IN
    /\ writer[w].pc = "fill_manifest"
    /\ \E f \in Filled(manifest[d], writer[w].version) :
          manifest' = [manifest EXCEPT ![d] = f]
    /\ GoesOn(w, "private")
    /\ UNCHANGED <<private, reader, latest>>

\* A bug: a dictionary that is there already is left alone.
OpenPrivateOnce(w) ==
    LET d == writer[w].doc IN
    /\ writer[w].pc = "private"
    /\ IF private[d].state = "absent"
         THEN /\ private' = [private EXCEPT ![d] = FileOf("empty")]
              /\ GoesOn(w, "fill_private")
         ELSE GoesOn(w, "returned") /\ UNCHANGED private
    /\ UNCHANGED <<manifest, reader, latest>>

OpenPrivate(w) ==
    /\ writer[w].pc = "private"
    /\ private' = [private EXCEPT ![writer[w].doc] = FileOf("empty")]
    /\ GoesOn(w, "fill_private")
    /\ UNCHANGED <<manifest, reader, latest>>

FillPrivate(w) ==
    LET d == writer[w].doc IN
    /\ writer[w].pc = "fill_private"
    /\ \E f \in Filled(private[d], writer[w].version) :
          private' = [private EXCEPT ![d] = f]
    /\ GoesOn(w, "returned")
    /\ UNCHANGED <<manifest, reader, latest>>

\* A bug: the files of a commit that failed are removed in writing order.
WriteFailsRemoves(w) ==
    LET d == writer[w].doc IN
    /\ writer[w].pc \in Writing
    /\ manifest' = [manifest EXCEPT ![d] = FileOf("absent")]
    /\ GoesOn(w, "raised")
    /\ UNCHANGED <<private, reader, latest>>

\* A call stops before a step, or in the middle of one that fills a file.
CutShort(w) ==
    LET d == writer[w].doc IN
    \/ UNCHANGED <<manifest, private>>
    \/ /\ writer[w].pc = "fill_manifest"
       /\ manifest' = [manifest EXCEPT ![d] = FileOf("garbled")]
       /\ UNCHANGED private
    \/ /\ writer[w].pc = "fill_private"
       /\ private' = [private EXCEPT ![d] = FileOf("garbled")]
       /\ UNCHANGED manifest

\* OSError.
WriteFails(w) ==
    /\ writer[w].pc \in Writing
    /\ CutShort(w)
    /\ GoesOn(w, "raised")
    /\ UNCHANGED <<reader, latest>>

\* The process dies; nothing recovers what it was doing.
Crash(w) ==
    /\ writer[w].pc \in Writing
    /\ CutShort(w)
    /\ GoesOn(w, "crashed")
    /\ UNCHANGED <<reader, latest>>

-----------------------------------------------------------------------------
\* resolve, inspect_request, status_report_request

\* The writer whose version a reader that starts now on d must find, if nobody
\* starts meanwhile: the last to start, when it returned and met no other.
Expected(d) ==
    IF /\ latest[d] # NoWriter
       /\ writer[latest[d]].pc = "returned"
       /\ writer[latest[d]].alone
      THEN latest[d]
      ELSE NoWriter

Answers(r, answer, v) ==
    reader' = [reader EXCEPT ![r] =
                 [@ EXCEPT !.pc = "done", !.answer = answer, !.found = v]]

\* The purpose and the locator are checked before the vault is touched.
Ask(r) ==
    /\ reader[r].pc = "idle"
    /\ \E op \in Operation, scope \in Scope, d \in Doc :
          /\ op # "resolve" => scope = "ORDINARY_AGENT"
          /\ reader' = [reader EXCEPT ![r] =
                [pc |-> "manifest", op |-> op, scope |-> scope, doc |-> d,
                 found |-> NoVersion, answer |-> "none", expects |-> Expected(d),
                 refused |-> FALSE]]
    /\ UNCHANGED <<manifest, private, writer, latest>>

\* Whether the manifest exists is all that status, and resolve without the
\* private scope, look at.
LookForManifest(r) ==
    /\ reader[r].pc = "manifest"
    /\ IF manifest[reader[r].doc].state = "absent"
         THEN Answers(r, "unknown", NoVersion)
       ELSE IF reader[r].op = "inspect"
         THEN reader' = [reader EXCEPT ![r].pc = "read_manifest"]
       ELSE IF reader[r].op = "resolve" /\ reader[r].scope = "PRIVATE_BOUNDARY"
         THEN reader' = [reader EXCEPT ![r].pc = "private"]
       ELSE Answers(r, "committed", NoVersion)
    /\ UNCHANGED <<manifest, private, writer, latest>>

\* What reading and parsing a file gives, if the system lets it be read.
Reads(r, f) ==
    IF f.state = "whole" THEN Answers(r, "success", f.version)
    ELSE Answers(r, "artifact_missing", NoVersion)

ReadManifest(r) ==
    /\ reader[r].pc = "read_manifest"
    /\ Reads(r, manifest[reader[r].doc])
    /\ UNCHANGED <<manifest, private, writer, latest>>

\* A bug: the read is repeated until the dictionary is whole.
ReadPrivateAgain(r) ==
    /\ reader[r].pc = "private"
    /\ IF private[reader[r].doc].state = "whole"
         THEN Reads(r, private[reader[r].doc])
         ELSE UNCHANGED reader
    /\ UNCHANGED <<manifest, private, writer, latest>>

\* exists() and the read: dictionaries are never removed.
ReadPrivate(r) ==
    /\ reader[r].pc = "private"
    /\ Reads(r, private[reader[r].doc])
    /\ UNCHANGED <<manifest, private, writer, latest>>

Refused(r, answer) ==
    reader' = [reader EXCEPT ![r] =
                 [@ EXCEPT !.pc = "done", !.answer = answer, !.refused = TRUE]]

\* OSError, whatever is in the file.  That of a read is caught; that of
\* exists() is raised, or taken for the absence of the file, depending on the
\* error and the version of Python.
ReadFails(r) ==
    /\ \/ /\ reader[r].pc = "manifest"
          /\ \E answer \in {"unknown", "raised"} : Refused(r, answer)
       \/ /\ reader[r].pc = "read_manifest"
          /\ Refused(r, "artifact_missing")
       \/ /\ reader[r].pc = "private"
          /\ \E answer \in {"artifact_missing", "raised"} : Refused(r, answer)
    /\ UNCHANGED <<manifest, private, writer, latest>>

-----------------------------------------------------------------------------

WriterStep(w) ==
    \/ OpenManifest(w) \/ FillManifest(w) \/ OpenPrivate(w) \/ FillPrivate(w)
    \/ WriteFails(w)

ReaderStep(r) == LookForManifest(r) \/ ReadManifest(r) \/ ReadPrivate(r)

Next ==
    \/ \E w \in Writer : Start(w) \/ Reject(w) \/ WriterStep(w) \/ Crash(w)
    \/ \E r \in Reader : Ask(r) \/ ReaderStep(r) \/ ReadFails(r)

\* The calls are synchronous: once begun they run on, unless the process dies.
\* Nobody can count on an OSError.
Fairness ==
    /\ \A w \in Writer : WF_vars(WriterStep(w))
    /\ \A r \in Reader : WF_vars(ReaderStep(r))

Spec == Init /\ [][Next]_vars /\ Fairness

-----------------------------------------------------------------------------
\* Properties

WriterCall ==
    [pc: {"idle", "raised", "returned", "crashed"} \cup Writing,
     doc: Doc \cup {NoVersion}, version: Version \cup {NoVersion},
     alone: BOOLEAN]

ReaderCall ==
    [pc: {"idle", "manifest", "read_manifest", "private", "done"},
     op: Operation \cup {"none"}, scope: Scope \cup {"none"},
     doc: Doc \cup {NoVersion}, found: Version \cup {NoVersion},
     answer: {"none", "unknown", "committed", "artifact_missing", "success", "raised"},
     expects: Writer \cup {NoWriter}, refused: BOOLEAN]

\* Every variable keeps the shape the code gives it, and every call that ends
\* is answered in one of the ways the code has.
TypeOK ==
    /\ manifest \in [Doc -> File]
    /\ private \in [Doc -> File]
    /\ writer \in [Writer -> WriterCall]
    /\ reader \in [Reader -> ReaderCall]
    /\ latest \in [Doc -> Writer \cup {NoWriter}]

\* A dictionary never exists without a manifest beside it: whoever may restore
\* a document can also find it, whatever failed on the way.
DictionaryHasManifest ==
    \A d \in Doc : private[d].state # "absent" => manifest[d].state # "absent"

\* A process_document call that returned, met no other writer of the document
\* and has no successor left both files whole, and of one version: even over
\* the remains of calls that failed or died before it.
ReturnedIsDurable ==
    \A d \in Doc :
        LET w == latest[d] IN
        w # NoWriter /\ writer[w].pc = "returned" /\ writer[w].alone =>
            manifest[d] = Whole(writer[w].version) /\ private[d] = manifest[d]

\* Reading after such a call, and with no new writer, gives what it wrote.
\* That the document is unknown or its artifact missing is only said, and an
\* exception only raised, to whom the system refused a file; nobody is given
\* another version.
ReadYourCommit ==
    \A r \in Reader :
        LET w == reader[r].expects IN
        /\ reader[r].pc = "done" /\ w # NoWriter
        /\ latest[reader[r].doc] = w
        => \/ reader[r].answer = "committed"
           \/ reader[r].answer = "success" /\ reader[r].found = writer[w].version
           \/ reader[r].answer \in {"unknown", "artifact_missing", "raised"}
                /\ reader[r].refused

\* Every call that was begun ends, or its process has died.
CallsEnd ==
    /\ \A w \in Writer : writer[w].pc \in Writing ~> writer[w].pc \notin Writing
    /\ \A r \in Reader : reader[r].pc # "idle" ~> reader[r].pc = "done"

-----------------------------------------------------------------------------
\* The inductive invariant

\* How far a writer has come that met no other: the files of its document.
AloneInv(d, w) ==
    /\ writer[w].doc = d
    /\ writer[w].version \in Version
    /\ writer[w].pc # "idle"
    /\ Active(d) \subseteq {w}
    /\ writer[w].pc = "fill_manifest" => manifest[d] = FileOf("empty")
    /\ writer[w].pc \in {"private", "fill_private", "returned"} =>
          manifest[d] = Whole(writer[w].version)
    /\ writer[w].pc = "fill_private" => private[d] = FileOf("empty")
    /\ writer[w].pc = "returned" => private[d] = Whole(writer[w].version)

\* A manifest is opened before its dictionary.
WriterInv(w) ==
    /\ writer[w].pc \in Writing =>
          writer[w].doc \in Doc /\ writer[w].version \in Version
    /\ writer[w].pc \in Writing \ {"manifest"} =>
          manifest[writer[w].doc].state # "absent"

\* The last writer of a document, if it met no other, has its files to itself.
LatestInv(d) ==
    /\ latest[d] = NoWriter => Active(d) = {}
    /\ latest[d] # NoWriter => writer[latest[d]].pc # "idle"
    /\ latest[d] # NoWriter /\ writer[latest[d]].alone => AloneInv(d, latest[d])

\* The writer whose version a reader expects has returned.
ReaderInv(r) ==
    /\ reader[r].pc # "idle" => reader[r].doc \in Doc
    /\ LET w == reader[r].expects IN
       w # NoWriter => writer[w].pc = "returned" /\ writer[w].alone

IInv ==
    /\ TypeOK
    /\ DictionaryHasManifest
    /\ \A w \in Writer : WriterInv(w)
    /\ \A d \in Doc : LatestInv(d)
    /\ \A r \in Reader : ReaderInv(r)
    /\ ReadYourCommit

=============================================================================
