----------------------------- MODULE Execution -----------------------------
(***************************************************************************)
(* boundary.execute_request with the two templates of templates.py: jobs   *)
(* that run over the private state of one document and leave an artifact   *)
(* of their own, with one line of the audit file for each call.            *)
(*                                                                         *)
(* The calls run concurrently with each other and with commits of the      *)
(* document.  A step of a call ends where the code next touches a file.    *)
(*                                                                         *)
(* Texts are abstracted to the private values that occur in them in clear. *)
(* scrub_stream replaces the values it is given by their keys and raises   *)
(* when one of them is there afterwards: a replacement can bring back a    *)
(* value that reaches over the edge of a key or lies in the mask of a path *)
(* (the values of Reappears).                                              *)
(***************************************************************************)
EXTENDS AuditLog, Locators, FiniteSets

CONSTANTS
    Call,          \* invocations of execute_request
    NoCall,        \* no call, or the id of a line that names none
    Value,         \* private values
    Reappears,     \* those that a replacement brings back
    Escaped,       \* those that JSON writes otherwise (a quote, a newline)
    Version,       \* what the document may be committed as
    Requests,      \* the requests that may be made
    MayAsk,        \* MayAsk[c]: those that call c may make
    Document,      \* the opaque id of the document
    LongId,        \* the id of every artifact whose source has a long id
    AppendFaults   \* how an append that raises may leave the file

Template == {"summarise_private_minutes", "generate_letter_from_private_template"}
ExecutionScope == {"private_boundary", "ordinary_agent"}

\* A call through LocalFacade has no say in its scope.
Entrance == {"boundary", "facade"}

\* Which of the arguments tenant and vault_root the caller supplies.
Roots == {"tenant", "vault_root", "both", "neither"}

Refused == {"schema_invalid", "template_not_found", "scope_denied"}
ExecutionFailureReason ==
    Refused \cup {"artifact_missing", "template_raised", "scrub_failed",
                  "audit_write_failed"}

ArtifactId == Call \cup {LongId}

ASSUME ExecutionAssumption ==
    /\ Reappears \subseteq Value /\ Escaped \subseteq Value
    /\ NoCall \notin Call /\ LongId \notin Call \cup {NoCall}
    /\ AppendFaults \subseteq AppendFault
    /\ Document \in OpaqueId
    /\ MayAsk \in [Call -> SUBSET Requests]
    /\ \A v \in Version : /\ v.entries \subseteq Value
                          /\ v.clear \subseteq Value \ v.entries
    /\ \A r \in Requests :
          /\ r.typed \in BOOLEAN /\ r.long \in BOOLEAN
          /\ r.body.given \in BOOLEAN  \* the template_body of a letter
          /\ r.body.keys \subseteq Value /\ r.body.clear \subseteq Value
          /\ r.entrance \in Entrance /\ r.roots \in Roots
          /\ r.scope \in ExecutionScope
          /\ r.mentions \subseteq Value  \* in the purpose
          /\ r.chance \subseteq Value \ Escaped  \* in the id, the time, the field names
          /\ r.printed \subseteq Value  \* in what the template prints

VARIABLES
    request,   \* request[c]: what call c asks
    pc,        \* pc[c]: where call c is
    held,      \* held[c]: the private values call c has resolved
    content,   \* content[c]: the values in clear in the text it commits
    response,  \* response[c]: what call c answers
    audit,     \* the audit file
    source,    \* the two files of the document
    artifact   \* artifact[i]: the two files of a template's output

vars == <<request, pc, held, content, response, audit, source, artifact>>

-----------------------------------------------------------------------------

NoVersion == [entries |-> {}, clear |-> {}]
FileOf(state) == [state |-> state, version |-> NoVersion]
Whole(v) == [state |-> "whole", version |-> v]

NoArtifact == [state |-> "none", by |-> NoCall, clear |-> {}]

NoResponse == [status |-> "none", reason |-> "none", artifacts |-> {}]
Failed(why) == [status |-> "failed", reason |-> why, artifacts |-> {}]
Accepted(id) == [status |-> "accepted", reason |-> "none", artifacts |-> {id}]

Init ==
    /\ request \in [Call -> Requests]
    /\ \A c \in Call : request[c] \in MayAsk[c]
    /\ pc = [c \in Call |-> "ready"]
    /\ held = [c \in Call |-> {}]
    /\ content = [c \in Call |-> {}]
    /\ response = [c \in Call |-> NoResponse]
    /\ audit = EmptyFile
    /\ source = [manifest |-> FileOf("absent"), private |-> FileOf("absent"),
                 stage |-> "idle"]
    /\ artifact = [i \in ArtifactId |-> NoArtifact]

-----------------------------------------------------------------------------
\* scrub_stream, and the gates before the template

ScrubFails(occurring, entries) == occurring \cap entries \cap Reappears # {}
Scrubbed(occurring, entries) == occurring \ entries

Scope(r) == IF r.entrance = "facade" THEN "ordinary_agent" ELSE r.scope

Target(r) == parse_locator(r.target)

\* Both templates have min_scope PRIVATE_BOUNDARY and need a locator.
Refusal(r) ==
    IF ~r.typed                          THEN "schema_invalid"
    ELSE IF r.job \notin Template        THEN "template_not_found"
    ELSE IF Scope(r) # "private_boundary" THEN "scope_denied"
    ELSE IF Target(r).artifact_kind # "manifest" THEN "schema_invalid"
    ELSE "none"

\* _new_artifact_id cuts the id at 128 characters: nothing that is unique to
\* the call is left in it when the id of the source is long.
OutputOf(c) == IF request[c].long THEN LongId ELSE c

-----------------------------------------------------------------------------
\* write_record

\* The held values that the scrubber finds in the serialised record.
Found(c) ==
    held[c] \cap (request[c].chance \cup (request[c].mentions \ Escaped))

\* A value found in the id, the time or a field name is replaced there too:
\* the line no longer is a record of the call.
Line(c, outcome) ==
    [id |-> IF request[c].chance \cap held[c] = {} THEN c ELSE NoCall,
     outcome |-> outcome,
     artifacts |-> IF outcome = "success" THEN {OutputOf(c)} ELSE {},
     clear |-> Scrubbed(request[c].mentions, Found(c))]

Settle(c, answer) ==
    /\ pc' = [pc EXCEPT ![c] = "recorded"]
    /\ response' = [response EXCEPT ![c] = answer]

\* The record of call c is appended, or AuditError or OSError is answered.
Record(c, line, answer) ==
    IF ScrubFails(Found(c), held[c])
      THEN Settle(c, Failed("audit_write_failed")) /\ UNCHANGED audit
      ELSE \/ Settle(c, answer) /\ audit' = Appended(audit, line)
           \/ /\ Settle(c, Failed("audit_write_failed"))
              /\ \E fault \in AppendFaults : audit' = AfterFault(audit, line, fault)

-----------------------------------------------------------------------------
\* The steps of a call

\* The arguments that name the vault are checked before anything else, and a
\* wrong combination is a programmer's error: ResolverError, no record.
Raise(c) ==
    /\ pc[c] = "ready"
    /\ request[c].roots \in {"both", "neither"}
    /\ pc' = [pc EXCEPT ![c] = "raised"]
    /\ UNCHANGED <<request, held, content, response, audit, source, artifact>>

Begun(c) == pc[c] = "ready" /\ request[c].roots \in {"tenant", "vault_root"}

\* Steps 1 to 5.
Refuse(c) ==
    /\ Begun(c)
    /\ Refusal(request[c]) # "none"
    /\ LET why == Refusal(request[c]) IN Record(c, Line(c, why), Failed(why))
    /\ UNCHANGED <<request, held, content, source, artifact>>

\* A bug: the target is resolved before the scope is looked at.
ResolveUnscoped(c) ==
    /\ Begun(c)
    /\ Refusal(request[c]) \in {"none", "scope_denied"}
    /\ source.private.state = "whole"
    /\ held' = [held EXCEPT ![c] = source.private.version.entries]
    /\ pc' = [pc EXCEPT ![c] = "resolved"]
    /\ UNCHANGED <<request, content, response, audit, source, artifact>>

\* Step 6: resolve finds the manifest and reads the private dictionary.  The
\* files of a document are never removed, so the order of the two is one step.
Resolve(c) ==
    /\ Begun(c)
    /\ Refusal(request[c]) = "none"
    /\ Target(request[c]).opaque_id = Document
    /\ source.manifest.state # "absent"
    /\ source.private.state = "whole"
    /\ held' = [held EXCEPT ![c] = source.private.version.entries]
    /\ pc' = [pc EXCEPT ![c] = "resolved"]
    /\ UNCHANGED <<request, content, response, audit, source, artifact>>

\* A bug: a dictionary that does not parse is read again.
ResolveFailsUnlessTorn(c) ==
    /\ Begun(c)
    /\ Refusal(request[c]) = "none"
    /\ \/ Target(request[c]).opaque_id # Document
       \/ source.manifest.state = "absent"
       \/ source.private.state = "absent"
    /\ pc' = [pc EXCEPT ![c] = "artifact_missing"]
    /\ UNCHANGED <<request, held, content, response, audit, source, artifact>>

\* No such document, no dictionary, or one that cannot be read or parsed.
ResolveFails(c) ==
    /\ Begun(c)
    /\ Refusal(request[c]) = "none"
    /\ pc' = [pc EXCEPT ![c] = "artifact_missing"]
    /\ UNCHANGED <<request, held, content, response, audit, source, artifact>>

\* Step 7, summarise_private_minutes: the manifest is read once more.
Summarise(c) ==
    /\ pc[c] = "resolved"
    /\ request[c].job = "summarise_private_minutes"
    /\ source.manifest.state = "whole"
    /\ content' = [content EXCEPT ![c] = source.manifest.version.clear]
    /\ pc' = [pc EXCEPT ![c] = "commit"]
    /\ UNCHANGED <<request, held, response, audit, source, artifact>>

\* The keys of the body that the dictionary has are replaced by their values.
Rendered(c) == (request[c].body.keys \cap held[c]) \cup request[c].body.clear

\* A bug: the rendered letter is committed as it is.
RenderInClear(c) ==
    /\ pc[c] = "resolved"
    /\ request[c].job = "generate_letter_from_private_template"
    /\ request[c].body.given
    /\ content' = [content EXCEPT ![c] = Rendered(c)]
    /\ pc' = [pc EXCEPT ![c] = "commit"]
    /\ UNCHANGED <<request, held, response, audit, source, artifact>>

\* Step 7, generate_letter_from_private_template: the letter is rendered with
\* the values and scrubbed again.
Render(c) ==
    /\ pc[c] = "resolved"
    /\ request[c].job = "generate_letter_from_private_template"
    /\ request[c].body.given
    /\ ~ScrubFails(Rendered(c), held[c])
    /\ content' = [content EXCEPT ![c] = Scrubbed(Rendered(c), held[c])]
    /\ pc' = [pc EXCEPT ![c] = "commit"]
    /\ UNCHANGED <<request, held, response, audit, source, artifact>>

\* A bug: the failure is named after the exception.
TemplateRaisesByName(c) ==
    /\ pc[c] = "resolved"
    /\ \/ request[c].job = "summarise_private_minutes"
       \/ ~request[c].body.given
       \/ ScrubFails(Rendered(c), held[c])
    /\ pc' = [pc EXCEPT ![c] = "value_error"]
    /\ UNCHANGED <<request, held, content, response, audit, source, artifact>>

\* The template raises: a manifest it cannot read, no body, ScrubError.
TemplateRaises(c) ==
    /\ pc[c] = "resolved"
    /\ \/ request[c].job = "summarise_private_minutes"
       \/ ~request[c].body.given
       \/ ScrubFails(Rendered(c), held[c])
    /\ pc' = [pc EXCEPT ![c] = "template_raised"]
    /\ UNCHANGED <<request, held, content, response, audit, source, artifact>>

\* The template's own process_document: the output's manifest is begun ...
BeginOutput(c) ==
    /\ pc[c] = "commit"
    /\ artifact' = [artifact EXCEPT ![OutputOf(c)] =
                      [state |-> "partial", by |-> c, clear |-> content[c]]]
    /\ pc' = [pc EXCEPT ![c] = "committing"]
    /\ UNCHANGED <<request, held, content, response, audit, source>>

\* A bug: the template goes on after its commit and may raise.
EndOutputMayRaise(c) ==
    /\ pc[c] = "committing"
    /\ artifact' = [artifact EXCEPT ![OutputOf(c)] =
                      [state |-> "whole", by |-> c, clear |-> content[c]]]
    /\ \E next \in {"ran", "template_raised"} : pc' = [pc EXCEPT ![c] = next]
    /\ UNCHANGED <<request, held, content, response, audit, source>>

\* ... and its dictionary filled.
EndOutput(c) ==
    /\ pc[c] = "committing"
    /\ artifact' = [artifact EXCEPT ![OutputOf(c)] =
                      [state |-> "whole", by |-> c, clear |-> content[c]]]
    /\ pc' = [pc EXCEPT ![c] = "ran"]
    /\ UNCHANGED <<request, held, content, response, audit, source>>

\* A bug: an output that could not be written is handed on.
OutputFailsUnnoticed(c) ==
    /\ pc[c] \in {"commit", "committing"}
    /\ pc' = [pc EXCEPT ![c] = "ran"]
    /\ UNCHANGED <<request, held, content, response, audit, source, artifact>>

\* OSError in it: the template raises, and what was written stays.
OutputFails(c) ==
    /\ pc[c] \in {"commit", "committing"}
    /\ pc' = [pc EXCEPT ![c] = "template_raised"]
    /\ UNCHANGED <<request, held, content, response, audit, source, artifact>>

\* The one record of a call that failed after the gates.
RecordFailure(c) ==
    /\ pc[c] \in {"artifact_missing", "template_raised"}
    /\ Record(c, Line(c, pc[c]), Failed(pc[c]))
    /\ UNCHANGED <<request, held, content, source, artifact>>

\* Step 8: what the template printed does not scrub clean.
RecordScrubFailed(c) ==
    /\ pc[c] = "ran"
    /\ ScrubFails(request[c].printed, held[c])
    /\ Record(c, Line(c, "scrub_failed"), Failed("scrub_failed"))
    /\ UNCHANGED <<request, held, content, source, artifact>>

\* A bug: the artifact is handed out although its record could not be written.
RecordSuccessBestEffort(c) ==
    /\ pc[c] = "ran"
    /\ Settle(c, Accepted(OutputOf(c)))
    /\ \/ audit' = Appended(audit, Line(c, "success"))
       \/ \E fault \in AppendFaults :
             audit' = AfterFault(audit, Line(c, "success"), fault)
    /\ UNCHANGED <<request, held, content, source, artifact>>

\* Step 9: the record of success comes before the answer.
RecordSuccess(c) ==
    /\ pc[c] = "ran"
    /\ ~ScrubFails(request[c].printed, held[c])
    /\ Record(c, Line(c, "success"), Accepted(OutputOf(c)))
    /\ UNCHANGED <<request, held, content, source, artifact>>

Answer(c) ==
    /\ pc[c] = "recorded"
    /\ pc' = [pc EXCEPT ![c] = "answered"]
    /\ UNCHANGED <<request, held, content, response, audit, source, artifact>>

\* The process of a call that has begun dies.
Crash(c) ==
    /\ pc[c] \notin {"ready", "raised", "answered", "crashed"}
    /\ pc' = [pc EXCEPT ![c] = "crashed"]
    /\ UNCHANGED <<request, held, content, response, audit, source, artifact>>

-----------------------------------------------------------------------------
\* The commits of the document.  A file is truncated and then filled; the
\* truncated manifest is left out, because all that a template makes of one is
\* to raise, as it may for an OSError at any time.

UnchangedCalls == UNCHANGED <<request, pc, held, content, response, audit, artifact>>

\* Whoever was committing before has ended, or died where it was.
CommitManifest ==
    /\ \E v \in Version :
          source' = [source EXCEPT !.manifest = Whole(v), !.stage = "private"]
    /\ UnchangedCalls

OpenPrivate ==
    /\ source.stage = "private"
    /\ source' = [source EXCEPT !.private = FileOf("torn"), !.stage = "fill_private"]
    /\ UnchangedCalls

FillPrivate ==
    /\ source.stage = "fill_private"
    /\ source' = [source EXCEPT !.private = source.manifest, !.stage = "idle"]
    /\ UnchangedCalls

-----------------------------------------------------------------------------

Step(c) ==
    \/ Raise(c)
    \/ Refuse(c)
    \/ Resolve(c)
    \/ ResolveFails(c)
    \/ Summarise(c)
    \/ Render(c)
    \/ TemplateRaises(c)
    \/ BeginOutput(c)
    \/ EndOutput(c)
    \/ OutputFails(c)
    \/ RecordFailure(c)
    \/ RecordScrubFailed(c)
    \/ RecordSuccess(c)
    \/ Answer(c)

Next ==
    \/ \E c \in Call : Step(c) \/ Crash(c)
    \/ CommitManifest
    \/ OpenPrivate
    \/ FillPrivate

\* A call is a synchronous function: its process keeps running it, or dies.
Fairness == \A c \in Call : WF_vars(Step(c))

Spec == Init /\ [][Next]_vars /\ Fairness

-----------------------------------------------------------------------------
\* Properties

Outcome == {"success"} \cup (ExecutionFailureReason \ {"audit_write_failed"})

RecordLine ==
    [id: Call \cup {NoCall}, outcome: Outcome, artifacts: SUBSET ArtifactId,
     clear: SUBSET Value]

SourceFile ==
    [state: {"absent", "torn", "whole"}, version: Version \cup {NoVersion}]

\* Every variable keeps the shape the code gives it.
TypeOK ==
    /\ request \in [Call -> Requests]
    /\ pc \in [Call -> {"ready", "raised", "resolved", "commit", "committing",
                        "ran", "artifact_missing", "template_raised",
                        "recorded", "answered", "crashed"}]
    /\ held \in [Call -> SUBSET Value]
    /\ content \in [Call -> SUBSET Value]
    /\ response \in [Call -> [status: {"none", "accepted", "failed"},
                              reason: ExecutionFailureReason \cup {"none"},
                              artifacts: SUBSET ArtifactId]]
    /\ audit \in [lines: Seq(RecordLine \cup {Garbled}), open: BOOLEAN]
    /\ audit.open => audit.lines # << >>
    /\ source \in [manifest: SourceFile, private: SourceFile,
                   stage: {"idle", "private", "fill_private"}]
    /\ artifact \in [ArtifactId -> [state: {"none", "partial", "whole"},
                                    by: Call \cup {NoCall},
                                    clear: SUBSET Value]]

LinesOf(c) ==
    {i \in DOMAIN audit.lines : audit.lines[i] # Garbled /\ audit.lines[i].id = c}

ASSUME GarbledAssumption == Garbled \notin RecordLine

\* read_records: a line that is not JSON makes it raise ValueError, and one
\* that is JSON and no record is skipped.
ReadRaises == \E i \in DOMAIN audit.lines : audit.lines[i] = Garbled
read_records == {i \in DOMAIN audit.lines : audit.lines[i].id # NoCall}

\* The log can be read, and no value of the dictionary occurs by chance in the
\* fields that the code generates.
Legible(c) == ~ReadRaises /\ request[c].chance \cap held[c] = {}

\* Only a call of the private boundary, for a template of the registry, ever
\* sees a private value or leaves an artifact: never one through the facade.
Entitled(c) ==
    /\ request[c].typed /\ request[c].job \in Template
    /\ request[c].entrance = "boundary"
    /\ request[c].scope = "private_boundary"
    /\ request[c].roots \in {"tenant", "vault_root"}

Privileged(c) ==
    held[c] # {} \/ (\E i \in ArtifactId : artifact[i].by = c) => Entitled(c)

GatesFirst == \A c \in Call : Privileged(c)

\* What an answer says is what the one record of its call says, where the log
\* can be read back, and the record is there before the answer; a call that
\* could not be recorded is told so and gets nothing.
Recorded(c) ==
    IF response[c].reason = "audit_write_failed"
      THEN response[c].artifacts = {} /\ Cardinality(LinesOf(c)) <= 1
      ELSE \E i \in read_records :
              /\ LinesOf(c) = {i}
              /\ audit.lines[i].artifacts = response[c].artifacts
              /\ IF response[c].status = "accepted"
                   THEN audit.lines[i].outcome = "success"
                   ELSE audit.lines[i].outcome = response[c].reason

AnswerOnRecord ==
    \A c \in Call : pc[c] = "answered" /\ Legible(c) => Recorded(c)

\* A record shows no value its call has resolved, whatever the purpose of the
\* request mentions and whichever way the call ends, but for the values that
\* JSON writes otherwise than the dictionary.
RecordsRedacted ==
    \A c \in Call : \A i \in LinesOf(c) :
        audit.lines[i].clear \cap held[c] \subseteq Escaped

\* A letter shows no value its call has resolved, not even one that the caller
\* wrote in the body, and not while it is being written.
LetterRedacted ==
    \A i \in ArtifactId :
        LET c == artifact[i].by IN
        c # NoCall /\ request[c].job = "generate_letter_from_private_template"
            => artifact[i].clear \cap held[c] = {}

\* What leaves the private boundary, on record or as a letter, is redacted.
OutputRedacted == RecordsRedacted /\ LetterRedacted

\* The artifact of an accepted call is whole, and is still the call's own when
\* its id had room for what makes it unique.
AcceptedIsDurable ==
    \A c \in Call : response[c].status = "accepted" =>
        /\ \A i \in response[c].artifacts : artifact[i].state = "whole" \/ i = LongId
        /\ ~request[c].long => artifact[c].state = "whole" /\ artifact[c].by = c

\* An artifact that no answer names has a reason: its call is still running or
\* has died, or could not be written, scrubbed or recorded.
OrphanHasReason ==
    \A c \in Call : artifact[c].by = c /\ pc[c] = "answered" =>
        \/ c \in response[c].artifacts
        \/ response[c].reason \in {"audit_write_failed", "scrub_failed"}
        \/ response[c].reason = "template_raised" /\ artifact[c].state = "partial"

\* Every call whose process lives is answered or raises, whatever state the
\* commits leave the document in and whatever fails.
EveryExecutionEnds ==
    \A c \in Call : <>(pc[c] \in {"raised", "answered", "crashed"})

-----------------------------------------------------------------------------
\* The inductive invariant

\* The calls that have written no record yet, and those that have an answer.
Unrecorded ==
    {"ready", "raised", "resolved", "commit", "committing", "ran",
     "artifact_missing", "template_raised"}
Settled == {"recorded", "answered"}

\* A call passes the gates before it resolves anything, and resolves before it
\* writes anything; its letter is scrubbed before it is committed.
CallInv(c) ==
    /\ pc[c] \in {"ready", "raised"} => held[c] = {}
    /\ pc[c] \in {"resolved", "commit", "committing", "ran"} \/ held[c] # {} =>
          Entitled(c)
    /\ pc[c] \in {"commit", "committing"}
          /\ request[c].job = "generate_letter_from_private_template" =>
             content[c] \cap held[c] = {}
    /\ pc[c] \in Unrecorded => response[c] = NoResponse /\ LinesOf(c) = {}
    /\ pc[c] \in Settled /\ Legible(c) => Recorded(c)
    /\ response[c].status = "accepted" => response[c].artifacts = {OutputOf(c)}

\* What stands under an id was written by a call whose output has that id.
ArtifactInv(i) ==
    LET c == artifact[i].by IN
    c # NoCall =>
        /\ OutputOf(c) = i
        /\ Entitled(c)
        /\ pc[c] \in {"committing", "ran", "template_raised", "recorded",
                      "answered", "crashed"}

\* How far a call is with an output that nobody else writes.
OutputInv(c) ==
    /\ pc[c] = "ran" /\ ~request[c].long =>
          artifact[c].by = c /\ artifact[c].state = "whole"
    /\ artifact[c].by = c /\ pc[c] \in {"committing", "template_raised"} =>
          artifact[c].state = "partial"
    /\ artifact[c].by = c /\ pc[c] \in Settled =>
          \/ c \in response[c].artifacts
          \/ response[c].reason \in {"audit_write_failed", "scrub_failed"}
          \/ response[c].reason = "template_raised" /\ artifact[c].state = "partial"

IInv ==
    /\ TypeOK
    /\ TornTail(audit)
    /\ \A c \in Call : CallInv(c) /\ OutputInv(c)
    /\ \A i \in ArtifactId : ArtifactInv(i)
    /\ OutputRedacted
    /\ AcceptedIsDurable

-----------------------------------------------------------------------------
\* What the documentation says and the code does not do

\* "Collisions across repeated invocations are vanishingly unlikely": what an
\* accepted call committed stays what its handle names.
AcceptedKeepsOutput ==
    \A c \in Call : response[c].status = "accepted" =>
        \A i \in response[c].artifacts : artifact[i].by = c

=============================================================================
