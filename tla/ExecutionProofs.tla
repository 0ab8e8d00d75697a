-------------------------- MODULE ExecutionProofs --------------------------
(***************************************************************************)
(* Proofs about Execution, for any calls, requests, values and versions,   *)
(* and any faults of the audit file.                                       *)
(***************************************************************************)
EXTENDS Execution, AuditLogProofs, FiniteSetTheorems

Response ==
    [status: {"none", "accepted", "failed"},
     reason: ExecutionFailureReason \cup {"none"},
     artifacts: SUBSET ArtifactId]

-----------------------------------------------------------------------------
\* The record of a call

\* The record names its call unless a value occurs in what the code generates,
\* and shows none of the values the call holds, but for the escaped.
LEMMA LineOfCall ==
    ASSUME TypeOK, NEW c \in Call, NEW outcome \in Outcome
    PROVE  /\ Line(c, outcome) \in RecordLine
           /\ Line(c, outcome).id \in {c, NoCall}
           /\ request[c].chance \cap held[c] = {} => Line(c, outcome).id = c
           /\ Line(c, outcome).outcome = outcome
           /\ Line(c, outcome).artifacts =
                 IF outcome = "success" THEN {OutputOf(c)} ELSE {}
           /\ Line(c, outcome).clear \cap held[c] \subseteq Escaped
<1>1. request[c].mentions \subseteq Value
  BY ExecutionAssumption DEF TypeOK
<1>2. OutputOf(c) \in ArtifactId
  BY DEF OutputOf, ArtifactId
<1> QED
  BY <1>1, <1>2 DEF Line, RecordLine, Scrubbed, Found

\* What can become of the file and of the answer when a record is written.
LEMMA RecordStep ==
    ASSUME TypeOK, TornTail(audit), NEW c \in Call, NEW line \in RecordLine,
           NEW answer \in Response, Record(c, line, answer)
    PROVE  /\ audit' \in FileOver(RecordLine)
           /\ audit'.open => audit'.lines # << >>
           /\ pc' = [pc EXCEPT ![c] = "recorded"]
           /\ \/ /\ response' = [response EXCEPT ![c] = answer]
                 /\ audit' = Appended(audit, line)
              \/ /\ response' = [response EXCEPT ![c] = Failed("audit_write_failed")]
                 /\ \/ audit' = audit
                    \/ \E fault \in AppendFault : audit' = AfterFault(audit, line, fault)
<1>1. audit \in FileOver(RecordLine) /\ (audit.open => audit.lines # << >>)
  BY DEF TypeOK, FileOver
<1>2. \A fault \in AppendFaults : fault \in AppendFault
  BY ExecutionAssumption
<1>3. /\ pc' = [pc EXCEPT ![c] = "recorded"]
      /\ \/ /\ response' = [response EXCEPT ![c] = answer]
            /\ audit' = Appended(audit, line)
         \/ /\ response' = [response EXCEPT ![c] = Failed("audit_write_failed")]
            /\ \/ audit' = audit
               \/ \E fault \in AppendFault : audit' = AfterFault(audit, line, fault)
  BY <1>2 DEF Record, Settle
<1> QED
  BY <1>1, <1>3, AppendedFile, AfterFaultFile

\* A file that a write leaves readable could be read before, and had no
\* unfinished line; the records that were there are there, and at most the
\* line is new, for the call it names.
LEMMA WritesLines ==
    ASSUME TypeOK, TornTail(audit), NEW line \in RecordLine,
           \/ audit' = audit
           \/ audit' = Appended(audit, line)
           \/ \E fault \in AppendFault : audit' = AfterFault(audit, line, fault)
    PROVE  /\ TornTail(audit')
           /\ ~ReadRaises' => ~ReadRaises /\ ~audit.open
           /\ \A c \in Call : \A i \in LinesOf(c) :
                 i \in LinesOf(c)' /\ audit'.lines[i] = audit.lines[i]
           /\ \A c \in Call : \A i \in LinesOf(c)' :
                 \/ i \in LinesOf(c)
                 \/ /\ i = Len(audit.lines) + 1
                    /\ audit'.lines[i] = line /\ line.id = c
<1>1. audit \in FileOver(RecordLine)
  BY DEF TypeOK, FileOver
<1>2. /\ Keeps(audit, audit') /\ TornTail(audit')
      /\ \A i \in DOMAIN audit'.lines :
            \/ i \in DOMAIN audit.lines
            \/ i = Len(audit.lines) + 1 /\ audit'.lines[i] \in {line, Garbled}
  <2>1. CASE audit' = audit
    BY <2>1 DEF Keeps
  <2>2. CASE audit' # audit
    BY <1>1, <2>2, WritesKeep
  <2> QED
    BY <2>1, <2>2
<1>3. audit.open => ReadRaises
  <2>1. audit.open => Len(audit.lines) \in DOMAIN audit.lines
    BY <1>1 DEF TornTail, FileOver
  <2> QED
    BY <2>1 DEF TornTail, ReadRaises
<1> QED
  BY <1>2, <1>3 DEF Keeps, ReadRaises, LinesOf

-----------------------------------------------------------------------------
\* The type invariant

\* The three answers there are have an answer's shape.
LEMMA AnswersTyped ==
    /\ NoResponse \in Response
    /\ \A why \in ExecutionFailureReason : Failed(why) \in Response
    /\ \A id \in ArtifactId : Accepted(id) \in Response
BY DEF NoResponse, Failed, Accepted, Response

\* The shapes hold before any call.
LEMMA InitTypeOK == Init => TypeOK
<1> SUFFICES ASSUME Init PROVE TypeOK
  OBVIOUS
<1>1. EmptyFile \in [lines: Seq(RecordLine \cup {Garbled}), open: BOOLEAN] /\ ~EmptyFile.open
  BY EmptySeq DEF EmptyFile
<1>2. FileOf("absent") \in SourceFile
  BY DEF FileOf, SourceFile
<1>3. NoArtifact \in [state: {"none", "partial", "whole"}, by: Call \cup {NoCall},
                     clear: SUBSET Value]
  BY DEF NoArtifact
<1> QED
  BY <1>1, <1>2, <1>3, AnswersTyped DEF Init, TypeOK, Response

\* The record of a call that has an outcome and an answer.
LEMMA RecordTypeOK ==
    ASSUME TypeOK, TornTail(audit), NEW c \in Call, NEW outcome \in Outcome,
           NEW answer \in Response, Record(c, Line(c, outcome), answer),
           UNCHANGED <<request, held, content, source, artifact>>
    PROVE  TypeOK'
<1>1. Line(c, outcome) \in RecordLine
  BY LineOfCall
<1>2. Failed("audit_write_failed") \in Response
  BY AnswersTyped DEF ExecutionFailureReason
<1>3. response' \in [Call -> Response] /\ pc' = [pc EXCEPT ![c] = "recorded"]
  <2>1. response \in [Call -> Response]
    BY DEF TypeOK, Response
  <2>2. /\ pc' = [pc EXCEPT ![c] = "recorded"]
        /\ \/ response' = [response EXCEPT ![c] = answer]
           \/ response' = [response EXCEPT ![c] = Failed("audit_write_failed")]
    BY <1>1, RecordStep
  <2> QED
    BY <1>2, <2>1, <2>2
<1>4. audit' \in FileOver(RecordLine) /\ (audit'.open => audit'.lines # << >>)
  BY <1>1, RecordStep
<1> QED
  BY <1>3, <1>4 DEF TypeOK, Response, FileOver

\* What a call resolves, reads or writes are private values.
LEMMA ValuesTyped ==
    ASSUME TypeOK, NEW c \in Call
    PROVE  /\ source.private.version.entries \subseteq Value
           /\ source.manifest.version.clear \subseteq Value
           /\ Scrubbed(Rendered(c), held[c]) \subseteq Value
           /\ OutputOf(c) \in ArtifactId
           /\ Refusal(request[c]) \in Refused \cup {"none"}
<1>1. \A v \in Version \cup {NoVersion} : v.entries \subseteq Value /\ v.clear \subseteq Value
  BY ExecutionAssumption DEF NoVersion
<1>2. source.private.version \in Version \cup {NoVersion}
      /\ source.manifest.version \in Version \cup {NoVersion}
  BY DEF TypeOK, SourceFile
<1>3. Rendered(c) \subseteq Value
  <2>1. request[c].body.keys \subseteq Value /\ request[c].body.clear \subseteq Value
    BY ExecutionAssumption DEF TypeOK
  <2> QED
    BY <2>1 DEF Rendered
<1>4. OutputOf(c) \in ArtifactId
  BY DEF OutputOf, ArtifactId
<1>5. Refusal(request[c]) \in Refused \cup {"none"}
  BY DEF Refusal, Refused
<1> QED
  BY <1>1, <1>2, <1>3, <1>4, <1>5 DEF Scrubbed

\* The commits of the document keep the shapes.
LEMMA CommitTypeOK == TypeOK /\ (CommitManifest \/ OpenPrivate \/ FillPrivate) => TypeOK'
<1> SUFFICES ASSUME TypeOK, CommitManifest \/ OpenPrivate \/ FillPrivate PROVE TypeOK'
  OBVIOUS
<1>1. source' \in [manifest: SourceFile, private: SourceFile,
                  stage: {"idle", "private", "fill_private"}]
  <2> DEFINE Files == [manifest: SourceFile, private: SourceFile,
                       stage: {"idle", "private", "fill_private"}]
  <2>1. source \in Files
    BY DEF TypeOK
  <2>2. ASSUME NEW v \in Version,
               source' = [source EXCEPT !.manifest = Whole(v), !.stage = "private"]
        PROVE  source' \in Files
    <3> DEFINE s == [source EXCEPT !.manifest = Whole(v)]
    <3>1. Whole(v) \in SourceFile
      BY DEF Whole, SourceFile
    <3>2. s \in Files
      BY <2>1, <3>1
    <3>3. source' = [s EXCEPT !.stage = "private"]
      BY <2>2
    <3> HIDE DEF s
    <3> QED
      BY <3>2, <3>3
  <2>3. CASE OpenPrivate
    <3> DEFINE s == [source EXCEPT !.private = FileOf("torn")]
    <3>1. FileOf("torn") \in SourceFile
      BY DEF FileOf, SourceFile
    <3>2. s \in Files
      BY <2>1, <3>1
    <3>3. source' = [s EXCEPT !.stage = "fill_private"]
      BY <2>3 DEF OpenPrivate
    <3> HIDE DEF s
    <3> QED
      BY <3>2, <3>3
  <2>4. CASE FillPrivate
    <3> DEFINE s == [source EXCEPT !.private = source.manifest]
    <3>1. s \in Files
      BY <2>1
    <3>2. source' = [s EXCEPT !.stage = "idle"]
      BY <2>4 DEF FillPrivate
    <3> HIDE DEF s
    <3> QED
      BY <3>1, <3>2
  <2> QED
    BY <2>2, <2>3, <2>4 DEF CommitManifest
<1>2. UnchangedCalls
  BY DEF CommitManifest, OpenPrivate, FillPrivate
<1> QED
  BY <1>1, <1>2 DEF TypeOK, UnchangedCalls

\* So does every step of a call, and its death.
LEMMA StepTypeOK ==
    ASSUME TypeOK, TornTail(audit), NEW c \in Call, Step(c) \/ Crash(c)
    PROVE  TypeOK'
<1>1. CASE Raise(c)
  BY <1>1 DEF Raise, TypeOK
<1>2. CASE Refuse(c)
  <2> DEFINE why == Refusal(request[c])
  <2>1. why \in Outcome /\ Failed(why) \in Response
    BY <1>2, ValuesTyped, AnswersTyped
       DEF Refuse, Refused, Outcome, ExecutionFailureReason
  <2>2. Record(c, Line(c, why), Failed(why))
        /\ UNCHANGED <<request, held, content, source, artifact>>
    BY <1>2 DEF Refuse
  <2> HIDE DEF why
  <2> QED
    BY <2>1, <2>2, RecordTypeOK
<1>3. CASE Resolve(c)
  BY <1>3, ValuesTyped DEF Resolve, TypeOK
<1>4. CASE ResolveFails(c)
  BY <1>4 DEF ResolveFails, TypeOK
<1>5. CASE Summarise(c)
  BY <1>5, ValuesTyped DEF Summarise, TypeOK
<1>6. CASE Render(c)
  BY <1>6, ValuesTyped DEF Render, TypeOK
<1>7. CASE TemplateRaises(c)
  BY <1>7 DEF TemplateRaises, TypeOK
<1>8. CASE BeginOutput(c)
  BY <1>8, ValuesTyped DEF BeginOutput, TypeOK
<1>9. CASE EndOutput(c)
  BY <1>9, ValuesTyped DEF EndOutput, TypeOK
<1>10. CASE OutputFails(c)
  BY <1>10 DEF OutputFails, TypeOK
<1>11. CASE RecordFailure(c)
  <2> DEFINE why == pc[c]
  <2>1. why \in Outcome /\ Failed(why) \in Response
    BY <1>11, AnswersTyped DEF RecordFailure, Outcome, ExecutionFailureReason
  <2>2. Record(c, Line(c, why), Failed(why))
        /\ UNCHANGED <<request, held, content, source, artifact>>
    BY <1>11 DEF RecordFailure
  <2> HIDE DEF why
  <2> QED
    BY <2>1, <2>2, RecordTypeOK
<1>12. CASE RecordScrubFailed(c)
  <2>1. "scrub_failed" \in Outcome /\ Failed("scrub_failed") \in Response
    BY AnswersTyped DEF Outcome, ExecutionFailureReason
  <2> QED
    BY <1>12, <2>1, RecordTypeOK DEF RecordScrubFailed
<1>13. CASE RecordSuccess(c)
  <2>1. "success" \in Outcome /\ Accepted(OutputOf(c)) \in Response
    BY ValuesTyped, AnswersTyped DEF Outcome
  <2> QED
    BY <1>13, <2>1, RecordTypeOK DEF RecordSuccess
<1>14. CASE Answer(c)
  BY <1>14 DEF Answer, TypeOK
<1>15. CASE Crash(c)
  BY <1>15 DEF Crash, TypeOK
<1> QED
  BY <1>1, <1>2, <1>3, <1>4, <1>5, <1>6, <1>7, <1>8, <1>9, <1>10, <1>11, <1>12,
     <1>13, <1>14, <1>15 DEF Step

-----------------------------------------------------------------------------
\* The inductive invariant: steps that leave the log alone

\* A call that a step leaves alone, and whose records it leaves alone, keeps
\* its invariant.
LEMMA CallFrame ==
    ASSUME NEW d \in Call, CallInv(d), request' = request,
           pc'[d] = pc[d], held'[d] = held[d], content'[d] = content[d],
           response'[d] = response[d], LinesOf(d)' = LinesOf(d),
           \A i \in LinesOf(d) : audit'.lines[i] = audit.lines[i],
           ~ReadRaises' => ~ReadRaises
    PROVE  CallInv(d)'
<1>1. Recorded(d) => Recorded(d)'
  <2>1. \A i \in LinesOf(d) : i \in read_records => i \in read_records'
    BY DEF read_records, LinesOf
  <2> QED
    BY <2>1 DEF Recorded
<1>2. Legible(d)' => Legible(d)
  BY DEF Legible
<1>3. (Entitled(d) => Entitled(d)') /\ OutputOf(d)' = OutputOf(d)
  BY DEF Entitled, OutputOf
<1> QED
  BY <1>1, <1>2, <1>3 DEF CallInv

\* A call whose position, answer and artifact stay keeps what is said of them.
LEMMA OutputFrame ==
    ASSUME NEW d \in Call, OutputInv(d), request' = request,
           pc'[d] = pc[d], response'[d] = response[d], artifact'[d] = artifact[d]
    PROVE  OutputInv(d)'
BY DEF OutputInv

\* The log is read as before when it is the same.
LEMMA SameLog ==
    ASSUME audit' = audit
    PROVE  /\ \A c \in Call : LinesOf(c)' = LinesOf(c)
           /\ ReadRaises' = ReadRaises /\ TornTail(audit')  = TornTail(audit)
           /\ read_records' = read_records
BY DEF LinesOf, ReadRaises, TornTail, read_records

\* The states of a call under whose name something may stand in the vault.
Writes == {"committing", "ran", "template_raised", "recorded", "answered", "crashed"}

\* A step of a call that touches neither the log nor the vault: it keeps the
\* values it holds, or is about to resolve them.
LEMMA QuietStep ==
    ASSUME IInv, TypeOK', NEW c \in Call, NEW next,
           UNCHANGED <<request, response, audit, artifact>>,
           pc' = [pc EXCEPT ![c] = next], pc[c] \in Writes => next \in Writes,
           \A d \in Call : d # c => held'[d] = held[d] /\ content'[d] = content[d],
           held'[c] = held[c] \/ pc[c] = "ready",
           CallInv(c)', OutputInv(c)'
    PROVE  IInv'
<1>1. TypeOK /\ TornTail(audit)
  BY DEF IInv
<1>2. pc'[c] = next /\ \A d \in Call : d # c => pc'[d] = pc[d]
  BY <1>1 DEF TypeOK
<1>3. \A d \in Call : CallInv(d)'
  BY <1>2, SameLog, CallFrame DEF IInv
<1>4. \A d \in Call : OutputInv(d)'
  <2>1. \A d \in Call : artifact'[d] = artifact[d]
    OBVIOUS
  <2> QED
    BY <1>2, <2>1, OutputFrame DEF IInv
<1>5. ASSUME NEW i \in ArtifactId PROVE ArtifactInv(i)'
  <2> DEFINE d == artifact[i].by
  <2>1. d \in Call \cup {NoCall}
    BY <1>1 DEF TypeOK
  <2>2. d # NoCall => OutputOf(d) = i /\ Entitled(d) /\ pc[d] \in Writes
    BY DEF IInv, ArtifactInv, Writes
  <2>3. d # NoCall => OutputOf(d)' = i /\ Entitled(d)' /\ pc'[d] \in Writes
    BY <1>2, <2>1, <2>2 DEF OutputOf, Entitled
  <2> QED
    BY <2>3 DEF ArtifactInv, Writes
<1>6. OutputRedacted'
  <2>1. RecordsRedacted'
    <3> SUFFICES ASSUME NEW d \in Call, NEW i \in LinesOf(d)'
                 PROVE  audit'.lines[i].clear \cap held'[d] \subseteq Escaped
      BY DEF RecordsRedacted
    <3>1. i \in LinesOf(d)
      BY SameLog
    <3>2. held'[d] = held[d]
      BY <3>1 DEF IInv, CallInv, Unrecorded
    <3> QED
      BY <3>1, <3>2 DEF IInv, OutputRedacted, RecordsRedacted
  <2>2. LetterRedacted'
    <3> SUFFICES ASSUME NEW i \in ArtifactId, artifact[i].by # NoCall,
                        request[artifact[i].by].job = "generate_letter_from_private_template"
                 PROVE  artifact[i].clear \cap held'[artifact[i].by] = {}
      BY DEF LetterRedacted
    <3> DEFINE d == artifact[i].by
    <3>1. d \in Call /\ pc[d] \in Writes
      BY <1>1 DEF TypeOK, IInv, ArtifactInv, Writes
    <3>2. held'[d] = held[d]
      BY <3>1 DEF Writes
    <3> QED
      BY <3>2 DEF IInv, OutputRedacted, LetterRedacted
  <2> QED
    BY <2>1, <2>2 DEF OutputRedacted
<1>7. AcceptedIsDurable'
  BY DEF IInv, AcceptedIsDurable
<1> QED
  BY <1>1, <1>3, <1>4, <1>5, <1>6, <1>7, SameLog DEF IInv

\* The steps of a call before it records anything.
LEMMA QuietSteps ==
    ASSUME IInv, NEW c \in Call,
           \/ Raise(c) \/ Resolve(c) \/ ResolveFails(c) \/ Summarise(c)
           \/ Render(c) \/ TemplateRaises(c) \/ OutputFails(c) \/ Answer(c)
           \/ Crash(c)
    PROVE  IInv'
<1>1. TypeOK /\ TypeOK' /\ CallInv(c) /\ OutputInv(c)
  BY StepTypeOK DEF IInv, Step
<1>2. UNCHANGED <<request, response, audit, artifact>>
  BY DEF Raise, Resolve, ResolveFails, Summarise, Render, TemplateRaises, OutputFails,
         Answer, Crash
<1>3. LinesOf(c)' = LinesOf(c) /\ (Legible(c)' /\ held'[c] = held[c] => Legible(c))
  BY <1>2, SameLog DEF Legible
<1>4. held'[c] = held[c] /\ Recorded(c) => Recorded(c)'
  BY <1>2, <1>3, SameLog DEF Recorded
<1>5. Entitled(c)' = Entitled(c) /\ OutputOf(c)' = OutputOf(c)
  BY <1>2 DEF Entitled, OutputOf
<1>6. artifact[c].by = c => pc[c] \in Writes
  <2>1. c \in ArtifactId /\ c # NoCall
    BY ExecutionAssumption DEF ArtifactId
  <2> QED
    BY <2>1 DEF IInv, ArtifactInv, Writes
<1> DEFINE Goes(next) ==
              /\ pc' = [pc EXCEPT ![c] = next]
              /\ pc[c] \in Writes => next \in Writes
              /\ held'[c] = held[c] \/ pc[c] = "ready"
              /\ \A d \in Call : d # c => held'[d] = held[d] /\ content'[d] = content[d]
              /\ CallInv(c)' /\ OutputInv(c)'
<1>7. CASE Raise(c)
  <2>1. /\ pc' = [pc EXCEPT ![c] = "raised"] /\ pc'[c] = "raised" /\ pc[c] = "ready"
        /\ held' = held /\ content' = content
    BY <1>1, <1>7 DEF Raise, TypeOK
  <2>2. CallInv(c)' /\ OutputInv(c)'
    BY <1>1, <1>2, <1>3, <1>5, <2>1 DEF CallInv, OutputInv, Unrecorded, Settled
  <2>3. Goes("raised")
    BY <2>1, <2>2 DEF Writes
  <2> QED
    BY <1>1, <1>2, <2>3, QuietStep
<1>8. CASE Resolve(c)
  <2>1. /\ pc' = [pc EXCEPT ![c] = "resolved"] /\ pc'[c] = "resolved" /\ pc[c] = "ready"
        /\ content' = content
        /\ \A d \in Call : d # c => held'[d] = held[d]
    BY <1>1, <1>8 DEF Resolve, Begun, TypeOK
  <2>2. Entitled(c)
    <3>1. request[c].entrance \in Entrance
      BY <1>1, ExecutionAssumption DEF TypeOK
    <3> QED
      BY <1>8, <3>1 DEF Resolve, Begun, Refusal, Scope, Entitled, Entrance
  <2>3. CallInv(c)' /\ OutputInv(c)'
    BY <1>1, <1>2, <1>3, <1>5, <2>1, <2>2 DEF CallInv, OutputInv, Unrecorded, Settled
  <2>4. Goes("resolved")
    BY <2>1, <2>3 DEF Writes
  <2> QED
    BY <1>1, <1>2, <2>4, QuietStep
<1>9. CASE ResolveFails(c)
  <2>1. /\ pc' = [pc EXCEPT ![c] = "artifact_missing"] /\ pc'[c] = "artifact_missing"
        /\ pc[c] = "ready" /\ held' = held /\ content' = content
    BY <1>1, <1>9 DEF ResolveFails, Begun, TypeOK
  <2>2. CallInv(c)' /\ OutputInv(c)'
    BY <1>1, <1>2, <1>3, <1>5, <2>1 DEF CallInv, OutputInv, Unrecorded, Settled
  <2>3. Goes("artifact_missing")
    BY <2>1, <2>2 DEF Writes
  <2> QED
    BY <1>1, <1>2, <2>3, QuietStep
<1>10. CASE Summarise(c)
  <2>1. /\ pc' = [pc EXCEPT ![c] = "commit"] /\ pc'[c] = "commit" /\ pc[c] = "resolved"
        /\ held' = held /\ \A d \in Call : d # c => content'[d] = content[d]
        /\ request[c].job # "generate_letter_from_private_template"
    BY <1>1, <1>10 DEF Summarise, TypeOK
  <2>2. CallInv(c)' /\ OutputInv(c)'
    BY <1>1, <1>2, <1>3, <1>5, <2>1 DEF CallInv, OutputInv, Unrecorded, Settled
  <2>3. Goes("commit")
    BY <2>1, <2>2 DEF Writes
  <2> QED
    BY <1>1, <1>2, <2>3, QuietStep
<1>11. CASE Render(c)
  <2>1. /\ pc' = [pc EXCEPT ![c] = "commit"] /\ pc'[c] = "commit" /\ pc[c] = "resolved"
        /\ held' = held /\ \A d \in Call : d # c => content'[d] = content[d]
        /\ content'[c] = Scrubbed(Rendered(c), held[c])
    BY <1>1, <1>11 DEF Render, TypeOK
  <2>2. content'[c] \cap held[c] = {}
    BY <2>1 DEF Scrubbed
  <2>3. CallInv(c)' /\ OutputInv(c)'
    BY <1>1, <1>2, <1>3, <1>5, <2>1, <2>2 DEF CallInv, OutputInv, Unrecorded, Settled
  <2>4. Goes("commit")
    BY <2>1, <2>3 DEF Writes
  <2> QED
    BY <1>1, <1>2, <2>4, QuietStep
<1>12. CASE TemplateRaises(c)
  <2>1. /\ pc' = [pc EXCEPT ![c] = "template_raised"] /\ pc'[c] = "template_raised"
        /\ pc[c] = "resolved" /\ held' = held /\ content' = content
    BY <1>1, <1>12 DEF TemplateRaises, TypeOK
  <2>2. artifact[c].by # c
    BY <1>6, <2>1 DEF Writes
  <2>3. CallInv(c)' /\ OutputInv(c)'
    BY <1>1, <1>2, <1>3, <1>5, <2>1, <2>2 DEF CallInv, OutputInv, Unrecorded, Settled
  <2>4. Goes("template_raised")
    BY <2>1, <2>3 DEF Writes
  <2> QED
    BY <1>1, <1>2, <2>4, QuietStep
<1>13. CASE OutputFails(c)
  <2>1. /\ pc' = [pc EXCEPT ![c] = "template_raised"] /\ pc'[c] = "template_raised"
        /\ pc[c] \in {"commit", "committing"} /\ held' = held /\ content' = content
    BY <1>1, <1>13 DEF OutputFails, TypeOK
  <2>2. artifact[c].by = c => pc[c] = "committing"
    BY <1>6, <2>1 DEF Writes
  <2>3. CallInv(c)' /\ OutputInv(c)'
    BY <1>1, <1>2, <1>3, <1>5, <2>1, <2>2 DEF CallInv, OutputInv, Unrecorded, Settled
  <2>4. Goes("template_raised")
    BY <2>1, <2>3 DEF Writes
  <2> QED
    BY <1>1, <1>2, <2>4, QuietStep
<1>14. CASE Answer(c)
  <2>1. /\ pc' = [pc EXCEPT ![c] = "answered"] /\ pc'[c] = "answered"
        /\ pc[c] = "recorded" /\ held' = held /\ content' = content
    BY <1>1, <1>14 DEF Answer, TypeOK
  <2>2. CallInv(c)' /\ OutputInv(c)'
    BY <1>1, <1>2, <1>3, <1>4, <1>5, <2>1 DEF CallInv, OutputInv, Unrecorded, Settled
  <2>3. Goes("answered")
    BY <2>1, <2>2 DEF Writes
  <2> QED
    BY <1>1, <1>2, <2>3, QuietStep
<1>15. CASE Crash(c)
  <2>1. /\ pc' = [pc EXCEPT ![c] = "crashed"] /\ pc'[c] = "crashed"
        /\ held' = held /\ content' = content
    BY <1>1, <1>15 DEF Crash, TypeOK
  <2>2. CallInv(c)' /\ OutputInv(c)'
    BY <1>1, <1>2, <1>3, <1>5, <2>1 DEF CallInv, OutputInv, Unrecorded, Settled
  <2>3. Goes("crashed")
    BY <2>1, <2>2 DEF Writes
  <2> QED
    BY <1>1, <1>2, <2>3, QuietStep
<1> QED
  BY <1>7, <1>8, <1>9, <1>10, <1>11, <1>12, <1>13, <1>14, <1>15

-----------------------------------------------------------------------------
\* The inductive invariant: steps that write an output

\* The output of a call is nobody else's, unless its id was cut.
LEMMA OwnId ==
    ASSUME NEW c \in Call, NEW d \in Call, OutputOf(c) = d
    PROVE  c = d /\ ~request[c].long
BY ExecutionAssumption DEF OutputOf

\* A template opens its artifact, or fills the one it has opened.
LEMMA OutputSteps ==
    ASSUME IInv, NEW c \in Call, BeginOutput(c) \/ EndOutput(c)
    PROVE  IInv'
<1> DEFINE i0    == OutputOf(c)
           begun == [state |-> "partial", by |-> c, clear |-> content[c]]
           ended == [state |-> "whole", by |-> c, clear |-> content[c]]
<1>1. TypeOK /\ TypeOK' /\ CallInv(c) /\ OutputInv(c) /\ i0 \in ArtifactId
  BY StepTypeOK, ValuesTyped DEF IInv, Step
<1>2. UNCHANGED <<request, held, content, response, audit>>
  BY DEF BeginOutput, EndOutput
<1>3. /\ pc[c] \in {"commit", "committing"} /\ pc'[c] \in {"committing", "ran"}
      /\ \A d \in Call : d # c => pc'[d] = pc[d]
      /\ pc'[c] = "committing" => artifact'[i0] = begun
      /\ pc'[c] = "ran" => artifact'[i0] = ended
      /\ \A i \in ArtifactId : i # i0 => artifact'[i] = artifact[i]
  BY <1>1 DEF BeginOutput, EndOutput, TypeOK
<1>4. /\ artifact'[i0].by = c /\ artifact'[i0].clear = content[c]
      /\ artifact'[i0].state = IF pc'[c] = "ran" THEN "whole" ELSE "partial"
  BY <1>3
<1>5. response[c] = NoResponse /\ LinesOf(c) = {} /\ Entitled(c)
  BY <1>1, <1>3 DEF CallInv, Unrecorded
<1>6. \A d \in Call : d \in ArtifactId /\ d # NoCall
  BY ExecutionAssumption DEF ArtifactId
<1> HIDE DEF begun, ended, i0
<1>7. \A d \in Call : CallInv(d)'
  <2>1. CallInv(c)'
    <3>1. LinesOf(c)' = LinesOf(c) /\ Entitled(c)' = Entitled(c)
      BY <1>2, SameLog DEF Entitled
    <3> QED
      BY <1>1, <1>2, <1>3, <1>5, <3>1 DEF CallInv, Unrecorded, Settled, NoResponse
  <2> QED
    BY <1>2, <1>3, <2>1, SameLog, CallFrame DEF IInv
<1>8. \A d \in Call : d # c => i0 # d
  BY OwnId DEF i0
<1>9. \A d \in Call : OutputInv(d)'
  <2>1. OutputInv(c)'
    <3>1. ~request[c].long => i0 = c
      BY DEF i0, OutputOf
    <3>2. request[c].long => i0 = LongId
      BY DEF i0, OutputOf
    <3>3. request[c].long => artifact[c].by # c
      BY <1>6, OwnId DEF IInv, ArtifactInv
    <3>4. request[c].long => artifact'[c] = artifact[c]
      BY <1>3, <1>6, <3>2, ExecutionAssumption
    <3>5. request[c].long \in BOOLEAN
      BY <1>1, ExecutionAssumption DEF TypeOK
    <3> QED
      BY <1>2, <1>3, <1>4, <3>1, <3>3, <3>4, <3>5 DEF OutputInv, Settled
  <2>2. \A d \in Call : d # c => artifact'[d] = artifact[d]
    BY <1>3, <1>6, <1>8
  <2> QED
    BY <1>2, <1>3, <2>1, <2>2, OutputFrame DEF IInv
<1>10. ASSUME NEW i \in ArtifactId PROVE ArtifactInv(i)'
  <2>1. CASE i = i0
    <3>1. OutputOf(c)' = i /\ Entitled(c)'
      BY <1>2, <1>5, <2>1 DEF i0, OutputOf, Entitled
    <3> QED
      BY <1>3, <1>4, <2>1, <3>1 DEF ArtifactInv
  <2>2. CASE i # i0
    <3> DEFINE d == artifact[i].by
    <3>1. d \in Call \cup {NoCall} /\ artifact'[i] = artifact[i]
      BY <1>1, <1>3, <2>2 DEF TypeOK
    <3>2. d # NoCall => OutputOf(d) = i /\ Entitled(d) /\ pc[d] \in Writes
      BY DEF IInv, ArtifactInv, Writes
    <3>3. d # NoCall => OutputOf(d)' = i /\ Entitled(d)' /\ pc'[d] \in Writes
      BY <1>2, <1>3, <3>1, <3>2 DEF OutputOf, Entitled, Writes
    <3> QED
      BY <3>1, <3>3 DEF ArtifactInv, Writes
  <2> QED
    BY <2>1, <2>2
<1>11. OutputRedacted'
  <2>1. RecordsRedacted'
    BY <1>2, SameLog DEF IInv, OutputRedacted, RecordsRedacted
  <2>2. LetterRedacted'
    <3> SUFFICES ASSUME NEW i \in ArtifactId, artifact'[i].by # NoCall,
                        request[artifact'[i].by].job = "generate_letter_from_private_template"
                 PROVE  artifact'[i].clear \cap held[artifact'[i].by] = {}
      BY <1>2 DEF LetterRedacted
    <3>1. CASE i = i0
      BY <1>1, <1>3, <1>4, <3>1 DEF CallInv
    <3>2. CASE i # i0
      BY <1>3, <3>2 DEF IInv, OutputRedacted, LetterRedacted
    <3> QED
      BY <3>1, <3>2
  <2> QED
    BY <2>1, <2>2 DEF OutputRedacted
<1>12. AcceptedIsDurable'
  <2> SUFFICES ASSUME NEW d \in Call, response[d].status = "accepted"
               PROVE  /\ \A i \in response[d].artifacts :
                            artifact'[i].state = "whole" \/ i = LongId
                      /\ ~request[d].long => artifact'[d].state = "whole" /\ artifact'[d].by = d
    BY <1>2 DEF AcceptedIsDurable
  <2>1. d # c /\ response[d].artifacts = {OutputOf(d)}
    BY <1>5 DEF NoResponse, IInv, CallInv
  <2>2. artifact'[d] = artifact[d]
    BY <1>3, <1>6, <1>8, <2>1
  <2>3. OutputOf(d) \in {d, LongId}
    BY DEF OutputOf
  <2> QED
    BY <2>1, <2>2, <2>3 DEF IInv, AcceptedIsDurable
<1> QED
  BY <1>1, <1>2, <1>7, <1>9, <1>10, <1>11, <1>12, SameLog DEF IInv

-----------------------------------------------------------------------------
\* The inductive invariant: steps that record a call

\* What a record that has come to its place says of its call.
LEMMA RecordedBy ==
    ASSUME IInv, NEW c \in Call, LinesOf(c) = {}, NEW outcome \in Outcome,
           NEW answer \in Response, Record(c, Line(c, outcome), answer),
           UNCHANGED <<request, held>>, Legible(c)',
           IF outcome = "success" THEN answer = Accepted(OutputOf(c))
                                  ELSE answer = Failed(outcome)
    PROVE  Recorded(c)'
<1> DEFINE line == Line(c, outcome)
           n    == Len(audit.lines) + 1
<1>1. TypeOK /\ TornTail(audit) /\ line \in RecordLine
  BY LineOfCall DEF IInv
<1>2. /\ line.id = c /\ line.outcome = outcome
      /\ line.artifacts = IF outcome = "success" THEN {OutputOf(c)} ELSE {}
  BY <1>1, LineOfCall DEF Legible
<1>3. Record(c, line, answer)
  OBVIOUS
<1> HIDE DEF line
<1>4. \/ response'[c] = answer /\ audit' = Appended(audit, line)
      \/ /\ response'[c] = Failed("audit_write_failed")
         /\ \/ audit' = audit
            \/ \E fault \in AppendFault : audit' = AfterFault(audit, line, fault)
  <2>1. response \in [Call -> Response]
    BY <1>1 DEF TypeOK, Response
  <2> QED
    BY <1>1, <1>3, <2>1, RecordStep
<1>5. ~ReadRaises' /\ ~audit.open /\ LinesOf(c)' \subseteq {n}
  BY <1>1, <1>4, WritesLines DEF Legible
<1>6. CASE response'[c] = answer /\ audit' = Appended(audit, line)
  <2>1. n \in DOMAIN audit'.lines /\ audit'.lines[n] = line
    <3>1. audit \in FileOver(RecordLine)
      BY <1>1 DEF TypeOK, FileOver
    <3> QED
      BY <1>1, <1>5, <1>6, <3>1, AppendedLine
  <2>2. LinesOf(c)' = {n}
    BY <1>1, <1>2, <1>5, <2>1, GarbledAssumption DEF LinesOf
  <2>3. n \in read_records'
    BY <1>2, <2>1, ExecutionAssumption DEF read_records
  <2>4. outcome # "audit_write_failed"
    BY DEF Outcome
  <2>5. CASE outcome = "success"
    <3>1. /\ response'[c].reason = "none" /\ response'[c].status = "accepted"
          /\ response'[c].artifacts = {OutputOf(c)}
      BY <1>6, <2>5 DEF Accepted
    <3> QED
      BY <1>2, <2>1, <2>2, <2>3, <2>5, <3>1 DEF Recorded
  <2>6. CASE outcome # "success"
    <3>1. /\ response'[c].reason = outcome /\ response'[c].status = "failed"
          /\ response'[c].artifacts = {}
      BY <1>6, <2>6 DEF Failed
    <3> QED
      BY <1>2, <2>1, <2>2, <2>3, <2>4, <2>6, <3>1 DEF Recorded
  <2> QED
    BY <2>5, <2>6
<1>7. CASE response'[c] = Failed("audit_write_failed")
  <2>1. Cardinality(LinesOf(c)') <= 1
    <3> DEFINE lines == LinesOf(c)'
    <3>1. CASE lines = {}
      <4>1. Cardinality(lines) = 0
        BY <3>1, FS_EmptySet
      <4> HIDE DEF lines
      <4>2. Cardinality(lines) <= 1
        BY <4>1
      <4> QED
        BY <4>2 DEF lines
    <3>2. CASE lines = {n}
      <4>1. Cardinality(lines) = 1
        BY <3>2, FS_Singleton
      <4> HIDE DEF lines
      <4>2. Cardinality(lines) <= 1
        BY <4>1
      <4> QED
        BY <4>2 DEF lines
    <3> QED
      BY <1>5, <3>1, <3>2
  <2> QED
    BY <1>7, <2>1 DEF Recorded, Failed
<1> QED
  BY <1>4, <1>6, <1>7

\* A record, whatever becomes of it, keeps the invariant.
LEMMA RecordInv ==
    ASSUME IInv, NEW c \in Call, NEW outcome \in Outcome, NEW answer \in Response,
           pc[c] \in Unrecorded,
           Record(c, Line(c, outcome), answer),
           UNCHANGED <<request, held, content, source, artifact>>,
           IF outcome = "success" THEN answer = Accepted(OutputOf(c))
                                  ELSE answer = Failed(outcome),
           outcome = "success" => pc[c] = "ran",
           artifact[c].by = c =>
              \/ outcome \in {"success", "scrub_failed"}
              \/ outcome = "template_raised" /\ artifact[c].state = "partial"
    PROVE  IInv'
<1> DEFINE line == Line(c, outcome)
<1>1. /\ TypeOK /\ TornTail(audit) /\ CallInv(c) /\ OutputInv(c)
      /\ TypeOK' /\ LinesOf(c) = {}
  BY RecordTypeOK DEF IInv, CallInv
<1>2. /\ line \in RecordLine /\ line.id \in {c, NoCall}
      /\ line.clear \cap held[c] \subseteq Escaped
  BY <1>1, LineOfCall
<1>3. Legible(c)' => Recorded(c)'
  BY <1>1, RecordedBy
<1>4. Record(c, line, answer)
  OBVIOUS
<1>5. c \in ArtifactId /\ \A d \in Call : d # NoCall
  BY ExecutionAssumption DEF ArtifactId
<1> HIDE DEF line
<1>6. /\ pc' = [pc EXCEPT ![c] = "recorded"]
      /\ \/ /\ response' = [response EXCEPT ![c] = answer]
            /\ audit' = Appended(audit, line)
         \/ /\ response' = [response EXCEPT ![c] = Failed("audit_write_failed")]
            /\ \/ audit' = audit
               \/ \E fault \in AppendFault : audit' = AfterFault(audit, line, fault)
  BY <1>1, <1>2, <1>4, RecordStep
<1>7. /\ TornTail(audit') /\ (~ReadRaises' => ~ReadRaises)
      /\ \A d \in Call : \A i \in LinesOf(d) :
            i \in LinesOf(d)' /\ audit'.lines[i] = audit.lines[i]
      /\ \A d \in Call : \A i \in LinesOf(d)' :
            i \in LinesOf(d) \/ (audit'.lines[i] = line /\ line.id = d)
  BY <1>1, <1>2, <1>6, WritesLines
<1>8. /\ pc'[c] = "recorded"
      /\ \A d \in Call : d # c => pc'[d] = pc[d] /\ response'[d] = response[d]
      /\ response'[c] \in {answer, Failed("audit_write_failed")}
  BY <1>1, <1>6 DEF TypeOK
<1>9. \/ /\ response'[c].status = "accepted" /\ outcome = "success"
         /\ response'[c].artifacts = {OutputOf(c)}
      \/ /\ response'[c].status = "failed"
         /\ \/ response'[c].reason = "audit_write_failed"
            \/ outcome # "success" /\ response'[c].reason = outcome
  BY <1>8 DEF Accepted, Failed
<1>10. \A d \in Call : Entitled(d)' = Entitled(d) /\ OutputOf(d)' = OutputOf(d)
  BY DEF Entitled, OutputOf
<1>11. \A d \in Call : CallInv(d)'
  <2>1. CallInv(c)'
    <3>1. (pc[c] \in {"resolved", "commit", "committing", "ran"} \/ held[c] # {})
             => Entitled(c)
      BY <1>1 DEF CallInv
    <3> QED
      BY <1>3, <1>8, <1>9, <1>10, <3>1 DEF CallInv, Unrecorded
  <2>2. ASSUME NEW d \in Call, d # c PROVE CallInv(d)'
    <3>1. LinesOf(d)' = LinesOf(d)
      BY <1>2, <1>5, <1>7, <2>2
    <3> QED
      BY <1>7, <1>8, <2>2, <3>1, CallFrame DEF IInv
  <2> QED
    BY <2>1, <2>2
<1>12. \A d \in Call : OutputInv(d)'
  <2>1. OutputInv(c)'
    <3>1. artifact[c].by = c => OutputOf(c) = c
      BY <1>5 DEF IInv, ArtifactInv
    <3> QED
      BY <1>8, <1>9, <3>1 DEF OutputInv, Settled
  <2>2. ASSUME NEW d \in Call, d # c PROVE OutputInv(d)'
    BY <1>8, <2>2, OutputFrame DEF IInv
  <2> QED
    BY <2>1, <2>2
<1>13. ASSUME NEW i \in ArtifactId PROVE ArtifactInv(i)'
  <2> DEFINE d == artifact[i].by
  <2>1. d \in Call \cup {NoCall}
    BY <1>1 DEF TypeOK
  <2>2. d # NoCall => OutputOf(d) = i /\ Entitled(d) /\ pc[d] \in Writes
    BY DEF IInv, ArtifactInv, Writes
  <2>3. d # NoCall => OutputOf(d)' = i /\ Entitled(d)' /\ pc'[d] \in Writes
    BY <1>8, <1>10, <2>1, <2>2 DEF Writes
  <2> QED
    BY <2>3 DEF ArtifactInv, Writes
<1>14. OutputRedacted'
  <2>1. RecordsRedacted'
    <3> SUFFICES ASSUME NEW d \in Call, NEW i \in LinesOf(d)'
                 PROVE  audit'.lines[i].clear \cap held[d] \subseteq Escaped
      BY DEF RecordsRedacted
    <3>1. CASE i \in LinesOf(d)
      BY <1>7, <3>1 DEF IInv, OutputRedacted, RecordsRedacted
    <3>2. CASE audit'.lines[i] = line /\ line.id = d
      BY <1>2, <1>5, <3>2
    <3> QED
      BY <1>7, <3>1, <3>2
  <2>2. LetterRedacted'
    BY DEF IInv, OutputRedacted, LetterRedacted
  <2> QED
    BY <2>1, <2>2 DEF OutputRedacted
<1>15. AcceptedIsDurable'
  <2> SUFFICES ASSUME NEW d \in Call, response'[d].status = "accepted"
               PROVE  /\ \A i \in response'[d].artifacts :
                            artifact[i].state = "whole" \/ i = LongId
                      /\ ~request[d].long => artifact[d].state = "whole" /\ artifact[d].by = d
    BY DEF AcceptedIsDurable
  <2>1. CASE d = c
    <3>1. response'[c].artifacts = {OutputOf(c)} /\ pc[c] = "ran"
      BY <1>9, <2>1
    <3>2. ~request[c].long => artifact[c].by = c /\ artifact[c].state = "whole"
      BY <1>1, <3>1 DEF OutputInv
    <3>3. OutputOf(c) = IF request[c].long THEN LongId ELSE c
      BY DEF OutputOf
    <3> QED
      BY <2>1, <3>1, <3>2, <3>3
  <2>2. CASE d # c
    BY <1>8, <2>2 DEF IInv, AcceptedIsDurable
  <2> QED
    BY <2>1, <2>2
<1> QED
  BY <1>1, <1>7, <1>11, <1>12, <1>13, <1>14, <1>15 DEF IInv

\* The four steps that record a call.
LEMMA RecordSteps ==
    ASSUME IInv, NEW c \in Call,
           Refuse(c) \/ RecordFailure(c) \/ RecordScrubFailed(c) \/ RecordSuccess(c)
    PROVE  IInv'
<1>1. TypeOK /\ OutputInv(c)
  BY DEF IInv
<1>2. c \in ArtifactId /\ c # NoCall
  BY ExecutionAssumption DEF ArtifactId
<1>3. artifact[c].by = c => pc[c] \in Writes
  BY <1>2 DEF IInv, ArtifactInv, Writes
<1>4. CASE Refuse(c)
  <2> DEFINE why == Refusal(request[c])
  <2>1. why \in Outcome /\ why # "success" /\ Failed(why) \in Response
    BY <1>1, <1>4, ValuesTyped, AnswersTyped
       DEF Refuse, Refused, Outcome, ExecutionFailureReason
  <2>2. pc[c] \in Unrecorded /\ artifact[c].by # c
    BY <1>3, <1>4 DEF Refuse, Begun, Unrecorded, Writes
  <2>3. Record(c, Line(c, why), Failed(why))
        /\ UNCHANGED <<request, held, content, source, artifact>>
    BY <1>4 DEF Refuse
  <2> HIDE DEF why
  <2> QED
    BY <2>1, <2>2, <2>3, RecordInv
<1>5. CASE RecordFailure(c)
  <2> DEFINE why == pc[c]
  <2>1. why \in {"artifact_missing", "template_raised"}
    BY <1>5 DEF RecordFailure
  <2>2. why \in Outcome /\ why # "success" /\ Failed(why) \in Response
    BY <2>1, AnswersTyped DEF Outcome, ExecutionFailureReason
  <2>3. artifact[c].by = c => why = "template_raised" /\ artifact[c].state = "partial"
    BY <1>1, <1>3, <2>1 DEF Writes, OutputInv
  <2>4. pc[c] \in Unrecorded
    BY <2>1 DEF Unrecorded
  <2>5. Record(c, Line(c, why), Failed(why))
        /\ UNCHANGED <<request, held, content, source, artifact>>
    BY <1>5 DEF RecordFailure
  <2> HIDE DEF why
  <2> QED
    BY <2>2, <2>3, <2>4, <2>5, RecordInv
<1>6. CASE RecordScrubFailed(c)
  <2>1. "scrub_failed" \in Outcome /\ Failed("scrub_failed") \in Response
    BY AnswersTyped DEF Outcome, ExecutionFailureReason
  <2>2. pc[c] \in Unrecorded
    BY <1>6 DEF RecordScrubFailed, Unrecorded
  <2>3. Record(c, Line(c, "scrub_failed"), Failed("scrub_failed"))
        /\ UNCHANGED <<request, held, content, source, artifact>>
    BY <1>6 DEF RecordScrubFailed
  <2> QED
    BY <2>1, <2>2, <2>3, RecordInv
<1>7. CASE RecordSuccess(c)
  <2>1. "success" \in Outcome /\ Accepted(OutputOf(c)) \in Response
    BY <1>1, ValuesTyped, AnswersTyped DEF Outcome
  <2>2. pc[c] = "ran" /\ pc[c] \in Unrecorded
    BY <1>7 DEF RecordSuccess, Unrecorded
  <2>3. Record(c, Line(c, "success"), Accepted(OutputOf(c)))
        /\ UNCHANGED <<request, held, content, source, artifact>>
    BY <1>7 DEF RecordSuccess
  <2> QED
    BY <2>1, <2>2, <2>3, RecordInv
<1> QED
  BY <1>4, <1>5, <1>6, <1>7

-----------------------------------------------------------------------------
\* The inductive invariant: the commits of the document, the whole

\* A step that leaves every call, the log and the artifacts alone keeps all.
LEMMA UnchangedInv ==
    ASSUME IInv, TypeOK', UnchangedCalls
    PROVE  IInv'
<1>1. \A c \in Call : LinesOf(c)' = LinesOf(c)
  BY SameLog DEF UnchangedCalls
<1>2. \A c \in Call : CallInv(c)'
  BY <1>1, SameLog, CallFrame DEF IInv, UnchangedCalls
<1>3. \A c \in Call : OutputInv(c)'
  BY OutputFrame DEF IInv, UnchangedCalls
<1>4. \A i \in ArtifactId : ArtifactInv(i)'
  BY DEF IInv, ArtifactInv, Entitled, OutputOf, UnchangedCalls
<1>5. OutputRedacted' /\ AcceptedIsDurable'
  BY <1>1 DEF IInv, OutputRedacted, RecordsRedacted, LetterRedacted,
              AcceptedIsDurable, UnchangedCalls
<1> QED
  BY <1>2, <1>3, <1>4, <1>5, SameLog DEF IInv, UnchangedCalls

\* No call has seen, written or recorded anything yet.
LEMMA InitInv == Init => IInv
<1> SUFFICES ASSUME Init PROVE IInv
  OBVIOUS
<1>1. TypeOK
  BY InitTypeOK
<1>2. audit = EmptyFile /\ audit.lines = << >> /\ ~audit.open
  BY DEF Init, EmptyFile
<1>3. TornTail(audit) /\ \A c \in Call : LinesOf(c) = {}
  BY <1>2 DEF TornTail, LinesOf
<1>4. /\ \A c \in Call : /\ pc[c] = "ready" /\ held[c] = {}
                        /\ response[c] = NoResponse
      /\ \A i \in ArtifactId : artifact[i].by = NoCall
  BY DEF Init, NoArtifact
<1>5. \A c \in Call : c \in ArtifactId /\ c # NoCall
  BY ExecutionAssumption DEF ArtifactId
<1>6. \A c \in Call : response[c].status = "none"
  BY <1>4 DEF NoResponse
<1>7. \A c \in Call : CallInv(c)
  BY <1>3, <1>4, <1>6 DEF CallInv, Settled
<1>8. \A c \in Call : OutputInv(c)
  BY <1>4, <1>5 DEF OutputInv, Settled
<1>9. \A i \in ArtifactId : ArtifactInv(i)
  BY <1>4 DEF ArtifactInv
<1>10. OutputRedacted /\ AcceptedIsDurable
  BY <1>3, <1>4, <1>6 DEF OutputRedacted, RecordsRedacted, LetterRedacted, AcceptedIsDurable
<1> QED
  BY <1>1, <1>3, <1>7, <1>8, <1>9, <1>10 DEF IInv

\* The invariant that ties the answers of the calls, the audit file and the
\* outputs of the templates together holds of every behaviour.
THEOREM Inductive == Spec => []IInv
<1>1. Init => IInv
  BY InitInv
<1>2. IInv /\ [Next]_vars => IInv'
  <2> SUFFICES ASSUME IInv, [Next]_vars PROVE IInv'
    OBVIOUS
  <2>1. ASSUME NEW c \in Call, Step(c) \/ Crash(c) PROVE IInv'
    BY <2>1, QuietSteps, OutputSteps, RecordSteps DEF Step
  <2>2. CASE CommitManifest \/ OpenPrivate \/ FillPrivate
    <3>1. TypeOK' /\ UnchangedCalls
      BY <2>2, CommitTypeOK DEF IInv, CommitManifest, OpenPrivate, FillPrivate
    <3> QED
      BY <3>1, UnchangedInv
  <2>3. CASE UNCHANGED vars
    <3>1. TypeOK' /\ UnchangedCalls
      BY <2>3 DEF vars, UnchangedCalls, IInv, TypeOK
    <3> QED
      BY <3>1, UnchangedInv
  <2> QED
    BY <2>1, <2>2, <2>3 DEF Next
<1> QED
  BY <1>1, <1>2, PTL DEF Spec

-----------------------------------------------------------------------------
\* What follows from it

\* Every variable of the gateway keeps the shape the code gives it.
THEOREM TypeCorrect == Spec => []TypeOK
<1>1. IInv => TypeOK
  BY DEF IInv
<1> QED
  BY <1>1, Inductive, PTL

\* execute_request resolves a private value, and leaves an artifact, only for
\* a typed request of the private boundary that names a template, made with
\* one root and not through the facade, however calls and commits interleave.
THEOREM GatesComeFirst == Spec => []GatesFirst
<1>1. IInv => GatesFirst
  <2> SUFFICES ASSUME IInv, NEW c \in Call PROVE Privileged(c)
    BY DEF GatesFirst
  <2>1. held[c] # {} => Entitled(c)
    BY DEF IInv, CallInv
  <2>2. ASSUME NEW i \in ArtifactId, artifact[i].by = c PROVE Entitled(c)
    BY <2>2, ExecutionAssumption DEF IInv, ArtifactInv
  <2> QED
    BY <2>1, <2>2 DEF Privileged
<1> QED
  BY <1>1, Inductive, PTL

\* An answered call has exactly one record and it says what the answer says,
\* or the call was told that it could not be recorded and was given nothing,
\* wherever the log can still be read.
THEOREM AnswersAreOnRecord == Spec => []AnswerOnRecord
<1>1. IInv => AnswerOnRecord
  BY DEF IInv, CallInv, AnswerOnRecord, Settled
<1> QED
  BY <1>1, Inductive, PTL

\* No record and no letter shows a value that its call has resolved, but for
\* those that JSON writes otherwise, whatever request and body mention.
THEOREM OutputIsRedacted == Spec => []OutputRedacted
<1>1. IInv => OutputRedacted
  BY DEF IInv
<1> QED
  BY <1>1, Inductive, PTL

\* The artifact an accepted call is given is whole and its own, unless the id
\* was cut, whatever other calls and commits do afterwards.
THEOREM AcceptedArtifactsLast == Spec => []AcceptedIsDurable
<1>1. IInv => AcceptedIsDurable
  BY DEF IInv
<1> QED
  BY <1>1, Inductive, PTL

\* An output that no answer names is that of a call that could not write,
\* scrub or record it.
THEOREM OrphansHaveReason == Spec => []OrphanHasReason
<1>1. IInv => OrphanHasReason
  BY DEF IInv, OutputInv, OrphanHasReason, Settled
<1> QED
  BY <1>1, Inductive, PTL

=============================================================================
