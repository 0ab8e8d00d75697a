---------------------------- MODULE Restoration ----------------------------
(***************************************************************************)
(* boundary.restoration_request (src/src/yomotsusaka/boundary.py): the     *)
(* audited, scope-gated, policy-checked way to the private dictionary.     *)
(*                                                                         *)
(* Each element of Call is one invocation, with a request of its own; the  *)
(* invocations run concurrently, in one process or several, and share the  *)
(* audit file and the private dictionaries of one vault.  A step of a call *)
(* ends where the code next touches one of the two: the checks before the  *)
(* first append are local and belong to the step of that append.           *)
(*                                                                         *)
(* The dictionaries are written by the commit of a document, which writes  *)
(* a file in place: it is first truncated, then filled.                    *)
(***************************************************************************)
EXTENDS Policy, AuditLog, Integers, FiniteSets

CONSTANTS
    Call,          \* invocations of restoration_request
    Doc,           \* document ids
    Entry,         \* private dictionary entries: records with a key and a kind
    Dictionaries,  \* the contents a dictionary file may be given
    Requests,      \* the requests that may be made
    Table,         \* the policy table of the deployment
    AppendFaults   \* how an append that raises may leave the file

Scope == {"PRIVATE_BOUNDARY", "ORDINARY_AGENT", "AUDIT_REVIEWER"}

Target == {"document_id", "manifest_handle", "other_handle"}

\* What the audit file says of a call.  count is the returned_entry_count.
NoCount == -1

FailureReason ==
    {"request_schema_invalid", "scope_denied", "policy_denied",
     "artifact_missing", "kernel_error", "audit_write_failed"}

Line ==
    [id     : Call,
     outcome: {"accepted", "failed"},
     reason : FailureReason \cup {"none"},
     count  : Nat \cup {NoCount},
     verdict: {"permit", "deny", "none"}]

File == [lines: Seq(Line \cup {Garbled}), open: BOOLEAN]

ASSUME RestorationAssumption ==
    /\ IsTable(Table)
    /\ AppendFaults \subseteq AppendFault
    /\ \A r \in Requests :
          /\ r.valid \in BOOLEAN
          /\ r.target \in Target
          /\ r.doc \in Doc
          /\ r.scope \in Scope
          /\ r.reserved \in Reserved
    /\ \A d \in Dictionaries : IsFiniteSet(d) /\ d \subseteq Entry
    /\ Garbled \notin Line

VARIABLES
    request,   \* request[c]: what call c asks
    pc,        \* pc[c]: where call c is
    kernel,    \* kernel[c]: what restoration_api.restore did for call c
    response,  \* response[c]: what call c returned
    audit,     \* the audit file
    private    \* private[d]: the dictionary file of document d

vars == <<request, pc, kernel, response, audit, private>>

-----------------------------------------------------------------------------
\* Requests and the gates before the kernel

\* The reason for which a request is refused before the kernel is called.
Refusal(r) ==
    IF ~r.valid \/ r.target = "other_handle" THEN "request_schema_invalid"
    ELSE IF r.scope # "PRIVATE_BOUNDARY"     THEN "scope_denied"
    ELSE IF ~Permits(Table, r.reserved)      THEN "policy_denied"
    ELSE "none"

\* The AND of the two filters; an empty one filters nothing.
Filtered(r, entries) ==
    {e \in entries : /\ r.keys = {} \/ e.key \in r.keys
                     /\ r.kinds = {} \/ e.kind \in r.kinds}

-----------------------------------------------------------------------------
\* Lines of the audit file and responses

RefusedLine(c) ==
    [id |-> c, outcome |-> "failed", reason |-> Refusal(request[c]),
     count |-> NoCount,
     verdict |-> IF Refusal(request[c]) = "policy_denied" THEN "deny" ELSE "none"]

IntentLine(c) ==
    [id |-> c, outcome |-> "accepted", reason |-> "none", count |-> NoCount,
     verdict |-> "permit"]

\* A bug: the corrective record does not tell an absent artifact apart.
CorrectiveLineCoarse(c) ==
    [id |-> c, outcome |-> "failed", reason |-> "kernel_error",
     count |-> NoCount, verdict |-> "permit"]

CorrectiveLine(c) ==
    [id |-> c, outcome |-> "failed", reason |-> kernel[c].reason,
     count |-> NoCount, verdict |-> "permit"]

\* A bug: the count is taken before the filter.
ResultLineUnfiltered(c) ==
    [id |-> c, outcome |-> "accepted", reason |-> "none",
     count |-> Cardinality(kernel[c].entries), verdict |-> "permit"]

ResultLine(c) ==
    [id |-> c, outcome |-> "accepted", reason |-> "none",
     count |-> Cardinality(Filtered(request[c], kernel[c].entries)),
     verdict |-> "permit"]

NoResponse == [outcome |-> "none", reason |-> "none", entries |-> {}]

Failed(why) == [outcome |-> "failed", reason |-> why, entries |-> {}]

Accepted(entries) ==
    [outcome |-> "accepted", reason |-> "none", entries |-> entries]

Uncalled == [state |-> "uncalled", reason |-> "none", entries |-> {}]

AbsentFile == [state |-> "absent", entries |-> {}]
TornFile   == [state |-> "torn", entries |-> {}]
WholeFile(entries) == [state |-> "whole", entries |-> entries]

-----------------------------------------------------------------------------

Init ==
    /\ request \in [Call -> Requests]
    /\ pc = [c \in Call |-> "ready"]
    /\ kernel = [c \in Call |-> Uncalled]
    /\ response = [c \in Call |-> NoResponse]
    /\ audit = EmptyFile
    /\ private = [d \in Doc |-> AbsentFile]

\* Call c returns the response res.
Return(c, res) ==
    /\ pc' = [pc EXCEPT ![c] = "returned"]
    /\ response' = [response EXCEPT ![c] = res]

\* The append of a line raised: the call answers AuditWriteFailed.
LosesAudit(c, line) ==
    /\ \E fault \in AppendFaults : audit' = AfterFault(audit, line, fault)
    /\ Return(c, Failed("audit_write_failed"))

\* Steps (a) to (c.5): a request that fails a gate is recorded and refused.
Refuse(c) ==
    /\ pc[c] = "ready"
    /\ Refusal(request[c]) # "none"
    /\ \/ /\ audit' = Appended(audit, RefusedLine(c))
          /\ Return(c, Failed(Refusal(request[c])))
       \/ LosesAudit(c, RefusedLine(c))
    /\ UNCHANGED <<request, kernel, private>>

\* A bug: an intent that could not be appended does not stop the call.
RecordIntentAnyway(c) ==
    /\ pc[c] = "ready"
    /\ Refusal(request[c]) = "none"
    /\ \/ audit' = Appended(audit, IntentLine(c))
       \/ \E fault \in AppendFaults : audit' = AfterFault(audit, IntentLine(c), fault)
    /\ pc' = [pc EXCEPT ![c] = "intent"]
    /\ UNCHANGED <<request, kernel, response, private>>

\* Step (d): the intent is recorded before the kernel is called.
RecordIntent(c) ==
    /\ pc[c] = "ready"
    /\ Refusal(request[c]) = "none"
    /\ \/ /\ audit' = Appended(audit, IntentLine(c))
          /\ pc' = [pc EXCEPT ![c] = "intent"]
          /\ UNCHANGED response
       \/ LosesAudit(c, IntentLine(c))
    /\ UNCHANGED <<request, kernel, private>>

\* Step (e): restoration_api.restore reads the dictionary file.  Its exists()
\* and its read are one step, because a dictionary file is never removed.
KernelReturns(c) ==
    /\ pc[c] = "intent"
    /\ private[request[c].doc].state = "whole"
    /\ kernel' = [kernel EXCEPT ![c] =
                    [state |-> "returned", reason |-> "none",
                     entries |-> private[request[c].doc].entries]]
    /\ pc' = [pc EXCEPT ![c] = "kernel"]
    /\ UNCHANGED <<request, response, audit, private>>

\* A bug: an exception keeps a name of its own, outside the closed reasons.
KernelRaisesUnlisted(c) ==
    /\ pc[c] = "intent"
    /\ kernel' = [kernel EXCEPT ![c] =
                    [state |-> "raised", reason |-> "os_error", entries |-> {}]]
    /\ pc' = [pc EXCEPT ![c] = "kernel"]
    /\ UNCHANGED <<request, response, audit, private>>

\* A bug: a file cut short is read again until it is whole.
KernelRaisesUnlessTorn(c) ==
    /\ pc[c] = "intent"
    /\ private[request[c].doc].state # "torn"
    /\ kernel' = [kernel EXCEPT ![c] =
                    [state |-> "raised", reason |-> "artifact_missing",
                     entries |-> {}]]
    /\ pc' = [pc EXCEPT ![c] = "kernel"]
    /\ UNCHANGED <<request, response, audit, private>>

\* The kernel raises: no file, a file whose JSON is cut short, or OSError.
KernelRaises(c) ==
    /\ pc[c] = "intent"
    /\ kernel' = [kernel EXCEPT ![c] =
                    [state |-> "raised",
                     reason |-> IF private[request[c].doc].state = "absent"
                                  THEN "artifact_missing" ELSE "kernel_error",
                     entries |-> {}]]
    /\ pc' = [pc EXCEPT ![c] = "kernel"]
    /\ UNCHANGED <<request, response, audit, private>>

\* A bug: no return after the corrective record.
RecordFailureGoesOn(c) ==
    /\ pc[c] = "kernel"
    /\ kernel[c].state = "raised"
    /\ audit' = Appended(audit, CorrectiveLine(c))
    /\ kernel' = [kernel EXCEPT ![c].state = "returned"]
    /\ UNCHANGED <<request, pc, response, private>>

\* A bug: the corrective record is written over the intent.
RecordFailureInPlace(c) ==
    /\ pc[c] = "kernel"
    /\ kernel[c].state = "raised"
    /\ audit' = [audit EXCEPT !.lines =
                   [i \in DOMAIN audit.lines |->
                       IF audit.lines[i] = IntentLine(c) THEN CorrectiveLine(c)
                       ELSE audit.lines[i]]]
    /\ Return(c, Failed(kernel[c].reason))
    /\ UNCHANGED <<request, kernel, private>>

\* The corrective record of a kernel that raised.
RecordFailure(c) ==
    /\ pc[c] = "kernel"
    /\ kernel[c].state = "raised"
    /\ \/ /\ audit' = Appended(audit, CorrectiveLine(c))
          /\ Return(c, Failed(kernel[c].reason))
       \/ LosesAudit(c, CorrectiveLine(c))
    /\ UNCHANGED <<request, kernel, private>>

\* A bug: the entries are returned even if the result could not be recorded.
RecordResultBestEffort(c) ==
    /\ pc[c] = "kernel"
    /\ kernel[c].state = "returned"
    /\ \/ audit' = Appended(audit, ResultLine(c))
       \/ \E fault \in AppendFaults : audit' = AfterFault(audit, ResultLine(c), fault)
    /\ Return(c, Accepted(Filtered(request[c], kernel[c].entries)))
    /\ UNCHANGED <<request, kernel, private>>

\* Step (g): filter, record the result, disclose.
RecordResult(c) ==
    /\ pc[c] = "kernel"
    /\ kernel[c].state = "returned"
    /\ \/ /\ audit' = Appended(audit, ResultLine(c))
          /\ Return(c, Accepted(Filtered(request[c], kernel[c].entries)))
       \/ LosesAudit(c, ResultLine(c))
    /\ UNCHANGED <<request, kernel, private>>

\* The process of call c dies: the call never answers.
Crash(c) ==
    /\ pc[c] \in {"ready", "intent", "kernel"}
    /\ pc' = [pc EXCEPT ![c] = "crashed"]
    /\ UNCHANGED <<request, kernel, response, audit, private>>

\* The environment: commit(d) truncates the dictionary file, then fills it.
BeginWrite(d) ==
    /\ private[d].state # "torn"
    /\ private' = [private EXCEPT ![d] = TornFile]
    /\ UNCHANGED <<request, pc, kernel, response, audit>>

EndWrite(d) ==
    /\ private[d].state = "torn"
    /\ \E entries \in Dictionaries :
          private' = [private EXCEPT ![d] = WholeFile(entries)]
    /\ UNCHANGED <<request, pc, kernel, response, audit>>

Step(c) ==
    \/ Refuse(c)
    \/ RecordIntent(c)
    \/ KernelReturns(c)
    \/ KernelRaises(c)
    \/ RecordFailure(c)
    \/ RecordResult(c)

Next ==
    \/ \E c \in Call : Step(c) \/ Crash(c)
    \/ \E d \in Doc : BeginWrite(d) \/ EndWrite(d)

\* A call is a synchronous function: its process keeps running it, or dies.
Fairness == \A c \in Call : WF_vars(Step(c))

Spec == Init /\ [][Next]_vars /\ Fairness

-----------------------------------------------------------------------------
\* Properties

\* Every variable keeps the shape the code gives it.
TypeOK ==
    /\ request \in [Call -> Requests]
    /\ pc \in [Call -> {"ready", "intent", "kernel", "returned", "crashed"}]
    /\ kernel \in [Call -> [state: {"uncalled", "returned", "raised"},
                            reason: {"none", "artifact_missing", "kernel_error"},
                            entries: {{}} \cup Dictionaries]]
    /\ response \in [Call -> [outcome: {"none", "accepted", "failed"},
                              reason: FailureReason \cup {"none"},
                              entries: SUBSET Entry]]
    /\ audit \in File
    /\ audit.open => audit.lines # << >>
    /\ private \in [Doc -> [state: {"absent", "torn", "whole"},
                            entries: {{}} \cup Dictionaries]]

\* The positions of the readable lines of call c.
LinesOf(c) ==
    {i \in DOMAIN audit.lines :
        audit.lines[i] # Garbled /\ audit.lines[i].id = c}

LastIs(c, line) ==
    \E i \in LinesOf(c) :
        /\ audit.lines[i] = line
        /\ \A j \in LinesOf(c) : j <= i

\* The kernel is only ever reached by a call that passed every gate and whose
\* intent is on record ("we never reach the kernel without a durable audit
\* record", boundary.restoration_request): whatever the other calls append or
\* lose meanwhile, the line stays readable.
Guarded(c) ==
    kernel[c].state # "uncalled" \/ pc[c] = "intent" =>
        /\ Refusal(request[c]) = "none"
        /\ \E i \in LinesOf(c) : audit.lines[i] = IntentLine(c)

KernelOnlyAfterIntent == \A c \in Call : Guarded(c)

\* Entries are disclosed only with two records behind them: the intent, and
\* after it the result, which counts exactly the entries that were returned
\* even if the document was committed again between the read and the record.
Accounted(c) ==
    response[c].outcome = "accepted" =>
        \E i, j \in LinesOf(c) :
            /\ i < j
            /\ LinesOf(c) = {i, j}
            /\ audit.lines[i] = IntentLine(c)
            /\ audit.lines[j].outcome = "accepted"
            /\ audit.lines[j].count = Cardinality(response[c].entries)

DisclosureAudited == \A c \in Call : Accounted(c)

\* A refusal or a kernel failure that is answered with its own reason is also
\* the last thing the audit file says of the call.
Explained(c) ==
    response[c].reason \notin {"none", "audit_write_failed"} =>
        \E i \in LinesOf(c) :
            /\ \A j \in LinesOf(c) : j <= i
            /\ audit.lines[i].outcome = "failed"
            /\ audit.lines[i].reason = response[c].reason

FailureAudited == \A c \in Call : Explained(c)

\* The records of one call follow one of the three patterns documented at
\* _append_restoration_audit, or a prefix of one when the call has died, is
\* still running or could not write: no call is ever recorded as failed and
\* then as accepted, nor settled twice.
Patterned(c) ==
    \A i, j \in LinesOf(c) :
        i < j => /\ LinesOf(c) = {i, j}
                 /\ audit.lines[i] = IntentLine(c)
                 /\ \/ audit.lines[j].count # NoCount
                    \/ audit.lines[j].outcome = "failed"

RecordPattern == \A c \in Call : Patterned(c)

\* JSONL is append-only: no step changes or removes a line that is there.
AppendOnly ==
    [][\A i \in DOMAIN audit.lines :
          i \in DOMAIN audit'.lines /\ audit'.lines[i] = audit.lines[i]]_audit

\* Every call whose process lives is answered, whichever appends fail and
\* whatever state a concurrent commit leaves the dictionary in.
EveryCallAnswered ==
    \A c \in Call : <>(pc[c] \in {"returned", "crashed"})

-----------------------------------------------------------------------------
\* The inductive invariant

\* The one record of call c is its intent.
OnlyIntent(c) ==
    \E i \in LinesOf(c) : LinesOf(c) = {i} /\ audit.lines[i] = IntentLine(c)

\* How far a call has come says what is on record of it.
CallInv(c) ==
    /\ pc[c] = "ready" => LinesOf(c) = {}
    /\ pc[c] \in {"ready", "intent"} => kernel[c] = Uncalled
    /\ pc[c] \in {"intent", "kernel"} =>
          Refusal(request[c]) = "none" /\ OnlyIntent(c)
    /\ pc[c] # "returned" => response[c] = NoResponse
    /\ Guarded(c)
    /\ Accounted(c)
    /\ Explained(c)
    /\ Patterned(c)

\* The audit file is never torn, and every call is where its records say.
IInv ==
    /\ TypeOK
    /\ ~audit.open
    /\ \A c \in Call : CallInv(c)

-----------------------------------------------------------------------------
\* What restoration_request implements

AuthorisedCalls == {c \in Call : Refusal(request[c]) = "none"}
IntendedCalls ==
    {c \in Call : \E i \in LinesOf(c) : audit.lines[i] = IntentLine(c)}
ClosedCalls ==
    {c \in Call : \E i \in LinesOf(c) : audit.lines[i].count # NoCount}
DisclosedCalls == {c \in Call : response[c].outcome = "accepted"}

Abstract == INSTANCE AuditedDisclosure WITH
    authorised <- AuthorisedCalls,
    intended   <- IntendedCalls,
    closed     <- ClosedCalls,
    disclosed  <- DisclosedCalls

\* restoration_request implements audited disclosure: an intent only for a call
\* that passes every gate, a result only after its intent, and private entries
\* only in the step that records the result.
AuditedDisclosureSpec == Abstract!Spec

=============================================================================
