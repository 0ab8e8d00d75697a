------------------------- MODULE RestorationProofs -------------------------
(***************************************************************************)
(* Proofs about Restoration, for any calls, documents, requests, policy    *)
(* table and dictionaries.                                                 *)
(***************************************************************************)
EXTENDS Restoration, AuditLogProofs, FiniteSetTheorems

-----------------------------------------------------------------------------
\* The type invariant

\* A finite dictionary has finitely many entries that pass the filters.
LEMMA FilteredCount ==
    ASSUME NEW r, NEW entries \in {{}} \cup Dictionaries
    PROVE  /\ Filtered(r, entries) \in SUBSET Entry
           /\ Cardinality(Filtered(r, entries)) \in Nat
<1>1. IsFiniteSet(entries) /\ entries \subseteq Entry
  BY RestorationAssumption, FS_EmptySet
<1>2. Filtered(r, entries) \in SUBSET entries
  BY DEF Filtered
<1> QED
  BY <1>1, <1>2, FS_Subset, FS_CardinalityType

\* The four lines a call may append are lines of the file.
LEMMA LineTypes ==
    ASSUME TypeOK, NEW c \in Call
    PROVE  /\ RefusedLine(c) \in Line
           /\ IntentLine(c) \in Line
           /\ CorrectiveLine(c) \in Line
           /\ ResultLine(c) \in Line
<1>1. kernel[c].reason \in FailureReason \cup {"none"}
  BY DEF TypeOK, FailureReason
<1>2. kernel[c].entries \in {{}} \cup Dictionaries
  BY DEF TypeOK
<1>3. Cardinality(Filtered(request[c], kernel[c].entries)) \in Nat
  BY <1>2, FilteredCount
<1>4. RefusedLine(c) \in Line
  BY DEF RefusedLine, Refusal, Line, FailureReason, NoCount
<1>5. IntentLine(c) \in Line
  BY DEF IntentLine, Line, NoCount
<1>6. CorrectiveLine(c) \in Line
  BY <1>1 DEF CorrectiveLine, Line, NoCount
<1>7. ResultLine(c) \in Line
  BY <1>3 DEF ResultLine, Line
<1> QED
  BY <1>4, <1>5, <1>6, <1>7

\* The shapes hold before any call.
LEMMA InitTypeOK == Init => TypeOK
<1> SUFFICES ASSUME Init PROVE TypeOK
  OBVIOUS
<1>1. EmptyFile \in File /\ ~EmptyFile.open
  BY EmptySeq DEF EmptyFile, File
<1> QED
  BY <1>1 DEF Init, TypeOK, Uncalled, NoResponse, AbsentFile

\* A call that loses its record leaves a file, and answers a failure.
LEMMA LosesAuditType ==
    ASSUME TypeOK, NEW c \in Call, NEW line \in Line, LosesAudit(c, line)
    PROVE  /\ audit' \in File
           /\ audit'.open => audit'.lines # << >>
           /\ pc' \in [Call -> {"ready", "intent", "kernel", "returned", "crashed"}]
           /\ response' \in [Call -> [outcome: {"none", "accepted", "failed"},
                                      reason: FailureReason \cup {"none"},
                                      entries: SUBSET Entry]]
<1>1. audit \in File /\ (audit.open => audit.lines # << >>)
  BY DEF TypeOK
<1>2. PICK fault \in AppendFaults : audit' = AfterFault(audit, line, fault)
  BY DEF LosesAudit
<1>3. fault \in AppendFault
  BY RestorationAssumption
<1>4. audit' \in File /\ (audit'.open => audit'.lines # << >>)
  BY <1>1, <1>2, <1>3, AfterFaultFile DEF File, FileOver
<1> QED
  BY <1>4 DEF LosesAudit, Return, Failed, TypeOK, FailureReason

\* The same of a call that records a line and goes on, or answers.
LEMMA AppendsType ==
    ASSUME TypeOK, NEW line \in Line, audit' = Appended(audit, line)
    PROVE  audit' \in File /\ (audit'.open => audit'.lines # << >>)
BY AppendedFile DEF TypeOK, File, FileOver

\* Every step keeps the shapes, whatever its append leaves behind.
LEMMA NextTypeOK == TypeOK /\ [Next]_vars => TypeOK'
<1> SUFFICES ASSUME TypeOK, [Next]_vars PROVE TypeOK'
  OBVIOUS
<1>1. ASSUME NEW c \in Call, Refuse(c) PROVE TypeOK'
  <2>1. CASE LosesAudit(c, RefusedLine(c))
    BY <1>1, <2>1, LosesAuditType, LineTypes DEF Refuse, TypeOK
  <2>2. CASE /\ audit' = Appended(audit, RefusedLine(c))
             /\ Return(c, Failed(Refusal(request[c])))
    <3>1. Refusal(request[c]) \in FailureReason \cup {"none"}
      BY DEF Refusal, FailureReason
    <3>2. audit' \in File /\ (audit'.open => audit'.lines # << >>)
      BY <2>2, AppendsType, LineTypes
    <3> QED
      BY <1>1, <2>2, <3>1, <3>2 DEF Refuse, Return, Failed, TypeOK
  <2> QED
    BY <1>1, <2>1, <2>2 DEF Refuse
<1>2. ASSUME NEW c \in Call, RecordIntent(c) PROVE TypeOK'
  <2>1. CASE LosesAudit(c, IntentLine(c))
    BY <1>2, <2>1, LosesAuditType, LineTypes DEF RecordIntent, TypeOK
  <2>2. CASE /\ audit' = Appended(audit, IntentLine(c))
             /\ pc' = [pc EXCEPT ![c] = "intent"]
             /\ UNCHANGED response
    <3>1. audit' \in File /\ (audit'.open => audit'.lines # << >>)
      BY <2>2, AppendsType, LineTypes
    <3> QED
      BY <1>2, <2>2, <3>1 DEF RecordIntent, TypeOK
  <2> QED
    BY <1>2, <2>1, <2>2 DEF RecordIntent
<1>3. ASSUME NEW c \in Call, KernelReturns(c) PROVE TypeOK'
  <2>1. private[request[c].doc].entries \in {{}} \cup Dictionaries
    BY RestorationAssumption DEF TypeOK
  <2> QED
    BY <1>3, <2>1 DEF KernelReturns, TypeOK
<1>4. ASSUME NEW c \in Call, KernelRaises(c) PROVE TypeOK'
  BY <1>4 DEF KernelRaises, TypeOK
<1>5. ASSUME NEW c \in Call, RecordFailure(c) PROVE TypeOK'
  <2>1. CASE LosesAudit(c, CorrectiveLine(c))
    BY <1>5, <2>1, LosesAuditType, LineTypes DEF RecordFailure, TypeOK
  <2>2. CASE /\ audit' = Appended(audit, CorrectiveLine(c))
             /\ Return(c, Failed(kernel[c].reason))
    <3>1. kernel[c].reason \in FailureReason \cup {"none"}
      BY DEF TypeOK, FailureReason
    <3>2. audit' \in File /\ (audit'.open => audit'.lines # << >>)
      BY <2>2, AppendsType, LineTypes
    <3> QED
      BY <1>5, <2>2, <3>1, <3>2 DEF RecordFailure, Return, Failed, TypeOK
  <2> QED
    BY <1>5, <2>1, <2>2 DEF RecordFailure
<1>6. ASSUME NEW c \in Call, RecordResult(c) PROVE TypeOK'
  <2>1. CASE LosesAudit(c, ResultLine(c))
    BY <1>6, <2>1, LosesAuditType, LineTypes DEF RecordResult, TypeOK
  <2>2. CASE /\ audit' = Appended(audit, ResultLine(c))
             /\ Return(c, Accepted(Filtered(request[c], kernel[c].entries)))
    <3>1. Filtered(request[c], kernel[c].entries) \in SUBSET Entry
      BY FilteredCount DEF TypeOK
    <3>2. audit' \in File /\ (audit'.open => audit'.lines # << >>)
      BY <2>2, AppendsType, LineTypes
    <3> QED
      BY <1>6, <2>2, <3>1, <3>2 DEF RecordResult, Return, Accepted, TypeOK
  <2> QED
    BY <1>6, <2>1, <2>2 DEF RecordResult
<1>7. ASSUME NEW c \in Call, Crash(c) PROVE TypeOK'
  BY <1>7 DEF Crash, TypeOK
<1>8. ASSUME NEW d \in Doc, BeginWrite(d) PROVE TypeOK'
  BY <1>8 DEF BeginWrite, TypeOK, TornFile
<1>9. ASSUME NEW d \in Doc, EndWrite(d) PROVE TypeOK'
  BY <1>9 DEF EndWrite, TypeOK, WholeFile
<1>10. CASE UNCHANGED vars
  BY <1>10 DEF vars, TypeOK
<1> QED
  BY <1>1, <1>2, <1>3, <1>4, <1>5, <1>6, <1>7, <1>8, <1>9, <1>10 DEF Next, Step

\* In every reachable state the audit file is a sequence of lines, only its
\* last line can be torn, and counts, reasons and contents are of their types.
THEOREM TypeCorrect == Spec => []TypeOK
<1> QED
  BY InitTypeOK, NextTypeOK, PTL DEF Spec

-----------------------------------------------------------------------------
\* What is on record stays

\* Every step writes one line, or a part of one, or leaves the file alone.
LEMMA NextKeeps ==
    TypeOK /\ TornTail(audit) /\ [Next]_vars => Keeps(audit, audit') /\ TornTail(audit')
<1> SUFFICES ASSUME TypeOK, TornTail(audit), [Next]_vars
             PROVE  Keeps(audit, audit') /\ TornTail(audit')
  OBVIOUS
<1>1. audit \in File
  BY DEF TypeOK
<1>2. ASSUME NEW c \in Call, NEW line \in Line,
             audit' = Appended(audit, line) \/ LosesAudit(c, line)
      PROVE  Keeps(audit, audit') /\ TornTail(audit')
  <2>1. \/ audit' = Appended(audit, line)
        \/ \E fault \in AppendFault : audit' = AfterFault(audit, line, fault)
    BY <1>2, RestorationAssumption DEF LosesAudit
  <2> QED
    BY <1>1, <2>1, WritesKeep DEF File, FileOver
<1>3. ASSUME audit' = audit PROVE Keeps(audit, audit') /\ TornTail(audit')
  BY <1>3 DEF Keeps
<1>4. ASSUME NEW c \in Call, Refuse(c) PROVE Keeps(audit, audit') /\ TornTail(audit')
  BY <1>2, <1>4, LineTypes DEF Refuse
<1>5. ASSUME NEW c \in Call, RecordIntent(c) PROVE Keeps(audit, audit') /\ TornTail(audit')
  BY <1>2, <1>5, LineTypes DEF RecordIntent
<1>6. ASSUME NEW c \in Call, RecordFailure(c) PROVE Keeps(audit, audit') /\ TornTail(audit')
  BY <1>2, <1>6, LineTypes DEF RecordFailure
<1>7. ASSUME NEW c \in Call, RecordResult(c) PROVE Keeps(audit, audit') /\ TornTail(audit')
  BY <1>2, <1>7, LineTypes DEF RecordResult
<1> QED
  BY <1>3, <1>4, <1>5, <1>6, <1>7
     DEF Next, Step, KernelReturns, KernelRaises, Crash, BeginWrite, EndWrite, vars

\* The audit file is append-only, whatever appends that fail leave behind: no
\* step changes or removes a line that is there.
THEOREM NothingRewritten == Spec => AppendOnly
<1>1. Init => TornTail(audit)
  BY DEF Init, EmptyFile, TornTail
<1>2. TypeOK /\ TornTail(audit) /\ [Next]_vars => TornTail(audit)'
  BY NextKeeps DEF TornTail
<1>3. TypeOK /\ TornTail(audit) /\ [Next]_vars =>
        [\A i \in DOMAIN audit.lines :
            i \in DOMAIN audit'.lines /\ audit'.lines[i] = audit.lines[i]]_audit
  BY NextKeeps DEF Keeps
<1> QED
  BY <1>1, <1>2, <1>3, TypeCorrect, PTL DEF Spec, AppendOnly

-----------------------------------------------------------------------------
\* The inductive invariant, where no append is torn

\* An append that succeeds adds the line at the end, to the records of the call
\* it names, and disturbs no other.
LEMMA AppendLines ==
    ASSUME TypeOK, ~audit.open, NEW line \in Line, audit' = Appended(audit, line),
           NEW c \in Call
    PROVE  /\ ~audit'.open
           /\ \A i \in LinesOf(c) : /\ audit'.lines[i] = audit.lines[i]
                                    /\ i \in 1..Len(audit.lines)
           /\ line.id # c => LinesOf(c)' = LinesOf(c)
           /\ line.id = c => LinesOf(c)' = LinesOf(c) \cup {Len(audit.lines) + 1}
           /\ audit'.lines[Len(audit.lines) + 1] = line
<1> DEFINE lines == audit.lines
           S     == Line \cup {Garbled}
<1>1. lines \in Seq(S) /\ line \in S
  BY DEF TypeOK, File
<1>2. audit'.lines = Append(lines, line) /\ audit'.open = FALSE
  BY DEF Appended
<1>3. /\ Len(audit'.lines) = Len(lines) + 1
      /\ \A i \in 1..Len(lines) : audit'.lines[i] = lines[i]
      /\ audit'.lines[Len(lines) + 1] = line
      /\ audit'.lines \in Seq(S)
  <2> HIDE DEF lines, S
  <2> QED
    BY <1>1, <1>2, AppendProperties
<1>4. DOMAIN lines = 1..Len(lines) /\ Len(lines) \in Nat
  BY <1>1
<1>5. DOMAIN audit'.lines = 1..(Len(lines) + 1)
  BY <1>3, <1>4
<1>6. line # Garbled
  BY RestorationAssumption
<1> HIDE DEF lines, S
<1>7. LinesOf(c) \subseteq 1..Len(lines)
  BY <1>4 DEF LinesOf, lines
<1>8. ASSUME line.id # c PROVE LinesOf(c)' = LinesOf(c)
  BY <1>3, <1>4, <1>5, <1>8 DEF LinesOf, lines
<1>9. ASSUME line.id = c PROVE LinesOf(c)' = LinesOf(c) \cup {Len(lines) + 1}
  BY <1>3, <1>4, <1>5, <1>6, <1>9 DEF LinesOf, lines
<1> QED
  BY <1>2, <1>3, <1>7, <1>8, <1>9 DEF lines

\* A step that leaves a call and its records alone preserves its invariant.
LEMMA CallInvFrame ==
    ASSUME NEW c \in Call, CallInv(c),
           request'[c] = request[c], pc'[c] = pc[c],
           kernel'[c] = kernel[c], response'[c] = response[c],
           LinesOf(c)' = LinesOf(c),
           \A i \in LinesOf(c) : audit'.lines[i] = audit.lines[i]
    PROVE  CallInv(c)'
<1>1. IntentLine(c)' = IntentLine(c)
  BY DEF IntentLine
<1>2. (OnlyIntent(c) => OnlyIntent(c)') /\ (Guarded(c) => Guarded(c)')
  BY <1>1 DEF OnlyIntent, Guarded
<1>3. Accounted(c) => Accounted(c)'
  BY <1>1 DEF Accounted
<1>4. Explained(c) => Explained(c)'
  BY DEF Explained
<1>5. Patterned(c) => Patterned(c)'
  BY <1>1 DEF Patterned
<1> QED
  BY <1>2, <1>3, <1>4, <1>5 DEF CallInv

\* A first record, or a settling one after the intent, keeps to the pattern.
LEMMA PatternedAppend ==
    ASSUME TypeOK, ~audit.open, NEW c \in Call, NEW line \in Line,
           audit' = Appended(audit, line), line.id = c,
           \/ LinesOf(c) = {}
           \/ OnlyIntent(c) /\ (line.count # NoCount \/ line.outcome = "failed")
    PROVE  Patterned(c)'
<1>1. Len(audit.lines) \in Nat
  BY DEF TypeOK, File
<1>2. IntentLine(c)' = IntentLine(c)
  BY DEF IntentLine
<1> QED
  BY <1>1, <1>2, AppendLines DEF Patterned, OnlyIntent

\* The record of a call that goes on to lose it, or not, does not tear the file.
LEMMA NoTear ==
    ASSUME "partial" \notin AppendFaults, NEW c \in Call, NEW line,
           LosesAudit(c, line)
    PROVE  audit' = audit \/ audit' = Appended(audit, line)
BY RestorationAssumption DEF LosesAudit, AfterFault, AppendFault

\* A call whose record is lost answers a failure: whatever the append left.
LEMMA LosesAuditCallInv ==
    ASSUME IInv, "partial" \notin AppendFaults, NEW c \in Call, NEW line \in Line,
           LosesAudit(c, line), line.id = c, UNCHANGED <<request, kernel>>,
           \/ LinesOf(c) = {} /\ kernel[c].state = "uncalled"
           \/ /\ OnlyIntent(c) /\ Refusal(request[c]) = "none"
              /\ line.count # NoCount \/ line.outcome = "failed"
    PROVE  ~audit'.open /\ CallInv(c)'
<1>1. /\ TypeOK /\ ~audit.open /\ CallInv(c)
  BY DEF IInv
<1>2. /\ pc'[c] = "returned"
      /\ response'[c] = Failed("audit_write_failed")
  BY <1>1 DEF LosesAudit, Return, TypeOK
<1>3. Accounted(c)' /\ Explained(c)'
  BY <1>2 DEF Accounted, Explained, Failed
<1>4. IntentLine(c)' = IntentLine(c)
  BY DEF IntentLine
<1>5. CASE audit' = audit
  <2>1. LinesOf(c)' = LinesOf(c)
    BY <1>5 DEF LinesOf
  <2>2. Guarded(c)' /\ Patterned(c)'
    BY <1>1, <1>2, <1>4, <1>5, <2>1 DEF CallInv, Guarded, Patterned
  <2> QED
    BY <1>1, <1>2, <1>3, <1>5, <2>2 DEF CallInv
<1>6. CASE audit' = Appended(audit, line)
  <2>1. Guarded(c)'
    BY <1>1, <1>2, <1>4, <1>6, AppendLines DEF CallInv, Guarded, OnlyIntent
  <2>2. Patterned(c)'
    BY <1>1, <1>6, PatternedAppend
  <2>3. ~audit'.open
    BY <1>1, <1>6, AppendLines
  <2> QED
    BY <1>2, <1>3, <2>1, <2>2, <2>3 DEF CallInv
<1> QED
  BY <1>5, <1>6, NoTear

\* A call that is refused: its refusal is its one line, or it has none.
LEMMA RefuseCallInv ==
    ASSUME IInv, "partial" \notin AppendFaults, NEW c \in Call, Refuse(c)
    PROVE  ~audit'.open /\ CallInv(c)'
<1>1. /\ TypeOK /\ ~audit.open /\ CallInv(c)
      /\ pc[c] = "ready" /\ LinesOf(c) = {} /\ kernel[c] = Uncalled
  BY DEF IInv, CallInv, Refuse
<1>2. RefusedLine(c) \in Line /\ RefusedLine(c).id = c
  BY <1>1, LineTypes DEF RefusedLine
<1>3. CASE LosesAudit(c, RefusedLine(c))
  BY <1>1, <1>2, <1>3, LosesAuditCallInv DEF Refuse, Uncalled
<1>4. CASE /\ audit' = Appended(audit, RefusedLine(c))
           /\ Return(c, Failed(Refusal(request[c])))
  <2>1. pc'[c] = "returned" /\ response'[c] = Failed(Refusal(request[c]))
    BY <1>1, <1>4 DEF Return, TypeOK
  <2>2. Patterned(c)'
    BY <1>1, <1>2, <1>4, PatternedAppend
  <2>3. LinesOf(c)' = {Len(audit.lines) + 1}
    BY <1>1, <1>2, <1>4, AppendLines
  <2>4. /\ audit'.lines[Len(audit.lines) + 1] = RefusedLine(c)
        /\ ~audit'.open
    BY <1>1, <1>2, <1>4, AppendLines
  <2>5. Explained(c)'
    <3>1. Len(audit.lines) + 1 <= Len(audit.lines) + 1
      BY <1>1 DEF TypeOK, File
    <3> QED
      BY <2>1, <2>3, <2>4, <3>1 DEF Explained, RefusedLine, Failed
  <2>6. Accounted(c)'
    BY <2>1 DEF Accounted, Failed
  <2>7. Guarded(c)'
    BY <1>1, <2>1 DEF Guarded, Refuse, Uncalled
  <2> QED
    BY <2>1, <2>2, <2>4, <2>5, <2>6, <2>7 DEF CallInv
<1> QED
  BY <1>3, <1>4 DEF Refuse

\* A call that passed the gates: its intent is its one line, or it has none.
LEMMA RecordIntentCallInv ==
    ASSUME IInv, "partial" \notin AppendFaults, NEW c \in Call, RecordIntent(c)
    PROVE  ~audit'.open /\ CallInv(c)'
<1>1. /\ TypeOK /\ ~audit.open /\ CallInv(c)
      /\ pc[c] = "ready" /\ LinesOf(c) = {} /\ kernel[c] = Uncalled
      /\ response[c] = NoResponse
  BY DEF IInv, CallInv, RecordIntent
<1>2. IntentLine(c) \in Line /\ IntentLine(c).id = c
  BY <1>1, LineTypes DEF IntentLine
<1>3. CASE LosesAudit(c, IntentLine(c))
  BY <1>1, <1>2, <1>3, LosesAuditCallInv DEF RecordIntent, Uncalled
<1>4. CASE /\ audit' = Appended(audit, IntentLine(c))
           /\ pc' = [pc EXCEPT ![c] = "intent"]
           /\ UNCHANGED response
  <2>1. pc'[c] = "intent" /\ response'[c] = NoResponse
    BY <1>1, <1>4 DEF TypeOK
  <2>2. Patterned(c)'
    BY <1>1, <1>2, <1>4, PatternedAppend
  <2>3. /\ LinesOf(c)' = {Len(audit.lines) + 1}
        /\ audit'.lines[Len(audit.lines) + 1] = IntentLine(c)
        /\ ~audit'.open
    BY <1>1, <1>2, <1>4, AppendLines
  <2>4. IntentLine(c)' = IntentLine(c)
    BY DEF IntentLine
  <2>5. OnlyIntent(c)'
    BY <2>3, <2>4 DEF OnlyIntent
  <2>6. Guarded(c)'
    BY <2>3, <2>4 DEF Guarded, RecordIntent
  <2>7. Accounted(c)' /\ Explained(c)'
    BY <2>1 DEF Accounted, Explained, NoResponse
  <2> QED
    BY <1>1, <2>1, <2>2, <2>3, <2>5, <2>6, <2>7 DEF CallInv, RecordIntent
<1> QED
  BY <1>3, <1>4 DEF RecordIntent

\* The kernel writes no line.
LEMMA KernelCallInv ==
    ASSUME IInv, NEW c \in Call, KernelReturns(c) \/ KernelRaises(c)
    PROVE  ~audit'.open /\ CallInv(c)'
<1>1. /\ TypeOK /\ ~audit.open /\ CallInv(c) /\ pc[c] = "intent"
      /\ UNCHANGED <<request, response, audit>>
      /\ pc'[c] = "kernel"
  BY DEF IInv, KernelReturns, KernelRaises, TypeOK
<1>2. IntentLine(c)' = IntentLine(c) /\ LinesOf(c)' = LinesOf(c)
  BY <1>1 DEF IntentLine, LinesOf
<1>3. OnlyIntent(c)' /\ Refusal(request'[c]) = "none"
  BY <1>1, <1>2 DEF CallInv, OnlyIntent
<1>4. Guarded(c)'
  BY <1>2, <1>3 DEF Guarded, OnlyIntent
<1>5. Accounted(c)' /\ Explained(c)' /\ Patterned(c)'
  BY <1>1, <1>2 DEF CallInv, Accounted, Explained, Patterned
<1> QED
  BY <1>1, <1>3, <1>4, <1>5 DEF CallInv

\* The corrective record joins the intent, or the call says that it could not.
LEMMA RecordFailureCallInv ==
    ASSUME IInv, "partial" \notin AppendFaults, NEW c \in Call, RecordFailure(c)
    PROVE  ~audit'.open /\ CallInv(c)'
<1>1. /\ TypeOK /\ ~audit.open /\ CallInv(c)
      /\ OnlyIntent(c) /\ Refusal(request[c]) = "none"
      /\ UNCHANGED <<request, kernel>>
  BY DEF IInv, CallInv, RecordFailure
<1>2. /\ CorrectiveLine(c) \in Line
      /\ CorrectiveLine(c).id = c
      /\ CorrectiveLine(c).outcome = "failed"
      /\ CorrectiveLine(c).reason = kernel[c].reason
  BY <1>1, LineTypes DEF CorrectiveLine
<1>3. CASE LosesAudit(c, CorrectiveLine(c))
  BY <1>1, <1>2, <1>3, LosesAuditCallInv
<1>4. CASE /\ audit' = Appended(audit, CorrectiveLine(c))
           /\ Return(c, Failed(kernel[c].reason))
  <2>1. pc'[c] = "returned" /\ response'[c] = Failed(kernel[c].reason)
    BY <1>1, <1>4 DEF Return, TypeOK
  <2>2. Patterned(c)'
    BY <1>1, <1>2, <1>4, PatternedAppend
  <2>3. /\ LinesOf(c)' = LinesOf(c) \cup {Len(audit.lines) + 1}
        /\ audit'.lines[Len(audit.lines) + 1] = CorrectiveLine(c)
        /\ \A i \in LinesOf(c) : /\ audit'.lines[i] = audit.lines[i]
                                 /\ i \in 1..Len(audit.lines)
        /\ ~audit'.open
    BY <1>1, <1>2, <1>4, AppendLines
  <2>4. IntentLine(c)' = IntentLine(c)
    BY DEF IntentLine
  <2>5. Explained(c)'
    <3>1. Len(audit.lines) \in Nat
      BY <1>1 DEF TypeOK, File
    <3>2. \A j \in LinesOf(c)' : j <= Len(audit.lines) + 1
      BY <2>3, <3>1
    <3> QED
      BY <1>2, <2>1, <2>3, <3>2 DEF Explained, Failed
  <2>6. Guarded(c)'
    BY <1>1, <2>3, <2>4 DEF Guarded, OnlyIntent
  <2>7. Accounted(c)'
    BY <2>1 DEF Accounted, Failed
  <2> QED
    BY <2>1, <2>2, <2>3, <2>5, <2>6, <2>7 DEF CallInv
<1> QED
  BY <1>3, <1>4 DEF RecordFailure

\* The result record joins the intent before anything is disclosed.
LEMMA RecordResultCallInv ==
    ASSUME IInv, "partial" \notin AppendFaults, NEW c \in Call, RecordResult(c)
    PROVE  ~audit'.open /\ CallInv(c)'
<1> DEFINE handed == Filtered(request[c], kernel[c].entries)
<1>1. /\ TypeOK /\ ~audit.open /\ CallInv(c)
      /\ OnlyIntent(c) /\ Refusal(request[c]) = "none"
      /\ UNCHANGED <<request, kernel>>
  BY DEF IInv, CallInv, RecordResult
<1>2. /\ ResultLine(c) \in Line
      /\ ResultLine(c).id = c
      /\ ResultLine(c).outcome = "accepted"
      /\ ResultLine(c).count = Cardinality(handed)
      /\ ResultLine(c).count # NoCount
  <2>1. Cardinality(handed) \in Nat
    BY <1>1, FilteredCount DEF TypeOK
  <2> QED
    BY <1>1, <2>1, LineTypes DEF ResultLine, NoCount
<1>3. CASE LosesAudit(c, ResultLine(c))
  BY <1>1, <1>2, <1>3, LosesAuditCallInv
<1>4. CASE audit' = Appended(audit, ResultLine(c)) /\ Return(c, Accepted(handed))
  <2>1. pc'[c] = "returned" /\ response'[c] = Accepted(handed)
    BY <1>1, <1>4 DEF Return, TypeOK
  <2>2. Patterned(c)'
    BY <1>1, <1>2, <1>4, PatternedAppend
  <2>3. /\ LinesOf(c)' = LinesOf(c) \cup {Len(audit.lines) + 1}
        /\ audit'.lines[Len(audit.lines) + 1] = ResultLine(c)
        /\ \A i \in LinesOf(c) : /\ audit'.lines[i] = audit.lines[i]
                                 /\ i \in 1..Len(audit.lines)
        /\ ~audit'.open
    BY <1>1, <1>2, <1>4, AppendLines
  <2>4. IntentLine(c)' = IntentLine(c)
    BY DEF IntentLine
  <2>5. PICK i \in LinesOf(c) : LinesOf(c) = {i} /\ audit.lines[i] = IntentLine(c)
    BY <1>1 DEF OnlyIntent
  <2>6. Accounted(c)'
    <3>1. Len(audit.lines) \in Nat
      BY <1>1 DEF TypeOK, File
    <3>2. i < Len(audit.lines) + 1
      BY <2>3, <2>5, <3>1
    <3>3. LinesOf(c)' = {i, Len(audit.lines) + 1}
      BY <2>3, <2>5
    <3>4. response'[c].entries = handed
      BY <2>1 DEF Accepted
    <3> QED
      BY <1>2, <2>3, <2>4, <2>5, <3>2, <3>3, <3>4 DEF Accounted
  <2>7. Guarded(c)'
    BY <1>1, <2>3, <2>4, <2>5 DEF Guarded
  <2>8. Explained(c)'
    BY <2>1 DEF Explained, Accepted
  <2> QED
    BY <2>1, <2>2, <2>3, <2>6, <2>7, <2>8 DEF CallInv
<1> QED
  BY <1>3, <1>4 DEF RecordResult

\* A call that dies is answered nothing.
LEMMA CrashCallInv ==
    ASSUME IInv, NEW c \in Call, Crash(c)
    PROVE  ~audit'.open /\ CallInv(c)'
<1>1. /\ TypeOK /\ ~audit.open /\ CallInv(c)
      /\ UNCHANGED <<request, kernel, response, audit>>
      /\ pc'[c] = "crashed" /\ pc[c] # "returned"
  BY DEF IInv, Crash, TypeOK
<1>2. IntentLine(c)' = IntentLine(c) /\ LinesOf(c)' = LinesOf(c)
  BY <1>1 DEF IntentLine, LinesOf
<1>3. Guarded(c)' /\ Accounted(c)' /\ Explained(c)' /\ Patterned(c)'
  BY <1>1, <1>2 DEF CallInv, Guarded, Accounted, Explained, Patterned
<1> QED
  BY <1>1, <1>3 DEF CallInv

\* A step of one call leaves every other call and its records alone.
LEMMA OtherCallInv ==
    ASSUME IInv, "partial" \notin AppendFaults, NEW c \in Call,
           Step(c) \/ Crash(c), NEW b \in Call, b # c
    PROVE  CallInv(b)'
<1>1. TypeOK /\ ~audit.open /\ CallInv(b)
  BY DEF IInv
<1>2. /\ request'[b] = request[b] /\ pc'[b] = pc[b]
      /\ kernel'[b] = kernel[b] /\ response'[b] = response[b]
  BY <1>1 DEF Step, Crash, Refuse, RecordIntent, KernelReturns, KernelRaises,
              RecordFailure, RecordResult, LosesAudit, Return, TypeOK
<1>3. \/ audit' = audit
      \/ \E line \in Line : line.id = c /\ audit' = Appended(audit, line)
  <2>1. /\ RefusedLine(c).id = c /\ IntentLine(c).id = c
        /\ CorrectiveLine(c).id = c /\ ResultLine(c).id = c
    BY DEF RefusedLine, IntentLine, CorrectiveLine, ResultLine
  <2> QED
    BY <1>1, <2>1, LineTypes, NoTear
       DEF Step, Crash, Refuse, RecordIntent, KernelReturns, KernelRaises,
           RecordFailure, RecordResult
<1>4. LinesOf(b)' = LinesOf(b) /\ \A i \in LinesOf(b) : audit'.lines[i] = audit.lines[i]
  <2>1. CASE audit' = audit
    BY <2>1 DEF LinesOf
  <2>2. ASSUME NEW line \in Line, line.id = c, audit' = Appended(audit, line)
        PROVE  /\ LinesOf(b)' = LinesOf(b)
               /\ \A i \in LinesOf(b) : audit'.lines[i] = audit.lines[i]
    BY <1>1, <2>2, AppendLines
  <2> QED
    BY <1>3, <2>1, <2>2
<1> QED
  BY <1>1, <1>2, <1>4, CallInvFrame

\* No call has begun, and no line is a call's.
LEMMA InitIInv == Init => IInv
<1> SUFFICES ASSUME Init PROVE IInv
  OBVIOUS
<1>1. ~audit.open /\ \A c \in Call : LinesOf(c) = {}
  BY DEF Init, EmptyFile, LinesOf
<1> QED
  BY <1>1, InitTypeOK DEF Init, IInv, CallInv, Guarded, Accounted, Explained,
                          Patterned, Uncalled, NoResponse

\* Every step keeps the invariant, if no append tears its line.
LEMMA NextIInv ==
    ASSUME "partial" \notin AppendFaults
    PROVE  IInv /\ [Next]_vars => IInv'
<1> SUFFICES ASSUME IInv, [Next]_vars PROVE IInv'
  OBVIOUS
<1>1. TypeOK'
  BY NextTypeOK DEF IInv
<1>2. ASSUME NEW c \in Call, Step(c) \/ Crash(c) PROVE IInv'
  <2>1. ~audit'.open /\ CallInv(c)'
    BY <1>2, RefuseCallInv, RecordIntentCallInv, KernelCallInv,
       RecordFailureCallInv, RecordResultCallInv, CrashCallInv DEF Step
  <2> QED
    BY <1>1, <1>2, <2>1, OtherCallInv DEF IInv
<1>3. ASSUME UNCHANGED <<request, pc, kernel, response, audit>> PROVE IInv'
  <2>1. \A c \in Call : LinesOf(c)' = LinesOf(c)
    BY <1>3 DEF LinesOf
  <2> QED
    BY <1>1, <1>3, <2>1, CallInvFrame DEF IInv
<1> QED
  BY <1>2, <1>3 DEF Next, vars, BeginWrite, EndWrite

\* Where no append is torn, the records of every call say how far it came.
THEOREM Inductive == "partial" \notin AppendFaults => (Spec => []IInv)
<1> SUFFICES ASSUME "partial" \notin AppendFaults PROVE Spec => []IInv
  OBVIOUS
<1> QED
  BY InitIInv, NextIInv, PTL DEF Spec

\* The kernel reads private values only for a call that passed every gate and
\* whose intent can be read back from the audit file.
THEOREM KernelGuarded ==
    "partial" \notin AppendFaults => (Spec => []KernelOnlyAfterIntent)
<1> SUFFICES ASSUME "partial" \notin AppendFaults
             PROVE  Spec => []KernelOnlyAfterIntent
  OBVIOUS
<1>1. IInv => KernelOnlyAfterIntent
  BY DEF IInv, CallInv, KernelOnlyAfterIntent
<1> QED
  BY <1>1, Inductive, PTL

\* Every disclosure has its intent and, after it, a result with its count.
THEOREM DisclosuresAudited ==
    "partial" \notin AppendFaults => (Spec => []DisclosureAudited)
<1> SUFFICES ASSUME "partial" \notin AppendFaults
             PROVE  Spec => []DisclosureAudited
  OBVIOUS
<1>1. IInv => DisclosureAudited
  BY DEF IInv, CallInv, DisclosureAudited
<1> QED
  BY <1>1, Inductive, PTL

\* The last record of a call that was answered a reason of its own is that
\* failure.
THEOREM FailuresAudited ==
    "partial" \notin AppendFaults => (Spec => []FailureAudited)
<1> SUFFICES ASSUME "partial" \notin AppendFaults
             PROVE  Spec => []FailureAudited
  OBVIOUS
<1>1. IInv => FailureAudited
  BY DEF IInv, CallInv, FailureAudited
<1> QED
  BY <1>1, Inductive, PTL

\* No call has a record beyond one of the documented patterns.
THEOREM RecordsPatterned ==
    "partial" \notin AppendFaults => (Spec => []RecordPattern)
<1> SUFFICES ASSUME "partial" \notin AppendFaults
             PROVE  Spec => []RecordPattern
  OBVIOUS
<1>1. IInv => RecordPattern
  BY DEF IInv, CallInv, RecordPattern
<1> QED
  BY <1>1, Inductive, PTL

-----------------------------------------------------------------------------
\* Restoration implements audited disclosure

\* A line of a call puts that call, and no other, on the ledger: as intended
\* when it is its intent, as closed when it has a count.
LEMMA LedgerAppend ==
    ASSUME TypeOK, ~audit.open, UNCHANGED request, NEW c \in Call, NEW line \in Line,
           line.id = c, audit' = Appended(audit, line)
    PROVE  /\ IntendedCalls' = IntendedCalls \cup (IF line = IntentLine(c) THEN {c} ELSE {})
           /\ ClosedCalls' = ClosedCalls \cup (IF line.count # NoCount THEN {c} ELSE {})
<1>1. ASSUME NEW b \in Call
      PROVE  /\ \A i \in LinesOf(b) : audit'.lines[i] = audit.lines[i]
             /\ b # c => LinesOf(b)' = LinesOf(b)
             /\ b = c => /\ LinesOf(b)' = LinesOf(b) \cup {Len(audit.lines) + 1}
                        /\ audit'.lines[Len(audit.lines) + 1] = line
             /\ IntentLine(b)' = IntentLine(b)
  BY AppendLines DEF IntentLine
<1>2. ASSUME NEW b \in Call
      PROVE  b \in IntendedCalls' <=> b \in IntendedCalls \/ (b = c /\ line = IntentLine(c))
  <2>1. CASE b = c
    BY <1>1, <2>1 DEF IntendedCalls
  <2>2. CASE b # c
    BY <1>1, <2>2 DEF IntendedCalls
  <2> QED
    BY <2>1, <2>2
<1>3. ASSUME NEW b \in Call
      PROVE  b \in ClosedCalls' <=> b \in ClosedCalls \/ (b = c /\ line.count # NoCount)
  <2>1. CASE b = c
    BY <1>1, <2>1 DEF ClosedCalls
  <2>2. CASE b # c
    BY <1>1, <2>2 DEF ClosedCalls
  <2> QED
    BY <2>1, <2>2
<1>4. IntendedCalls \subseteq Call /\ IntendedCalls' \subseteq Call
  BY DEF IntendedCalls
<1>5. ClosedCalls \subseteq Call /\ ClosedCalls' \subseteq Call
  BY DEF ClosedCalls
<1> QED
  BY <1>2, <1>3, <1>4, <1>5

\* The ledger is read off the requests and the audit file alone.
LEMMA LedgerSame ==
    ASSUME UNCHANGED <<request, audit>>
    PROVE  IntendedCalls' = IntendedCalls /\ ClosedCalls' = ClosedCalls
BY DEF IntendedCalls, ClosedCalls, LinesOf, IntentLine

\* Who is disclosed to changes with the answer of the call that moves.
LEMMA DisclosedStep ==
    ASSUME NEW c \in Call, \A b \in Call : b # c => response'[b] = response[b]
    PROVE  /\ response'[c].outcome = "accepted" => DisclosedCalls' = DisclosedCalls \cup {c}
           /\ /\ response'[c].outcome # "accepted"
              /\ response[c].outcome # "accepted"
              => DisclosedCalls' = DisclosedCalls
BY DEF DisclosedCalls

\* A call that appends a line, or loses it, is for the ledger a step of its
\* own or a stutter.
LEMMA SettleImplements ==
    ASSUME IInv, "partial" \notin AppendFaults, NEW c \in Call, NEW line \in Line,
           line.id = c, UNCHANGED request, pc[c] # "returned",
           audit' = audit \/ audit' = Appended(audit, line),
           \A b \in Call : b # c => response'[b] = response[b],
           response'[c].outcome = "accepted" =>
               line.count # NoCount /\ audit' = Appended(audit, line),
           line = IntentLine(c) => Refusal(request[c]) = "none" /\ pc[c] = "ready",
           line.count # NoCount => OnlyIntent(c)
    PROVE  [Abstract!Next]_(Abstract!vars)
<1>1. /\ TypeOK /\ ~audit.open
      /\ response[c] = NoResponse
      /\ AuthorisedCalls' = AuthorisedCalls
      /\ pc[c] = "ready" => LinesOf(c) = {}
  BY DEF IInv, CallInv, AuthorisedCalls
<1>2. /\ response'[c].outcome = "accepted" => DisclosedCalls' = DisclosedCalls \cup {c}
      /\ response'[c].outcome # "accepted" => DisclosedCalls' = DisclosedCalls
  BY <1>1, DisclosedStep DEF NoResponse
<1>3. CASE audit' = audit /\ response'[c].outcome # "accepted"
  BY <1>1, <1>2, <1>3, LedgerSame DEF Abstract!vars
<1>4. CASE audit' = Appended(audit, line)
  <2>1. /\ IntendedCalls' = IntendedCalls \cup (IF line = IntentLine(c) THEN {c} ELSE {})
        /\ ClosedCalls' = ClosedCalls \cup (IF line.count # NoCount THEN {c} ELSE {})
    BY <1>1, <1>4, LedgerAppend
  <2>2. IntentLine(c).count = NoCount
    BY DEF IntentLine
  <2>3. CASE line = IntentLine(c)
    <3>1. c \in AuthorisedCalls \ IntendedCalls
      BY <1>1, <2>3 DEF AuthorisedCalls, IntendedCalls
    <3>2. Abstract!Intend(c)
      BY <1>1, <1>2, <2>1, <2>2, <2>3, <3>1 DEF Abstract!Intend
    <3> QED
      BY <3>2 DEF Abstract!Next
  <2>4. CASE line # IntentLine(c) /\ line.count = NoCount
    BY <1>1, <1>2, <2>1, <2>4 DEF Abstract!vars
  <2>5. CASE line.count # NoCount
    <3>1. PICK i \in LinesOf(c) : LinesOf(c) = {i} /\ audit.lines[i] = IntentLine(c)
      BY <2>5 DEF OnlyIntent
    <3>2. c \in IntendedCalls \ ClosedCalls
      BY <2>2, <3>1 DEF IntendedCalls, ClosedCalls
    <3>3. DisclosedCalls' \in {DisclosedCalls, DisclosedCalls \cup {c}}
      BY <1>2
    <3>4. Abstract!Close(c)
      BY <1>1, <2>1, <2>2, <2>5, <3>2, <3>3 DEF Abstract!Close
    <3> QED
      BY <3>4 DEF Abstract!Next
  <2> QED
    BY <2>3, <2>4, <2>5
<1> QED
  BY <1>3, <1>4

\* Each step of a call is a step of the ledger, or none.
LEMMA StepImplements ==
    ASSUME IInv, "partial" \notin AppendFaults, NEW c \in Call, Step(c)
    PROVE  [Abstract!Next]_(Abstract!vars)
<1>1. TypeOK /\ CallInv(c)
  BY DEF IInv
<1>2. /\ RefusedLine(c) \in Line /\ RefusedLine(c).id = c
      /\ RefusedLine(c).count = NoCount /\ RefusedLine(c) # IntentLine(c)
  BY <1>1, LineTypes DEF RefusedLine, IntentLine
<1>3. /\ IntentLine(c) \in Line /\ IntentLine(c).id = c
      /\ IntentLine(c).count = NoCount
  BY <1>1, LineTypes DEF IntentLine
<1>4. /\ CorrectiveLine(c) \in Line /\ CorrectiveLine(c).id = c
      /\ CorrectiveLine(c).count = NoCount /\ CorrectiveLine(c) # IntentLine(c)
  BY <1>1, LineTypes DEF CorrectiveLine, IntentLine
<1>5. /\ ResultLine(c) \in Line /\ ResultLine(c).id = c
      /\ ResultLine(c).count # NoCount /\ ResultLine(c) # IntentLine(c)
  <2>1. Cardinality(Filtered(request[c], kernel[c].entries)) \in Nat
    BY <1>1, FilteredCount DEF TypeOK
  <2> QED
    BY <1>1, <2>1, LineTypes DEF ResultLine, IntentLine, NoCount
<1>6. ASSUME NEW line \in Line, LosesAudit(c, line)
      PROVE  /\ audit' = audit \/ audit' = Appended(audit, line)
             /\ response'[c].outcome # "accepted"
             /\ \A b \in Call : b # c => response'[b] = response[b]
  <2>1. audit' = audit \/ audit' = Appended(audit, line)
    BY <1>6, NoTear
  <2> QED
    BY <1>1, <1>6, <2>1 DEF LosesAudit, Return, Failed, TypeOK
<1>7. ASSUME NEW res, Return(c, res)
      PROVE  /\ response'[c] = res
             /\ \A b \in Call : b # c => response'[b] = response[b]
  BY <1>1, <1>7 DEF Return, TypeOK
<1>8. CASE Refuse(c)
  <2>1. /\ audit' = audit \/ audit' = Appended(audit, RefusedLine(c))
        /\ response'[c].outcome # "accepted"
        /\ \A b \in Call : b # c => response'[b] = response[b]
    BY <1>2, <1>6, <1>7, <1>8 DEF Refuse, Failed
  <2> QED
    BY <1>2, <1>8, <2>1, SettleImplements DEF Refuse
<1>9. CASE RecordIntent(c)
  <2>1. response[c].outcome # "accepted"
    BY <1>1, <1>9 DEF RecordIntent, CallInv, NoResponse
  <2>2. /\ audit' = audit \/ audit' = Appended(audit, IntentLine(c))
        /\ response'[c].outcome # "accepted"
        /\ \A b \in Call : b # c => response'[b] = response[b]
    BY <1>3, <1>6, <1>9, <2>1 DEF RecordIntent
  <2> QED
    BY <1>3, <1>9, <2>2, SettleImplements DEF RecordIntent
<1>10. CASE KernelReturns(c) \/ KernelRaises(c)
  <2>1. UNCHANGED <<request, response, audit>>
    BY <1>10 DEF KernelReturns, KernelRaises
  <2> QED
    BY <2>1, LedgerSame DEF Abstract!vars, AuthorisedCalls, DisclosedCalls
<1>11. CASE RecordFailure(c)
  <2>1. /\ audit' = audit \/ audit' = Appended(audit, CorrectiveLine(c))
        /\ response'[c].outcome # "accepted"
        /\ \A b \in Call : b # c => response'[b] = response[b]
    BY <1>4, <1>6, <1>7, <1>11 DEF RecordFailure, Failed
  <2> QED
    BY <1>4, <1>11, <2>1, SettleImplements DEF RecordFailure
<1>12. CASE RecordResult(c)
  <2>1. /\ audit' = audit \/ audit' = Appended(audit, ResultLine(c))
        /\ response'[c].outcome = "accepted" => audit' = Appended(audit, ResultLine(c))
        /\ \A b \in Call : b # c => response'[b] = response[b]
    BY <1>5, <1>6, <1>7, <1>12 DEF RecordResult
  <2>2. OnlyIntent(c)
    BY <1>1, <1>12 DEF RecordResult, CallInv
  <2> QED
    BY <1>5, <1>12, <2>1, <2>2, SettleImplements DEF RecordResult
<1> QED
  BY <1>8, <1>9, <1>10, <1>11, <1>12 DEF Step

\* So is each step of the system.
LEMMA NextImplements ==
    ASSUME "partial" \notin AppendFaults
    PROVE  IInv /\ [Next]_vars => [Abstract!Next]_(Abstract!vars)
<1> SUFFICES ASSUME IInv, [Next]_vars PROVE [Abstract!Next]_(Abstract!vars)
  OBVIOUS
<1>1. ASSUME UNCHANGED <<request, response, audit>>
      PROVE  UNCHANGED Abstract!vars
  BY <1>1, LedgerSame DEF Abstract!vars, AuthorisedCalls, DisclosedCalls
<1> QED
  BY <1>1, StepImplements DEF Next, vars, Crash, BeginWrite, EndWrite

\* The ledger starts empty.
LEMMA InitImplements == Init => Abstract!Init
<1> SUFFICES ASSUME Init PROVE Abstract!Init
  OBVIOUS
<1>1. \A c \in Call : LinesOf(c) = {} /\ response[c].outcome # "accepted"
  BY DEF Init, EmptyFile, LinesOf, NoResponse
<1> QED
  BY <1>1 DEF Abstract!Init, AuthorisedCalls, IntendedCalls, ClosedCalls, DisclosedCalls

\* restoration_request is an implementation of audited disclosure: its gates,
\* its three appends and its failures are steps of the abstract ledger.
THEOREM Implements ==
    "partial" \notin AppendFaults => (Spec => AuditedDisclosureSpec)
<1> SUFFICES ASSUME "partial" \notin AppendFaults PROVE Spec => AuditedDisclosureSpec
  OBVIOUS
<1> QED
  BY Inductive, InitImplements, NextImplements, PTL
     DEF Spec, AuditedDisclosureSpec, Abstract!Spec

=============================================================================
