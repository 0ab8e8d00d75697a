--------------------------- MODULE PipelineProofs ---------------------------
(***************************************************************************)
(* Proofs about the two ends of the pipeline: Vault, which keeps what is   *)
(* committed, for any writers, readers, documents and versions; and        *)
(* Redaction, which says what that is, for any texts, spans, rules,        *)
(* replies and queries.  The two share no variable.                        *)
(*                                                                         *)
(* Redaction is made of loops over data.  A loop is a recursive function;  *)
(* that it has a value at every turn, and that what each turn keeps is     *)
(* kept by the loop, is proved of each of them from the least element of a *)
(* set of naturals, which needs no induction rule.                         *)
(***************************************************************************)
EXTENDS Vault, Redaction, SequenceTheorems, FunctionTheorems, FiniteSetTheorems,
        WellFoundedInduction, TLAPS

-----------------------------------------------------------------------------
(* The vault                                                               *)

-----------------------------------------------------------------------------
\* What the steps change

\* What a write may leave in a file is a file.
LEMMA FileTypes ==
    /\ \A state \in {"absent", "empty", "whole", "garbled"} : FileOf(state) \in File
    /\ \A v \in Version : Whole(v) \in File
    /\ \A f, v : \A g \in Filled(f, v) : g = Whole(v) \/ g = FileOf("garbled")
BY DEF FileOf, Whole, File, Filled

\* A writer that goes on stays with its document and its version.
LEMMA GoesOnStep ==
    ASSUME TypeOK, NEW w \in Writer,
           NEW next \in {"raised", "returned", "crashed"} \cup Writing,
           GoesOn(w, next)
    PROVE  /\ writer' \in [Writer -> WriterCall]
           /\ writer'[w].pc = next
           /\ writer'[w].doc = writer[w].doc
           /\ writer'[w].version = writer[w].version
           /\ writer'[w].alone = writer[w].alone
           /\ \A x \in Writer : x # w => writer'[x] = writer[x]
BY DEF TypeOK, GoesOn, WriterCall

\* A reader that is answered has asked what it asked.
LEMMA AnswersStep ==
    ASSUME TypeOK, NEW r \in Reader,
           NEW answer \in {"unknown", "committed", "artifact_missing", "success"},
           NEW v \in Version \cup {NoVersion},
           Answers(r, answer, v)
    PROVE  /\ reader' \in [Reader -> ReaderCall]
           /\ reader'[r].pc = "done"
           /\ reader'[r].answer = answer
           /\ reader'[r].found = v
           /\ reader'[r].doc = reader[r].doc
           /\ reader'[r].expects = reader[r].expects
           /\ reader'[r].refused = reader[r].refused
           /\ \A x \in Reader : x # r => reader'[x] = reader[x]
<1>1. reader \in [Reader -> ReaderCall]
  BY DEF TypeOK
<1> DEFINE asked == reader[r]
           done  == [asked EXCEPT !.pc = "done"]
           said  == [done EXCEPT !.answer = answer]
           given == [said EXCEPT !.found = v]
<1>2. asked \in ReaderCall
  BY <1>1
<1>3. /\ done \in ReaderCall /\ done.pc = "done" /\ done.doc = asked.doc
      /\ done.expects = asked.expects /\ done.refused = asked.refused
  BY <1>2 DEF ReaderCall
<1>4. /\ said \in ReaderCall /\ said.pc = "done" /\ said.answer = answer
      /\ said.doc = asked.doc /\ said.expects = asked.expects
      /\ said.refused = asked.refused
  <2> HIDE DEF done, asked
  <2> QED
    BY <1>3 DEF ReaderCall
<1>5. /\ given \in ReaderCall /\ given.pc = "done" /\ given.answer = answer
      /\ given.found = v /\ given.doc = asked.doc /\ given.expects = asked.expects
      /\ given.refused = asked.refused
  <2> HIDE DEF said, asked
  <2> QED
    BY <1>4 DEF ReaderCall
<1>6. reader' = [reader EXCEPT ![r] = given]
  BY DEF Answers
<1> HIDE DEF given
<1> QED
  BY <1>1, <1>5, <1>6

\* So has one that is refused a file.
LEMMA RefusedStep ==
    ASSUME TypeOK, NEW r \in Reader,
           NEW answer \in {"unknown", "artifact_missing", "raised"},
           Refused(r, answer)
    PROVE  /\ reader' \in [Reader -> ReaderCall]
           /\ reader'[r].answer = answer /\ reader'[r].refused
           /\ reader'[r].doc = reader[r].doc
           /\ reader'[r].expects = reader[r].expects
           /\ \A x \in Reader : x # r => reader'[x] = reader[x]
<1>1. reader \in [Reader -> ReaderCall]
  BY DEF TypeOK
<1> DEFINE asked == reader[r]
           done  == [asked EXCEPT !.pc = "done"]
           said  == [done EXCEPT !.answer = answer]
           told  == [said EXCEPT !.refused = TRUE]
<1>2. asked \in ReaderCall
  BY <1>1
<1>3. done \in ReaderCall /\ done.doc = asked.doc /\ done.expects = asked.expects
  BY <1>2 DEF ReaderCall
<1>4. /\ said \in ReaderCall /\ said.answer = answer
      /\ said.doc = asked.doc /\ said.expects = asked.expects
  <2> HIDE DEF done, asked
  <2> QED
    BY <1>3 DEF ReaderCall
<1>5. /\ told \in ReaderCall /\ told.answer = answer /\ told.refused
      /\ told.doc = asked.doc /\ told.expects = asked.expects
  <2> HIDE DEF said, asked
  <2> QED
    BY <1>4 DEF ReaderCall
<1>6. reader' = [reader EXCEPT ![r] = told]
  BY DEF Refused
<1> HIDE DEF told
<1> QED
  BY <1>1, <1>5, <1>6

-----------------------------------------------------------------------------
\* The type invariant

\* The shapes hold before any call.
LEMMA InitTypeOK == Init => TypeOK
BY FileTypes DEF Init, TypeOK, Idle, NotAsked, WriterCall, ReaderCall

\* A writer that has begun knows its document and its version.
LEMMA WriterStepType ==
    ASSUME TypeOK, NEW w \in Writer, WriterInv(w), WriterStep(w) \/ Crash(w)
    PROVE  TypeOK'
<1>1. ASSUME OpenManifest(w) PROVE TypeOK'
  BY <1>1, FileTypes, GoesOnStep DEF OpenManifest, TypeOK, Writing
<1>2. ASSUME FillManifest(w) PROVE TypeOK'
  BY <1>2, FileTypes, GoesOnStep DEF FillManifest, TypeOK, Writing, WriterInv
<1>3. ASSUME OpenPrivate(w) PROVE TypeOK'
  BY <1>3, FileTypes, GoesOnStep DEF OpenPrivate, TypeOK, Writing
<1>4. ASSUME FillPrivate(w) PROVE TypeOK'
  BY <1>4, FileTypes, GoesOnStep DEF FillPrivate, TypeOK, Writing, WriterInv
<1>5. ASSUME CutShort(w)
      PROVE  manifest' \in [Doc -> File] /\ private' \in [Doc -> File]
  BY <1>5, FileTypes DEF CutShort, TypeOK
<1>6. ASSUME WriteFails(w) PROVE TypeOK'
  BY <1>5, <1>6, GoesOnStep DEF WriteFails, TypeOK
<1>7. ASSUME Crash(w) PROVE TypeOK'
  BY <1>5, <1>7, GoesOnStep DEF Crash, TypeOK
<1> QED
  BY <1>1, <1>2, <1>3, <1>4, <1>6, <1>7 DEF WriterStep

\* A reader's steps keep the shapes.
LEMMA ReaderStepType ==
    ASSUME TypeOK, NEW r \in Reader, ReaderInv(r),
           Ask(r) \/ ReaderStep(r) \/ ReadFails(r)
    PROVE  TypeOK'
<1>1. ASSUME Ask(r) PROVE TypeOK'
  <2>1. \A d \in Doc : Expected(d) \in Writer \cup {NoWriter}
    BY DEF Expected, TypeOK
  <2> QED
    BY <1>1, <2>1 DEF Ask, TypeOK, ReaderCall
<1>2. ASSUME LookForManifest(r) PROVE TypeOK'
  <2>1. CASE reader' = [reader EXCEPT ![r].pc = "read_manifest"]
    BY <1>2, <2>1 DEF LookForManifest, TypeOK, ReaderCall
  <2>2. CASE reader' = [reader EXCEPT ![r].pc = "private"]
    BY <1>2, <2>2 DEF LookForManifest, TypeOK, ReaderCall
  <2>3. CASE Answers(r, "unknown", NoVersion) \/ Answers(r, "committed", NoVersion)
    BY <1>2, <2>3, AnswersStep DEF LookForManifest, TypeOK
  <2> QED
    BY <1>2, <2>1, <2>2, <2>3 DEF LookForManifest
<1>3. ASSUME NEW f \in File, Reads(r, f) PROVE reader' \in [Reader -> ReaderCall]
  BY <1>3, AnswersStep DEF Reads, File
<1>4. reader[r].pc # "idle" =>
        manifest[reader[r].doc] \in File /\ private[reader[r].doc] \in File
  BY DEF ReaderInv, TypeOK
<1>5. ASSUME ReadManifest(r) PROVE TypeOK'
  BY <1>3, <1>4, <1>5 DEF ReadManifest, TypeOK
<1>6. ASSUME ReadPrivate(r) PROVE TypeOK'
  BY <1>3, <1>4, <1>6 DEF ReadPrivate, TypeOK
<1>7. ASSUME ReadFails(r) PROVE TypeOK'
  BY <1>7, RefusedStep DEF ReadFails, TypeOK
<1> QED
  BY <1>1, <1>2, <1>5, <1>6, <1>7 DEF ReaderStep

-----------------------------------------------------------------------------
\* The inductive invariant

\* The steps of a writer touch the files of its document alone, and never make
\* one of them absent.
LEMMA WriterFiles ==
    ASSUME IInv, NEW w \in Writer, WriterStep(w) \/ Crash(w)
    PROVE  /\ writer[w].pc \in Writing
           /\ writer[w].doc \in Doc /\ writer[w].version \in Version
           /\ UNCHANGED <<reader, latest>>
           /\ \E next \in {"raised", "returned", "crashed"} \cup Writing : GoesOn(w, next)
           /\ \A d \in Doc :
                 /\ d # writer[w].doc => manifest'[d] = manifest[d] /\ private'[d] = private[d]
                 /\ manifest[d].state # "absent" => manifest'[d].state # "absent"
                 /\ private'[d].state # "absent" => manifest'[d].state # "absent"
<1> DEFINE d == writer[w].doc
<1>1. writer[w].pc \in Writing
  BY DEF WriterStep, OpenManifest, FillManifest, OpenPrivate, FillPrivate, WriteFails,
         Crash, Writing
<1>2. /\ TypeOK /\ DictionaryHasManifest /\ d \in Doc /\ writer[w].version \in Version
      /\ writer[w].pc # "manifest" => manifest[d].state # "absent"
  BY <1>1 DEF IInv, WriterInv
<1>3. /\ UNCHANGED <<reader, latest>>
      /\ \E next \in {"raised", "returned", "crashed"} \cup Writing : GoesOn(w, next)
  BY DEF WriterStep, OpenManifest, FillManifest, OpenPrivate, FillPrivate, WriteFails,
         Crash, Writing
<1>4. \/ manifest' = manifest
      \/ \E f \in File : f.state # "absent" /\ manifest' = [manifest EXCEPT ![d] = f]
  BY <1>2, FileTypes
     DEF WriterStep, OpenManifest, FillManifest, OpenPrivate, FillPrivate, WriteFails,
         Crash, CutShort, FileOf, Whole
<1>5. \/ private' = private
      \/ /\ \E f \in File : private' = [private EXCEPT ![d] = f]
         /\ writer[w].pc # "manifest"
  BY <1>2, FileTypes
     DEF WriterStep, OpenManifest, FillManifest, OpenPrivate, FillPrivate, WriteFails,
         Crash, CutShort
<1>6. \A e \in Doc :
         /\ e # d => manifest'[e] = manifest[e] /\ private'[e] = private[e]
         /\ manifest[e].state # "absent" => manifest'[e].state # "absent"
  BY <1>2, <1>4, <1>5 DEF TypeOK
<1>7. ASSUME NEW e \in Doc, private'[e].state # "absent"
      PROVE  manifest'[e].state # "absent"
  <2>1. CASE e = d /\ private' # private
    BY <1>2, <1>5, <1>6, <2>1
  <2>2. CASE e # d \/ private' = private
    BY <1>2, <1>6, <1>7, <2>2 DEF DictionaryHasManifest
  <2> QED
    BY <2>1, <2>2
<1> QED
  BY <1>1, <1>2, <1>3, <1>6, <1>7

\* Once the manifest is opened it is there, whoever writes it next.
LEMMA WriterInvStep ==
    ASSUME IInv, NEW w \in Writer, WriterStep(w) \/ Crash(w), NEW x \in Writer
    PROVE  WriterInv(x)'
<1>1. TypeOK /\ WriterInv(x)
  BY DEF IInv
<1>2. PICK next \in {"raised", "returned", "crashed"} \cup Writing : GoesOn(w, next)
  BY WriterFiles
<1>3. CASE x # w
  <2>1. writer'[x] = writer[x]
    BY <1>1, <1>2, <1>3, GoesOnStep
  <2> QED
    BY <1>1, <2>1, WriterFiles DEF WriterInv
<1>4. CASE x = w
  <2>1. /\ writer'[w].doc = writer[w].doc /\ writer'[w].version = writer[w].version
        /\ writer'[w].pc = next
    BY <1>1, <1>2, GoesOnStep
  <2>2. CASE OpenManifest(w)
    <3>1. manifest'[writer[w].doc].state # "absent"
      BY <1>1, <2>2, WriterFiles DEF OpenManifest, TypeOK, FileOf
    <3> QED
      BY <1>4, <2>1, <3>1, WriterFiles DEF WriterInv
  <2>3. CASE writer[w].pc # "manifest"
    <3>1. manifest'[writer[w].doc].state # "absent"
      BY <1>1, <1>4, <2>3, WriterFiles DEF WriterInv
    <3> QED
      BY <1>4, <2>1, <3>1, WriterFiles DEF WriterInv
  <2>4. CASE WriteFails(w) \/ Crash(w)
    <3>1. writer'[w].pc \notin Writing
      BY <1>1, <2>4, GoesOnStep DEF WriteFails, Crash, Writing
    <3> QED
      BY <1>4, <3>1 DEF WriterInv
  <2> QED
    BY <2>2, <2>3, <2>4
       DEF WriterStep, FillManifest, OpenPrivate, FillPrivate
<1> QED
  BY <1>3, <1>4

\* A writer that met no other has left its files as its position says.
LEMMA AloneStep ==
    ASSUME IInv, NEW w \in Writer, WriterStep(w) \/ Crash(w),
           NEW d \in Doc, AloneInv(d, w)
    PROVE  AloneInv(d, w)'
<1>1. TypeOK /\ writer[w].doc = d /\ writer[w].version \in Version /\ Active(d) \subseteq {w}
  BY WriterFiles DEF IInv, AloneInv
<1>2. PICK next \in {"raised", "returned", "crashed"} \cup Writing : GoesOn(w, next)
  BY WriterFiles
<1>3. /\ writer'[w].doc = d /\ writer'[w].version = writer[w].version
      /\ writer'[w].pc = next
      /\ \A x \in Writer : x # w => writer'[x] = writer[x]
  BY <1>1, <1>2, GoesOnStep
<1>4. Active(d)' \subseteq {w}
  BY <1>1, <1>3 DEF Active
<1>5. CASE OpenManifest(w)
  <2>1. writer'[w].pc = "fill_manifest" /\ manifest'[d] = FileOf("empty")
    BY <1>1, <1>5, GoesOnStep DEF OpenManifest, TypeOK, Writing
  <2> QED
    BY <1>1, <1>3, <1>4, <2>1 DEF AloneInv
<1>6. CASE FillManifest(w)
  <2>1. Filled(manifest[d], writer[w].version) = {Whole(writer[w].version)}
    BY <1>6 DEF AloneInv, FillManifest, Filled, FileOf
  <2>2. writer'[w].pc = "private" /\ manifest'[d] = Whole(writer[w].version)
    BY <1>1, <1>6, <2>1, GoesOnStep DEF FillManifest, TypeOK, Writing
  <2> QED
    BY <1>1, <1>3, <1>4, <2>2 DEF AloneInv
<1>7. CASE OpenPrivate(w)
  <2>1. /\ writer'[w].pc = "fill_private" /\ private'[d] = FileOf("empty")
        /\ manifest'[d] = Whole(writer[w].version)
    BY <1>1, <1>7, GoesOnStep DEF OpenPrivate, TypeOK, Writing, AloneInv
  <2> QED
    BY <1>1, <1>3, <1>4, <2>1 DEF AloneInv
<1>8. CASE FillPrivate(w)
  <2>1. Filled(private[d], writer[w].version) = {Whole(writer[w].version)}
    BY <1>8 DEF AloneInv, FillPrivate, Filled, FileOf
  <2>2. /\ writer'[w].pc = "returned" /\ private'[d] = Whole(writer[w].version)
        /\ manifest'[d] = Whole(writer[w].version)
    BY <1>1, <1>8, <2>1, GoesOnStep DEF FillPrivate, TypeOK, Writing, AloneInv
  <2> QED
    BY <1>1, <1>3, <1>4, <2>2 DEF AloneInv
<1>9. CASE WriteFails(w) \/ Crash(w)
  <2>1. writer'[w].pc \in {"raised", "crashed"}
    BY <1>1, <1>9, GoesOnStep DEF WriteFails, Crash
  <2> QED
    BY <1>1, <1>3, <1>4, <2>1 DEF AloneInv
<1> QED
  BY <1>5, <1>6, <1>7, <1>8, <1>9 DEF WriterStep

\* A writer's steps keep what is said of it, of the files and of the readers.
LEMMA WriterStepIInv ==
    ASSUME IInv, NEW w \in Writer, WriterStep(w) \/ Crash(w)
    PROVE  IInv'
<1>1. TypeOK /\ TypeOK'
  BY WriterStepType DEF IInv
<1>2. PICK next \in {"raised", "returned", "crashed"} \cup Writing : GoesOn(w, next)
  BY WriterFiles
<1>3. /\ writer'[w].doc = writer[w].doc /\ writer'[w].pc = next
      /\ writer'[w].alone = writer[w].alone
      /\ \A x \in Writer : x # w => writer'[x] = writer[x]
  BY <1>1, <1>2, GoesOnStep
<1>4. DictionaryHasManifest'
  BY WriterFiles DEF DictionaryHasManifest
<1>5. ASSUME NEW d \in Doc PROVE LatestInv(d)'
  <2>1. /\ LatestInv(d) /\ latest'[d] = latest[d]
        /\ latest[d] \in Writer \cup {NoWriter} /\ NoWriter \notin Writer
        /\ writer[w].pc \in Writing
    BY <1>1, VaultAssumption, WriterFiles DEF IInv, TypeOK
  <2>2. Active(d)' \subseteq Active(d)
    BY <1>3, <2>1 DEF Active
  <2>3. latest[d] # NoWriter => writer'[latest[d]].pc # "idle"
    BY <1>3, <2>1 DEF LatestInv, Writing
  <2>4. ASSUME latest[d] # NoWriter, writer'[latest[d]].alone PROVE AloneInv(d, latest[d])'
    <3>1. latest[d] \in Writer /\ AloneInv(d, latest[d])
      BY <1>3, <2>1, <2>4 DEF LatestInv
    <3>2. CASE latest[d] = w
      <4>1. AloneInv(d, w)'
        BY <3>1, <3>2, AloneStep
      <4> QED
        BY <2>1, <3>2, <4>1 DEF AloneInv
    <3>3. CASE latest[d] # w
      <4>1. w \notin Active(d)
        BY <3>1, <3>3 DEF AloneInv
      <4>2. d # writer[w].doc
        BY <2>1, <4>1 DEF Active
      <4>3. manifest'[d] = manifest[d] /\ private'[d] = private[d]
        BY <4>2, WriterFiles
      <4> QED
        BY <1>3, <2>1, <2>2, <3>1, <3>3, <4>3 DEF AloneInv
    <3> QED
      BY <3>2, <3>3
  <2> QED
    BY <2>1, <2>2, <2>3, <2>4 DEF LatestInv
<1>6. ASSUME NEW r \in Reader
      PROVE  /\ ReaderInv(r)'
             /\ reader'[r] = reader[r]
             /\ reader[r].expects # NoWriter =>
                   writer'[reader[r].expects] = writer[reader[r].expects]
  <2>1. ReaderInv(r) /\ reader'[r] = reader[r] /\ reader[r].expects \in Writer \cup {NoWriter}
    BY <1>1, WriterFiles DEF IInv, TypeOK, ReaderCall
  <2>2. writer[w].pc # "returned"
    BY WriterFiles DEF Writing
  <2>3. reader[r].expects # NoWriter =>
          writer'[reader[r].expects] = writer[reader[r].expects]
    BY <1>3, <2>1, <2>2 DEF ReaderInv
  <2> QED
    BY <2>1, <2>3 DEF ReaderInv
<1>7. ReadYourCommit'
  BY <1>6, WriterFiles DEF IInv, ReadYourCommit
<1> QED
  BY <1>1, <1>4, <1>5, <1>6, <1>7, WriterInvStep DEF IInv

\* A writer that starts beside another takes from it that it is alone.
LEMMA StartIInv ==
    ASSUME IInv, NEW w \in Writer, Start(w)
    PROVE  IInv'
<1>1. TypeOK /\ UNCHANGED <<manifest, private, reader>> /\ writer[w].pc = "idle"
  BY DEF IInv, Start
<1>2. PICK d \in Doc, v \in Valid :
        /\ writer' = [x \in Writer |->
              IF x = w THEN [pc |-> "manifest", doc |-> d, version |-> v,
                             alone |-> Active(d) = {}]
              ELSE IF x \in Active(d) THEN [writer[x] EXCEPT !.alone = FALSE]
              ELSE writer[x]]
        /\ latest' = [latest EXCEPT ![d] = w]
  BY DEF Start
<1>3. /\ writer'[w] = [pc |-> "manifest", doc |-> d, version |-> v,
                       alone |-> Active(d) = {}]
      /\ v \in Version
  BY <1>2, VaultAssumption
<1>4. ASSUME NEW x \in Writer, x # w
      PROVE  /\ writer'[x] \in WriterCall
             /\ writer'[x].pc = writer[x].pc /\ writer'[x].doc = writer[x].doc
             /\ writer'[x].version = writer[x].version
             /\ x \in Active(d) => ~writer'[x].alone
             /\ x \notin Active(d) => writer'[x] = writer[x]
  <2>1. writer[x] \in WriterCall
    BY <1>1 DEF TypeOK
  <2>2. CASE x \in Active(d)
    <3>1. writer'[x] = [writer[x] EXCEPT !.alone = FALSE]
      BY <1>2, <1>4, <2>2
    <3> QED
      BY <2>1, <2>2, <3>1 DEF WriterCall
  <2>3. CASE x \notin Active(d)
    BY <1>2, <1>4, <2>1, <2>3
  <2> QED
    BY <2>2, <2>3
<1>5. writer'[w] \in WriterCall
  BY <1>3 DEF WriterCall, Writing
<1>6. TypeOK'
  <2>1. writer' \in [Writer -> WriterCall]
    BY <1>2, <1>4, <1>5
  <2> QED
    BY <1>1, <1>2, <2>1 DEF TypeOK
<1>7. ASSUME NEW x \in Writer PROVE WriterInv(x)'
  <2>1. WriterInv(x)
    BY DEF IInv
  <2>2. CASE x = w
    BY <1>3, <2>2 DEF WriterInv
  <2>3. CASE x # w
    BY <1>1, <1>4, <2>1, <2>3 DEF WriterInv
  <2> QED
    BY <2>2, <2>3
<1>8. \A e \in Doc : e # d => Active(e)' = Active(e)
  BY <1>1, <1>3, <1>4 DEF Active, Writing
<1>9. Active(d)' = Active(d) \cup {w}
  BY <1>1, <1>3, <1>4 DEF Active, Writing
<1>10. LatestInv(d)'
  <2>1. latest'[d] = w /\ w # NoWriter
    BY <1>1, <1>2, VaultAssumption DEF TypeOK
  <2>2. ASSUME writer'[w].alone PROVE AloneInv(d, w)'
    <3>1. writer'[w].pc = "manifest" /\ writer'[w].doc = d /\ writer'[w].version \in Version
      BY <1>3
    <3>2. Active(d) = {}
      <4> DEFINE first == Active(d) = {}
      <4>1. writer'[w] = [pc |-> "manifest", doc |-> d, version |-> v, alone |-> first]
        BY <1>3
      <4> HIDE DEF first
      <4>2. writer'[w].alone = first
        BY <4>1
      <4>3. first
        BY <2>2, <4>2
      <4> QED
        BY <4>3 DEF first
    <3> QED
      BY <1>9, <3>1, <3>2 DEF AloneInv
  <2>3. AloneInv(d, w)' => AloneInv(d, latest[d])'
    BY <2>1 DEF AloneInv
  <2> QED
    BY <1>3, <2>1, <2>2, <2>3 DEF LatestInv
<1>11. ASSUME NEW e \in Doc, e # d PROVE LatestInv(e)'
  <2>1. /\ LatestInv(e) /\ latest'[e] = latest[e] /\ Active(e)' = Active(e)
        /\ latest[e] \in Writer \cup {NoWriter} /\ NoWriter \notin Writer
    BY <1>1, <1>2, <1>8, <1>11, VaultAssumption DEF IInv, TypeOK
  <2>2. latest[e] # NoWriter =>
          latest[e] # w /\ writer'[latest[e]].pc = writer[latest[e]].pc
    BY <1>1, <1>4, <2>1 DEF LatestInv
  <2>3. ASSUME latest[e] # NoWriter, writer'[latest[e]].alone PROVE AloneInv(e, latest[e])'
    <3>1. writer'[latest[e]] = writer[latest[e]]
      BY <1>4, <2>1, <2>2, <2>3
    <3>2. AloneInv(e, latest[e])
      BY <2>1, <2>3, <3>1 DEF LatestInv
    <3> QED
      BY <1>1, <2>1, <3>1, <3>2 DEF AloneInv
  <2> QED
    BY <2>1, <2>2, <2>3 DEF LatestInv
<1>12. ASSUME NEW r \in Reader
       PROVE  /\ ReaderInv(r)'
              /\ reader[r].expects # NoWriter =>
                    /\ reader[r].expects # w
                    /\ writer'[reader[r].expects] = writer[reader[r].expects]
  <2>1. ReaderInv(r) /\ reader'[r] = reader[r] /\ reader[r].expects \in Writer \cup {NoWriter}
    BY <1>1 DEF IInv, TypeOK, ReaderCall
  <2>2. reader[r].expects # NoWriter =>
          reader[r].expects # w /\ reader[r].expects \notin Active(d)
    BY <1>1, <2>1 DEF ReaderInv, Active, Writing
  <2> QED
    BY <1>4, <2>1, <2>2 DEF ReaderInv
<1>13. ReadYourCommit'
  <2> SUFFICES ASSUME NEW r \in Reader, reader[r].pc = "done", reader[r].expects # NoWriter,
                      latest'[reader[r].doc] = reader[r].expects
               PROVE  \/ reader[r].answer = "committed"
                      \/ /\ reader[r].answer = "success"
                         /\ reader[r].found = writer'[reader[r].expects].version
                      \/ /\ reader[r].answer \in {"unknown", "artifact_missing", "raised"}
                         /\ reader[r].refused
    BY <1>1 DEF ReadYourCommit
  <2>1. reader[r].doc \in Doc
    BY DEF IInv, ReaderInv
  <2>2. latest[reader[r].doc] = reader[r].expects
    BY <1>1, <1>2, <1>12, <2>1 DEF TypeOK
  <2> QED
    BY <1>12, <2>2 DEF IInv, ReadYourCommit
<1>14. DictionaryHasManifest'
  BY <1>1 DEF IInv, DictionaryHasManifest
<1> QED
  BY <1>6, <1>7, <1>10, <1>11, <1>12, <1>13, <1>14 DEF IInv

\* A document that fails validation reaches no file.
LEMMA RejectIInv ==
    ASSUME IInv, NEW w \in Writer, Reject(w)
    PROVE  IInv'
<1>1. /\ TypeOK /\ UNCHANGED <<manifest, private, reader, latest>>
      /\ writer[w].pc = "idle"
  BY DEF IInv, Reject
<1>2. PICK d \in Doc, v \in Version \ Valid :
        writer' = [writer EXCEPT ![w] = [pc |-> "raised", doc |-> d, version |-> v,
                                         alone |-> TRUE]]
  BY DEF Reject
<1>3. /\ writer'[w].pc = "raised"
      /\ \A x \in Writer : x # w => writer'[x] = writer[x]
      /\ TypeOK'
  BY <1>1, <1>2 DEF TypeOK, WriterCall
<1>4. ASSUME NEW x \in Writer PROVE WriterInv(x)'
  <2>1. WriterInv(x)
    BY DEF IInv
  <2>2. CASE x = w
    BY <1>3, <2>2 DEF WriterInv, Writing
  <2>3. CASE x # w
    BY <1>1, <1>3, <2>1, <2>3 DEF WriterInv
  <2> QED
    BY <2>2, <2>3
<1>5. \A d_1 \in Doc : Active(d_1)' = Active(d_1)
  BY <1>1, <1>3 DEF Active, Writing
<1>6. ASSUME NEW e \in Doc PROVE LatestInv(e)'
  <2>1. LatestInv(e) /\ latest[e] \in Writer \cup {NoWriter}
    BY <1>1 DEF IInv, TypeOK
  <2>2. latest[e] # NoWriter => writer'[latest[e]] = writer[latest[e]]
    BY <1>1, <1>3, <2>1 DEF LatestInv
  <2>3. /\ latest[e] # NoWriter /\ AloneInv(e, latest[e])
        => AloneInv(e, latest[e])'
    BY <1>1, <1>5, <2>2 DEF AloneInv
  <2> QED
    BY <1>1, <1>5, <2>1, <2>2, <2>3 DEF LatestInv
<1>7. ASSUME NEW r \in Reader
      PROVE  /\ ReaderInv(r)'
             /\ reader[r].expects # NoWriter =>
                   writer'[reader[r].expects] = writer[reader[r].expects]
  <2>1. ReaderInv(r) /\ reader'[r] = reader[r] /\ reader[r].expects \in Writer \cup {NoWriter}
    BY <1>1 DEF IInv, TypeOK, ReaderCall
  <2>2. reader[r].expects # NoWriter => reader[r].expects # w
    BY <1>1, <2>1 DEF ReaderInv
  <2> QED
    BY <1>3, <2>1, <2>2 DEF ReaderInv
<1>8. ReadYourCommit' /\ DictionaryHasManifest'
  BY <1>1, <1>7 DEF IInv, ReadYourCommit, DictionaryHasManifest
<1> QED
  BY <1>3, <1>4, <1>6, <1>7, <1>8 DEF IInv

\* The files of a document whose last writer returned and met no other.
LEMMA Durable == IInv => ReturnedIsDurable
BY DEF IInv, LatestInv, AloneInv, ReturnedIsDurable

\* A reader that expects the last writer reads what that writer wrote.
LEMMA ReaderStepIInv ==
    ASSUME IInv, NEW r \in Reader, Ask(r) \/ ReaderStep(r) \/ ReadFails(r)
    PROVE  IInv'
<1>1. /\ TypeOK /\ UNCHANGED <<manifest, private, writer, latest>> /\ ReaderInv(r)
      /\ TypeOK' /\ ReadYourCommit
  BY ReaderStepType DEF IInv, Ask, ReaderStep, LookForManifest, ReadManifest, ReadPrivate,
     ReadFails
<1>2. /\ \A w \in Writer : WriterInv(w)'
      /\ \A d \in Doc : LatestInv(d)'
      /\ DictionaryHasManifest'
  <2>1. \A d \in Doc : \A w : AloneInv(d, w) => AloneInv(d, w)'
    BY <1>1 DEF AloneInv, Active
  <2>2. \A d \in Doc : Active(d)' = Active(d)
    BY <1>1 DEF Active
  <2>3. ASSUME NEW d \in Doc PROVE LatestInv(d)'
    <3>1. AloneInv(d, latest[d]) => AloneInv(d, latest[d])'
      BY <1>1 DEF AloneInv, Active
    <3> QED
      BY <1>1, <2>2, <3>1 DEF IInv, LatestInv
  <2> QED
    BY <1>1, <2>3 DEF IInv, WriterInv, DictionaryHasManifest
<1>3. /\ ReaderInv(r)'
      /\ \A x \in Reader : x # r => reader'[x] = reader[x]
      /\ LET w == reader'[r].expects IN
         /\ reader'[r].pc = "done" /\ w # NoWriter
         /\ latest[reader'[r].doc] = w
         => \/ reader'[r].answer = "committed"
            \/ reader'[r].answer = "success" /\ reader'[r].found = writer[w].version
            \/ reader'[r].answer \in {"unknown", "artifact_missing", "raised"}
                 /\ reader'[r].refused
  <2>1. ASSUME reader[r].expects # NoWriter,
               latest[reader[r].doc] = reader[r].expects, reader[r].pc # "idle"
        PROVE  /\ manifest[reader[r].doc] = Whole(writer[reader[r].expects].version)
               /\ private[reader[r].doc] = manifest[reader[r].doc]
    BY <1>1, <2>1, Durable DEF ReaderInv, ReturnedIsDurable
  <2>2. CASE Ask(r)
    <3>1. PICK op \in Operation, scope \in Scope, d \in Doc :
            reader' = [reader EXCEPT ![r] =
              [pc |-> "manifest", op |-> op, scope |-> scope, doc |-> d,
               found |-> NoVersion, answer |-> "none", expects |-> Expected(d),
               refused |-> FALSE]]
      BY <2>2 DEF Ask
    <3>2. /\ reader'[r].pc = "manifest" /\ reader'[r].doc = d
          /\ reader'[r].expects = Expected(d)
          /\ \A x \in Reader : x # r => reader'[x] = reader[x]
      BY <1>1, <3>1 DEF TypeOK
    <3> QED
      BY <1>1, <3>2 DEF ReaderInv, Expected
  <2>3. CASE LookForManifest(r)
    <3>1. CASE \/ reader' = [reader EXCEPT ![r].pc = "read_manifest"]
               \/ reader' = [reader EXCEPT ![r].pc = "private"]
      <4>1. /\ reader'[r].pc # "done" /\ reader'[r].doc = reader[r].doc
            /\ reader'[r].expects = reader[r].expects
            /\ \A x \in Reader : x # r => reader'[x] = reader[x]
        BY <1>1, <3>1 DEF TypeOK, ReaderCall
      <4> QED
        BY <1>1, <2>3, <4>1 DEF ReaderInv, LookForManifest
    <3>2. CASE /\ manifest[reader[r].doc].state = "absent"
               /\ Answers(r, "unknown", NoVersion)
      <4>1. /\ reader'[r].doc = reader[r].doc /\ reader'[r].expects = reader[r].expects
            /\ \A x \in Reader : x # r => reader'[x] = reader[x]
        BY <1>1, <3>2, AnswersStep
      <4>2. reader[r].expects = NoWriter \/ latest[reader[r].doc] # reader[r].expects
        BY <2>1, <2>3, <3>2 DEF LookForManifest, Whole
      <4> QED
        BY <1>1, <2>3, <4>1, <4>2 DEF ReaderInv, LookForManifest
    <3>3. CASE Answers(r, "committed", NoVersion)
      <4>1. /\ reader'[r].doc = reader[r].doc /\ reader'[r].expects = reader[r].expects
            /\ reader'[r].answer = "committed"
            /\ \A x \in Reader : x # r => reader'[x] = reader[x]
        BY <1>1, <3>3, AnswersStep
      <4> QED
        BY <1>1, <2>3, <4>1 DEF ReaderInv, LookForManifest
    <3> QED
      BY <2>3, <3>1, <3>2, <3>3 DEF LookForManifest
  <2>4. ASSUME NEW f \in File, Reads(r, f), reader[r].pc # "idle",
               f = manifest[reader[r].doc] \/ f = private[reader[r].doc]
        PROVE  /\ ReaderInv(r)'
               /\ \A x \in Reader : x # r => reader'[x] = reader[x]
               /\ LET w == reader'[r].expects IN
                  /\ reader'[r].pc = "done" /\ w # NoWriter
                  /\ latest[reader'[r].doc] = w
                  => reader'[r].answer = "success" /\ reader'[r].found = writer[w].version
    <3>1. /\ reader'[r].doc = reader[r].doc /\ reader'[r].expects = reader[r].expects
          /\ \A x \in Reader : x # r => reader'[x] = reader[x]
          /\ f.state = "whole" => reader'[r].answer = "success" /\ reader'[r].found = f.version
      BY <1>1, <2>4, AnswersStep DEF Reads, File
    <3>2. /\ reader[r].expects # NoWriter /\ latest[reader[r].doc] = reader[r].expects
          => f.state = "whole" /\ f.version = writer[reader[r].expects].version
      BY <2>1, <2>4 DEF Whole
    <3> QED
      BY <1>1, <2>4, <3>1, <3>2 DEF ReaderInv
  <2>5. reader[r].pc # "idle" =>
          manifest[reader[r].doc] \in File /\ private[reader[r].doc] \in File
    BY <1>1 DEF ReaderInv, TypeOK
  <2>6. CASE ReadManifest(r)
    BY <2>4, <2>5, <2>6 DEF ReadManifest
  <2>7. CASE ReadPrivate(r)
    BY <2>4, <2>5, <2>7 DEF ReadPrivate
  <2>8. CASE ReadFails(r)
    <3>1. PICK answer \in {"unknown", "artifact_missing", "raised"} : Refused(r, answer)
      BY <2>8 DEF ReadFails
    <3>2. /\ reader'[r].answer = answer /\ reader'[r].refused
          /\ reader'[r].doc = reader[r].doc /\ reader'[r].expects = reader[r].expects
          /\ \A x \in Reader : x # r => reader'[x] = reader[x]
      BY <1>1, <3>1, RefusedStep
    <3>3. reader[r].pc # "idle"
      BY <2>8 DEF ReadFails
    <3> QED
      BY <1>1, <3>2, <3>3 DEF ReaderInv
  <2> QED
    BY <2>2, <2>3, <2>6, <2>7, <2>8 DEF ReaderStep
<1>4. \A x \in Reader : ReaderInv(x)'
  BY <1>1, <1>3 DEF IInv, ReaderInv
<1>5. ReadYourCommit'
  BY <1>1, <1>3 DEF ReadYourCommit
<1> QED
  BY <1>1, <1>2, <1>4, <1>5 DEF IInv

\* No file is there and nobody has begun.
LEMMA InitIInv == Init => IInv
<1> SUFFICES ASSUME Init PROVE IInv
  OBVIOUS
<1>1. \A d \in Doc : Active(d) = {}
  BY DEF Init, Active, Idle, Writing
<1> QED
  BY <1>1, InitTypeOK DEF Init, IInv, DictionaryHasManifest, WriterInv, LatestInv,
     ReaderInv, ReadYourCommit, Idle, NotAsked, Writing, FileOf

\* Every step keeps the invariant.
LEMMA NextIInv == IInv /\ [Next]_vars => IInv'
<1> SUFFICES ASSUME IInv, [Next]_vars PROVE IInv'
  OBVIOUS
<1>1. CASE UNCHANGED vars
  BY <1>1 DEF vars, IInv, TypeOK, DictionaryHasManifest, WriterInv, LatestInv, AloneInv,
     Active, ReaderInv, ReadYourCommit
<1> QED
  BY <1>1, StartIInv, RejectIInv, WriterStepIInv, ReaderStepIInv DEF Next

\* In every reachable state the files, the calls and the answers are of their
\* types.
THEOREM TypeCorrect == Spec => []TypeOK
<1>1. IInv => TypeOK
  BY DEF IInv
<1> QED
  BY <1>1, InitIInv, NextIInv, PTL DEF Spec

\* Whatever failed or died on the way, a dictionary has a manifest beside it.
THEOREM DictionariesHaveManifests == Spec => []DictionaryHasManifest
<1>1. IInv => DictionaryHasManifest
  BY DEF IInv
<1> QED
  BY <1>1, InitIInv, NextIInv, PTL DEF Spec

\* A process_document call that returned and met no other writer left both of
\* its files whole, of its own version, until the next one starts.
THEOREM ReturnedAreDurable == Spec => []ReturnedIsDurable
<1> QED
  BY Durable, InitIInv, NextIInv, PTL DEF Spec

\* Who reads a document after such a call, and before the next, is answered
\* with what the call wrote, or was refused a file by the system.
THEOREM CommitsAreRead == Spec => []ReadYourCommit
<1>1. IInv => ReadYourCommit
  BY DEF IInv
<1> QED
  BY <1>1, InitIInv, NextIInv, PTL DEF Spec

-----------------------------------------------------------------------------
(* Redaction                                                               *)

-----------------------------------------------------------------------------
\* Induction, as facts about sets

\* A set of naturals that is not empty has a least element.
LEMMA LeastNatural ==
    ASSUME NEW T \in SUBSET Nat, T # {}
    PROVE  \E m \in T : \A k \in T : m <= k
<1>1. PICK m \in T : \A k \in T : ~(<<k, m>> \in OpToRel(<, Nat))
  BY NatLessThanWellFounded, WFMin
<1>2. \A k \in T : ~(k < m)
  BY <1>1 DEF OpToRel
<1> QED
  BY <1>2

\* A set that has 0, and with each turn of a loop the next, has them all.
LEMMA Turns ==
    ASSUME NEW n \in Nat, NEW T, 0 \in T, \A k \in 1..n : k - 1 \in T => k \in T
    PROVE  \A k \in 0..n : k \in T
<1> SUFFICES ASSUME NEW j \in 0..n, j \notin T
             PROVE  FALSE
  OBVIOUS
<1> DEFINE F == {k \in 0..n : k \notin T}
<1>1. PICK m \in F : \A k \in F : m <= k
  <2>1. F \in SUBSET Nat /\ F # {}
    OBVIOUS
  <2> HIDE DEF F
  <2> QED
    BY <2>1, LeastNatural
<1>2. m \in 1..n /\ m - 1 \in 0..n
  BY <1>1
<1>3. m - 1 \in T
  BY <1>1, <1>2
<1> QED
  BY <1>1, <1>2, <1>3

-----------------------------------------------------------------------------
\* Slices

\* What a slice is made of.
LEMMA SliceType ==
    ASSUME NEW C, NEW text \in Seq(C), NEW s \in Nat, NEW e \in Nat
    PROVE  /\ Slice(text, s, e) \in Seq(C)
           /\ s <= e /\ e <= Len(text) => Len(Slice(text, s, e)) = e - s
           /\ Len(Slice(text, s, e)) <= Len(text)
           /\ e > Len(text) /\ s <= Len(text) => Len(Slice(text, s, e)) = Len(text) - s
           /\ s >= e \/ s >= Len(text) => Len(Slice(text, s, e)) = 0
           /\ \A i \in 1..Len(Slice(text, s, e)) :
                 s + i \in 1..Len(text) /\ Slice(text, s, e)[i] = text[s + i]
<1> DEFINE m == IF e < Len(text) THEN e ELSE Len(text)
<1>1. /\ Len(text) \in Nat /\ m \in Nat /\ m <= Len(text) /\ m <= e
      /\ \A i \in 1..Len(text) : text[i] \in C
      /\ e <= Len(text) => m = e
      /\ e > Len(text) => m = Len(text)
  BY LenProperties
<1>2. Slice(text, s, e) = SubSeq(text, s + 1, m)
  BY DEF Slice
<1> HIDE DEF m
<1>3. /\ SubSeq(text, s + 1, m) \in Seq(C)
      /\ Len(SubSeq(text, s + 1, m)) = IF s + 1 <= m THEN m - (s + 1) + 1 ELSE 0
      /\ \A i \in 1 .. m - (s + 1) + 1 : SubSeq(text, s + 1, m)[i] = text[(s + 1) + i - 1]
  <2>1. \A i \in (s + 1) .. m : text[i] \in C
    BY <1>1
  <2>2. s + 1 \in Int /\ m \in Int
    BY <1>1
  <2> QED
    BY <2>1, <2>2, SubSeqProperties
<1> QED
  BY <1>1, <1>2, <1>3

\* A slice that lies in the text.
LEMMA SliceInside ==
    ASSUME NEW C, NEW text \in Seq(C), NEW s \in Nat, NEW e \in Nat,
           s <= e, e <= Len(text)
    PROVE  /\ Slice(text, s, e) \in Seq(C)
           /\ Len(Slice(text, s, e)) = e - s
           /\ \A i \in 1 .. e - s : Slice(text, s, e)[i] = text[s + i]
<1>1. /\ Slice(text, s, e) \in Seq(C)
      /\ Len(Slice(text, s, e)) = e - s
      /\ \A i \in 1..Len(Slice(text, s, e)) : Slice(text, s, e)[i] = text[s + i]
  BY SliceType
<1> QED
  BY <1>1

\* The whole of a text, and two slices side by side.
LEMMA SliceWhole ==
    ASSUME NEW C, NEW text \in Seq(C)
    PROVE  Slice(text, 0, Len(text)) = text
BY SubSeqFull, LenProperties DEF Slice

\* Two slices of which one begins where the other ends are one slice.
LEMMA SliceJoin ==
    ASSUME NEW C, NEW text \in Seq(C), NEW a \in Nat, NEW b \in Nat, NEW c \in Nat,
           a <= b, b <= c, c <= Len(text)
    PROVE  Slice(text, a, b) \o Slice(text, b, c) = Slice(text, a, c)
<1>1. Len(text) \in Nat
  BY LenProperties
<1>2. /\ a + 1 \in 1 .. Len(text) + 1
      /\ b \in (a + 1) - 1 .. Len(text)
      /\ c \in b .. Len(text)
  BY <1>1
<1>3. SubSeq(text, a + 1, b) \o SubSeq(text, b + 1, c) = SubSeq(text, a + 1, c)
  BY <1>2, ConcatAdjacentSubSeq
<1>4. /\ Slice(text, a, b) = SubSeq(text, a + 1, b)
      /\ Slice(text, b, c) = SubSeq(text, b + 1, c)
      /\ Slice(text, a, c) = SubSeq(text, a + 1, c)
  <2>1. ASSUME NEW x \in Nat, NEW y \in 0..Len(text)
        PROVE  Slice(text, x, y) = SubSeq(text, x + 1, y)
    <3>1. CASE y < Len(text)
      BY <3>1 DEF Slice
    <3>2. CASE y = Len(text)
      BY <3>2 DEF Slice
    <3> QED
      BY <1>1, <3>1, <3>2
  <2>2. b \in 0..Len(text) /\ c \in 0..Len(text)
    BY <1>1
  <2> QED
    BY <2>1, <2>2
<1> QED
  BY <1>1, <1>3, <1>4

\* A slice of what a text begins with, and of what is put behind it.
LEMMA SliceOfPrefix ==
    ASSUME NEW C, NEW a \in Seq(C), NEW b \in Seq(C), NEW s \in Nat, NEW e \in Nat,
           e <= Len(a)
    PROVE  Slice(a \o b, s, e) = Slice(a, s, e)
<1>1. /\ a \o b \in Seq(C) /\ Len(a \o b) = Len(a) + Len(b)
      /\ \A i \in 1 .. Len(a) : (a \o b)[i] = a[i]
      /\ Len(a) \in Nat /\ Len(b) \in Nat
  BY ConcatProperties, LenProperties
<1> DEFINE x == Slice(a \o b, s, e)
           y == Slice(a, s, e)
<1>2. /\ x \in Seq(C) /\ y \in Seq(C)
      /\ Len(x) = Len(y)
      /\ \A i \in 1..Len(x) : s + i \in 1..Len(a) /\ x[i] = (a \o b)[s + i] /\ y[i] = a[s + i]
  <2>1. /\ x \in Seq(C)
        /\ s <= e => Len(x) = e - s
        /\ s >= e => Len(x) = 0
        /\ \A i \in 1..Len(x) : x[i] = (a \o b)[s + i]
    <3>1. a \o b \in Seq(C) /\ e <= Len(a \o b)
      BY <1>1
    <3> QED
      BY <3>1, SliceType
  <2>2. /\ y \in Seq(C)
        /\ s <= e => Len(y) = e - s
        /\ s >= e => Len(y) = 0
        /\ \A i \in 1..Len(y) : s + i \in 1..Len(a) /\ y[i] = a[s + i]
    BY <1>1, SliceType
  <2> HIDE DEF x, y
  <2> QED
    BY <2>1, <2>2
<1>3. \A i \in 1..Len(x) : x[i] = y[i]
  <2> HIDE DEF x, y
  <2> QED
    BY <1>1, <1>2
<1> HIDE DEF x, y
<1>4. x = y
  BY <1>2, <1>3, SeqEqual
<1> QED
  BY <1>4 DEF x, y

\* What a text begins with can be cut off.
LEMMA SliceOfSuffix ==
    ASSUME NEW C, NEW a \in Seq(C), NEW b \in Seq(C)
    PROVE  Slice(a \o b, Len(a), Len(a) + Len(b)) = b
<1>1. /\ a \o b \in Seq(C) /\ Len(a \o b) = Len(a) + Len(b)
      /\ \A i \in 1 .. Len(b) : (a \o b)[Len(a) + i] = b[i]
      /\ Len(a) \in Nat /\ Len(b) \in Nat
  <2>1. /\ a \o b \in Seq(C) /\ Len(a \o b) = Len(a) + Len(b)
        /\ \A i \in 1 .. Len(a) + Len(b) : (a \o b)[i] = IF i <= Len(a) THEN a[i] ELSE b[i - Len(a)]
    BY ConcatProperties
  <2>2. Len(a) \in Nat /\ Len(b) \in Nat
    BY LenProperties
  <2> QED
    BY <2>1, <2>2
<1> DEFINE x == Slice(a \o b, Len(a), Len(a) + Len(b))
<1>2. /\ x \in Seq(C) /\ Len(x) = Len(b)
      /\ \A i \in 1..Len(x) : x[i] = (a \o b)[Len(a) + i]
  <2> DEFINE m == Len(a)
             n == Len(a) + Len(b)
             t == a \o b
  <2>1. /\ t \in Seq(C) /\ m \in Nat /\ n \in Nat
        /\ m <= n /\ n <= Len(t) /\ n - m = Len(b)
    BY <1>1
  <2>2. /\ Slice(t, m, n) \in Seq(C) /\ Len(Slice(t, m, n)) = n - m
        /\ \A i \in 1 .. n - m : Slice(t, m, n)[i] = t[m + i]
    <3> HIDE DEF m, n, t
    <3> QED
      BY <2>1, SliceInside
  <2> QED
    BY <2>1, <2>2
<1> HIDE DEF x
<1>3. x = b
  BY <1>1, <1>2, SeqEqual
<1> QED
  BY <1>3 DEF x

\* A slice of a slice.
LEMMA SliceOfSlice ==
    ASSUME NEW C, NEW text \in Seq(C), NEW s \in Nat, NEW e \in Nat,
           NEW p \in Nat, NEW q \in Nat, p <= q, s + q <= e, s + q <= Len(text)
    PROVE  Slice(Slice(text, s, e), p, q) = Slice(text, s + p, s + q)
<1> DEFINE w == Slice(text, s, e)
           x == Slice(w, p, q)
           y == Slice(text, s + p, s + q)
<1>1. /\ Len(text) \in Nat
      /\ w \in Seq(C) /\ Len(w) \in Nat /\ q <= Len(w)
      /\ \A i \in 1..Len(w) : w[i] = text[s + i]
  <2>1. Len(text) \in Nat /\ w \in Seq(C)
    BY LenProperties, SliceType
  <2>2. Len(w) \in Nat
    BY <2>1, LenProperties
  <2>3. /\ e <= Len(text) => Len(w) = e - s
        /\ e > Len(text) => Len(w) = Len(text) - s
        /\ \A i \in 1..Len(w) : w[i] = text[s + i]
    BY SliceType, <2>1
  <2> HIDE DEF w
  <2> QED
    BY <2>1, <2>2, <2>3
<1>2. /\ x \in Seq(C) /\ Len(x) = q - p
      /\ \A i \in 1..Len(x) : p + i \in 1..Len(w) /\ x[i] = w[p + i]
  <2> HIDE DEF w
  <2> QED
    BY <1>1, SliceType
<1>3. /\ y \in Seq(C) /\ Len(y) = q - p
      /\ \A i \in 1..Len(y) : y[i] = text[(s + p) + i]
  <2> DEFINE m == s + p
             n == s + q
  <2>1. m \in Nat /\ n \in Nat /\ m <= n /\ n <= Len(text) /\ n - m = q - p
    OBVIOUS
  <2>2. /\ Slice(text, m, n) \in Seq(C) /\ Len(Slice(text, m, n)) = n - m
        /\ \A i \in 1 .. n - m : Slice(text, m, n)[i] = text[m + i]
    <3> HIDE DEF m, n
    <3> QED
      BY <2>1, SliceInside
  <2> QED
    BY <2>1, <2>2
<1> HIDE DEF x, y, w
<1>4. \A i \in 1..Len(x) : x[i] = y[i]
  <2> TAKE i \in 1..Len(x)
  <2>1. s + (p + i) = (s + p) + i
    BY <1>2
  <2> QED
    BY <1>1, <1>2, <1>3, <2>1
<1>5. x = y
  BY <1>2, <1>3, <1>4, SeqEqual
<1> QED
  BY <1>5 DEF x, y, w

\* Two texts, one behind the other.
LEMMA Behind ==
    ASSUME NEW C, NEW a \in Seq(C), NEW b \in Seq(C)
    PROVE  /\ a \o b \in Seq(C) /\ Len(a \o b) = Len(a) + Len(b)
           /\ Len(a) \in Nat /\ Len(b) \in Nat
BY ConcatProperties, LenProperties

\* What is put behind can be put together first.
LEMMA BehindBehind ==
    ASSUME NEW C, NEW a \in Seq(C), NEW b \in Seq(C), NEW c \in Seq(C)
    PROVE  a \o (b \o c) = (a \o b) \o c
BY ConcatAssociative

\* What a list of spans is.
LEMMA SpansType ==
    ASSUME NEW spans, AreSpans(spans)
    PROVE  /\ Len(spans) \in Nat /\ DOMAIN spans = 1..Len(spans)
           /\ spans \in Seq(ToSet(spans))
           /\ \A k \in 1..Len(spans) :
                 /\ spans[k].start \in Nat /\ spans[k].end \in Nat
                 /\ spans[k].start <= spans[k].end
                 /\ spans[k].kind \in Kind
                 /\ spans[k] \in ToSet(spans)
<1>1. spans \in Seq(ToSet(spans))
  BY DEF AreSpans
<1>2. Len(spans) \in Nat /\ DOMAIN spans = 1..Len(spans)
  BY <1>1, LenProperties
<1>3. \A k \in 1..Len(spans) : spans[k] \in ToSet(spans)
  BY <1>1, ElementOfSeq
<1> QED
  BY <1>1, <1>2, <1>3 DEF AreSpans

\* The order of the spans: each span has one place in it, and no span starts
\* before one that has an earlier place.
LEMMA OrderOfSpans ==
    ASSUME NEW spans, AreSpans(spans)
    PROVE  /\ ByStart(spans) \in [1..Len(spans) -> 1..Len(spans)]
           /\ \A i \in 1..Len(spans) : \E k \in 1..Len(spans) : ByStart(spans)[k] = i
           /\ \A j, k \in 1..Len(spans) : j < k =>
                 /\ ByStart(spans)[j] # ByStart(spans)[k]
                 /\ spans[ByStart(spans)[j]].start <= spans[ByStart(spans)[k]].start
<1> DEFINE n == Len(spans)
           D == 1..n
           Ahead(i) == {j \in D : Before(spans, j, i)}
           rank == [i \in D |-> Cardinality(Ahead(i))]
           o == ByStart(spans)
<1>1. n \in Nat /\ DOMAIN spans = D /\ \A i \in D : spans[i].start \in Nat
  BY SpansType
<1> HIDE DEF n
<1>2. /\ \A i \in D : ~Before(spans, i, i)
      /\ \A i, j \in D : i # j => Before(spans, i, j) \/ Before(spans, j, i)
      /\ \A i, j, k \in D : Before(spans, i, j) /\ Before(spans, j, k) => Before(spans, i, k)
      /\ \A i, j \in D : Before(spans, i, j) => spans[i].start <= spans[j].start
  BY <1>1 DEF Before
<1>3. IsFiniteSet(D) /\ Cardinality(D) = n
  BY <1>1, FS_Interval
<1>4. \A i \in D : IsFiniteSet(Ahead(i)) /\ Cardinality(Ahead(i)) \in Nat
  <2> TAKE i \in D
  <2>1. Ahead(i) \in SUBSET D
    OBVIOUS
  <2> HIDE DEF Ahead, D
  <2>2. IsFiniteSet(Ahead(i))
    BY <1>3, <2>1, FS_Subset
  <2> QED
    BY <2>2, FS_CardinalityType
<1>5. ASSUME NEW i \in D, NEW j \in D, Before(spans, i, j)
      PROVE  Cardinality(Ahead(i)) < Cardinality(Ahead(j))
  <2>1. Ahead(i) \in SUBSET Ahead(j) /\ i \in Ahead(j) /\ i \notin Ahead(i)
    BY <1>2, <1>5
  <2> HIDE DEF Ahead, D
  <2>2. /\ Cardinality(Ahead(i)) <= Cardinality(Ahead(j))
        /\ Cardinality(Ahead(i)) # Cardinality(Ahead(j))
    BY <1>4, <2>1, FS_Subset
  <2> QED
    BY <1>4, <2>2
<1>6. \A i \in D : Cardinality(Ahead(i)) \in 0 .. n - 1
  <2> TAKE i \in D
  <2>1. Ahead(i) \in SUBSET (D \ {i})
    BY <1>2
  <2>2. IsFiniteSet(D \ {i}) /\ Cardinality(D \ {i}) = n - 1
    <3> HIDE DEF D
    <3> QED
      BY <1>3, FS_RemoveElement
  <2>3. Cardinality(Ahead(i)) <= n - 1
    <3> HIDE DEF Ahead, D
    <3> QED
      BY <2>1, <2>2, FS_Subset
  <2> HIDE DEF Ahead, D
  <2> QED
    BY <1>1, <1>4, <2>3
<1>7. rank \in Injection(D, 0 .. n - 1)
  <2>1. rank \in [D -> 0 .. n - 1]
    <3> HIDE DEF Ahead, D
    <3> QED
      BY <1>6
  <2>2. ASSUME NEW i \in D, NEW j \in D, i # j
        PROVE  rank[i] # rank[j]
    <3>1. CASE Before(spans, i, j)
      <4>1. Cardinality(Ahead(i)) < Cardinality(Ahead(j))
        BY <1>5, <3>1
      <4> HIDE DEF Ahead, D
      <4> QED
        BY <1>4, <4>1
    <3>2. CASE Before(spans, j, i)
      <4>1. Cardinality(Ahead(j)) < Cardinality(Ahead(i))
        BY <1>5, <3>2
      <4> HIDE DEF Ahead, D
      <4> QED
        BY <1>4, <4>1
    <3> QED
      BY <1>2, <2>2, <3>1, <3>2
  <2> HIDE DEF rank, D
  <2> QED
    BY <2>1, <2>2 DEF Injection, IsInjective
<1>8. IsFiniteSet(0 .. n - 1) /\ Cardinality(0 .. n - 1) = n
  <2>1. 0 \in Int /\ n - 1 \in Int /\ (n - 1) - 0 + 1 = n
    BY <1>1
  <2>2. /\ IsFiniteSet(0 .. n - 1)
        /\ Cardinality(0 .. n - 1) = IF 0 > n - 1 THEN 0 ELSE (n - 1) - 0 + 1
    BY <2>1, FS_Interval
  <2> QED
    BY <1>1, <2>2
<1>9. rank \in Surjection(D, 0 .. n - 1)
  <2> HIDE DEF rank, D
  <2> QED
    BY <1>3, <1>7, <1>8, FS_Injection
<1>10. ASSUME NEW k \in D
       PROVE  o[k] \in D /\ rank[o[k]] = k - 1
  <2>1. k - 1 \in 0 .. n - 1
    BY <1>1
  <2>2. \E i \in D : rank[i] = k - 1
    <3> HIDE DEF rank, D
    <3> QED
      BY <1>9, <2>1 DEF Surjection
  <2>3. \E i \in D : Cardinality(Ahead(i)) = k - 1
    <3> HIDE DEF Ahead, D
    <3> QED
      BY <2>2
  <2>4. o[k] = CHOOSE i \in D : Cardinality(Ahead(i)) = k - 1
    BY <1>1 DEF ByStart
  <2> HIDE DEF Ahead, D, o
  <2> QED
    BY <2>3, <2>4
<1>11. o \in [D -> D]
  <2> DEFINE h(k) == CHOOSE i \in DOMAIN spans :
                        Cardinality({j \in DOMAIN spans : Before(spans, j, i)}) = k - 1
  <2>1. o = [k \in DOMAIN spans |-> h(k)]
    BY Zenon DEF ByStart
  <2> HIDE DEF o, D, h
  <2> QED
    BY <1>1, <1>10, <2>1
<1>12. ASSUME NEW i \in D PROVE \E k \in D : o[k] = i
  <2>1. rank[i] \in 0 .. n - 1
    <3> HIDE DEF Ahead, D
    <3> QED
      BY <1>6
  <2>2. rank[i] + 1 \in D /\ (rank[i] + 1) - 1 = rank[i]
    <3> HIDE DEF rank
    <3> QED
      BY <1>1, <2>1
  <2>3. o[rank[i] + 1] \in D /\ rank[o[rank[i] + 1]] = rank[i]
    <3> HIDE DEF rank, D, o
    <3> QED
      BY <1>10, <2>2
  <2>4. o[rank[i] + 1] = i
    <3> HIDE DEF rank, D, o
    <3> QED
      BY <1>7, <2>3 DEF Injection, IsInjective
  <2> HIDE DEF rank, o
  <2> QED
    BY <2>2, <2>4
<1>13. ASSUME NEW j \in D, NEW k \in D, j < k
       PROVE  o[j] # o[k] /\ spans[o[j]].start <= spans[o[k]].start
  <2>1. o[j] \in D /\ o[k] \in D /\ rank[o[j]] = j - 1 /\ rank[o[k]] = k - 1
    BY <1>10
  <2>2. o[j] # o[k]
    <3> HIDE DEF rank, o
    <3> QED
      BY <1>1, <1>13, <2>1
  <2>3. Cardinality(Ahead(o[j])) = j - 1 /\ Cardinality(Ahead(o[k])) = k - 1
    <3> HIDE DEF Ahead, o
    <3> QED
      BY <2>1
  <2>4. ~Before(spans, o[k], o[j])
    <3> SUFFICES ASSUME Before(spans, o[k], o[j])
                 PROVE  FALSE
      OBVIOUS
    <3>1. Cardinality(Ahead(o[k])) < Cardinality(Ahead(o[j]))
      <4> HIDE DEF Ahead, o, D
      <4> QED
        BY <1>5, <2>1
    <3> HIDE DEF Ahead, o
    <3> QED
      BY <1>1, <1>13, <2>3, <3>1
  <2> HIDE DEF o, D
  <2> QED
    BY <1>2, <2>1, <2>2, <2>4
<1> QED
  BY <1>11, <1>12, <1>13 DEF n

\* f[k] is what redact has done after k turns of its loop.
Redacting(f, text, spans) ==
    /\ f[0] = Nothing
    /\ \A k \in 1 .. Len(spans) : f[k] = Treat(text, f[k - 1], spans[ByStart(spans)[k]])

\* redact's loop over the spans.
LEMMA RedactLoop ==
    ASSUME NEW text, NEW spans, Len(spans) \in Nat
    PROVE  \E f : Redacting(f, text, spans) /\ redact(text, spans) = Joined(text, f[Len(spans)])
<1> DEFINE n == Len(spans)
           base == Nothing
           Turn(done, k) == Treat(text, done, spans[ByStart(spans)[k]])
           Is(f, m) == f = [k \in 0..m |-> IF k = 0 THEN base ELSE Turn(f[k - 1], k)]
           Has(m) == \E f : Is(f, m)
           T == {m \in 0..n : Has(m)}
           c == CHOOSE f : Is(f, n)
<1> HIDE DEF Turn, base, n
<1>1. Has(0)
  <2> DEFINE g == [k \in 0..0 |-> base]
  <2>1. Is(g, 0)
    OBVIOUS
  <2> QED
    BY <2>1, Zenon
<1>2. ASSUME NEW m \in 1..n, Has(m - 1)
      PROVE  Has(m)
  <2>1. PICK f : Is(f, m - 1)
    BY <1>2
  <2> DEFINE g == [k \in 0..m |-> IF k = m THEN Turn(f[m - 1], m) ELSE f[k]]
  <2>2. Is(g, m)
    BY <2>1
  <2> QED
    BY <2>2, Zenon
<1>3. n \in Nat
  BY DEF n
<1>4. n \in T
  <2>1. 0 \in T /\ \A m \in 1..n : m - 1 \in T => m \in T
    <3> HIDE DEF Has
    <3> QED
      BY <1>1, <1>2, <1>3
  <2> HIDE DEF T
  <2> QED
    BY <1>3, <2>1, Turns
<1>5. Is(c, n)
  BY <1>4, Zenon
<1>6. c[0] = base /\ \A k \in 1..n : c[k] = Turn(c[k - 1], k)
  <2> HIDE DEF c
  <2> QED
    BY <1>3, <1>5
<1>7. redact(text, spans) = Joined(text, c[n])
  BY Zenon DEF redact, Loop, n, base, Turn
<1> HIDE DEF c
<1>8. Redacting(c, text, spans)
  BY <1>6, Zenon DEF Redacting, n, base, Turn
<1> QED
  BY <1>7, <1>8, Zenon DEF n

\* f[k] is the text after the first k values were put back.
Restoring(f, text, entities, dictionary) ==
    /\ f[0] = [text |-> << >>, cursor |-> 0]
    /\ \A k \in 1 .. Len(entities) :
         f[k] = [text |-> f[k - 1].text \o Slice(text, f[k - 1].cursor, entities[k].start)
                            \o dictionary[k].value,
                 cursor |-> entities[k].end]

\* The loop that puts the values back.
LEMMA RestoredLoop ==
    ASSUME NEW text, NEW entities, NEW dictionary, Len(entities) \in Nat
    PROVE  \E f : /\ Restoring(f, text, entities, dictionary)
                  /\ Restored(text, entities, dictionary) = f[Len(entities)]
<1> DEFINE n == Len(entities)
           base == [text |-> << >>, cursor |-> 0]
           Turn(done, k) ==
               [text |-> done.text \o Slice(text, done.cursor, entities[k].start)
                           \o dictionary[k].value,
                cursor |-> entities[k].end]
           Is(f, m) == f = [k \in 0..m |-> IF k = 0 THEN base ELSE Turn(f[k - 1], k)]
           Has(m) == \E f : Is(f, m)
           T == {m \in 0..n : Has(m)}
           c == CHOOSE f : Is(f, n)
<1> HIDE DEF Turn, base, n
<1>1. Has(0)
  <2> DEFINE g == [k \in 0..0 |-> base]
  <2>1. Is(g, 0)
    OBVIOUS
  <2> QED
    BY <2>1, Zenon
<1>2. ASSUME NEW m \in 1..n, Has(m - 1)
      PROVE  Has(m)
  <2>1. PICK f : Is(f, m - 1)
    BY <1>2
  <2> DEFINE g == [k \in 0..m |-> IF k = m THEN Turn(f[m - 1], m) ELSE f[k]]
  <2>2. Is(g, m)
    BY <2>1
  <2> QED
    BY <2>2, Zenon
<1>3. n \in Nat
  BY DEF n
<1>4. n \in T
  <2>1. 0 \in T /\ \A m \in 1..n : m - 1 \in T => m \in T
    <3> HIDE DEF Has
    <3> QED
      BY <1>1, <1>2, <1>3
  <2> HIDE DEF T
  <2> QED
    BY <1>3, <2>1, Turns
<1>5. Is(c, n)
  BY <1>4, Zenon
<1>6. c[0] = base /\ \A k \in 1..n : c[k] = Turn(c[k - 1], k)
  <2> HIDE DEF c
  <2> QED
    BY <1>3, <1>5
<1>7. Restored(text, entities, dictionary) = c[n]
  BY Zenon DEF Restored, Loop, n, base, Turn
<1> HIDE DEF c
<1>8. Restoring(c, text, entities, dictionary)
  BY <1>6, Zenon DEF Restoring, n, base, Turn
<1> QED
  BY <1>7, <1>8, Zenon DEF n

-----------------------------------------------------------------------------
\* redact

\* What a redacted text is made of.
Symbol == Char \cup Kind \cup {"<", "_", ">"} \cup {Digest[v] : v \in Seq(Char)}

Entity == [kind: Kind, key: Seq(Symbol), start: Nat, end: Nat]

Entry == [key: Seq(Symbol), value: Seq(Char), kind: Kind]

\* What an entity of a text and its entry say.
EntityInv(text, entity, entry) ==
    /\ entity.start <= entity.end /\ entity.end <= Len(text)
    /\ Slice(text, entity.start, entity.end) = entity.key
    /\ entry.key = entity.key /\ entry.kind = entity.kind
    /\ entry.key = _make_key(entry.kind, entry.value)

\* What redact has made of a text, whatever spans it has seen.
DoneInv(text, done) ==
    /\ done.text \in Seq(Symbol)
    /\ done.cursor \in 0..Len(text) /\ done.offset \in Int
    /\ done.cursor + done.offset = Len(done.text)
    /\ done.entities \in Seq(Entity) /\ done.private \in Seq(Entry)
    /\ Len(done.entities) = Len(done.private)
    /\ \A k \in 1..Len(done.entities) :
          EntityInv(done.text, done.entities[k], done.private[k])
    /\ Restored(done.text, done.entities, done.private)
         = [text |-> Slice(text, 0, done.cursor), cursor |-> Len(done.text)]

\* A key is five symbols.
LEMMA KeyType ==
    ASSUME NEW kind \in Kind, NEW value \in Seq(Char)
    PROVE  _make_key(kind, value) \in Seq(Symbol) /\ Len(_make_key(kind, value)) = 5
<1>1. /\ "<" \in Symbol /\ "_" \in Symbol /\ ">" \in Symbol
      /\ kind \in Symbol /\ Digest[value] \in Symbol
  BY DEF Symbol
<1>2. ASSUME NEW a \in Symbol, NEW b \in Symbol, NEW c \in Symbol,
             NEW d \in Symbol, NEW e \in Symbol
      PROVE  <<a, b, c, d, e>> \in Seq(Symbol) /\ Len(<<a, b, c, d, e>>) = 5
  OBVIOUS
<1> QED
  BY <1>1, <1>2 DEF _make_key

\* Putting values back into a text that has become longer goes the same way.
LEMMA RestoredSame ==
    ASSUME NEW t \in Seq(Symbol), NEW x \in Seq(Symbol),
           NEW e1, NEW e2, NEW p1, NEW p2, NEW f1, NEW f2,
           Len(e1) \in Nat, Len(e2) \in Nat, Len(e1) <= Len(e2),
           \A k \in 1..Len(e1) : /\ e1[k].start \in Nat /\ e1[k].start <= Len(t)
                                 /\ e1[k].end \in Nat
                                 /\ e2[k] = e1[k] /\ p2[k] = p1[k],
           Restoring(f1, t, e1, p1), Restoring(f2, t \o x, e2, p2)
    PROVE  f2[Len(e1)] = f1[Len(e1)]
<1> DEFINE n == Len(e1)
           T == {k \in 0..n : f1[k] = f2[k] /\ f1[k].cursor \in Nat}
<1>1. 0 \in T
  BY DEF Restoring
<1>2. \A k \in 1..n : k - 1 \in T => k \in T
  <2> TAKE k \in 1..n
  <2> HAVE k - 1 \in T
  <2> DEFINE c == f1[k - 1].cursor
             s == e1[k].start
  <2>1. c \in Nat /\ f2[k - 1] = f1[k - 1]
    OBVIOUS
  <2>2. s \in Nat /\ s <= Len(t)
    OBVIOUS
  <2>3. Slice(t \o x, c, s) = Slice(t, c, s)
    <3> HIDE DEF c, s
    <3> QED
      BY <2>1, <2>2, SliceOfPrefix
  <2>4. f1[k] = [text |-> f1[k - 1].text \o Slice(t, c, s) \o p1[k].value, cursor |-> e1[k].end]
    BY DEF Restoring
  <2>5. f2[k] = [text |-> f1[k - 1].text \o Slice(t \o x, c, s) \o p1[k].value, cursor |-> e1[k].end]
    <3>1. k \in 1..Len(e2)
      OBVIOUS
    <3>2. f2[k] = [text |-> f2[k - 1].text \o Slice(t \o x, f2[k - 1].cursor, e2[k].start)
                              \o p2[k].value,
                   cursor |-> e2[k].end]
      BY <3>1 DEF Restoring
    <3> QED
      BY <2>1, <3>2
  <2>6. f1[k] = f2[k]
    <3> HIDE DEF c, s
    <3> QED
      BY <2>3, <2>4, <2>5
  <2>7. f1[k].cursor = e1[k].end
    BY <2>4
  <2> QED
    BY <2>6, <2>7
<1>3. n \in Nat /\ n \in 0..n
  OBVIOUS
<1>4. n \in T
  <2> HIDE DEF T, n
  <2>1. \A k \in 0..n : k \in T
    BY <1>1, <1>2, <1>3, Turns
  <2> QED
    BY <2>1, <1>3
<1> QED
  BY <1>4

\* The offsets of entities are naturals.
LEMMA EntitiesType ==
    ASSUME NEW es \in Seq(Entity)
    PROVE  /\ Len(es) \in Nat
           /\ \A k \in 1..Len(es) : /\ es[k] \in Entity
                                    /\ es[k].start \in Nat /\ es[k].end \in Nat
<1>1. \A k \in 1..Len(es) : es[k] \in Entity
  BY ElementOfSeq
<1>2. Len(es) \in Nat
  BY LenProperties
<1> QED
  BY <1>1, <1>2 DEF Entity

\* The text becomes longer.
LEMMA RestoredLonger ==
    ASSUME NEW t \in Seq(Symbol), NEW x \in Seq(Symbol),
           NEW es \in Seq(Entity), NEW ps,
           \A k \in 1..Len(es) : es[k].start <= Len(t)
    PROVE  Restored(t \o x, es, ps) = Restored(t, es, ps)
<1>1. Len(es) \in Nat /\ \A k \in 1..Len(es) : es[k].start \in Nat /\ es[k].end \in Nat
  BY EntitiesType
<1>2. PICK f1 : Restoring(f1, t, es, ps) /\ Restored(t, es, ps) = f1[Len(es)]
  BY <1>1, RestoredLoop
<1>3. PICK f2 : Restoring(f2, t \o x, es, ps) /\ Restored(t \o x, es, ps) = f2[Len(es)]
  <2> DEFINE u == t \o x
  <2> HIDE DEF u
  <2>1. \E f2 : Restoring(f2, u, es, ps) /\ Restored(u, es, ps) = f2[Len(es)]
    BY <1>1, RestoredLoop
  <2> QED
    BY <2>1 DEF u
<1>4. f2[Len(es)] = f1[Len(es)]
  BY <1>1, <1>2, <1>3, RestoredSame
<1> QED
  BY <1>2, <1>3, <1>4

\* One more value is put back.
LEMMA RestoredNext ==
    ASSUME NEW t \in Seq(Symbol), NEW x \in Seq(Symbol),
           NEW es \in Seq(Entity), NEW ps \in Seq(Entry), Len(es) = Len(ps),
           NEW entity \in Entity, NEW entry \in Entry,
           \A k \in 1..Len(es) : es[k].start <= Len(t)
    PROVE  Restored(t \o x, Append(es, entity), Append(ps, entry))
             = [text |-> Restored(t, es, ps).text
                           \o Slice(t \o x, Restored(t, es, ps).cursor, entity.start)
                           \o entry.value,
                cursor |-> entity.end]
<1> DEFINE n == Len(es)
           es2 == Append(es, entity)
           ps2 == Append(ps, entry)
           u == t \o x
<1>1. n \in Nat /\ \A k \in 1..n : es[k].start \in Nat /\ es[k].end \in Nat
  BY EntitiesType
<1>2. /\ Len(es2) = n + 1 /\ es2[n + 1] = entity
      /\ \A k \in 1..n : es2[k] = es[k]
  BY AppendProperties
<1>3. ps2[n + 1] = entry /\ \A k \in 1..n : ps2[k] = ps[k]
  BY AppendProperties
<1>4. PICK f1 : Restoring(f1, t, es, ps) /\ Restored(t, es, ps) = f1[n]
  BY <1>1, RestoredLoop
<1>5. PICK f2 : Restoring(f2, u, es2, ps2) /\ Restored(u, es2, ps2) = f2[n + 1]
  <2>1. n + 1 \in Nat
    BY <1>1
  <2> HIDE DEF u, es2, ps2, n
  <2> QED
    BY <1>2, <2>1, RestoredLoop
<1>6. f2[n] = f1[n]
  <2>1. \A k \in 1..n : /\ es[k].start \in Nat /\ es[k].start <= Len(t)
                        /\ es[k].end \in Nat
                        /\ es2[k] = es[k] /\ ps2[k] = ps[k]
    BY <1>1, <1>2, <1>3
  <2>2. Len(es2) \in Nat /\ Len(es) <= Len(es2)
    BY <1>1, <1>2
  <2>3. Restoring(f2, t \o x, es2, ps2)
    BY <1>5
  <2> HIDE DEF es2, ps2, u
  <2> QED
    BY <1>1, <1>4, <2>1, <2>2, <2>3, RestoredSame
<1>7. f2[n + 1] = [text |-> f2[n].text \o Slice(u, f2[n].cursor, es2[n + 1].start)
                             \o ps2[n + 1].value,
                   cursor |-> es2[n + 1].end]
  <2>1. n + 1 \in 1 .. Len(es2) /\ (n + 1) - 1 = n
    BY <1>1, <1>2
  <2> HIDE DEF u, es2, ps2, n
  <2> QED
    BY <1>5, <2>1 DEF Restoring
<1>8. Restored(u, es2, ps2)
         = [text |-> Restored(t, es, ps).text
                       \o Slice(u, Restored(t, es, ps).cursor, entity.start) \o entry.value,
            cursor |-> entity.end]
  <2> HIDE DEF u, es2, ps2, n
  <2> QED
    BY <1>2, <1>3, <1>4, <1>5, <1>6, <1>7
<1> QED
  BY <1>8

\* What is true of an entity stays true when the text becomes longer.
LEMMA EntityLonger ==
    ASSUME NEW t \in Seq(Symbol), NEW x \in Seq(Symbol),
           NEW entity \in Entity, NEW entry, EntityInv(t, entity, entry)
    PROVE  EntityInv(t \o x, entity, entry) /\ entity.start <= Len(t)
<1>1. /\ entity.start \in Nat /\ entity.end \in Nat
      /\ entity.start <= entity.end /\ entity.end <= Len(t)
      /\ Slice(t, entity.start, entity.end) = entity.key
      /\ entry.key = entity.key /\ entry.kind = entity.kind
      /\ entry.key = _make_key(entry.kind, entry.value)
  BY DEF Entity, EntityInv
<1>2. Slice(t \o x, entity.start, entity.end) = Slice(t, entity.start, entity.end)
  BY <1>1, SliceOfPrefix
<1>3. Len(t \o x) = Len(t) + Len(x) /\ Len(t) \in Nat /\ Len(x) \in Nat
  BY Behind
<1>4. entity.start <= Len(t) /\ entity.end <= Len(t \o x)
  <2> DEFINE u == t \o x
  <2> HIDE DEF u
  <2> QED
    BY <1>1, <1>3 DEF u
<1> QED
  BY <1>1, <1>2, <1>4 DEF EntityInv

\* A span that is replaced.
LEMMA ReplaceKeeps ==
    ASSUME NEW text \in Seq(Char), NEW done, DoneInv(text, done),
           NEW span, span.start \in Nat, span.end \in Nat, span.kind \in Kind,
           done.cursor <= span.start, span.start <= span.end, span.end <= Len(text)
    PROVE  DoneInv(text, Replace(text, done, span))
<1> DEFINE t == done.text
           from == span.start
           to == span.end
           cursor == done.cursor
           gap == Slice(text, cursor, from)
           value == Slice(text, from, to)
           key == _make_key(span.kind, value)
           x == gap \o key
           u == t \o x
           start == from + done.offset
           entity == [kind |-> span.kind, key |-> key, start |-> start,
                      end |-> start + Len(key)]
           entry == [key |-> key, value |-> value, kind |-> span.kind]
           es == done.entities
           ps == done.private
           new == Replace(text, done, span)
<1>1. /\ t \in Seq(Symbol) /\ cursor \in Nat /\ done.offset \in Int
      /\ cursor <= Len(text) /\ cursor + done.offset = Len(t)
      /\ es \in Seq(Entity) /\ ps \in Seq(Entry) /\ Len(es) = Len(ps)
      /\ \A k \in 1..Len(es) : EntityInv(t, es[k], ps[k])
      /\ Restored(t, es, ps) = [text |-> Slice(text, 0, cursor), cursor |-> Len(t)]
  BY DEF DoneInv
<1>2. from \in Nat /\ to \in Nat /\ cursor <= from /\ from <= to /\ to <= Len(text)
      /\ Len(text) \in Nat /\ Len(t) \in Nat
  BY <1>1, LenProperties
<1>3. gap \in Seq(Char) /\ Len(gap) = from - cursor
  <2> HIDE DEF from, to, cursor
  <2>1. from <= Len(text)
    BY <1>2
  <2> QED
    BY <1>1, <1>2, <2>1, SliceInside
<1>4. value \in Seq(Char) /\ Len(value) = to - from
  <2> HIDE DEF from, to, cursor
  <2> QED
    BY <1>2, SliceInside
<1>5. gap \in Seq(Symbol) /\ value \in Seq(Symbol)
  <2>1. Char \subseteq Symbol
    BY DEF Symbol
  <2> HIDE DEF gap, value
  <2> QED
    BY <1>3, <1>4, <2>1, SeqMonotonic
<1>6. key \in Seq(Symbol) /\ Len(key) = 5
  <2> HIDE DEF value
  <2> QED
    BY <1>4, KeyType
<1>7. new = [text |-> (t \o gap) \o key, entities |-> Append(es, entity),
             private |-> Append(ps, entry), cursor |-> to,
             offset |-> (done.offset + Len(key)) - Len(value)]
  BY DEF Replace
<1> HIDE DEF gap, value, key, t, from, to, cursor, es, ps, new
<1>8. /\ x \in Seq(Symbol) /\ Len(x) = Len(gap) + 5
      /\ u \in Seq(Symbol) /\ Len(u) = Len(t) + Len(gap) + 5
      /\ u = (t \o gap) \o key
      /\ t \o gap \in Seq(Symbol) /\ Len(t \o gap) = Len(t) + Len(gap)
  <2>1. x \in Seq(Symbol) /\ Len(x) = Len(gap) + 5
    <3>1. gap \o key \in Seq(Symbol) /\ Len(gap \o key) = Len(gap) + Len(key)
      BY <1>5, <1>6, Behind
    <3> QED
      BY <1>6, <3>1
  <2>2. u \in Seq(Symbol) /\ Len(u) = Len(t) + Len(x)
    <3> HIDE DEF x
    <3> QED
      BY <1>1, <2>1, Behind
  <2>3. u = (t \o gap) \o key
    <3>1. t \o (gap \o key) = (t \o gap) \o key
      <4>1. t \in Seq(Symbol) /\ gap \in Seq(Symbol) /\ key \in Seq(Symbol)
        BY <1>1, <1>5, <1>6
      <4> QED
        BY <4>1, BehindBehind
    <3> QED
      BY <3>1 DEF u, x
  <2>4. t \o gap \in Seq(Symbol) /\ Len(t \o gap) = Len(t) + Len(gap)
    BY <1>1, <1>5, Behind
  <2>5. Len(gap) \in Nat
    BY <1>2, <1>3, <1>1
  <2> HIDE DEF x, u
  <2> QED
    BY <1>2, <2>1, <2>2, <2>3, <2>4, <2>5
<1>9. /\ start = Len(t) + Len(gap) /\ start \in Nat /\ start + Len(key) = Len(u)
      /\ start + Len(key) \in Nat /\ start <= start + Len(key)
  <2>1. Len(gap) = from - cursor /\ Len(gap) \in Nat
    BY <1>1, <1>2, <1>3
  <2>2. /\ cursor + done.offset = Len(t) /\ cursor \in Nat /\ done.offset \in Int
        /\ from \in Nat /\ Len(t) \in Nat /\ Len(key) = 5
    BY <1>1, <1>2, <1>6
  <2>3. start = from + done.offset
    OBVIOUS
  <2>4. Len(u) = Len(t) + Len(gap) + 5
    BY <1>8
  <2> DEFINE off == done.offset
  <2> HIDE DEF u, x, start, off
  <2>5. start = Len(t) + Len(gap)
    BY <2>1, <2>2, <2>3
  <2>6. start \in Nat
    BY <2>1, <2>2, <2>5
  <2> QED
    BY <2>1, <2>2, <2>4, <2>5, <2>6
<1> HIDE DEF start, x, u
<1>10. entity \in Entity /\ entry \in Entry
  <2>1. span.kind \in Kind
    OBVIOUS
  <2> QED
    BY <1>4, <1>6, <1>9, <2>1 DEF Entity, Entry
<1>11. EntityInv(u, entity, entry)
  <2>1. Slice(u, start, start + Len(key)) = key
    <3>1. Slice((t \o gap) \o key, Len(t \o gap), Len(t \o gap) + Len(key)) = key
      BY <1>6, <1>8, SliceOfSuffix
    <3> QED
      BY <1>8, <1>9, <3>1
  <2>2. key = _make_key(span.kind, value)
    BY DEF key
  <2> QED
    BY <1>9, <2>1, <2>2 DEF EntityInv
<1>12. Slice(u, Len(t), start) = gap
  <2>1. Slice((t \o gap) \o key, Len(t), Len(t \o gap)) = Slice(t \o gap, Len(t), Len(t \o gap))
    <3> DEFINE a == t \o gap
               m == Len(t)
               n == Len(a)
    <3>1. a \in Seq(Symbol) /\ m \in Nat /\ n \in Nat /\ n <= Len(a)
      BY <1>2, <1>8, <1>9
    <3> HIDE DEF a, m, n
    <3>2. Slice(a \o key, m, n) = Slice(a, m, n)
      BY <1>6, <3>1, SliceOfPrefix
    <3> QED
      BY <3>2 DEF a, m, n
  <2>2. Slice(t \o gap, Len(t), Len(t) + Len(gap)) = gap
    BY <1>1, <1>5, SliceOfSuffix
  <2> QED
    BY <1>8, <1>9, <2>1, <2>2
<1>13. \A k \in 1..Len(es) : es[k] \in Entity /\ es[k].start <= Len(t) /\ EntityInv(u, es[k], ps[k])
  <2> TAKE k \in 1..Len(es)
  <2>1. es[k] \in Entity /\ EntityInv(t, es[k], ps[k])
    BY <1>1, EntitiesType
  <2>2. EntityInv(t \o x, es[k], ps[k]) /\ es[k].start <= Len(t)
    BY <1>1, <1>8, <2>1, EntityLonger
  <2> QED
    BY <2>1, <2>2 DEF u
<1> HIDE DEF entity, entry
<1>14. Restored(u, Append(es, entity), Append(ps, entry))
         = [text |-> Slice(text, 0, cursor) \o gap \o value, cursor |-> start + Len(key)]
  <2>1. Restored(t \o x, Append(es, entity), Append(ps, entry))
         = [text |-> Restored(t, es, ps).text
                       \o Slice(t \o x, Restored(t, es, ps).cursor, entity.start)
                       \o entry.value,
            cursor |-> entity.end]
    <3>1. \A k \in 1..Len(es) : es[k].start <= Len(t)
      BY <1>13
    <3>2. /\ t \in Seq(Symbol) /\ x \in Seq(Symbol) /\ es \in Seq(Entity)
          /\ ps \in Seq(Entry) /\ Len(es) = Len(ps) /\ entity \in Entity /\ entry \in Entry
      BY <1>1, <1>8, <1>10
    <3> QED
      BY <3>1, <3>2, RestoredNext
  <2>2. entity.start = start /\ entity.end = start + Len(key) /\ entry.value = value
    BY DEF entity, entry
  <2>3. t \o x = u
    BY DEF u
  <2>4. Restored(t, es, ps).text = Slice(text, 0, cursor) /\ Restored(t, es, ps).cursor = Len(t)
    BY <1>1
  <2> QED
    BY <1>12, <2>1, <2>2, <2>3, <2>4
<1>15. Slice(text, 0, cursor) \o gap \o value = Slice(text, 0, to)
  <2>1. Slice(text, 0, cursor) \o Slice(text, cursor, from) = Slice(text, 0, from)
    <3>1. 0 \in Nat /\ 0 <= cursor /\ from <= Len(text)
      BY <1>1, <1>2
    <3> QED
      BY <1>1, <1>2, <3>1, SliceJoin
  <2>2. Slice(text, 0, from) \o Slice(text, from, to) = Slice(text, 0, to)
    <3>1. 0 \in Nat /\ 0 <= from
      BY <1>1, <1>2
    <3> QED
      BY <1>1, <1>2, <3>1, SliceJoin
  <2> QED
    BY <2>1, <2>2 DEF gap, value
<1>16. /\ Append(es, entity) \in Seq(Entity) /\ Append(ps, entry) \in Seq(Entry)
       /\ Len(Append(es, entity)) = Len(Append(ps, entry))
       /\ Len(Append(es, entity)) = Len(es) + 1
       /\ \A k \in 1 .. Len(es) : Append(es, entity)[k] = es[k] /\ Append(ps, entry)[k] = ps[k]
       /\ Append(es, entity)[Len(es) + 1] = entity /\ Append(ps, entry)[Len(es) + 1] = entry
  <2>1. /\ Append(es, entity) \in Seq(Entity)
        /\ Len(Append(es, entity)) = Len(es) + 1
        /\ \A k \in 1 .. Len(es) : Append(es, entity)[k] = es[k]
        /\ Append(es, entity)[Len(es) + 1] = entity
    BY <1>1, <1>10, AppendProperties
  <2>2. /\ Append(ps, entry) \in Seq(Entry)
        /\ Len(Append(ps, entry)) = Len(ps) + 1
        /\ \A k \in 1 .. Len(ps) : Append(ps, entry)[k] = ps[k]
        /\ Append(ps, entry)[Len(ps) + 1] = entry
    BY <1>1, <1>10, AppendProperties
  <2> QED
    BY <1>1, <2>1, <2>2
<1>17. /\ new.text = u /\ new.entities = Append(es, entity) /\ new.private = Append(ps, entry)
       /\ new.cursor = to /\ new.offset = (done.offset + Len(key)) - Len(value)
  BY <1>7, <1>8 DEF entity, entry, start
<1>18. \A k \in 1..Len(new.entities) : EntityInv(new.text, new.entities[k], new.private[k])
  <2>1. Len(es) \in Nat
    BY <1>1, LenProperties
  <2>2. ASSUME NEW k \in 1 .. Len(es) + 1
        PROVE  EntityInv(u, Append(es, entity)[k], Append(ps, entry)[k])
    <3>1. CASE k = Len(es) + 1
      BY <1>11, <1>16, <3>1
    <3>2. CASE k # Len(es) + 1
      <4>1. k \in 1 .. Len(es)
        BY <2>1, <3>2
      <4> QED
        BY <1>13, <1>16, <4>1
    <3> QED
      BY <3>1, <3>2
  <2>3. Len(new.entities) = Len(es) + 1
    BY <1>16, <1>17
  <2> QED
    BY <1>17, <2>2, <2>3
<1>19. /\ new.cursor \in 0..Len(text) /\ new.offset \in Int
       /\ new.cursor + new.offset = Len(new.text)
  <2>1. Len(value) = to - from /\ Len(gap) = from - cursor
    BY <1>3, <1>4
  <2> DEFINE off == done.offset
  <2>2. /\ cursor + off = Len(t) /\ cursor \in Nat /\ off \in Int
        /\ from \in Nat /\ to \in Nat /\ to <= Len(text)
        /\ Len(text) \in Nat /\ Len(t) \in Nat /\ Len(key) = 5
    BY <1>1, <1>2, <1>6
  <2>3. Len(u) = Len(t) + Len(gap) + 5
    BY <1>8
  <2>4. new.cursor = to /\ new.offset = (off + Len(key)) - Len(value) /\ new.text = u
    BY <1>17
  <2> HIDE DEF off
  <2>5. Len(value) \in Int /\ Len(key) \in Int /\ off + Len(key) \in Int
    BY <2>1, <2>2
  <2>6. (off + Len(key)) - Len(value) \in Int
    BY <2>5
  <2>7. to + ((off + Len(key)) - Len(value)) = Len(u)
    BY <2>1, <2>2, <2>3, <2>5
  <2>8. new.cursor \in 0..Len(text)
    BY <2>2, <2>4
  <2>9. new.cursor + new.offset = Len(new.text)
    BY <2>4, <2>7
  <2> QED
    BY <2>4, <2>6, <2>8, <2>9
<1>20. Restored(new.text, new.entities, new.private)
         = [text |-> Slice(text, 0, new.cursor), cursor |-> Len(new.text)]
  BY <1>9, <1>14, <1>15, <1>17
<1>21. DoneInv(text, new)
  BY <1>8, <1>16, <1>17, <1>18, <1>19, <1>20 DEF DoneInv
<1> QED
  BY <1>21 DEF new

\* A turn of the loop.
LEMMA TreatKeeps ==
    ASSUME NEW text \in Seq(Char), NEW done, DoneInv(text, done),
           NEW span, span.start \in Nat, span.end \in Nat, span.kind \in Kind,
           span.start <= span.end
    PROVE  DoneInv(text, Treat(text, done, span))
<1>1. Len(text) \in Nat /\ done.cursor \in Nat
  BY LenProperties DEF DoneInv
<1>2. CASE span.start < done.cursor \/ Past(text, span)
  BY <1>2 DEF Treat
<1>3. CASE ~(span.start < done.cursor \/ Past(text, span))
  <2>1. done.cursor <= span.start /\ span.end <= Len(text)
    BY <1>1, <1>3 DEF Past
  <2>2. Treat(text, done, span) = Replace(text, done, span)
    BY <1>3 DEF Treat
  <2> QED
    BY <2>1, <2>2, ReplaceKeeps
<1> QED
  BY <1>2, <1>3

\* Before the first turn.
LEMMA NothingDone == ASSUME NEW text \in Seq(Char) PROVE DoneInv(text, Nothing)
<1>1. Len(text) \in Nat /\ Slice(text, 0, 0) = << >>
  <2>1. Len(text) \in Nat
    BY LenProperties
  <2>2. Slice(text, 0, 0) = SubSeq(text, 1, 0)
    BY <2>1 DEF Slice
  <2>3. SubSeq(text, 1, 0) = << >>
    BY SubSeqEmpty
  <2> QED
    BY <2>1, <2>2, <2>3
<1>2. Restored(<< >>, << >>, << >>) = [text |-> << >>, cursor |-> 0]
  <2>1. Len(<< >>) = 0
    BY EmptySeq
  <2>2. PICK f : Restoring(f, << >>, << >>, << >>) /\ Restored(<< >>, << >>, << >>) = f[0]
    BY <2>1, RestoredLoop
  <2> QED
    BY <2>2 DEF Restoring
<1> QED
  BY <1>1, <1>2 DEF DoneInv, Nothing

\* A value of the list is the one the span has in the text.
Kept(dictionary, text, span) ==
    \E e \in 1..Len(dictionary) :
        /\ dictionary[e].kind = span.kind
        /\ dictionary[e].value = Slice(text, span.start, span.end)

\* A span that starts no later than another, and reaches into it.
Covers(other, span) == other.start <= span.start /\ span.start < other.end

\* What has become of the first k spans, by start.
AccountInv(text, spans, done, k) ==
    LET o == ByStart(spans) IN
    /\ \A j \in 1..k :
          \/ Kept(done.private, text, spans[o[j]])
          \/ Past(text, spans[o[j]])
          \/ \E i \in 1..k : Kept(done.private, text, spans[o[i]])
                               /\ Covers(spans[o[i]], spans[o[j]])
    /\ \/ done.cursor = 0
       \/ \E i \in 1..k : Kept(done.private, text, spans[o[i]])
                            /\ done.cursor = spans[o[i]].end

\* A span that is replaced is kept, and so are those that were.
LEMMA ReplaceKept ==
    ASSUME NEW text, NEW done, NEW span, done.private \in Seq(Entry),
           NEW dictionary, dictionary = Replace(text, done, span).private
    PROVE  /\ Kept(dictionary, text, span)
           /\ \A other : Kept(done.private, text, other) => Kept(dictionary, text, other)
<1> DEFINE ps == done.private
           value == Slice(text, span.start, span.end)
           entry == [key |-> _make_key(span.kind, value), value |-> value, kind |-> span.kind]
<1>1. dictionary = Append(ps, entry)
  BY DEF Replace
<1>2. entry.value = value /\ entry.kind = span.kind
  OBVIOUS
<1> HIDE DEF entry, value, ps
<1>3. Len(ps) \in Nat /\ ps \in Seq(Entry)
  BY LenProperties DEF ps
<1>4. ps \in Seq(Entry \cup {entry})
  <2>1. Entry \subseteq Entry \cup {entry}
    OBVIOUS
  <2> QED
    BY <1>3, <2>1, SeqMonotonic
<1>5. /\ Len(dictionary) = Len(ps) + 1
      /\ \A e \in 1..Len(ps) : dictionary[e] = ps[e]
      /\ dictionary[Len(ps) + 1] = entry
  <2>1. entry \in Entry \cup {entry}
    OBVIOUS
  <2> QED
    BY <1>1, <1>4, <2>1, AppendProperties
<1>6. Kept(dictionary, text, span)
  <2>1. Len(ps) + 1 \in 1..Len(dictionary)
    BY <1>3, <1>5
  <2> QED
    BY <1>2, <1>5, <2>1 DEF Kept, value
<1>7. ASSUME NEW other, Kept(ps, text, other)
      PROVE  Kept(dictionary, text, other)
  <2>1. PICK e \in 1..Len(ps) : /\ ps[e].kind = other.kind
                                /\ ps[e].value = Slice(text, other.start, other.end)
    BY <1>7 DEF Kept
  <2>2. e \in 1..Len(dictionary) /\ dictionary[e] = ps[e]
    BY <1>3, <1>5
  <2> QED
    BY <2>1, <2>2 DEF Kept
<1> QED
  BY <1>6, <1>7 DEF ps

\* A turn of the loop accounts for its span.
LEMMA TreatAccounts ==
    ASSUME NEW text \in Seq(Char), NEW spans, AreSpans(spans), NEW k \in 1..Len(spans),
           NEW done, DoneInv(text, done), AccountInv(text, spans, done, k - 1)
    PROVE  AccountInv(text, spans, Treat(text, done, spans[ByStart(spans)[k]]), k)
<1> DEFINE o == ByStart(spans)
           n == Len(spans)
           at(j) == spans[o[j]]
           new == Treat(text, done, at(k))
<1>1. n \in Nat /\ k \in Nat /\ k - 1 \in Nat /\ k <= n
  BY SpansType
<1>2. \A j \in 1..n : at(j).start \in Nat /\ at(j).end \in Nat /\ at(j).start <= at(j).end
  <2>1. o \in [1..n -> 1..n]
    BY OrderOfSpans
  <2>2. \A j \in 1..n : o[j] \in 1..n
    <3> HIDE DEF o, n
    <3> QED
      BY <2>1
  <2> HIDE DEF o
  <2> QED
    BY <2>2, SpansType
<1>3. \A i, j \in 1..n : i < j => at(i).start <= at(j).start
  BY OrderOfSpans
<1>4. /\ \A j \in 1 .. k - 1 :
            \/ Kept(done.private, text, at(j))
            \/ Past(text, at(j))
            \/ \E i \in 1 .. k - 1 : Kept(done.private, text, at(i)) /\ Covers(at(i), at(j))
      /\ \/ done.cursor = 0
         \/ \E i \in 1 .. k - 1 : Kept(done.private, text, at(i)) /\ done.cursor = at(i).end
  BY DEF AccountInv
<1>5. done.private \in Seq(Entry) /\ done.cursor \in Nat
  BY LenProperties DEF DoneInv
<1> SUFFICES /\ \A j \in 1..k :
                   \/ Kept(new.private, text, at(j))
                   \/ Past(text, at(j))
                   \/ \E i \in 1..k : Kept(new.private, text, at(i)) /\ Covers(at(i), at(j))
             /\ \/ new.cursor = 0
                \/ \E i \in 1..k : Kept(new.private, text, at(i)) /\ new.cursor = at(i).end
  BY DEF AccountInv
<1>6. CASE at(k).start < done.cursor \/ Past(text, at(k))
  <2>1. new = done
    BY <1>6 DEF Treat
  <2>2. \/ Past(text, at(k))
        \/ \E i \in 1 .. k - 1 : Kept(done.private, text, at(i)) /\ Covers(at(i), at(k))
    <3> HIDE DEF at, n
    <3> SUFFICES ASSUME at(k).start < done.cursor
                 PROVE  \E i \in 1 .. k - 1 : Kept(done.private, text, at(i)) /\ Covers(at(i), at(k))
      BY <1>6
    <3>1. done.cursor # 0
      BY <1>1, <1>2
    <3>2. PICK i \in 1 .. k - 1 : Kept(done.private, text, at(i)) /\ done.cursor = at(i).end
      BY <1>4, <3>1
    <3>3. i \in 1..n /\ i < k /\ k \in 1..n
      BY <1>1
    <3>4. at(i).start <= at(k).start
      BY <1>3, <3>3
    <3> QED
      BY <3>2, <3>4 DEF Covers
  <2>3. \A j \in 1..k : j = k \/ j \in 1 .. k - 1
    BY <1>1
  <2>4. 1 .. k - 1 \subseteq 1..k
    BY <1>1
  <2> HIDE DEF at, new
  <2> QED
    BY <1>4, <2>1, <2>2, <2>3, <2>4
<1>7. CASE ~(at(k).start < done.cursor \/ Past(text, at(k)))
  <2>1. new = Replace(text, done, at(k))
    BY <1>7 DEF Treat
  <2>2. new.cursor = at(k).end
    BY <2>1 DEF Replace
  <2> DEFINE span == at(k)
             dictionary == new.private
  <2>3. dictionary = Replace(text, done, span).private
    BY <2>1
  <2>4. /\ Kept(dictionary, text, span)
        /\ \A other : Kept(done.private, text, other) => Kept(dictionary, text, other)
    <3> HIDE DEF span, dictionary
    <3> QED
      BY <1>5, <2>3, ReplaceKept
  <2>5. \A j \in 1..k : j = k \/ j \in 1 .. k - 1
    BY <1>1
  <2>6. 1 .. k - 1 \subseteq 1..k /\ k \in 1..k
    BY <1>1
  <2> HIDE DEF at, new
  <2> QED
    BY <1>4, <2>2, <2>4, <2>5, <2>6
<1> QED
  BY <1>6, <1>7

\* What redact gives: entities that point at their keys, the text back, and
\* no span passed over but past the text or covered by one that was replaced.
LEMMA Redacted ==
    ASSUME NEW text \in Seq(Char), NEW spans, AreSpans(spans),
           NEW m, m = redact(text, spans)
    PROVE  /\ m.text \in Seq(Symbol)
           /\ m.entities \in Seq(Entity) /\ m.private \in Seq(Entry)
           /\ Len(m.entities) = Len(m.private)
           /\ \A k \in 1..Len(m.entities) : EntityInv(m.text, m.entities[k], m.private[k])
           /\ LET r == Restored(m.text, m.entities, m.private) IN
              r.text \o Slice(m.text, r.cursor, Len(m.text)) = text
           /\ \A k \in 1..Len(spans) :
                 \/ Kept(m.private, text, spans[k])
                 \/ Past(text, spans[k])
                 \/ \E j \in 1..Len(spans) :
                       Kept(m.private, text, spans[j]) /\ Covers(spans[j], spans[k])
<1> DEFINE n == Len(spans)
           o == ByStart(spans)
<1>1. /\ n \in Nat
      /\ \A k \in 1..n : /\ spans[k].start \in Nat /\ spans[k].end \in Nat
                         /\ spans[k].start <= spans[k].end /\ spans[k].kind \in Kind
  BY SpansType
<1>2. \A k \in 1..n : o[k] \in 1..n
  <2>1. o \in [1..n -> 1..n]
    BY OrderOfSpans
  <2> HIDE DEF o, n
  <2> QED
    BY <2>1
<1>3. \A i \in 1..n : \E k \in 1..n : o[k] = i
  BY OrderOfSpans
<1>4. PICK f : Redacting(f, text, spans) /\ m = Joined(text, f[n])
  BY <1>1, RedactLoop
<1>5. DoneInv(text, f[n]) /\ AccountInv(text, spans, f[n], n)
  <2> DEFINE T == {k \in 0..n : DoneInv(text, f[k]) /\ AccountInv(text, spans, f[k], k)}
  <2>1. 0 \in T
    <3>1. f[0] = Nothing
      BY <1>4 DEF Redacting
    <3>2. Nothing.cursor = 0
      BY DEF Nothing
    <3>3. AccountInv(text, spans, Nothing, 0)
      BY <3>2 DEF AccountInv
    <3> QED
      BY <1>1, <3>1, <3>3, NothingDone
  <2>2. \A k \in 1..n : k - 1 \in T => k \in T
    <3> TAKE k \in 1..n
    <3> HAVE k - 1 \in T
    <3>1. DoneInv(text, f[k - 1]) /\ AccountInv(text, spans, f[k - 1], k - 1)
      OBVIOUS
    <3>2. f[k] = Treat(text, f[k - 1], spans[o[k]])
      BY <1>4 DEF Redacting
    <3> DEFINE span == spans[o[k]]
               done == f[k - 1]
    <3>3. span.start \in Nat /\ span.end \in Nat /\ span.kind \in Kind /\ span.start <= span.end
      <4> HIDE DEF o
      <4> QED
        BY <1>1, <1>2
    <3>4. DoneInv(text, Treat(text, done, span))
      <4>1. DoneInv(text, done)
        BY <3>1
      <4> HIDE DEF span, done, n, T
      <4> QED
        BY <3>3, <4>1, TreatKeeps
    <3>5. AccountInv(text, spans, Treat(text, done, span), k)
      <4>1. DoneInv(text, done) /\ AccountInv(text, spans, done, k - 1)
        BY <3>1
      <4> HIDE DEF done
      <4> QED
        BY <4>1, TreatAccounts
    <3> HIDE DEF o
    <3> QED
      BY <3>2, <3>4, <3>5
  <2>3. \A k \in 0..n : k \in T
    <3> HIDE DEF T, n
    <3> QED
      BY <1>1, <2>1, <2>2, Turns
  <2> QED
    BY <1>1, <2>3
<1> DEFINE done == f[n]
           t == done.text
           es == done.entities
           ps == done.private
           cursor == done.cursor
           rest == Slice(text, cursor, Len(text))
<1>6. /\ t \in Seq(Symbol) /\ cursor \in 0..Len(text)
      /\ es \in Seq(Entity) /\ ps \in Seq(Entry) /\ Len(es) = Len(ps)
      /\ \A k \in 1..Len(es) : EntityInv(t, es[k], ps[k])
      /\ Restored(t, es, ps) = [text |-> Slice(text, 0, cursor), cursor |-> Len(t)]
  BY <1>5 DEF DoneInv
<1>7. m.text = t \o rest /\ m.entities = es /\ m.private = ps
  <2>1. m = Joined(text, done)
    BY <1>4
  <2> HIDE DEF done
  <2>2. m = [text |-> t \o rest, entities |-> es, private |-> ps]
    BY <2>1 DEF Joined
  <2> HIDE DEF t, es, ps, rest
  <2> QED
    BY <2>2
<1>8. AccountInv(text, spans, done, n)
  BY <1>5
<1> HIDE DEF done, t, es, ps, cursor
<1>9. Len(text) \in Nat /\ cursor \in Nat /\ cursor <= Len(text)
  <2>1. Len(text) \in Nat
    BY LenProperties
  <2> QED
    BY <1>6, <2>1
<1>10. rest \in Seq(Char) /\ rest \in Seq(Symbol)
  <2>1. rest \in Seq(Char)
    BY <1>9, SliceType
  <2>2. Char \subseteq Symbol
    BY DEF Symbol
  <2> HIDE DEF rest
  <2> QED
    BY <2>1, <2>2, SeqMonotonic
<1>11. \A k \in 1..Len(es) : EntityInv(t \o rest, es[k], ps[k]) /\ es[k].start <= Len(t)
  <2> TAKE k \in 1..Len(es)
  <2>1. es[k] \in Entity /\ EntityInv(t, es[k], ps[k])
    BY <1>6, EntitiesType
  <2> HIDE DEF rest
  <2> QED
    BY <1>6, <1>10, <2>1, EntityLonger
<1>12. Restored(t \o rest, es, ps) = [text |-> Slice(text, 0, cursor), cursor |-> Len(t)]
  <2>1. Restored(t \o rest, es, ps) = Restored(t, es, ps)
    <3> HIDE DEF rest
    <3> QED
      BY <1>6, <1>10, <1>11, RestoredLonger
  <2> QED
    BY <1>6, <2>1
<1>13. Slice(t \o rest, Len(t), Len(t \o rest)) = rest /\ t \o rest \in Seq(Symbol)
  <2> HIDE DEF rest
  <2>1. Slice(t \o rest, Len(t), Len(t) + Len(rest)) = rest
    BY <1>6, <1>10, SliceOfSuffix
  <2>2. Len(t \o rest) = Len(t) + Len(rest) /\ t \o rest \in Seq(Symbol)
    BY <1>6, <1>10, Behind
  <2> QED
    BY <2>1, <2>2
<1>14. Slice(text, 0, cursor) \o rest = text
  <2>1. Slice(text, 0, cursor) \o Slice(text, cursor, Len(text)) = Slice(text, 0, Len(text))
    BY <1>9, SliceJoin
  <2>2. Slice(text, 0, Len(text)) = text
    BY SliceWhole
  <2> QED
    BY <2>1, <2>2
<1>15. LET r == Restored(m.text, m.entities, m.private) IN
       r.text \o Slice(m.text, r.cursor, Len(m.text)) = text
  <2> HIDE DEF rest
  <2> QED
    BY <1>7, <1>12, <1>13, <1>14
<1>16. ASSUME NEW k \in 1..n
       PROVE  \/ Kept(ps, text, spans[k])
              \/ Past(text, spans[k])
              \/ \E j \in 1..n : Kept(ps, text, spans[j]) /\ Covers(spans[j], spans[k])
  <2>1. PICK j \in 1..n : o[j] = k
    BY <1>3
  <2>2. \/ Kept(ps, text, spans[o[j]])
        \/ Past(text, spans[o[j]])
        \/ \E i \in 1..n : Kept(ps, text, spans[o[i]]) /\ Covers(spans[o[i]], spans[o[j]])
    BY <1>8 DEF AccountInv, ps
  <2> HIDE DEF n, o
  <2> QED
    BY <1>2, <2>1, <2>2
<1>17. m.text \in Seq(Symbol) /\ \A k \in 1..Len(m.entities) : EntityInv(m.text, m.entities[k], m.private[k])
  <2> HIDE DEF rest
  <2> QED
    BY <1>7, <1>11, <1>13
<1>18. m.entities \in Seq(Entity) /\ m.private \in Seq(Entry) /\ Len(m.entities) = Len(m.private)
  BY <1>6, <1>7
<1> QED
  BY <1>7, <1>15, <1>16, <1>17, <1>18

-----------------------------------------------------------------------------
\* The proposer by rules

\* f[k] is what finditer has found after k offsets.
Finding(f, text, word) ==
    /\ f[0] = << >>
    /\ \A k \in 1 .. Len(text) :
         f[k] = IF /\ At(text, word, k - 1)
                   /\ \A j \in DOMAIN f[k - 1] : f[k - 1][j] + Len(word) <= k - 1
                  THEN Append(f[k - 1], k - 1) ELSE f[k - 1]

\* finditer's loop over the offsets.
LEMMA FindLoop ==
    ASSUME NEW text, NEW word, Len(text) \in Nat
    PROVE  \E f : Finding(f, text, word) /\ FindIter(text, word) = f[Len(text)]
<1> DEFINE n == Len(text)
           base == << >>
           Turn(done, k) ==
               IF /\ At(text, word, k - 1)
                  /\ \A j \in DOMAIN done : done[j] + Len(word) <= k - 1
                 THEN Append(done, k - 1) ELSE done
           Is(f, m) == f = [k \in 0..m |-> IF k = 0 THEN base ELSE Turn(f[k - 1], k)]
           Has(m) == \E f : Is(f, m)
           T == {m \in 0..n : Has(m)}
           c == CHOOSE f : Is(f, n)
<1> HIDE DEF Turn, base, n
<1>1. Has(0)
  <2> DEFINE g == [k \in 0..0 |-> base]
  <2>1. Is(g, 0)
    OBVIOUS
  <2> QED
    BY <2>1, Zenon
<1>2. ASSUME NEW m \in 1..n, Has(m - 1)
      PROVE  Has(m)
  <2>1. PICK f : Is(f, m - 1)
    BY <1>2
  <2> DEFINE g == [k \in 0..m |-> IF k = m THEN Turn(f[m - 1], m) ELSE f[k]]
  <2>2. Is(g, m)
    BY <2>1
  <2> QED
    BY <2>2, Zenon
<1>3. n \in Nat
  BY DEF n
<1>4. n \in T
  <2>1. 0 \in T /\ \A m \in 1..n : m - 1 \in T => m \in T
    <3> HIDE DEF Has
    <3> QED
      BY <1>1, <1>2, <1>3
  <2> HIDE DEF T
  <2> QED
    BY <1>3, <2>1, Turns
<1>5. Is(c, n)
  BY <1>4, Zenon
<1>6. c[0] = base /\ \A k \in 1..n : c[k] = Turn(c[k - 1], k)
  <2> HIDE DEF c
  <2> QED
    BY <1>3, <1>5
<1>7. FindIter(text, word) = c[n]
  BY Zenon DEF FindIter, Loop, n, base, Turn
<1> HIDE DEF c
<1>8. Finding(c, text, word)
  BY <1>6, Zenon DEF Finding, n, base, Turn
<1> QED
  BY <1>7, <1>8, Zenon DEF n

\* f[k] is what is claimed after k matches of a rule.
Claiming(f, text, claimed, rule) ==
    /\ f[0] = claimed
    /\ \A k \in 1 .. Len(FindIter(text, rule.word)) :
         f[k] = Claim(f[k - 1], FindIter(text, rule.word)[k], rule)

\* The loop over the matches of a rule.
LEMMA ClaimLoop ==
    ASSUME NEW text, NEW claimed, NEW rule, Len(FindIter(text, rule.word)) \in Nat
    PROVE  \E f : /\ Claiming(f, text, claimed, rule)
                  /\ ClaimAll(text, claimed, rule) = f[Len(FindIter(text, rule.word))]
<1> DEFINE n == Len(FindIter(text, rule.word))
           base == claimed
           Turn(done, k) == Claim(done, FindIter(text, rule.word)[k], rule)
           Is(f, m) == f = [k \in 0..m |-> IF k = 0 THEN base ELSE Turn(f[k - 1], k)]
           Has(m) == \E f : Is(f, m)
           T == {m \in 0..n : Has(m)}
           c == CHOOSE f : Is(f, n)
<1> HIDE DEF Turn, base, n
<1>1. Has(0)
  <2> DEFINE g == [k \in 0..0 |-> base]
  <2>1. Is(g, 0)
    OBVIOUS
  <2> QED
    BY <2>1, Zenon
<1>2. ASSUME NEW m \in 1..n, Has(m - 1)
      PROVE  Has(m)
  <2>1. PICK f : Is(f, m - 1)
    BY <1>2
  <2> DEFINE g == [k \in 0..m |-> IF k = m THEN Turn(f[m - 1], m) ELSE f[k]]
  <2>2. Is(g, m)
    BY <2>1
  <2> QED
    BY <2>2, Zenon
<1>3. n \in Nat
  BY DEF n
<1>4. n \in T
  <2>1. 0 \in T /\ \A m \in 1..n : m - 1 \in T => m \in T
    <3> HIDE DEF Has
    <3> QED
      BY <1>1, <1>2, <1>3
  <2> HIDE DEF T
  <2> QED
    BY <1>3, <2>1, Turns
<1>5. Is(c, n)
  BY <1>4, Zenon
<1>6. c[0] = base /\ \A k \in 1..n : c[k] = Turn(c[k - 1], k)
  <2> HIDE DEF c
  <2> QED
    BY <1>3, <1>5
<1>7. ClaimAll(text, claimed, rule) = c[n]
  BY Zenon DEF ClaimAll, Loop, n, base, Turn
<1> HIDE DEF c
<1>8. Claiming(c, text, claimed, rule)
  BY <1>6, Zenon DEF Claiming, n, base, Turn
<1> QED
  BY <1>7, <1>8, Zenon DEF n

\* A list of spans, by start.
Sorted(spans) == [k \in DOMAIN spans |-> spans[ByStart(spans)[k]]]

\* f[k] is what is claimed after k rules.
Ruling(f, text, rules) ==
    /\ f[0] = << >>
    /\ \A k \in 1 .. Len(rules) : f[k] = ClaimAll(text, f[k - 1], rules[k])

\* The loop over the rules.
LEMMA RulesLoop ==
    ASSUME NEW text, NEW rules, Len(rules) \in Nat
    PROVE  \E f : Ruling(f, text, rules) /\ ProposeByRules(text, rules) = Proposed(Sorted(f[Len(rules)]))
<1> DEFINE n == Len(rules)
           base == << >>
           Turn(done, k) == ClaimAll(text, done, rules[k])
           Is(f, m) == f = [k \in 0..m |-> IF k = 0 THEN base ELSE Turn(f[k - 1], k)]
           Has(m) == \E f : Is(f, m)
           T == {m \in 0..n : Has(m)}
           c == CHOOSE f : Is(f, n)
<1> HIDE DEF Turn, base, n
<1>1. Has(0)
  <2> DEFINE g == [k \in 0..0 |-> base]
  <2>1. Is(g, 0)
    OBVIOUS
  <2> QED
    BY <2>1, Zenon
<1>2. ASSUME NEW m \in 1..n, Has(m - 1)
      PROVE  Has(m)
  <2>1. PICK f : Is(f, m - 1)
    BY <1>2
  <2> DEFINE g == [k \in 0..m |-> IF k = m THEN Turn(f[m - 1], m) ELSE f[k]]
  <2>2. Is(g, m)
    BY <2>1
  <2> QED
    BY <2>2, Zenon
<1>3. n \in Nat
  BY DEF n
<1>4. n \in T
  <2>1. 0 \in T /\ \A m \in 1..n : m - 1 \in T => m \in T
    <3> HIDE DEF Has
    <3> QED
      BY <1>1, <1>2, <1>3
  <2> HIDE DEF T
  <2> QED
    BY <1>3, <2>1, Turns
<1>5. Is(c, n)
  BY <1>4, Zenon
<1>6. c[0] = base /\ \A k \in 1..n : c[k] = Turn(c[k - 1], k)
  <2> HIDE DEF c
  <2> QED
    BY <1>3, <1>5
<1>7. ProposeByRules(text, rules) = Proposed(Sorted(c[n]))
  BY Zenon DEF ProposeByRules, Sorted, Loop, n, base, Turn
<1> HIDE DEF c
<1>8. Ruling(c, text, rules)
  BY <1>6, Zenon DEF Ruling, n, base, Turn
<1> QED
  BY <1>7, <1>8, Zenon DEF n

\* What the rules claim of a text: parts of it that are not empty and do not
\* overlap.
RuleSpan(text) == {s \in [start: Nat, end: Nat, kind: Kind] : s.start < s.end /\ s.end <= Len(text)}

Apart(a, b) == a.end <= b.start \/ b.end <= a.start

Claims(text, spans) ==
    /\ spans \in Seq(RuleSpan(text))
    /\ \A i, j \in 1..Len(spans) : i # j => Apart(spans[i], spans[j])

\* A match lies in the text.
LEMMA MatchInside ==
    ASSUME NEW C, NEW text \in Seq(C), NEW word \in Seq(C), NEW i \in Nat,
           i <= Len(text), At(text, word, i)
    PROVE  i + Len(word) <= Len(text)
<1>1. Len(text) \in Nat /\ Len(word) \in Nat
  BY LenProperties
<1> DEFINE e == i + Len(word)
<1>2. Slice(text, i, e) = word /\ e \in Nat
  BY <1>1 DEF At
<1>3. e > Len(text) => Len(Slice(text, i, e)) = Len(text) - i
  <2> HIDE DEF e
  <2> QED
    BY <1>1, <1>2, SliceType
<1> QED
  BY <1>1, <1>2, <1>3

\* What finditer finds.
LEMMA Found ==
    ASSUME NEW text \in Seq(Char), NEW word \in Seq(Char)
    PROVE  /\ Len(FindIter(text, word)) \in Nat
           /\ \A k \in 1..Len(FindIter(text, word)) :
                 /\ FindIter(text, word)[k] \in Nat
                 /\ FindIter(text, word)[k] + Len(word) <= Len(text)
<1> DEFINE n == Len(text)
           S == {i \in Nat : i + Len(word) <= Len(text)}
<1>1. n \in Nat
  BY LenProperties
<1>2. PICK f : Finding(f, text, word) /\ FindIter(text, word) = f[n]
  BY <1>1, FindLoop
<1> DEFINE T == {k \in 0..n : f[k] \in Seq(S)}
<1>3. 0 \in T
  <2>1. f[0] = << >>
    BY <1>2 DEF Finding
  <2>2. << >> \in Seq(S)
    <3> HIDE DEF S
    <3> QED
      BY EmptySeq
  <2>3. f[0] \in Seq(S)
    <3> HIDE DEF S
    <3> QED
      BY <2>1, <2>2
  <2>4. 0 \in 0..n
    BY <1>1
  <2> HIDE DEF S, n
  <2> QED
    BY <2>3, <2>4
<1>4. \A k \in 1..n : k - 1 \in T => k \in T
  <2> TAKE k \in 1..n
  <2> HAVE k - 1 \in T
  <2> DEFINE found == f[k - 1]
  <2>1. found \in Seq(S)
    OBVIOUS
  <2>2. f[k] = found \/ (At(text, word, k - 1) /\ f[k] = Append(found, k - 1))
    BY <1>2 DEF Finding
  <2>3. ASSUME At(text, word, k - 1)
        PROVE  k - 1 \in S
    <3>1. k - 1 \in Nat /\ k - 1 <= Len(text)
      BY <1>1
    <3> DEFINE i == k - 1
    <3>2. i + Len(word) <= Len(text)
      <4> HIDE DEF i
      <4> QED
        BY <2>3, <3>1, MatchInside DEF i
    <3> QED
      BY <3>1, <3>2
  <2>4. f[k] \in Seq(S)
    <3> DEFINE i == k - 1
               match == At(text, word, i)
               longer == f[k]
    <3>1. /\ found \in Seq(S) /\ (match => i \in S)
          /\ longer = found \/ (match /\ longer = Append(found, i))
      BY <2>1, <2>2, <2>3
    <3> HIDE DEF S, found, i, match, longer
    <3>2. longer \in Seq(S)
      <4>1. CASE longer = found
        BY <3>1, <4>1
      <4>2. CASE match /\ longer = Append(found, i)
        BY <3>1, <4>2, AppendProperties
      <4> QED
        BY <3>1, <4>1, <4>2
    <3> QED
      BY <3>2 DEF longer
  <2> QED
    BY <2>4
<1>5. f[n] \in Seq(S)
  <2>1. \A k \in 0..n : k \in T
    <3> HIDE DEF T, n
    <3> QED
      BY <1>1, <1>3, <1>4, Turns
  <2> QED
    BY <1>1, <2>1
<1>6. Len(f[n]) \in Nat /\ \A k \in 1..Len(f[n]) : f[n][k] \in S
  <2> HIDE DEF S, n
  <2> QED
    BY <1>5, LenProperties, ElementOfSeq
<1> QED
  BY <1>2, <1>6

\* A match is claimed only where nothing is.
LEMMA ClaimKeeps ==
    ASSUME NEW text \in Seq(Char), NEW claimed, Claims(text, claimed), NEW start \in Nat,
           NEW rule, rule.kind \in Kind, rule.word \in Seq(Char) \ {<< >>},
           start + Len(rule.word) <= Len(text)
    PROVE  Claims(text, Claim(claimed, start, rule))
<1> DEFINE end == start + Len(rule.word)
           span == [start |-> start, end |-> end, kind |-> rule.kind]
           taken == \E j \in DOMAIN claimed : start < claimed[j].end /\ end > claimed[j].start
           new == Append(claimed, span)
           n == Len(claimed)
<1>1. Claim(claimed, start, rule) = IF taken THEN claimed ELSE new
  BY DEF Claim
<1>2. n \in Nat /\ DOMAIN claimed = 1..n
      /\ claimed \in Seq(RuleSpan(text))
      /\ \A k \in 1..n : claimed[k] \in RuleSpan(text)
  <2>1. claimed \in Seq(RuleSpan(text))
    BY DEF Claims
  <2> QED
    BY <2>1, LenProperties, ElementOfSeq
<1>3. end \in Nat /\ start < end /\ end <= Len(text)
  <2>1. Len(rule.word) \in Nat /\ Len(rule.word) # 0
    BY LenProperties, EmptySeq
  <2> QED
    BY <2>1
<1> HIDE DEF end
<1>4. span \in RuleSpan(text) /\ span.start = start /\ span.end = end
  BY <1>3 DEF RuleSpan
<1> HIDE DEF span
<1>5. /\ new \in Seq(RuleSpan(text)) /\ Len(new) = n + 1
      /\ \A k \in 1..n : new[k] = claimed[k]
      /\ new[n + 1] = span
  BY <1>2, <1>4, AppendProperties
<1>6. ASSUME ~taken, NEW k \in 1..n
      PROVE  Apart(claimed[k], span)
  <2>1. ~(start < claimed[k].end /\ end > claimed[k].start)
    BY <1>2, <1>6
  <2>2. claimed[k].start \in Nat /\ claimed[k].end \in Nat
    BY <1>2 DEF RuleSpan
  <2> QED
    BY <1>3, <1>4, <2>1, <2>2 DEF Apart
<1>7. ASSUME ~taken
      PROVE  Claims(text, new)
  <2>1. \A i, j \in 1..n : i # j => Apart(claimed[i], claimed[j])
    BY DEF Claims
  <2>2. ASSUME NEW i \in 1 .. n + 1, NEW j \in 1 .. n + 1, i # j
        PROVE  Apart(new[i], new[j])
    <3>1. CASE i \in 1..n /\ j \in 1..n
      BY <1>5, <2>1, <2>2, <3>1
    <3>2. CASE i \in 1..n /\ j = n + 1
      BY <1>5, <1>6, <1>7, <3>2
    <3>3. CASE i = n + 1 /\ j \in 1..n
      <4>1. Apart(new[j], new[i])
        BY <1>5, <1>6, <1>7, <3>3
      <4> QED
        BY <4>1 DEF Apart
    <3> HIDE DEF new
    <3> QED
      BY <1>2, <2>2, <3>1, <3>2, <3>3
  <2> HIDE DEF new
  <2> QED
    BY <1>5, <2>2 DEF Claims
<1> HIDE DEF new, taken
<1> QED
  BY <1>1, <1>7

\* All matches of a rule.
LEMMA ClaimAllKeeps ==
    ASSUME NEW text \in Seq(Char), NEW claimed, Claims(text, claimed),
           NEW rule, rule.kind \in Kind, rule.word \in Seq(Char) \ {<< >>}
    PROVE  Claims(text, ClaimAll(text, claimed, rule))
<1> DEFINE found == FindIter(text, rule.word)
           n == Len(found)
<1>1. n \in Nat /\ \A k \in 1..n : found[k] \in Nat /\ found[k] + Len(rule.word) <= Len(text)
  BY Found
<1>2. PICK f : Claiming(f, text, claimed, rule) /\ ClaimAll(text, claimed, rule) = f[n]
  BY <1>1, ClaimLoop
<1> DEFINE T == {k \in 0..n : Claims(text, f[k])}
<1>3. 0 \in T
  BY <1>1, <1>2 DEF Claiming
<1>4. \A k \in 1..n : k - 1 \in T => k \in T
  <2> TAKE k \in 1..n
  <2> HAVE k - 1 \in T
  <2> DEFINE start == found[k]
             before == f[k - 1]
  <2>1. f[k] = Claim(before, start, rule)
    BY <1>2 DEF Claiming
  <2>2. start \in Nat /\ start + Len(rule.word) <= Len(text) /\ Claims(text, before)
    BY <1>1
  <2>3. Claims(text, Claim(before, start, rule))
    <3> HIDE DEF start, before
    <3> QED
      BY <2>2, ClaimKeeps
  <2> QED
    BY <2>1, <2>3
<1>5. \A k \in 0..n : k \in T
  <2> HIDE DEF T, n
  <2> QED
    BY <1>1, <1>3, <1>4, Turns
<1> QED
  BY <1>1, <1>2, <1>5

\* What is claimed, by start, is a list of spans and no two overlap.
LEMMA SortedClaims ==
    ASSUME NEW text \in Seq(Char), NEW spans, Claims(text, spans)
    PROVE  AreSpans(Sorted(spans)) /\ Claims(text, Sorted(spans))
<1> DEFINE n == Len(spans)
           o == ByStart(spans)
           R == RuleSpan(text)
<1>1. spans \in Seq(R) /\ \A i, j \in 1..n : i # j => Apart(spans[i], spans[j])
  BY DEF Claims
<1>2. n \in Nat /\ DOMAIN spans = 1..n /\ \A k \in 1..n : spans[k] \in R
  <2> HIDE DEF R
  <2> QED
    BY <1>1, LenProperties, ElementOfSeq
<1>3. ASSUME NEW s, s \in Seq(R)
      PROVE  AreSpans(s)
  <2>1. DOMAIN s = 1..Len(s) /\ Len(s) \in Nat /\ \A k \in 1..Len(s) : s[k] \in R
    <3> HIDE DEF R
    <3> QED
      BY <1>3, LenProperties, ElementOfSeq
  <2>2. s \in Seq(ToSet(s))
    <3>1. \A k \in 1..Len(s) : s[k] \in ToSet(s)
      BY <2>1 DEF ToSet
    <3>2. s = [k \in 1..Len(s) |-> s[k]]
      <4> HIDE DEF R
      <4> QED
        BY <1>3, <2>1
    <3> QED
      BY <2>1, <3>1, <3>2, IsASeq
  <2>3. \A k \in 1..Len(s) : /\ s[k].start \in Nat /\ s[k].end \in Nat
                             /\ s[k].start <= s[k].end /\ s[k].kind \in Kind
    BY <2>1 DEF RuleSpan
  <2> QED
    BY <2>1, <2>2, <2>3 DEF AreSpans
<1>4. AreSpans(spans)
  BY <1>1, <1>3
<1>5. /\ o \in [1..n -> 1..n]
      /\ \A j, k \in 1..n : j < k => o[j] # o[k]
  BY <1>4, OrderOfSpans
<1>6. \A k \in 1..n : o[k] \in 1..n
  <2> HIDE DEF o, n
  <2> QED
    BY <1>5
<1>7. /\ Sorted(spans) \in Seq(R) /\ Len(Sorted(spans)) = n
      /\ \A k \in 1..n : Sorted(spans)[k] = spans[o[k]]
  <2>1. Sorted(spans) = [k \in 1..n |-> spans[o[k]]]
    BY <1>2 DEF Sorted
  <2>2. \A k \in 1..n : spans[o[k]] \in R
    <3> HIDE DEF o, n, R
    <3> QED
      BY <1>2, <1>6
  <2> DEFINE s == [k \in 1..n |-> spans[o[k]]]
  <2>3. s \in [1..n -> R]
    <3> HIDE DEF o, n, R
    <3> QED
      BY <2>2
  <2>4. s \in Seq(R) /\ Len(s) = n
    <3> HIDE DEF s, n, R
    <3> QED
      BY <1>2, <2>3, IsASeq, LenProperties
  <2>5. \A k \in 1..n : s[k] = spans[o[k]]
    <3> HIDE DEF o, n
    <3> QED
      OBVIOUS
  <2> HIDE DEF s
  <2> QED
    BY <2>1, <2>4, <2>5 DEF s
<1>8. ASSUME NEW i \in 1..n, NEW j \in 1..n, i # j
      PROVE  Apart(Sorted(spans)[i], Sorted(spans)[j])
  <2>1. i < j \/ j < i
    BY <1>2, <1>8
  <2>2. o[i] # o[j]
    BY <1>5, <2>1
  <2> HIDE DEF o
  <2> QED
    BY <1>1, <1>6, <1>7, <2>2
<1> QED
  BY <1>3, <1>7, <1>8 DEF Claims

\* What the rules propose.
LEMMA RulesPropose ==
    ASSUME NEW text \in Seq(Char), NEW rules, Len(rules) \in Nat,
           \A r \in 1..Len(rules) :
              rules[r].word \in Seq(Char) \ {<< >>} /\ rules[r].kind \in Kind,
           NEW proposal, proposal = ProposeByRules(text, rules)
    PROVE  AreSpans(proposal.spans) /\ Claims(text, proposal.spans)
<1> DEFINE n == Len(rules)
<1>1. PICK f : Ruling(f, text, rules) /\ proposal = Proposed(Sorted(f[n]))
  BY RulesLoop
<1> DEFINE T == {k \in 0..n : Claims(text, f[k])}
<1>2. 0 \in T
  <2>1. f[0] = << >>
    BY <1>1 DEF Ruling
  <2>2. Claims(text, << >>)
    BY EmptySeq DEF Claims
  <2> QED
    BY <2>1, <2>2
<1>3. \A k \in 1..n : k - 1 \in T => k \in T
  <2> TAKE k \in 1..n
  <2> HAVE k - 1 \in T
  <2> DEFINE before == f[k - 1]
             rule == rules[k]
  <2>1. f[k] = ClaimAll(text, before, rule)
    BY <1>1 DEF Ruling
  <2>2. Claims(text, before) /\ rule.word \in Seq(Char) \ {<< >>} /\ rule.kind \in Kind
    OBVIOUS
  <2>3. Claims(text, ClaimAll(text, before, rule))
    <3> HIDE DEF before, rule
    <3> QED
      BY <2>2, ClaimAllKeeps
  <2> QED
    BY <2>1, <2>3
<1>4. \A k \in 0..n : k \in T
  <2>1. n \in Nat
    OBVIOUS
  <2> HIDE DEF T, n
  <2> QED
    BY <1>2, <1>3, <2>1, Turns
<1>5. Claims(text, f[n])
  BY <1>4
<1>6. proposal.spans = Sorted(f[n])
  BY <1>1 DEF Proposed
<1> DEFINE claimed == f[n]
<1> HIDE DEF claimed
<1>7. AreSpans(Sorted(claimed)) /\ Claims(text, Sorted(claimed))
  BY <1>5, SortedClaims DEF claimed
<1> QED
  BY <1>6, <1>7 DEF claimed

\* Of spans that do not overlap, none is passed over.
LEMMA ClaimsAreKept ==
    ASSUME NEW text \in Seq(Char), NEW spans, AreSpans(spans), Claims(text, spans),
           NEW dictionary,
           \A k \in 1..Len(spans) :
              \/ Kept(dictionary, text, spans[k])
              \/ Past(text, spans[k])
              \/ \E j \in 1..Len(spans) :
                    Kept(dictionary, text, spans[j]) /\ Covers(spans[j], spans[k])
    PROVE  \A k \in 1..Len(spans) : Kept(dictionary, text, spans[k])
<1> TAKE k \in 1..Len(spans)
<1>1. /\ \A j \in 1..Len(spans) : spans[j] \in RuleSpan(text)
      /\ \A i, j \in 1..Len(spans) : i # j => Apart(spans[i], spans[j])
  <2>1. spans \in Seq(RuleSpan(text))
    BY DEF Claims
  <2> QED
    BY <2>1, ElementOfSeq DEF Claims
<1>2. Len(text) \in Nat
  BY LenProperties
<1>3. ~Past(text, spans[k])
  BY <1>1, <1>2 DEF Past, RuleSpan
<1>4. ASSUME NEW j \in 1..Len(spans), j # k
      PROVE  ~Covers(spans[j], spans[k])
  BY <1>1, <1>4 DEF Covers, Apart, RuleSpan
<1> QED
  BY <1>3, <1>4

-----------------------------------------------------------------------------
\* The resolver

\* f[k] is the map after k entries, and whether one of them raised.
Registering(f, map0, entries) ==
    /\ f[0] = [raised |-> FALSE, map |-> map0]
    /\ \A k \in 1 .. Len(entries) :
         f[k] = IF f[k - 1].raised THEN f[k - 1] ELSE register(f[k - 1].map, entries[k])

\* The loop over the entries.
LEMMA RegisterLoop ==
    ASSUME NEW map0, NEW entries, Len(entries) \in Nat
    PROVE  \E f : Registering(f, map0, entries) /\ register_entries(map0, entries) = f[Len(entries)]
<1> DEFINE n == Len(entries)
           base == [raised |-> FALSE, map |-> map0]
           Turn(done, k) == IF done.raised THEN done ELSE register(done.map, entries[k])
           Is(f, m) == f = [k \in 0..m |-> IF k = 0 THEN base ELSE Turn(f[k - 1], k)]
           Has(m) == \E f : Is(f, m)
           T == {m \in 0..n : Has(m)}
           c == CHOOSE f : Is(f, n)
<1> HIDE DEF Turn, base, n
<1>1. Has(0)
  <2> DEFINE g == [k \in 0..0 |-> base]
  <2>1. Is(g, 0)
    OBVIOUS
  <2> QED
    BY <2>1, Zenon
<1>2. ASSUME NEW m \in 1..n, Has(m - 1)
      PROVE  Has(m)
  <2>1. PICK f : Is(f, m - 1)
    BY <1>2
  <2> DEFINE g == [k \in 0..m |-> IF k = m THEN Turn(f[m - 1], m) ELSE f[k]]
  <2>2. Is(g, m)
    BY <2>1
  <2> QED
    BY <2>2, Zenon
<1>3. n \in Nat
  BY DEF n
<1>4. n \in T
  <2>1. 0 \in T /\ \A m \in 1..n : m - 1 \in T => m \in T
    <3> HIDE DEF Has
    <3> QED
      BY <1>1, <1>2, <1>3
  <2> HIDE DEF T
  <2> QED
    BY <1>3, <2>1, Turns
<1>5. Is(c, n)
  BY <1>4, Zenon
<1>6. c[0] = base /\ \A k \in 1..n : c[k] = Turn(c[k - 1], k)
  <2> HIDE DEF c
  <2> QED
    BY <1>3, <1>5
<1>7. register_entries(map0, entries) = c[n]
  BY Zenon DEF register_entries, Loop, n, base, Turn
<1> HIDE DEF c
<1>8. Registering(c, map0, entries)
  BY <1>6, Zenon DEF Registering, n, base, Turn
<1> QED
  BY <1>7, <1>8, Zenon DEF n

\* f[k] is what translate has made of the first k characters of a query.
Translating(f, map0, query) ==
    /\ f[0] = [terms |-> << >>, residual |-> << >>, next |-> 0]
    /\ \A k \in 1 .. Len(query) : f[k] = TranslateAt(map0, query, f[k - 1], k - 1)

\* The loop over a query.
LEMMA TranslateLoop ==
    ASSUME NEW map0, NEW query, Len(query) \in Nat
    PROVE  \E f : /\ Translating(f, map0, query)
                  /\ translate(map0, query)
                       = [terms |-> f[Len(query)].terms, residual |-> f[Len(query)].residual]
<1> DEFINE n == Len(query)
           base == [terms |-> << >>, residual |-> << >>, next |-> 0]
           Turn(done, k) == TranslateAt(map0, query, done, k - 1)
           Is(f, m) == f = [k \in 0..m |-> IF k = 0 THEN base ELSE Turn(f[k - 1], k)]
           Has(m) == \E f : Is(f, m)
           T == {m \in 0..n : Has(m)}
           c == CHOOSE f : Is(f, n)
<1> HIDE DEF Turn, base, n
<1>1. Has(0)
  <2> DEFINE g == [k \in 0..0 |-> base]
  <2>1. Is(g, 0)
    OBVIOUS
  <2> QED
    BY <2>1, Zenon
<1>2. ASSUME NEW m \in 1..n, Has(m - 1)
      PROVE  Has(m)
  <2>1. PICK f : Is(f, m - 1)
    BY <1>2
  <2> DEFINE g == [k \in 0..m |-> IF k = m THEN Turn(f[m - 1], m) ELSE f[k]]
  <2>2. Is(g, m)
    BY <2>1
  <2> QED
    BY <2>2, Zenon
<1>3. n \in Nat
  BY DEF n
<1>4. n \in T
  <2>1. 0 \in T /\ \A m \in 1..n : m - 1 \in T => m \in T
    <3> HIDE DEF Has
    <3> QED
      BY <1>1, <1>2, <1>3
  <2> HIDE DEF T
  <2> QED
    BY <1>3, <2>1, Turns
<1>5. Is(c, n)
  BY <1>4, Zenon
<1>6. c[0] = base /\ \A k \in 1..n : c[k] = Turn(c[k - 1], k)
  <2> HIDE DEF c
  <2> QED
    BY <1>3, <1>5
<1>7. translate(map0, query) = [terms |-> c[n].terms, residual |-> c[n].residual]
  BY Zenon DEF translate, Loop, n, base, Turn
<1> HIDE DEF c
<1>8. Translating(c, map0, query)
  BY <1>6, Zenon DEF Translating, n, base, Turn
<1> QED
  BY <1>7, <1>8, Zenon DEF n

\* What the resolver knows: no value is empty, and none has two keys.
Known == [value: Seq(Char) \ {<< >>}, key: Seq(Symbol) \ {<< >>}]

PairOf(entry) == [value |-> entry.value, key |-> entry.key]

MapInv(map0) ==
    /\ map0 \subseteq Known
    /\ \A p, q \in map0 : p.value = q.value => p.key = q.key

\* A value that is known has its key.
LEMMA KeyOfKnown ==
    ASSUME NEW map0, MapInv(map0), NEW p \in map0
    PROVE  KeyOf(map0, p.value) = p.key
<1>1. \E pair \in map0 : pair.value = p.value
  OBVIOUS
<1> DEFINE c == CHOOSE pair \in map0 : pair.value = p.value
<1>2. c \in map0 /\ c.value = p.value
  BY <1>1
<1> HIDE DEF c
<1>3. c.key = p.key
  BY <1>2 DEF MapInv
<1> QED
  BY <1>3 DEF KeyOf, c

\* One entry.
LEMMA RegisterKeeps ==
    ASSUME NEW map0, MapInv(map0), NEW entry \in Entry, entry.key # << >>,
           NEW r, r = register(map0, entry)
    PROVE  /\ r.raised \in BOOLEAN
           /\ MapInv(r.map) /\ map0 \subseteq r.map
           /\ \A p \in r.map : p \in map0 \/ p = PairOf(entry)
           /\ ~r.raised => entry.value # << >> /\ PairOf(entry) \in r.map
           /\ r.raised => \/ entry.value = << >>
                          \/ \E p \in r.map : p.value = entry.value /\ p.key # entry.key
<1> DEFINE clash == entry.value \in ValuesOf(map0) /\ KeyOf(map0, entry.value) # entry.key
           pair == PairOf(entry)
<1>1. entry.value \in Seq(Char) /\ entry.key \in Seq(Symbol)
  BY DEF Entry
<1>2. pair.value = entry.value /\ pair.key = entry.key
  BY DEF PairOf
<1>3. ASSUME clash
      PROVE  \E p \in map0 : p.value = entry.value /\ p.key # entry.key
  <2>1. PICK p \in map0 : p.value = entry.value
    BY <1>3 DEF ValuesOf
  <2>2. KeyOf(map0, p.value) = p.key
    BY KeyOfKnown
  <2> QED
    BY <1>3, <2>1, <2>2
<1>4. ASSUME ~clash, NEW p \in map0, p.value = entry.value
      PROVE  p.key = entry.key
  <2>1. entry.value \in ValuesOf(map0)
    BY <1>4 DEF ValuesOf
  <2>2. KeyOf(map0, p.value) = p.key
    BY KeyOfKnown
  <2> QED
    BY <1>4, <2>1, <2>2
<1>5. r = IF entry.value = << >> \/ clash THEN [raised |-> TRUE, map |-> map0]
          ELSE [raised |-> FALSE, map |-> map0 \cup {pair}]
  BY DEF register, PairOf
<1>6. CASE entry.value = << >> \/ clash
  <2>1. r.raised = TRUE /\ r.map = map0
    BY <1>5, <1>6
  <2> HIDE DEF clash
  <2> QED
    BY <1>3, <1>6, <2>1
<1>7. CASE ~(entry.value = << >> \/ clash)
  <2>1. r.raised = FALSE /\ r.map = map0 \cup {pair}
    BY <1>5, <1>7
  <2>2. pair \in Known
    BY <1>1, <1>7 DEF Known, PairOf
  <2>3. ~clash
    BY <1>7
  <2> HIDE DEF clash, pair
  <2>4. ASSUME NEW p \in map0 \cup {pair}, NEW q \in map0 \cup {pair}, p.value = q.value
        PROVE  p.key = q.key
    <3>1. CASE p \in map0 /\ q \in map0
      BY <2>4, <3>1 DEF MapInv
    <3>2. CASE p \in map0 /\ q = pair
      BY <1>2, <1>4, <2>3, <2>4, <3>2
    <3>3. CASE p = pair /\ q \in map0
      BY <1>2, <1>4, <2>3, <2>4, <3>3
    <3> QED
      BY <3>1, <3>2, <3>3
  <2>5. MapInv(r.map)
    BY <2>1, <2>2, <2>4 DEF MapInv
  <2> QED
    BY <1>7, <2>1, <2>5 DEF pair
<1> QED
  BY <1>6, <1>7

\* What a call of register_entries does: it keeps what the map has, adds the
\* pairs of the entries only, all of them when it does not raise, and raises
\* for an empty value or a value that has another key.
LEMMA RegisterEntries ==
    ASSUME NEW map0, MapInv(map0), NEW entries \in Seq(Entry),
           \A k \in 1..Len(entries) : entries[k].key # << >>,
           NEW r, r = register_entries(map0, entries)
    PROVE  /\ MapInv(r.map) /\ map0 \subseteq r.map
           /\ \A p \in r.map : p \in map0 \/ \E k \in 1..Len(entries) : p = PairOf(entries[k])
           /\ ~r.raised => \A k \in 1..Len(entries) :
                              entries[k].value # << >> /\ PairOf(entries[k]) \in r.map
           /\ r.raised => \E k \in 1..Len(entries) :
                             \/ entries[k].value = << >>
                             \/ \E p \in r.map : /\ p.value = entries[k].value
                                                 /\ p.key # entries[k].key
<1> DEFINE n == Len(entries)
           Added(m, k) == \A p \in m : p \in map0 \/ \E j \in 1..k : p = PairOf(entries[j])
           All(m, k) == \A j \in 1..k : entries[j].value # << >> /\ PairOf(entries[j]) \in m
           Cause(m) == \E j \in 1..n : \/ entries[j].value = << >>
                                       \/ \E p \in m : /\ p.value = entries[j].value
                                                       /\ p.key # entries[j].key
           Inv(x, k) == /\ x.raised \in BOOLEAN
                        /\ MapInv(x.map) /\ map0 \subseteq x.map
                        /\ Added(x.map, k)
                        /\ ~x.raised => All(x.map, k)
                        /\ x.raised => Cause(x.map)
<1>1. n \in Nat /\ \A k \in 1..n : entries[k] \in Entry
  BY LenProperties, ElementOfSeq
<1>2. PICK f : Registering(f, map0, entries) /\ r = f[n]
  BY <1>1, RegisterLoop
<1> DEFINE T == {k \in 0..n : Inv(f[k], k)}
<1>3. 0 \in T
  <2>1. f[0].raised = FALSE /\ f[0].map = map0
    BY <1>2 DEF Registering
  <2>2. Added(map0, 0) /\ All(map0, 0)
    <3>1. 1..0 = {}
      OBVIOUS
    <3> QED
      BY <3>1, Zenon
  <2>3. Inv(f[0], 0)
    <3> HIDE DEF Added, All, Cause
    <3> QED
      BY <2>1, <2>2, Zenon
  <2> HIDE DEF Inv
  <2> QED
    BY <1>1, <2>3
<1>4. \A k \in 1..n : k - 1 \in T => k \in T
  <2> TAKE k \in 1..n
  <2> HAVE k - 1 \in T
  <2> DEFINE before == f[k - 1]
             after == f[k]
             entry == entries[k]
  <2>1. after = IF before.raised THEN before ELSE register(before.map, entry)
    BY <1>2 DEF Registering
  <2>2. Inv(before, k - 1)
    OBVIOUS
  <2>3. k \in Nat /\ k - 1 \in Nat /\ 1 .. k - 1 \subseteq 1..k /\ k \in 1..k
        /\ \A j \in 1..k : j = k \/ j \in 1 .. k - 1
    BY <1>1
  <2>4. entry \in Entry /\ entry.key # << >>
    BY <1>1
  <2> HIDE DEF before, after
  <2>5. ASSUME before.raised
        PROVE  Inv(after, k)
    <3>1. after = before
      BY <2>1, <2>5
    <3>2. Added(before.map, k)
      BY <2>2, <2>3
    <3> HIDE DEF Added, All, Cause
    <3> QED
      BY <2>2, <2>5, <3>1, <3>2, Zenon
  <2>6. ASSUME ~before.raised
        PROVE  Inv(after, k)
    <3>1. after = register(before.map, entry)
      BY <2>1, <2>6
    <3>2. /\ MapInv(before.map) /\ map0 \subseteq before.map
          /\ Added(before.map, k - 1) /\ All(before.map, k - 1)
      BY <2>2, <2>6
    <3>3. /\ after.raised \in BOOLEAN
          /\ MapInv(after.map) /\ before.map \subseteq after.map
          /\ \A p \in after.map : p \in before.map \/ p = PairOf(entry)
          /\ ~after.raised => entry.value # << >> /\ PairOf(entry) \in after.map
          /\ after.raised => \/ entry.value = << >>
                             \/ \E p \in after.map : p.value = entry.value /\ p.key # entry.key
      <4> HIDE DEF entry
      <4> QED
        BY <2>4, <3>1, <3>2, RegisterKeeps
    <3>4. Added(after.map, k)
      BY <2>3, <3>2, <3>3
    <3>5. ~after.raised => All(after.map, k)
      BY <2>3, <3>2, <3>3
    <3>6. after.raised => Cause(after.map)
      BY <3>3
    <3> HIDE DEF Added, All, Cause
    <3> QED
      BY <3>2, <3>3, <3>4, <3>5, <3>6, Zenon
  <2> HIDE DEF Inv
  <2>7. Inv(after, k)
    BY <2>5, <2>6
  <2> QED
    BY <2>7 DEF after
<1>5. \A k \in 0..n : k \in T
  <2> HIDE DEF T, n
  <2> QED
    BY <1>1, <1>3, <1>4, Turns
<1>6. Inv(r, n)
  <2> HIDE DEF Inv
  <2> QED
    BY <1>1, <1>2, <1>5
<1> QED
  BY <1>6

\* A set of naturals that is not empty has its Least in it.
LEMMA LeastIn ==
    ASSUME NEW S \in SUBSET Nat, S # {}
    PROVE  Least(S) \in S /\ \A j \in S : Least(S) <= j
<1>1. \E i \in S : \A j \in S : i <= j
  BY LeastNatural
<1> QED
  BY <1>1 DEF Least

\* Of the values that match at an offset, one is the longest; that which is
\* the whole query is.
LEMMA LongestIn ==
    ASSUME NEW query \in Seq(Char), NEW i \in 0 .. Len(query),
           NEW here, here \subseteq Seq(Char), here # {},
           \A v \in here : At(query, v, i)
    PROVE  /\ Longest(here) \in here
           /\ i = 0 /\ query \in here => Longest(here) = query
<1>1. Len(query) \in Nat /\ \A v \in here : Len(v) \in Nat /\ i + Len(v) <= Len(query)
  <2>1. Len(query) \in Nat
    BY LenProperties
  <2>2. \A v \in here : Len(v) \in Nat
    BY LenProperties
  <2>3. ASSUME NEW v \in here
        PROVE  i + Len(v) <= Len(query)
    <3>1. v \in Seq(Char) /\ At(query, v, i) /\ i \in Nat /\ i <= Len(query)
      BY <2>1
    <3> QED
      BY <3>1, MatchInside
  <2> QED
    BY <2>1, <2>2, <2>3
<1> DEFINE S == {Len(query) - Len(v) : v \in here}
<1>2. S \in SUBSET Nat /\ S # {}
  BY <1>1
<1>3. PICK m \in S : \A k \in S : m <= k
  <2> HIDE DEF S
  <2> QED
    BY <1>2, LeastNatural
<1>4. PICK v \in here : m = Len(query) - Len(v)
  BY <1>3
<1>5. \A w \in here : Len(w) <= Len(v)
  <2> TAKE w \in here
  <2>1. m <= Len(query) - Len(w)
    BY <1>3
  <2> QED
    BY <1>1, <1>4, <2>1
<1>6. Longest(here) \in here /\ \A w \in here : Len(w) <= Len(Longest(here))
  BY <1>5 DEF Longest
<1>7. ASSUME i = 0, query \in here
      PROVE  Longest(here) = query
  <2> DEFINE w == Longest(here)
  <2>1. w \in Seq(Char) /\ Len(w) = Len(query) /\ At(query, w, 0)
    <3> HIDE DEF w
    <3> QED
      BY <1>1, <1>6, <1>7 DEF w
  <2> HIDE DEF w
  <2>2. Slice(query, 0, 0 + Len(w)) = w
    BY <2>1 DEF At
  <2>3. 0 + Len(w) = Len(query)
    BY <1>1, <2>1
  <2>4. w = query
    BY <2>2, <2>3, SliceWhole
  <2> QED
    BY <2>4 DEF w
<1> QED
  BY <1>6, <1>7

\* The values that match at an offset, and the key of the longest.
LEMMA HereKnown ==
    ASSUME NEW map0, MapInv(map0), NEW query \in Seq(Char), NEW i \in 0 .. Len(query),
           NEW here, here = ValuesAt(map0, query, i)
    PROVE  /\ here \subseteq Seq(Char) \ {<< >>}
           /\ \A v \in here : At(query, v, i)
           /\ here # {} => /\ Longest(here) \in here
                           /\ KeyOf(map0, Longest(here)) \in Seq(Symbol) \ {<< >>}
<1>1. /\ here \subseteq Seq(Char) \ {<< >>}
      /\ \A v \in here : At(query, v, i)
      /\ \A v \in here : \E p \in map0 : p.value = v
  BY DEF ValuesAt, ValuesOf, MapInv, Known
<1>2. ASSUME here # {}
      PROVE  Longest(here) \in here
  <2>1. here \subseteq Seq(Char)
    BY <1>1
  <2> QED
    BY <1>1, <1>2, <2>1, LongestIn
<1>3. ASSUME here # {}
      PROVE  KeyOf(map0, Longest(here)) \in Seq(Symbol) \ {<< >>}
  <2>1. PICK p \in map0 : p.value = Longest(here)
    BY <1>1, <1>2, <1>3
  <2>2. KeyOf(map0, p.value) = p.key
    BY KeyOfKnown
  <2>3. p.key \in Seq(Symbol) \ {<< >>}
    BY DEF MapInv, Known
  <2> QED
    BY <2>1, <2>2, <2>3
<1> QED
  BY <1>1, <1>2, <1>3

\* What a translation is made of: keys, and what it leaves of the query.
LEMMA TranslateType ==
    ASSUME NEW map0, MapInv(map0), NEW query \in Seq(Char),
           NEW r, r = translate(map0, query)
    PROVE  r.terms \in Seq(Seq(Symbol) \ {<< >>}) /\ r.residual \in Seq(Char)
<1> DEFINE n == Len(query)
           K == Seq(Symbol) \ {<< >>}
           Is(x) == x \in [terms: Seq(K), residual: Seq(Char), next: Nat]
<1>1. n \in Nat /\ \A k \in 1..n : query[k] \in Char
  BY LenProperties, ElementOfSeq
<1>2. PICK f : /\ Translating(f, map0, query)
               /\ r = [terms |-> f[n].terms, residual |-> f[n].residual]
  BY <1>1, TranslateLoop
<1> DEFINE T == {k \in 0..n : Is(f[k])}
<1>3. 0 \in T
  <2>1. f[0] = [terms |-> << >>, residual |-> << >>, next |-> 0]
    BY <1>2 DEF Translating
  <2>2. << >> \in Seq(K) /\ << >> \in Seq(Char)
    <3> HIDE DEF K
    <3> QED
      BY EmptySeq
  <2>3. Is(f[0])
    <3> HIDE DEF K
    <3> QED
      BY <2>1, <2>2
  <2> HIDE DEF Is
  <2> QED
    BY <1>1, <2>3
<1>4. \A k \in 1..n : k - 1 \in T => k \in T
  <2> TAKE k \in 1..n
  <2> HAVE k - 1 \in T
  <2> DEFINE before == f[k - 1]
             i == k - 1
             here == ValuesAt(map0, query, i)
             key == KeyOf(map0, Longest(here))
             after == TranslateAt(map0, query, before, i)
  <2>1. f[k] = after
    BY <1>2 DEF Translating
  <2>2. i \in 0..n /\ i + 1 = k
    BY <1>1
  <2>3. Is(before)
    OBVIOUS
  <2>4. here # {} => key \in K
    <3> HIDE DEF here, i
    <3> QED
      BY <2>2, HereKnown DEF here
  <2>5. after = IF i < before.next THEN before
                ELSE IF here = {}
                  THEN [before EXCEPT !.residual = Append(@, query[i + 1])]
                  ELSE [before EXCEPT !.terms = IF key \in ToSet(@) THEN @ ELSE Append(@, key),
                                      !.next = i + Len(Longest(here))]
    BY DEF TranslateAt
  <2> HIDE DEF here, key, before, i, after, K
  <2>6. query[i + 1] \in Char
    BY <1>1, <2>2
  <2>7. Append(before.residual, query[i + 1]) \in Seq(Char)
    BY <2>3, <2>6, AppendProperties
  <2>8. here # {} => Append(before.terms, key) \in Seq(K)
    BY <2>3, <2>4, AppendProperties
  <2>9. here # {} => i + Len(Longest(here)) \in Nat
    <3>1. here # {} => Longest(here) \in Seq(Char)
      BY <2>2, HereKnown DEF here
    <3>2. i \in Nat
      BY <2>2
    <3> QED
      BY <3>1, <3>2, LenProperties
  <2> DEFINE next == i + Len(Longest(here))
  <2> HIDE DEF next
  <2>10. ASSUME i < before.next
         PROVE  Is(after)
    BY <2>3, <2>5, <2>10
  <2>11. ASSUME ~(i < before.next), here = {}
         PROVE  Is(after)
    <3>1. after = [before EXCEPT !.residual = Append(before.residual, query[i + 1])]
      BY <2>5, <2>11
    <3> QED
      BY <2>3, <2>7, <3>1
  <2>12. ASSUME ~(i < before.next), here # {}
         PROVE  Is(after)
    <3> DEFINE terms == IF key \in ToSet(before.terms) THEN before.terms
                        ELSE Append(before.terms, key)
    <3>1. terms \in Seq(K) /\ next \in Nat
      BY <2>3, <2>8, <2>9, <2>12 DEF next
    <3>2. after = [before EXCEPT !.terms = terms, !.next = next]
      BY <2>5, <2>12 DEF next
    <3> HIDE DEF terms
    <3> QED
      BY <2>3, <3>1, <3>2
  <2>13. Is(after)
    BY <2>10, <2>11, <2>12
  <2> HIDE DEF Is
  <2> QED
    BY <2>1, <2>13 DEF after
<1>5. \A k \in 0..n : k \in T
  <2> HIDE DEF T, n
  <2> QED
    BY <1>1, <1>3, <1>4, Turns
<1>6. Is(f[n])
  BY <1>1, <1>5
<1> HIDE DEF K
<1> QED
  BY <1>2, <1>6 DEF K

\* Who asks for a value that is known gets its key, and nothing else.
LEMMA TranslateKnown ==
    ASSUME NEW map0, MapInv(map0), NEW p \in map0,
           NEW r, r = translate(map0, p.value)
    PROVE  r.terms = <<p.key>> /\ r.residual = << >>
<1> DEFINE query == p.value
           n == Len(query)
           done == [terms |-> <<p.key>>, residual |-> << >>, next |-> n]
<1>1. query \in Seq(Char) \ {<< >>} /\ n \in Nat /\ n # 0
  <2>1. query \in Seq(Char) \ {<< >>}
    BY DEF MapInv, Known
  <2> HIDE DEF query
  <2> QED
    BY <2>1, LenProperties, EmptySeq
<1>2. PICK f : /\ Translating(f, map0, query)
               /\ r = [terms |-> f[n].terms, residual |-> f[n].residual]
  <2> HIDE DEF query
  <2> QED
    BY <1>1, TranslateLoop DEF query
<1>3. f[1] = done
  <2> DEFINE here == ValuesAt(map0, query, 0)
             base == [terms |-> << >>, residual |-> << >>, next |-> 0]
  <2>1. f[1] = TranslateAt(map0, query, base, 0)
    <3>1. 1 \in 1..n
      BY <1>1
    <3>2. f[0] = base /\ f[1] = TranslateAt(map0, query, f[1 - 1], 1 - 1)
      BY <1>2, <3>1 DEF Translating
    <3> QED
      BY <3>2
  <2>2. query \in here
    <3>1. query \in ValuesOf(map0)
      BY DEF ValuesOf
    <3>2. At(query, query, 0)
      <4>1. 0 + n = n /\ Slice(query, 0, n) = query
        BY <1>1, SliceWhole
      <4> HIDE DEF query
      <4> QED
        BY <4>1 DEF At
    <3> QED
      BY <3>1, <3>2 DEF ValuesAt
  <2>3. here \subseteq Seq(Char) /\ \A v \in here : At(query, v, 0)
    <3>1. 0 \in 0..Len(query) /\ query \in Seq(Char)
      BY <1>1
    <3> HIDE DEF here, query
    <3> QED
      BY <3>1, HereKnown DEF here
  <2>4. Longest(here) = query
    <3>1. 0 \in 0..Len(query) /\ query \in Seq(Char)
      BY <1>1
    <3> HIDE DEF here, query
    <3> QED
      BY <2>2, <2>3, <3>1, LongestIn
  <2>5. KeyOf(map0, query) = p.key
    BY KeyOfKnown
  <2>6. TranslateAt(map0, query, base, 0)
          = IF 0 < base.next THEN base
            ELSE IF here = {}
              THEN [base EXCEPT !.residual = Append(@, query[0 + 1])]
              ELSE [base EXCEPT !.terms = IF KeyOf(map0, Longest(here)) \in ToSet(@) THEN @
                                          ELSE Append(@, KeyOf(map0, Longest(here))),
                                !.next = 0 + Len(Longest(here))]
    BY DEF TranslateAt
  <2>7. TranslateAt(map0, query, base, 0)
          = [base EXCEPT !.terms = IF p.key \in ToSet(<< >>) THEN << >> ELSE Append(<< >>, p.key),
                         !.next = 0 + n]
    <3> HIDE DEF here, query, n
    <3> QED
      BY <2>2, <2>4, <2>5, <2>6 DEF n
  <2>8. ToSet(<< >>) = {} /\ Append(<< >>, p.key) = <<p.key>> /\ 0 + n = n
    BY <1>1 DEF ToSet
  <2> HIDE DEF query, n
  <2> QED
    BY <2>1, <2>7, <2>8
<1> DEFINE T == {k \in 0..n : k = 0 \/ f[k] = done}
<1>4. 0 \in T
  BY <1>1
<1>5. \A k \in 1..n : k - 1 \in T => k \in T
  <2> TAKE k \in 1..n
  <2> HAVE k - 1 \in T
  <2>1. CASE k = 1
    BY <1>3, <2>1
  <2>2. CASE k # 1
    <3>1. f[k - 1] = done /\ k - 1 < n
      BY <1>1, <2>2
    <3>2. f[k] = TranslateAt(map0, query, f[k - 1], k - 1)
      BY <1>2 DEF Translating
    <3>3. done.next = n
      OBVIOUS
    <3> HIDE DEF done, query, n
    <3>4. f[k] = done
      BY <3>1, <3>2, <3>3 DEF TranslateAt
    <3> QED
      BY <3>4
  <2> QED
    BY <2>1, <2>2
<1>6. \A k \in 0..n : k \in T
  <2> HIDE DEF T, n
  <2> QED
    BY <1>1, <1>4, <1>5, Turns
<1>7. f[n] = done
  BY <1>1, <1>6
<1> HIDE DEF n, query
<1> QED
  BY <1>2, <1>7

\* No needle is empty.
LEMMA NeedlesType ==
    ASSUME NEW map0, MapInv(map0), NEW query \in Seq(Char)
    PROVE  Needles(map0, query) \in Seq(Seq(Symbol) \ {<< >>})
<1> DEFINE r == translate(map0, query)
           K == Seq(Symbol) \ {<< >>}
<1>1. r.terms \in Seq(K) /\ r.residual \in Seq(Char)
  BY TranslateType
<1>2. Needles(map0, query) = IF ToSet(r.residual) \subseteq {Blank} THEN r.terms
                             ELSE Append(r.terms, r.residual)
  BY DEF Needles
<1> HIDE DEF r
<1>3. ASSUME ~(ToSet(r.residual) \subseteq {Blank})
      PROVE  r.residual \in K
  <2>1. Char \subseteq Symbol
    BY DEF Symbol
  <2>2. r.residual \in Seq(Symbol)
    BY <1>1, <2>1, SeqMonotonic
  <2>3. r.residual # << >>
    BY <1>3 DEF ToSet
  <2> QED
    BY <2>2, <2>3
<1> HIDE DEF K
<1>4. Needles(map0, query) \in Seq(K)
  BY <1>1, <1>2, <1>3, AppendProperties
<1> QED
  BY <1>4 DEF K

\* The text around a place of a needle has the needle.
LEMMA AroundShows ==
    ASSUME NEW text \in Seq(Symbol), NEW needle \in Seq(Symbol),
           NEW at \in Places(text, needle), NEW half \in Nat,
           NEW lo \in Nat, lo <= at,
           NEW w, w = Slice(text, lo, at + Len(needle) + half)
    PROVE  Occurs(needle, w)
<1> DEFINE n == Len(needle)
           p == at - lo
           q == p + n
           e == at + n + half
<1>1. /\ at \in Nat /\ at <= Len(text) /\ At(text, needle, at)
      /\ Len(text) \in Nat /\ n \in Nat
  BY LenProperties DEF Places
<1>2. at + n <= Len(text) /\ Slice(text, at, at + n) = needle
  <2>1. at + Len(needle) <= Len(text)
    BY <1>1, MatchInside
  <2> QED
    BY <1>1, <2>1 DEF At
<1>3. /\ p \in Nat /\ q \in Nat /\ e \in Nat /\ p <= q
      /\ lo + q <= e /\ lo + q <= Len(text)
      /\ lo + p = at /\ lo + q = at + n
  BY <1>1, <1>2
<1> HIDE DEF n, p, q, e
<1>4. w = Slice(text, lo, e)
  BY DEF e, n
<1>5. Slice(w, p, q) = needle
  <2>1. Slice(Slice(text, lo, e), p, q) = Slice(text, lo + p, lo + q)
    BY <1>1, <1>3, SliceOfSlice
  <2> QED
    BY <1>2, <1>3, <1>4, <2>1
<1>6. w \in Seq(Symbol) /\ Len(w) \in Nat /\ p <= Len(w)
  <2> DEFINE x == Slice(text, lo, e)
  <2>3. e \in Nat
    BY <1>3
  <2>1. x \in Seq(Symbol)
    BY <2>3, SliceType
  <2>2. /\ lo <= e /\ e <= Len(text) => Len(x) = e - lo
        /\ e > Len(text) /\ lo <= Len(text) => Len(x) = Len(text) - lo
    BY <2>3, SliceType
  <2>4. w = x
    BY <1>4
  <2> HIDE DEF x
  <2>5. Len(w) \in Nat
    BY <2>1, <2>4, LenProperties
  <2> QED
    BY <1>1, <1>3, <2>1, <2>2, <2>4, <2>5
<1>7. At(w, needle, p)
  BY <1>5 DEF At, q, n
<1>8. p \in Places(w, needle)
  BY <1>3, <1>6, <1>7 DEF Places
<1> QED
  BY <1>8 DEF Occurs

\* Lower case keeps the symbols in their places.
LEMMA LoweredType ==
    ASSUME NEW text \in Seq(Symbol)
    PROVE  /\ Lowered(text) \in Seq(Symbol) /\ Len(Lowered(text)) = Len(text)
           /\ \A i \in 1..Len(text) :
                 Lowered(text)[i] = IF text[i] \in DOMAIN Lower THEN Lower[text[i]]
                                    ELSE text[i]
<1> DEFINE n == Len(text)
           low == Lowered(text)
<1>1. n \in Nat /\ DOMAIN text = 1..n /\ \A i \in 1..n : text[i] \in Symbol
  BY LenProperties, ElementOfSeq
<1>2. \A c \in DOMAIN Lower : Lower[c] \in Symbol
  <2>1. Lower \in [Char -> Char] /\ Char \subseteq Symbol
    BY RedactionAssumption DEF Symbol
  <2> QED
    BY <2>1
<1>3. low = [i \in 1..n |-> IF text[i] \in DOMAIN Lower THEN Lower[text[i]] ELSE text[i]]
  BY <1>1 DEF Lowered
<1> HIDE DEF n, low
<1>4. low \in [1..n -> Symbol]
  BY <1>1, <1>2, <1>3
<1>5. low \in Seq(Symbol) /\ Len(low) = n
  BY <1>1, <1>4
<1> QED
  BY <1>3, <1>5 DEF n, low

\* Lower case and slices.
LEMMA LoweredSlice ==
    ASSUME NEW text \in Seq(Symbol), NEW s \in Nat, NEW e \in Nat
    PROVE  Lowered(Slice(text, s, e)) = Slice(Lowered(text), s, e)
<1> DEFINE w == Slice(text, s, e)
           low == Lowered(text)
           x == Lowered(w)
           y == Slice(low, s, e)
<1>1. /\ w \in Seq(Symbol)
      /\ s <= e /\ e <= Len(text) => Len(w) = e - s
      /\ e > Len(text) /\ s <= Len(text) => Len(w) = Len(text) - s
      /\ s >= e \/ s >= Len(text) => Len(w) = 0
      /\ \A i \in 1..Len(w) : s + i \in 1..Len(text) /\ w[i] = text[s + i]
      /\ Len(text) \in Nat
  <2>1. Len(text) \in Nat
    BY LenProperties
  <2>2. /\ w \in Seq(Symbol)
        /\ s <= e /\ e <= Len(text) => Len(w) = e - s
        /\ Len(w) <= Len(text)
        /\ e > Len(text) /\ s <= Len(text) => Len(w) = Len(text) - s
        /\ s >= e \/ s >= Len(text) => Len(w) = 0
        /\ \A i \in 1..Len(w) : s + i \in 1..Len(text) /\ w[i] = text[s + i]
    BY SliceType, Zenon
  <2> HIDE DEF w
  <2> QED
    BY <2>1, <2>2
<1>2. /\ low \in Seq(Symbol) /\ Len(low) = Len(text)
      /\ \A i \in 1..Len(text) :
            low[i] = IF text[i] \in DOMAIN Lower THEN Lower[text[i]] ELSE text[i]
  BY LoweredType
<1> HIDE DEF w, low
<1>3. /\ x \in Seq(Symbol) /\ Len(x) = Len(w)
      /\ \A i \in 1..Len(w) :
            x[i] = IF w[i] \in DOMAIN Lower THEN Lower[w[i]] ELSE w[i]
  BY <1>1, LoweredType
<1>4. /\ y \in Seq(Symbol)
      /\ s <= e /\ e <= Len(low) => Len(y) = e - s
      /\ e > Len(low) /\ s <= Len(low) => Len(y) = Len(low) - s
      /\ s >= e \/ s >= Len(low) => Len(y) = 0
      /\ \A i \in 1..Len(y) : y[i] = low[s + i]
  BY <1>2, SliceType
<1> HIDE DEF x, y
<1>5. Len(x) = Len(y)
  BY <1>1, <1>2, <1>3, <1>4
<1>6. \A i \in 1..Len(x) : x[i] = y[i]
  BY <1>1, <1>2, <1>3, <1>4, <1>5
<1> QED
  BY <1>3, <1>4, <1>5, <1>6, SeqEqual DEF x, y, w, low

\* What occurs in a text as it is, is shown by it.
LEMMA OccursShows ==
    ASSUME NEW text \in Seq(Symbol), NEW needle \in Seq(Symbol), Occurs(needle, text)
    PROVE  Shows(needle, text)
<1> PICK i \in Places(text, needle) : TRUE
  BY DEF Occurs
<1> DEFINE n == Len(needle)
<1>1. i \in Nat /\ n \in Nat /\ i \in 0..Len(text) /\ Slice(text, i, i + n) = needle
  BY LenProperties DEF Places, At
<1>2. /\ Len(Lowered(text)) = Len(text) /\ Len(Lowered(needle)) = n
  BY LoweredType
<1>3. Slice(Lowered(text), i, i + n) = Lowered(needle)
  <2>1. i + n \in Nat
    BY <1>1
  <2> DEFINE e == i + n
  <2> HIDE DEF e, n
  <2>2. Lowered(Slice(text, i, e)) = Slice(Lowered(text), i, e)
    BY <1>1, <2>1, LoweredSlice DEF e
  <2> QED
    BY <1>1, <2>2 DEF e
<1>4. i \in Places(Lowered(text), Lowered(needle))
  BY <1>1, <1>2, <1>3 DEF Places, At
<1> QED
  BY <1>4 DEF Shows, Occurs

\* A text in which one of the needles is shows one in its snippet.
LEMMA SnippetShows ==
    ASSUME NEW text \in Seq(Symbol), NEW needles \in Seq(Seq(Symbol) \ {<< >>}),
           NEW k \in DOMAIN needles, Shows(needles[k], text)
    PROVE  \E j \in DOMAIN needles : Shows(needles[j], Snippet(text, needles))
<1> DEFINE K == Seq(Symbol) \ {<< >>}
           found == {j \in DOMAIN needles : needles[j] # << >> /\ Shows(needles[j], text)}
           j == Least(found)
           needle == needles[j]
           haystack_lower == Lowered(text)
           needle_lower == Lowered(needle)
           at == Least(Places(haystack_lower, needle_lower))
           half == Window \div 2
           lo == IF at < half THEN 0 ELSE at - half
<1>1. DOMAIN needles = 1..Len(needles) /\ Len(needles) \in Nat
      /\ \A i \in 1..Len(needles) : needles[i] \in Seq(Symbol) \ {<< >>}
  <2>1. needles \in Seq(K)
    OBVIOUS
  <2>2. DOMAIN needles = 1..Len(needles) /\ Len(needles) \in Nat
        /\ \A i \in 1..Len(needles) : needles[i] \in K
    <3> HIDE DEF K
    <3> QED
      BY <2>1, LenProperties, ElementOfSeq
  <2> QED
    BY <2>2
<1>2. found \in SUBSET Nat /\ k \in found
  BY <1>1
<1>3. j \in DOMAIN needles /\ needles[j] \in Seq(Symbol) /\ Shows(needles[j], text)
  <2>1. j \in found
    <3> HIDE DEF found
    <3> QED
      BY <1>2, LeastIn
  <2> HIDE DEF j
  <2> QED
    BY <1>1, <2>1
<1> HIDE DEF j
<1>4. /\ needle \in Seq(Symbol) /\ needle_lower \in Seq(Symbol)
      /\ haystack_lower \in Seq(Symbol) /\ Len(needle_lower) = Len(needle)
      /\ at \in Places(haystack_lower, needle_lower) /\ at \in Nat
  <2>1. /\ Places(haystack_lower, needle_lower) # {}
        /\ Places(haystack_lower, needle_lower) \in SUBSET Nat
    BY <1>3 DEF Shows, Occurs, Places
  <2>2. at \in Places(haystack_lower, needle_lower)
    <3> HIDE DEF needle_lower, haystack_lower
    <3> QED
      BY <2>1, LeastIn
  <2> QED
    BY <1>3, <2>1, <2>2, LoweredType
<1>5. half \in Nat
  BY RedactionAssumption
<1> HIDE DEF half, at, needle_lower, haystack_lower
<1>6. lo \in Nat /\ lo <= at
  BY <1>4, <1>5
<1>7. Snippet(text, needles) = Slice(text, lo, at + Len(needle) + half)
  <2>1. Snippet(text, needles)
          = IF found = {} THEN Slice(text, 0, Window)
            ELSE Slice(text, lo, at + Len(needle) + half)
    BY DEF Snippet, half, at, needle_lower, haystack_lower, j
  <2> HIDE DEF found
  <2> QED
    BY <1>2, <2>1
<1> HIDE DEF lo, needle
<1>8. Shows(needle, Snippet(text, needles))
  <2> DEFINE e == at + Len(needle) + half
  <2>1. e \in Nat
    BY <1>4, <1>5, LenProperties
  <2>2. Occurs(needle_lower, Slice(haystack_lower, lo, e))
    BY <1>4, <1>5, <1>6, AroundShows
  <2> HIDE DEF e
  <2>3. Slice(haystack_lower, lo, e) = Lowered(Slice(text, lo, e))
    BY <1>6, <2>1, LoweredSlice DEF haystack_lower
  <2> QED
    BY <1>7, <2>2, <2>3 DEF Shows, needle_lower, e
<1> QED
  BY <1>3, <1>8 DEF needle

-----------------------------------------------------------------------------
\* The specification

\* What is known of the result r of an input x.
ResultInv(x, r) ==
    /\ r.status = "validation_error" =>
        \E k \in DOMAIN r.private :
            r.private[k].value # << >> /\ Occurs(r.private[k].value, r.text)
    /\ r.status = "committed" =>
        LET restored == Restored(r.text, r.entities, r.private) IN
        /\ r.text \in Seq(Symbol)
        /\ r.entities \in Seq(Entity) /\ r.private \in Seq(Entry)
        /\ Len(r.entities) = Len(r.private)
        /\ \A k \in 1..Len(r.entities) : EntityInv(r.text, r.entities[k], r.private[k])
        /\ restored.text \o Slice(r.text, restored.cursor, Len(r.text)) = x.text
        /\ AreSpans(r.spans)
        /\ \A k \in 1..Len(r.spans) :
              \/ Kept(r.private, x.text, r.spans[k])
              \/ x.by # "rules" /\ Past(x.text, r.spans[k])
              \/ /\ x.by # "rules"
                 /\ \E j \in 1..Len(r.spans) :
                       Kept(r.private, x.text, r.spans[j]) /\ Covers(r.spans[j], r.spans[k])
        /\ \A k \in 1..Len(r.private) : Occurs(r.private[k].key, r.text)

\* Where the pairs of the map come from.
MapOrigin ==
    \A p \in map : \E d \in Committed : \E k \in 1..Len(result[d].private) :
        p = PairOf(result[d].private[k])

\* What the answer of an index call with entries says of the map, and goes on
\* to say.
IndexInv(d) ==
    LET dictionary == result[d].private IN
    /\ indexed[d] # "no" => d \in Committed /\ d \in ToSet(rows)
    /\ indexed[d] = "yes" =>
          \A k \in 1..Len(dictionary) : PairOf(dictionary[k]) \in map
    /\ indexed[d] = "raised" =>
          \E k \in 1..Len(dictionary) :
              \/ dictionary[k].value = << >>
              \/ \E p \in map : p.value = dictionary[k].value /\ p.key # dictionary[k].key

RedactionInv ==
    /\ input \in Inputs
    /\ DOMAIN result = Document /\ DOMAIN indexed = Document
    /\ \A d \in Document : ResultInv(input[d], result[d])
    /\ rows \in Seq(Committed)
    /\ MapInv(map) /\ MapOrigin
    /\ \A d \in Document : IndexInv(d)

\* A slice of a text occurs in it.
LEMMA SliceOccurs ==
    ASSUME NEW text \in Seq(Symbol), NEW part, NEW s \in Nat, NEW e \in Nat,
           s <= e, e <= Len(text), Slice(text, s, e) = part
    PROVE  Occurs(part, text)
<1>1. Len(part) = e - s
  BY SliceInside
<1>2. s + Len(part) = e /\ s \in 0..Len(text)
  BY <1>1, LenProperties
<1>3. s \in Places(text, part)
  BY <1>2 DEF Places, At
<1> QED
  BY <1>3 DEF Occurs

\* The parts of a key.
LEMMA KeyParts ==
    ASSUME NEW kind \in Kind, NEW value \in Seq(Char),
           NEW item, item.key = _make_key(kind, value), item.kind = kind
    PROVE  HasKeyShape(item)
<1>1. Len(item.key) = 5
  BY KeyType
<1> DEFINE digest == Digest[value]
           made == <<"<", kind, "_", digest, ">">>
           key == item.key
<1> HIDE DEF digest
<1>2. made[1] = "<" /\ made[2] = kind /\ made[3] = "_" /\ made[5] = ">"
  OBVIOUS
<1>3. key = made
  BY DEF _make_key, digest
<1> HIDE DEF key, made
<1>4. key[1] = "<" /\ key[2] = kind /\ key[3] = "_" /\ key[5] = ">"
  BY <1>2, <1>3
<1>5. <<key[1], key[3], key[5]>> = <<"<", "_", ">">>
  BY <1>4
<1> QED
  BY <1>1, <1>4, <1>5 DEF HasKeyShape, key

\* A redacted text has the keys of its entities, which are those of the
\* dictionary and have their shape: only a value can be wrong with it.
LEMMA ValidUnlessShown ==
    ASSUME NEW text \in Seq(Char), NEW spans, AreSpans(spans),
           NEW m, m = redact(text, spans),
           \A k \in DOMAIN m.private :
              m.private[k].value # << >> => ~Occurs(m.private[k].value, m.text)
    PROVE  Validates(m)
<1> DEFINE n == Len(m.private)
<1>1. /\ m.text \in Seq(Symbol)
      /\ m.entities \in Seq(Entity) /\ m.private \in Seq(Entry)
      /\ Len(m.entities) = n
      /\ \A k \in 1..n : EntityInv(m.text, m.entities[k], m.private[k])
  BY Redacted
<1>2. /\ DOMAIN m.entities = 1..n /\ DOMAIN m.private = 1..n /\ n \in Nat
      /\ \A k \in 1..n : m.entities[k] \in Entity /\ m.private[k] \in Entry
      /\ Len(m.text) \in Nat
  BY <1>1, LenProperties, ElementOfSeq
<1> HIDE DEF n
<1>3. ASSUME NEW k \in 1..n
      PROVE  /\ m.private[k].key = m.entities[k].key
             /\ Occurs(m.private[k].key, m.text)
             /\ HasKeyShape(m.private[k]) /\ HasKeyShape(m.entities[k])
  <2> DEFINE t == m.text
             entity == m.entities[k]
             entry == m.private[k]
             key == entry.key
             from == entity.start
             to == entity.end
  <2>1. EntityInv(t, entity, entry) /\ entity \in Entity /\ entry \in Entry
    BY <1>1, <1>2
  <2> HIDE DEF entity, entry
  <2>2. /\ from \in Nat /\ to \in Nat /\ from <= to /\ to <= Len(t)
        /\ Slice(t, from, to) = key /\ key = entity.key /\ entry.kind = entity.kind
        /\ key = _make_key(entry.kind, entry.value)
        /\ entry.kind \in Kind /\ entry.value \in Seq(Char)
    BY <2>1 DEF EntityInv, Entity, Entry
  <2>5. HasKeyShape(entry) /\ HasKeyShape(entity)
    BY <2>2, KeyParts
  <2>6. Occurs(key, t)
    BY <1>1, <2>2, SliceOccurs
  <2> QED
    BY <2>2, <2>5, <2>6 DEF entity, entry
<1>4. Keys(m.entities) = Keys(m.private)
  BY <1>2, <1>3 DEF Keys
<1>5. \A key \in Keys(m.private) : Occurs(key, m.text)
  BY <1>2, <1>3 DEF Keys
<1> QED
  BY <1>2, <1>3, <1>4, <1>5 DEF Validates

\* Whatever is proposed that is a list of spans, its settling is accounted for.
LEMMA SettlingKeeps ==
    ASSUME NEW d \in Document, NEW proposal, input[d].text \in Seq(Char),
           proposal.reason \notin {"committed", "validation_error"},
           proposal.reason = "none" =>
              /\ AreSpans(proposal.spans)
              /\ input[d].by = "rules" => Claims(input[d].text, proposal.spans)
    PROVE  ResultInv(input[d], Settled(d, proposal))
<1> DEFINE text == input[d].text
           spans == proposal.spans
           m == redact(text, spans)
           r == Settled(d, proposal)
           by == input[d].by
<1> SUFFICES ASSUME r.status \in {"committed", "validation_error"}
             PROVE  ResultInv(input[d], r)
  BY DEF ResultInv
<1>1. /\ proposal.reason = "none"
      /\ r = [status |-> IF Validates(m) THEN "committed" ELSE "validation_error",
              spans |-> spans, text |-> m.text,
              entities |-> m.entities, private |-> m.private]
  <2>1. ASSUME r = Failed(proposal.reason)
        PROVE  r.status = proposal.reason
    BY <2>1 DEF Failed, NoResult
  <2>2. \/ r = Failed(proposal.reason)
        \/ /\ proposal.reason = "none"
           /\ r = [status |-> IF Validates(m) THEN "committed" ELSE "validation_error",
                   spans |-> spans, text |-> m.text,
                   entities |-> m.entities, private |-> m.private]
    BY DEF Settled
  <2> HIDE DEF r
  <2> QED
    BY <2>1, <2>2
<1>2. text \in Seq(Char) /\ AreSpans(spans) /\ (by = "rules" => Claims(text, spans))
  BY <1>1
<1> HIDE DEF text, spans, by
<1>3. /\ m.text \in Seq(Symbol)
      /\ m.entities \in Seq(Entity) /\ m.private \in Seq(Entry)
      /\ Len(m.entities) = Len(m.private)
      /\ \A k \in 1..Len(m.entities) : EntityInv(m.text, m.entities[k], m.private[k])
      /\ LET restored == Restored(m.text, m.entities, m.private) IN
         restored.text \o Slice(m.text, restored.cursor, Len(m.text)) = text
      /\ \A k \in 1..Len(spans) :
            \/ Kept(m.private, text, spans[k])
            \/ Past(text, spans[k])
            \/ \E j \in 1..Len(spans) :
                  Kept(m.private, text, spans[j]) /\ Covers(spans[j], spans[k])
  BY <1>2, Redacted
<1>4. by = "rules" => \A k \in 1..Len(spans) : Kept(m.private, text, spans[k])
  <2> DEFINE dictionary == m.private
  <2> HIDE DEF m
  <2> QED
    BY <1>2, <1>3, ClaimsAreKept
<1>5. ~Validates(m) => \E k \in DOMAIN m.private :
         m.private[k].value # << >> /\ Occurs(m.private[k].value, m.text)
  BY <1>2, ValidUnlessShown
<1> HIDE DEF m
<1>6. Validates(m) => \A k \in 1..Len(m.private) : Occurs(m.private[k].key, m.text)
  <2>1. DOMAIN m.private = 1..Len(m.private)
    BY <1>3, LenProperties
  <2> QED
    BY <2>1 DEF Validates, Keys
<1>7. /\ r.text = m.text /\ r.entities = m.entities /\ r.private = m.private /\ r.spans = spans
      /\ r.status = IF Validates(m) THEN "committed" ELSE "validation_error"
  BY <1>1
<1> HIDE DEF r
<1>8. ResultInv(input[d], r)
  <2>1. CASE Validates(m)
    BY <1>2, <1>3, <1>4, <1>6, <1>7, <2>1 DEF ResultInv, text, by
  <2>2. CASE ~Validates(m)
    BY <1>5, <1>7, <2>2 DEF ResultInv
  <2> QED
    BY <2>1, <2>2
<1> QED
  BY <1>8 DEF r

\* The keys of entries.
LEMMA KeysOfEntries ==
    ASSUME NEW x, NEW r, ResultInv(x, r), r.status = "committed", NEW k \in 1..Len(r.private)
    PROVE  /\ r.private[k] \in Entry
           /\ r.private[k].value \in Seq(Char)
           /\ r.private[k].key \in Seq(Symbol) \ {<< >>}
           /\ r.private[k].key = _make_key(r.private[k].kind, r.private[k].value)
<1> DEFINE entry == r.private[k]
<1>1. /\ r.private \in Seq(Entry) /\ Len(r.entities) = Len(r.private)
      /\ \A j \in 1..Len(r.entities) : EntityInv(r.text, r.entities[j], r.private[j])
  BY DEF ResultInv
<1>2. entry \in Entry
  BY <1>1, ElementOfSeq
<1>3. entry.key = _make_key(entry.kind, entry.value)
  BY <1>1 DEF EntityInv
<1> HIDE DEF entry
<1>4. entry.kind \in Kind /\ entry.value \in Seq(Char) /\ entry.key \in Seq(Symbol)
  BY <1>2 DEF Entry
<1>5. Len(entry.key) = 5
  BY <1>3, <1>4, KeyType
<1>6. entry.key # << >>
  BY <1>5, EmptySeq
<1> QED
  BY <1>2, <1>3, <1>4, <1>6 DEF entry

\* Nothing is committed, indexed or registered at first.
LEMMA RedactionInvInit == RedactionInit => RedactionInv
<1> SUFFICES ASSUME RedactionInit
             PROVE  RedactionInv
  OBVIOUS
<1>1. /\ input \in Inputs /\ result = [d \in Document |-> NoResult] /\ rows = << >>
      /\ indexed = [d \in Document |-> "no"] /\ map = {}
  BY DEF RedactionInit
<1>2. \A d \in Document : result[d].status = "new"
  BY <1>1 DEF NoResult
<1>3. \A d \in Document : ResultInv(input[d], result[d])
  BY <1>2 DEF ResultInv
<1>4. rows \in Seq(Committed)
  BY <1>1, EmptySeq
<1>5. MapInv(map) /\ MapOrigin
  BY <1>1 DEF MapInv, MapOrigin
<1>6. \A d \in Document : IndexInv(d)
  BY <1>1 DEF IndexInv
<1> QED
  BY <1>1, <1>3, <1>4, <1>5, <1>6 DEF RedactionInv

\* A call of process_document.
LEMMA ProcessKeeps ==
    ASSUME RedactionInv, NEW d \in Document, NEW by, NEW proposal, Process(d, by, proposal),
           proposal.reason \notin {"committed", "validation_error"},
           proposal.reason = "none" =>
              /\ AreSpans(proposal.spans)
              /\ input[d].by = "rules" => Claims(input[d].text, proposal.spans)
    PROVE  RedactionInv'
<1>1. /\ input' = input /\ rows' = rows /\ indexed' = indexed /\ map' = map
      /\ result' = [result EXCEPT ![d] = Settled(d, proposal)]
      /\ result[d].status = "new"
  BY DEF Process
<1>2. /\ input \in Inputs /\ DOMAIN result = Document /\ DOMAIN indexed = Document
      /\ \A e \in Document : ResultInv(input[e], result[e])
      /\ rows \in Seq(Committed) /\ MapInv(map) /\ MapOrigin
      /\ \A e \in Document : IndexInv(e)
  BY DEF RedactionInv
<1>3. input[d].text \in Seq(Char)
  BY <1>2, RedactionAssumption
<1>4. ResultInv(input[d], Settled(d, proposal))
  BY <1>3, SettlingKeeps
<1>5. /\ DOMAIN result' = Document
      /\ result'[d] = Settled(d, proposal)
      /\ \A e \in Document : e # d => result'[e] = result[e]
  BY <1>1, <1>2
<1>6. \A e \in Document : ResultInv(input[e], result[e])'
  <2> TAKE e \in Document
  <2>1. ResultInv(input[e], result'[e])
    BY <1>2, <1>4, <1>5
  <2> QED
    BY <1>1, <2>1 DEF ResultInv
<1>7. Committed \subseteq Committed' /\ d \notin Committed
  BY <1>1, <1>5 DEF Committed
<1>8. rows' \in Seq(Committed')
  BY <1>1, <1>2, <1>7, SeqMonotonic
<1>9. \A e \in Committed : result'[e] = result[e] /\ e \in Committed'
  BY <1>5, <1>7 DEF Committed
<1>10. MapInv(map)' /\ MapOrigin'
  <2>1. MapOrigin'
    BY <1>1, <1>2, <1>9 DEF MapOrigin
  <2> QED
    BY <1>1, <1>2, <2>1 DEF MapInv
<1>11. \A e \in Document : IndexInv(e)'
  <2> TAKE e \in Document
  <2>1. IndexInv(e)
    BY <1>2
  <2>2. CASE e \in Committed
    BY <1>1, <1>9, <2>1, <2>2 DEF IndexInv
  <2>3. CASE e \notin Committed
    BY <1>1, <2>1, <2>3 DEF IndexInv
  <2> QED
    BY <2>2, <2>3
<1> QED
  BY <1>1, <1>2, <1>5, <1>6, <1>8, <1>10, <1>11 DEF RedactionInv

\* A call of index.
LEMMA IndexKeeps ==
    ASSUME RedactionInv, NEW d \in Document, Index(d)
    PROVE  RedactionInv'
<1>1. /\ input' = input /\ result' = result /\ indexed' = indexed /\ map' = map
      /\ rows' = Append(rows, d) /\ d \in Committed
  BY DEF Index, Committed
<1>2. /\ input \in Inputs /\ DOMAIN result = Document /\ DOMAIN indexed = Document
      /\ \A e \in Document : ResultInv(input[e], result[e])
      /\ rows \in Seq(Committed) /\ MapInv(map) /\ MapOrigin
      /\ \A e \in Document : IndexInv(e)
  BY DEF RedactionInv
<1>3. Committed' = Committed
  BY <1>1 DEF Committed
<1>4. rows' \in Seq(Committed') /\ ToSet(rows) \subseteq ToSet(rows')
  <2>1. /\ rows' \in Seq(Committed)
        /\ Len(rows') = Len(rows) + 1
        /\ \A k \in 1..Len(rows) : rows'[k] = rows[k]
    BY <1>1, <1>2, AppendProperties
  <2>2. DOMAIN rows = 1..Len(rows) /\ DOMAIN rows' = 1..Len(rows') /\ Len(rows) \in Nat
    BY <1>2, <2>1, LenProperties
  <2> QED
    BY <1>3, <2>1, <2>2 DEF ToSet
<1>5. \A e \in Document : ResultInv(input[e], result[e])'
  BY <1>1, <1>2 DEF ResultInv
<1>6. MapInv(map)' /\ MapOrigin'
  BY <1>1, <1>2, <1>3 DEF MapInv, MapOrigin
<1>7. \A e \in Document : IndexInv(e)'
  BY <1>1, <1>2, <1>3, <1>4 DEF IndexInv
<1> QED
  BY <1>1, <1>2, <1>4, <1>5, <1>6, <1>7 DEF RedactionInv

\* A call of index with the entries.
LEMMA IndexEntriesKeeps ==
    ASSUME RedactionInv, NEW d \in Document, IndexEntries(d)
    PROVE  RedactionInv'
<1> DEFINE entries == result[d].private
           r == register_entries(map, entries)
<1>1. /\ input' = input /\ result' = result /\ map' = r.map
      /\ indexed' = [indexed EXCEPT ![d] = IF r.raised THEN "raised" ELSE "yes"]
      /\ rows' = Append(rows, d) /\ d \in Committed
  BY DEF IndexEntries, Committed
<1>2. /\ input \in Inputs /\ DOMAIN result = Document /\ DOMAIN indexed = Document
      /\ \A e \in Document : ResultInv(input[e], result[e])
      /\ rows \in Seq(Committed) /\ MapInv(map) /\ MapOrigin
      /\ \A e \in Document : IndexInv(e)
  BY DEF RedactionInv
<1>3. Committed' = Committed
  BY <1>1 DEF Committed
<1>4. /\ rows' \in Seq(Committed') /\ ToSet(rows) \subseteq ToSet(rows')
      /\ d \in ToSet(rows')
  <2>1. /\ rows' \in Seq(Committed)
        /\ Len(rows') = Len(rows) + 1
        /\ \A k \in 1..Len(rows) : rows'[k] = rows[k]
        /\ rows'[Len(rows) + 1] = d
    BY <1>1, <1>2, AppendProperties
  <2>2. DOMAIN rows = 1..Len(rows) /\ DOMAIN rows' = 1..Len(rows') /\ Len(rows) \in Nat
    BY <1>2, <2>1, LenProperties
  <2> QED
    BY <1>3, <2>1, <2>2 DEF ToSet
<1>5. result[d].status = "committed" /\ ResultInv(input[d], result[d])
  BY <1>1, <1>2 DEF Committed
<1>6. entries \in Seq(Entry) /\ \A k \in 1..Len(entries) : entries[k].key # << >>
  BY <1>5, KeysOfEntries DEF ResultInv
<1>7. /\ MapInv(r.map) /\ map \subseteq r.map
      /\ \A p \in r.map : p \in map \/ \E k \in 1..Len(entries) : p = PairOf(entries[k])
      /\ ~r.raised => \A k \in 1..Len(entries) :
                         entries[k].value # << >> /\ PairOf(entries[k]) \in r.map
      /\ r.raised => \E k \in 1..Len(entries) :
                        \/ entries[k].value = << >>
                        \/ \E p \in r.map : /\ p.value = entries[k].value
                                            /\ p.key # entries[k].key
  <2> HIDE DEF entries
  <2> QED
    BY <1>2, <1>6, RegisterEntries
<1> HIDE DEF r
<1>8. \A e \in Document : ResultInv(input[e], result[e])'
  BY <1>1, <1>2 DEF ResultInv
<1>9. MapInv(map)' /\ MapOrigin'
  <2>1. MapInv(map)'
    BY <1>1, <1>7 DEF MapInv
  <2>2. ASSUME NEW p \in r.map
        PROVE  \E e \in Committed : \E k \in 1..Len(result[e].private) :
                  p = PairOf(result[e].private[k])
    BY <1>1, <1>2, <1>7 DEF MapOrigin
  <2>3. MapOrigin'
    BY <1>1, <1>3, <2>2 DEF MapOrigin
  <2> QED
    BY <2>1, <2>3
<1>10. \A e \in Document : IndexInv(e)'
  <2> TAKE e \in Document
  <2>1. IndexInv(e)
    BY <1>2
  <2>2. CASE e # d
    <3>1. indexed'[e] = indexed[e]
      BY <1>1, <1>2, <2>2
    <3> QED
      BY <1>1, <1>3, <1>4, <1>7, <2>1, <3>1 DEF IndexInv
  <2>3. CASE e = d
    <3>1. indexed'[d] = IF r.raised THEN "raised" ELSE "yes"
      BY <1>1, <1>2
    <3> QED
      BY <1>1, <1>3, <1>4, <1>7, <2>3, <3>1 DEF IndexInv
  <2> QED
    BY <2>2, <2>3
<1>11. DOMAIN indexed' = Document
  BY <1>1, <1>2
<1> QED
  BY <1>1, <1>2, <1>4, <1>8, <1>9, <1>10, <1>11 DEF RedactionInv

\* A list that a backend gives is one of spans, or an error is raised.
LEMMA BackendProposes ==
    ASSUME NEW text, NEW reply, reply.elements \in Seq(ToSet(reply.elements)),
           NEW proposal, proposal = ProposeByBackend(text, reply), proposal.reason = "none"
    PROVE  AreSpans(proposal.spans)
<1> DEFINE spans == reply.elements
<1>1. /\ proposal = Proposed(spans)
      /\ \A k \in DOMAIN spans : IsSpanOf(text, spans[k])
  BY DEF ProposeByBackend, Raised
<1>2. proposal.spans = spans
  BY <1>1 DEF Proposed
<1>3. \A k \in DOMAIN spans : /\ spans[k].start \in Nat /\ spans[k].end \in Nat
                              /\ spans[k].start <= spans[k].end /\ spans[k].kind \in Kind
  BY <1>1 DEF IsSpanOf
<1> HIDE DEF spans
<1>4. AreSpans(spans)
  BY <1>3 DEF AreSpans, spans
<1> QED
  BY <1>2, <1>4

\* What is committed stays, rows and pairs are only added, and what is added
\* comes from what is committed.
LEMMA RedactionInvNext == RedactionInv /\ [RedactionNext]_redactionVars => RedactionInv'
<1> SUFFICES ASSUME RedactionInv, [RedactionNext]_redactionVars
             PROVE  RedactionInv'
  OBVIOUS
<1>1. input \in Inputs
  BY DEF RedactionInv
<1>2. ASSUME NEW d \in Document, ProcessSpans(d)
      PROVE  RedactionInv'
  <2> DEFINE proposal == IF input[d].spans = << >> THEN Raised("value_error")
                         ELSE Proposed(input[d].spans)
  <2>1. Process(d, "caller", proposal) /\ input[d].by = "caller"
    BY <1>2 DEF ProcessSpans, Process
  <2>2. AreSpans(input[d].spans)
    BY <1>1, <2>1, RedactionAssumption
  <2>3. /\ proposal.reason = "none" => AreSpans(proposal.spans)
        /\ proposal.reason \notin {"committed", "validation_error"}
    BY <2>2 DEF Raised, Proposed
  <2> HIDE DEF proposal
  <2> QED
    BY <2>1, <2>3, ProcessKeeps
<1>3. ASSUME NEW d \in Document, ProcessByRules(d)
      PROVE  RedactionInv'
  <2> DEFINE text == input[d].text
             proposal == ProposeByRules(text, Rules)
  <2>1. Process(d, "rules", proposal)
    BY <1>3 DEF ProcessByRules
  <2>2. text \in Seq(Char)
    BY <1>1, RedactionAssumption
  <2>3. /\ Len(Rules) \in Nat
        /\ \A r \in 1..Len(Rules) :
              Rules[r].word \in Seq(Char) \ {<< >>} /\ Rules[r].kind \in Kind
    BY RedactionAssumption, LenProperties
  <2>4. AreSpans(proposal.spans) /\ Claims(text, proposal.spans)
    <3> HIDE DEF text
    <3> QED
      BY <2>2, <2>3, RulesPropose
  <2>5. proposal.reason = "none"
    BY DEF ProposeByRules, Proposed
  <2> HIDE DEF proposal
  <2> QED
    BY <2>1, <2>4, <2>5, ProcessKeeps
<1>4. ASSUME NEW d \in Document, ProcessByBackend(d)
      PROVE  RedactionInv'
  <2> DEFINE reply == input[d].reply
             proposal == ProposeByBackend(input[d].text, reply)
  <2>1. Process(d, "backend", proposal) /\ input[d].by = "backend"
    BY <1>4 DEF ProcessByBackend, Process
  <2>2. reply.elements \in Seq(ToSet(reply.elements))
    BY <1>1, <2>1, RedactionAssumption
  <2>3. proposal.reason = "none" => AreSpans(proposal.spans)
    <3> HIDE DEF reply
    <3> QED
      BY <2>2, BackendProposes
  <2>4. proposal.reason \notin {"committed", "validation_error"}
    BY DEF ProposeByBackend, Proposed, Raised, generate
  <2> HIDE DEF proposal
  <2> QED
    BY <2>1, <2>3, <2>4, ProcessKeeps
<1>5. CASE UNCHANGED redactionVars
  <2>1. /\ input' = input /\ result' = result /\ rows' = rows /\ indexed' = indexed
        /\ map' = map
    BY <1>5 DEF redactionVars
  <2>2. Committed' = Committed
    BY <2>1 DEF Committed
  <2>3. \A d \in Document : ResultInv(input[d], result[d])'
    BY <2>1 DEF RedactionInv, ResultInv
  <2>4. MapInv(map)' /\ MapOrigin'
    BY <2>1, <2>2 DEF RedactionInv, MapInv, MapOrigin
  <2>5. \A d \in Document : IndexInv(d)'
    BY <2>1, <2>2 DEF RedactionInv, IndexInv
  <2> QED
    BY <2>1, <2>2, <2>3, <2>4, <2>5 DEF RedactionInv
<1> QED
  BY <1>2, <1>3, <1>4, <1>5, IndexKeeps, IndexEntriesKeeps DEF RedactionNext

\* RedactionInv, the inductive invariant of Redaction, holds in every state: of
\* what process_document has committed, of the map of the resolver and of what
\* index answered.
THEOREM RedactionInvariant == RedactionSpec => []RedactionInv
BY RedactionInvInit, RedactionInvNext, PTL DEF RedactionSpec

\* What the invariant says of a document that is committed.
LEMMA CommittedResult ==
    ASSUME RedactionInv, NEW d \in Committed
    PROVE  /\ d \in Document /\ result[d].status = "committed"
           /\ ResultInv(input[d], result[d])
           /\ DOMAIN result[d].private = 1..Len(result[d].private)
           /\ DOMAIN result[d].entities = 1..Len(result[d].entities)
           /\ DOMAIN result[d].spans = 1..Len(result[d].spans)
<1>1. /\ d \in Document /\ result[d].status = "committed"
      /\ ResultInv(input[d], result[d])
  BY DEF Committed, RedactionInv
<1>2. /\ result[d].private \in Seq(Entry) /\ result[d].entities \in Seq(Entity)
      /\ AreSpans(result[d].spans)
  BY <1>1 DEF ResultInv
<1>3. DOMAIN result[d].spans = 1..Len(result[d].spans)
  BY <1>2, SpansType
<1>4. /\ DOMAIN result[d].private = 1..Len(result[d].private)
      /\ DOMAIN result[d].entities = 1..Len(result[d].entities)
  BY <1>2, LenProperties
<1> QED
  BY <1>1, <1>3, <1>4

\* redact and Validator.validate in process_document: whatever the texts and
\* the spans, a manifest is refused only for a value that its text still shows.
THEOREM RefusalsHaveCause == RedactionSpec => []RefusedForCause
<1>1. RedactionInv => RefusedForCause
  BY DEF RedactionInv, ResultInv, RefusedForCause
<1> QED
  BY <1>1, RedactionInvariant, PTL

\* redact: whatever the spans were, the entities of a document point at the
\* keys in its text, the values in their places give the raw text back, and a
\* span that was passed over ends past the text or starts in one that was
\* replaced; none of those that the rules propose is passed over.
THEOREM RedactionAccountsForSpans == RedactionSpec => []EntitiesAccounted
<1>1. ASSUME RedactionInv
      PROVE  EntitiesPointAtKeys
  <2> SUFFICES ASSUME NEW d \in Committed
               PROVE  LET r == result[d]
                          restored == Restored(r.text, r.entities, r.private) IN
                      /\ \A k \in DOMAIN r.entities :
                            Slice(r.text, r.entities[k].start, r.entities[k].end)
                              = r.entities[k].key
                      /\ restored.text \o Slice(r.text, restored.cursor, Len(r.text))
                           = input[d].text
    BY DEF EntitiesPointAtKeys
  <2>1. /\ ResultInv(input[d], result[d]) /\ result[d].status = "committed"
        /\ DOMAIN result[d].entities = 1..Len(result[d].entities)
    BY <1>1, CommittedResult
  <2> QED
    BY <2>1 DEF ResultInv, EntityInv
<1>2. ASSUME RedactionInv
      PROVE  SkippedOnlyIfOverlapped
  <2> SUFFICES ASSUME NEW d \in Committed, NEW k \in DOMAIN result[d].spans
               PROVE  LET span == result[d].spans[k] IN
                      \/ Replaced(d, span)
                      \/ input[d].by # "rules" /\ Past(input[d].text, span)
                      \/ /\ input[d].by # "rules"
                         /\ \E other \in ToSet(result[d].spans) :
                               /\ Replaced(d, other)
                               /\ other.start <= span.start /\ span.start < other.end
    BY DEF SkippedOnlyIfOverlapped
  <2>1. /\ ResultInv(input[d], result[d]) /\ result[d].status = "committed"
        /\ DOMAIN result[d].private = 1..Len(result[d].private)
        /\ DOMAIN result[d].spans = 1..Len(result[d].spans)
    BY <1>2, CommittedResult
  <2>2. \A span : Kept(result[d].private, input[d].text, span) => Replaced(d, span)
    BY <2>1 DEF Kept, Replaced
  <2> DEFINE spans == result[d].spans
  <2>3. \/ Kept(result[d].private, input[d].text, spans[k])
        \/ input[d].by # "rules" /\ Past(input[d].text, spans[k])
        \/ /\ input[d].by # "rules"
           /\ \E j \in 1..Len(spans) :
                 Kept(result[d].private, input[d].text, spans[j]) /\ Covers(spans[j], spans[k])
    BY <2>1 DEF ResultInv
  <2>4. \A j \in 1..Len(spans) : spans[j] \in ToSet(spans)
    BY <2>1 DEF ToSet
  <2> QED
    BY <2>2, <2>3, <2>4 DEF Covers
<1>3. RedactionInv => EntitiesAccounted
  BY <1>1, <1>2 DEF EntitiesAccounted
<1> QED
  BY <1>3, RedactionInvariant, PTL

\* index with entries: it raises only for an empty value, or for a value that
\* some committed document has under another kind.
THEOREM IndexRefusesForCause == RedactionSpec => []IndexRaisesForCause
<1>1. ASSUME RedactionInv
      PROVE  IndexRaisesForCause
  <2> SUFFICES ASSUME NEW d \in Document, indexed[d] = "raised"
               PROVE  \E k \in DOMAIN result[d].private :
                         LET entry == result[d].private[k] IN
                         \/ entry.value = << >>
                         \/ \E other \in Committed : \E j \in DOMAIN result[other].private :
                               /\ result[other].private[j].value = entry.value
                               /\ result[other].private[j].kind # entry.kind
    BY DEF IndexRaisesForCause
  <2>1. IndexInv(d) /\ MapOrigin
    BY <1>1 DEF RedactionInv
  <2>2. d \in Committed
    BY <2>1 DEF IndexInv
  <2>3. PICK k \in 1..Len(result[d].private) :
           \/ result[d].private[k].value = << >>
           \/ \E p \in map : /\ p.value = result[d].private[k].value
                             /\ p.key # result[d].private[k].key
    BY <2>1 DEF IndexInv
  <2>4. k \in DOMAIN result[d].private
    BY <1>1, <2>2, CommittedResult
  <2>5. CASE result[d].private[k].value = << >>
    BY <2>4, <2>5
  <2>6. CASE result[d].private[k].value # << >>
    <3>1. PICK p \in map : /\ p.value = result[d].private[k].value
                           /\ p.key # result[d].private[k].key
      BY <2>3, <2>6
    <3>2. PICK other \in Committed : \E j \in 1..Len(result[other].private) :
             p = PairOf(result[other].private[j])
      BY <2>1 DEF MapOrigin
    <3>3. PICK j \in 1..Len(result[other].private) : p = PairOf(result[other].private[j])
      BY <3>2
    <3>4. p.value = result[other].private[j].value /\ p.key = result[other].private[j].key
      BY <3>3 DEF PairOf
    <3>5. /\ result[other].private[j].key
               = _make_key(result[other].private[j].kind, result[other].private[j].value)
          /\ j \in DOMAIN result[other].private
      BY <1>1, CommittedResult, KeysOfEntries
    <3>6. result[d].private[k].key
            = _make_key(result[d].private[k].kind, result[d].private[k].value)
      BY <1>1, <2>2, CommittedResult, KeysOfEntries
    <3>7. result[other].private[j].kind # result[d].private[k].kind
      BY <3>1, <3>4, <3>5, <3>6
    <3> QED
      BY <2>4, <3>1, <3>4, <3>5, <3>7
  <2> QED
    BY <2>5, <2>6
<1> QED
  BY <1>1, RedactionInvariant, PTL

-----------------------------------------------------------------------------
\* The search

\* Hits of committed documents, each there once.
HitsInv(hits) ==
    /\ hits \in Seq(Committed)
    /\ \A i, j \in 1..Len(hits) : hits[i] = hits[j] => i = j

\* A hit more.
LEMMA HitAppended ==
    ASSUME NEW hits, HitsInv(hits), NEW d \in Committed, d \notin ToSet(hits)
    PROVE  HitsInv(Append(hits, d)) /\ ToSet(Append(hits, d)) = ToSet(hits) \cup {d}
<1> DEFINE new == Append(hits, d)
           n == Len(hits)
<1>1. hits \in Seq(Committed) /\ n \in Nat /\ DOMAIN hits = 1..n
  BY LenProperties DEF HitsInv
<1>2. /\ new \in Seq(Committed) /\ Len(new) = n + 1
      /\ \A i \in 1..n : new[i] = hits[i]
      /\ new[n + 1] = d
  BY <1>1, AppendProperties
<1>3. DOMAIN new = 1 .. n + 1
  BY <1>2, LenProperties
<1> HIDE DEF new
<1>4. \A i \in 1..n : hits[i] # d
  BY <1>1 DEF ToSet
<1>5. \A i, j \in 1..n : hits[i] = hits[j] => i = j
  BY DEF HitsInv, n
<1> HIDE DEF n
<1>6. \A i \in 1 .. n + 1 : i \in 1..n \/ i = n + 1
  BY <1>1
<1>7. \A i, j \in 1 .. n + 1 : new[i] = new[j] => i = j
  BY <1>2, <1>4, <1>5, <1>6
<1>8. ToSet(new) = ToSet(hits) \cup {d}
  <2>1. 1 .. n + 1 = 1..n \cup {n + 1}
    BY <1>1
  <2> QED
    BY <1>1, <1>2, <1>3, <2>1 DEF ToSet
<1>9. HitsInv(new)
  BY <1>2, <1>7 DEF HitsInv
<1> QED
  BY <1>8, <1>9 DEF new

\* f[k] is what is found after k rows.
Scanning(f, hits, needle) ==
    /\ f[0] = hits
    /\ \A k \in 1..Len(rows) : f[k] = ScanRow(f[k - 1], rows[k], needle)

\* The loop over the rows.
LEMMA ScanLoop ==
    ASSUME NEW hits, NEW needle, Len(rows) \in Nat
    PROVE  \E f : Scanning(f, hits, needle) /\ ScanRows(hits, needle) = f[Len(rows)]
<1> DEFINE n == Len(rows)
           base == hits
           Turn(done, k) == ScanRow(done, rows[k], needle)
           Is(f, m) == f = [k \in 0..m |-> IF k = 0 THEN base ELSE Turn(f[k - 1], k)]
           Has(m) == \E f : Is(f, m)
           T == {m \in 0..n : Has(m)}
           c == CHOOSE f : Is(f, n)
<1> HIDE DEF Turn, base, n
<1>1. Has(0)
  <2> DEFINE g == [k \in 0..0 |-> base]
  <2>1. Is(g, 0)
    OBVIOUS
  <2> QED
    BY <2>1, Zenon
<1>2. ASSUME NEW m \in 1..n, Has(m - 1)
      PROVE  Has(m)
  <2>1. PICK f : Is(f, m - 1)
    BY <1>2
  <2> DEFINE g == [k \in 0..m |-> IF k = m THEN Turn(f[m - 1], m) ELSE f[k]]
  <2>2. Is(g, m)
    BY <2>1
  <2> QED
    BY <2>2, Zenon
<1>3. n \in Nat
  BY DEF n
<1>4. n \in T
  <2>1. 0 \in T /\ \A m \in 1..n : m - 1 \in T => m \in T
    <3> HIDE DEF Has
    <3> QED
      BY <1>1, <1>2, <1>3
  <2> HIDE DEF T
  <2> QED
    BY <1>3, <2>1, Turns
<1>5. Is(c, n)
  BY <1>4, Zenon
<1>6. c[0] = base /\ \A k \in 1..n : c[k] = Turn(c[k - 1], k)
  <2> HIDE DEF c
  <2> QED
    BY <1>3, <1>5
<1>7. ScanRows(hits, needle) = c[n]
  BY Zenon DEF ScanRows, Loop, n, base, Turn
<1> HIDE DEF c
<1>8. Scanning(c, hits, needle)
  BY <1>6, Zenon DEF Scanning, n, base, Turn
<1> QED
  BY <1>7, <1>8, Zenon DEF n

\* What a scan of k rows makes of hits.
ScanInv(hits, new, needle, k) ==
    /\ HitsInv(new)
    /\ \A d \in ToSet(new) : d \in ToSet(hits) \/ Shows(needle, result[d].text)
    /\ \A i \in 1..k : Shows(needle, result[rows[i]].text) => rows[i] \in ToSet(new)

\* A row that shows the needle is among the hits, and what comes to them
\* shows it.
LEMMA ScanRowKeeps ==
    ASSUME NEW hits, NEW new, NEW needle, NEW k \in Nat \ {0},
           rows[k] \in Committed, ScanInv(hits, new, needle, k - 1)
    PROVE  ScanInv(hits, ScanRow(new, rows[k], needle), needle, k)
<1> DEFINE d == rows[k]
           next == ScanRow(new, d, needle)
<1>1. /\ HitsInv(new)
      /\ \A e \in ToSet(new) : e \in ToSet(hits) \/ Shows(needle, result[e].text)
      /\ \A i \in 1 .. k - 1 : Shows(needle, result[rows[i]].text) => rows[i] \in ToSet(new)
  BY DEF ScanInv
<1>2. \A i \in 1..k : i = k \/ i \in 1 .. k - 1
  OBVIOUS
<1>3. CASE d \notin ToSet(new) /\ Shows(needle, result[d].text)
  <2>1. next = Append(new, d)
    BY <1>3 DEF ScanRow
  <2>2. HitsInv(next) /\ ToSet(next) = ToSet(new) \cup {d}
    BY <1>1, <1>3, <2>1, HitAppended
  <2> HIDE DEF next
  <2>3. \A e \in ToSet(next) : e \in ToSet(hits) \/ Shows(needle, result[e].text)
    BY <1>1, <1>3, <2>2
  <2>4. \A i \in 1..k : Shows(needle, result[rows[i]].text) => rows[i] \in ToSet(next)
    BY <1>1, <1>2, <2>2
  <2>5. ScanInv(hits, next, needle, k)
    BY <2>2, <2>3, <2>4 DEF ScanInv
  <2> QED
    BY <2>5 DEF next
<1>4. CASE ~(d \notin ToSet(new) /\ Shows(needle, result[d].text))
  <2>1. next = new
    BY <1>4 DEF ScanRow
  <2>2. \A i \in 1..k : Shows(needle, result[rows[i]].text) => rows[i] \in ToSet(new)
    BY <1>1, <1>2, <1>4
  <2>3. ScanInv(hits, new, needle, k)
    BY <1>1, <2>2 DEF ScanInv
  <2> QED
    BY <2>1, <2>3
<1> QED
  BY <1>3, <1>4

\* A scan of all the rows.
LEMMA ScanFinds ==
    ASSUME rows \in Seq(Committed), NEW hits, HitsInv(hits), NEW needle
    PROVE  ScanInv(hits, ScanRows(hits, needle), needle, Len(rows))
<1> DEFINE n == Len(rows)
<1>1. n \in Nat /\ \A k \in 1..n : rows[k] \in Committed
  BY LenProperties, ElementOfSeq
<1>2. PICK f : Scanning(f, hits, needle) /\ ScanRows(hits, needle) = f[n]
  BY <1>1, ScanLoop
<1> DEFINE T == {k \in 0..n : ScanInv(hits, f[k], needle, k)}
<1>3. 0 \in T
  <2>1. f[0] = hits
    BY <1>2 DEF Scanning
  <2>2. ScanInv(hits, hits, needle, 0)
    BY DEF ScanInv
  <2> QED
    BY <1>1, <2>1, <2>2
<1>4. \A k \in 1..n : k - 1 \in T => k \in T
  <2> TAKE k \in 1..n
  <2> HAVE k - 1 \in T
  <2> DEFINE new == f[k - 1]
  <2>1. f[k] = ScanRow(new, rows[k], needle)
    BY <1>2 DEF Scanning
  <2>2. ScanInv(hits, new, needle, k - 1) /\ rows[k] \in Committed /\ k \in Nat \ {0}
    BY <1>1
  <2> HIDE DEF new
  <2>3. ScanInv(hits, ScanRow(new, rows[k], needle), needle, k)
    BY <2>2, ScanRowKeeps
  <2> QED
    BY <2>1, <2>3
<1>5. \A k \in 0..n : k \in T
  <2> HIDE DEF T, n
  <2> QED
    BY <1>1, <1>3, <1>4, Turns
<1> QED
  BY <1>1, <1>2, <1>5

\* f[k] is what is found after k needles.
Searching(f, needles) ==
    /\ f[0] = << >>
    /\ \A k \in 1..Len(needles) : f[k] = ScanRows(f[k - 1], needles[k])

\* The loop over the needles.
LEMMA SearchLoop ==
    ASSUME NEW query, NEW top_k, NEW needles, needles = Needles(map, query),
           Len(needles) \in Nat
    PROVE  \E f : /\ Searching(f, needles)
                  /\ Search(query, top_k) = Slice(f[Len(needles)], 0, top_k)
<1> DEFINE n == Len(needles)
           base == << >>
           Turn(done, k) == ScanRows(done, needles[k])
           Is(f, m) == f = [k \in 0..m |-> IF k = 0 THEN base ELSE Turn(f[k - 1], k)]
           Has(m) == \E f : Is(f, m)
           T == {m \in 0..n : Has(m)}
           c == CHOOSE f : Is(f, n)
<1> HIDE DEF Turn, base, n
<1>1. Has(0)
  <2> DEFINE g == [k \in 0..0 |-> base]
  <2>1. Is(g, 0)
    OBVIOUS
  <2> QED
    BY <2>1, Zenon
<1>2. ASSUME NEW m \in 1..n, Has(m - 1)
      PROVE  Has(m)
  <2>1. PICK f : Is(f, m - 1)
    BY <1>2
  <2> DEFINE g == [k \in 0..m |-> IF k = m THEN Turn(f[m - 1], m) ELSE f[k]]
  <2>2. Is(g, m)
    BY <2>1
  <2> QED
    BY <2>2, Zenon
<1>3. n \in Nat
  BY DEF n
<1>4. n \in T
  <2>1. 0 \in T /\ \A m \in 1..n : m - 1 \in T => m \in T
    <3> HIDE DEF Has
    <3> QED
      BY <1>1, <1>2, <1>3
  <2> HIDE DEF T
  <2> QED
    BY <1>3, <2>1, Turns
<1>5. Is(c, n)
  BY <1>4, Zenon
<1>6. c[0] = base /\ \A k \in 1..n : c[k] = Turn(c[k - 1], k)
  <2> HIDE DEF c
  <2> QED
    BY <1>3, <1>5
<1>7. Search(query, top_k) = Slice(c[n], 0, top_k)
  BY Zenon DEF Search, Loop, n, base, Turn
<1> HIDE DEF c
<1>8. Searching(c, needles)
  BY <1>6, Zenon DEF Searching, n, base, Turn
<1> QED
  BY <1>7, <1>8, Zenon DEF n

\* The first of some hits: all of them, or as many as were asked for.
LEMMA FirstHits ==
    ASSUME NEW hits, HitsInv(hits), NEW top_k \in Nat, NEW w, w = Slice(hits, 0, top_k)
    PROVE  /\ HitsInv(w) /\ DOMAIN w = 1..Len(w)
           /\ ToSet(w) \subseteq ToSet(hits)
           /\ ToSet(w) = ToSet(hits) \/ Len(w) = top_k
<1>1. hits \in Seq(Committed) /\ Len(hits) \in Nat /\ DOMAIN hits = 1..Len(hits)
  BY LenProperties DEF HitsInv
<1>2. /\ w \in Seq(Committed)
      /\ top_k <= Len(hits) => Len(w) = top_k
      /\ top_k > Len(hits) => Len(w) = Len(hits)
      /\ \A i \in 1..Len(w) : i \in 1..Len(hits) /\ w[i] = hits[i]
  <2>1. /\ w \in Seq(Committed)
        /\ 0 <= top_k /\ top_k <= Len(hits) => Len(w) = top_k - 0
        /\ top_k > Len(hits) /\ 0 <= Len(hits) => Len(w) = Len(hits) - 0
        /\ \A i \in 1..Len(w) : 0 + i \in 1..Len(hits) /\ w[i] = hits[0 + i]
    BY <1>1, SliceType
  <2>2. \A i \in 1..Len(w) : 0 + i = i
    OBVIOUS
  <2> QED
    BY <1>1, <2>1, <2>2
<1>3. DOMAIN w = 1..Len(w)
  BY <1>2, LenProperties
<1>4. HitsInv(w)
  BY <1>2 DEF HitsInv
<1>5. ToSet(w) \subseteq ToSet(hits)
  BY <1>1, <1>2, <1>3 DEF ToSet
<1>6. ASSUME Len(w) # top_k
      PROVE  ToSet(hits) \subseteq ToSet(w)
  <2>1. Len(w) = Len(hits)
    BY <1>1, <1>2, <1>6
  <2> QED
    BY <1>1, <1>2, <1>3, <2>1 DEF ToSet
<1> QED
  BY <1>3, <1>4, <1>5, <1>6

\* Whatever is searched for, each hit is there once, and shows a needle.
LEMMA HitsShow ==
    ASSUME RedactionInv, NEW query, NEW top_k \in Nat,
           NEW needles, needles = Needles(map, query), Len(needles) \in Nat
    PROVE  /\ HitsInv(Search(query, top_k))
           /\ DOMAIN Search(query, top_k) = 1..Len(Search(query, top_k))
           /\ \A d \in ToSet(Search(query, top_k)) :
                 \E j \in 1..Len(needles) : Shows(needles[j], result[d].text)
<1> DEFINE n == Len(needles)
           Shown(hits, k) ==
               \A d \in ToSet(hits) : \E j \in 1..k : Shows(needles[j], result[d].text)
<1>1. PICK f : Searching(f, needles) /\ Search(query, top_k) = Slice(f[n], 0, top_k)
  BY SearchLoop
<1>2. rows \in Seq(Committed)
  BY DEF RedactionInv
<1> DEFINE T == {k \in 0..n : HitsInv(f[k]) /\ Shown(f[k], k)}
<1>3. 0 \in T
  <2>1. f[0] = << >>
    BY <1>1 DEF Searching
  <2>2. HitsInv(<< >>) /\ ToSet(<< >>) = {}
    BY EmptySeq DEF HitsInv, ToSet
  <2> QED
    BY <2>1, <2>2
<1>4. \A k \in 1..n : k - 1 \in T => k \in T
  <2> TAKE k \in 1..n
  <2> HAVE k - 1 \in T
  <2> DEFINE hits == f[k - 1]
             needle == needles[k]
             new == ScanRows(hits, needle)
  <2>1. f[k] = new
    BY <1>1 DEF Searching
  <2>2. HitsInv(hits) /\ Shown(hits, k - 1)
    OBVIOUS
  <2> HIDE DEF hits
  <2>3. ScanInv(hits, new, needle, Len(rows))
    <3> HIDE DEF needle
    <3> QED
      BY <1>2, <2>2, ScanFinds
  <2> HIDE DEF new
  <2>4. HitsInv(new) /\ Shown(new, k)
    <3>1. \A j \in 1 .. k - 1 : j \in 1..k
      OBVIOUS
    <3>2. k \in 1..k
      OBVIOUS
    <3> QED
      BY <2>2, <2>3, <3>1, <3>2 DEF ScanInv
  <2> HIDE DEF Shown
  <2> QED
    BY <2>1, <2>4
<1>5. \A k \in 0..n : k \in T
  <2> HIDE DEF T, n
  <2> QED
    BY <1>3, <1>4, Turns DEF n
<1>6. HitsInv(f[n]) /\ Shown(f[n], n)
  BY <1>5
<1> DEFINE found == f[n]
<1>7. HitsInv(found) /\ Search(query, top_k) = Slice(found, 0, top_k)
  BY <1>1, <1>6
<1> HIDE DEF found
<1>8. /\ HitsInv(Search(query, top_k))
      /\ DOMAIN Search(query, top_k) = 1..Len(Search(query, top_k))
      /\ ToSet(Search(query, top_k)) \subseteq ToSet(found)
  BY <1>7, FirstHits
<1> QED
  BY <1>6, <1>8 DEF found

\* Who asks for a private value of a document that was indexed with its entries
\* finds the document, or top_k others: the translation of the value is its key.
LEMMA AskedIsFound ==
    ASSUME RedactionInv
    PROVE  AskedValueFindsDocument
<1> SUFFICES ASSUME NEW d \in Document, indexed[d] = "yes",
                    NEW k \in DOMAIN result[d].private, NEW top_k \in 1..MaxRows
             PROVE  LET entry == result[d].private[k]
                        hits == Search(entry.value, top_k) IN
                    /\ d \in ToSet(hits) \/ Len(hits) = top_k
                    /\ \A i \in DOMAIN hits :
                          /\ Shows(entry.key, result[hits[i]].text)
                          /\ \A j \in DOMAIN hits : i # j => hits[i] # hits[j]
  BY DEF AskedValueFindsDocument
<1>1. IndexInv(d) /\ MapInv(map) /\ rows \in Seq(Committed) /\ top_k \in Nat
  BY RedactionAssumption DEF RedactionInv
<1>2. d \in Committed /\ d \in ToSet(rows)
  BY <1>1 DEF IndexInv
<1>3. k \in 1..Len(result[d].private)
      /\ ResultInv(input[d], result[d]) /\ result[d].status = "committed"
  BY <1>2, CommittedResult
<1> DEFINE p == PairOf(result[d].private[k])
           r == translate(map, p.value)
           hits == Search(p.value, top_k)
<1>4. p \in map
  BY <1>1, <1>3 DEF IndexInv
<1>5. p.value = result[d].private[k].value /\ p.key = result[d].private[k].key
  BY DEF PairOf
<1>6. Shows(p.key, result[d].text)
  <2>1. Occurs(p.key, result[d].text)
    BY <1>3, <1>5 DEF ResultInv
  <2>2. result[d].text \in Seq(Symbol)
    BY <1>3 DEF ResultInv
  <2>3. p.key \in Seq(Symbol)
    <3>1. result[d].private[k].key \in Seq(Symbol) \ {<< >>}
      BY <1>3, KeysOfEntries
    <3> HIDE DEF p
    <3> QED
      BY <1>5, <3>1
  <2> QED
    BY <2>1, <2>2, <2>3, OccursShows
<1> HIDE DEF p
<1>7. r.terms = <<p.key>> /\ r.residual = << >>
  BY <1>1, <1>4, TranslateKnown
<1>8. Needles(map, p.value) = <<p.key>>
  <2>1. ToSet(<< >>) = {}
    BY DEF ToSet
  <2>2. ToSet(r.residual) \subseteq {Blank}
    BY <1>7, <2>1
  <2> QED
    BY <1>7, <2>2 DEF Needles
<1> DEFINE needles == <<p.key>>
<1>9. needles = Needles(map, p.value) /\ Len(needles) = 1 /\ needles[1] = p.key
  BY <1>8
<1> HIDE DEF needles
<1>10. /\ HitsInv(hits) /\ DOMAIN hits = 1..Len(hits)
       /\ \A e \in ToSet(hits) : Shows(p.key, result[e].text)
  <2>1. Len(needles) \in Nat
    BY <1>9
  <2>2. /\ HitsInv(hits) /\ DOMAIN hits = 1..Len(hits)
        /\ \A e \in ToSet(hits) : \E j \in 1..Len(needles) : Shows(needles[j], result[e].text)
    BY <1>1, <1>9, <2>1, HitsShow
  <2>3. \A j \in 1..Len(needles) : needles[j] = p.key
    BY <1>9
  <2> HIDE DEF hits
  <2> QED
    BY <2>2, <2>3
<1>11. d \in ToSet(hits) \/ Len(hits) = top_k
  <2>1. PICK f : Searching(f, needles) /\ hits = Slice(f[1], 0, top_k)
    <3>1. Len(needles) \in Nat
      BY <1>9
    <3>2. \E f : /\ Searching(f, needles)
                 /\ Search(p.value, top_k) = Slice(f[Len(needles)], 0, top_k)
      BY <1>9, <3>1, SearchLoop
    <3> QED
      BY <1>9, <3>2
  <2> DEFINE found == f[1]
  <2>2. found = ScanRows(<< >>, p.key)
    BY <1>9, <2>1 DEF Searching
  <2>3. HitsInv(<< >>)
    BY EmptySeq DEF HitsInv
  <2>4. ScanInv(<< >>, found, p.key, Len(rows))
    BY <1>1, <2>2, <2>3, ScanFinds
  <2>5. hits = Slice(found, 0, top_k)
    BY <2>1
  <2> HIDE DEF found, hits
  <2>6. ToSet(hits) = ToSet(found) \/ Len(hits) = top_k
    BY <1>1, <2>4, <2>5, FirstHits DEF ScanInv
  <2>7. d \in ToSet(found)
    <3>1. PICK i \in 1..Len(rows) : rows[i] = d
      BY <1>1, <1>2, LenProperties DEF ToSet
    <3> QED
      BY <1>6, <2>4, <3>1 DEF ScanInv
  <2> QED
    BY <2>6, <2>7
<1> HIDE DEF hits
<1>12. \A i \in DOMAIN hits : hits[i] \in ToSet(hits)
  BY DEF ToSet
<1> QED
  BY <1>5, <1>10, <1>11, <1>12 DEF HitsInv, hits

\* The snippet of a hit shows one of the needles it was found by.
LEMMA NeedleIsShown ==
    ASSUME RedactionInv
    PROVE  SnippetShowsNeedle
<1> SUFFICES ASSUME NEW query \in Query, NEW d \in ToSet(Search(query, MaxRows))
             PROVE  \E k \in DOMAIN Needles(map, query) :
                       Shows(Needles(map, query)[k],
                             Snippet(result[d].text, SnippetNeedles(map, query)))
  BY DEF SnippetShowsNeedle
<1> DEFINE needles == Needles(map, query)
           K == Seq(Symbol) \ {<< >>}
           hits == Search(query, MaxRows)
<1>1. query \in Seq(Char) /\ MaxRows \in Nat
  BY RedactionAssumption
<1>2. MapInv(map)
  BY DEF RedactionInv
<1>3. needles \in Seq(K)
  BY <1>1, <1>2, NeedlesType
<1> HIDE DEF needles, K, hits
<1>4. Len(needles) \in Nat /\ DOMAIN needles = 1..Len(needles)
  BY <1>3, LenProperties
<1>5. /\ HitsInv(hits) /\ DOMAIN hits = 1..Len(hits)
      /\ \A e \in ToSet(hits) : \E j \in 1..Len(needles) : Shows(needles[j], result[e].text)
  BY <1>1, <1>4, HitsShow DEF needles, hits
<1>6. PICK k \in DOMAIN needles : Shows(needles[k], result[d].text)
  BY <1>4, <1>5 DEF hits
<1>7. d \in Committed
  <2>1. PICK i \in DOMAIN hits : hits[i] = d
    BY DEF hits, ToSet
  <2>2. hits \in Seq(Committed)
    BY <1>5 DEF HitsInv
  <2> QED
    BY <1>5, <2>1, <2>2, ElementOfSeq
<1>8. result[d].text \in Seq(Symbol)
  BY <1>7, CommittedResult DEF ResultInv
<1>9. SnippetNeedles(map, query) = needles
  <2>1. needles # << >>
    BY <1>6
  <2> QED
    BY <2>1 DEF SnippetNeedles, needles
<1>10. \E j \in DOMAIN needles : Shows(needles[j], Snippet(result[d].text, needles))
  <2> DEFINE text == result[d].text
  <2> HIDE DEF text
  <2>1. \E j \in DOMAIN needles : Shows(needles[j], Snippet(text, needles))
    BY <1>3, <1>6, <1>8, SnippetShows DEF text, K
  <2> QED
    BY <2>1 DEF text
<1> QED
  BY <1>9, <1>10 DEF needles

\* search_request: who asks for a private value of an indexed document finds
\* it, or top_k others that have its key, and the snippet of every hit shows a
\* needle it was found by.
THEOREM AskedValuesAreShown == RedactionSpec => []AskedValueIsShown
<1>1. RedactionInv => AskedValueIsShown
  BY AskedIsFound, NeedleIsShown DEF AskedValueIsShown
<1> QED
  BY <1>1, RedactionInvariant, PTL

=============================================================================
