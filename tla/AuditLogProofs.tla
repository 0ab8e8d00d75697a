--------------------------- MODULE AuditLogProofs ---------------------------
(***************************************************************************)
(* Lemmas about the audit file, for any set L of lines: what an append     *)
(* that succeeds and one that fails leave of the file.  The writers'       *)
(* modules cite them.                                                      *)
(***************************************************************************)
EXTENDS AuditLog, SequenceTheorems, TLAPS

\* A file of lines of L, of which appends that failed have garbled some.
FileOver(L) == [lines: Seq(L \cup {Garbled}), open: BOOLEAN]

\* No line is changed or removed.
Keeps(file, next) ==
    \A i \in DOMAIN file.lines :
        i \in DOMAIN next.lines /\ next.lines[i] = file.lines[i]

\* An append that succeeds leaves a file whose last line is whole.
LEMMA AppendedFile ==
    ASSUME NEW L, NEW file \in FileOver(L), file.open => file.lines # << >>,
           NEW line \in L
    PROVE  /\ Appended(file, line) \in FileOver(L)
           /\ ~Appended(file, line).open
<1> DEFINE lines == file.lines
<1>1. lines \in Seq(L \cup {Garbled}) /\ file.open \in BOOLEAN
  BY DEF FileOver
<1>2. CASE file.open
  <2>1. Len(lines) \in 1..Len(lines)
    BY <1>1, <1>2
  <2>2. [lines EXCEPT ![Len(lines)] = Garbled] \in Seq(L \cup {Garbled})
    BY <1>1, <2>1, ExceptSeq
  <2> QED
    BY <1>2, <2>2 DEF Appended, FileOver
<1>3. CASE ~file.open
  <2>1. Append(lines, line) \in Seq(L \cup {Garbled})
    BY <1>1, AppendProperties
  <2> QED
    BY <1>3, <2>1 DEF Appended, FileOver
<1> QED
  BY <1>1, <1>2, <1>3

\* An append that raises leaves a file too, torn at the end at worst.
LEMMA AfterFaultFile ==
    ASSUME NEW L, NEW file \in FileOver(L), file.open => file.lines # << >>,
           NEW line \in L, NEW fault \in AppendFault
    PROVE  /\ AfterFault(file, line, fault) \in FileOver(L)
           /\ AfterFault(file, line, fault).open
                => AfterFault(file, line, fault).lines # << >>
<1> DEFINE lines == file.lines
<1>1. lines \in Seq(L \cup {Garbled}) /\ file.open \in BOOLEAN
  BY DEF FileOver
<1>2. Append(lines, Garbled) \in Seq(L \cup {Garbled}) /\ Append(lines, Garbled) # << >>
  <2>1. Garbled \in L \cup {Garbled}
    OBVIOUS
  <2> HIDE DEF lines
  <2> QED
    BY <1>1, <2>1, AppendProperties
<1>3. TornAppended(file) \in FileOver(L) /\ TornAppended(file).lines # << >>
  BY <1>1, <1>2 DEF TornAppended, FileOver
<1> QED
  BY <1>3, AppendedFile DEF AfterFault, AppendFault

\* A sequence keeps its elements when one is appended, and has one more.
LEMMA AppendKeeps ==
    ASSUME NEW S, NEW seq \in Seq(S), NEW elt \in S
    PROVE  /\ Append(seq, elt) \in Seq(S)
           /\ Len(Append(seq, elt)) = Len(seq) + 1
           /\ \A i \in DOMAIN seq : /\ i \in DOMAIN Append(seq, elt)
                                   /\ Append(seq, elt)[i] = seq[i]
           /\ Append(seq, elt) # << >>
           /\ Append(seq, elt)[Len(Append(seq, elt))] = elt
           /\ \A i \in DOMAIN Append(seq, elt) :
                 i \in DOMAIN seq \/ i = Len(seq) + 1
BY AppendProperties

\* A line that reaches the file, or a part of one, changes no line that is
\* there: an unfinished one stays garbled.  What is new is the line itself or
\* garbled, at the end.
LEMMA WritesKeep ==
    ASSUME NEW L, NEW file \in FileOver(L), TornTail(file), NEW line \in L,
           NEW next,
           \/ next = Appended(file, line)
           \/ \E fault \in AppendFault : next = AfterFault(file, line, fault)
    PROVE  /\ Keeps(file, next) /\ TornTail(next)
           /\ \A i \in DOMAIN next.lines :
                 \/ i \in DOMAIN file.lines
                 \/ i = Len(file.lines) + 1 /\ next.lines[i] \in {line, Garbled}
<1> DEFINE lines == file.lines
           S     == L \cup {Garbled}
           New(after) ==
              \A i \in DOMAIN after.lines :
                 \/ i \in DOMAIN lines
                 \/ i = Len(lines) + 1 /\ after.lines[i] \in {line, Garbled}
<1>1. lines \in Seq(S) /\ line \in S /\ Garbled \in S /\ file.open \in BOOLEAN
  BY DEF FileOver
<1>2. ASSUME NEW elt \in S
      PROVE  /\ Append(lines, elt) \in Seq(S)
             /\ Len(Append(lines, elt)) = Len(lines) + 1
             /\ \A i \in DOMAIN lines : /\ i \in DOMAIN Append(lines, elt)
                                       /\ Append(lines, elt)[i] = lines[i]
             /\ Append(lines, elt) # << >>
             /\ Append(lines, elt)[Len(Append(lines, elt))] = elt
             /\ \A i \in DOMAIN Append(lines, elt) :
                   i \in DOMAIN lines \/ i = Len(lines) + 1
  <2> HIDE DEF lines, S
  <2> QED
    BY <1>1, AppendKeeps
<1>3. /\ Keeps(file, Appended(file, line)) /\ TornTail(Appended(file, line))
      /\ New(Appended(file, line))
  <2>1. CASE file.open
    <3>1. lines[Len(lines)] = Garbled
      BY <2>1 DEF TornTail
    <3>2. [lines EXCEPT ![Len(lines)] = Garbled] = lines
      BY <1>1, <3>1
    <3> QED
      BY <2>1, <3>2 DEF Appended, Keeps, TornTail
  <2>2. CASE ~file.open
    BY <1>1, <1>2, <2>2 DEF Appended, Keeps, TornTail
  <2> QED
    BY <2>1, <2>2
<1>4. /\ Keeps(file, TornAppended(file)) /\ TornTail(TornAppended(file))
      /\ New(TornAppended(file))
  <2>1. CASE file.open
    BY <2>1 DEF TornAppended, Keeps, TornTail
  <2>2. CASE ~file.open
    BY <1>1, <1>2, <2>2 DEF TornAppended, Keeps, TornTail
  <2> QED
    BY <2>1, <2>2
<1>5. Keeps(file, file) /\ New(file)
  BY DEF Keeps
<1> QED
  BY <1>3, <1>4, <1>5 DEF AfterFault, AppendFault

\* An append to a file without an unfinished line puts the line at the end.
LEMMA AppendedLine ==
    ASSUME NEW L, NEW file \in FileOver(L), ~file.open, NEW line \in L
    PROVE  /\ Len(file.lines) + 1 \in DOMAIN Appended(file, line).lines
           /\ Appended(file, line).lines[Len(file.lines) + 1] = line
<1> DEFINE lines == file.lines
           S     == L \cup {Garbled}
<1>1. lines \in Seq(S) /\ line \in S
  BY DEF FileOver
<1>2. Appended(file, line).lines = Append(lines, line)
  BY DEF Appended
<1>3. /\ Append(lines, line) \in Seq(S)
      /\ Len(Append(lines, line)) = Len(lines) + 1
      /\ Append(lines, line)[Len(Append(lines, line))] = line
  <2> HIDE DEF lines, S
  <2> QED
    BY <1>1, AppendKeeps
<1> HIDE DEF lines, S
<1>4. Len(lines) + 1 \in DOMAIN Append(lines, line)
  BY <1>1, <1>3
<1> QED
  BY <1>2, <1>3, <1>4 DEF lines

=============================================================================
