------------------------------ MODULE AuditLog ------------------------------
(***************************************************************************)
(* The JSONL audit file of one vault, <vault_root>/audit/restoration.jsonl. *)
(*                                                                         *)
(* Both writers of the file (boundary._append_restoration_audit and        *)
(* audit.write_record) open it in append mode, hand one whole line to the  *)
(* operating system and close it; nothing in the code ever truncates or    *)
(* rewrites it.  An append that raises OSError may have left none, some or *)
(* all of the line behind (a full disk writes what still fits), and        *)
(* nothing repairs it: when some of a line is left without its newline,    *)
(* the next append continues that line, and a reader finds neither.        *)
(*                                                                         *)
(* The module has no state of its own: the operators relate the file       *)
(* before an append to the file after it.  A file is a record of its lines *)
(* and of whether the last one lacks its newline.                          *)
(***************************************************************************)
EXTENDS Naturals, Sequences

CONSTANT
    Garbled  \* a line that is not valid JSON

EmptyFile == [lines |-> << >>, open |-> FALSE]

\* The whole line reaches the file.
Appended(file, line) ==
    [lines |-> IF file.open
                 THEN [file.lines EXCEPT ![Len(file.lines)] = Garbled]
                 ELSE Append(file.lines, line),
     open  |-> FALSE]

\* Some of the line, and not its newline, reaches the file.
TornAppended(file) ==
    [lines |-> IF file.open THEN file.lines ELSE Append(file.lines, Garbled),
     open  |-> TRUE]

\* What an append that raises OSError leaves, by the kind of the fault.
AppendFault == {"nothing", "partial", "all"}

AfterFault(file, line, fault) ==
    CASE fault = "nothing" -> file
      [] fault = "partial" -> TornAppended(file)
      [] fault = "all"     -> Appended(file, line)

\* An unfinished last line is no record of anything.
TornTail(file) ==
    file.open => file.lines # << >> /\ file.lines[Len(file.lines)] = Garbled

=============================================================================
