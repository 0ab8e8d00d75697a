------------------------- MODULE AuditedDisclosure -------------------------
(***************************************************************************)
(* What audited restoration promises, without saying how: a ledger on      *)
(* which a call is first intended and later closed, and disclosures that   *)
(* only reach authorised calls and never run ahead of the ledger.          *)
(*                                                                         *)
(* A closed call need not have been disclosed: the caller may be gone, or  *)
(* the ledger may have failed it after the entry landed.  The converse is  *)
(* the promise.                                                            *)
(***************************************************************************)
CONSTANT Call

VARIABLES
    authorised,  \* the calls that pass every gate
    intended,    \* the calls whose intent is on the ledger
    closed,      \* the calls whose result is on the ledger
    disclosed    \* the calls that were handed private entries

vars == <<authorised, intended, closed, disclosed>>

Init ==
    /\ authorised \subseteq Call
    /\ intended = {}
    /\ closed = {}
    /\ disclosed = {}

Intend(c) ==
    /\ c \in authorised \ intended
    /\ intended' = intended \cup {c}
    /\ UNCHANGED <<authorised, closed, disclosed>>

Close(c) ==
    /\ c \in intended \ closed
    /\ closed' = closed \cup {c}
    /\ disclosed' \in {disclosed, disclosed \cup {c}}
    /\ UNCHANGED <<authorised, intended>>

Next == \E c \in Call : Intend(c) \/ Close(c)

Spec == Init /\ [][Next]_vars

\* Nobody is handed an entry who was not authorised, intended and closed.
Promise == disclosed \subseteq closed /\ closed \subseteq intended /\ intended \subseteq authorised

=============================================================================
