---------------------------- MODULE SearchIndex ----------------------------
(***************************************************************************)
(* search_gateway.SearchGateway: the rows a gateway holds, what it         *)
(* persists of them and what a search returns.                             *)
(*                                                                         *)
(* A row is a manifest: a document and the edition of its text.  The       *)
(* redacted text of an edition is the set of the needles found in it.  A   *)
(* query is what QueryResolver.translate makes of it: the translated terms *)
(* and the residual, in this order; without a resolver it is the one       *)
(* needle that was asked.                                                  *)
(*                                                                         *)
(* The module has no state of its own: gateways live in the processes of   *)
(* those who use it.                                                       *)
(***************************************************************************)
EXTENDS Naturals, FiniteSets, Sequences, SequencesExt, Loops

CONSTANTS
    Doc,         \* document ids
    MaxEdition,  \* bound on how often a document is written anew
    Needle,      \* what may be searched for
    Text         \* Text[e]: the needles found in edition e of any document

ASSUME TextAssumption ==
    /\ MaxEdition \in Nat \ {0}
    /\ Text \in [1..MaxEdition -> SUBSET Needle]

Row == [doc: Doc, edition: 1..MaxEdition]

-----------------------------------------------------------------------------
\* snapshot

\* The elements of a sequence at some of its indexes, in their order.
Picked(seq, indexes) ==
    LET Nth(k) == CHOOSE i \in indexes : Cardinality({j \in indexes : j <= i}) = k IN
    [k \in 1..Cardinality(indexes) |-> seq[Nth(k)]]

\* A bug: the first row of a document is kept.
Latest_first(rows) ==
    Picked(rows, {i \in DOMAIN rows :
                    \A j \in DOMAIN rows : rows[j].doc = rows[i].doc => i <= j})

\* No row after it is one of the same document.
LastRow(rows, i) == \A j \in DOMAIN rows : rows[j].doc = rows[i].doc => j <= i

\* One row for each document, the last one, in the order of these.
Latest(rows) == Picked(rows, {i \in DOMAIN rows : LastRow(rows, i)})

-----------------------------------------------------------------------------
\* search

Matches(row, needle) == needle \in Text[row.edition]

FirstOf(rows, top_k) == SubSeq(rows, 1, IF Len(rows) < top_k THEN Len(rows) ELSE top_k)

\* Without a resolver: one scan.
SearchPlain(rows, needle, top_k) ==
    FirstOf(Picked(rows, {i \in DOMAIN rows : Matches(rows[i], needle)}), top_k)

\* A bug: a document is returned once for every needle.
SearchResolved_each(rows, needles, top_k) ==
    FirstOf(Loop(LAMBDA hits, k :
                    hits \o Picked(rows, {i \in DOMAIN rows : Matches(rows[i], needles[k])}),
                 << >>, Len(needles)),
            top_k)

Found(hits, row) == \E i \in DOMAIN hits : hits[i].doc = row.doc

\* The scan for a needle; a document that was found is passed over.
Scan(rows, found, needle) ==
    Loop(LAMBDA hits, i :
            IF Matches(rows[i], needle) /\ ~Found(hits, rows[i])
              THEN Append(hits, rows[i]) ELSE hits,
         found, Len(rows))

\* With a resolver: one scan for each needle.
SearchResolved(rows, needles, top_k) ==
    FirstOf(Loop(LAMBDA hits, k : Scan(rows, hits, needles[k]), << >>, Len(needles)),
            top_k)

=============================================================================
