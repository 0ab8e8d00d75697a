----------------------------- MODULE Redaction -----------------------------
(***************************************************************************)
(* pipeline.process_document and what a gateway with a resolver makes of   *)
(* the documents: propose, redact, validate, commit, index, search.        *)
(*                                                                         *)
(* One process works on several documents, one call after the other, in    *)
(* any order; each call is one step.  The vault and the failures of its    *)
(* files are module Vault's.  A search changes nothing: it is an operator, *)
(* and the properties are about what it answers in every state.            *)
(***************************************************************************)
EXTENDS Redactor

CONSTANTS
    Document, \* document ids
    Char,    \* what the texts are made of
    Inputs,  \* what the documents may be: texts, with the sources of their spans
    Rules,   \* the rules of the deterministic proposer
    Query,   \* what is searched for
    MaxRows  \* bound on the rows of the gateway

\* A list of spans whose offsets are naturals, and in order.
AreSpans(spans) ==
    /\ spans \in Seq(ToSet(spans))
    /\ \A k \in DOMAIN spans :
          /\ spans[k].start \in Nat /\ spans[k].end \in Nat
          /\ spans[k].start <= spans[k].end
          /\ spans[k].kind \in Kind

ASSUME RedactionAssumption ==
    /\ MaxRows \in Nat /\ Window \in Nat
    /\ Query \subseteq Seq(Char)
    /\ Lower \in [Char -> Char]
    \* A pattern is a word: no match of a default rule is empty.
    /\ Rules \in Seq(ToSet(Rules))
    /\ \A r \in DOMAIN Rules :
          Rules[r].word \in Seq(Char) \ {<< >>} /\ Rules[r].kind \in Kind
    /\ \A choice \in Inputs : \A d \in Document :
          LET x == choice[d] IN
          /\ x.text \in Seq(Char)
          /\ x.by \in {"caller", "rules", "backend"}
          \* SpanSpec: the spans of a caller are ordered pairs of naturals.
          /\ x.by = "caller" => AreSpans(x.spans)
          \* json.loads: what a backend lists is of any kind.
          /\ x.by = "backend" => x.reply.elements \in Seq(ToSet(x.reply.elements))

VARIABLES
    input,   \* input[d]: what is made document d
    result,  \* result[d]: what process_document has done with it
    rows,    \* the rows of the gateway
    indexed, \* indexed[d]: how its last index call with entries ended
    map      \* the map of the resolver

redactionVars == <<input, result, rows, indexed, map>>

-----------------------------------------------------------------------------

NoResult == [status |-> "new", spans |-> << >>, text |-> << >>,
             entities |-> << >>, private |-> << >>]

Failed(why) == [NoResult EXCEPT !.status = why]

RedactionInit ==
    /\ input \in Inputs
    /\ result = [d \in Document |-> NoResult]
    /\ rows = << >>
    /\ indexed = [d \in Document |-> "no"]
    /\ map = {}

\* redact, validate and commit what was proposed.  A manifest that is refused
\* is kept here for the properties: the code drops it.
Settled(d, proposal) ==
    LET manifest == redact(input[d].text, proposal.spans) IN
    IF proposal.reason # "none" THEN Failed(proposal.reason)
    ELSE [status |-> IF Validates(manifest) THEN "committed" ELSE "validation_error",
          spans |-> proposal.spans, text |-> manifest.text,
          entities |-> manifest.entities, private |-> manifest.private]

Process(d, by, proposal) ==
    /\ result[d].status = "new"
    /\ input[d].by = by
    /\ result' = [result EXCEPT ![d] = Settled(d, proposal)]
    /\ UNCHANGED <<input, rows, indexed, map>>

\* process_document_request: spans, and no proposer.
ProcessSpans(d) ==
    Process(d, "caller", IF input[d].spans = << >> THEN Raised("value_error")
                         ELSE Proposed(input[d].spans))

ProcessByRules(d) == Process(d, "rules", ProposeByRules(input[d].text, Rules))

ProcessByBackend(d) ==
    Process(d, "backend", ProposeByBackend(input[d].text, input[d].reply))

\* SearchGateway.index without entries.
Index(d) ==
    /\ result[d].status = "committed"
    /\ Len(rows) < MaxRows
    /\ rows' = Append(rows, d)
    /\ UNCHANGED <<input, result, indexed, map>>

\* With the entries: the row is there even if an entry cannot be registered.
IndexEntries(d) ==
    LET registered == register_entries(map, result[d].private) IN
    /\ result[d].status = "committed"
    /\ Len(rows) < MaxRows
    /\ rows' = Append(rows, d)
    /\ map' = registered.map
    /\ indexed' = [indexed EXCEPT ![d] = IF registered.raised THEN "raised" ELSE "yes"]
    /\ UNCHANGED <<input, result>>

RedactionNext ==
    \E d \in Document :
        \/ ProcessSpans(d)
        \/ ProcessByRules(d)
        \/ ProcessByBackend(d)
        \/ Index(d)
        \/ IndexEntries(d)

RedactionSpec == RedactionInit /\ [][RedactionNext]_redactionVars

-----------------------------------------------------------------------------
\* SearchGateway.search

\* The documents that show the needle come after the hits so far, once each.
ScanRow(hits, d, needle) ==
    IF d \notin ToSet(hits) /\ Shows(needle, result[d].text)
      THEN Append(hits, d) ELSE hits

ScanRows(hits, needle) ==
    Loop(LAMBDA found, i : ScanRow(found, rows[i], needle), hits, Len(rows))

\* Needle by needle; the code returns when it has top_k hits, which is to cut
\* off what it would have found after them.
Search(query, top_k) ==
    LET needles == Needles(map, query) IN
    Slice(Loop(LAMBDA hits, k : ScanRows(hits, needles[k]), << >>, Len(needles)),
          0, top_k)

-----------------------------------------------------------------------------
\* Properties

Committed == {d \in Document : result[d].status = "committed"}

\* What redact makes is refused only for a value that its text still shows, be
\* it a second occurrence, a part of a key or what two pieces make together:
\* whatever spans there were, keys and dictionary are never at odds.
RefusedForCause ==
    \A d \in Document : result[d].status = "validation_error" =>
        \E k \in DOMAIN result[d].private :
            LET value == result[d].private[k].value IN
            value # << >> /\ Occurs(value, result[d].text)

\* Where an entity says its key is, the key is, whatever the spans were; and
\* with the values in their places the text is the raw text again.
Restored(text, entities, private) ==
    Loop(LAMBDA done, k :
            [text |-> done.text \o Slice(text, done.cursor, entities[k].start)
                        \o private[k].value,
             cursor |-> entities[k].end],
         [text |-> << >>, cursor |-> 0], Len(entities))

EntitiesPointAtKeys ==
    \A d \in Committed :
        LET r == result[d]
            restored == Restored(r.text, r.entities, r.private) IN
        /\ \A k \in DOMAIN r.entities :
              Slice(r.text, r.entities[k].start, r.entities[k].end) = r.entities[k].key
        /\ restored.text \o Slice(r.text, restored.cursor, Len(r.text)) = input[d].text

\* A span that lies in the text is replaced, unless one that was replaced
\* starts no later and reaches into it; of the spans of the rules, all are.
Replaced(d, span) ==
    \E k \in DOMAIN result[d].private :
        /\ result[d].private[k].kind = span.kind
        /\ result[d].private[k].value = Slice(input[d].text, span.start, span.end)

SkippedOnlyIfOverlapped ==
    \A d \in Committed : \A k \in DOMAIN result[d].spans :
        LET span == result[d].spans[k] IN
        \/ Replaced(d, span)
        \/ input[d].by # "rules" /\ Past(input[d].text, span)
        \/ /\ input[d].by # "rules"
           /\ \E other \in ToSet(result[d].spans) :
                 /\ Replaced(d, other)
                 /\ other.start <= span.start /\ span.start < other.end

\* What redaction did to a committed document is accounted for: its entities
\* give the text back, and no span was passed over without an overlap.
EntitiesAccounted == EntitiesPointAtKeys /\ SkippedOnlyIfOverlapped

\* Whoever asks for a private value of a document that was indexed with its
\* entries finds the document, or as many others as were asked for: and each
\* of the hits is there once and shows the key of the value, whatever else was
\* indexed before or after.
AskedValueFindsDocument ==
    \A d \in Document : indexed[d] = "yes" =>
        \A k \in DOMAIN result[d].private : \A top_k \in 1..MaxRows :
            LET entry == result[d].private[k]
                hits == Search(entry.value, top_k) IN
            /\ d \in ToSet(hits) \/ Len(hits) = top_k
            /\ \A i \in DOMAIN hits :
                  /\ Shows(entry.key, result[hits[i]].text)
                  /\ \A j \in DOMAIN hits : i # j => hits[i] # hits[j]

\* The index refuses the entries of a document only for an empty value, or
\* for a value that another document, or this one, has under another key.
IndexRaisesForCause ==
    \A d \in Document : indexed[d] = "raised" =>
        \E k \in DOMAIN result[d].private :
            LET entry == result[d].private[k] IN
            \/ entry.value = << >>
            \/ \E other \in Committed : \E j \in DOMAIN result[other].private :
                  /\ result[other].private[j].value = entry.value
                  /\ result[other].private[j].kind # entry.kind

\* The snippet of a hit shows one of the needles it was found by, up to case,
\* although they are computed twice.
SnippetShowsNeedle ==
    \A query \in Query :
        LET needles == Needles(map, query) IN
        \A d \in ToSet(Search(query, MaxRows)) :
            \E k \in DOMAIN needles :
                Shows(needles[k], Snippet(result[d].text, SnippetNeedles(map, query)))

\* Who asks for a private value is shown where it was, by its key, unless as
\* many other documents that have the key come first as were asked for.
AskedValueIsShown == AskedValueFindsDocument /\ SnippetShowsNeedle

-----------------------------------------------------------------------------
\* What the documentation says and the code does not do

\* "Never contains a raw value that was registered with the resolver": what a
\* translation leaves of a query.
ResidualHidesValues ==
    \A query \in Query : \A value \in ValuesOf(map) :
        ~Occurs(value, translate(map, query).residual)

=============================================================================
