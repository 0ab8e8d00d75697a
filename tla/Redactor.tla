------------------------------ MODULE Redactor ------------------------------
(***************************************************************************)
(* The pure functions on texts that the kernel is built from: the span     *)
(* proposers (span_proposer.py, over the reply vllm_backend.py makes of a  *)
(* request), redactor.redact, Validator.validate, and the resolver, search *)
(* and snippet of search_gateway.py and boundary.search_request.           *)
(*                                                                         *)
(* A text is a sequence of characters.  The name of a kind counts as one   *)
(* character, and so does the digest of a value.  Offsets are the code's:  *)
(* a span starts at 0 and excludes its end.                                *)
(***************************************************************************)
EXTENDS Integers, Sequences, FiniteSets, SequencesExt, Loops

CONSTANTS
    Kind,    \* entity kinds
    Digest,  \* Digest[v]: the digest of v, cut to the length of a key
    Lower,   \* Lower[c]: what lower() makes of the character c
    Blank,   \* the white space
    Window   \* how much text a snippet shows around its needle, halved

\* text[start:end], which stops where the text does.
Slice(text, start, end) ==
    SubSeq(text, start + 1, IF end < Len(text) THEN end ELSE Len(text))

At(text, part, i) == Slice(text, i, i + Len(part)) = part

Places(text, part) == {i \in 0 .. Len(text) : At(text, part, i)}

Occurs(part, text) == Places(text, part) # {}

\* text.lower(), for characters that stay one.
Lowered(text) ==
    [i \in DOMAIN text |-> IF text[i] \in DOMAIN Lower THEN Lower[text[i]] ELSE text[i]]

\* needle.lower() in text.lower()
Shows(needle, text) == Occurs(Lowered(needle), Lowered(text))

Before(spans, i, j) ==
    \/ spans[i].start < spans[j].start
    \/ spans[i].start = spans[j].start /\ i < j

\* The positions of the spans, by where they start and then by place: in the
\* k-th place is the span that k - 1 others come before.
ByStart(spans) ==
    [k \in DOMAIN spans |->
        CHOOSE i \in DOMAIN spans :
            Cardinality({j \in DOMAIN spans : Before(spans, j, i)}) = k - 1]

-----------------------------------------------------------------------------
\* Span proposers.  A proposal is a list of spans, or the reason of an error.

Proposed(spans) == [reason |-> "none", spans |-> spans]
Raised(reason) == [reason |-> reason, spans |-> << >>]

\* pattern.finditer, for a pattern that is a word: from left to right, each
\* match after the end of the one before.
FindIter(text, word) ==
    Loop(LAMBDA found, i :
            IF /\ At(text, word, i - 1)
               /\ \A k \in DOMAIN found : found[k] + Len(word) <= i - 1
              THEN Append(found, i - 1) ELSE found,
         << >>, Len(text))

\* A match that overlaps a range claimed by an earlier rule is dropped.
Claim(claimed, start, rule) ==
    LET end == start + Len(rule.word) IN
    IF \E j \in DOMAIN claimed : start < claimed[j].end /\ end > claimed[j].start
      THEN claimed
      ELSE Append(claimed, [start |-> start, end |-> end, kind |-> rule.kind])

ClaimAll(text, claimed, rule) ==
    LET found == FindIter(text, rule.word) IN
    Loop(LAMBDA spans, k : Claim(spans, found[k], rule), claimed, Len(found))

\* DeterministicSpanProposer.propose.
ProposeByRules(text, rules) ==
    LET spans == Loop(LAMBDA claimed, r : ClaimAll(text, claimed, rules[r]),
                      << >>, Len(rules))
        order == ByStart(spans) IN
    Proposed([k \in DOMAIN spans |-> spans[order[k]]])

\* VLLMBackend.generate: the reason of its error, or "none".
generate(reply) ==
    CASE reply.transport = "timeout" -> "vllm_timeout"
      [] reply.transport = "error" -> "vllm_http_error"
      [] reply.transport = "answered" /\ reply.status = 429 -> "vllm_rate_limited"
      [] /\ reply.transport = "answered" /\ reply.status # 429
         /\ reply.oom /\ (reply.status >= 400 \/ reply.content # "none")
         -> "vllm_oom"
      [] /\ reply.transport = "answered" /\ reply.status # 429
         /\ reply.content = "none" \/ (reply.status >= 400 /\ ~reply.oom)
         -> "vllm_http_error"
      [] OTHER -> "none"

\* _parse_backend_response, and the bound that propose sets on the offsets.
IsSpanOf(text, element) ==
    /\ element.kind \in Kind
    /\ element.start \in Nat /\ element.end \in Nat
    /\ element.start < element.end
    /\ element.end <= Len(text)

\* InferenceBackedSpanProposer.propose: there is no other proposer to fall
\* back to, and one bad element spoils the list.
ProposeByBackend(text, reply) ==
    IF generate(reply) # "none" THEN Raised(generate(reply))
    ELSE IF /\ reply.content = "list"
            /\ \A k \in DOMAIN reply.elements : IsSpanOf(text, reply.elements[k])
      THEN Proposed(reply.elements)
      ELSE Raised("span_proposer_error")

-----------------------------------------------------------------------------
\* redact

_make_key(kind, value) == <<"<", kind, "_", Digest[value], ">">>

Nothing == [text |-> << >>, entities |-> << >>, private |-> << >>,
            cursor |-> 0, offset |-> 0]

\* The span is replaced; offset is what the keys so far have added to the
\* length of the text.
Replace(text, done, span) ==
    LET value == Slice(text, span.start, span.end)
        key   == _make_key(span.kind, value)
        start == span.start + done.offset IN
    [text |-> done.text \o Slice(text, done.cursor, span.start) \o key,
     entities |-> Append(done.entities,
                    [kind |-> span.kind, key |-> key, start |-> start,
                     end |-> start + Len(key)]),
     private |-> Append(done.private, [key |-> key, value |-> value, kind |-> span.kind]),
     cursor |-> span.end,
     offset |-> (done.offset + Len(key)) - Len(value)]

Joined(text, done) ==
    [text |-> done.text \o Slice(text, done.cursor, Len(text)),
     entities |-> done.entities, private |-> done.private]

Past(text, span) == span.start > Len(text) \/ span.end > Len(text)

\* A bug: what is skipped goes into the dictionary all the same.
Treat_records(text, done, span) ==
    LET new == Replace(text, done, span) IN
    IF span.start < done.cursor \/ Past(text, span)
      THEN [done EXCEPT !.private = new.private] ELSE new

\* What overlaps a span before it, or reaches past the text, is skipped.
Treat(text, done, span) ==
    IF span.start < done.cursor \/ Past(text, span)
      THEN done ELSE Replace(text, done, span)

\* A bug: the spans are taken in the order they come in.
redact_unsorted(text, spans) ==
    Joined(text, Loop(LAMBDA done, k : Treat(text, done, spans[k]),
                      Nothing, Len(spans)))

\* By start, and in their order where that is the same.
redact(text, spans) ==
    LET order == ByStart(spans) IN
    Joined(text, Loop(LAMBDA done, k : Treat(text, done, spans[order[k]]),
                      Nothing, Len(spans)))

-----------------------------------------------------------------------------
\* Validator.validate

HasKeyShape(item) ==
    /\ Len(item.key) = 5
    /\ <<item.key[1], item.key[3], item.key[5]>> = <<"<", "_", ">">>
    /\ item.key[2] = item.kind

Keys(items) == {items[k].key : k \in DOMAIN items}

Validates(manifest) ==
    /\ \A k \in DOMAIN manifest.private :
          manifest.private[k].value # << >>
              => ~Occurs(manifest.private[k].value, manifest.text)
    /\ \A key \in Keys(manifest.entities) \cup Keys(manifest.private) :
          Occurs(key, manifest.text)
    /\ Keys(manifest.entities) = Keys(manifest.private)
    /\ \A k \in DOMAIN manifest.entities : HasKeyShape(manifest.entities[k])
    /\ \A k \in DOMAIN manifest.private : HasKeyShape(manifest.private[k])

-----------------------------------------------------------------------------
\* QueryResolver.  Its map is the set of the pairs registered.

ValuesOf(map) == {pair.value : pair \in map}

KeyOf(map, value) == (CHOOSE pair \in map : pair.value = value).key

\* A bug: a value that is known is refused, with the same key, too.
register_once(map, entry) ==
    IF entry.value = << >> \/ entry.value \in ValuesOf(map)
      THEN [raised |-> TRUE, map |-> map]
      ELSE [raised |-> FALSE, map |-> map \cup {[value |-> entry.value, key |-> entry.key]}]

\* An empty value and a second key for a value raise ValueError.
register(map, entry) ==
    IF \/ entry.value = << >>
       \/ entry.value \in ValuesOf(map) /\ KeyOf(map, entry.value) # entry.key
      THEN [raised |-> TRUE, map |-> map]
      ELSE [raised |-> FALSE, map |-> map \cup {[value |-> entry.value, key |-> entry.key]}]

\* The first entry that raises ends the call; what came before it stays.
register_entries(map, entries) ==
    Loop(LAMBDA done, k : IF done.raised THEN done ELSE register(done.map, entries[k]),
         [raised |-> FALSE, map |-> map], Len(entries))

\* A bug: the shortest value that matches is taken.
Longest_not(values) == CHOOSE v \in values : \A w \in values : Len(w) >= Len(v)

Longest(values) == CHOOSE v \in values : \A w \in values : Len(w) <= Len(v)

ValuesAt(map, query, i) == {v \in ValuesOf(map) : At(query, v, i)}

\* The turn of translate at offset i: skipped, copied or replaced by a key.
TranslateAt(map, query, done, i) ==
    LET here == ValuesAt(map, query, i)
        key  == KeyOf(map, Longest(here)) IN
    IF i < done.next THEN done
    ELSE IF here = {}
      THEN [done EXCEPT !.residual = Append(@, query[i + 1])]
      ELSE [done EXCEPT !.terms = IF key \in ToSet(@) THEN @ ELSE Append(@, key),
                        !.next = i + Len(Longest(here))]

\* From left to right, the longest registered value first.
translate(map, query) ==
    LET done == Loop(LAMBDA done, k : TranslateAt(map, query, done, k - 1),
                     [terms |-> << >>, residual |-> << >>, next |-> 0], Len(query)) IN
    [terms |-> done.terms, residual |-> done.residual]

-----------------------------------------------------------------------------
\* Search, with a resolver

\* The terms, then the residual unless it is white space.
Needles(map, query) ==
    LET resolved == translate(map, query) IN
    IF ToSet(resolved.residual) \subseteq {Blank}
      THEN resolved.terms ELSE Append(resolved.terms, resolved.residual)

\* search_request computes them anew; nothing was found where it falls back.
SnippetNeedles(map, query) ==
    IF Needles(map, query) = << >> THEN <<query>> ELSE Needles(map, query)

Least(set) == CHOOSE i \in set : \A j \in set : i <= j

\* _redacted_snippet: the text around the first needle that is in it.
Snippet(text, needles) ==
    LET found == {k \in DOMAIN needles : needles[k] # << >> /\ Shows(needles[k], text)}
        needle == needles[Least(found)]
        at == Least(Places(Lowered(text), Lowered(needle)))
        half == Window \div 2 IN
    IF found = {} THEN Slice(text, 0, Window)
    ELSE Slice(text, IF at < half THEN 0 ELSE at - half, at + Len(needle) + half)

=============================================================================
