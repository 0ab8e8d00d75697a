---------------------------- MODULE MCRedaction ----------------------------
(* All pairs of spans over short texts, or a reply of the backend, each    *)
(* beside one of a few other documents.                                    *)
EXTENDS Redaction, TLC

CONSTANTS d1, d2

MCKind == {"person", "org"}

MCChar == {"a", "A", "b", "0", " "}

MCLower == [c \in MCChar |-> IF c = "A" THEN "a" ELSE c]

\* Two values share a digest, and a value may be a part of a key.
MCDigest == [v \in BoundedSeq(MCChar, 3) |-> IF v = <<"a">> \/ Len(v) = 3 THEN "1" ELSE "0"]

MCText == {<<"a", "b", "a">>, <<"0", "b">>}

\* Every span of a text, the empty ones, and two that reach past it.
MCSpan(text) ==
    {[start |-> s, end |-> e, kind |-> kind] :
        s \in 0 .. Len(text), e \in 0 .. Len(text) + 1, kind \in MCKind}

MCSpans(text) ==
    BoundedSeq({span \in MCSpan(text) : span.start <= span.end}, 2)

MCCaller ==
    UNION {{[by |-> "caller", text |-> text, spans |-> spans] : spans \in MCSpans(text)} :
              text \in MCText}

MCRules ==
    <<[word |-> <<"a", "b">>, kind |-> "org"], [word |-> <<"a">>, kind |-> "person"],
      [word |-> <<"b", "a">>, kind |-> "person"]>>

Reply == [transport |-> "answered", status |-> 200, oom |-> FALSE,
          content |-> "list", elements |-> << >>]

Element(s, e, kind) == [start |-> s, end |-> e, kind |-> kind]

MCReply ==
    {[Reply EXCEPT !.elements = <<Element(1, 3, "org"), Element(0, 2, "person")>>],
     [Reply EXCEPT !.elements = <<Element(0, 1, "org"), Element(2, 3, "org")>>],
     [Reply EXCEPT !.elements = <<Element(0, 1, "org"), Element(1, 4, "org")>>],
     [Reply EXCEPT !.elements = <<Element(1, 1, "org")>>],
     [Reply EXCEPT !.elements = <<Element(0, 1, "thing")>>],
     [Reply EXCEPT !.content = "prose"],
     [Reply EXCEPT !.content = "none"],
     [Reply EXCEPT !.oom = TRUE, !.content = "prose"],
     [Reply EXCEPT !.transport = "timeout"],
     [Reply EXCEPT !.transport = "error"],
     [Reply EXCEPT !.status = 429, !.content = "none"],
     [Reply EXCEPT !.status = 500, !.content = "none", !.oom = TRUE],
     [Reply EXCEPT !.status = 500, !.content = "none"]}

MCOther ==
    {[by |-> "rules", text |-> <<"a", "b", "A">>],
     [by |-> "rules", text |-> <<"b", "a", "a">>],
     [by |-> "caller", text |-> <<"a", "b">>,
      spans |-> <<[start |-> 0, end |-> 2, kind |-> "org"]>>],
     [by |-> "caller", text |-> <<"b", " ", "a">>,
      spans |-> <<[start |-> 2, end |-> 3, kind |-> "org"],
                  [start |-> 0, end |-> 1, kind |-> "org"]>>]}

MCBackend == {[by |-> "backend", text |-> <<"a", "b", "a">>, reply |-> reply] : reply \in MCReply}

MCInputs == {d1 :> x @@ d2 :> y : x \in MCCaller \cup MCBackend, y \in MCOther}

MCQuery == {<<"a", "a", "b", "b">>, <<"b", " ", "0">>, <<" ">>, <<"a", "b", " ", "a">>, <<"A">>}

=============================================================================
