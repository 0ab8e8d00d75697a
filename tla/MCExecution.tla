---------------------------- MODULE MCExecution ----------------------------
(* Two concurrent jobs on one document, and values of every sort.          *)
EXTENDS Execution, TLC

CONSTANTS c1, c2, name, short, quoted, edge

MCValue == {name, short, quoted, edge}
MCOpaqueWord == {".", "..", "doc", "other"}

\* The second commit no longer finds the name, and shows it.
MCVersion ==
    {[entries |-> {name, short, quoted, edge}, clear |-> {}],
     [entries |-> {short}, clear |-> {name}]}

Locator(kind, id) ==
    <<"private://", "agent_redacted", "/", kind, "/", id>>

Summary ==
    [typed |-> TRUE, job |-> "summarise_private_minutes", entrance |-> "boundary",
     roots |-> "tenant", scope |-> "private_boundary",
     target |-> Locator("manifest", "doc"), long |-> FALSE,
     body |-> [given |-> FALSE, keys |-> {}, clear |-> {}],
     mentions |-> {name, quoted}, chance |-> {}, printed |-> {}]

Letter ==
    [Summary EXCEPT !.job = "generate_letter_from_private_template",
                    !.body = [given |-> TRUE, keys |-> {short}, clear |-> {name}]]

\* Both templates, with values in each place the scrubber looks at ...
MCRuns ==
    {Summary, Letter,
     [Summary EXCEPT !.chance = {short}, !.roots = "vault_root", !.printed = {edge}],
     [Letter EXCEPT !.body.given = FALSE],
     [Letter EXCEPT !.body.clear = {edge}, !.mentions = {edge}],
     [Letter EXCEPT !.target = Locator("manifest", "other") \o <<"#", "doc">>]}

\* ... and one request for each way to be turned away.
MCRefusals ==
    {[Summary EXCEPT !.roots = "both"],
     [Letter EXCEPT !.roots = "neither"],
     [Summary EXCEPT !.typed = FALSE, !.mentions = {}],
     [Summary EXCEPT !.job = "render_private_pdf"],
     [Summary EXCEPT !.scope = "ordinary_agent"],
     [Letter EXCEPT !.entrance = "facade"],
     [Summary EXCEPT !.target = Locator("manifest", "..")],
     [Summary EXCEPT !.target = Locator("search_hit", "doc")]}

MCRequests == MCRuns \cup MCRefusals

\* One call makes any of them beside one that writes a letter.
MCMayAsk == c1 :> MCRequests \ {Letter} @@ c2 :> {Letter}

\* Jobs on a document whose id takes up all the room.
MCLong == {[Summary EXCEPT !.long = TRUE]}

MCLongMayAsk == [c \in {c1, c2} |-> MCLong]

=============================================================================
