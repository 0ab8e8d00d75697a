--------------------------- MODULE MCRestoration ---------------------------
(* Two concurrent calls on one document, two entries of different kinds.   *)
EXTENDS Restoration, TLC

CONSTANTS c1, c2, d1, k1, k2

e1 == [key |-> k1, kind |-> "PERSON"]
e2 == [key |-> k2, kind |-> "EMAIL"]

MCEntry == {e1, e2}
MCDictionaries == {{e1, e2}, {e2}}

\* The default row is permissive; "strict" has all three requirements.
MCTable ==
    [rows |->
        ("open" :> [production_scopes |-> {"*"},
                    require_authorization_decision |-> FALSE,
                    approval_ticket_pattern |-> None]
         @@ "strict" :> [production_scopes |-> {"prod"},
                         require_authorization_decision |-> TRUE,
                         approval_ticket_pattern |-> {"t1"}]),
     default |-> "open",
     route_unknown |-> FALSE]

NoneReserved ==
    [policy_profile |-> None, production_scope |-> None,
     authorization_decision |-> None, approval_ticket |-> None]

StrictReserved ==
    [policy_profile |-> "strict", production_scope |-> "prod",
     authorization_decision |-> "ok", approval_ticket |-> "t1"]

Ask(keys, kinds, reserved) ==
    [valid |-> TRUE, target |-> "document_id", doc |-> d1,
     scope |-> "PRIVATE_BOUNDARY", keys |-> keys, kinds |-> kinds,
     reserved |-> reserved]

\* By key, by kind, by both under the strict row; and one request for each
\* of the gates.
MCRequests ==
    {Ask({k1}, {}, NoneReserved),
     Ask({}, {"EMAIL"}, NoneReserved),
     Ask({k1, k2}, {"EMAIL"}, StrictReserved),
     [Ask({k1}, {}, NoneReserved) EXCEPT !.valid = FALSE],
     [Ask({k1}, {}, NoneReserved) EXCEPT !.target = "other_handle"],
     [Ask({k1}, {}, NoneReserved) EXCEPT !.scope = "ORDINARY_AGENT"],
     Ask({k1}, {}, [StrictReserved EXCEPT !.approval_ticket = "t2"])}

=============================================================================
