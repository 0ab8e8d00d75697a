------------------------------- MODULE Policy -------------------------------
(***************************************************************************)
(* The restoration policy table (src/src/yomotsusaka/policy.py).           *)
(*                                                                         *)
(* A table is a record: its rows by profile name, the name of the one row  *)
(* marked "default: true", and whether a profile the table does not        *)
(* declare is routed to that row (only the built-in default_local table    *)
(* does).  A regular expression is the set of the tickets it fully         *)
(* matches; the length limit on tickets is the set LongTicket.             *)
(***************************************************************************)

CONSTANTS
    None,             \* Python's None: a reserved request field left out
    Profile,          \* names of policy profiles
    ProductionScope,  \* values of production_scope, the wildcard "*" apart
    Authorization,    \* values of authorization_decision
    Ticket,           \* approval tickets
    LongTicket        \* those longer than _APPROVAL_TICKET_MAX_LEN

ASSUME NoneAssumption ==
    None \notin Profile \cup ProductionScope \cup Authorization \cup Ticket

Wildcard == "*"

Row ==
    [production_scopes              : SUBSET (ProductionScope \cup {Wildcard}),
     require_authorization_decision : BOOLEAN,
     approval_ticket_pattern        : {None} \cup SUBSET Ticket]

\* The four reserved fields of a request that evaluate() reads.
Reserved ==
    [policy_profile         : Profile \cup {None},
     production_scope       : ProductionScope \cup {None},
     authorization_decision : Authorization \cup {None},
     approval_ticket        : Ticket \cup {None}]

IsTable(t) ==
    /\ DOMAIN t.rows \subseteq Profile
    /\ \A p \in DOMAIN t.rows : t.rows[p] \in Row
    /\ t.default \in DOMAIN t.rows
    /\ t.route_unknown \in BOOLEAN

\* A row without production scopes accepts only a request that names none.
PermitsProductionScope(row, scope) ==
    \/ Wildcard \in row.production_scopes
    \/ scope = None /\ row.production_scopes = {}
    \/ scope # None /\ scope \in row.production_scopes

MeetsTicketPattern(row, ticket) ==
    \/ row.approval_ticket_pattern = None
    \/ /\ ticket # None
       /\ ticket \notin LongTicket
       /\ ticket \in row.approval_ticket_pattern

Declared(t, q) == q.policy_profile \in DOMAIN t.rows

MatchedProfile(t, q) ==
    IF Declared(t, q) THEN q.policy_profile ELSE t.default

\* The first requirement that fails is the one that is reported.
DenyReason(t, q) ==
    LET row == t.rows[MatchedProfile(t, q)] IN
    IF q.policy_profile # None /\ ~Declared(t, q) /\ ~t.route_unknown
      THEN "unknown_profile"
    ELSE IF ~PermitsProductionScope(row, q.production_scope)
      THEN "production_scope"
    ELSE IF row.require_authorization_decision /\ q.authorization_decision = None
      THEN "authorization_decision"
    ELSE IF ~MeetsTicketPattern(row, q.approval_ticket)
      THEN "approval_ticket"
    ELSE "permitted"

Permits(t, q) == DenyReason(t, q) = "permitted"

=============================================================================
