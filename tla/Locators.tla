------------------------------ MODULE Locators ------------------------------
(***************************************************************************)
(* The grammar of public locators (build_locator and parse_locator in      *)
(* src/src/yomotsusaka/boundary.py):                                       *)
(*                                                                         *)
(*     private://<exposure_class>/<artifact_kind>/<opaque_id>[#<fragment>] *)
(*                                                                         *)
(* A text is a sequence of tokens: the scheme, the separators, and words.  *)
(* The separators are in no charset, so a text has one division into       *)
(* tokens.                                                                 *)
(***************************************************************************)
EXTENDS Naturals, Sequences

CONSTANTS
    OpaqueWord,    \* words that match _OPAQUE_ID_PATTERN
    FragmentWord,  \* those short enough for _FRAGMENT_PATTERN
    NoFragment     \* Python's None

Traversal == {".", ".."}

ASSUME LocatorAssumption ==
    /\ FragmentWord \subseteq OpaqueWord
    /\ Traversal \subseteq FragmentWord
    /\ NoFragment \notin OpaqueWord

ExposureClass ==
    {"agent_public", "agent_redacted", "private", "restricted", "never_expose"}

ArtifactKind ==
    {"manifest", "private_dict", "search_hit", "restoration_request",
     "status_report"}

OpaqueId == OpaqueWord \ Traversal
Fragment == (FragmentWord \ Traversal) \cup {NoFragment}

Parsed ==
    [exposure_class: ExposureClass, artifact_kind: ArtifactKind,
     opaque_id: OpaqueId, fragment: Fragment]

\* What parse_locator answers to a text outside the grammar.
Malformed ==
    [exposure_class |-> "none", artifact_kind |-> "none",
     opaque_id |-> NoFragment, fragment |-> NoFragment]

\* What build_locator returns where it does not raise ValueError.
build_locator(parts) ==
    <<"private://", parts.exposure_class, "/", parts.artifact_kind, "/",
      parts.opaque_id>>
    \o IF parts.fragment = NoFragment THEN << >> ELSE <<"#", parts.fragment>>

\* The text has the shape of _LOCATOR_PATTERN.
HasShape(text) ==
    /\ Len(text) \in {6, 8}
    /\ text[1] = "private://" /\ text[3] = "/" /\ text[5] = "/"
    /\ text[6] \in OpaqueWord
    /\ Len(text) = 8 => text[7] = "#" /\ text[8] \in FragmentWord

\* The pattern admits any word for the class and the kind, and the traversal
\* segments, which are then refused one by one.
parse_locator(text) ==
    IF /\ HasShape(text)
       /\ text[2] \in ExposureClass
       /\ text[4] \in ArtifactKind
       /\ text[6] \notin Traversal
       /\ Len(text) = 8 => text[8] \notin Traversal
      THEN [exposure_class |-> text[2], artifact_kind |-> text[4],
            opaque_id |-> text[6],
            fragment |-> IF Len(text) = 8 THEN text[8] ELSE NoFragment]
      ELSE Malformed

=============================================================================
