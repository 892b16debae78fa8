----------------------------- MODULE AgentCard -----------------------------
(***************************************************************************)
(* cA2A's declaration in an Agent Card: agent_extension_for_node,          *)
(* merge_agent_card and inspect_agent_card of transport/a2a_sdk.py, as     *)
(* constant-level operators.                                               *)
(*                                                                         *)
(* A card is its list of extensions.  An extension has a URI, a required   *)
(* flag, whether it has params nobody knows, and the requirement among its *)
(* params, which may be missing (None) or unsupported.                     *)
(***************************************************************************)
EXTENDS Integers, Sequences, FiniteSets

CONSTANT None   \* Python's None

RequirementValues == {"none", "any", "hardware"}

AgentExtensionForNode(requirement) ==
    [uri |-> "ca2a", required |-> FALSE, unknown |-> FALSE, requirement |-> requirement]

IsOurs(extension) == extension.uri = "ca2a"

(* The positions of our declarations, and the first of them. *)
Matching(extensions) == {n \in 1..Len(extensions) : IsOurs(extensions[n])}

First(matching) == CHOOSE n \in matching : \A k \in matching : n <= k

(* del extensions[n] *)
Without(extensions, n) ==
    [k \in 1..(Len(extensions) - 1) |->
        IF k < n THEN extensions[k] ELSE extensions[k + 1]]

(* Mutant: the duplicates are deleted from the front. *)
Collapse_Forward(extensions, duplicates) ==
    LET left[k \in 0..Len(extensions)] ==
            IF k = 0 THEN extensions
            ELSE IF k \in duplicates THEN Without(left[k - 1], k)
            ELSE left[k - 1]
    IN  left[Len(extensions)]

(* The duplicates are deleted from the end, so that no index moves. *)
Collapse(extensions, duplicates) ==
    LET last == Len(extensions)
        left[k \in 0..last] ==
            IF k = 0 THEN extensions
            ELSE IF last + 1 - k \in duplicates THEN Without(left[k - 1], last + 1 - k)
            ELSE left[k - 1]
    IN  left[last]

MergeAgentCard(extensions, requirement) ==
    LET ours == AgentExtensionForNode(requirement)
        matching == Matching(extensions)
        first == First(matching)
    IN  IF matching = {} THEN Append(extensions, ours)
        ELSE Collapse([extensions EXCEPT ![first] = ours], matching \ {first})

(* find_extension_by_uri returns the first match. *)
InspectAgentCard(extensions) ==
    LET matching == Matching(extensions)
        found == extensions[First(matching)]
        supported == found.requirement \in RequirementValues
    IN  IF matching = {}
        THEN [advertised |-> FALSE, requirement |-> None, warnings |-> {"missing"}]
        ELSE [advertised |-> TRUE,
              requirement |-> IF supported THEN found.requirement ELSE None,
              warnings |->
                  (IF Cardinality(matching) > 1 THEN {"repeated"} ELSE {})
                  \cup (IF found.required THEN {"required"} ELSE {})
                  \cup (IF found.unknown THEN {"unknown parameter"} ELSE {})
                  \cup (IF supported THEN {} ELSE {"requirement"})]
=============================================================================
