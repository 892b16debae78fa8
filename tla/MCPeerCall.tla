----------------------------- MODULE MCPeerCall -----------------------------
(***************************************************************************)
(* Instances of PeerCall for TLC: two callers, one delegated root -> a and *)
(* one root -> a -> b, who ask for capabilities inside and outside their   *)
(* scope, with and without a payload, a parent record and an attestation;  *)
(* nodes an application embeds, and nodes ca2a start builds or refuses.    *)
(***************************************************************************)
EXTENDS PeerCall, TLC

CONSTANTS kr, ka, kb, c1, c2, read, write, call1, call2

MCKey == {kr, ka, kb}
MCCap == {read, write}
MCCredId == {c1, c2}
MCCall == {call1, call2}

Grant(id, issuer, subject, scope, depth, parent) ==
    Sign([credential_id |-> id, issuer |-> issuer, subject |-> subject,
          scope |-> scope, depth |-> depth, parent_id |-> parent,
          not_before |-> None, not_after |-> None, signature |-> None], issuer)

ToA == <<Grant(c1, kr, ka, {read, write}, 0, None)>>
ToB == ToA \o <<Grant(c2, ka, kb, {read}, 1, c1)>>

(* Evidence from hardware is endorsed by the key kr. *)
Endorsed == {"tpm", "tdx"} \X {kr}

Args(chain, cap, payload, parent, platform, key) ==
    [chain |-> chain, requested_capability |-> cap, payload |-> payload,
     parent_record_hash |-> parent, platform |-> platform, root |-> kr, holder_key |-> key,
     verifier |-> Endorsed, require_hardware |-> FALSE]

(* What two callers may be asked to do. *)
MixedPlans ==
    {Args(ToB, read, "task", None, None, kb),
     Args(ToB, read, "damaged", call1, "tpm", kb),
     Args(ToA, write, "task", None, "tdx", ka)}

(* One that requires hardware and one that does not, evidence from another *)
(* platform, a call outside the policy or the delegated scope, and one     *)
(* with a wrong key.                                                       *)
BootPlans ==
    {[Args(ToB, read, "task", None, "tpm", kb) EXCEPT !.require_hardware = TRUE],
     Args(ToB, read, "task", None, "software-only", kb),
     [Args(ToA, write, None, None, "tdx", ka) EXCEPT !.verifier = None],
     Args(ToB, write, None, None, None, kb),
     Args(ToA, write, "task", None, None, kb)}

NoSnapshots == {None}

(* An empty snapshot and one in which the root withdraws b. *)
SomeSnapshots ==
    {[as_of |-> 0, statements |-> {}],
     [as_of |-> 0, statements |-> {Revocation(ToB[2], kr, 0)}]}

-----------------------------------------------------------------------------
Node(policy, requirement, revocations) ==
    [policy |-> policy, platform |-> "software-only", root |-> None, max_depth |-> 2,
     requirement |-> requirement, verifier |-> Endorsed, ttl |-> 1, roots |-> {kr},
     manifest |-> None, revocations |-> revocations]

Permissive == {Node({read, write}, "none", FALSE)}

Revoking == {Node({read}, "any", TRUE), [Node({read}, "hardware", TRUE) EXCEPT !.verifier = None]}

Agent == [name |-> "agent", spiffe |-> TRUE]
Stranger == [name |-> "stranger", spiffe |-> TRUE]

Manifest(subject) ==
    [path |-> "manifest", trust_anchor_path |-> "anchors", authenticated_subject |-> subject]

(* A node on a confidential VM that serves attested callers only. *)
Strict ==
    [provider |-> None, enforcement_mode |-> "advisory", requirement |-> "hardware",
     caller_verifier |-> [platform |-> "tpm", trusted_roots_path |-> "roots"],
     ttl |-> 1, max_depth |-> PyTrue, local_policy |-> {read, write},
     policy_bundle_path |-> "cedar", listen_addr |-> [host |-> "localhost", port |-> 65535],
     trusted_root_issuers |-> {kr}, agent_manifest |-> Manifest(Agent)]

(* A node on a development machine. *)
Simple ==
    [Strict EXCEPT !.provider = "software-only", !.requirement = None,
                   !.caller_verifier = None, !.max_depth = None,
                   !.policy_bundle_path = None, !.listen_addr = None,
                   !.agent_manifest = None]

ConfidentialVM ==
    [detected |-> {"tdx", "tpm"}, root |-> kr, port_free |-> TRUE,
     files |-> [roots |-> {kr}, torn |-> Rubbish,
                cedar |-> [permit |-> {read, write}, forbid |-> {write}],
                manifest |-> [version |-> "0.1", envelope |-> FALSE, has_signature |-> TRUE,
                              signed_by |-> ka, agent_id |-> Agent, issuer |-> Agent],
                anchors |-> {[key |-> ka, key_id |-> None]}]]

Boot(config, host) == [config |-> config, host |-> host]

(* ca2a start refuses each of these, for a reason of its own. *)
Faulty ==
    {Boot([Strict EXCEPT !.provider = "sev-snp"], ConfidentialVM),
     Boot([Strict EXCEPT !.provider = Rubbish], ConfidentialVM),
     Boot([Strict EXCEPT !.enforcement_mode = Rubbish], ConfidentialVM),
     Boot([Strict EXCEPT !.caller_verifier = None], ConfidentialVM),
     Boot([Strict EXCEPT !.caller_verifier.platform = "tdx"], ConfidentialVM),
     Boot([Strict EXCEPT !.caller_verifier.trusted_roots_path = "blank"], ConfidentialVM),
     Boot([Strict EXCEPT !.ttl = PyTrue], ConfidentialVM),
     Boot([Strict EXCEPT !.max_depth = 0], ConfidentialVM),
     Boot([Strict EXCEPT !.policy_bundle_path = "nowhere"], ConfidentialVM),
     Boot([Strict EXCEPT !.listen_addr.port = 65536], ConfidentialVM),
     Boot([Strict EXCEPT !.trusted_root_issuers = None], ConfidentialVM),
     Boot([Strict EXCEPT !.agent_manifest = Manifest(Stranger)], ConfidentialVM),
     Boot([Strict EXCEPT !.agent_manifest.trust_anchor_path = None], ConfidentialVM),
     Boot([Simple EXCEPT !.local_policy = None], ConfidentialVM),
     Boot(Strict, [ConfidentialVM EXCEPT !.detected = {}]),
     Boot(Strict, [ConfidentialVM EXCEPT !.port_free = FALSE])}

(* A malformed bundle and malformed roots go unnoticed until a call comes. *)
Malformed ==
    [Simple EXCEPT !.policy_bundle_path = "torn",
                   !.caller_verifier = [platform |-> "tpm", trusted_roots_path |-> "torn"]]

Configurations ==
    {Boot(c, ConfidentialVM) : c \in {Strict, Simple, Malformed}} \cup Faulty
=============================================================================
