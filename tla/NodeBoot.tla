------------------------------ MODULE NodeBoot ------------------------------
(***************************************************************************)
(* From a configuration to a node: Ca2aConfig.from_dict (config.py),       *)
(* build_peer_node (bootstrap.py), the Agent Manifest binding              *)
(* (agent_manifest.py) and PeerNode.__init__ (node.py), as constant-level  *)
(* operators.                                                              *)
(*                                                                         *)
(* A configuration is the mapping a YAML file holds: None for a key that   *)
(* is absent, Rubbish for a value of the wrong type, PyTrue for the        *)
(* boolean that Python takes for the integer 1.  Every refusal is a        *)
(* ConfigError, so only whether there is one is kept, as Refused.  A host  *)
(* is the hardware it detects, the root that endorses that hardware, its   *)
(* files and whether the port is free; the content of a path that is       *)
(* missing, blank or cannot be read is None, that of a malformed file      *)
(* Rubbish.                                                                *)
(***************************************************************************)
EXTENDS Integers, Sequences, FiniteSets

CONSTANTS Key, Cap, None, Rubbish, PyTrue, Refused

HardwareProviders == <<"sev-snp", "tdx", "tpm">>
RequirementValues == {"none", "any", "hardware"}

Default(value, default) == IF value = None THEN default ELSE value

-----------------------------------------------------------------------------
(* Ca2aConfig.from_dict *)

(* split_listen_addr: the host is never defaulted. *)
IsListenAddr(addr) ==
    /\ addr # Rubbish
    /\ addr.host # ""
    /\ addr.port # Rubbish
    /\ addr.port \in 1..65535

IsVerifierSection(v) ==
    /\ v # Rubbish
    /\ v.platform \in {"tpm", "sev-snp", "tdx"}
    /\ v.trusted_roots_path \notin {None, Rubbish, ""}

AttestationValid(d) ==
    /\ Default(d.provider, "auto") \in
           {"auto", "software-only"} \cup {HardwareProviders[n] : n \in 1..3}
    /\ Default(d.enforcement_mode, "enforcing") \in {"enforcing", "advisory", "silent"}
    /\ Default(d.requirement, "none") \in RequirementValues
    /\ d.caller_verifier # None => IsVerifierSection(d.caller_verifier)
    /\ Default(d.requirement, "none") = "hardware" => d.caller_verifier # None

(* A lifetime must not be a boolean; a depth may. *)
NumbersValid(d) ==
    /\ Default(d.ttl, 60) \notin {Rubbish, PyTrue} /\ Default(d.ttl, 60) >= 1
    /\ Default(d.max_depth, 8) # Rubbish
    /\ Default(d.max_depth, 8) # PyTrue => Default(d.max_depth, 8) >= 1

ManifestFields == {"path", "trust_anchor_path", "authenticated_subject"}

(* The three settings of the manifest come together or not at all. *)
ManifestValid(section) ==
    section # None =>
        /\ section # Rubbish
        /\ \A f \in ManifestFields : section[f] # Rubbish
        /\ \/ \A f \in ManifestFields : section[f] = None
           \/ \A f \in ManifestFields : section[f] # None
        /\ section.authenticated_subject # None => section.authenticated_subject.spiffe

ConfigValid(d) ==
    /\ AttestationValid(d)
    /\ NumbersValid(d)
    /\ d.local_policy # Rubbish
    /\ d.policy_bundle_path # Rubbish
    /\ d.listen_addr # None => IsListenAddr(d.listen_addr)
    /\ d.trusted_root_issuers # Rubbish
    /\ ManifestValid(d.agent_manifest)

-----------------------------------------------------------------------------
(* build_peer_node *)

Content(host, path) ==
    IF path \in DOMAIN host.files THEN host.files[path] ELSE None

(* CedarPolicy.permits: a capability needs a permit and no forbid, and a   *)
(* bundle the engine cannot parse permits nothing.                         *)
CedarPermits(bundle) == IF bundle = Rubbish THEN {} ELSE bundle.permit \ bundle.forbid

(* Mutant: the allow set of the configuration wins over the bundle. *)
LoadPolicy_LocalFirst(d, host) ==
    IF d.local_policy # None THEN d.local_policy
    ELSE IF d.policy_bundle_path \notin {None, ""}
            /\ Content(host, d.policy_bundle_path) # None
    THEN CedarPermits(Content(host, d.policy_bundle_path))
    ELSE Refused

(* load_policy: a policy is the set of capabilities it permits.  The text  *)
(* of a bundle is not parsed here.                                         *)
LoadPolicy(d, host) ==
    IF d.policy_bundle_path \notin {None, ""}
    THEN IF Content(host, d.policy_bundle_path) = None THEN Refused
         ELSE CedarPermits(Content(host, d.policy_bundle_path))
    ELSE IF d.local_policy # None THEN d.local_policy
    ELSE Refused

(* Mutant: auto falls back to the software provider. *)
SelectProvider_FallsBack(name, detected) ==
    IF name # "auto" THEN (IF name = "software-only" \/ name \in detected THEN name ELSE Refused)
    ELSE IF detected = {} THEN "software-only"
    ELSE HardwareProviders[CHOOSE n \in 1..3 :
             HardwareProviders[n] \in detected
             /\ \A k \in 1..(n - 1) : HardwareProviders[k] \notin detected]

(* select_provider: auto takes the first that detects its hardware. *)
SelectProvider(name, detected) ==
    IF name = "software-only" THEN name
    ELSE IF name # "auto" THEN (IF name \in detected THEN name ELSE Refused)
    ELSE IF detected = {} THEN Refused
    ELSE HardwareProviders[CHOOSE n \in 1..3 :
             HardwareProviders[n] \in detected
             /\ \A k \in 1..(n - 1) : HardwareProviders[k] \notin detected]

(* build_caller_verifier: only a TPM verifier can be built from a file, as *)
(* the pairs of platform and root it accepts.  The roots are not parsed    *)
(* here; out of a malformed file the verifier will accept nothing.         *)
BuildCallerVerifier(section, host) ==
    IF section = None THEN None
    ELSE LET roots == Content(host, section.trusted_roots_path)
         IN  IF section.platform # "tpm" \/ roots = None THEN Refused
             ELSE IF roots = Rubbish THEN {} ELSE {"tpm"} \X roots

(* load_agent_manifest_document and load_agent_manifest_trust_anchor: a    *)
(* bare JSON document of version 0.2 needs a signature field of its own.   *)
ManifestLoads(document) ==
    document \notin {None, Rubbish}
    /\ ~(document.version = "0.2" /\ ~document.envelope /\ ~document.has_signature)

AnchorsLoad(anchors) ==
    anchors \notin {None, Rubbish}
    /\ \A a \in anchors : a.key_id \in {None, a.key}

(* verify_agent_manifest_binding, with the library's verdict taken from    *)
(* who signed the document as loaded.                                      *)
ManifestBinds(document, anchors, subject) ==
    /\ \E a \in anchors : a.key = document.signed_by
    /\ document.agent_id # None /\ document.agent_id.spiffe
    /\ document.issuer # None /\ document.issuer.spiffe
    /\ subject = document.agent_id

(* The identity bound, None without a manifest. *)
BindManifest(section, host) ==
    IF section = None \/ section.path = None THEN None
    ELSE LET document == Content(host, section.path)
             anchors == Content(host, section.trust_anchor_path)
         IN  IF /\ ManifestLoads(document)
                /\ AnchorsLoad(anchors)
                /\ ManifestBinds(document, anchors, section.authenticated_subject)
             THEN document.agent_id ELSE Refused

-----------------------------------------------------------------------------
(* PeerNode.__init__ for the arguments a. *)
PeerNode(a) ==
    IF \/ a.requirement \notin RequirementValues
       \/ a.requirement = "hardware" /\ a.verifier = None
    THEN Refused ELSE a

(* build_peer_node for the configuration d: the arguments it passes on,    *)
(* without a source of revocations.                                        *)
BuildPeerNode(d, host) ==
    LET policy == LoadPolicy(d, host)
        manifest == BindManifest(d.agent_manifest, host)
        provider == SelectProvider(Default(d.provider, "auto"), host.detected)
        verifier == BuildCallerVerifier(d.caller_verifier, host)
    IN  IF \/ policy = Refused
           \/ Default(d.trusted_root_issuers, {}) = {}
           \/ manifest = Refused
           \/ provider = Refused
           \/ verifier = Refused
        THEN Refused
        ELSE PeerNode([policy |-> policy, platform |-> provider, root |-> host.root,
                       max_depth |-> IF d.max_depth = PyTrue THEN 1 ELSE Default(d.max_depth, 8),
                       requirement |-> Default(d.requirement, "none"),
                       verifier |-> verifier, ttl |-> Default(d.ttl, 60),
                       roots |-> d.trusted_root_issuers, manifest |-> manifest,
                       revocations |-> FALSE])

(* ca2a start: the file is loaded, the node built and the port bound. *)
StartFromConfig(d, host) ==
    IF ~ConfigValid(d) \/ ~host.port_free THEN Refused ELSE BuildPeerNode(d, host)
=============================================================================
