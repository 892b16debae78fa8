------------------------------ MODULE PeerCall ------------------------------
(***************************************************************************)
(* A delegated call over the reference transport: callers running          *)
(* send_task (transport/client.py) against one PeerNode (node.py) whose    *)
(* handler threads run handle_peer_request (peer.py), over a network that  *)
(* loses, delays, duplicates and reorders messages, with middleware that   *)
(* may put together the fields of two requests.  The callee's process may  *)
(* be started again at any point, from a configuration that was edited     *)
(* meanwhile or by an application that embeds a node; that replaces its    *)
(* channel key, its secret and all its settings.                           *)
(***************************************************************************)
EXTENDS NodeBoot

CONSTANTS
    CredId,
    MaxStaleness,
    Configured,   \* pairs of a configuration and a host ca2a start may find
    Embedded,     \* arguments applications pass to PeerNode themselves
    Thread,       \* handler threads of the callee's server
    Call,         \* invocations of send_task; also their nonces and record ids
    Plans,        \* the arguments send_task may be given
    Snapshots,    \* what revocation_source() may return
    MaxClock,     \* bound on the clock
    MaxEpoch,     \* bound on the callee's restarts
    MaxMixed      \* bound on the requests put together from two others

ASSUME CallAssumption == None \notin Call
ASSUME MaxAssumption == {MaxClock, MaxEpoch, MaxMixed} \subseteq Nat

VARIABLES
    clock,      \* time.time() in whole seconds, read by both sides
    epoch,      \* the callee's process: its channel key and secret
    node,       \* its node, None before the first start
    origin,     \* history: the configuration and host it was started from
    feed,       \* what revocation_source() returns now
    hellos,     \* handshake responses served
    cpc,        \* where each call is in send_task
    sent,       \* history: the requests send_task built, as built
    hard,       \* history: the calls made with require_hardware
    wire,       \* requests that may still reach the callee
    mixed,      \* how many requests the middleware put together
    pc,         \* where each thread is in handle_peer_request
    req,        \* its parsed request
    snap,       \* the snapshot it was given
    verified,   \* when it verified the holder proof
    outcome,    \* what it established about the caller's runtime
    record,     \* the provenance record it emitted, None before
    result      \* what handle returned or raised

callee == <<pc, req, snap, verified, outcome, record, result>>
process == <<epoch, node, origin>>
caller == <<cpc, sent, hard>>
vars == <<clock, process, feed, hellos, caller, wire, mixed, callee>>

INSTANCE PeerChecks WITH
    TrustedRoots <- node.roots, MaxDepth <- node.max_depth, TTL <- node.ttl,
    Requirement <- node.requirement, Verifier <- node.verifier

HardwarePlatforms == {HardwareProviders[n] : n \in 1..3}
Verifiers == {None} \cup SUBSET (HardwarePlatforms \X (Key \cup {None}))

(* The arguments of send_task: the chain, the capability, the payload, the *)
(* parent record, what attests the caller (None for no caller_provider)    *)
(* and endorses that evidence, the private key passed as holder_key, the   *)
(* verifier the caller has for the callee and whether it requires hardware *)
(* there.  For an empty chain send_task raises and sends nothing.          *)
Plan ==
    [chain : Seq(DelegationCredential) \ {<< >>}, requested_capability : Cap,
     payload : {None, "task", "damaged"}, parent_record_hash : Call \cup {None},
     platform : {None, "software-only"} \cup HardwarePlatforms, root : Key \cup {None},
     holder_key : Key, verifier : Verifiers, require_hardware : BOOLEAN]

ASSUME PlanAssumption == Plans \subseteq Plan
ASSUME SnapshotsAssumption == Snapshots \subseteq RevocationSnapshot \cup {None}

(* The parameters of PeerNode as they are annotated. *)
NodeArgs ==
    [policy : SUBSET Cap, platform : STRING, root : Key \cup {None}, max_depth : Int,
     requirement : STRING, verifier : Verifiers, ttl : Int, roots : SUBSET Key,
     manifest : {None} \cup [name : STRING, spiffe : BOOLEAN], revocations : BOOLEAN]

ASSUME EmbeddedAssumption == Embedded \subseteq NodeArgs

(* The numbers of a configuration may be absent, of the wrong type or a    *)
(* boolean.  A host detects hardware of the three kinds there are          *)
(* providers for.                                                          *)
ASSUME ConfiguredAssumption ==
    \A s \in Configured :
        /\ {s.config.ttl, s.config.max_depth} \subseteq Int \cup {None, Rubbish, PyTrue}
        /\ s.host.detected \subseteq HardwarePlatforms

(* What send_task makes for a request.  None is none of it.                *)
Challenges == [secret : Nat, rand : Call, expiry : Int]
CallerKeys == {"caller"} \X Call
CalleeKeys == {"callee"} \X Nat

CallerOffers ==
    [channel_public_key : CallerKeys,
     report : [public_key : CallerKeys, nonce : Challenges, role : {"caller"},
               platform : {"software-only"} \cup HardwarePlatforms,
               root : Key \cup {None}]]

HolderProofs ==
    [challenge : Challenges, signed_by : Key,
     body : [audience : CalleeKeys, challenge : Challenges, credential_id : CredId,
             subject : Key, requested_capability : Cap, record_id : Call,
             payload : {None} \cup [to : CalleeKeys \cup {None}, by : Call,
                                    plain : {"task", "damaged"}],
             caller_channel_key : {None} \cup CallerKeys,
             parent_record_hash : {None} \cup Call]]

ASSUME NoneIsNoValue ==
    None \notin CallerKeys \cup CalleeKeys \cup CallerOffers \cup HolderProofs
                    \cup RequirementValues

Init ==
    /\ clock = 0
    /\ epoch = 0
    /\ node = None
    /\ origin = None
    /\ feed \in Snapshots
    /\ hellos = {}
    /\ cpc = [c \in Call |-> "idle"]
    /\ sent = {}
    /\ hard = {}
    /\ wire = {}
    /\ mixed = 0
    /\ pc = [t \in Thread |-> "idle"]
    /\ req = [t \in Thread |-> None]
    /\ snap = [t \in Thread |-> None]
    /\ verified = [t \in Thread |-> None]
    /\ outcome = [t \in Thread |-> "none"]
    /\ record = [t \in Thread |-> None]
    /\ result = [t \in Thread |-> "none"]

-----------------------------------------------------------------------------
(* The environment *)

Tick ==
    /\ clock < MaxClock
    /\ clock' = clock + 1
    /\ UNCHANGED <<process, feed, hellos, caller, wire, mixed, callee>>

RefreshFeed ==
    /\ feed' \in Snapshots
    /\ UNCHANGED <<clock, process, hellos, caller, wire, mixed, callee>>

(* A new process with a new node: nothing is persisted, and the handlers   *)
(* of the process before it, if there was one, are gone.                   *)
Started(built) ==
    /\ epoch < MaxEpoch
    /\ built # Refused
    /\ epoch' = epoch + 1
    /\ node' = built
    /\ pc' = [t \in Thread |-> "idle"]
    /\ req' = [t \in Thread |-> None]
    /\ snap' = [t \in Thread |-> None]
    /\ verified' = [t \in Thread |-> None]
    /\ outcome' = [t \in Thread |-> "none"]
    /\ record' = [t \in Thread |-> None]
    /\ result' = [t \in Thread |-> "none"]
    /\ UNCHANGED <<clock, feed, hellos, caller, wire, mixed>>

(* ca2a start; where it refuses, there is no process to speak of. *)
StartConfigured(s) == Started(StartFromConfig(s.config, s.host)) /\ origin' = s

(* An application builds the node and serves it. *)
StartEmbedded(a) == Started(PeerNode(a)) /\ origin' = None

Fields ==
    {"chain", "requested_capability", "record_id", "sealed_payload",
     "parent_record_hash", "caller_offer", "holder_proof", "caller_possession"}

(* Middleware rebuilds a request with some metadata fields of another one. *)
(* m1 is the one whose holder proof is kept.                               *)
Mix(m1, m2, taken) ==
    /\ mixed < MaxMixed
    /\ mixed' = mixed + 1
    /\ wire' = wire \cup {[f \in Fields |-> IF f \in taken THEN m2[f] ELSE m1[f]]}
    /\ UNCHANGED <<clock, process, feed, hellos, caller, callee>>

-----------------------------------------------------------------------------
(* The caller: send_task *)

(* handshake sends its fresh nonce. *)
Start(c) ==
    /\ cpc[c] = "idle"
    /\ cpc' = [cpc EXCEPT ![c] = "handshake"]
    /\ UNCHANGED <<clock, process, feed, hellos, sent, hard, wire, mixed, callee>>

(* do_GET: the stable key re-attested under the nonce, and a challenge;    *)
(* issue_challenge raises for a lifetime that is not positive.             *)
ServeHello(c) ==
    /\ node # None
    /\ node.ttl > 0
    /\ cpc[c] = "handshake"
    /\ \A h \in hellos : h.offer.report.nonce # c
    /\ hellos' = hellos \cup
           {[offer |-> ChannelOffer(CalleeKey(epoch), c, "callee", node.platform, node.root),
             challenge |-> Challenge(epoch, c, clock)]}
    /\ UNCHANGED <<clock, process, feed, caller, wire, mixed, callee>>

(* The rest of send_task up to the POST, on receipt of a handshake         *)
(* response; a key that is not the leaf's subject raises.                  *)
SendTask(c, p, h) ==
    /\ cpc[c] = "handshake"
    /\ IF \/ VerifyOffer(h.offer, c, p.verifier, p.require_hardware, "callee") = "failed"
          \/ p.holder_key # Leaf(p.chain).subject
       THEN /\ cpc' = [cpc EXCEPT ![c] = "failed"]
            /\ UNCHANGED <<sent, hard, wire>>
       ELSE /\ cpc' = [cpc EXCEPT ![c] = "posted"]
            /\ sent' = sent \cup {Built(c, p, h)}
            /\ hard' = IF p.require_hardware THEN hard \cup {c} ELSE hard
            /\ wire' = wire \cup {Built(c, p, h)}
    /\ UNCHANGED <<clock, process, feed, hellos, mixed, callee>>

-----------------------------------------------------------------------------
(* The callee: PeerNode.handle and handle_peer_request.  A request stays   *)
(* on the wire, so it may arrive again; it may also never arrive.          *)

Deliver(t, m) ==
    /\ node # None
    /\ pc[t] = "idle"
    /\ pc' = [pc EXCEPT ![t] = "chain"]
    /\ req' = [req EXCEPT ![t] = m]
    /\ snap' = [snap EXCEPT ![t] = IF node.revocations THEN feed ELSE None]
    /\ UNCHANGED <<clock, process, feed, hellos, caller, wire, mixed,
                   verified, outcome, record, result>>

Goto(t, label) ==
    /\ pc' = [pc EXCEPT ![t] = label]
    /\ UNCHANGED result

Raise(t, error) ==
    /\ pc' = [pc EXCEPT ![t] = "done"]
    /\ result' = [result EXCEPT ![t] = error]

(* The step is ChainVerify's whole walk: its evaluation time is fixed on   *)
(* entry and its snapshot was read before, so nothing moves under it.      *)
CheckChain(t) ==
    LET verdict == VerifyChain(req[t].chain, None, clock, snap[t])
    IN  /\ pc[t] = "chain"
        /\ IF verdict \in Accepted THEN Goto(t, "holder") ELSE Raise(t, verdict)
        /\ UNCHANGED <<clock, process, feed, hellos, caller, wire, mixed,
                       req, snap, verified, outcome, record>>

(* verify_caller_holds_leaf emits no record when it refuses. *)
CheckHolder(t) ==
    /\ pc[t] = "holder"
    /\ IF VerifyHolderProof(epoch, req[t], clock)
       THEN Goto(t, "appraise") /\ verified' = [verified EXCEPT ![t] = clock]
       ELSE Raise(t, "HolderProofInvalid") /\ UNCHANGED verified
    /\ UNCHANGED <<clock, process, feed, hellos, caller, wire, mixed,
                   req, snap, outcome, record>>

(* record_for and denial_record_for *)
DelegationRecord(r, decision, attestation) ==
    [decision |-> decision, record_id |-> r.record_id,
     credential_id |-> Leaf(r.chain).credential_id, subject |-> Leaf(r.chain).subject,
     parent_record_hash |-> r.parent_record_hash, caller_attestation |-> attestation]

Appraise(t) ==
    LET appraisal == AppraiseCallerRuntime(epoch, req[t], clock)
    IN  /\ pc[t] = "appraise"
        /\ IF appraisal.refused
           THEN /\ Raise(t, "AttestationFailed")
                /\ record' = [record EXCEPT ![t] =
                       DelegationRecord(req[t], "deny", appraisal.outcome)]
                /\ UNCHANGED outcome
           ELSE /\ Goto(t, "decide")
                /\ outcome' = [outcome EXCEPT ![t] = appraisal.outcome]
                /\ UNCHANGED record
        /\ UNCHANGED <<clock, process, feed, hellos, caller, wire, mixed,
                       req, snap, verified>>

(* Mutant: the delegated scope is not intersected with the policy. *)
EffectiveScope_NoPolicy(ch) == Leaf(ch).scope

EffectiveScope(ch) == node.policy \cap Leaf(ch).scope

(* decide_capability *)
Decide(t) ==
    LET allowed == req[t].requested_capability \in EffectiveScope(req[t].chain)
    IN  /\ pc[t] = "decide"
        /\ record' = [record EXCEPT ![t] =
               DelegationRecord(req[t], IF allowed THEN "allow" ELSE "deny", outcome[t])]
        /\ IF allowed THEN Goto(t, "open") ELSE Raise(t, "ScopeNotPermitted")
        /\ UNCHANGED <<clock, process, feed, hellos, caller, wire, mixed,
                       req, snap, verified, outcome>>

(* open_sealed, and the PeerResult *)
Open(t) ==
    LET opens == Opens(req[t].sealed_payload, epoch)
    IN  /\ pc[t] = "open"
        /\ Raise(t, IF opens THEN "accepted" ELSE "SealedChannelError")
        /\ UNCHANGED <<clock, process, feed, hellos, caller, wire, mixed,
                       req, snap, verified, outcome, record>>

(* The handler has answered and its thread is free again. *)
Answer(t) ==
    /\ pc[t] = "done"
    /\ pc' = [pc EXCEPT ![t] = "idle"]
    /\ req' = [req EXCEPT ![t] = None]
    /\ snap' = [snap EXCEPT ![t] = None]
    /\ verified' = [verified EXCEPT ![t] = None]
    /\ outcome' = [outcome EXCEPT ![t] = "none"]
    /\ record' = [record EXCEPT ![t] = None]
    /\ result' = [result EXCEPT ![t] = "none"]
    /\ UNCHANGED <<clock, process, feed, hellos, caller, wire, mixed>>

Handle(t) ==
    \/ \E m \in wire : Deliver(t, m)
    \/ CheckChain(t) \/ CheckHolder(t) \/ Appraise(t) \/ Decide(t) \/ Open(t)
    \/ Answer(t)

Caller(c) ==
    \/ Start(c)
    \/ ServeHello(c)
    \/ \E p \in Plans, h \in hellos : SendTask(c, p, h)

Next ==
    \/ Tick
    \/ RefreshFeed
    \/ \E s \in Configured : StartConfigured(s)
    \/ \E a \in Embedded : StartEmbedded(a)
    \/ \E m1, m2 \in wire : \E taken \in SUBSET (Fields \ {"holder_proof"}) : Mix(m1, m2, taken)
    \/ \E c \in Call : Caller(c)
    \/ \E t \in Thread : Handle(t)

Spec == Init /\ [][Next]_vars

-----------------------------------------------------------------------------
(* The request r that reached a handler says what request s said. *)
SameCall(r, s) ==
    /\ Leaf(r.chain).credential_id = Leaf(s.chain).credential_id
    /\ Leaf(r.chain).subject = Leaf(s.chain).subject
    /\ r.requested_capability = s.requested_capability
    /\ r.record_id = s.record_id
    /\ r.sealed_payload = s.sealed_payload
    /\ r.parent_record_hash = s.parent_record_hash

(* Whatever a handler puts on record, allow or deny, names a call that the *)
(* leaf's subject really made, with that capability, record id, payload    *)
(* and parent: verify_caller_holds_leaf comes before anything that emits a *)
(* record, and proof_body commits each of those fields.                    *)
RecordedCallWasMade ==
    \A t \in Thread : record[t] # None =>
        \E s \in sent : SameCall(req[t], s)

RuntimeOf(s) ==
    IF s.caller_offer = None THEN "not_offered"
    ELSE IF s.caller_offer.report.platform = "software-only" THEN "software-only"
    ELSE "hardware"

(* An allow record says of the caller's runtime exactly what that caller's *)
(* own request said: an offer cannot be stripped, added or taken from      *)
(* another caller, because the holder proof commits the offered key and    *)
(* the key has to prove possession over this request.                      *)
AllowRecordTellsRuntime ==
    \A t \in Thread : (record[t] # None /\ record[t].decision = "allow") =>
        \E s \in sent : SameCall(req[t], s) /\ RuntimeOf(s) = record[t].caller_attestation

(* A holder proof is accepted only by the process that issued its          *)
(* challenge, strictly before the challenge's lifetime is over, whatever   *)
(* was delayed and however often the callee restarted.                     *)
ProofIsFresh ==
    \A t \in Thread : verified[t] # None =>
        \E h \in hellos : /\ h.challenge = req[t].holder_proof.challenge
                          /\ h.offer.channel_public_key = CalleeKey(epoch)
                          /\ verified[t] < h.challenge.expiry

SealedWhole(sealed) == sealed # None => sealed.plain # "damaged"

(* decide_capability has made its allow record when open_sealed runs, and  *)
(* a SealedChannelError loses it.  That is settled by the caller alone: a  *)
(* payload opens exactly when the caller that signed the proof sealed it   *)
(* whole.  No restart, delay, repetition or exchanged field makes an       *)
(* allowed call fail to open, or a payload open that its caller damaged,   *)
(* because the proof names this process and the sealed bytes.              *)
OpensAsCommitted ==
    \A t \in Thread : result[t] \in {"accepted", "SealedChannelError"} =>
        \E s \in sent : /\ s.holder_proof = req[t].holder_proof
                        /\ result[t] = "accepted" <=> SealedWhole(s.sealed_payload)

(* The capability granted is in the policy and was passed down by every    *)
(* hop, and no hop was revoked in the snapshot current on arrival.         *)
GrantedCapabilityDelegated ==
    \A t \in Thread : result[t] = "accepted" =>
        /\ req[t].requested_capability \in node.policy
        /\ \A n \in 1..Len(req[t].chain) :
              req[t].requested_capability \in req[t].chain[n].scope
        /\ snap[t] # None => RevokedHops(req[t].chain, snap[t], None) = {}

Unmet(offer) ==
    \/ offer = None /\ node.requirement # "none"
    \/ /\ offer # None
       /\ IF offer.report.platform = "software-only" THEN node.requirement = "hardware"
          ELSE Appraised(node.verifier, offer.report) = "failed"

RefusalHasReason(r, error) ==
    LET challenge == r.holder_proof.challenge
    IN  /\ error = "HolderProofInvalid" =>
               challenge.secret # epoch \/ challenge.expiry <= clock
        /\ error = "AttestationFailed" =>
               Unmet(r.caller_offer) \/ challenge.expiry <= clock

(* A request that arrives as it was built is refused for its proof only    *)
(* when the callee restarted or the challenge ran out meanwhile, and for   *)
(* its attestation only when the requirement is not met, when the evidence *)
(* it offers is none that the callee's verifier accepts, or when the       *)
(* challenge ran out between the two checks.                               *)
HonestRefusalHasReason ==
    \A t \in Thread : req[t] \in sent => RefusalHasReason(req[t], result[t])

(* What the configuration d on this host says of a call: who must be       *)
(* attested and endorsed by which roots, which capabilities the Cedar      *)
(* bundle or else the allow set permits, how deep a chain may be and from  *)
(* which issuers.                                                          *)
AsConfigured(d, host, r, attestation) ==
    /\ d.requirement = "hardware" => attestation = "hardware"
    /\ d.requirement = "any" => attestation # "not_offered"
    /\ attestation = "hardware" =>
           /\ r.caller_offer.report.platform = d.caller_verifier.platform
           /\ r.caller_offer.report.root \in Content(host, d.caller_verifier.trusted_roots_path)
    /\ IF d.policy_bundle_path \in {None, ""}
       THEN r.requested_capability \in d.local_policy
       ELSE LET bundle == Content(host, d.policy_bundle_path)
            IN  bundle \notin {None, Rubbish}
                /\ r.requested_capability \in bundle.permit \ bundle.forbid
    /\ Len(r.chain) <= 1 + (IF d.max_depth = PyTrue THEN 1 ELSE Default(d.max_depth, 8))
    /\ r.chain[1].issuer \in d.trusted_root_issuers
    /\ d.agent_manifest # None => node.manifest = d.agent_manifest.authenticated_subject

(* What an operator wrote is what is enforced: under a node that ca2a      *)
(* start built, a call is allowed only as the configuration says, and      *)
(* never when its Agent Manifest names another subject.                    *)
AllowedAsConfigured ==
    \A t \in Thread :
        (record[t] # None /\ record[t].decision = "allow" /\ origin # None) =>
            AsConfigured(origin.config, origin.host, req[t], record[t].caller_attestation)

(* "auto never falls back" to the software provider: a node offers a       *)
(* channel key without hardware behind it only where the configuration     *)
(* names software-only, and a named or detected provider was there when it *)
(* started (select_provider, PeerNode.offer).                              *)
OfferedAsConfigured ==
    (node # None /\ origin # None) =>
        \A h \in hellos : h.offer.channel_public_key = CalleeKey(epoch) =>
            \/ origin.config.provider = "software-only"
            \/ h.offer.report.platform \in origin.host.detected

(* The payload of a caller that requires hardware is opened only by a      *)
(* process that runs on hardware, although the callee may be started again *)
(* as software-only between the handshake and the call (verify_offer,      *)
(* seal_to_peer, open_sealed).                                             *)
OpenedWhereRequired ==
    \A t \in Thread :
        (result[t] = "accepted" /\ req[t].sealed_payload # None
             /\ req[t].record_id \in hard) => node.platform # "software-only"
=============================================================================
