----------------------------- MODULE PeerChecks -----------------------------
(***************************************************************************)
(* What a callee checks about a caller besides its chain: the challenge    *)
(* (challenge.py), the holder proof (delegation/holder.py), the caller's   *)
(* attested channel key and the proof that it holds that key               *)
(* (attestation.py), as constant-level operators.                          *)
(*                                                                         *)
(* A callee process is its epoch: restarting it makes a new channel key    *)
(* and a new challenge secret, both identified with the epoch.  A MAC or a *)
(* signature is the key it was made with and the body it covers; sha256 of *)
(* the sealed payload is the sealed payload.                               *)
(***************************************************************************)
EXTENDS Delegation

(* The callee's node.  Where nodes are built from a configuration these     *)
(* are instantiated with what the running node holds.                      *)
CONSTANTS TTL,           \* challenge_ttl_seconds
          Requirement,   \* require_caller_attestation
          Verifier       \* caller_verifier, None without one

CalleeKey(epoch) == <<"callee", epoch>>
CallerKey(c) == <<"caller", c>>

-----------------------------------------------------------------------------
(* The challenge: expiry and random part under the secret of one epoch. *)
Challenge(epoch, rand, now) == [secret |-> epoch, rand |-> rand, expiry |-> now + TTL]

(* Mutant: a challenge is still good at its expiry. *)
VerifyChallenge_Late(epoch, ch, now) == ch.secret = epoch /\ now <= ch.expiry

VerifyChallenge(epoch, ch, now) == ch.secret = epoch /\ now < ch.expiry

-----------------------------------------------------------------------------
(* An offer is a channel key and the report that binds it under a nonce.   *)
(* Of the evidence in a report, root is what endorses it: the root of its  *)
(* certificate chain, None where it ships no chain.                        *)
ChannelOffer(key, nonce, role, platform, root) ==
    [channel_public_key |-> key,
     report |-> [public_key |-> key, nonce |-> nonce, role |-> role,
                 platform |-> platform, root |-> root]]

(* The call of a verifier, which is the set of platforms and roots it      *)
(* accepts evidence from.  It raises AttestationFailed for any other       *)
(* evidence; a measurement that is not allowed is like a root that is not. *)
Appraised(verifier, report) ==
    IF verifier # None /\ <<report.platform, report.root>> \in verifier
    THEN "hardware" ELSE "failed"

(* Mutant: a software-only report passes where hardware is required. *)
VerifyOffer_SoftwareToo(offer, nonce, verifier, require_hardware, role) ==
    LET report == offer.report
    IN  IF \/ report.role # role
           \/ report.public_key # offer.channel_public_key
           \/ report.nonce # nonce
        THEN "failed"
        ELSE IF report.platform = "software-only" THEN "none"
        ELSE Appraised(verifier, report)

(* verify_offer: the assurance established, "failed" when it raises. *)
VerifyOffer(offer, nonce, verifier, require_hardware, role) ==
    LET report == offer.report
    IN  IF \/ report.role # role
           \/ report.public_key # offer.channel_public_key
           \/ report.nonce # nonce
        THEN "failed"
        ELSE IF report.platform = "software-only"
        THEN (IF require_hardware THEN "failed" ELSE "none")
        ELSE Appraised(verifier, report)

(* Mutant: the default role of verify_offer is left in place. *)
AppraiseCaller_CalleeRole(epoch, offer, now) ==
    IF ~VerifyChallenge(epoch, offer.report.nonce, now) THEN "failed"
    ELSE VerifyOffer(offer, offer.report.nonce, Verifier, FALSE, "callee")

(* appraise_caller: the nonce of a caller's report is a challenge of ours. *)
AppraiseCaller(epoch, offer, now) ==
    IF ~VerifyChallenge(epoch, offer.report.nonce, now) THEN "failed"
    ELSE VerifyOffer(offer, offer.report.nonce, Verifier, FALSE, "caller")

-----------------------------------------------------------------------------
Leaf(chain) == chain[Len(chain)]

OfferedKey(offer) == IF offer = None THEN None ELSE offer.channel_public_key

(* Mutant: the digest of the sealed payload is left out. *)
ProofBody_NoPayload(r, audience, challenge) ==
    [audience |-> audience, challenge |-> challenge,
     credential_id |-> Leaf(r.chain).credential_id, subject |-> Leaf(r.chain).subject,
     requested_capability |-> r.requested_capability, record_id |-> r.record_id,
     caller_channel_key |-> OfferedKey(r.caller_offer),
     parent_record_hash |-> r.parent_record_hash]

(* Mutant: the caller's channel key is left out. *)
ProofBody_NoOffer(r, audience, challenge) ==
    [audience |-> audience, challenge |-> challenge,
     credential_id |-> Leaf(r.chain).credential_id, subject |-> Leaf(r.chain).subject,
     requested_capability |-> r.requested_capability, record_id |-> r.record_id,
     payload |-> r.sealed_payload, parent_record_hash |-> r.parent_record_hash]

(* Mutant: the parent link is left out. *)
ProofBody_NoParent(r, audience, challenge) ==
    [audience |-> audience, challenge |-> challenge,
     credential_id |-> Leaf(r.chain).credential_id, subject |-> Leaf(r.chain).subject,
     requested_capability |-> r.requested_capability, record_id |-> r.record_id,
     payload |-> r.sealed_payload, caller_channel_key |-> OfferedKey(r.caller_offer)]

(* proof_body: the fields of request r that a holder proof commits to. *)
ProofBody(r, audience, challenge) ==
    [audience |-> audience, challenge |-> challenge,
     credential_id |-> Leaf(r.chain).credential_id, subject |-> Leaf(r.chain).subject,
     requested_capability |-> r.requested_capability, record_id |-> r.record_id,
     payload |-> r.sealed_payload, caller_channel_key |-> OfferedKey(r.caller_offer),
     parent_record_hash |-> r.parent_record_hash]

(* build_holder_proof, for a key that is the leaf's subject. *)
HolderProof(r, audience, challenge) ==
    [challenge |-> challenge, signed_by |-> Leaf(r.chain).subject,
     body |-> ProofBody(r, audience, challenge)]

(* verify_holder_proof under the audience and the secret of this epoch. *)
VerifyHolderProof(epoch, r, now) ==
    /\ r.holder_proof # None
    /\ VerifyChallenge(epoch, r.holder_proof.challenge, now)
    /\ r.holder_proof.signed_by = Leaf(r.chain).subject
    /\ r.holder_proof.body = ProofBody(r, CalleeKey(epoch), r.holder_proof.challenge)

-----------------------------------------------------------------------------
(* caller_possession_transcript *)
Transcript(r, challenge, callee_key, caller_key) ==
    [challenge |-> challenge, callee_channel_key |-> callee_key,
     caller_channel_key |-> caller_key,
     credential_id |-> Leaf(r.chain).credential_id, subject |-> Leaf(r.chain).subject,
     requested_capability |-> r.requested_capability, record_id |-> r.record_id,
     payload |-> r.sealed_payload, parent_record_hash |-> r.parent_record_hash,
     holder_proof_signature |-> r.holder_proof]

(* prove_caller_possession: the MAC key comes from both channel keys. *)
CallerPossession(r, challenge, callee_key, caller_key) ==
    [mac_key |-> <<caller_key, callee_key>>,
     transcript |-> Transcript(r, challenge, callee_key, caller_key)]

VerifyCallerPossession(epoch, r) ==
    LET report == r.caller_offer.report
    IN  r.caller_possession =
            CallerPossession(r, report.nonce, CalleeKey(epoch), report.public_key)

(* appraise_caller_runtime: what is recorded about the caller's runtime,   *)
(* and whether the call is refused over it.  A node always has a challenge *)
(* secret and a channel key.                                               *)
AppraiseCallerRuntime(epoch, r, now) ==
    LET assurance == AppraiseCaller(epoch, r.caller_offer, now)
        appraised == IF assurance = "hardware" THEN "hardware" ELSE "software-only"
    IN  IF r.caller_offer = None
        THEN IF r.caller_possession # None
             THEN [refused |-> TRUE, outcome |-> "failed"]
             ELSE [refused |-> Requirement # "none", outcome |-> "not_offered"]
        ELSE IF assurance = "failed" \/ ~VerifyCallerPossession(epoch, r)
             THEN [refused |-> TRUE, outcome |-> "failed"]
             ELSE [refused |-> Requirement = "hardware" /\ appraised # "hardware",
                   outcome |-> appraised]
-----------------------------------------------------------------------------
(* What a caller with the arguments p puts on the wire after handshake h,  *)
(* step by step: the payload is sealed, the offer minted, then the proof   *)
(* over both, then the possession proof.  c stands for the record id and   *)
(* the channel key drawn for this call.  The proof covers a digest of the  *)
(* sealed bytes and not what they hold: a "damaged" payload is one that a  *)
(* caller which makes these calls itself broke after sealing it, so that   *)
(* no key opens it.                                                        *)
Built(c, p, h) ==
    LET key == h.offer.channel_public_key
        base == [chain |-> p.chain,
                 requested_capability |-> p.requested_capability,
                 record_id |-> c,
                 sealed_payload |->
                     IF p.payload = None THEN None
                     ELSE [to |-> IF p.payload = "damaged" THEN None ELSE key,
                           by |-> c, plain |-> p.payload],
                 parent_record_hash |-> p.parent_record_hash,
                 caller_offer |->
                     IF p.platform = None THEN None
                     ELSE ChannelOffer(CallerKey(c), h.challenge, "caller",
                                       p.platform, p.root),
                 holder_proof |-> None,
                 caller_possession |-> None]
        proved == [base EXCEPT !.holder_proof = HolderProof(base, key, h.challenge)]
    IN  IF p.platform = None THEN proved
        ELSE [proved EXCEPT !.caller_possession =
                  CallerPossession(proved, h.challenge, key, CallerKey(c))]

(* open_sealed: only the key it was sealed to opens a payload. *)
Opens(sealed, epoch) == sealed = None \/ sealed.to = CalleeKey(epoch)
=============================================================================
