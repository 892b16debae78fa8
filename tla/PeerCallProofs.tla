--------------------------- MODULE PeerCallProofs ---------------------------
(***************************************************************************)
(* Proofs, for any number of calls, threads, restarts and mixed requests   *)
(* and for chains of any length, of what PeerCall's runs check on two or   *)
(* three of each: Inv is inductive, and each property follows from it.     *)
(*                                                                         *)
(* The argument.  Every request on the wire is put together field by field *)
(* from requests send_task built (WireOK).  A built request names in its   *)
(* holder proof every field that matters and a challenge of one epoch      *)
(* (SentOK, HellosOK).  What each check of handle_peer_request established *)
(* stays true until the handler answers (ThreadOK): the request and the    *)
(* snapshot are the thread's own, and a new node or key comes only with a  *)
(* new process, which has no handlers from the old one.                    *)
(***************************************************************************)
EXTENDS PeerCall, WellFoundedInduction, TLAPS

(* First-order steps go to Zenon; those with arithmetic or records say SMT. *)
USE Zenon

(* The inductive invariant *)

NodeOK ==
    /\ clock \in Nat
    /\ epoch \in Nat
    /\ node # None => {node.ttl, node.max_depth} \subseteq Int
    /\ origin # None => /\ origin \in Configured
                        /\ node = StartFromConfig(origin.config, origin.host)
                        /\ node # Refused

(* A handshake response is the key and a challenge of one epoch; those of  *)
(* the running process show its platform.                                  *)
HelloOK(h) ==
    LET e == h.challenge.secret
    IN  /\ h.challenge \in Challenges
        /\ e <= epoch
        /\ h.offer = ChannelOffer(CalleeKey(e), h.challenge.rand, "callee",
                                  h.offer.report.platform, h.offer.report.root)
        /\ e = epoch => h.offer.report.platform = node.platform

HellosOK == \A h \in hellos : HelloOK(h)

BuiltFrom(s, p, h) ==
    /\ s = Built(s.record_id, p, h)
    /\ s.record_id \in hard => h.offer.report.platform # "software-only"

SentOK ==
    /\ cpc \in [Call -> {"idle", "handshake", "posted", "failed"}]
    /\ \A c \in hard : cpc[c] = "posted"
    /\ \A s \in sent : /\ s.record_id \in Call
                       /\ cpc[s.record_id] = "posted"
                       /\ \E p \in Plans, h \in hellos : BuiltFrom(s, p, h)
    /\ \A s1, s2 \in sent : s1.record_id = s2.record_id => s1 = s2

WireOK == \A m \in wire : \A f \in Fields : \E s \in sent : m[f] = s[f]

-----------------------------------------------------------------------------
(* How far a handler at p has come, whether it still runs or has answered. *)
AfterAllow(p, res) == p = "open" \/ res \in {"SealedChannelError", "accepted"}

Opened(r, res) ==
    /\ res = "accepted" => Opens(r.sealed_payload, epoch)
    /\ res = "SealedChannelError" => ~Opens(r.sealed_payload, epoch)

AfterAppraisal(p, res) ==
    AfterAllow(p, res) \/ p = "decide" \/ res = "ScopeNotPermitted"

AfterHolder(p, res) ==
    AfterAppraisal(p, res) \/ p = "appraise" \/ res = "AttestationFailed"

AfterChain(p, res) ==
    AfterHolder(p, res) \/ p = "holder" \/ res = "HolderProofInvalid"

(* What each check leaves behind. *)
ChainPasses(ch, sn) ==
    /\ ch[1].issuer \in node.roots
    /\ Len(ch) <= 1 + node.max_depth
    /\ \A n \in 1..Len(ch) : Leaf(ch).scope \subseteq ch[n].scope
    /\ sn # None => RevokedHops(ch, sn, None) = {}

ChainHolds(r, sn) == ChainPasses(r.chain, sn)

HolderHolds(r) ==
    /\ r.holder_proof.challenge.secret = epoch
    /\ r.holder_proof.body = ProofBody(r, CalleeKey(epoch), r.holder_proof.challenge)

RuntimeHolds(r, established) ==
    /\ established = RuntimeOf(r)
    /\ established = "hardware" => Appraised(node.verifier, r.caller_offer.report) = "hardware"
    /\ node.requirement = "hardware" => established = "hardware"
    /\ node.requirement = "any" => established # "not_offered"

GrantHolds(r) == r.requested_capability \in EffectiveScope(r.chain)

InTime(r, at) == at < r.holder_proof.challenge.expiry

(* A handler at p that works on request r under the snapshot sn, verified  *)
(* its proof at the time at, established the caller's runtime, emitted rec *)
(* and answers res.                                                        *)
HandlerOK(p, r, sn, at, established, rec, res) ==
    /\ p # "idle" => node # None /\ r \in wire
    /\ p # "done" => res = "none"
    /\ Opened(r, res)
    /\ AfterChain(p, res) => ChainHolds(r, sn)
    /\ AfterHolder(p, res) => HolderHolds(r)
    /\ AfterAppraisal(p, res) => RuntimeHolds(r, established)
    /\ AfterAllow(p, res) => GrantHolds(r) /\ rec.caller_attestation = established
    /\ rec # None => /\ p \in {"open", "done"} /\ AfterHolder(p, res)
                     /\ rec.decision = "allow" => AfterAllow(p, res)
    /\ at # None => AfterHolder(p, res) /\ InTime(r, at)
    /\ r \in sent => RefusalHasReason(r, res)

ThreadOK(t) ==
    HandlerOK(pc[t], req[t], snap[t], verified[t], outcome[t], record[t], result[t])

FunctionsOK ==
    /\ pc = [t \in Thread |-> pc[t]]
    /\ req = [t \in Thread |-> req[t]]
    /\ snap = [t \in Thread |-> snap[t]]
    /\ verified = [t \in Thread |-> verified[t]]
    /\ outcome = [t \in Thread |-> outcome[t]]
    /\ record = [t \in Thread |-> record[t]]
    /\ result = [t \in Thread |-> result[t]]

Inv ==
    /\ NodeOK
    /\ HellosOK
    /\ SentOK
    /\ WireOK
    /\ FunctionsOK
    /\ \A t \in Thread : ThreadOK(t)

-----------------------------------------------------------------------------
(* Positions of a sequence counted from its end. *)
LEMMA CountedFromEnd ==
    \A n \in Nat : \A k \in 1..(n - 1) :
        /\ n - k \in 1..n /\ n - (k - 1) \in 2..n /\ n - (k - 1) - 1 = n - k
        /\ k - 1 \in 0..(n - 1) /\ ~(k <= k - 1)
BY SMTT(30)

(* A non-empty set of numbers has a least one; a least counterexample is   *)
(* how the lemmas below do without induction.                              *)
LEMMA LeastNatural ==
    ASSUME NEW T \in SUBSET Nat, T # {}
    PROVE  \E n \in T : \A m \in T : n <= m
<1> DEFINE R == OpToRel(<, Nat)
<1>1. IsWellFoundedOn(R, Nat)
  BY NatLessThanWellFounded
<1>2. \A y, x \in Nat : y < x => <<y, x>> \in R
  BY DEF OpToRel
<1> HIDE DEF R
<1>3. PICK x \in T : \A y \in T : ~(<<y, x>> \in R)
  BY <1>1, WFMin
<1>4. \A y \in T : ~(y < x)
  BY <1>2, <1>3
<1> QED
  BY SMTT(30), <1>4

(* What verify_chain returns or raises: a hop never yields an acceptance,  *)
(* and no verdict is mistaken for the outcome of a later check.            *)
LEMMA HopErrorRefuses ==
    ASSUME NEW ch, NEW i, NEW seen, NEW now
    PROVE  HopError(ch, i, seen, now) \in Refusals \cup {"ok"}
BY DEF HopError, RootError, LinkError, Refusals

LEMMA VerdictRange ==
    ASSUME NEW ch, NEW now, NEW sn
    PROVE  VerifyChain(ch, None, now, sn) \in Accepted \cup Refusals
<1> DEFINE Err(i) == HopError(ch, i, IdsBefore(ch, i), now)
           failing == {i \in 1..Len(ch) : Err(i) # "ok"}
           first == CHOOSE i \in failing : \A j \in failing : i <= j
<1>1. ASSUME failing # {}
      PROVE  Err(first) \in Refusals
  <2>1. failing \in SUBSET Nat
    BY SMTT(30)
  <2> HIDE DEF failing
  <2>2. \E i \in failing : \A j \in failing : i <= j
    BY <1>1, <2>1, LeastNatural
  <2>3. first \in failing
    BY <2>2
  <2>4. Err(first) # "ok"
    BY <2>3 DEF failing
  <2> QED
    BY <2>4, HopErrorRefuses
<1>2. EntryError(ch) \in Refusals \cup {"ok"}
  BY DEF EntryError, Refusals
<1>3. VerifyChain(ch, None, now, sn) =
          IF EntryError(ch) # "ok" THEN EntryError(ch)
          ELSE IF failing # {} THEN Err(first)
          ELSE IF sn = None THEN UncheckedVerdict
          ELSE IF RevokedHops(ch, sn, None) # {} THEN "CredentialRevoked"
          ELSE StalenessVerdict(sn, now)
  BY DEF VerifyChain
<1> HIDE DEF failing, first, Err
<1> QED
  BY <1>1, <1>2, <1>3 DEF UncheckedVerdict, StalenessVerdict, Accepted, Refusals

(* An accepted chain starts at a trusted root, is no longer than the limit *)
(* allows, passes the leaf's scope down through every hop, and has no hop  *)
(* revoked in the snapshot.                                                *)
LEMMA AcceptedChainHolds ==
    ASSUME NEW ch \in Seq(DelegationCredential), NEW now, NEW sn,
           node.max_depth \in Int,
           VerifyChain(ch, None, now, sn) \in Accepted
    PROVE  ch # << >> /\ ChainPasses(ch, sn)
<1> DEFINE Err(i) == HopError(ch, i, IdsBefore(ch, i), now)
           failing == {i \in 1..Len(ch) : Err(i) # "ok"}
           first == CHOOSE i \in failing : \A j \in failing : i <= j
<1>1. VerifyChain(ch, None, now, sn) =
          IF EntryError(ch) # "ok" THEN EntryError(ch)
          ELSE IF failing # {} THEN Err(first)
          ELSE IF sn = None THEN UncheckedVerdict
          ELSE IF RevokedHops(ch, sn, None) # {} THEN "CredentialRevoked"
          ELSE StalenessVerdict(sn, now)
  BY DEF VerifyChain
<1>2. Err(first) \notin Accepted
  BY HopErrorRefuses DEF Accepted, Refusals
<1>3. EntryError(ch) = "ok"
  BY <1>1 DEF EntryError, Accepted
<1>4. ch # << >> /\ ch[1].issuer \in node.roots
  BY <1>3 DEF EntryError
<1>5. failing = {} /\ (sn # None => RevokedHops(ch, sn, None) = {})
  <2> HIDE DEF failing, first, Err
  <2> QED
    BY <1>1, <1>2, <1>3 DEF Accepted
<1>6. \A i \in 1..Len(ch) : HopError(ch, i, IdsBefore(ch, i), now) = "ok"
  BY <1>5
<1> HIDE DEF failing, first, Err
<1> DEFINE N == Len(ch)
<1>7. N \in Nat /\ N >= 1 /\ \A i \in 1..N : ch[i] \in DelegationCredential
  BY SMTT(30), <1>4
<1>8. \A i \in 1..N : ch[i].depth \in Nat /\ ch[i].depth <= node.max_depth
  BY SMTT(30), <1>6, <1>7 DEF HopError, DelegationCredential
<1>9. ch[1].depth = 0
  BY SMTT(30), <1>6, <1>7 DEF HopError, RootError
<1>10. \A i \in 2..N : /\ ch[i].depth = ch[i - 1].depth + 1
                       /\ ch[i].scope \subseteq ch[i - 1].scope
  BY SMTT(30), <1>6, <1>7 DEF HopError, LinkError
<1> HIDE DEF N
<1>11. \A i \in 1..N : ch[i].depth = i - 1
  <2> DEFINE T == {i \in 1..N : ch[i].depth # i - 1}
  <2> SUFFICES ASSUME T # {} PROVE FALSE
    OBVIOUS
  <2>1. T \in SUBSET Nat
    BY SMTT(30), <1>7
  <2>2. PICK n \in T : \A m \in T : n <= m
    <3> HIDE DEF T
    <3> QED BY <2>1, LeastNatural
  <2>3. n \in 2..N
    BY SMTT(30), <1>7, <1>9
  <2>4. n - 1 \in 1..N /\ n - 1 \notin T
    BY SMTT(30), <1>7, <2>1, <2>2, <2>3
  <2>5. ch[n - 1].depth = n - 2
    BY SMTT(30), <1>7, <2>4, <2>3
  <2> QED
    BY SMTT(30), <1>7, <1>10, <2>2, <2>3, <2>5
<1>12. N <= 1 + node.max_depth
  BY SMTT(30), <1>7, <1>8, <1>11
<1>13. \A n \in 1..N : ch[N].scope \subseteq ch[n].scope
  <2> DEFINE T == {k \in 0..(N - 1) : ~(ch[N].scope \subseteq ch[N - k].scope)}
  <2>1. ASSUME T # {} PROVE FALSE
    <3>1. T \in SUBSET Nat
      BY SMTT(30), <1>7
    <3>2. PICK k \in T : \A m \in T : k <= m
      <4> HIDE DEF T
      <4> QED BY <2>1, <3>1, LeastNatural
    <3>3. k \in 1..(N - 1)
      BY SMTT(30), <1>7, <3>2
    <3>4. k - 1 \in 0..(N - 1) /\ k - 1 \notin T
      <4> HIDE DEF T
      <4> QED BY <1>7, <3>2, <3>3, CountedFromEnd
    <3>5. ch[N].scope \subseteq ch[N - (k - 1)].scope
      BY <3>4
    <3>6. N - k \in 1..N /\ N - (k - 1) \in 2..N /\ N - (k - 1) - 1 = N - k
      BY <1>7, <3>3, CountedFromEnd
    <3>7. ch[N - (k - 1)].scope \subseteq ch[N - k].scope
      BY <1>10, <3>6
    <3> QED
      BY <3>2, <3>5, <3>7
  <2>2. TAKE n \in 1..N
  <2>3. N - n \in 0..(N - 1) /\ N - (N - n) = n
    BY SMTT(30), <1>7
  <2>4. ch[N].scope \subseteq ch[N - (N - n)].scope
    BY <2>1, <2>3
  <2> QED
    BY <2>3, <2>4
<1> QED
  BY <1>4, <1>5, <1>12, <1>13 DEF ChainPasses, Leaf, N

-----------------------------------------------------------------------------
(* What send_task builds *)

(* The holder proof and the possession proof of a built request speak of   *)
(* the request as it is sent: build_holder_proof and                       *)
(* prove_caller_possession see the fields that are final by then.          *)
BuiltAs(s, c, p, h) ==
    LET key == h.offer.channel_public_key
    IN  /\ s.chain = p.chain
        /\ s.requested_capability = p.requested_capability
        /\ s.record_id = c
        /\ s.sealed_payload = IF p.payload = None THEN None
                              ELSE [to |-> IF p.payload = "damaged" THEN None ELSE key,
                                    by |-> c, plain |-> p.payload]
        /\ s.parent_record_hash = p.parent_record_hash
        /\ s.caller_offer =
               IF p.platform = None THEN None
               ELSE ChannelOffer(CallerKey(c), h.challenge, "caller", p.platform, p.root)
        /\ s.holder_proof = HolderProof(s, key, h.challenge)
        /\ s.caller_possession =
               IF p.platform = None THEN None
               ELSE CallerPossession(s, h.challenge, key, CallerKey(c))

LEMMA BuiltFields ==
    ASSUME NEW c, NEW p, NEW h
    PROVE  BuiltAs(Built(c, p, h), c, p, h)
<1> DEFINE key == h.offer.channel_public_key
           sealed == IF p.payload = None THEN None
                     ELSE [to |-> IF p.payload = "damaged" THEN None ELSE key,
                           by |-> c, plain |-> p.payload]
           offer == IF p.platform = None THEN None
                    ELSE ChannelOffer(CallerKey(c), h.challenge, "caller",
                                      p.platform, p.root)
           base == [chain |-> p.chain, requested_capability |-> p.requested_capability,
                    record_id |-> c, sealed_payload |-> sealed,
                    parent_record_hash |-> p.parent_record_hash,
                    caller_offer |-> offer, holder_proof |-> None,
                    caller_possession |-> None]
           proof == HolderProof(base, key, h.challenge)
           proved == [base EXCEPT !.holder_proof = proof]
           possession == CallerPossession(proved, h.challenge, key, CallerKey(c))
           s == Built(c, p, h)
<1>1. s = IF p.platform = None THEN proved
          ELSE [proved EXCEPT !.caller_possession = possession]
  BY DEF Built
<1>2. \A f \in Fields \ {"holder_proof", "caller_possession"} :
          s[f] = base[f] /\ proved[f] = base[f]
  <2> HIDE DEF proof, possession, sealed, offer, key
  <2> QED BY <1>1 DEF Fields
<1>3. s.holder_proof = proof /\ proved.holder_proof = proof
  <2> HIDE DEF proof, possession, sealed, offer, key
  <2> QED BY <1>1
<1>4. s.caller_possession = IF p.platform = None THEN None ELSE possession
  <2> HIDE DEF proof, possession, sealed, offer, key
  <2> QED BY <1>1
<1>5. /\ s.chain = p.chain
      /\ s.requested_capability = p.requested_capability
      /\ s.record_id = c
      /\ s.sealed_payload = sealed
      /\ s.parent_record_hash = p.parent_record_hash
      /\ s.caller_offer = offer
  BY <1>2 DEF Fields
<1>6. proof = HolderProof(s, key, h.challenge)
  BY <1>5 DEF HolderProof, ProofBody
<1>7. possession = CallerPossession(s, h.challenge, key, CallerKey(c))
  <2>1. Transcript(proved, h.challenge, key, CallerKey(c))
            = Transcript(s, h.challenge, key, CallerKey(c))
    <3> HIDE DEF proof, possession, s
    <3> QED BY <1>3, <1>5 DEF Transcript
  <2> QED BY <2>1 DEF CallerPossession
<1> QED
  BY <1>3, <1>4, <1>5, <1>6, <1>7 DEF BuiltAs

(* None of what it makes is None. *)
LEMMA BuiltIsSomething ==
    ASSUME NEW c \in Call, NEW p \in Plans, NEW h, HelloOK(h), epoch \in Nat,
           NEW s, s = Built(c, p, h)
    PROVE  /\ s.holder_proof \in HolderProofs
           /\ s.holder_proof # None
           /\ p.platform # None => /\ s.caller_offer \in CallerOffers
                                   /\ s.caller_offer # None
<1>0. BuiltAs(s, c, p, h)
  BY BuiltFields
<1>1. p \in Plan
  BY PlanAssumption
<1>2. Leaf(p.chain) \in DelegationCredential
  BY SMTT(30), <1>1 DEF Plan, Leaf
<1>3. h.challenge \in Challenges /\ h.offer.channel_public_key \in CalleeKeys
  BY SMTT(30) DEF HelloOK, ChannelOffer, CalleeKey, CalleeKeys, Challenges
<1>4. CallerKey(c) \in CallerKeys
  BY DEF CallerKey, CallerKeys
<1>5. ASSUME p.platform # None
      PROVE  s.caller_offer \in CallerOffers
  BY SMTT(30), <1>0, <1>1, <1>3, <1>4, <1>5 DEF BuiltAs, ChannelOffer, CallerOffers, Plan
<1>6. OfferedKey(s.caller_offer) \in {None} \cup CallerKeys
  BY SMTT(30), <1>0, <1>4 DEF BuiltAs, OfferedKey, ChannelOffer
<1>7. s.sealed_payload \in {None} \cup [to : CalleeKeys \cup {None}, by : Call,
                                       plain : {"task", "damaged"}]
  BY SMTT(30), <1>0, <1>1, <1>3 DEF BuiltAs, Plan
<1>8. s.holder_proof \in HolderProofs
  <2>1. /\ s.holder_proof = HolderProof(s, h.offer.channel_public_key, h.challenge)
        /\ Leaf(s.chain) \in DelegationCredential
        /\ s.requested_capability \in Cap
        /\ s.record_id \in Call
        /\ s.parent_record_hash \in {None} \cup Call
    BY <1>0, <1>1, <1>2 DEF BuiltAs, Plan
  <2>2. ProofBody(s, h.offer.channel_public_key, h.challenge) \in
            [audience : CalleeKeys, challenge : Challenges, credential_id : CredId,
             subject : Key, requested_capability : Cap, record_id : Call,
             payload : {None} \cup [to : CalleeKeys \cup {None}, by : Call,
                                    plain : {"task", "damaged"}],
             caller_channel_key : {None} \cup CallerKeys,
             parent_record_hash : {None} \cup Call]
    BY <1>3, <1>6, <1>7, <2>1 DEF ProofBody, DelegationCredential
  <2> QED
    BY SMTT(30), <1>3, <2>1, <2>2 DEF HolderProof, HolderProofs, DelegationCredential
<1> QED
  BY <1>5, <1>8, NoneIsNoValue

-----------------------------------------------------------------------------
(* Requests on the wire *)

Carried == NodeOK /\ HellosOK /\ SentOK /\ WireOK

(* A built request, with the plan and the handshake it was built from. *)
Source(s, p, h) ==
    /\ s.record_id \in Call
    /\ p \in Plan
    /\ HelloOK(h)
    /\ BuiltFrom(s, p, h)
    /\ BuiltAs(s, s.record_id, p, h)

LEMMA SentHasSource ==
    ASSUME Carried, NEW s \in sent
    PROVE  \E p \in Plans, h \in hellos : Source(s, p, h)
<1>1. PICK p \in Plans, h \in hellos : BuiltFrom(s, p, h)
  BY DEF Carried, SentOK
<1>2. s.record_id \in Call /\ HelloOK(h) /\ p \in Plan
  BY PlanAssumption DEF Carried, SentOK, HellosOK
<1>3. BuiltAs(Built(s.record_id, p, h), s.record_id, p, h)
  BY BuiltFields
<1>4. BuiltAs(s, s.record_id, p, h)
  BY <1>1, <1>3 DEF BuiltFrom
<1> QED
  BY <1>1, <1>2, <1>4 DEF Source

(* Each field of a request that may reach the callee was built so. *)
LEMMA WireFields ==
    ASSUME Carried, NEW m \in wire
    PROVE  /\ \E s \in sent : m.chain = s.chain
           /\ \E s \in sent : m.record_id = s.record_id
           /\ \E s \in sent : m.caller_offer = s.caller_offer
           /\ \E s \in sent : m.holder_proof = s.holder_proof
BY DEF Carried, WireOK, Fields

LEMMA WireChain ==
    ASSUME Carried, NEW m \in wire
    PROVE  m.chain \in Seq(DelegationCredential) /\ m.chain # << >>
<1>1. PICK s \in sent : m.chain = s.chain
  BY WireFields
<1>2. PICK p \in Plans, h \in hellos : Source(s, p, h)
  BY SentHasSource
<1> QED
  BY <1>1, <1>2 DEF Source, BuiltAs, Plan

(* A verified holder proof names the call: the request that carries it     *)
(* says what the request it was made for says, and that one was built for  *)
(* this process.                                                           *)
Names(r, s, p, h) ==
    /\ Source(s, p, h)
    /\ s.holder_proof = r.holder_proof
    /\ h.challenge = r.holder_proof.challenge
    /\ h.challenge.secret = epoch
    /\ SameCall(r, s)
    /\ OfferedKey(r.caller_offer) = OfferedKey(s.caller_offer)

LEMMA HolderNamesCall ==
    ASSUME Carried, NEW r \in wire, HolderHolds(r)
    PROVE  \E s \in sent, p \in Plans, h \in hellos : Names(r, s, p, h)
<1>1. PICK s \in sent : r.holder_proof = s.holder_proof
  BY WireFields
<1>2. PICK p \in Plans, h \in hellos : Source(s, p, h)
  BY SentHasSource
<1> DEFINE key == h.offer.channel_public_key
<1>3. /\ s.holder_proof.challenge = h.challenge
      /\ s.holder_proof.body = ProofBody(s, key, h.challenge)
  BY SMTT(30), <1>2 DEF Source, BuiltAs, HolderProof
<1>4. ProofBody(s, key, h.challenge) = ProofBody(r, CalleeKey(epoch), h.challenge)
  BY <1>1, <1>3 DEF HolderHolds
<1>5. SameCall(r, s) /\ OfferedKey(r.caller_offer) = OfferedKey(s.caller_offer)
  BY <1>4 DEF ProofBody, SameCall
<1> QED
  BY <1>1, <1>2, <1>3, <1>5 DEF Names, HolderHolds

-----------------------------------------------------------------------------
(* The checks of handle_peer_request *)

(* appraise_caller_runtime lets a call pass only with what the offer says, *)
(* and only where that meets the node's requirement.                       *)
LEMMA AppraisalHolds ==
    ASSUME Carried, NEW r \in wire,
           ~AppraiseCallerRuntime(epoch, r, clock).refused
    PROVE  RuntimeHolds(r, AppraiseCallerRuntime(epoch, r, clock).outcome)
<1> DEFINE a == AppraiseCallerRuntime(epoch, r, clock)
           assurance == AppraiseCaller(epoch, r.caller_offer, clock)
<1>1. PICK s \in sent : r.caller_offer = s.caller_offer
  BY WireFields
<1>2. PICK p \in Plans, h \in hellos : Source(s, p, h)
  BY SentHasSource
<1>3. CASE r.caller_offer = None
  BY <1>3 DEF AppraiseCallerRuntime, RuntimeHolds, RuntimeOf
<1>4. CASE r.caller_offer # None
  <2> DEFINE report == r.caller_offer.report
  <2>2. /\ assurance # "failed"
        /\ a.outcome = IF assurance = "hardware" THEN "hardware" ELSE "software-only"
        /\ ~(node.requirement = "hardware" /\ a.outcome # "hardware")
    BY <1>4 DEF AppraiseCallerRuntime
  <2>3. IF report.platform = "software-only" THEN assurance = "none"
        ELSE assurance = Appraised(node.verifier, report)
    BY <2>2 DEF AppraiseCaller, VerifyOffer
  <2>4. Appraised(node.verifier, report) \in {"hardware", "failed"}
    BY DEF Appraised
  <2>5. a.outcome = RuntimeOf(r)
    BY <1>4, <2>2, <2>3, <2>4 DEF RuntimeOf
  <2>6. a.outcome = "hardware" => Appraised(node.verifier, report) = "hardware"
    BY <2>2, <2>3, <2>4
  <2>7. a.outcome # "not_offered"
    BY <2>2
  <2> QED
    BY <2>2, <2>5, <2>6, <2>7 DEF RuntimeHolds
<1> QED
  BY <1>3, <1>4

(* An unaltered request fails verify_holder_proof only for its challenge. *)
LEMMA HonestProof ==
    ASSUME Carried, NEW r \in sent, ~VerifyHolderProof(epoch, r, clock)
    PROVE  LET challenge == r.holder_proof.challenge
           IN  challenge.secret # epoch \/ challenge.expiry <= clock
<1>1. PICK p \in Plans, h \in hellos : Source(r, p, h)
  BY SentHasSource
<1>2. /\ r.holder_proof = HolderProof(r, h.offer.channel_public_key, h.challenge)
      /\ h.challenge.expiry \in Int
      /\ clock \in Nat
      /\ h.offer.channel_public_key = CalleeKey(h.challenge.secret)
  BY SMTT(30), <1>1 DEF Source, BuiltAs, HelloOK, ChannelOffer, Challenges, Carried, NodeOK
<1>3. r.holder_proof # None
  BY <1>1, BuiltIsSomething DEF Source, BuiltFrom, Carried, NodeOK
<1> QED
  BY SMTT(30), <1>2, <1>3 DEF VerifyHolderProof, VerifyChallenge, HolderProof

(* An unaltered request fails appraise_caller_runtime only for a           *)
(* requirement it does not meet, or for its challenge.                     *)
LEMMA HonestAppraisal ==
    ASSUME Carried, NEW r \in sent, HolderHolds(r),
           AppraiseCallerRuntime(epoch, r, clock).refused
    PROVE  Unmet(r.caller_offer) \/ r.holder_proof.challenge.expiry <= clock
<1> DEFINE assurance == AppraiseCaller(epoch, r.caller_offer, clock)
<1>1. PICK p \in Plans, h \in hellos : Source(r, p, h)
  BY SentHasSource
<1> DEFINE key == h.offer.channel_public_key
<1>2. /\ r.holder_proof.challenge = h.challenge
      /\ h.challenge.secret = epoch
      /\ h.challenge.expiry \in Int
      /\ clock \in Nat
      /\ key = CalleeKey(epoch)
  BY SMTT(30), <1>1 DEF Source, BuiltAs, HolderProof, HolderHolds, HelloOK, ChannelOffer,
              Challenges, Carried, NodeOK
<1>3. CASE p.platform = None
  BY <1>1, <1>3 DEF Source, BuiltAs, AppraiseCallerRuntime, Unmet
<1>4. CASE p.platform # None
  <2>1. r.caller_offer = ChannelOffer(CallerKey(r.record_id), h.challenge, "caller",
                                      p.platform, p.root)
    BY <1>1, <1>4 DEF Source, BuiltAs
  <2>2. r.caller_offer # None
    BY <1>1, <1>4, BuiltIsSomething DEF Source, BuiltFrom, Carried, NodeOK
  <2>3. VerifyCallerPossession(epoch, r)
    BY SMTT(30), <1>1, <1>2, <1>4, <2>1
       DEF Source, BuiltAs, VerifyCallerPossession, ChannelOffer
  <2> DEFINE report == r.caller_offer.report
  <2>4. /\ report.platform = p.platform
        /\ report.role = "caller"
        /\ report.public_key = r.caller_offer.channel_public_key
        /\ report.nonce = h.challenge
    BY SMTT(30), <2>1 DEF ChannelOffer
  <2>5. ASSUME clock < h.challenge.expiry
        PROVE  assurance = IF p.platform = "software-only" THEN "none"
                           ELSE Appraised(node.verifier, report)
    BY <1>2, <2>4, <2>5 DEF AppraiseCaller, VerifyChallenge, VerifyOffer
  <2>6. ASSUME clock < h.challenge.expiry
        PROVE  Unmet(r.caller_offer)
    <3>1. \/ assurance = "failed"
          \/ node.requirement = "hardware" /\ assurance # "hardware"
      BY <2>2, <2>3 DEF AppraiseCallerRuntime
    <3>2. Appraised(node.verifier, report) \in {"hardware", "failed"}
      BY DEF Appraised
    <3> QED
      BY <2>2, <2>4, <2>5, <2>6, <3>1, <3>2 DEF Unmet
  <2> QED
    BY SMTT(30), <1>2, <2>6
<1> QED
  BY <1>3, <1>4

-----------------------------------------------------------------------------
(* The invariant is inductive *)

LEMMA NoReasonNeeded ==
    ASSUME NEW r, NEW error, error \notin {"HolderProofInvalid", "AttestationFailed"}
    PROVE  RefusalHasReason(r, error) /\ RefusalHasReason(r, error)'
BY DEF RefusalHasReason

LEMMA NothingOpened ==
    ASSUME NEW r, NEW error, error \notin {"accepted", "SealedChannelError"}
    PROVE  Opened(r, error) /\ Opened(r, error)'
BY DEF Opened

LEMMA IdleHandler ==
    ASSUME NEW r, NEW sn, NEW established
    PROVE  /\ HandlerOK("idle", r, sn, None, established, None, "none")
           /\ HandlerOK("idle", r, sn, None, established, None, "none")'
BY SMTT(30), NoReasonNeeded, NothingOpened
   DEF HandlerOK, AfterChain, AfterHolder, AfterAppraisal, AfterAllow

LEMMA InitInv == Init => Inv
<1> SUFFICES ASSUME Init PROVE Inv
  OBVIOUS
<1>1. NodeOK /\ HellosOK /\ SentOK /\ WireOK /\ FunctionsOK
  BY DEF Init, NodeOK, HellosOK, SentOK, WireOK, FunctionsOK
<1>2. ASSUME NEW t \in Thread PROVE ThreadOK(t)
  BY IdleHandler DEF Init, ThreadOK
<1> QED
  BY <1>1, <1>2 DEF Inv

(* The parts of the invariant that a step leaves alone. *)
LEMMA NodeFrame == NodeOK /\ UNCHANGED process /\ clock' \in Nat => NodeOK'
BY DEF NodeOK, process

LEMMA HellosFrame == HellosOK /\ UNCHANGED <<process, hellos>> => HellosOK'
BY DEF HellosOK, HelloOK, process

LEMMA SentFrame == SentOK /\ UNCHANGED <<caller, hellos>> => SentOK'
BY ZenonT(40) DEF SentOK, BuiltFrom, caller

LEMMA WireFrame == WireOK /\ UNCHANGED <<caller, wire>> => WireOK'
BY DEF WireOK, caller

LEMMA FunctionsFrame == FunctionsOK /\ UNCHANGED callee => FunctionsOK'
BY DEF FunctionsOK, callee

(* What a check left behind holds as long as the process runs. *)
LEMMA ProcessFrame ==
    ASSUME UNCHANGED process, NEW r, NEW x
    PROVE  /\ ChainHolds(r, x)' <=> ChainHolds(r, x)
           /\ HolderHolds(r)' <=> HolderHolds(r)
           /\ RuntimeHolds(r, x)' <=> RuntimeHolds(r, x)
           /\ GrantHolds(r)' <=> GrantHolds(r)
           /\ Opened(r, x)' <=> Opened(r, x)
           /\ Unmet(x)' <=> Unmet(x)
<1>1. epoch' = epoch /\ node' = node
  BY DEF process
<1>2. ChainHolds(r, x)' <=> ChainHolds(r, x)
  BY <1>1 DEF ChainHolds, ChainPasses
<1>3. HolderHolds(r)' <=> HolderHolds(r)
  BY <1>1 DEF HolderHolds
<1>4. RuntimeHolds(r, x)' <=> RuntimeHolds(r, x)
  BY <1>1 DEF RuntimeHolds, Appraised
<1>5. GrantHolds(r)' <=> GrantHolds(r)
  BY <1>1 DEF GrantHolds, EffectiveScope
<1>6. Unmet(x)' <=> Unmet(x)
  BY <1>1 DEF Unmet, Appraised
<1>7. Opened(r, x)' <=> Opened(r, x)
  BY <1>1 DEF Opened, Opens
<1> QED
  BY <1>2, <1>3, <1>4, <1>5, <1>6, <1>7

(* A reason to refuse stays one: challenges do not come to life again. *)
LEMMA ReasonFrame ==
    ASSUME Carried, UNCHANGED process, clock' \in Nat, clock <= clock',
           NEW r \in sent, NEW error, RefusalHasReason(r, error)
    PROVE  RefusalHasReason(r, error)'
<1>1. PICK p \in Plans, h \in hellos : Source(r, p, h)
  BY SentHasSource
<1> DEFINE challenge == r.holder_proof.challenge
<1>2. challenge.expiry \in Int
  BY SMTT(30), <1>1 DEF Source, BuiltAs, HolderProof, HelloOK, Challenges
<1>3. clock \in Nat
  BY DEF Carried, NodeOK
<1>4. Unmet(r.caller_offer)' <=> Unmet(r.caller_offer)
  BY ProcessFrame
<1>5. epoch' = epoch
  BY DEF process
<1>6. challenge.expiry <= clock => challenge.expiry <= clock'
  BY SMTT(30), <1>2, <1>3
<1> QED
  BY <1>4, <1>5, <1>6 DEF RefusalHasReason

(* What a handler established outlives every step that is not its own. *)
LEMMA HandlerFrame ==
    ASSUME Carried, UNCHANGED process, wire \subseteq wire', clock' \in Nat, clock <= clock',
           NEW p, NEW r, NEW sn, NEW at, NEW established, NEW rec, NEW res,
           HandlerOK(p, r, sn, at, established, rec, res),
           (p # "idle" /\ r \in sent') => r \in sent
    PROVE  HandlerOK(p, r, sn, at, established, rec, res)'
<1>1. /\ ChainHolds(r, sn)' <=> ChainHolds(r, sn)
      /\ HolderHolds(r)' <=> HolderHolds(r)
      /\ RuntimeHolds(r, established)' <=> RuntimeHolds(r, established)
      /\ GrantHolds(r)' <=> GrantHolds(r)
      /\ Opened(r, res)' <=> Opened(r, res)
      /\ node' = node
  BY ProcessFrame DEF process
<1>2. ASSUME r \in sent' PROVE RefusalHasReason(r, res)'
  <2>1. CASE res = "none"
    BY SMTT(30), <2>1, NoReasonNeeded
  <2>2. CASE res # "none"
    <3>1. r \in sent /\ RefusalHasReason(r, res)
      BY <1>2, <2>2 DEF HandlerOK
    <3> QED
      BY <3>1, ReasonFrame
  <2> QED
    BY <2>1, <2>2
<1>3. InTime(r, at)' <=> InTime(r, at)
  BY DEF InTime
<1> QED
  BY <1>1, <1>2, <1>3 DEF HandlerOK, AfterChain, AfterHolder, AfterAppraisal, AfterAllow

LEMMA ThreadFrame ==
    ASSUME Inv, UNCHANGED <<process, callee>>, wire \subseteq wire', clock' \in Nat,
           clock <= clock', NEW t \in Thread,
           (pc[t] # "idle" /\ req[t] \in sent') => req[t] \in sent
    PROVE  ThreadOK(t)'
<1>1. Carried /\ ThreadOK(t)
  BY DEF Inv, Carried
<1>2. HandlerOK(pc[t], req[t], snap[t], verified[t], outcome[t], record[t], result[t])'
  <2> DEFINE p == pc[t]
             r == req[t]
             sn == snap[t]
             at == verified[t]
             est == outcome[t]
             rec == record[t]
             res == result[t]
  <2>1. HandlerOK(p, r, sn, at, est, rec, res) /\ ((p # "idle" /\ r \in sent') => r \in sent)
    BY <1>1 DEF ThreadOK
  <2>2. p' = p /\ r' = r /\ sn' = sn /\ at' = at /\ est' = est /\ rec' = rec /\ res' = res
    BY DEF callee
  <2> HIDE DEF p, r, sn, at, est, rec, res
  <2>3. HandlerOK(p, r, sn, at, est, rec, res)'
    BY <1>1, <2>1, <2>2, HandlerFrame
  <2> QED
    BY <2>3 DEF p, r, sn, at, est, rec, res
<1> QED
  BY <1>2 DEF ThreadOK

LEMMA TickStep == Inv /\ Tick => Inv'
<1> SUFFICES ASSUME Inv, Tick PROVE Inv'
  OBVIOUS
<1>1. clock' \in Nat /\ clock <= clock'
  BY SMTT(30) DEF Inv, NodeOK, Tick
<1>2. NodeOK' /\ HellosOK' /\ SentOK' /\ WireOK' /\ FunctionsOK'
  BY <1>1, NodeFrame, HellosFrame, SentFrame, WireFrame, FunctionsFrame DEF Inv, Tick
<1>3. ASSUME NEW t \in Thread PROVE ThreadOK(t)'
  BY <1>1, ThreadFrame DEF Tick, caller
<1> QED
  BY <1>2, <1>3 DEF Inv

LEMMA RefreshFeedStep == Inv /\ RefreshFeed => Inv'
<1> SUFFICES ASSUME Inv, RefreshFeed PROVE Inv'
  OBVIOUS
<1>1. clock' \in Nat /\ clock <= clock'
  BY SMTT(30) DEF Inv, NodeOK, RefreshFeed
<1>2. NodeOK' /\ HellosOK' /\ SentOK' /\ WireOK' /\ FunctionsOK'
  BY <1>1, NodeFrame, HellosFrame, SentFrame, WireFrame, FunctionsFrame DEF Inv, RefreshFeed
<1>3. ASSUME NEW t \in Thread PROVE ThreadOK(t)'
  BY <1>1, ThreadFrame DEF RefreshFeed, caller
<1> QED
  BY <1>2, <1>3 DEF Inv

(* A node that ca2a start or an application built has integers where       *)
(* PeerNode declares them.                                                 *)
LEMMA ConfiguredNumbers ==
    ASSUME NEW s \in Configured, StartFromConfig(s.config, s.host) # Refused
    PROVE  LET built == StartFromConfig(s.config, s.host)
           IN  {built.ttl, built.max_depth} \subseteq Int
<1> DEFINE d == s.config
           built == StartFromConfig(d, s.host)
<1>1. NumbersValid(d) /\ built = BuildPeerNode(d, s.host)
  BY DEF StartFromConfig, ConfigValid
<1>2. /\ built.ttl = Default(d.ttl, 60)
      /\ built.max_depth = IF d.max_depth = PyTrue THEN 1 ELSE Default(d.max_depth, 8)
  BY SMTT(30), <1>1 DEF BuildPeerNode, PeerNode
<1>3. {d.ttl, d.max_depth} \subseteq Int \cup {None, Rubbish, PyTrue}
  BY ConfiguredAssumption
<1> QED
  BY SMTT(30), <1>1, <1>2, <1>3 DEF NumbersValid, Default

LEMMA StartedStep ==
    ASSUME NEW built, NEW o, Inv, Started(built), origin' = o,
           built # None => {built.ttl, built.max_depth} \subseteq Int,
           o # None => /\ o \in Configured
                       /\ built = StartFromConfig(o.config, o.host)
    PROVE  Inv'
<1>1. NodeOK'
  BY SMTT(30) DEF Inv, NodeOK, Started
<1>2. HellosOK'
  <2> SUFFICES ASSUME NEW h \in hellos PROVE HelloOK(h)'
    BY DEF HellosOK, Started
  <2>1. HelloOK(h) /\ h.challenge.secret \in Nat /\ epoch \in Nat /\ epoch' = epoch + 1
    BY DEF Inv, NodeOK, HellosOK, HelloOK, Challenges, Started
  <2>2. h.challenge.secret # epoch' /\ h.challenge.secret <= epoch'
    BY SMTT(30), <2>1 DEF HelloOK
  <2> QED
    BY <2>1, <2>2 DEF HelloOK
<1>3. SentOK' /\ WireOK'
  BY ZenonT(40) DEF Inv, SentOK, BuiltFrom, WireOK, Started, caller
<1>4. FunctionsOK'
  BY DEF FunctionsOK, Started
<1>5. ASSUME NEW t \in Thread PROVE ThreadOK(t)'
  BY IdleHandler DEF Started, ThreadOK
<1> QED
  BY <1>1, <1>2, <1>3, <1>4, <1>5 DEF Inv

LEMMA StartConfiguredStep ==
    ASSUME NEW s \in Configured, Inv, StartConfigured(s)
    PROVE  Inv'
<1>1. StartFromConfig(s.config, s.host) # Refused
  BY DEF StartConfigured, Started
<1> QED
  BY <1>1, ConfiguredNumbers, StartedStep DEF StartConfigured

LEMMA StartEmbeddedStep ==
    ASSUME NEW a \in Embedded, Inv, StartEmbedded(a)
    PROVE  Inv'
<1>1. PeerNode(a) = a /\ {a.ttl, a.max_depth} \subseteq Int
  BY EmbeddedAssumption DEF StartEmbedded, Started, PeerNode, NodeArgs
<1> QED
  BY <1>1, StartedStep DEF StartEmbedded

LEMMA MixStep ==
    ASSUME NEW m1 \in wire, NEW m2 \in wire,
           NEW taken \in SUBSET (Fields \ {"holder_proof"}), Inv, Mix(m1, m2, taken)
    PROVE  Inv'
<1>1. UNCHANGED <<clock, process, feed, hellos, caller, callee>> /\ wire \subseteq wire'
  BY DEF Mix
<1>2. clock' \in Nat /\ clock <= clock'
  BY SMTT(30), <1>1 DEF Inv, NodeOK
<1>3. NodeOK' /\ HellosOK' /\ SentOK' /\ FunctionsOK'
  BY <1>1, <1>2, NodeFrame, HellosFrame, SentFrame, FunctionsFrame DEF Inv
<1>4. WireOK'
  BY SMTT(30) DEF Inv, WireOK, Mix, caller
<1>5. ASSUME NEW t \in Thread PROVE ThreadOK(t)'
  BY <1>1, <1>2, ThreadFrame DEF caller
<1> QED
  BY <1>3, <1>4, <1>5 DEF Inv

LEMMA StartStep ==
    ASSUME NEW c \in Call, Inv, Start(c)
    PROVE  Inv'
<1>1. UNCHANGED <<clock, process, feed, hellos, sent, hard, wire, mixed, callee>>
  BY DEF Start
<1>2. clock' \in Nat /\ clock <= clock'
  BY SMTT(30), <1>1 DEF Inv, NodeOK
<1>3. NodeOK' /\ HellosOK' /\ WireOK' /\ FunctionsOK'
  BY <1>1, <1>2, NodeFrame, HellosFrame, FunctionsFrame DEF Inv, WireOK
<1>4. SentOK'
  BY SMTT(30) DEF Inv, SentOK, BuiltFrom, Start
<1>5. ASSUME NEW t \in Thread PROVE ThreadOK(t)'
  BY <1>1, <1>2, ThreadFrame
<1> QED
  BY <1>3, <1>4, <1>5 DEF Inv

LEMMA ServeHelloStep ==
    ASSUME NEW c \in Call, Inv, ServeHello(c)
    PROVE  Inv'
<1> DEFINE new == [offer |-> ChannelOffer(CalleeKey(epoch), c, "callee",
                                          node.platform, node.root),
                   challenge |-> Challenge(epoch, c, clock)]
<1>1. /\ UNCHANGED <<clock, process, feed, caller, wire, mixed, callee>>
      /\ hellos' = hellos \cup {new}
      /\ node # None
  BY DEF ServeHello
<1>2. clock \in Nat /\ clock' \in Nat /\ clock <= clock' /\ epoch \in Nat /\ epoch' = epoch
  BY SMTT(30), <1>1 DEF Inv, NodeOK, process
<1>3. NodeOK' /\ WireOK' /\ FunctionsOK'
  BY <1>1, <1>2, NodeFrame, WireFrame, FunctionsFrame DEF Inv
<1>4. HellosOK'
  <2> SUFFICES ASSUME NEW h \in hellos' PROVE HelloOK(h)'
    BY DEF HellosOK
  <2>1. CASE h = new
    <3>1. node.ttl \in Int /\ node' = node
      BY <1>1 DEF Inv, NodeOK, process
    <3>2. h.challenge \in Challenges /\ h.challenge.secret = epoch /\ h.challenge.rand = c
      BY SMTT(30), <1>2, <2>1, <3>1 DEF Challenge, Challenges
    <3>3. /\ h.offer = ChannelOffer(CalleeKey(epoch), c, "callee", node.platform, node.root)
          /\ h.offer.report.platform = node.platform
          /\ h.offer.report.root = node.root
      BY <2>1 DEF ChannelOffer
    <3> QED
      BY SMTT(30), <1>2, <3>1, <3>2, <3>3 DEF HelloOK
  <2>2. CASE h \in hellos
    BY <1>1, <2>2 DEF Inv, HellosOK, HelloOK, process
  <2> QED
    BY <1>1, <2>1, <2>2
<1>5. SentOK'
  BY ZenonT(40), <1>1 DEF Inv, SentOK, BuiltFrom, caller
<1>6. ASSUME NEW t \in Thread PROVE ThreadOK(t)'
  BY <1>1, <1>2, ThreadFrame DEF caller
<1> QED
  BY <1>3, <1>4, <1>5, <1>6 DEF Inv

LEMMA SendTaskStep ==
    ASSUME NEW c \in Call, NEW p \in Plans, NEW h \in hellos, Inv, SendTask(c, p, h)
    PROVE  Inv'
<1> DEFINE s == Built(c, p, h)
<1>1. UNCHANGED <<clock, process, feed, hellos, mixed, callee>>
  BY DEF SendTask
<1>2. clock' \in Nat /\ clock <= clock'
  BY SMTT(30), <1>1 DEF Inv, NodeOK
<1>3. NodeOK' /\ HellosOK' /\ FunctionsOK'
  BY <1>1, <1>2, NodeFrame, HellosFrame, FunctionsFrame DEF Inv
<1>4. cpc[c] = "handshake"
  BY DEF SendTask
<1>5. c \notin hard /\ \A s0 \in sent : s0.record_id # c
  BY <1>4 DEF Inv, SentOK
<1>6. CASE UNCHANGED <<sent, hard, wire>> /\ cpc' = [cpc EXCEPT ![c] = "failed"]
  <2>1. SentOK' /\ WireOK'
    BY SMTT(30), <1>1, <1>4, <1>5, <1>6 DEF Inv, SentOK, BuiltFrom, WireOK
  <2>2. ASSUME NEW t \in Thread PROVE ThreadOK(t)'
    BY <1>1, <1>2, <1>6, ThreadFrame
  <2> QED
    BY <1>3, <2>1, <2>2 DEF Inv
<1>7. CASE /\ cpc' = [cpc EXCEPT ![c] = "posted"]
           /\ sent' = sent \cup {s}
           /\ hard' = IF p.require_hardware THEN hard \cup {c} ELSE hard
           /\ wire' = wire \cup {s}
           /\ VerifyOffer(h.offer, c, p.verifier, p.require_hardware, "callee") # "failed"
  <2>1. s.record_id = c
    <3>1. BuiltAs(s, c, p, h)
      BY BuiltFields
    <3> QED
      BY <3>1 DEF BuiltAs
  <2>2. c \in hard' => h.offer.report.platform # "software-only"
    BY <1>5, <1>7 DEF VerifyOffer
  <2>3. BuiltFrom(s, p, h)'
    BY <2>1, <2>2 DEF BuiltFrom
  <2>4. ASSUME NEW s0 \in sent
        PROVE  \E p0 \in Plans, h0 \in hellos : BuiltFrom(s0, p0, h0)'
    BY <1>5, <1>7 DEF Inv, SentOK, BuiltFrom
  <2> HIDE DEF s
  <2>5. SentOK'
    <3>1. cpc' \in [Call -> {"idle", "handshake", "posted", "failed"}] /\ cpc'[c] = "posted"
      BY <1>7 DEF Inv, SentOK
    <3>2. \A d \in hard' : cpc'[d] = "posted"
      BY SMTT(30), <1>4, <1>7 DEF Inv, SentOK
    <3>3. \A s0 \in sent : s0.record_id \in Call /\ cpc'[s0.record_id] = "posted"
      BY <1>4, <1>7 DEF Inv, SentOK
    <3>4. UNCHANGED hellos
      BY <1>1
    <3>5. \A s0 \in sent' : /\ s0.record_id \in Call
                            /\ cpc'[s0.record_id] = "posted"
                            /\ \E p0 \in Plans, h0 \in hellos' : BuiltFrom(s0, p0, h0)'
      BY <1>7, <2>1, <2>3, <2>4, <3>1, <3>3, <3>4
    <3>6. \A s1, s2 \in sent' : s1.record_id = s2.record_id => s1 = s2
      BY <1>5, <1>7, <2>1 DEF Inv, SentOK
    <3> QED
      BY <3>1, <3>2, <3>5, <3>6 DEF SentOK
  <2>6. WireOK'
    BY <1>7 DEF Inv, WireOK
  <2>7. ASSUME NEW t \in Thread PROVE ThreadOK(t)'
    <3>1. ASSUME pc[t] # "idle" PROVE req[t] # s
      <4>1. req[t] \in wire /\ Carried
        BY <3>1 DEF Inv, ThreadOK, HandlerOK, Carried
      <4> QED
        BY <1>5, <2>1, <4>1, WireFields
    <3> QED
      BY <1>1, <1>2, <1>7, <3>1, ThreadFrame
  <2> QED
    BY <1>3, <2>5, <2>6, <2>7 DEF Inv
<1> QED
  BY <1>6, <1>7 DEF SendTask
-----------------------------------------------------------------------------
(* The steps of the handlers *)

(* A step of one handler leaves everything alone but the handler's own     *)
(* variables, so only the new values of those have to be good.             *)
OwnStep(t, p, r, sn, at, established, rec, res) ==
    /\ UNCHANGED <<clock, process, feed, hellos, caller, wire, mixed>>
    /\ pc' = [pc EXCEPT ![t] = p]
    /\ req' = [req EXCEPT ![t] = r]
    /\ snap' = [snap EXCEPT ![t] = sn]
    /\ verified' = [verified EXCEPT ![t] = at]
    /\ outcome' = [outcome EXCEPT ![t] = established]
    /\ record' = [record EXCEPT ![t] = rec]
    /\ result' = [result EXCEPT ![t] = res]

LEMMA MovedValue ==
    ASSUME NEW f, f = [u \in Thread |-> f[u]], NEW t \in Thread, NEW x
    PROVE  LET g == [f EXCEPT ![t] = x]
           IN  /\ g = [u \in Thread |-> g[u]]
               /\ g[t] = x
               /\ \A u \in Thread : u # t => g[u] = f[u]
BY SMTT(30)

LEMMA OwnStepKeeps ==
    ASSUME Inv, NEW t \in Thread,
           NEW p, NEW r, NEW sn, NEW at, NEW established, NEW rec, NEW res,
           OwnStep(t, p, r, sn, at, established, rec, res),
           HandlerOK(p, r, sn, at, established, rec, res)
    PROVE  Inv'
<1>1. /\ UNCHANGED <<process, hellos, caller, wire, clock>>
      /\ Carried
  BY DEF OwnStep, Inv, Carried
<1>2. sent' = sent /\ wire \subseteq wire' /\ clock \in Nat /\ clock' \in Nat /\ clock <= clock'
  <2>1. clock' = clock /\ clock \in Nat /\ wire' = wire /\ sent' = sent
    BY <1>1 DEF Carried, NodeOK, caller
  <2> QED
    BY SMTT(30), <2>1
<1>3. NodeOK' /\ HellosOK' /\ SentOK' /\ WireOK'
  BY <1>1, <1>2, NodeFrame, HellosFrame, SentFrame, WireFrame DEF Inv
<1>4. FunctionsOK'
  BY MovedValue DEF OwnStep, Inv, FunctionsOK
<1>5. HandlerOK(p, r, sn, at, established, rec, res)'
  BY <1>1, <1>2, HandlerFrame
<1>6. ASSUME NEW u \in Thread PROVE ThreadOK(u)'
  <2>1. CASE u = t
    <3>1. /\ pc'[t] = p /\ req'[t] = r /\ snap'[t] = sn /\ verified'[t] = at
          /\ outcome'[t] = established /\ record'[t] = rec /\ result'[t] = res
      BY MovedValue DEF OwnStep, Inv, FunctionsOK
    <3> QED
      BY <1>5, <2>1, <3>1 DEF ThreadOK
  <2>2. CASE u # t
    <3>1. /\ pc'[u] = pc[u] /\ req'[u] = req[u] /\ snap'[u] = snap[u]
          /\ verified'[u] = verified[u] /\ outcome'[u] = outcome[u]
          /\ record'[u] = record[u] /\ result'[u] = result[u]
      BY <2>2, MovedValue DEF OwnStep, Inv, FunctionsOK
    <3>2. HandlerOK(pc[u], req[u], snap[u], verified[u], outcome[u], record[u], result[u])
      BY DEF Inv, ThreadOK
    <3> DEFINE p0 == pc[u]
               r0 == req[u]
               sn0 == snap[u]
               at0 == verified[u]
               est0 == outcome[u]
               rec0 == record[u]
               res0 == result[u]
    <3>3. p0' = p0 /\ r0' = r0 /\ sn0' = sn0 /\ at0' = at0 /\ est0' = est0 /\ rec0' = rec0
          /\ res0' = res0 /\ HandlerOK(p0, r0, sn0, at0, est0, rec0, res0)
      BY <3>1, <3>2
    <3> HIDE DEF p0, r0, sn0, at0, est0, rec0, res0
    <3>4. HandlerOK(p0, r0, sn0, at0, est0, rec0, res0)'
      BY <1>1, <1>2, <3>3, HandlerFrame
    <3> QED
      BY <3>4 DEF ThreadOK, p0, r0, sn0, at0, est0, rec0, res0
  <2> QED
    BY <2>1, <2>2
<1> QED
  BY <1>3, <1>4, <1>6 DEF Inv

LEMMA SameValue ==
    ASSUME NEW f, f = [u \in Thread |-> f[u]], NEW t \in Thread
    PROVE  [f EXCEPT ![t] = f[t]] = f
BY SMTT(30)

LEMMA Unmoved ==
    ASSUME Inv, NEW t \in Thread
    PROVE  /\ [req EXCEPT ![t] = req[t]] = req
           /\ [snap EXCEPT ![t] = snap[t]] = snap
           /\ [verified EXCEPT ![t] = verified[t]] = verified
           /\ [outcome EXCEPT ![t] = outcome[t]] = outcome
           /\ [record EXCEPT ![t] = record[t]] = record
           /\ [result EXCEPT ![t] = result[t]] = result
BY SameValue DEF Inv, FunctionsOK

LEMMA DeliverStep ==
    ASSUME NEW t \in Thread, NEW m \in wire, Inv, Deliver(t, m)
    PROVE  Inv'
<1> DEFINE sn == IF node.revocations THEN feed ELSE None
           at == verified[t]
           est == outcome[t]
           rec == record[t]
           res == result[t]
<1>1. HandlerOK("idle", req[t], snap[t], at, est, rec, res) /\ node # None
  BY DEF Deliver, Inv, ThreadOK
<1>2. OwnStep(t, "chain", m, sn, at, est, rec, res)
  BY Unmoved DEF Deliver, OwnStep
<1> HIDE DEF sn, at, est, rec, res
<1>3. HandlerOK("chain", m, sn, at, est, rec, res)
  BY <1>1, NoReasonNeeded, NothingOpened
     DEF HandlerOK, AfterChain, AfterHolder, AfterAppraisal, AfterAllow
<1> QED
  BY <1>2, <1>3, OwnStepKeeps

LEMMA CheckChainStep ==
    ASSUME NEW t \in Thread, Inv, CheckChain(t)
    PROVE  Inv'
<1> DEFINE r == req[t]
           sn == snap[t]
           at == verified[t]
           est == outcome[t]
           rec == record[t]
           res == result[t]
           verdict == VerifyChain(r.chain, None, clock, sn)
<1>1. HandlerOK("chain", r, sn, at, est, rec, res)
  BY DEF CheckChain, Inv, ThreadOK
<1>2. /\ verdict \in Accepted => OwnStep(t, "holder", r, sn, at, est, rec, res)
      /\ verdict \notin Accepted => OwnStep(t, "done", r, sn, at, est, rec, verdict)
  BY Unmoved DEF CheckChain, Goto, Raise, OwnStep
<1> HIDE DEF r, sn, at, est, rec, res
<1>3. node # None /\ r \in wire /\ rec = None /\ at = None /\ res = "none"
  BY <1>1 DEF HandlerOK, AfterHolder, AfterAppraisal, AfterAllow
<1>4. CASE verdict \in Accepted
  <2>1. r.chain \in Seq(DelegationCredential)
    BY <1>3, WireChain DEF Inv, Carried
  <2>2. node.max_depth \in Int
    BY <1>3 DEF Inv, NodeOK
  <2>3. ChainHolds(r, sn)
    BY <1>4, <2>1, <2>2, AcceptedChainHolds DEF ChainHolds
  <2>4. HandlerOK("holder", r, sn, at, est, rec, res)
    BY SMTT(30), <1>3, <2>3, NoReasonNeeded, NothingOpened
       DEF HandlerOK, AfterChain, AfterHolder, AfterAppraisal, AfterAllow
  <2> QED
    BY <1>2, <1>4, <2>4, OwnStepKeeps
<1>5. CASE verdict \notin Accepted
  <2>1. verdict \in Refusals
    BY <1>5, VerdictRange
  <2> HIDE DEF verdict
  <2>a. Opened(r, verdict)
    BY <2>1, NothingOpened DEF Refusals
  <2>2. HandlerOK("done", r, sn, at, est, rec, verdict)
    BY <1>3, <2>1, <2>a, NoReasonNeeded
       DEF Refusals, HandlerOK, AfterChain, AfterHolder, AfterAppraisal, AfterAllow
  <2> QED
    BY <1>2, <1>5, <2>2, OwnStepKeeps
<1> QED
  BY <1>4, <1>5

LEMMA CheckHolderStep ==
    ASSUME NEW t \in Thread, Inv, CheckHolder(t)
    PROVE  Inv'
<1> DEFINE r == req[t]
           sn == snap[t]
           at == verified[t]
           est == outcome[t]
           rec == record[t]
           res == result[t]
           refusal == "HolderProofInvalid"
           passes == VerifyHolderProof(epoch, r, clock)
<1>1. HandlerOK("holder", r, sn, at, est, rec, res)
  BY DEF CheckHolder, Inv, ThreadOK
<1>2. /\ passes => OwnStep(t, "appraise", r, sn, clock, est, rec, res)
      /\ ~passes => OwnStep(t, "done", r, sn, at, est, rec, refusal)
  BY Unmoved DEF CheckHolder, Goto, Raise, OwnStep
<1> HIDE DEF r, sn, at, est, rec, res
<1>3. node # None /\ r \in wire /\ rec = None /\ at = None /\ res = "none" /\ ChainHolds(r, sn)
  BY <1>1 DEF HandlerOK, AfterChain, AfterHolder, AfterAppraisal, AfterAllow
<1>4. CASE passes
  <2>1. HolderHolds(r) /\ InTime(r, clock)
    BY <1>4 DEF VerifyHolderProof, VerifyChallenge, HolderHolds, InTime
  <2>2. HandlerOK("appraise", r, sn, clock, est, rec, res)
    BY SMTT(30), <1>3, <2>1, NoReasonNeeded, NothingOpened
       DEF HandlerOK, AfterChain, AfterHolder, AfterAppraisal, AfterAllow
  <2> QED
    BY <1>2, <1>4, <2>2, OwnStepKeeps
<1>5. CASE ~passes
  <2>1. r \in sent => RefusalHasReason(r, refusal)
    BY <1>5, HonestProof DEF RefusalHasReason, Inv, Carried
  <2>a. Opened(r, refusal)
    BY DEF Opened
  <2>2. HandlerOK("done", r, sn, at, est, rec, refusal)
    BY <1>3, <2>1, <2>a
       DEF HandlerOK, AfterChain, AfterHolder, AfterAppraisal, AfterAllow
  <2> QED
    BY <1>2, <1>5, <2>2, OwnStepKeeps
<1> QED
  BY <1>4, <1>5

LEMMA AppraiseStep ==
    ASSUME NEW t \in Thread, Inv, Appraise(t)
    PROVE  Inv'
<1> DEFINE r == req[t]
           sn == snap[t]
           at == verified[t]
           est == outcome[t]
           rec == record[t]
           res == result[t]
           refusal == "AttestationFailed"
           a == AppraiseCallerRuntime(epoch, r, clock)
           denial == DelegationRecord(r, "deny", a.outcome)
<1>1. HandlerOK("appraise", r, sn, at, est, rec, res)
  BY DEF Appraise, Inv, ThreadOK
<1>2. /\ a.refused => OwnStep(t, "done", r, sn, at, est, denial, refusal)
      /\ ~a.refused => OwnStep(t, "decide", r, sn, at, a.outcome, rec, res)
  BY Unmoved DEF Appraise, Goto, Raise, OwnStep
<1> HIDE DEF r, sn, at, est, rec, res
<1>3. /\ node # None /\ r \in wire /\ rec = None /\ res = "none"
      /\ ChainHolds(r, sn) /\ HolderHolds(r) /\ (at # None => InTime(r, at))
  BY <1>1 DEF HandlerOK, AfterChain, AfterHolder, AfterAppraisal, AfterAllow
<1>4. CASE a.refused
  <2>1. denial.decision = "deny"
    BY SMTT(30) DEF DelegationRecord
  <2>2. r \in sent => RefusalHasReason(r, refusal)
    BY <1>3, <1>4, HonestAppraisal DEF RefusalHasReason, Inv, Carried
  <2> HIDE DEF a, denial
  <2>a. Opened(r, refusal)
    BY DEF Opened
  <2>3. HandlerOK("done", r, sn, at, est, denial, refusal)
    BY <1>3, <2>1, <2>2, <2>a
       DEF HandlerOK, AfterChain, AfterHolder, AfterAppraisal, AfterAllow
  <2> QED
    BY <1>2, <1>4, <2>3, OwnStepKeeps
<1>5. CASE ~a.refused
  <2>1. RuntimeHolds(r, a.outcome)
    BY <1>3, <1>5, AppraisalHolds DEF Inv, Carried
  <2> HIDE DEF a
  <2>2. HandlerOK("decide", r, sn, at, a.outcome, rec, res)
    BY SMTT(30), <1>3, <2>1, NoReasonNeeded, NothingOpened
       DEF HandlerOK, AfterChain, AfterHolder, AfterAppraisal, AfterAllow
  <2> QED
    BY <1>2, <1>5, <2>2, OwnStepKeeps
<1> QED
  BY <1>4, <1>5

LEMMA DecideStep ==
    ASSUME NEW t \in Thread, Inv, Decide(t)
    PROVE  Inv'
<1> DEFINE r == req[t]
           sn == snap[t]
           at == verified[t]
           est == outcome[t]
           res == result[t]
           refusal == "ScopeNotPermitted"
           new == DelegationRecord(r, IF GrantHolds(r) THEN "allow" ELSE "deny", est)
<1>1. HandlerOK("decide", r, sn, at, est, record[t], res)
  BY DEF Decide, Inv, ThreadOK
<1>2. /\ GrantHolds(r) => OwnStep(t, "open", r, sn, at, est, new, res)
      /\ ~GrantHolds(r) => OwnStep(t, "done", r, sn, at, est, new, refusal)
  BY Unmoved DEF Decide, Goto, Raise, OwnStep, GrantHolds
<1>3. /\ new.decision = IF GrantHolds(r) THEN "allow" ELSE "deny"
      /\ new.caller_attestation = est
  BY SMTT(30) DEF DelegationRecord
<1> HIDE DEF r, sn, at, est, res, new
<1>4. /\ node # None /\ r \in wire /\ res = "none" /\ RuntimeHolds(r, est)
      /\ ChainHolds(r, sn) /\ HolderHolds(r) /\ (at # None => InTime(r, at))
  BY <1>1 DEF HandlerOK, AfterChain, AfterHolder, AfterAppraisal, AfterAllow
<1>5. CASE GrantHolds(r)
  <2>1. HandlerOK("open", r, sn, at, est, new, res)
    BY SMTT(30), <1>3, <1>4, <1>5, NoReasonNeeded, NothingOpened
       DEF HandlerOK, AfterChain, AfterHolder, AfterAppraisal, AfterAllow
  <2> QED
    BY <1>2, <1>5, <2>1, OwnStepKeeps
<1>6. CASE ~GrantHolds(r)
  <2>1. HandlerOK("done", r, sn, at, est, new, refusal)
    BY SMTT(30), <1>3, <1>4, <1>6, NoReasonNeeded, NothingOpened
       DEF HandlerOK, AfterChain, AfterHolder, AfterAppraisal, AfterAllow
  <2> QED
    BY <1>2, <1>6, <2>1, OwnStepKeeps
<1> QED
  BY <1>5, <1>6

(* The payload of a call whose holder proof verified is sealed to the key  *)
(* of this process unless its caller damaged it, for the proof names the   *)
(* payload and the challenge.                                              *)
LEMMA ProvedPayload ==
    ASSUME Carried, NEW r, NEW s, NEW p, NEW h, Names(r, s, p, h)
    PROVE  Opens(r.sealed_payload, epoch) <=> SealedWhole(s.sealed_payload)
<1>1. h.offer.channel_public_key = CalleeKey(epoch)
  BY SMTT(30) DEF Names, Source, HelloOK, ChannelOffer
<1>2. CalleeKey(epoch) # None
  <2>1. CalleeKey(epoch) \in CalleeKeys
    BY SMTT(30) DEF CalleeKey, CalleeKeys, Carried, NodeOK
  <2> QED
    BY <2>1, NoneIsNoValue
<1>3. /\ r.sealed_payload = s.sealed_payload
      /\ s.sealed_payload = IF p.payload = None THEN None
                            ELSE [to |-> IF p.payload = "damaged" THEN None
                                         ELSE CalleeKey(epoch),
                                  by |-> s.record_id, plain |-> p.payload]
  BY <1>1 DEF Names, Source, BuiltAs, SameCall
<1> HIDE DEF CalleeKey
<1> QED
  BY SMTT(30), <1>2, <1>3 DEF Opens, SealedWhole

LEMMA OpenStep ==
    ASSUME NEW t \in Thread, Inv, Open(t)
    PROVE  Inv'
<1> DEFINE r == req[t]
           sn == snap[t]
           at == verified[t]
           est == outcome[t]
           rec == record[t]
           res == result[t]
           opens == Opens(r.sealed_payload, epoch)
           answer == IF opens THEN "accepted" ELSE "SealedChannelError"
<1>1. HandlerOK("open", r, sn, at, est, rec, res)
  BY DEF Open, Inv, ThreadOK
<1>2. OwnStep(t, "done", r, sn, at, est, rec, answer)
  BY Unmoved DEF Open, Raise, OwnStep
<1>3. Opened(r, answer) /\ answer \in {"accepted", "SealedChannelError"}
  BY DEF Opened
<1> HIDE DEF r, sn, at, est, rec, res, answer
<1>4. HandlerOK("done", r, sn, at, est, rec, answer)
  BY SMTT(30), <1>1, <1>3, NoReasonNeeded
     DEF HandlerOK, AfterChain, AfterHolder, AfterAppraisal, AfterAllow
<1> QED
  BY <1>2, <1>4, OwnStepKeeps

LEMMA AnswerStep ==
    ASSUME NEW t \in Thread, Inv, Answer(t)
    PROVE  Inv'
<1>1. OwnStep(t, "idle", None, None, None, "none", None, "none")
  BY DEF Answer, OwnStep
<1> QED
  BY <1>1, IdleHandler, OwnStepKeeps

LEMMA StutterStep == Inv /\ UNCHANGED vars => Inv'
<1> SUFFICES ASSUME Inv, UNCHANGED vars PROVE Inv'
  OBVIOUS
<1>1. UNCHANGED <<clock, process, hellos, caller, wire, callee>>
  BY DEF vars
<1>2. clock' \in Nat /\ clock <= clock'
  BY SMTT(30), <1>1 DEF Inv, NodeOK
<1>3. NodeOK' /\ HellosOK' /\ SentOK' /\ WireOK' /\ FunctionsOK'
  BY <1>1, <1>2, NodeFrame, HellosFrame, SentFrame, WireFrame, FunctionsFrame DEF Inv
<1>4. ASSUME NEW t \in Thread PROVE ThreadOK(t)'
  BY <1>1, <1>2, ThreadFrame DEF caller
<1> QED
  BY <1>3, <1>4 DEF Inv

LEMMA NextInv == Inv /\ [Next]_vars => Inv'
<1> SUFFICES ASSUME Inv, [Next]_vars PROVE Inv'
  OBVIOUS
<1>1. ASSUME NEW t \in Thread, Handle(t) PROVE Inv'
  BY <1>1, DeliverStep, CheckChainStep, CheckHolderStep, AppraiseStep, DecideStep, OpenStep,
     AnswerStep DEF Handle
<1>2. ASSUME NEW c \in Call, Caller(c) PROVE Inv'
  BY <1>2, StartStep, ServeHelloStep, SendTaskStep DEF Caller
<1> QED
  BY <1>1, <1>2, TickStep, RefreshFeedStep, StartConfiguredStep, StartEmbeddedStep, MixStep,
     StutterStep DEF Next

(* The inductive invariant holds in every reachable state. *)
THEOREM Invariance == Spec => []Inv
BY InitInv, NextInv, PTL DEF Spec

-----------------------------------------------------------------------------
(* The properties *)

LEMMA HandlerFacts ==
    ASSUME Inv, NEW t \in Thread, AfterHolder(pc[t], result[t])
    PROVE  /\ Carried
           /\ req[t] \in wire
           /\ HolderHolds(req[t])
           /\ ChainHolds(req[t], snap[t])
BY DEF Inv, Carried, ThreadOK, HandlerOK, AfterChain, AfterHolder, AfterAppraisal, AfterAllow

(* Every record, allow or deny, names a call that the leaf's subject made: *)
(* nothing is recorded before verify_caller_holds_leaf, and proof_body     *)
(* commits each field the record shows.                                    *)
THEOREM EveryRecordedCallWasMade == Spec => []RecordedCallWasMade
<1>1. Inv => RecordedCallWasMade
  <2> SUFFICES ASSUME Inv, NEW t \in Thread, record[t] # None
               PROVE  \E s \in sent : SameCall(req[t], s)
    BY DEF RecordedCallWasMade
  <2>1. AfterHolder(pc[t], result[t])
    BY DEF Inv, ThreadOK, HandlerOK
  <2> QED
    BY <2>1, HandlerFacts, HolderNamesCall DEF Names
<1> QED
  BY <1>1, Invariance, PTL

(* An allow record tells of the caller's runtime what the call it names    *)
(* told: the holder proof commits the offered key, each call draws a key   *)
(* of its own, and the appraisal reads the report that binds that key.     *)
THEOREM EveryAllowRecordTellsRuntime == Spec => []AllowRecordTellsRuntime
<1>1. Inv => AllowRecordTellsRuntime
  <2> SUFFICES ASSUME Inv, NEW t \in Thread, record[t] # None, record[t].decision = "allow"
               PROVE  \E s \in sent :
                          SameCall(req[t], s) /\ RuntimeOf(s) = record[t].caller_attestation
    BY DEF AllowRecordTellsRuntime
  <2> DEFINE r == req[t]
  <2>1. AfterHolder(pc[t], result[t]) /\ record[t].caller_attestation = RuntimeOf(r)
    BY DEF Inv, ThreadOK, HandlerOK, AfterHolder, AfterAppraisal, RuntimeHolds
  <2>2. Carried /\ r \in wire /\ HolderHolds(r)
    BY <2>1, HandlerFacts
  <2> HIDE DEF r
  <2>3. PICK s \in sent, p \in Plans, h \in hellos : Names(r, s, p, h)
    BY <2>2, HolderNamesCall
  <2>4. PICK s2 \in sent : r.caller_offer = s2.caller_offer
    BY <2>2, WireFields
  <2>5. PICK p2 \in Plans, h2 \in hellos : Source(s2, p2, h2)
    BY <2>2, SentHasSource
  <2>6. \A c \in Call : CallerKey(c) # None
    BY SMTT(30), NoneIsNoValue DEF CallerKey, CallerKeys
  <2>7. /\ s.record_id \in Call
        /\ s.caller_offer # None => s.caller_offer.channel_public_key = CallerKey(s.record_id)
    BY SMTT(30), <2>3 DEF Names, Source, BuiltAs, ChannelOffer
  <2>8. /\ s2.record_id \in Call
        /\ s2.caller_offer # None =>
               s2.caller_offer.channel_public_key = CallerKey(s2.record_id)
    BY SMTT(30), <2>5 DEF Source, BuiltAs, ChannelOffer
  <2>9. OfferedKey(s2.caller_offer) = OfferedKey(s.caller_offer)
    BY <2>3, <2>4 DEF Names
  <2>10. s.caller_offer = r.caller_offer
    <3>1. CASE s.caller_offer = None
      BY <2>4, <2>6, <2>8, <2>9, <3>1 DEF OfferedKey
    <3>2. CASE s.caller_offer # None
      <4>1. CallerKey(s.record_id) = CallerKey(s2.record_id)
        BY <2>6, <2>7, <2>8, <2>9, <3>2 DEF OfferedKey
      <4>2. s.record_id = s2.record_id
        BY <4>1 DEF CallerKey
      <4>3. s = s2
        BY <2>2, <4>2 DEF Carried, SentOK
      <4> QED
        BY <2>4, <4>3
    <3> QED
      BY <3>1, <3>2
  <2>11. RuntimeOf(s) = RuntimeOf(r) /\ SameCall(r, s)
    BY <2>3, <2>10 DEF RuntimeOf, Names
  <2> QED
    BY <2>1, <2>11 DEF r
<1> QED
  BY <1>1, Invariance, PTL

(* A holder proof is accepted only under a challenge this process issued,  *)
(* before that challenge expires, whatever is delayed or started again.    *)
THEOREM EveryProofIsFresh == Spec => []ProofIsFresh
<1>1. Inv => ProofIsFresh
  <2> SUFFICES ASSUME Inv, NEW t \in Thread, verified[t] # None
               PROVE  \E h \in hellos : /\ h.challenge = req[t].holder_proof.challenge
                                        /\ h.offer.channel_public_key = CalleeKey(epoch)
                                        /\ verified[t] < h.challenge.expiry
    BY DEF ProofIsFresh
  <2>1. AfterHolder(pc[t], result[t]) /\ InTime(req[t], verified[t])
    BY DEF Inv, ThreadOK, HandlerOK
  <2>2. PICK s \in sent, p \in Plans, h \in hellos : Names(req[t], s, p, h)
    BY <2>1, HandlerFacts, HolderNamesCall
  <2>3. h.offer.channel_public_key = CalleeKey(epoch)
    BY SMTT(30), <2>2 DEF Names, Source, HelloOK, ChannelOffer
  <2> QED
    BY <2>1, <2>2, <2>3 DEF Names, InTime
<1> QED
  BY <1>1, Invariance, PTL

(* The payload of an allowed call opens exactly when the caller that       *)
(* signed its holder proof sealed it whole: an allow record is lost to     *)
(* open_sealed for no restart, delay, repetition or exchanged field.       *)
THEOREM EveryCallOpensAsCommitted == Spec => []OpensAsCommitted
<1>1. Inv => OpensAsCommitted
  <2> SUFFICES ASSUME Inv, NEW t \in Thread, result[t] \in {"accepted", "SealedChannelError"}
               PROVE  \E s \in sent :
                         /\ s.holder_proof = req[t].holder_proof
                         /\ result[t] = "accepted" <=> SealedWhole(s.sealed_payload)
    BY DEF OpensAsCommitted
  <2>1. AfterHolder(pc[t], result[t])
    BY DEF AfterHolder, AfterAppraisal, AfterAllow
  <2>2. PICK s \in sent, p \in Plans, h \in hellos : Names(req[t], s, p, h)
    BY <2>1, HandlerFacts, HolderNamesCall
  <2>3. Opens(req[t].sealed_payload, epoch) <=> SealedWhole(s.sealed_payload)
    BY <2>2, ProvedPayload DEF Inv, Carried
  <2>4. result[t] = "accepted" <=> Opens(req[t].sealed_payload, epoch)
    BY DEF Inv, ThreadOK, HandlerOK, Opened
  <2> QED
    BY <2>2, <2>3, <2>4 DEF Names
<1> QED
  BY <1>1, Invariance, PTL

(* A granted capability is permitted by the policy and passed down by      *)
(* every hop of the chain, none of them revoked in the snapshot read on    *)
(* arrival, for chains of any length.                                      *)
THEOREM EveryGrantWasDelegated == Spec => []GrantedCapabilityDelegated
<1>1. Inv => GrantedCapabilityDelegated
  <2> SUFFICES ASSUME Inv, NEW t \in Thread, result[t] = "accepted"
               PROVE  /\ req[t].requested_capability \in node.policy
                      /\ \A n \in 1..Len(req[t].chain) :
                            req[t].requested_capability \in req[t].chain[n].scope
                      /\ snap[t] # None => RevokedHops(req[t].chain, snap[t], None) = {}
    BY DEF GrantedCapabilityDelegated
  <2>1. ChainHolds(req[t], snap[t]) /\ GrantHolds(req[t])
    BY DEF Inv, ThreadOK, HandlerOK, AfterChain, AfterHolder, AfterAppraisal, AfterAllow
  <2> QED
    BY <2>1 DEF ChainHolds, ChainPasses, GrantHolds, EffectiveScope
<1> QED
  BY <1>1, Invariance, PTL

(* A request that arrives as it was built is refused for its proof or its  *)
(* attestation only for one of the stated reasons.                         *)
THEOREM EveryHonestRefusalHasReason == Spec => []HonestRefusalHasReason
<1>1. Inv => HonestRefusalHasReason
  BY DEF Inv, ThreadOK, HandlerOK, HonestRefusalHasReason
<1> QED
  BY <1>1, Invariance, PTL

(* What build_peer_node passes on of a configuration it does not refuse. *)
BuiltAsConfigured(built, d, host) ==
    /\ ConfigValid(d)
    /\ built.policy = LoadPolicy(d, host) /\ built.policy # Refused
    /\ built.requirement = Default(d.requirement, "none")
    /\ built.verifier = BuildCallerVerifier(d.caller_verifier, host)
    /\ built.verifier # Refused
    /\ built.max_depth = IF d.max_depth = PyTrue THEN 1 ELSE Default(d.max_depth, 8)
    /\ built.roots = d.trusted_root_issuers
    /\ built.manifest = BindManifest(d.agent_manifest, host)
    /\ built.manifest # Refused
    /\ built.platform = SelectProvider(Default(d.provider, "auto"), host.detected)
    /\ built.platform # Refused

LEMMA ConfiguredNode ==
    ASSUME NEW d, NEW host, StartFromConfig(d, host) # Refused
    PROVE  BuiltAsConfigured(StartFromConfig(d, host), d, host)
<1> DEFINE built == StartFromConfig(d, host)
<1>1. ConfigValid(d) /\ built = BuildPeerNode(d, host)
  BY DEF StartFromConfig
<1> QED
  BY SMTT(30), <1>1 DEF BuildPeerNode, PeerNode, BuiltAsConfigured

(* A verifier built from a configuration accepts only evidence from its    *)
(* platform that one of the roots in its file endorses.                    *)
LEMMA ConfiguredVerifier ==
    ASSUME NEW d, NEW host, NEW report, NEW verifier,
           verifier = BuildCallerVerifier(d.caller_verifier, host), verifier # Refused,
           Appraised(verifier, report) = "hardware"
    PROVE  /\ report.platform = d.caller_verifier.platform
           /\ report.root \in Content(host, d.caller_verifier.trusted_roots_path)
<1> DEFINE section == d.caller_verifier
           roots == Content(host, section.trusted_roots_path)
<1>1. verifier # None /\ <<report.platform, report.root>> \in verifier
  BY DEF Appraised
<1>2. section # None /\ section.platform = "tpm" /\ verifier = {"tpm"} \X roots
  BY <1>1 DEF BuildCallerVerifier
<1> HIDE DEF roots
<1>3. report.platform = "tpm" /\ report.root \in roots
  BY SMTT(30), <1>1, <1>2
<1> QED
  BY <1>2, <1>3 DEF roots

(* bind_manifest yields the subject that the section names. *)
LEMMA BoundManifest ==
    ASSUME NEW d, NEW host, ConfigValid(d), d.agent_manifest # None,
           BindManifest(d.agent_manifest, host) # Refused
    PROVE  BindManifest(d.agent_manifest, host) = d.agent_manifest.authenticated_subject
<1> DEFINE section == d.agent_manifest
<1>1. CASE section.path = None
  <2>1. /\ section["path"] = None
        /\ \/ \A f \in ManifestFields : section[f] = None
           \/ \A f \in ManifestFields : section[f] # None
    BY <1>1 DEF ConfigValid, ManifestValid
  <2>2. section.authenticated_subject = None
    BY <2>1 DEF ManifestFields
  <2> QED
    BY <1>1, <2>2 DEF BindManifest
<1>2. CASE section.path # None
  BY <1>2 DEF BindManifest, ManifestBinds
<1> QED
  BY <1>1, <1>2

(* Under a node that ca2a start built, a call is allowed only as the       *)
(* configuration says: attestation, policy, depth, roots and manifest.     *)
THEOREM EveryCallAllowedAsConfigured == Spec => []AllowedAsConfigured
<1>1. Inv => AllowedAsConfigured
  <2> SUFFICES ASSUME Inv, NEW t \in Thread, record[t] # None, record[t].decision = "allow",
                      origin # None
               PROVE  AsConfigured(origin.config, origin.host, req[t],
                                   record[t].caller_attestation)
    BY DEF AllowedAsConfigured
  <2> DEFINE d == origin.config
             host == origin.host
             r == req[t]
             attestation == record[t].caller_attestation
  <2>1. node = StartFromConfig(d, host) /\ StartFromConfig(d, host) # Refused
    BY DEF Inv, NodeOK
  <2>2. /\ ChainHolds(r, snap[t])
        /\ RuntimeHolds(r, attestation)
        /\ GrantHolds(r)
    BY DEF Inv, ThreadOK, HandlerOK, AfterChain, AfterHolder, AfterAppraisal
  <2>a. attestation = "hardware" => Appraised(node.verifier, r.caller_offer.report) = "hardware"
    BY <2>2 DEF RuntimeHolds
  <2>3. /\ node.requirement = "hardware" => attestation = "hardware"
        /\ node.requirement = "any" => attestation # "not_offered"
        /\ r.requested_capability \in node.policy
        /\ r.chain[1].issuer \in node.roots
        /\ Len(r.chain) <= 1 + node.max_depth
    BY <2>2 DEF ChainHolds, ChainPasses, RuntimeHolds, GrantHolds, EffectiveScope
  <2> HIDE DEF d, host, r, attestation
  <2>4. BuiltAsConfigured(node, d, host)
    BY <2>1, ConfiguredNode
  <2>5. /\ d.requirement = "hardware" => attestation = "hardware"
        /\ d.requirement = "any" => attestation # "not_offered"
    BY <2>3, <2>4, NoneIsNoValue DEF BuiltAsConfigured, Default, RequirementValues
  <2>6. IF d.policy_bundle_path \in {None, ""}
        THEN r.requested_capability \in d.local_policy
        ELSE LET bundle == Content(host, d.policy_bundle_path)
             IN  bundle \notin {None, Rubbish}
                 /\ r.requested_capability \in bundle.permit \ bundle.forbid
    BY <2>3, <2>4 DEF BuiltAsConfigured, LoadPolicy, CedarPermits
  <2>b. attestation = "hardware" =>
            /\ r.caller_offer.report.platform = d.caller_verifier.platform
            /\ r.caller_offer.report.root \in
                   Content(host, d.caller_verifier.trusted_roots_path)
    BY <2>4, <2>a, ConfiguredVerifier DEF BuiltAsConfigured
  <2>7. d.agent_manifest # None => node.manifest = d.agent_manifest.authenticated_subject
    BY <2>4, BoundManifest DEF BuiltAsConfigured
  <2>8. AsConfigured(d, host, r, attestation)
    BY <2>3, <2>4, <2>5, <2>6, <2>7, <2>b DEF AsConfigured, BuiltAsConfigured
  <2> QED
    BY <2>8 DEF d, host, r, attestation
<1> QED
  BY <1>1, Invariance, PTL

(* select_provider yields software-only only where it is named, and else a *)
(* provider whose hardware was detected.                                   *)
LEMMA SelectedProvider ==
    ASSUME NEW name, NEW detected \in SUBSET HardwarePlatforms,
           SelectProvider(name, detected) # Refused
    PROVE  name = "software-only" \/ SelectProvider(name, detected) \in detected
<1> DEFINE First(n) == /\ HardwareProviders[n] \in detected
                       /\ \A k \in 1..(n - 1) : HardwareProviders[k] \notin detected
<1>1. CASE name = "auto"
  <2>1. detected # {}
    BY <1>1 DEF SelectProvider
  <2>2. \E n \in 1..3 : HardwareProviders[n] \in detected
    BY <2>1 DEF HardwarePlatforms
  <2>3. \E n \in 1..3 : First(n)
    <3>1. CASE HardwareProviders[1] \in detected
      BY SMTT(30), <3>1
    <3>2. CASE HardwareProviders[1] \notin detected /\ HardwareProviders[2] \in detected
      <4>1. \A k \in 1..(2 - 1) : k = 1
        BY SMTT(30)
      <4>2. First(2)
        BY <3>2, <4>1
      <4> QED
        BY SMTT(30), <4>2
    <3>3. CASE HardwareProviders[1] \notin detected /\ HardwareProviders[2] \notin detected
      <4>1. HardwareProviders[3] \in detected
        <5>1. PICK n \in 1..3 : HardwareProviders[n] \in detected
          BY <2>2
        <5>2. n = 1 \/ n = 2 \/ n = 3
          BY SMTT(30)
        <5> QED
          BY <3>3, <5>1, <5>2
      <4>2. \A k \in 1..(3 - 1) : k = 1 \/ k = 2
        BY SMTT(30)
      <4>3. First(3)
        BY <3>3, <4>1, <4>2
      <4> QED
        BY SMTT(30), <4>3
    <3> QED
      BY <3>1, <3>2, <3>3
  <2>4. First(CHOOSE n \in 1..3 : First(n))
    <3> HIDE DEF First
    <3> QED BY <2>3
  <2> QED
    BY <1>1, <2>1, <2>4 DEF SelectProvider
<1>2. CASE name # "auto"
  BY <1>2 DEF SelectProvider
<1> QED
  BY <1>1, <1>2

(* A node that ca2a start built offers a channel key without hardware      *)
(* behind it only where the configuration names software-only.             *)
THEOREM EveryOfferAsConfigured == Spec => []OfferedAsConfigured
<1>1. Inv => OfferedAsConfigured
  <2> SUFFICES ASSUME Inv, origin # None, NEW h \in hellos,
                      h.offer.channel_public_key = CalleeKey(epoch)
               PROVE  \/ origin.config.provider = "software-only"
                      \/ h.offer.report.platform \in origin.host.detected
    BY DEF OfferedAsConfigured
  <2>1. h.offer.report.platform = node.platform
    <3>1. HelloOK(h)
      BY DEF Inv, HellosOK
    <3>2. CalleeKey(h.challenge.secret) = CalleeKey(epoch)
      <4>1. PICK shown, root : h.offer = ChannelOffer(CalleeKey(h.challenge.secret),
                                                      h.challenge.rand, "callee", shown, root)
        BY <3>1 DEF HelloOK
      <4>2. \A key, nonce, role, platform, x :
                ChannelOffer(key, nonce, role, platform, x).channel_public_key = key
        BY DEF ChannelOffer
      <4>3. h.offer.channel_public_key = CalleeKey(h.challenge.secret)
        BY SMTT(30), <4>1, <4>2
      <4> QED
        BY <4>3
    <3>3. h.challenge.secret = epoch
      BY <3>2 DEF CalleeKey
    <3> QED
      BY <3>1, <3>3 DEF HelloOK
  <2>2. /\ origin \in Configured
        /\ node = StartFromConfig(origin.config, origin.host)
        /\ node # Refused
    BY DEF Inv, NodeOK
  <2> DEFINE name == Default(origin.config.provider, "auto")
  <2>3. node.platform = SelectProvider(name, origin.host.detected) /\ node.platform # Refused
    BY SMTT(30), <2>2, ConfiguredNode DEF BuiltAsConfigured
  <2>4. origin.host.detected \in SUBSET HardwarePlatforms
    BY <2>2, ConfiguredAssumption
  <2>5. name = "software-only" \/ node.platform \in origin.host.detected
    BY <2>3, <2>4, SelectedProvider
  <2> QED
    BY <2>1, <2>5 DEF Default
<1> QED
  BY <1>1, Invariance, PTL

(* The payload of a caller that requires hardware is opened only by a      *)
(* process on hardware, however often the callee was started again since.  *)
THEOREM EveryPayloadOpenedWhereRequired == Spec => []OpenedWhereRequired
<1>1. Inv => OpenedWhereRequired
  <2> SUFFICES ASSUME Inv, NEW t \in Thread, result[t] = "accepted",
                      req[t].record_id \in hard
               PROVE  node.platform # "software-only"
    BY DEF OpenedWhereRequired
  <2>1. AfterHolder(pc[t], result[t])
    BY DEF AfterHolder, AfterAppraisal, AfterAllow
  <2>2. PICK s \in sent, p \in Plans, h \in hellos : Names(req[t], s, p, h)
    BY <2>1, HandlerFacts, HolderNamesCall
  <2>3. h.offer.report.platform # "software-only"
    BY <2>2 DEF Names, SameCall, Source, BuiltFrom
  <2>4. h.offer.report.platform = node.platform
    BY <2>2 DEF Names, Source, HelloOK
  <2> QED
    BY <2>3, <2>4
<1> QED
  BY <1>1, Invariance, PTL
=============================================================================
