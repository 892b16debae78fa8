---------------------------- MODULE SdkLoopback ----------------------------
(***************************************************************************)
(* cA2A over the official A2A SDK: a client that discovers a peer by its   *)
(* Agent Card, attaches a delegated call to an SDK message it may reuse,   *)
(* and the executor of examples/a2a-sdk/loopback.py, which answers         *)
(* ordinary messages itself and lets the cA2A pipeline decide on the rest. *)
(* Between them are intermediaries that may drop a header, the declared    *)
(* extension, one metadata key or all of ours, garble a value, and deliver *)
(* late or twice.                                                          *)
(* The server may be started again with another requirement and another    *)
(* card.                                                                   *)
(***************************************************************************)
EXTENDS AgentCard

CONSTANTS
    Key, Cap, CredId, TrustedRoots, MaxDepth, MaxStaleness, TTL, Rubbish,
    MaxSafeInteger,
    Call,          \* delegated calls: their nonces and record ids
    Plans,         \* what the client may be asked to delegate
    Policy,        \* capabilities the node's policy allows
    READ, Widget,  \* what the protected handler serves
    Requirements,  \* the values of require_caller_attestation tried
    Templates,     \* the operator's Agent Cards, before the merge
    MaxClock, MaxEpoch, MaxWire, MaxFaults, MaxLookups

VARIABLES
    clock,
    node,        \* the serving process and its requirement, None when down
    card,        \* the card it serves
    connected,   \* whether the client found an unambiguous declaration
    hellos,      \* responses of /demo/channel
    msg,         \* the SDK message the client is building
    attached,    \* history: the request last attached to it, None for none
    built,       \* history: the requests the client made
    wire,        \* messages on their way, each with what it set out with and,
                 \* as history, what was taken from it since
    faults,      \* how often metadata was lost or garbled
    lookups      \* history: the deliveries that reached the protected handler

INSTANCE Metadata WITH Requirement <- node.requirement, Verifier <- None

client == <<connected, msg, attached, built>>
server == <<node, card>>
vars == <<clock, server, hellos, client, wire, faults, lookups>>

(* What attach_to_sdk_message is given.  A credential that sign put its    *)
(* signature on has numbers that canonicalize lets through; from_dict      *)
(* takes none back that grants nothing.                                    *)
IssuedCredential ==
    {c \in DelegationCredential :
        /\ c.signature # None
        /\ c.scope # {}
        /\ Constructible(c)
        /\ \A f \in NumberFields : c[f] # None => c[f] <= MaxSafeInteger}

Chains == Seq(IssuedCredential) \ {<< >>}

HardwarePlatforms == {"sev-snp", "tdx", "tpm"}

Plan ==
    [chain : Chains, requested_capability : Cap,
     payload : {None} \cup (STRING \ {"damaged"}),
     parent_record_hash : {None} \cup Call,
     platform : {None, "software-only"} \cup HardwarePlatforms, root : Key \cup {None}]

ASSUME PlanAssumption == Plans \subseteq Plan

Challenges == [secret : Nat, rand : Call, expiry : Int]
CalleeKeys == {"callee"} \X Nat
CallerKeys == {"caller"} \X Call
SealedPayloads == [to : CalleeKeys, by : Call, plain : STRING]

CallerOffers ==
    [channel_public_key : CallerKeys,
     report : [public_key : CallerKeys, nonce : Challenges, role : {"caller"},
               platform : {"software-only"} \cup HardwarePlatforms,
               root : Key \cup {None}]]

HolderProofs ==
    [challenge : Challenges, signed_by : Key,
     body : [audience : CalleeKeys, challenge : Challenges, credential_id : CredId,
             subject : Key, requested_capability : Cap, record_id : Call,
             payload : {None} \cup SealedPayloads,
             caller_channel_key : {None} \cup CallerKeys,
             parent_record_hash : {None} \cup Call]]

PossessionProofs ==
    [mac_key : CallerKeys \X CalleeKeys,
     transcript :
         [challenge : Challenges, callee_channel_key : CalleeKeys,
          caller_channel_key : CallerKeys, credential_id : CredId, subject : Key,
          requested_capability : Cap, record_id : Call,
          payload : {None} \cup SealedPayloads, parent_record_hash : {None} \cup Call,
          holder_proof_signature : HolderProofs]]

PeerRequest ==
    [chain : Chains, requested_capability : Cap, record_id : Call,
     sealed_payload : {None} \cup SealedPayloads,
     parent_record_hash : {None} \cup Call,
     caller_offer : {None} \cup CallerOffers,
     holder_proof : HolderProofs,
     caller_possession : {None} \cup PossessionProofs]

JsonNumbers == [value : Nat, float : BOOLEAN]

CredentialDict ==
    [credential_id : CredId, issuer : Key, subject : Key, scope : SUBSET Cap,
     depth : JsonNumbers, parent_id : CredId \cup {None},
     not_before : JsonNumbers \cup {None}, not_after : JsonNumbers \cup {None},
     signature : Key \cup {None}]

(* A card lists extensions; the node takes one of three requirements. *)
Uris ==
    {"ca2a"} \cup UNION {{t.extensions[n].uri : n \in 1..Len(t.extensions)} : t \in Templates}

Extension ==
    [uri : Uris, required : BOOLEAN, unknown : BOOLEAN,
     requirement : RequirementValues \cup {None, Rubbish}]

(* None and Rubbish are none of the values that metadata holds. *)
ASSUME NoneIsNoValue ==
    None \notin Cap \cup Call \cup Nat \cup JsonNumbers \cup Seq(CredentialDict)
              \cup PeerRequest
ASSUME RubbishIsNoValue ==
    Rubbish \notin {None} \cup Cap \cup Call \cup CredentialDict \cup Seq(CredentialDict)
                 \cup SealedPayloads \cup CallerOffers \cup HolderProofs
                 \cup PossessionProofs

ASSUME CardsAssumption ==
    /\ \A t \in Templates : t.extensions \in Seq(Extension)
    /\ Requirements \subseteq RequirementValues

ASSUME NumbersAssumption ==
    {MaxSafeInteger, TTL, MaxClock, MaxEpoch, MaxFaults} \subseteq Nat /\ TTL > 0

(* new_text_message, to which the application added a key of its own. *)
NewMessage == [metadata |-> [app |-> "note"], declared |-> FALSE]

Init ==
    /\ clock = 0
    /\ node = None
    /\ card = None
    /\ connected = FALSE
    /\ hellos = {}
    /\ msg = NewMessage
    /\ attached = None
    /\ built = {}
    /\ wire = {}
    /\ faults = 0
    /\ lookups = << >>

Tick ==
    /\ clock < MaxClock
    /\ clock' = clock + 1
    /\ UNCHANGED <<server, hellos, client, wire, faults, lookups>>

-----------------------------------------------------------------------------
(* The server and discovery *)

(* serve: the operator merges a card of theirs, or the one served before,  *)
(* with a new node.  For a signed card the merge raises and there is no    *)
(* server.                                                                 *)
Serve(t, requirement) ==
    LET epoch == IF node = None THEN 1 ELSE node.epoch + 1
    IN  /\ epoch <= MaxEpoch
        /\ ~t.signed
        /\ node' = [epoch |-> epoch, requirement |-> requirement]
        /\ card' = MergeAgentCard(t.extensions, requirement)
        /\ UNCHANGED <<clock, hellos, client, wire, faults, lookups>>

(* connect: the client gives up on a card without one clear declaration.   *)
Connect ==
    LET discovery == InspectAgentCard(card)
    IN  /\ card # None
        /\ discovery.advertised /\ discovery.warnings = {}
        /\ connected' = TRUE
        /\ UNCHANGED <<clock, server, hellos, msg, attached, built, wire, faults, lookups>>

-----------------------------------------------------------------------------
(* The client *)

(* The route /demo/channel. *)
Channel(c) ==
    /\ node # None
    /\ \A h \in hellos : h.offer.report.nonce # c
    /\ hellos' = hellos \cup
           {[offer |-> ChannelOffer(CalleeKey(node.epoch), c, "callee", "software-only", None),
             challenge |-> Challenge(node.epoch, c, clock)]}
    /\ UNCHANGED <<clock, server, client, wire, faults, lookups>>

(* delegated_message, with a new message; attach_to_sdk_message also takes *)
(* one that carried a call before.                                         *)
DelegatedMessage(c, p, h, message) ==
    LET r == Built(c, p, h)
    IN  /\ connected
        /\ VerifyOffer(h.offer, c, None, FALSE, "callee") = "none"
        /\ \A b \in built : b.record_id # c
        /\ msg' = AttachToSdkMessage(message, r)
        /\ attached' = r
        /\ built' = built \cup {r}
        /\ UNCHANGED <<clock, server, hellos, connected, wire, faults, lookups>>

(* send: the header half of the opt-in is the caller's.  The message stays *)
(* with the client, who may send it again or reuse it.                     *)
Send(ca2a) ==
    /\ ca2a = (attached # None)
    /\ Cardinality(wire) < MaxWire
    /\ wire' = wire \cup {[metadata |-> msg.metadata, declared |-> msg.declared,
                           requested |-> ca2a, origin |-> attached, lost |-> {}]}
    /\ UNCHANGED <<clock, server, hellos, client, faults, lookups>>

Lose(m) ==
    /\ wire' = wire \ {m}
    /\ UNCHANGED <<clock, server, hellos, client, faults, lookups>>

Altered(m, m2) ==
    /\ wire' = (wire \ {m}) \cup {m2}
    /\ UNCHANGED <<clock, server, hellos, client, lookups>>

LoseHeader(m) ==
    /\ m.requested
    /\ Altered(m, [m EXCEPT !.requested = FALSE, !.lost = m.lost \cup {"header"}])
    /\ UNCHANGED faults

LoseDeclaration(m) ==
    /\ m.declared
    /\ Altered(m, [m EXCEPT !.declared = FALSE, !.lost = m.lost \cup {"declaration"}])
    /\ UNCHANGED faults

Damage(m, m2) ==
    /\ faults < MaxFaults
    /\ faults' = faults + 1
    /\ Altered(m, m2)

(* One key of ours is dropped, or all of them. *)
LoseKeys(m, keys) ==
    /\ keys \cap DOMAIN m.metadata # {}
    /\ Damage(m, [m EXCEPT !.metadata = [j \in DOMAIN m.metadata \ keys |-> m.metadata[j]],
                           !.lost = m.lost \cup keys])

GarbleKey(m, k) ==
    /\ k \in DOMAIN m.metadata
    /\ Damage(m, [m EXCEPT !.metadata = [@ EXCEPT ![k] = Rubbish]])

-----------------------------------------------------------------------------
(* The executor.  reply has no await in it, so it is one step. *)

(* PeerNode.handle: the error it raises for a request, or "granted". *)
HandleRequest(r) ==
    LET verdict == VerifyChain(r.chain, None, clock, None)
    IN  IF verdict \notin Accepted THEN verdict
        ELSE IF ~VerifyHolderProof(node.epoch, r, clock) THEN "HolderProofInvalid"
        ELSE IF AppraiseCallerRuntime(node.epoch, r, clock).refused THEN "AttestationFailed"
        ELSE IF r.requested_capability \notin Policy \cap Leaf(r.chain).scope
        THEN "ScopeNotPermitted"
        ELSE IF ~Opens(r.sealed_payload, node.epoch) THEN "SealedChannelError"
        ELSE "granted"

(* Mutant: only the capability selects what the handler is asked. *)
Served_AnyPayload(r) == r.requested_capability = READ

(* The capability and the plaintext the protected handler serves. *)
Served(r) ==
    /\ r.requested_capability = READ
    /\ r.sealed_payload # None
    /\ r.sealed_payload.plain = Widget

(* Mutant: a message without both marks of the opt-in is ordinary. *)
OptIn_Lenient(m, carries) ==
    IF ~m.declared \/ ~m.requested THEN "ordinary"
    ELSE IF ~carries THEN "CA2A_METADATA_REQUIRED"
    ELSE "ca2a"

OptIn(m, carries) ==
    IF ~carries /\ ~m.declared /\ ~m.requested THEN "ordinary"
    ELSE IF ~m.declared \/ ~m.requested THEN "CA2A_OPT_IN_REQUIRED"
    ELSE IF ~carries THEN "CA2A_METADATA_REQUIRED"
    ELSE "ca2a"

Body(m) ==
    LET parsed == ParseSdkMessage(m)
        optin == OptIn(m, HasCa2aMetadata(m.metadata))
    IN  IF optin # "ca2a" THEN optin
        ELSE IF parsed.error # "ok" THEN parsed.error
        ELSE IF HandleRequest(parsed.request) # "granted" THEN HandleRequest(parsed.request)
        ELSE IF ~Served(parsed.request) THEN "UNSUPPORTED_DEMO_INPUT"
        ELSE "accepted"

(* The executor answers with the body; all it keeps is the count of the    *)
(* calls that reached the protected handler.  The message may arrive again *)
(* afterwards.                                                             *)
Reply(m) ==
    /\ node # None
    /\ Len(lookups) < MaxLookups
    /\ Body(m) = "accepted"
    /\ lookups' = Append(lookups, [request |-> ParseSdkMessage(m).request,
                                   epoch |-> node.epoch, at |-> clock])
    /\ UNCHANGED <<clock, server, hellos, client, wire, faults>>

-----------------------------------------------------------------------------
Cards == Templates \cup (IF card = None THEN {} ELSE {[extensions |-> card, signed |-> FALSE]})

Next ==
    \/ Tick
    \/ \E t \in Cards, requirement \in Requirements : Serve(t, requirement)
    \/ Connect
    \/ \E c \in Call : Channel(c)
    \/ \E c \in Call, p \in Plans, h \in hellos, message \in {NewMessage, msg} :
           DelegatedMessage(c, p, h, message)
    \/ \E ca2a \in BOOLEAN : Send(ca2a)
    \/ \E m \in wire : Lose(m) \/ LoseHeader(m) \/ LoseDeclaration(m)
    \/ \E m \in wire, keys \in {Ca2aKeys} \cup {{k} : k \in Ca2aKeys} : LoseKeys(m, keys)
    \/ \E m \in wire, k \in Ca2aKeys : GarbleKey(m, k)
    \/ \E m \in wire : Reply(m)

Spec == Init /\ [][Next]_vars

-----------------------------------------------------------------------------
(* Whatever calls an SDK message carried before, and although its metadata *)
(* Struct turns the integers of the signed credentials into floats,        *)
(* parsing the message yields exactly the request last attached to it, and *)
(* the application's own keys are still there (attach_to_sdk_message,      *)
(* parse_sdk_message).                                                     *)
AttachThenParse ==
    attached # None =>
        /\ ParseSdkMessage(msg) = [error |-> "ok", request |-> attached]
        /\ msg.declared
        /\ msg.metadata.app = NewMessage.metadata.app

(* The protected handler runs only for a request that a client built as it *)
(* arrived, whole, for this process and within its challenge's lifetime,   *)
(* asking to read what every hop delegated and the policy allows, with the *)
(* payload the handler serves (InventoryExecutor.reply).                   *)
LookupWasAuthorized ==
    \A n \in 1..Len(lookups) :
        LET l == lookups[n]
        IN  \E b \in built :
               /\ b.holder_proof = l.request.holder_proof
               /\ b.sealed_payload = l.request.sealed_payload
               /\ b.sealed_payload # None
               /\ b.sealed_payload.plain = Widget
               /\ b.sealed_payload.to = CalleeKey(l.epoch)
               /\ b.requested_capability = READ
               /\ READ \in Policy
               /\ \A i \in 1..Len(l.request.chain) : READ \in l.request.chain[i].scope
               /\ l.at < b.holder_proof.challenge.expiry

(* What tells every cA2A call from an ordinary message as it sets out. *)
Marks == {"header", "declaration"} \cup RequiredKeys

(* A message that set out as a cA2A call falls back to the ordinary branch *)
(* only after intermediaries took away all of the header, the declared     *)
(* extension and every required key: with any one of them left it is       *)
(* refused, and nothing the client does to a message loses one.  An        *)
(* ordinary message is never taken for a cA2A call.                        *)
NoSilentFallback ==
    node # None =>
        \A m \in wire : IF m.origin = None THEN Body(m) = "ordinary"
                        ELSE Body(m) = "ordinary" => Marks \subseteq m.lost

(* The extensions of others, in order. *)
OfOthers(extensions) ==
    LET others[n \in 0..Len(extensions)] ==
            IF n = 0 THEN << >>
            ELSE IF IsOurs(extensions[n]) THEN others[n - 1]
            ELSE Append(others[n - 1], extensions[n])
    IN  others[Len(extensions)]

(* The served card carries one declaration of ours, which an inspection    *)
(* finds unambiguous and equal to what the node enforces, however stale,   *)
(* repeated or malformed the declarations were that the operator's card    *)
(* brought along; the extensions of others are all kept, in order          *)
(* (merge_agent_card, inspect_agent_card).                                 *)
CardTellsNode ==
    node # None =>
        /\ InspectAgentCard(card) =
               [advertised |-> TRUE, requirement |-> node.requirement, warnings |-> {}]
        /\ OfOthers(card) \in {OfOthers(t.extensions) : t \in {u \in Templates : ~u.signed}}
=============================================================================
