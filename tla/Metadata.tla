------------------------------ MODULE Metadata ------------------------------
(***************************************************************************)
(* cA2A fields as A2A metadata: the dict adapter                           *)
(* (transport/a2a_adapter.py) and the bridge to SDK messages               *)
(* (transport/a2a_sdk.py), as constant-level operators.                    *)
(*                                                                         *)
(* A metadata map is a function from the keys present to their values.     *)
(* The namespaced keys bear the names of the PeerRequest fields they carry *)
(* ("chain" is KEY_DELEGATION_CHAIN).  Rubbish stands for any value of the *)
(* wrong shape.  Base64 and hexadecimal text stands for the bytes it       *)
(* decodes to.  JSON numbers keep the difference the adapter depends on:   *)
(* an integer is not a float, and a protobuf Struct holds only floats.     *)
(***************************************************************************)
EXTENDS PeerChecks

LOCAL INSTANCE TLC

CONSTANTS Rubbish,          \* a JSON value that is not what its key requires
          MaxSafeInteger    \* up to here doubles hold every integer exactly

RequiredKeys == {"chain", "requested_capability", "record_id", "parent_record_hash"}
OptionalKeys == {"sealed_payload", "caller_offer", "holder_proof", "caller_possession"}
Ca2aKeys == RequiredKeys \cup OptionalKeys

HasCa2aMetadata(meta) == DOMAIN meta \cap Ca2aKeys # {}

(* meta.get(k): an absent key and null are both None. *)
Get(meta, k) == IF k \in DOMAIN meta THEN meta[k] ELSE None

-----------------------------------------------------------------------------
(* Credentials as JSON objects *)

NumberFields == {"depth", "not_before", "not_after"}

OnNumbers(hop, Op(_)) ==
    [f \in DOMAIN hop |-> IF f \in NumberFields /\ hop[f] # None THEN Op(hop[f]) ELSE hop[f]]

JsonInt(n) == [value |-> n, float |-> FALSE]

CredentialToDict(c) == OnNumbers(c, JsonInt)

CredentialFromDict(d) == OnNumbers(d, LAMBDA j : j.value)

(* DelegationCredential.from_dict refuses everything else.  A hop with a   *)
(* field of the wrong type or shape, or with an explicit null for a bound, *)
(* is Rubbish as a whole.                                                  *)
IsCredentialDict(d) ==
    /\ d # Rubbish
    /\ d.signature # None
    /\ \A f \in NumberFields : d[f] # None => ~d[f].float
    /\ d.depth # None
    /\ d.scope # {}
    /\ Constructible(CredentialFromDict(d))

-----------------------------------------------------------------------------
(* parse_peer_request *)

IsChain(raw) ==
    /\ raw \notin {None, Rubbish}
    /\ raw # << >>
    /\ \A n \in 1..Len(raw) : IsCredentialDict(raw[n])

(* The first error met: the proof is parsed last, with its own error. *)
ParseError(meta) ==
    IF \/ ~IsChain(Get(meta, "chain"))
       \/ Get(meta, "requested_capability") \in {None, Rubbish}
       \/ Get(meta, "record_id") \in {None, Rubbish}
       \/ "parent_record_hash" \notin DOMAIN meta
       \/ \E k \in {"parent_record_hash", "sealed_payload", "caller_offer",
                    "caller_possession"} : Get(meta, k) = Rubbish
    THEN "TransportError"
    ELSE IF Get(meta, "holder_proof") = Rubbish THEN "HolderProofInvalid"
    ELSE "ok"

(* "request" is None for ordinary A2A input and when there is an error. *)
ParsePeerRequest(meta) ==
    IF ~HasCa2aMetadata(meta) THEN [error |-> "ok", request |-> None]
    ELSE IF ParseError(meta) # "ok" THEN [error |-> ParseError(meta), request |-> None]
    ELSE [error |-> "ok",
          request |-> [k \in Ca2aKeys |->
              IF k = "chain"
              THEN [n \in 1..Len(meta.chain) |-> CredentialFromDict(meta.chain[n])]
              ELSE Get(meta, k)]]

-----------------------------------------------------------------------------
(* attach_ca2a_metadata, on the map it writes into *)

Field(r, k) ==
    IF k = "chain" THEN [n \in 1..Len(r.chain) |-> CredentialToDict(r.chain[n])] ELSE r[k]

(* The four required keys are set; an optional one is set or taken out. *)
Attached(meta, r) ==
    LET set == RequiredKeys \cup {k \in OptionalKeys : r[k] # None}
    IN  [k \in set \cup (DOMAIN meta \ Ca2aKeys) |->
             IF k \in set THEN Field(r, k) ELSE meta[k]]

-----------------------------------------------------------------------------
(* The envelopes both functions accept: a bare message with its metadata   *)
(* at the top, or a SendMessage body whose params may have metadata and a  *)
(* message with metadata.  Absent metadata is the empty map and Rubbish is *)
(* a value that is not a map.                                              *)

MapOf(value) == IF value = Rubbish THEN << >> ELSE value

(* collect_metadata: later maps win. *)
CollectMetadata(env) ==
    IF ~env.params THEN MapOf(env.metadata)
    ELSE IF ~env.has_message THEN MapOf(env.params_metadata)
    ELSE MapOf(env.message_metadata) @@ MapOf(env.params_metadata)

(* _attach_target: the one map that is written; it raises when the value   *)
(* there is not a map.                                                     *)
AttachTarget(env) ==
    IF ~env.params THEN "metadata"
    ELSE IF env.has_message THEN "message_metadata" ELSE "params_metadata"

AttachRefused(env) == env[AttachTarget(env)] = Rubbish

AttachCa2aMetadata(env, r) == [env EXCEPT ![AttachTarget(env)] = Attached(@, r)]

ParseEnvelope(env) == ParsePeerRequest(CollectMetadata(env))

-----------------------------------------------------------------------------
(* SDK messages, whose metadata is a protobuf Struct *)

OnChain(meta, Op(_)) ==
    IF Get(meta, "chain") \in {None, Rubbish} THEN meta
    ELSE [meta EXCEPT !.chain =
              [n \in 1..Len(@) |-> IF @[n] = Rubbish THEN @[n] ELSE OnNumbers(@[n], Op)]]

(* The double nearest to an integer: beyond the safe ones it may be        *)
(* another number, and which is left open.                                 *)
Double(n) == IF n <= MaxSafeInteger THEN n ELSE CHOOSE d : d \in Nat

(* json_format.ParseDict: every number becomes a double. *)
ToStruct(meta) == OnChain(meta, LAMBDA j : [value |-> Double(j.value), float |-> TRUE])

(* MessageToDict, then the integral numbers of each hop are restored. *)
MetadataFromSdkMessage(struct) ==
    OnChain(struct, LAMBDA j : [j EXCEPT !.float = FALSE])

ParseSdkMessage(message) == ParsePeerRequest(MetadataFromSdkMessage(message.metadata))

(* Mutant: attached to an empty map, which is then laid over the message's *)
(* metadata.                                                               *)
AttachToSdkMessage_Overlay(message, r) ==
    [metadata |-> ToStruct(Attached(<< >>, r)) @@ message.metadata, declared |-> TRUE]

(* The map is attached to what the message carries, which it replaces, and *)
(* the extension is declared.                                              *)
AttachToSdkMessage(message, r) ==
    [metadata |-> ToStruct(Attached(MetadataFromSdkMessage(message.metadata), r)),
     declared |-> TRUE]
=============================================================================
