------------------------- MODULE SdkLoopbackProofs -------------------------
(***************************************************************************)
(* Proofs, for any number of calls, plans, restarts and messages and for   *)
(* chains and cards of any length, of the four properties the run of       *)
(* SdkLoopback checks: attaching and parsing are inverse, the protected    *)
(* handler runs only for an authorized call, no damaged cA2A call is       *)
(* answered as an ordinary message, and the card declares what the         *)
(* node enforces.                                                          *)
(*                                                                         *)
(* The argument.  The message a client builds is always the one a fresh    *)
(* message becomes when the last call is attached to it, however often it  *)
(* was reused (MessageOK).  A message on its way has each key of the one   *)
(* it set out as, or lost it, or carries rubbish there, and every mark of  *)
(* the opt-in it is without was taken from it (WireOK).  So what parses at *)
(* all is a request some client built, less optional fields, and a call    *)
(* without any mark lost them all.                                         *)
(* The card served is one that merge_agent_card made for this node         *)
(* (CardOK): each turn of its loop leaves the list as it was up to the     *)
(* position reached, no declaration of ours above it but the first, and    *)
(* every extension of others (SeenDownTo).                                 *)
(***************************************************************************)
EXTENDS SdkLoopback, FiniteSetTheorems, WellFoundedInduction, TLAPS

(* First-order steps go to Zenon; those with arithmetic or records say SMT. *)
USE Zenon

(* The inductive invariant *)

ServerOK ==
    /\ clock \in Nat
    /\ node # None => node.epoch \in Nat
    /\ faults \in 0..MaxFaults

HelloOf(h, e, c, now) ==
    h = [offer |-> ChannelOffer(CalleeKey(e), c, "callee", "software-only", None),
         challenge |-> Challenge(e, c, now)]

HellosOK == \A h \in hellos : \E e \in Nat, c \in Call, now \in Nat : HelloOf(h, e, c, now)

BuiltOK == built \subseteq PeerRequest

(* The message that carries request r, as it sets out. *)
Carrier(r) == AttachToSdkMessage(NewMessage, r)

MessageOK ==
    IF attached = None THEN msg = NewMessage
    ELSE attached \in built /\ msg = Carrier(attached)

(* What is left of the metadata a call set out with. *)
Remains(meta, sent) ==
    /\ meta = [k \in DOMAIN meta |-> meta[k]]
    /\ DOMAIN meta \subseteq DOMAIN sent
    /\ \A k \in DOMAIN meta : meta[k] \in {sent[k], Rubbish}

OrdinaryOK(m) ==
    m.metadata = NewMessage.metadata /\ ~m.declared /\ ~m.requested

CallOK(m) ==
    /\ m.origin \in built
    /\ Remains(m.metadata, Carrier(m.origin).metadata)
    /\ RequiredKeys \ DOMAIN m.metadata \subseteq m.lost
    /\ ~m.requested => "header" \in m.lost
    /\ ~m.declared => "declaration" \in m.lost

WireRecord(m) ==
    m = [metadata |-> m.metadata, declared |-> m.declared,
         requested |-> m.requested, origin |-> m.origin, lost |-> m.lost]

(* A message is what it set out as: ordinary, or a call. *)
MessageFits(m) ==
    /\ WireRecord(m)
    /\ IF m.origin = None THEN OrdinaryOK(m) ELSE CallOK(m)

WireOK == \A m \in wire : MessageFits(m)

(* The card has one declaration, and it is the node's. *)
Declares(c, requirement) ==
    \E i \in 1..Len(c) : Matching(c) = {i} /\ c[i] = AgentExtensionForNode(requirement)

OperatorsOthers == {OfOthers(t.extensions) : t \in {u \in Templates : ~u.signed}}

CardOK ==
    \/ node = None /\ card = None
    \/ /\ node.requirement \in RequirementValues
       /\ card \in Seq(Extension)
       /\ Declares(card, node.requirement)
       /\ OfOthers(card) \in OperatorsOthers

LookupsOK == (\E S : lookups \in Seq(S)) /\ LookupWasAuthorized

Inv ==
    /\ ServerOK
    /\ CardOK
    /\ HellosOK
    /\ BuiltOK
    /\ MessageOK
    /\ WireOK
    /\ LookupsOK

-----------------------------------------------------------------------------
(* A credential as a JSON object, in a Struct, and back *)

FieldNames ==
    {"credential_id", "issuer", "subject", "scope", "depth", "parent_id",
     "not_before", "not_after", "signature"}

(* One hop as ParseDict and as MessageToDict with the restored integers    *)
(* leave it.                                                               *)
FloatHop(d) ==
    [f \in DOMAIN d |-> IF f \in NumberFields /\ d[f] # None
                        THEN [value |-> Double(d[f].value), float |-> TRUE] ELSE d[f]]

IntHop(d) ==
    [f \in DOMAIN d |-> IF f \in NumberFields /\ d[f] # None
                        THEN [d[f] EXCEPT !.float = FALSE] ELSE d[f]]

(* The fields of a credential that was issued. *)
LEMMA IssuedFields ==
    ASSUME NEW c \in IssuedCredential
    PROVE  /\ c = [f \in FieldNames |-> c[f]]
           /\ DOMAIN c = FieldNames
           /\ c.depth \in Nat /\ c.not_before \in Nat \cup {None}
           /\ c.not_after \in Nat \cup {None}
           /\ \A f \in NumberFields : c[f] # None => c[f] \in Nat /\ c[f] <= MaxSafeInteger
<1>1. c \in DelegationCredential
  BY DEF IssuedCredential
<1>2. c = [f \in FieldNames |-> c[f]]
  BY SMTT(30), <1>1 DEF DelegationCredential, FieldNames
<1>3. DOMAIN c = FieldNames
  BY <1>2
<1>4. /\ c.depth \in Nat /\ c.not_before \in Nat \cup {None}
      /\ c.not_after \in Nat \cup {None}
  BY SMTT(30), <1>1 DEF DelegationCredential, Bound
<1>5. \A f \in NumberFields : c[f] # None => c[f] \in Nat
  BY <1>4 DEF NumberFields
<1>6. \A f \in NumberFields : c[f] # None => c[f] <= MaxSafeInteger
  BY DEF IssuedCredential
<1> QED
  BY <1>2, <1>3, <1>4, <1>5, <1>6

(* Its JSON object has the same fields, and numbers that are integers. *)
LEMMA DictFields ==
    ASSUME NEW c \in IssuedCredential
    PROVE  /\ CredentialToDict(c) \in CredentialDict
           /\ DOMAIN CredentialToDict(c) = FieldNames
           /\ CredentialToDict(c) = [f \in FieldNames |-> CredentialToDict(c)[f]]
           /\ \A f \in FieldNames :
                  CredentialToDict(c)[f] =
                      IF f \in NumberFields /\ c[f] # None THEN JsonInt(c[f]) ELSE c[f]
<1> DEFINE d == CredentialToDict(c)
<1>1. d = [f \in DOMAIN c |-> IF f \in NumberFields /\ c[f] # None
                              THEN JsonInt(c[f]) ELSE c[f]]
  BY DEF CredentialToDict, OnNumbers
<1>2. DOMAIN c = FieldNames
  BY IssuedFields
<1>3. d = [f \in FieldNames |-> IF f \in NumberFields /\ c[f] # None
                                THEN JsonInt(c[f]) ELSE c[f]]
  BY <1>1, <1>2
<1> HIDE DEF d
<1>4. DOMAIN d = FieldNames
  BY <1>3
<1>5. \A f \in FieldNames :
          d[f] = IF f \in NumberFields /\ c[f] # None THEN JsonInt(c[f]) ELSE c[f]
  BY <1>3
<1>6. d = [f \in FieldNames |-> d[f]]
  BY <1>3, <1>4
<1>7. \A n \in Nat : JsonInt(n) \in JsonNumbers
  BY SMTT(30) DEF JsonInt, JsonNumbers
<1>8. /\ d.depth \in JsonNumbers
      /\ d.not_before \in JsonNumbers \cup {None}
      /\ d.not_after \in JsonNumbers \cup {None}
  <2>1. c.depth # None
    BY IssuedFields, NoneIsNoValue
  <2>2. {"depth", "not_before", "not_after"} \subseteq FieldNames \cap NumberFields
    BY DEF FieldNames, NumberFields
  <2> QED
    BY ZenonT(40), <1>5, <1>7, <2>1, <2>2, IssuedFields
<1>9. /\ d.credential_id = c.credential_id /\ d.issuer = c.issuer
      /\ d.subject = c.subject /\ d.scope = c.scope
      /\ d.parent_id = c.parent_id /\ d.signature = c.signature
  BY <1>5 DEF FieldNames, NumberFields
<1>10. c \in DelegationCredential
  BY DEF IssuedCredential
<1>11. d \in CredentialDict
  BY SMTT(30), <1>6, <1>8, <1>9, <1>10 DEF CredentialDict, DelegationCredential, FieldNames
<1> QED
  BY <1>4, <1>5, <1>6, <1>11 DEF d

(* to_dict and from_dict are inverse on a credential that was issued. *)
LEMMA DictRoundTrip ==
    ASSUME NEW c \in IssuedCredential
    PROVE  /\ CredentialFromDict(CredentialToDict(c)) = c
           /\ IsCredentialDict(CredentialToDict(c))
<1> DEFINE d == CredentialToDict(c)
<1>1. /\ d \in CredentialDict
      /\ DOMAIN d = FieldNames
      /\ \A f \in FieldNames :
             d[f] = IF f \in NumberFields /\ c[f] # None THEN JsonInt(c[f]) ELSE c[f]
  BY DictFields
<1> HIDE DEF d
<1>2. \A n \in Nat : JsonInt(n) # None /\ JsonInt(n).value = n /\ ~JsonInt(n).float
  <2>1. \A n \in Nat : JsonInt(n) \in JsonNumbers
    BY SMTT(30) DEF JsonInt, JsonNumbers
  <2>2. \A n : JsonInt(n).value = n /\ ~JsonInt(n).float
    BY SMTT(30) DEF JsonInt
  <2> QED
    BY <2>1, <2>2, NoneIsNoValue
<1>3. \A f \in FieldNames :
          c[f] = IF f \in NumberFields /\ d[f] # None THEN d[f].value ELSE d[f]
  <2> TAKE f \in FieldNames
  <2>1. CASE f \in NumberFields /\ c[f] # None
    <3>1. c[f] \in Nat
      BY <2>1, IssuedFields
    <3> QED
      BY <1>1, <1>2, <2>1, <3>1
  <2>2. CASE ~(f \in NumberFields /\ c[f] # None)
    BY <1>1, <2>2
  <2> QED
    BY <2>1, <2>2
<1>4. CredentialFromDict(d) =
          [f \in DOMAIN d |-> IF f \in NumberFields /\ d[f] # None THEN d[f].value ELSE d[f]]
  BY DEF CredentialFromDict, OnNumbers
<1>5. c = [f \in FieldNames |-> c[f]]
  BY IssuedFields
<1>6. CredentialFromDict(d) = [f \in FieldNames |-> c[f]]
  BY <1>1, <1>3, <1>4
<1>7. CredentialFromDict(d) = c
  BY <1>5, <1>6
<1>8. d # Rubbish
  BY <1>1, RubbishIsNoValue
<1>9. ASSUME NEW f \in NumberFields, d[f] # None
      PROVE  ~d[f].float
  <2>1. f \in FieldNames
    BY DEF FieldNames, NumberFields
  <2>2. c[f] # None /\ d[f] = JsonInt(c[f])
    BY <1>1, <1>9, <2>1
  <2> QED
    BY <1>2, <2>2, IssuedFields
<1>10. d.depth # None
  <2>1. c.depth # None /\ c.depth \in Nat
    BY IssuedFields, NoneIsNoValue
  <2>2. d.depth = JsonInt(c.depth)
    BY <1>1, <2>1 DEF FieldNames, NumberFields
  <2> QED
    BY <1>2, <2>1, <2>2
<1>11. d.scope # {}
  <2>1. d.scope = c.scope
    BY <1>1 DEF FieldNames, NumberFields
  <2> QED
    BY <2>1 DEF IssuedCredential
<1>12. Constructible(c)
  BY DEF IssuedCredential
<1>13. d.signature # None
  <2>1. d.signature = c.signature
    BY <1>1 DEF FieldNames, NumberFields
  <2> QED
    BY <2>1 DEF IssuedCredential
<1>14. IsCredentialDict(d)
  BY <1>7, <1>8, <1>9, <1>10, <1>11, <1>12, <1>13 DEF IsCredentialDict
<1> QED
  BY <1>7, <1>14 DEF d

(* The doubles of a Struct hold the numbers of an issued credential, and   *)
(* restoring the integers gives back the object that went in.              *)
LEMMA StructRoundTrip ==
    ASSUME NEW c \in IssuedCredential
    PROVE  /\ FloatHop(CredentialToDict(c)) \in CredentialDict
           /\ FloatHop(CredentialToDict(c)) # Rubbish
           /\ IntHop(FloatHop(CredentialToDict(c))) = CredentialToDict(c)
<1> DEFINE d == CredentialToDict(c)
           s == FloatHop(d)
<1>1. /\ d \in CredentialDict
      /\ DOMAIN d = FieldNames
      /\ d = [f \in FieldNames |-> d[f]]
      /\ \A f \in FieldNames :
             d[f] = IF f \in NumberFields /\ c[f] # None THEN JsonInt(c[f]) ELSE c[f]
  BY DictFields
<1> HIDE DEF d
<1>2. s = [f \in FieldNames |-> IF f \in NumberFields /\ d[f] # None
                                THEN [value |-> Double(d[f].value), float |-> TRUE]
                                ELSE d[f]]
  BY <1>1 DEF FloatHop
<1> HIDE DEF s
<1>3. ASSUME NEW f \in NumberFields, d[f] # None
      PROVE  /\ s[f] = [value |-> c[f], float |-> TRUE]
             /\ s[f] \in JsonNumbers
             /\ s[f] # None
             /\ [s[f] EXCEPT !.float = FALSE] = d[f]
  <2>1. f \in FieldNames
    BY DEF FieldNames, NumberFields
  <2>2. c[f] # None /\ d[f] = JsonInt(c[f])
    BY <1>1, <1>3, <2>1
  <2>3. c[f] \in Nat /\ c[f] <= MaxSafeInteger
    BY <2>2, IssuedFields
  <2>4. JsonInt(c[f]).value = c[f]
    BY SMTT(30) DEF JsonInt
  <2>5. Double(d[f].value) = c[f]
    BY <2>2, <2>3, <2>4 DEF Double
  <2>6. s[f] = [value |-> c[f], float |-> TRUE]
    BY <1>2, <1>3, <2>1, <2>5
  <2>7. s[f] \in JsonNumbers
    BY SMTT(30), <2>3, <2>6 DEF JsonNumbers
  <2>8. [s[f] EXCEPT !.float = FALSE] = JsonInt(c[f])
    <3> DEFINE no == FALSE
    <3> HIDE DEF no
    <3>1. [s[f] EXCEPT !.float = no] = [value |-> c[f], float |-> no]
      BY SMTT(30), <2>6
    <3> QED
      BY <3>1 DEF no, JsonInt
  <2> QED
    BY <2>2, <2>6, <2>7, <2>8, NoneIsNoValue
<1>4. DOMAIN s = FieldNames /\ s = [f \in FieldNames |-> s[f]]
  BY <1>2
<1>5. \A f \in FieldNames : ~(f \in NumberFields /\ d[f] # None) => s[f] = d[f]
  BY <1>2
<1>6. \A f \in FieldNames :
          d[f] = IF f \in NumberFields /\ s[f] # None
                 THEN [s[f] EXCEPT !.float = FALSE] ELSE s[f]
  <2> TAKE f \in FieldNames
  <2>1. CASE f \in NumberFields /\ d[f] # None
    BY <1>3, <2>1
  <2>2. CASE ~(f \in NumberFields /\ d[f] # None)
    BY <1>5, <2>2
  <2> QED
    BY <2>1, <2>2
<1>7. IntHop(s) = [f \in FieldNames |-> d[f]]
  BY <1>4, <1>6 DEF IntHop
<1>8. IntHop(s) = d
  BY <1>1, <1>7
<1>9. s \in CredentialDict
  <2>1. /\ s.depth \in JsonNumbers
        /\ s.not_before \in JsonNumbers \cup {None}
        /\ s.not_after \in JsonNumbers \cup {None}
    <3>1. {"depth", "not_before", "not_after"} \subseteq NumberFields \cap FieldNames
      BY DEF NumberFields, FieldNames
    <3>2. d.depth # None
      BY <1>1, NoneIsNoValue DEF CredentialDict
    <3> QED
      BY <1>3, <1>5, <3>1, <3>2
  <2>2. /\ s.credential_id = d.credential_id /\ s.issuer = d.issuer
        /\ s.subject = d.subject /\ s.scope = d.scope
        /\ s.parent_id = d.parent_id /\ s.signature = d.signature
    BY <1>5 DEF FieldNames, NumberFields
  <2> QED
    BY SMTT(30), <1>1, <1>4, <2>1, <2>2 DEF CredentialDict, FieldNames
<1> QED
  BY <1>8, <1>9, RubbishIsNoValue DEF s, d

-----------------------------------------------------------------------------
(* The chain of a request as a JSON array and in a Struct *)

DictChain(r) == [n \in 1..Len(r.chain) |-> CredentialToDict(r.chain[n])]

StructChain(r) == [n \in 1..Len(r.chain) |-> FloatHop(CredentialToDict(r.chain[n]))]

LEMMA ChainFields ==
    ASSUME NEW r \in PeerRequest
    PROVE  /\ Len(r.chain) \in Nat /\ Len(r.chain) >= 1
           /\ r.chain = [n \in 1..Len(r.chain) |-> r.chain[n]]
           /\ \A n \in 1..Len(r.chain) : r.chain[n] \in IssuedCredential
<1>1. r.chain \in Seq(IssuedCredential) /\ r.chain # << >>
  BY SMTT(30) DEF PeerRequest, Chains
<1> DEFINE ch == r.chain
<1> HIDE DEF ch
<1>2. ch \in Seq(IssuedCredential) /\ ch # << >>
  BY <1>1 DEF ch
<1>3. /\ Len(ch) \in Nat /\ Len(ch) >= 1
      /\ ch = [n \in 1..Len(ch) |-> ch[n]]
      /\ \A n \in 1..Len(ch) : ch[n] \in IssuedCredential
  BY SMTT(30), <1>2
<1> QED
  BY <1>3 DEF ch

(* A function on 1..n with values in S is a non-empty sequence over S. *)
LEMMA IsSequence ==
    ASSUME NEW S, NEW n \in Nat, n >= 1, NEW f, f = [i \in 1..n |-> f[i]],
           \A i \in 1..n : f[i] \in S
    PROVE  f \in Seq(S) /\ Len(f) = n /\ f # << >>
BY SMTT(30)

LEMMA DictChainFields ==
    ASSUME NEW r \in PeerRequest
    PROVE  /\ Len(DictChain(r)) = Len(r.chain)
           /\ DictChain(r) \notin {None, Rubbish}
           /\ DictChain(r) # << >>
           /\ \A n \in 1..Len(r.chain) : DictChain(r)[n] = CredentialToDict(r.chain[n])
<1> DEFINE N == Len(r.chain)
           a == DictChain(r)
<1>1. N \in Nat /\ N >= 1 /\ \A n \in 1..N : r.chain[n] \in IssuedCredential
  BY ChainFields
<1>2. a = [n \in 1..N |-> CredentialToDict(r.chain[n])]
  BY DEF DictChain
<1> HIDE DEF N, a
<1>3. \A n \in 1..N : a[n] = CredentialToDict(r.chain[n]) /\ a[n] \in CredentialDict
  BY <1>1, <1>2, DictFields
<1>4. a = [n \in 1..N |-> a[n]]
  BY <1>2
<1>5. a \in Seq(CredentialDict) /\ Len(a) = N /\ a # << >>
  BY <1>1, <1>3, <1>4, IsSequence
<1> QED
  BY <1>3, <1>5, NoneIsNoValue, RubbishIsNoValue DEF N, a

LEMMA StructChainFields ==
    ASSUME NEW r \in PeerRequest
    PROVE  /\ Len(StructChain(r)) = Len(r.chain)
           /\ StructChain(r) \notin {None, Rubbish}
           /\ \A n \in 1..Len(r.chain) :
                  /\ StructChain(r)[n] = FloatHop(CredentialToDict(r.chain[n]))
                  /\ StructChain(r)[n] # Rubbish
<1> DEFINE N == Len(r.chain)
           a == StructChain(r)
<1>1. N \in Nat /\ N >= 1 /\ \A n \in 1..N : r.chain[n] \in IssuedCredential
  BY ChainFields
<1>2. a = [n \in 1..N |-> FloatHop(CredentialToDict(r.chain[n]))]
  BY DEF StructChain
<1> HIDE DEF N, a
<1>3. \A n \in 1..N : /\ a[n] = FloatHop(CredentialToDict(r.chain[n]))
                      /\ a[n] \in CredentialDict
                      /\ a[n] # Rubbish
  BY <1>1, <1>2, StructRoundTrip
<1>4. a = [n \in 1..N |-> a[n]]
  BY <1>2
<1>5. a \in Seq(CredentialDict) /\ Len(a) = N
  BY <1>1, <1>3, <1>4, IsSequence
<1> QED
  BY <1>3, <1>5, NoneIsNoValue, RubbishIsNoValue DEF N, a

-----------------------------------------------------------------------------
(* Metadata in a Struct.  Only the chain is different there. *)

LEMMA ToStructChanges ==
    ASSUME NEW meta
    PROVE  ToStruct(meta) =
               IF Get(meta, "chain") \in {None, Rubbish} THEN meta
               ELSE [meta EXCEPT !.chain =
                        [n \in 1..Len(@) |-> IF @[n] = Rubbish THEN @[n] ELSE FloatHop(@[n])]]
BY DEF ToStruct, OnChain, OnNumbers, FloatHop

LEMMA RestoringChanges ==
    ASSUME NEW meta
    PROVE  MetadataFromSdkMessage(meta) =
               IF Get(meta, "chain") \in {None, Rubbish} THEN meta
               ELSE [meta EXCEPT !.chain =
                        [n \in 1..Len(@) |-> IF @[n] = Rubbish THEN @[n] ELSE IntHop(@[n])]]
BY DEF MetadataFromSdkMessage, OnChain, OnNumbers, IntHop

(* A map with another chain. *)
LEMMA OtherChain ==
    ASSUME NEW meta, meta = [k \in DOMAIN meta |-> meta[k]], NEW ch,
           NEW new, new = [meta EXCEPT !.chain = ch]
    PROVE  /\ DOMAIN new = DOMAIN meta
           /\ new = [k \in DOMAIN meta |-> new[k]]
           /\ \A k \in DOMAIN meta : k # "chain" => new[k] = meta[k]
           /\ "chain" \in DOMAIN meta => new.chain = ch
BY SMTT(30)

(* Restoring the integers changes no other key. *)
LEMMA RestoringKeeps ==
    ASSUME NEW meta, meta = [k \in DOMAIN meta |-> meta[k]]
    PROVE  /\ DOMAIN MetadataFromSdkMessage(meta) = DOMAIN meta
           /\ \A k \in DOMAIN meta : k # "chain" => MetadataFromSdkMessage(meta)[k] = meta[k]
<1>1. CASE Get(meta, "chain") \in {None, Rubbish}
  BY <1>1, RestoringChanges
<1>2. CASE Get(meta, "chain") \notin {None, Rubbish}
  <2>1. \E ch : MetadataFromSdkMessage(meta) = [meta EXCEPT !.chain = ch]
    BY <1>2, RestoringChanges
  <2> QED
    BY <2>1, OtherChain
<1> QED
  BY <1>1, <1>2

-----------------------------------------------------------------------------
(* What a message carries after a request was attached *)

SetKeys(r) == RequiredKeys \cup {k \in OptionalKeys : r[k] # None}

Note == NewMessage.metadata

LEMMA KeyNames ==
    /\ "app" \notin Ca2aKeys
    /\ "chain" \in RequiredKeys
    /\ DOMAIN Note = {"app"}
    /\ Note = [k \in DOMAIN Note |-> Note[k]]
    /\ Note.app = "note"
    /\ Get(Note, "chain") = None
    /\ \A r : SetKeys(r) \subseteq Ca2aKeys
    /\ \A r : "chain" \in SetKeys(r)
<1>1. "app" \notin Ca2aKeys /\ "chain" \in RequiredKeys
  BY DEF Ca2aKeys, RequiredKeys, OptionalKeys
<1>2. Note = [app |-> "note"]
  BY SMTT(30) DEF Note, NewMessage
<1>3. DOMAIN Note = {"app"} /\ Note.app = "note" /\ Note = [k \in DOMAIN Note |-> Note[k]]
  BY SMTT(30), <1>2
<1>4. Get(Note, "chain") = None
  BY <1>3 DEF Get
<1>5. \A r : SetKeys(r) \subseteq Ca2aKeys
  BY DEF SetKeys, Ca2aKeys
<1>6. \A r : "chain" \in SetKeys(r)
  BY <1>1 DEF SetKeys
<1> QED
  BY <1>1, <1>3, <1>4, <1>5, <1>6

(* attach_ca2a_metadata reads of the map it is given only the keys that    *)
(* are not cA2A's, so what a reused message carried before does not matter. *)
LEMMA AttachForgets ==
    ASSUME NEW r, NEW meta, DOMAIN meta \ Ca2aKeys = {"app"}, meta.app = "note"
    PROVE  Attached(meta, r) =
               [k \in SetKeys(r) \cup {"app"} |-> IF k \in SetKeys(r) THEN Field(r, k) ELSE "note"]
<1>1. Attached(meta, r) =
          [k \in SetKeys(r) \cup (DOMAIN meta \ Ca2aKeys) |->
              IF k \in SetKeys(r) THEN Field(r, k) ELSE meta[k]]
  BY DEF Attached, SetKeys
<1> QED
  BY <1>1

AttachedNote(r) ==
    [k \in SetKeys(r) \cup {"app"} |-> IF k \in SetKeys(r) THEN Field(r, k) ELSE "note"]

LEMMA CarrierIs ==
    ASSUME NEW r
    PROVE  Carrier(r) = [metadata |-> ToStruct(AttachedNote(r)), declared |-> TRUE]
<1>1. MetadataFromSdkMessage(Note) = Note
  BY KeyNames, RestoringChanges
<1>2. DOMAIN Note \ Ca2aKeys = {"app"}
  BY KeyNames
<1>3. Attached(Note, r) = AttachedNote(r)
  BY ZenonT(40), <1>2, KeyNames, AttachForgets DEF AttachedNote
<1> QED
  BY <1>1, <1>3 DEF Carrier, AttachToSdkMessage, Note

(* The metadata of a carrier, key by key. *)
LEMMA CarrierFields ==
    ASSUME NEW r \in PeerRequest
    PROVE  /\ Carrier(r).metadata = [k \in SetKeys(r) \cup {"app"} |-> Carrier(r).metadata[k]]
           /\ DOMAIN Carrier(r).metadata = SetKeys(r) \cup {"app"}
           /\ Carrier(r).metadata.chain = StructChain(r)
           /\ \A k \in SetKeys(r) : k # "chain" => Carrier(r).metadata[k] = r[k]
           /\ Carrier(r).metadata.app = "note"
           /\ Carrier(r) = [metadata |-> Carrier(r).metadata, declared |-> TRUE]
           /\ Carrier(r).declared
<1> DEFINE base == AttachedNote(r)
           M == Carrier(r).metadata
<1>1. Carrier(r) = [metadata |-> ToStruct(base), declared |-> TRUE]
  BY CarrierIs
<1>2. M = ToStruct(base) /\ Carrier(r).declared
  <2> HIDE DEF base
  <2> QED
    BY SMTT(30), <1>1
<1>3. /\ DOMAIN base = SetKeys(r) \cup {"app"}
      /\ base = [k \in DOMAIN base |-> base[k]]
      /\ \A k \in SetKeys(r) : base[k] = Field(r, k)
  BY DEF AttachedNote
<1>4. base.app = "note"
  BY KeyNames DEF AttachedNote
<1> HIDE DEF base, M
<1>5. base.chain = DictChain(r) /\ Get(base, "chain") = DictChain(r)
  BY <1>3, KeyNames DEF Get, Field, DictChain
<1>6. ToStruct(base) =
          [base EXCEPT !.chain = [n \in 1..Len(base.chain) |->
              IF base.chain[n] = Rubbish THEN base.chain[n] ELSE FloatHop(base.chain[n])]]
  BY <1>5, DictChainFields, ToStructChanges
<1>7. [n \in 1..Len(base.chain) |->
          IF base.chain[n] = Rubbish THEN base.chain[n] ELSE FloatHop(base.chain[n])]
      = StructChain(r)
  <2>1. \A n \in 1..Len(r.chain) :
            /\ base.chain[n] = CredentialToDict(r.chain[n])
            /\ base.chain[n] # Rubbish
    <3> TAKE n \in 1..Len(r.chain)
    <3>1. base.chain[n] = CredentialToDict(r.chain[n])
      BY <1>5, DictChainFields
    <3>2. CredentialToDict(r.chain[n]) # Rubbish
      <4>1. r.chain[n] \in IssuedCredential
        BY ChainFields
      <4>2. CredentialToDict(r.chain[n]) \in CredentialDict
        BY <4>1, DictFields
      <4> QED
        BY <4>2, RubbishIsNoValue
    <3> QED
      BY <3>1, <3>2
  <2>2. Len(base.chain) = Len(r.chain)
    BY <1>5, DictChainFields
  <2> QED
    BY <2>1, <2>2 DEF StructChain
<1>8. M = [base EXCEPT !.chain = StructChain(r)]
  BY <1>2, <1>6, <1>7
<1>9. /\ DOMAIN M = DOMAIN base
      /\ M = [k \in DOMAIN base |-> M[k]]
      /\ \A k \in DOMAIN base : k # "chain" => M[k] = base[k]
      /\ M.chain = StructChain(r)
  BY ZenonT(40), <1>3, <1>8, KeyNames, OtherChain
<1>10. \A k \in SetKeys(r) : k # "chain" => M[k] = r[k]
  BY <1>3, <1>9 DEF Field
<1>11. M.app = "note"
  BY <1>3, <1>4, <1>9, KeyNames
<1> QED
  BY <1>1, <1>2, <1>3, <1>9, <1>10, <1>11 DEF M

(* A message that carried a call before is as good as a new one. *)
LEMMA AttachAgain ==
    ASSUME NEW r, NEW message,
           message = NewMessage \/ \E q \in PeerRequest : message = Carrier(q)
    PROVE  AttachToSdkMessage(message, r) = Carrier(r)
<1>1. CASE message = NewMessage
  BY <1>1 DEF Carrier
<1>2. ASSUME NEW q \in PeerRequest, message = Carrier(q)
      PROVE  AttachToSdkMessage(message, r) = Carrier(r)
  <2> DEFINE M == message.metadata
             R == MetadataFromSdkMessage(M)
  <2>1. /\ M = [k \in DOMAIN M |-> M[k]]
        /\ DOMAIN M = SetKeys(q) \cup {"app"}
        /\ M.app = "note"
    BY <1>2, CarrierFields
  <2>2. DOMAIN R = DOMAIN M /\ \A k \in DOMAIN M : k # "chain" => R[k] = M[k]
    BY <2>1, RestoringKeeps
  <2>3. DOMAIN R \ Ca2aKeys = {"app"} /\ R.app = "note"
    BY ZenonT(40), <2>1, <2>2, KeyNames
  <2>4. Attached(R, r) = AttachedNote(r)
    BY <2>3, AttachForgets DEF AttachedNote
  <2> QED
    BY <2>4, CarrierIs DEF AttachToSdkMessage
<1> QED
  BY <1>1, <1>2

-----------------------------------------------------------------------------
(* What the executor parses *)

(* The values of a request's fields. *)
LEMMA RequestValues ==
    ASSUME NEW r \in PeerRequest
    PROVE  /\ r = [k \in Ca2aKeys |-> r[k]]
           /\ r # None
           /\ r.requested_capability \notin {None, Rubbish}
           /\ r.record_id \notin {None, Rubbish}
           /\ \A k \in Ca2aKeys : k # "chain" => r[k] # Rubbish
<1>1. r = [k \in Ca2aKeys |-> r[k]]
  BY SMTT(30) DEF PeerRequest, Ca2aKeys, RequiredKeys, OptionalKeys
<1>2. /\ r.requested_capability \in Cap
      /\ r.record_id \in Call
      /\ r.parent_record_hash \in {None} \cup Call
      /\ r.sealed_payload \in {None} \cup SealedPayloads
      /\ r.caller_offer \in {None} \cup CallerOffers
      /\ r.holder_proof \in HolderProofs
      /\ r.caller_possession \in {None} \cup PossessionProofs
  BY SMTT(30) DEF PeerRequest
<1>3. \A k \in Ca2aKeys : k # "chain" => r[k] # Rubbish
  BY <1>2, RubbishIsNoValue DEF Ca2aKeys, RequiredKeys, OptionalKeys
<1> QED
  BY <1>1, <1>2, <1>3, NoneIsNoValue, RubbishIsNoValue

(* The chain in the Struct comes back as the array that went in. *)
LEMMA ChainRestored ==
    ASSUME NEW r \in PeerRequest
    PROVE  [n \in 1..Len(StructChain(r)) |->
               IF StructChain(r)[n] = Rubbish THEN StructChain(r)[n]
               ELSE IntHop(StructChain(r)[n])] = DictChain(r)
<1> DEFINE a == StructChain(r)
<1>1. /\ Len(a) = Len(r.chain)
      /\ \A n \in 1..Len(r.chain) :
             a[n] = FloatHop(CredentialToDict(r.chain[n])) /\ a[n] # Rubbish
  BY StructChainFields
<1> HIDE DEF a
<1>2. \A n \in 1..Len(r.chain) : IntHop(a[n]) = CredentialToDict(r.chain[n])
  <2> TAKE n \in 1..Len(r.chain)
  <2>1. r.chain[n] \in IssuedCredential
    BY ChainFields
  <2>2. IntHop(FloatHop(CredentialToDict(r.chain[n]))) = CredentialToDict(r.chain[n])
    BY <2>1, StructRoundTrip
  <2> QED
    BY <1>1, <2>2
<1>3. [n \in 1..Len(a) |-> IF a[n] = Rubbish THEN a[n] ELSE IntHop(a[n])] = DictChain(r)
  BY <1>1, <1>2 DEF DictChain
<1> QED
  BY <1>3 DEF a

(* What is left of a carrier's metadata, as the adapter gets to see it.    *)
LEMMA RestoredFields ==
    ASSUME NEW r \in PeerRequest, NEW meta, Remains(meta, Carrier(r).metadata)
    PROVE  /\ DOMAIN MetadataFromSdkMessage(meta) = DOMAIN meta
           /\ DOMAIN meta \subseteq SetKeys(r) \cup {"app"}
           /\ \A k \in DOMAIN meta \cap Ca2aKeys :
                  MetadataFromSdkMessage(meta)[k] =
                      IF meta[k] = Rubbish THEN Rubbish ELSE Field(r, k)
<1> DEFINE X == MetadataFromSdkMessage(meta)
<1>1. /\ meta = [k \in DOMAIN meta |-> meta[k]]
      /\ DOMAIN meta \subseteq SetKeys(r) \cup {"app"}
      /\ \A k \in DOMAIN meta : meta[k] \in {Carrier(r).metadata[k], Rubbish}
  BY CarrierFields DEF Remains
<1>2. DOMAIN X = DOMAIN meta /\ \A k \in DOMAIN meta : k # "chain" => X[k] = meta[k]
  BY <1>1, RestoringKeeps
<1>3. ASSUME NEW k \in DOMAIN meta \cap Ca2aKeys, k # "chain"
      PROVE  X[k] = IF meta[k] = Rubbish THEN Rubbish ELSE Field(r, k)
  <2>1. k \in SetKeys(r)
    BY <1>1, KeyNames
  <2>2. Carrier(r).metadata[k] = r[k] /\ Field(r, k) = r[k]
    BY <1>3, <2>1, CarrierFields DEF Field
  <2>3. X[k] = meta[k]
    BY <1>2, <1>3
  <2>4. meta[k] \in {r[k], Rubbish}
    BY <1>1, <2>2
  <2> QED
    BY <2>2, <2>3, <2>4
<1>4. ASSUME "chain" \in DOMAIN meta
      PROVE  X.chain = IF meta.chain = Rubbish THEN Rubbish ELSE Field(r, "chain")
  <2>1. Get(meta, "chain") = meta.chain
    BY <1>4 DEF Get
  <2>2. CASE meta.chain = Rubbish
    BY <2>1, <2>2, RestoringChanges
  <2>3. CASE meta.chain # Rubbish
    <3>1. meta.chain = StructChain(r)
      BY <1>1, <1>4, <2>3, CarrierFields
    <3>2. X = [meta EXCEPT !.chain = [n \in 1..Len(meta.chain) |->
                  IF meta.chain[n] = Rubbish THEN meta.chain[n] ELSE IntHop(meta.chain[n])]]
      BY <2>1, <3>1, StructChainFields, RestoringChanges
    <3>3. [n \in 1..Len(meta.chain) |->
              IF meta.chain[n] = Rubbish THEN meta.chain[n] ELSE IntHop(meta.chain[n])]
          = DictChain(r)
      BY <3>1, ChainRestored
    <3>4. X = [meta EXCEPT !.chain = DictChain(r)]
      BY <3>2, <3>3
    <3>5. X.chain = DictChain(r)
      BY <1>1, <1>4, <3>4, OtherChain
    <3> QED
      BY <2>3, <3>5 DEF Field, DictChain
  <2> QED
    BY <2>2, <2>3
<1> HIDE DEF X
<1>5. \A k \in DOMAIN meta \cap Ca2aKeys :
          X[k] = IF meta[k] = Rubbish THEN Rubbish ELSE Field(r, k)
  BY <1>3, <1>4
<1> QED
  BY <1>1, <1>2, <1>5 DEF X

(* Parsing the array gives the chain of the request. *)
LEMMA ChainParsed ==
    ASSUME NEW r \in PeerRequest
    PROVE  /\ IsChain(DictChain(r))
           /\ [n \in 1..Len(DictChain(r)) |-> CredentialFromDict(DictChain(r)[n])] = r.chain
<1> DEFINE a == DictChain(r)
<1>1. /\ Len(a) = Len(r.chain)
      /\ a \notin {None, Rubbish}
      /\ a # << >>
      /\ \A n \in 1..Len(r.chain) : a[n] = CredentialToDict(r.chain[n])
  BY DictChainFields
<1> HIDE DEF a
<1>2. \A n \in 1..Len(r.chain) : CredentialFromDict(a[n]) = r.chain[n] /\ IsCredentialDict(a[n])
  <2> TAKE n \in 1..Len(r.chain)
  <2>1. r.chain[n] \in IssuedCredential
    BY ChainFields
  <2>2. /\ CredentialFromDict(CredentialToDict(r.chain[n])) = r.chain[n]
        /\ IsCredentialDict(CredentialToDict(r.chain[n]))
    BY <2>1, DictRoundTrip
  <2> QED
    BY <1>1, <2>2
<1>3. IsChain(a)
  BY <1>1, <1>2 DEF IsChain
<1>4. r.chain = [n \in 1..Len(r.chain) |-> r.chain[n]]
  BY ChainFields
<1>5. [n \in 1..Len(a) |-> CredentialFromDict(a[n])] = [n \in 1..Len(r.chain) |-> r.chain[n]]
  BY <1>1, <1>2
<1> QED
  BY <1>3, <1>4, <1>5 DEF a

(* What parse_peer_request returns for metadata it accepts. *)
LEMMA ParsedFields ==
    ASSUME NEW X, HasCa2aMetadata(X), ParseError(X) = "ok"
    PROVE  /\ ParsePeerRequest(X).error = "ok"
           /\ ParsePeerRequest(X) =
                  [error |-> "ok",
                   request |-> [k \in Ca2aKeys |->
                       IF k = "chain"
                       THEN [n \in 1..Len(X.chain) |-> CredentialFromDict(X.chain[n])]
                       ELSE Get(X, k)]]
           /\ ParsePeerRequest(X).request =
                  [k \in Ca2aKeys |->
                       IF k = "chain"
                       THEN [n \in 1..Len(X.chain) |-> CredentialFromDict(X.chain[n])]
                       ELSE Get(X, k)]
<1> DEFINE q == [k \in Ca2aKeys |->
                    IF k = "chain"
                    THEN [n \in 1..Len(X.chain) |-> CredentialFromDict(X.chain[n])]
                    ELSE Get(X, k)]
<1>1. ParsePeerRequest(X) = [error |-> "ok", request |-> q]
  BY DEF ParsePeerRequest
<1> HIDE DEF q
<1>2. ParsePeerRequest(X).error = "ok" /\ ParsePeerRequest(X).request = q
  BY SMTT(30), <1>1
<1> QED
  BY <1>1, <1>2 DEF q

(* What it accepts. *)
LEMMA ParsedValues ==
    ASSUME NEW X, ParseError(X) = "ok"
    PROVE  /\ IsChain(Get(X, "chain"))
           /\ Get(X, "requested_capability") \notin {None, Rubbish}
           /\ Get(X, "sealed_payload") # Rubbish
           /\ Get(X, "holder_proof") # Rubbish
BY DEF ParseError

(* A message that lost and garbled nothing parses to the request attached. *)
LEMMA CarrierParses ==
    ASSUME NEW r \in PeerRequest
    PROVE  ParseSdkMessage(Carrier(r)) = [error |-> "ok", request |-> r]
<1> DEFINE M == Carrier(r).metadata
           X == MetadataFromSdkMessage(M)
<1>1. Remains(M, M) /\ DOMAIN M = SetKeys(r) \cup {"app"}
  BY CarrierFields DEF Remains
<1>2. /\ DOMAIN X = SetKeys(r) \cup {"app"}
      /\ \A k \in SetKeys(r) : X[k] = IF M[k] = Rubbish THEN Rubbish ELSE Field(r, k)
  BY <1>1, KeyNames, RestoredFields
<1>3. \A k \in SetKeys(r) : M[k] # Rubbish
  <2> TAKE k \in SetKeys(r)
  <2>1. CASE k = "chain"
    BY <2>1, CarrierFields, StructChainFields
  <2>2. CASE k # "chain"
    <3>1. M[k] = r[k]
      BY <2>2, CarrierFields
    <3>2. k \in Ca2aKeys
      BY KeyNames
    <3>3. r[k] # Rubbish
      BY <2>2, <3>2, RequestValues
    <3> QED
      BY <3>1, <3>3
  <2> QED
    BY <2>1, <2>2
<1>4. \A k \in SetKeys(r) : X[k] = Field(r, k)
  BY <1>2, <1>3
<1> HIDE DEF X, M
<1>5. X.chain = DictChain(r) /\ Get(X, "chain") = DictChain(r)
  BY <1>2, <1>4, KeyNames DEF Field, DictChain, Get
<1>6. \A k \in Ca2aKeys : k # "chain" => Get(X, k) = r[k]
  <2> TAKE k \in Ca2aKeys
  <2> HAVE k # "chain"
  <2>1. CASE k \in SetKeys(r)
    BY <1>2, <1>4, <2>1 DEF Get, Field
  <2>2. CASE k \notin SetKeys(r)
    <3>1. r[k] = None
      BY <2>2 DEF SetKeys, Ca2aKeys
    <3>2. k \notin DOMAIN X
      BY <1>2, <2>2, KeyNames
    <3> QED
      BY <3>1, <3>2 DEF Get
  <2> QED
    BY <2>1, <2>2
<1>7. HasCa2aMetadata(X)
  BY <1>2, KeyNames DEF HasCa2aMetadata
<1>8. ParseError(X) = "ok"
  <2>1. IsChain(Get(X, "chain"))
    BY <1>5, ChainParsed
  <2>2. /\ Get(X, "requested_capability") = r.requested_capability
        /\ Get(X, "record_id") = r.record_id
        /\ "parent_record_hash" \in DOMAIN X
    BY <1>2, <1>6 DEF Ca2aKeys, RequiredKeys, SetKeys
  <2>3. \A k \in Ca2aKeys : k # "chain" => Get(X, k) # Rubbish
    BY <1>6, RequestValues
  <2>4. \A k \in {"parent_record_hash", "sealed_payload", "caller_offer",
                  "caller_possession", "holder_proof"} : k \in Ca2aKeys /\ k # "chain"
    BY DEF Ca2aKeys, RequiredKeys, OptionalKeys
  <2> QED
    BY <2>1, <2>2, <2>3, <2>4, RequestValues DEF ParseError
<1>9. [n \in 1..Len(X.chain) |-> CredentialFromDict(X.chain[n])] = r.chain
  BY <1>5, ChainParsed
<1> DEFINE q == [k \in Ca2aKeys |->
                    IF k = "chain"
                    THEN [n \in 1..Len(X.chain) |-> CredentialFromDict(X.chain[n])]
                    ELSE Get(X, k)]
<1>10. ParsePeerRequest(X) = [error |-> "ok", request |-> q]
  BY <1>7, <1>8, ParsedFields
<1>11. q = r
  <2>1. q = [k \in Ca2aKeys |-> r[k]]
    BY <1>6, <1>9
  <2>2. r = [k \in Ca2aKeys |-> r[k]]
    BY RequestValues
  <2> HIDE DEF q
  <2> QED
    BY <2>1, <2>2
<1> HIDE DEF q
<1>12. ParsePeerRequest(X) = [error |-> "ok", request |-> r]
  BY <1>10, <1>11
<1> QED
  BY <1>12 DEF ParseSdkMessage, X, M

(* A damaged one that still parses gives the chain and the capability of   *)
(* the call it set out as, and its proof and its payload unless they were  *)
(* lost.                                                                   *)
LEMMA DamagedParses ==
    ASSUME NEW r \in PeerRequest, NEW m, Remains(m.metadata, Carrier(r).metadata),
           HasCa2aMetadata(m.metadata), ParseSdkMessage(m).error = "ok",
           NEW q, q = ParseSdkMessage(m).request
    PROVE  /\ q.chain = r.chain
           /\ q.requested_capability = r.requested_capability
           /\ q.holder_proof \in {None, r.holder_proof}
           /\ q.sealed_payload \in {None, r.sealed_payload}
<1> DEFINE M == m.metadata
           X == MetadataFromSdkMessage(M)
<1>1. /\ DOMAIN X = DOMAIN M
      /\ \A k \in DOMAIN M \cap Ca2aKeys :
             X[k] = IF M[k] = Rubbish THEN Rubbish ELSE Field(r, k)
  BY RestoredFields
<1>2. ParseSdkMessage(m) = ParsePeerRequest(X)
  BY DEF ParseSdkMessage
<1> HIDE DEF X
<1>3. HasCa2aMetadata(X)
  BY <1>1 DEF HasCa2aMetadata
<1>4. ParseError(X) = "ok"
  <2>1. ASSUME ParseError(X) # "ok" PROVE FALSE
    <3> DEFINE e == ParseError(X)
    <3>1. ParsePeerRequest(X) = [error |-> e, request |-> None]
      BY <1>3, <2>1 DEF ParsePeerRequest
    <3> HIDE DEF e
    <3>2. ParsePeerRequest(X).error = e
      BY SMTT(30), <3>1
    <3> QED
      BY <1>2, <2>1, <3>2 DEF e
  <2> QED
    BY <2>1
<1>5. q = [k \in Ca2aKeys |-> IF k = "chain"
                              THEN [n \in 1..Len(X.chain) |-> CredentialFromDict(X.chain[n])]
                              ELSE Get(X, k)]
  BY <1>2, <1>3, <1>4, ParsedFields
<1>6. \A k \in Ca2aKeys : k # "chain" => q[k] = Get(X, k)
  BY <1>5
<1>7. \A k \in Ca2aKeys : k # "chain" /\ Get(X, k) # Rubbish => Get(X, k) \in {None, r[k]}
  BY <1>1 DEF Get, Field
<1>8. q.chain = r.chain
  <2>1. IsChain(Get(X, "chain"))
    BY <1>4, ParsedValues
  <2>2. "chain" \in DOMAIN M /\ X.chain # Rubbish
    BY <1>1, <2>1 DEF IsChain, Get
  <2>3. X.chain = DictChain(r)
    BY <1>1, <2>2, KeyNames DEF Field, DictChain, Ca2aKeys
  <2>4. q.chain = [n \in 1..Len(X.chain) |-> CredentialFromDict(X.chain[n])]
    BY <1>5, KeyNames DEF Ca2aKeys
  <2> QED
    BY <2>3, <2>4, ChainParsed
<1>9. {"requested_capability", "holder_proof", "sealed_payload"} \subseteq Ca2aKeys \ {"chain"}
  BY DEF Ca2aKeys, RequiredKeys, OptionalKeys
<1> QED
  BY <1>4, <1>6, <1>7, <1>8, <1>9, ParsedValues

-----------------------------------------------------------------------------
(* What the client builds *)

LEMMA BuiltIsRequest ==
    ASSUME NEW c \in Call, NEW p \in Plans, NEW h,
           \E e \in Nat, d \in Call, now \in Nat : HelloOf(h, e, d, now)
    PROVE  Built(c, p, h) \in PeerRequest
<1>1. PICK e \in Nat, d \in Call, now \in Nat : HelloOf(h, e, d, now)
  OBVIOUS
<1> DEFINE key == h.offer.channel_public_key
           ch == h.challenge
           sealed == IF p.payload = None THEN None
                     ELSE [to |-> IF p.payload = "damaged" THEN None ELSE key,
                           by |-> c, plain |-> p.payload]
           offer == IF p.platform = None THEN None
                    ELSE ChannelOffer(CallerKey(c), ch, "caller", p.platform, p.root)
           base == [chain |-> p.chain, requested_capability |-> p.requested_capability,
                    record_id |-> c, sealed_payload |-> sealed,
                    parent_record_hash |-> p.parent_record_hash,
                    caller_offer |-> offer, holder_proof |-> None,
                    caller_possession |-> None]
           proof == HolderProof(base, key, ch)
           proved == [base EXCEPT !.holder_proof = proof]
           possession == CallerPossession(proved, ch, key, CallerKey(c))
<1>2. Built(c, p, h) = IF p.platform = None THEN proved
                       ELSE [proved EXCEPT !.caller_possession = possession]
  BY DEF Built
<1>3. p \in Plan
  BY PlanAssumption
<1>4. /\ p.chain \in Chains
      /\ p.requested_capability \in Cap
      /\ p.payload # None => p.payload \in STRING /\ p.payload # "damaged"
      /\ p.parent_record_hash \in {None} \cup Call
      /\ p.platform # None => p.platform \in {"software-only"} \cup HardwarePlatforms
      /\ p.root \in Key \cup {None}
  BY SMTT(30), <1>3 DEF Plan
<1>5. Leaf(p.chain).credential_id \in CredId /\ Leaf(p.chain).subject \in Key
  <2>1. p.chain \in Seq(IssuedCredential) /\ p.chain # << >>
    BY <1>4 DEF Chains
  <2>2. Leaf(p.chain) \in IssuedCredential
    BY SMTT(30), <2>1 DEF Leaf
  <2>3. Leaf(p.chain) \in DelegationCredential
    BY <2>2 DEF IssuedCredential
  <2> QED
    BY SMTT(30), <2>3 DEF DelegationCredential
<1>6. key = CalleeKey(e) /\ ch = Challenge(e, d, now)
  BY SMTT(30), <1>1 DEF HelloOf, ChannelOffer
<1>7. key \in CalleeKeys
  <2>1. CalleeKey(e) \in CalleeKeys
    BY DEF CalleeKey, CalleeKeys
  <2> QED
    BY <1>6, <2>1
<1>8. ch \in Challenges
  BY SMTT(30), <1>6, NumbersAssumption DEF Challenge, Challenges
<1>9. CallerKey(c) \in CallerKeys
  BY DEF CallerKey, CallerKeys
<1> HIDE DEF key, ch
<1>10. sealed \in {None} \cup SealedPayloads
  BY SMTT(30), <1>4, <1>7 DEF SealedPayloads
<1>11. p.platform # None => offer \in CallerOffers
  BY SMTT(30), <1>4, <1>8, <1>9 DEF ChannelOffer, CallerOffers
<1>12. offer \in {None} \cup CallerOffers
  BY <1>11
<1>13. OfferedKey(offer) \in {None} \cup CallerKeys
  BY SMTT(30), <1>9 DEF OfferedKey, ChannelOffer
<1> HIDE DEF sealed, offer
<1>14. /\ base.chain = p.chain
       /\ base.requested_capability = p.requested_capability
       /\ base.record_id = c
       /\ base.sealed_payload = sealed
       /\ base.parent_record_hash = p.parent_record_hash
       /\ base.caller_offer = offer
  OBVIOUS
<1>15. proof \in HolderProofs
  <2> HIDE DEF base
  <2>1. ProofBody(base, key, ch) \in
            [audience : CalleeKeys, challenge : Challenges, credential_id : CredId,
             subject : Key, requested_capability : Cap, record_id : Call,
             payload : {None} \cup SealedPayloads,
             caller_channel_key : {None} \cup CallerKeys,
             parent_record_hash : {None} \cup Call]
    BY <1>4, <1>5, <1>7, <1>8, <1>10, <1>13, <1>14 DEF ProofBody
  <2>2. Leaf(base.chain).subject \in Key
    BY <1>5, <1>14
  <2> QED
    BY SMTT(30), <1>8, <2>1, <2>2 DEF HolderProof, HolderProofs
<1> HIDE DEF proof
<1>16. /\ proved.chain = p.chain
       /\ proved.requested_capability = p.requested_capability
       /\ proved.record_id = c
       /\ proved.sealed_payload = sealed
       /\ proved.parent_record_hash = p.parent_record_hash
       /\ proved.holder_proof = proof
  OBVIOUS
<1>17. possession \in PossessionProofs
  <2> HIDE DEF proved
  <2>1. Transcript(proved, ch, key, CallerKey(c)) \in
            [challenge : Challenges, callee_channel_key : CalleeKeys,
             caller_channel_key : CallerKeys, credential_id : CredId, subject : Key,
             requested_capability : Cap, record_id : Call,
             payload : {None} \cup SealedPayloads, parent_record_hash : {None} \cup Call,
             holder_proof_signature : HolderProofs]
    BY <1>4, <1>5, <1>7, <1>8, <1>9, <1>10, <1>15, <1>16 DEF Transcript
  <2> QED
    BY SMTT(30), <1>7, <1>9, <2>1 DEF CallerPossession, PossessionProofs
<1> HIDE DEF possession
<1>18. proved \in PeerRequest
  BY SMTT(30), <1>4, <1>10, <1>12, <1>15 DEF PeerRequest
<1>19. [proved EXCEPT !.caller_possession = possession] \in PeerRequest
  <2> HIDE DEF proved
  <2> QED
    BY SMTT(30), <1>17, <1>18 DEF PeerRequest
<1> QED
  BY <1>2, <1>18, <1>19

-----------------------------------------------------------------------------
(* The checks of PeerNode.handle and of the executor *)

LEMMA HopErrorRefuses ==
    ASSUME NEW ch, NEW i, NEW seen, NEW now
    PROVE  HopError(ch, i, seen, now) \in Refusals \cup {"ok"}
BY DEF HopError, RootError, LinkError, Refusals

(* No verdict of verify_chain is mistaken for an answer of the executor.   *)
LEMMA VerdictRange ==
    ASSUME NEW ch, NEW now
    PROVE  VerifyChain(ch, None, now, None) \in Accepted \cup Refusals \cup {"ok"}
<1> DEFINE Err(i) == HopError(ch, i, IdsBefore(ch, i), now)
           failing == {i \in 1..Len(ch) : Err(i) # "ok"}
           first == CHOOSE i \in failing : \A j \in failing : i <= j
<1>1. Err(first) \in Refusals \cup {"ok"}
  BY HopErrorRefuses
<1>2. EntryError(ch) \in Refusals \cup {"ok"}
  BY DEF EntryError, Refusals
<1>3. VerifyChain(ch, None, now, None) =
          IF EntryError(ch) # "ok" THEN EntryError(ch)
          ELSE IF failing # {} THEN Err(first) ELSE UncheckedVerdict
  <2>1. \A sn : VerifyChain(ch, None, now, sn) =
            IF EntryError(ch) # "ok" THEN EntryError(ch)
            ELSE IF failing # {} THEN Err(first)
            ELSE IF sn = None THEN UncheckedVerdict
            ELSE IF RevokedHops(ch, sn, None) # {} THEN "CredentialRevoked"
            ELSE StalenessVerdict(sn, now)
    BY DEF VerifyChain
  <2> HIDE DEF failing, first, Err
  <2> QED
    BY <2>1
<1> HIDE DEF failing, first, Err
<1> QED
  BY <1>1, <1>2, <1>3 DEF UncheckedVerdict, Accepted, Refusals

(* Positions of a sequence counted from its end. *)
LEMMA CountedFromEnd ==
    \A n \in Nat : \A k \in 1..(n - 1) :
        /\ n - k \in 1..n /\ n - (k - 1) \in 2..n /\ n - (k - 1) - 1 = n - k
        /\ k - 1 \in 0..(n - 1) /\ ~(k <= k - 1)
BY SMTT(30)

(* A non-empty set of numbers has a least one; a least counterexample is   *)
(* how the lemmas below do without induction.                              *)
LEMMA LeastNatural ==
    ASSUME NEW T \in SUBSET Nat, T # {}
    PROVE  \E n \in T : \A m \in T : n <= m
<1> DEFINE R == OpToRel(<, Nat)
<1>1. IsWellFoundedOn(R, Nat)
  BY NatLessThanWellFounded
<1>2. \A y, x \in Nat : y < x => <<y, x>> \in R
  BY DEF OpToRel
<1> HIDE DEF R
<1>3. PICK x \in T : \A y \in T : ~(<<y, x>> \in R)
  BY <1>1, WFMin
<1>4. \A y \in T : ~(y < x)
  BY <1>2, <1>3
<1> QED
  BY SMTT(30), <1>4

(* In an accepted chain every hop grants what the leaf grants. *)
LEMMA AcceptedChainGrants ==
    ASSUME NEW ch, Len(ch) \in Nat, Len(ch) >= 1, NEW now,
           VerifyChain(ch, None, now, None) \in Accepted
    PROVE  \A n \in 1..Len(ch) : Leaf(ch).scope \subseteq ch[n].scope
<1> DEFINE Err(i) == HopError(ch, i, IdsBefore(ch, i), now)
           failing == {i \in 1..Len(ch) : Err(i) # "ok"}
           first == CHOOSE i \in failing : \A j \in failing : i <= j
           N == Len(ch)
<1>1. VerifyChain(ch, None, now, None) =
          IF EntryError(ch) # "ok" THEN EntryError(ch)
          ELSE IF failing # {} THEN Err(first) ELSE UncheckedVerdict
  <2>1. \A sn : VerifyChain(ch, None, now, sn) =
            IF EntryError(ch) # "ok" THEN EntryError(ch)
            ELSE IF failing # {} THEN Err(first)
            ELSE IF sn = None THEN UncheckedVerdict
            ELSE IF RevokedHops(ch, sn, None) # {} THEN "CredentialRevoked"
            ELSE StalenessVerdict(sn, now)
    BY DEF VerifyChain
  <2> HIDE DEF failing, first, Err
  <2> QED
    BY <2>1
<1>2. Err(first) \notin Accepted /\ EntryError(ch) \notin Accepted
  BY HopErrorRefuses DEF Accepted, Refusals, EntryError
<1>3. failing = {}
  <2> HIDE DEF failing, first, Err
  <2> QED
    BY <1>1, <1>2
<1>4. \A i \in 1..N : HopError(ch, i, IdsBefore(ch, i), now) = "ok"
  BY <1>3
<1> HIDE DEF failing, first, Err
<1>5. \A i \in 2..N : ch[i].scope \subseteq ch[i - 1].scope
  <2> TAKE i \in 2..N
  <2>1. i \in 1..N /\ i # 1
    BY SMTT(30)
  <2>2. LinkError(ch[i], ch[i - 1]) = "ok"
    BY <1>4, <2>1 DEF HopError
  <2> QED
    BY <2>2 DEF LinkError
<1> DEFINE T == {k \in 0..(N - 1) : ~(ch[N].scope \subseteq ch[N - k].scope)}
<1>6. N \in Nat /\ N >= 1
  OBVIOUS
<1> HIDE DEF N
<1>7. ASSUME T # {} PROVE FALSE
  <2>1. T \in SUBSET Nat
    BY SMTT(30), <1>6
  <2>2. PICK k \in T : \A m \in T : k <= m
    <3> HIDE DEF T
    <3> QED BY <1>7, <2>1, LeastNatural
  <2>3. k \in 1..(N - 1)
    BY SMTT(30), <1>6, <2>2
  <2>4. k - 1 \in 0..(N - 1) /\ k - 1 \notin T
    <3> HIDE DEF T
    <3> QED BY <1>6, <2>2, <2>3, CountedFromEnd
  <2>5. ch[N].scope \subseteq ch[N - (k - 1)].scope
    BY <2>4
  <2>6. N - k \in 1..N /\ N - (k - 1) \in 2..N /\ N - (k - 1) - 1 = N - k
    BY <1>6, <2>3, CountedFromEnd
  <2>7. ch[N - (k - 1)].scope \subseteq ch[N - k].scope
    BY <1>5, <2>6
  <2> QED
    BY <2>2, <2>5, <2>7
<1>8. \A n \in 1..N : ch[N].scope \subseteq ch[n].scope
  <2> TAKE n \in 1..N
  <2>1. N - n \in 0..(N - 1) /\ N - (N - n) = n
    BY SMTT(30), <1>6
  <2>2. ch[N].scope \subseteq ch[N - (N - n)].scope
    BY <1>7, <2>1
  <2> QED
    BY <2>1, <2>2
<1> QED
  BY <1>8 DEF Leaf, N

(* Only a message without any mark of the opt-in is answered as ordinary.  *)
LEMMA OrdinaryBody ==
    ASSUME NEW m
    PROVE  Body(m) = "ordinary" <=>
               ~HasCa2aMetadata(m.metadata) /\ ~m.declared /\ ~m.requested
<1> DEFINE optin == OptIn(m, HasCa2aMetadata(m.metadata))
           parsed == ParseSdkMessage(m)
<1>1. Body(m) = IF optin # "ca2a" THEN optin
                ELSE IF parsed.error # "ok" THEN parsed.error
                ELSE IF HandleRequest(parsed.request) # "granted"
                     THEN HandleRequest(parsed.request)
                ELSE IF ~Served(parsed.request) THEN "UNSUPPORTED_DEMO_INPUT"
                ELSE "accepted"
  BY DEF Body
<1>2. optin = "ordinary" <=> ~HasCa2aMetadata(m.metadata) /\ ~m.declared /\ ~m.requested
  BY DEF OptIn
<1>3. \A r : HandleRequest(r) # "ordinary"
  BY VerdictRange DEF HandleRequest, Accepted, Refusals
<1>4. parsed.error \in {"ok", "TransportError", "HolderProofInvalid"}
  <2> DEFINE X == MetadataFromSdkMessage(m.metadata)
  <2>1. ParseError(X) \in {"ok", "TransportError", "HolderProofInvalid"}
    BY DEF ParseError
  <2>2. \E e, q : /\ ParsePeerRequest(X) = [error |-> e, request |-> q]
                  /\ e \in {"ok", ParseError(X)}
    BY DEF ParsePeerRequest
  <2> HIDE DEF X
  <2>3. ParsePeerRequest(X).error \in {"ok", ParseError(X)}
    BY SMTT(30), <2>2
  <2> QED
    BY <2>1, <2>3 DEF ParseSdkMessage, X
<1> HIDE DEF optin, parsed
<1> QED
  BY <1>1, <1>2, <1>3, <1>4

(* What "accepted" tells about the request. *)
LEMMA AcceptedBody ==
    ASSUME NEW m, Body(m) = "accepted",
           NEW q, q = ParseSdkMessage(m).request
    PROVE  /\ HasCa2aMetadata(m.metadata)
           /\ ParseSdkMessage(m).error = "ok"
           /\ VerifyChain(q.chain, None, clock, None) \in Accepted
           /\ VerifyHolderProof(node.epoch, q, clock)
           /\ q.requested_capability \in Policy \cap Leaf(q.chain).scope
           /\ Opens(q.sealed_payload, node.epoch)
           /\ Served(q)
<1> DEFINE optin == OptIn(m, HasCa2aMetadata(m.metadata))
           error == ParseSdkMessage(m).error
<1>1. Body(m) = IF optin # "ca2a" THEN optin
                ELSE IF error # "ok" THEN error
                ELSE IF HandleRequest(q) # "granted" THEN HandleRequest(q)
                ELSE IF ~Served(q) THEN "UNSUPPORTED_DEMO_INPUT"
                ELSE "accepted"
  BY DEF Body
<1>2. optin # "accepted" /\ (optin = "ca2a" => HasCa2aMetadata(m.metadata))
  BY DEF OptIn
<1>3. error # "accepted"
  <2> DEFINE X == MetadataFromSdkMessage(m.metadata)
  <2>1. ParseError(X) \in {"ok", "TransportError", "HolderProofInvalid"}
    BY DEF ParseError
  <2>2. \E e, p : /\ ParsePeerRequest(X) = [error |-> e, request |-> p]
                  /\ e \in {"ok", ParseError(X)}
    BY DEF ParsePeerRequest
  <2> HIDE DEF X
  <2>3. ParsePeerRequest(X).error \in {"ok", ParseError(X)}
    BY SMTT(30), <2>2
  <2> QED
    BY <2>1, <2>3 DEF ParseSdkMessage, X
<1>4. HandleRequest(q) # "accepted"
  BY VerdictRange DEF HandleRequest, Accepted, Refusals
<1> HIDE DEF optin, error
<1>5. optin = "ca2a" /\ error = "ok" /\ HandleRequest(q) = "granted" /\ Served(q)
  BY <1>1, <1>2, <1>3, <1>4
<1>6. /\ VerifyChain(q.chain, None, clock, None) \in Accepted
      /\ VerifyHolderProof(node.epoch, q, clock)
      /\ q.requested_capability \in Policy \cap Leaf(q.chain).scope
      /\ Opens(q.sealed_payload, node.epoch)
  BY <1>5, VerdictRange DEF HandleRequest, Accepted, Refusals
<1> QED
  BY <1>2, <1>5, <1>6 DEF error

-----------------------------------------------------------------------------
(* Agent Cards.  merge_agent_card deletes in a loop and OfOthers walks the *)
(* list, so first: a recursion over 1..N has a solution.                   *)

Solves(f, n, e, st) ==
    f = [i \in 0..n |-> IF i = 0 THEN e ELSE st[i][f[i - 1]]]

LEMMA Recursion ==
    ASSUME NEW N \in Nat, NEW V, NEW e \in V, NEW st \in [1..N -> [V -> V]]
    PROVE  \E f : Solves(f, N, e, st) /\ \A i \in 0..N : f[i] \in V
<1> DEFINE Good(f, n) == Solves(f, n, e, st) /\ \A i \in 0..n : f[i] \in V
           T == {n \in 0..N : ~\E f : Good(f, n)}
<1>1. ASSUME T # {} PROVE FALSE
  <2>1. T \in SUBSET Nat
    BY SMTT(30)
  <2>2. PICK n \in T : \A m \in T : n <= m
    <3> HIDE DEF T
    <3> QED BY <1>1, <2>1, LeastNatural
  <2>3. n \in 0..N /\ ~\E f : Good(f, n)
    BY <2>2
  <2>4. CASE n = 0
    <3> DEFINE f == [i \in 0..0 |-> e]
    <3>1. Good(f, 0)
      BY SMTT(30) DEF Solves
    <3> QED
      BY <2>3, <2>4, <3>1
  <2>5. CASE n # 0
    <3>1. n - 1 \in 0..N /\ n \in 1..N /\ ~(n <= n - 1) /\ n \in Nat
      BY SMTT(30), <2>3, <2>5
    <3>2. n - 1 \notin T
      <4> HIDE DEF T
      <4> QED BY <2>2, <3>1
    <3>3. PICK g : Good(g, n - 1)
      BY <3>1, <3>2
    <3> DEFINE f == [i \in 0..n |-> IF i = n THEN st[n][g[n - 1]] ELSE g[i]]
    <3>4. \A i \in 0..n : i # n => i \in 0..(n - 1) /\ f[i] = g[i]
      BY SMTT(30), <3>1
    <3>5. n - 1 \in 0..(n - 1) /\ n - 1 \in 0..n /\ n \in 0..n
      BY SMTT(30), <3>1
    <3>6. f[n] = st[n][g[n - 1]] /\ f[n] \in V
      BY ZenonT(40), <3>1, <3>3, <3>5
    <3>7. \A i \in 0..n : f[i] \in V
      BY <3>3, <3>4, <3>6
    <3>8. \A i \in 0..n : f[i] = IF i = 0 THEN e ELSE st[i][f[i - 1]]
      <4> TAKE i \in 0..n
      <4>1. i # 0 => i - 1 \in 0..n /\ i - 1 # n
        BY SMTT(30), <3>1
      <4>2. i # 0 => f[i - 1] = g[i - 1]
        BY <3>4, <4>1
      <4>3. CASE i = n
        BY <2>5, <3>6, <4>2, <4>3
      <4>4. CASE i # n
        <5>1. i \in 0..(n - 1) /\ f[i] = g[i]
          BY <3>4, <4>4
        <5>2. g[i] = IF i = 0 THEN e ELSE st[i][g[i - 1]]
          BY <3>3, <5>1 DEF Solves
        <5> QED
          BY <4>2, <5>1, <5>2
      <4> QED
        BY <4>3, <4>4
    <3>9. f = [i \in 0..n |-> f[i]]
      OBVIOUS
    <3> HIDE DEF f
    <3>10. f = [i \in 0..n |-> IF i = 0 THEN e ELSE st[i][f[i - 1]]]
      BY <3>8, <3>9
    <3>11. Good(f, n)
      BY <3>7, <3>10 DEF Solves
    <3> QED
      BY <2>3, <3>11
  <2> QED
    BY <2>4, <2>5
<1>2. N \in 0..N
  BY SMTT(30)
<1> QED
  BY <1>1, <1>2

(* The extensions of others among the first n. *)
Others(s) ==
    CHOOSE f : f = [n \in 0..Len(s) |->
                       IF n = 0 THEN << >>
                       ELSE IF IsOurs(s[n]) THEN f[n - 1]
                       ELSE Append(f[n - 1], s[n])]

LEMMA OthersStep ==
    ASSUME NEW s \in Seq(Extension)
    PROVE  /\ OfOthers(s) = Others(s)[Len(s)]
           /\ Others(s)[0] = << >>
           /\ \A n \in 1..Len(s) :
                  Others(s)[n] = IF IsOurs(s[n]) THEN Others(s)[n - 1]
                                 ELSE Append(Others(s)[n - 1], s[n])
<1> DEFINE N == Len(s)
           V == Seq(Extension)
           st == [i \in 1..N |-> [x \in V |-> IF IsOurs(s[i]) THEN x ELSE Append(x, s[i])]]
           Walks(f) == f = [n \in 0..N |->
                               IF n = 0 THEN << >>
                               ELSE IF IsOurs(s[n]) THEN f[n - 1]
                               ELSE Append(f[n - 1], s[n])]
<1>1. N \in Nat /\ \A i \in 1..N : s[i] \in Extension
  BY SMTT(30)
<1>2. << >> \in V /\ \A x \in V : \A i \in 1..N : Append(x, s[i]) \in V
  BY SMTT(30), <1>1
<1>3. st \in [1..N -> [V -> V]]
  <2> HIDE DEF V, N
  <2> QED BY <1>2
<1>4. PICK f : Solves(f, N, << >>, st) /\ \A i \in 0..N : f[i] \in V
  <2> HIDE DEF V, st, N
  <2> QED BY <1>1, <1>2, <1>3, Recursion
<1>5. Walks(f)
  <2>1. \A i \in 0..N : i # 0 => i \in 1..N /\ i - 1 \in 0..N
    BY SMTT(30), <1>1
  <2>2. \A i \in 0..N : i # 0 =>
            st[i][f[i - 1]] = IF IsOurs(s[i]) THEN f[i - 1] ELSE Append(f[i - 1], s[i])
    <3> HIDE DEF V, N
    <3> QED BY <1>4, <2>1
  <2> HIDE DEF st, V, N
  <2> QED
    BY <1>4, <2>2 DEF Solves
<1>6. Walks(Others(s))
  <2>1. Others(s) = CHOOSE g : Walks(g)
    BY DEF Others
  <2> HIDE DEF Walks
  <2> QED BY <1>5, <2>1
<1>7. OfOthers(s) = Others(s)[N]
  BY DEF OfOthers, Others
<1>8. 0 \in 0..N /\ \A n \in 1..N : n \in 0..N /\ n # 0
  BY SMTT(30), <1>1
<1> HIDE DEF N
<1>9. /\ Others(s)[0] = << >>
      /\ \A n \in 1..N : Others(s)[n] = IF IsOurs(s[n]) THEN Others(s)[n - 1]
                                        ELSE Append(Others(s)[n - 1], s[n])
  <2> DEFINE O == Others(s)
  <2>1. O = [n \in 0..N |-> IF n = 0 THEN << >>
                            ELSE IF IsOurs(s[n]) THEN O[n - 1]
                            ELSE Append(O[n - 1], s[n])]
    BY <1>6
  <2> HIDE DEF O
  <2>2. O[0] = << >>
    BY <1>8, <2>1
  <2>3. \A n \in 1..N : O[n] = IF IsOurs(s[n]) THEN O[n - 1] ELSE Append(O[n - 1], s[n])
    BY <1>8, <2>1
  <2> QED
    BY <2>2, <2>3 DEF O
<1> QED
  BY <1>7, <1>9 DEF N

(* Replacing a declaration of ours by another leaves the others alone. *)
LEMMA OthersSame ==
    ASSUME NEW s \in Seq(Extension), NEW w \in Seq(Extension), NEW p \in Nat,
           p <= Len(s), p <= Len(w),
           \A j \in 1..p : s[j] = w[j] \/ (IsOurs(s[j]) /\ IsOurs(w[j]))
    PROVE  Others(s)[p] = Others(w)[p]
<1> DEFINE T == {n \in 0..p : Others(s)[n] # Others(w)[n]}
<1>1. ASSUME T # {} PROVE FALSE
  <2>1. T \in SUBSET Nat
    BY SMTT(30)
  <2>2. PICK n \in T : \A m \in T : n <= m
    <3> HIDE DEF T
    <3> QED BY <1>1, <2>1, LeastNatural
  <2>3. n \in 0..p /\ Others(s)[n] # Others(w)[n]
    BY <2>2
  <2>4. n # 0
    <3>1. Others(s)[0] = << >> /\ Others(w)[0] = << >>
      BY OthersStep
    <3> QED BY <2>3, <3>1
  <2>5. /\ n \in 1..p /\ n \in 1..Len(s) /\ n \in 1..Len(w)
        /\ n - 1 \in 0..p /\ ~(n <= n - 1)
    <3>1. Len(s) \in Nat /\ Len(w) \in Nat
      BY SMTT(30)
    <3> QED BY SMTT(30), <2>3, <2>4, <3>1
  <2>6. n - 1 \notin T
    <3> HIDE DEF T
    <3> QED BY <2>2, <2>5
  <2>7. Others(s)[n - 1] = Others(w)[n - 1]
    BY <2>5, <2>6
  <2>8. Others(s)[n] = IF IsOurs(s[n]) THEN Others(s)[n - 1]
                       ELSE Append(Others(s)[n - 1], s[n])
    BY <2>5, OthersStep
  <2>9. Others(w)[n] = IF IsOurs(w[n]) THEN Others(w)[n - 1]
                       ELSE Append(Others(w)[n - 1], w[n])
    BY <2>5, OthersStep
  <2>10. s[n] = w[n] \/ (IsOurs(s[n]) /\ IsOurs(w[n]))
    BY <2>5
  <2>11. CASE s[n] = w[n]
    BY <2>3, <2>7, <2>8, <2>9, <2>11
  <2>12. CASE IsOurs(s[n]) /\ IsOurs(w[n])
    BY <2>3, <2>7, <2>8, <2>9, <2>12
  <2> QED
    BY <2>10, <2>11, <2>12
<1>2. p \in 0..p
  BY SMTT(30)
<1> QED
  BY <1>1, <1>2

(* del extensions[n] *)
LEMMA WithoutIs ==
    ASSUME NEW s \in Seq(Extension), NEW n \in Nat
    PROVE  /\ Without(s, n) \in Seq(Extension)
           /\ s # << >> =>
                 /\ Len(Without(s, n)) = Len(s) - 1
                 /\ \A j \in 1..(Len(s) - 1) :
                       Without(s, n)[j] = IF j < n THEN s[j] ELSE s[j + 1]
<1> DEFINE w == Without(s, n)
           N == Len(s)
<1>1. N \in Nat /\ (s # << >> => N > 0) /\ (s = << >> => N = 0)
      /\ \A j \in 1..N : s[j] \in Extension
  BY SMTT(30)
<1>2. CASE N = 0
  <2>1. 1..(N - 1) = {}
    BY SMTT(30), <1>2
  <2>2. w = [k \in {} |-> IF k < n THEN s[k] ELSE s[k + 1]]
    BY <2>1 DEF Without
  <2>3. w = << >>
    BY SMTT(30), <2>2
  <2>4. << >> \in Seq(Extension)
    BY SMTT(30)
  <2> QED
    BY SMTT(30), <1>1, <1>2, <2>3, <2>4
<1>3. CASE N # 0
  <2>1. \A j \in 1..(N - 1) : (IF j < n THEN s[j] ELSE s[j + 1]) \in Extension
    BY SMTT(30), <1>1, <1>3
  <2>2. N - 1 \in Nat
    BY SMTT(30), <1>1, <1>3
  <2>3. w \in [1..(N - 1) -> Extension]
    <3> HIDE DEF N
    <3>1. w = [k \in 1..(N - 1) |-> IF k < n THEN s[k] ELSE s[k + 1]]
      BY DEF Without, N
    <3> HIDE DEF w
    <3> QED BY <2>1, <3>1
  <2>4. w \in Seq(Extension) /\ Len(w) = N - 1
    <3> HIDE DEF w, N
    <3> QED BY SMTT(30), <2>2, <2>3
  <2>5. \A j \in 1..(N - 1) : w[j] = IF j < n THEN s[j] ELSE s[j + 1]
    BY DEF Without
  <2> QED
    BY <2>4, <2>5
<1> QED
  BY <1>2, <1>3

(* Deleting a declaration of ours moves the extensions behind it up by one *)
(* and loses none of another's.                                            *)
LEMMA OthersShift ==
    ASSUME NEW s \in Seq(Extension), NEW n \in 1..Len(s), IsOurs(s[n])
    PROVE  OfOthers(Without(s, n)) = OfOthers(s)
<1> DEFINE w == Without(s, n)
           N == Len(s)
           T == {j \in n..N : Others(w)[j - 1] # Others(s)[j]}
<1>1. N \in Nat /\ n \in Nat /\ n >= 1 /\ n <= N /\ s # << >>
  BY SMTT(30)
<1>2. /\ w \in Seq(Extension)
      /\ Len(w) = N - 1
      /\ \A j \in 1..(N - 1) : w[j] = IF j < n THEN s[j] ELSE s[j + 1]
  BY <1>1, WithoutIs
<1>3. ASSUME T # {} PROVE FALSE
  <2>1. T \in SUBSET Nat
    <3> HIDE DEF N
    <3> QED BY SMTT(30), <1>1
  <2>2. PICK j \in T : \A m \in T : j <= m
    <3> HIDE DEF T
    <3> QED BY <1>3, <2>1, LeastNatural
  <2>3. j \in n..N /\ Others(w)[j - 1] # Others(s)[j]
    BY <2>2
  <2> HIDE DEF w, N
  <2>4. CASE j = n
    <3>1. n - 1 \in Nat /\ n - 1 <= N /\ n - 1 <= N - 1
      BY SMTT(30), <1>1
    <3>2. \A i \in 1..(n - 1) : s[i] = w[i]
      BY SMTT(30), <1>1, <1>2
    <3>3. Others(s)[n - 1] = Others(w)[n - 1]
      <4>1. n - 1 <= Len(s) /\ n - 1 <= Len(w)
        BY <1>2, <3>1 DEF N
      <4> QED BY <1>2, <3>1, <3>2, <4>1, OthersSame
    <3>4. Others(s)[n] = Others(s)[n - 1]
      BY OthersStep
    <3> QED
      BY <2>3, <2>4, <3>3, <3>4
  <2>5. CASE j # n
    <3>1. /\ j \in 1..N /\ j - 1 \in 1..(N - 1) /\ j - 1 \in n..N
          /\ ~(j <= j - 1) /\ ~(j - 1 < n) /\ (j - 1) + 1 = j
      BY SMTT(30), <1>1, <2>3, <2>5
    <3>2. j - 1 \notin T
      <4> HIDE DEF T
      <4> QED BY <2>2, <3>1
    <3>3. Others(w)[(j - 1) - 1] = Others(s)[j - 1]
      BY <3>1, <3>2
    <3>4. w[j - 1] = s[j]
      BY <1>2, <3>1
    <3>5. Others(s)[j] = IF IsOurs(s[j]) THEN Others(s)[j - 1]
                         ELSE Append(Others(s)[j - 1], s[j])
      BY <3>1, OthersStep DEF N
    <3>6. Others(w)[j - 1] = IF IsOurs(w[j - 1]) THEN Others(w)[(j - 1) - 1]
                             ELSE Append(Others(w)[(j - 1) - 1], w[j - 1])
      BY <1>2, <3>1, OthersStep
    <3> QED
      BY <2>3, <3>3, <3>4, <3>5, <3>6
  <2> QED
    BY <2>4, <2>5
<1>4. N \in n..N
  <2> HIDE DEF N
  <2> QED BY SMTT(30), <1>1
<1>5. Others(w)[N - 1] = Others(s)[N]
  BY <1>3, <1>4
<1>6. OfOthers(w) = Others(w)[Len(w)] /\ OfOthers(s) = Others(s)[N]
  <2> HIDE DEF w
  <2> QED BY <1>2, OthersStep
<1> QED
  BY <1>2, <1>5, <1>6

(* The list after the last k positions were seen. *)
Left(s, dups) ==
    CHOOSE f : f = [k \in 0..Len(s) |->
                       IF k = 0 THEN s
                       ELSE IF Len(s) + 1 - k \in dups
                            THEN Without(f[k - 1], Len(s) + 1 - k)
                       ELSE f[k - 1]]

LEMMA LeftStep ==
    ASSUME NEW s \in Seq(Extension), NEW dups
    PROVE  /\ Collapse(s, dups) = Left(s, dups)[Len(s)]
           /\ Left(s, dups)[0] = s
           /\ \A k \in 1..Len(s) :
                  Left(s, dups)[k] = IF Len(s) + 1 - k \in dups
                                     THEN Without(Left(s, dups)[k - 1], Len(s) + 1 - k)
                                     ELSE Left(s, dups)[k - 1]
<1> DEFINE N == Len(s)
           V == Seq(Extension)
           st == [i \in 1..N |->
                     [x \in V |-> IF N + 1 - i \in dups THEN Without(x, N + 1 - i) ELSE x]]
           Walks(f) == f = [k \in 0..N |->
                               IF k = 0 THEN s
                               ELSE IF N + 1 - k \in dups THEN Without(f[k - 1], N + 1 - k)
                               ELSE f[k - 1]]
<1>1. N \in Nat
  BY SMTT(30)
<1>2. \A i \in 1..N : N + 1 - i \in Nat
  <2> HIDE DEF N
  <2> QED BY SMTT(30), <1>1
<1>3. \A x \in V : \A i \in 1..N : Without(x, N + 1 - i) \in V
  <2> HIDE DEF N
  <2> QED BY <1>2, WithoutIs
<1>4. st \in [1..N -> [V -> V]]
  <2> HIDE DEF V, N
  <2> QED BY <1>3
<1>5. PICK f : Solves(f, N, s, st) /\ \A i \in 0..N : f[i] \in V
  <2>1. s \in V
    OBVIOUS
  <2> HIDE DEF V, st, N
  <2> QED BY <1>1, <1>4, <2>1, Recursion
<1>6. Walks(f)
  <2>1. \A i \in 0..N : i # 0 => i \in 1..N /\ i - 1 \in 0..N
    BY SMTT(30), <1>1
  <2>2. \A i \in 0..N : i # 0 =>
            st[i][f[i - 1]] = IF N + 1 - i \in dups THEN Without(f[i - 1], N + 1 - i)
                              ELSE f[i - 1]
    <3> HIDE DEF V, N
    <3> QED BY <1>5, <2>1
  <2> HIDE DEF st, V, N
  <2> QED
    BY <1>5, <2>2 DEF Solves
<1>7. Walks(Left(s, dups))
  <2>1. Left(s, dups) = CHOOSE g : Walks(g)
    BY DEF Left
  <2> HIDE DEF Walks
  <2> QED BY <1>6, <2>1
<1>8. Collapse(s, dups) = Left(s, dups)[N]
  BY DEF Collapse, Left
<1>9. 0 \in 0..N /\ \A n \in 1..N : n \in 0..N /\ n # 0
  BY SMTT(30), <1>1
<1> HIDE DEF N
<1>10. /\ Left(s, dups)[0] = s
       /\ \A k \in 1..N :
              Left(s, dups)[k] = IF N + 1 - k \in dups
                                 THEN Without(Left(s, dups)[k - 1], N + 1 - k)
                                 ELSE Left(s, dups)[k - 1]
  <2> DEFINE O == Left(s, dups)
  <2>1. O = [k \in 0..N |-> IF k = 0 THEN s
                            ELSE IF N + 1 - k \in dups THEN Without(O[k - 1], N + 1 - k)
                            ELSE O[k - 1]]
    BY <1>7
  <2> HIDE DEF O
  <2>2. O[0] = s
    BY <1>9, <2>1
  <2>3. \A k \in 1..N : O[k] = IF N + 1 - k \in dups THEN Without(O[k - 1], N + 1 - k)
                               ELSE O[k - 1]
    BY <1>9, <2>1
  <2> QED
    BY <2>2, <2>3 DEF O
<1> QED
  BY <1>8, <1>10 DEF N

(* What holds of the list x once the positions above hi were seen: up to   *)
(* hi it is the list s, above hi it has none of ours, and the others are   *)
(* all there.                                                              *)
SeenDownTo(s, x, hi) ==
    /\ x \in Seq(Extension)
    /\ hi <= Len(x)
    /\ \A j \in 1..hi : x[j] = s[j]
    /\ \A j \in 1..Len(x) : j > hi => ~IsOurs(x[j])
    /\ OfOthers(x) = OfOthers(s)

(* One round of the loop, at position q > first. *)
LEMMA DeleteDuplicate ==
    ASSUME NEW s \in Seq(Extension), NEW x, NEW q \in Nat, q >= 1, q <= Len(s),
           SeenDownTo(s, x, q), IsOurs(s[q])
    PROVE  SeenDownTo(s, Without(x, q), q - 1)
<1> DEFINE w == Without(x, q)
<1>1. x \in Seq(Extension) /\ q <= Len(x)
  BY DEF SeenDownTo
<1>2. Len(x) \in Nat
  BY SMTT(30), <1>1
<1>3. x # << >> /\ q \in 1..Len(x) /\ q \in 1..q
  BY SMTT(30), <1>1, <1>2
<1>4. IsOurs(x[q])
  BY <1>3 DEF SeenDownTo
<1>5. /\ w \in Seq(Extension)
      /\ Len(w) = Len(x) - 1
      /\ \A j \in 1..(Len(x) - 1) : w[j] = IF j < q THEN x[j] ELSE x[j + 1]
  BY <1>1, <1>3, WithoutIs
<1>6. OfOthers(w) = OfOthers(x)
  BY <1>1, <1>3, <1>4, OthersShift
<1>7. \A j \in 1..q : x[j] = s[j]
  BY DEF SeenDownTo
<1>8. \A j \in 1..Len(x) : j > q => ~IsOurs(x[j])
  BY DEF SeenDownTo
<1> HIDE DEF w
<1>9. q - 1 <= Len(w)
  BY SMTT(30), <1>1, <1>2, <1>5
<1>10. \A j \in 1..(q - 1) : w[j] = s[j]
  BY SMTT(30), <1>1, <1>2, <1>5, <1>7
<1>11. ASSUME NEW j \in 1..Len(w), j > q - 1 PROVE ~IsOurs(w[j])
  <2>1. j \in 1..(Len(x) - 1) /\ ~(j < q) /\ j + 1 \in 1..Len(x) /\ j + 1 > q
    BY SMTT(30), <1>2, <1>5, <1>11
  <2>2. w[j] = x[j + 1]
    BY <1>5, <2>1
  <2> QED
    BY <1>8, <2>1, <2>2
<1>12. OfOthers(w) = OfOthers(s)
  BY <1>6 DEF SeenDownTo
<1> QED
  BY <1>5, <1>9, <1>10, <1>11, <1>12 DEF SeenDownTo, w

LEMMA CollapseKeeps ==
    ASSUME NEW s \in Seq(Extension), NEW first \in Matching(s),
           \A k \in Matching(s) : first <= k
    PROVE  SeenDownTo(s, Collapse(s, Matching(s) \ {first}), first)
<1> DEFINE N == Len(s)
           dups == Matching(s) \ {first}
           O == Left(s, dups)
           H(k) == IF N - k >= first THEN N - k ELSE first
           T == {k \in 0..N : ~SeenDownTo(s, O[k], H(k))}
<1>1. N \in Nat
  BY SMTT(30)
<1>2. \A i \in 1..N : i \in Matching(s) <=> IsOurs(s[i])
  BY DEF Matching
<1>3. first \in 1..N /\ \A i \in dups : i \in 1..N
  BY DEF Matching
<1> HIDE DEF N
<1>4. /\ Collapse(s, dups) = O[N]
      /\ O[0] = s
      /\ \A k \in 1..N : O[k] = IF N + 1 - k \in dups THEN Without(O[k - 1], N + 1 - k)
                                ELSE O[k - 1]
  <2> HIDE DEF dups
  <2>1. Collapse(s, dups) = O[N]
    BY LeftStep DEF N
  <2>2. O[0] = s
    BY LeftStep
  <2>3. \A k \in 1..N : O[k] = IF N + 1 - k \in dups THEN Without(O[k - 1], N + 1 - k)
                               ELSE O[k - 1]
    <3> HIDE DEF O
    <3>1. \A k \in 1..Len(s) : O[k] = IF Len(s) + 1 - k \in dups
                                      THEN Without(O[k - 1], Len(s) + 1 - k)
                                      ELSE O[k - 1]
      <4> TAKE k \in 1..Len(s)
      <4> QED BY SMTT(30), LeftStep DEF O
    <3> QED
      BY <3>1 DEF N
  <2> QED
    BY <2>1, <2>2, <2>3
<1>5. first \in Nat /\ first >= 1 /\ first <= N
  BY SMTT(30), <1>1, <1>3
<1> HIDE DEF O
<1>6. ASSUME T # {} PROVE FALSE
  <2>1. T \in SUBSET Nat
    BY SMTT(30), <1>1
  <2>2. PICK k \in T : \A m \in T : k <= m
    <3> HIDE DEF T
    <3> QED BY <1>6, <2>1, LeastNatural
  <2>3. k \in 0..N /\ ~SeenDownTo(s, O[k], H(k))
    BY <2>2
  <2>4. CASE k = 0
    <3>1. H(k) = N
      BY SMTT(30), <1>1, <1>5, <2>4
    <3>2. O[k] = s
      BY <1>4, <2>4
    <3>3. N <= Len(s) /\ \A j \in 1..Len(s) : ~(j > N)
      BY SMTT(30), <1>1 DEF N
    <3>4. SeenDownTo(s, s, N)
      BY <3>3 DEF SeenDownTo
    <3> QED
      BY <2>3, <3>1, <3>2, <3>4
  <2>5. CASE k # 0
    <3> DEFINE q == N + 1 - k
               x == O[k - 1]
    <3>1. /\ k \in 1..N /\ k - 1 \in 0..N /\ ~(k <= k - 1)
          /\ q \in Nat /\ q \in 1..N /\ q >= 1 /\ q <= N
      BY SMTT(30), <1>1, <2>3, <2>5
    <3>2. k - 1 \notin T
      <4> HIDE DEF T
      <4> QED BY <2>2, <3>1
    <3>3. SeenDownTo(s, x, H(k - 1))
      BY <3>1, <3>2
    <3>4. O[k] = IF q \in dups THEN Without(x, q) ELSE x
      BY <1>4, <3>1
    <3>5. CASE q > first
      <4>1. H(k - 1) = q /\ H(k) = q - 1
        BY SMTT(30), <1>1, <1>5, <2>3, <3>5
      <4>2. q # first
        BY SMTT(30), <1>5, <3>5
      <4> HIDE DEF H, x, q
      <4>3. SeenDownTo(s, x, q)
        BY <3>3, <4>1
      <4>4. CASE q \in dups
        <5>1. IsOurs(s[q])
          BY <1>2, <3>1, <4>4
        <5>2. SeenDownTo(s, Without(x, q), q - 1)
          BY <3>1, <4>3, <5>1, DeleteDuplicate DEF N
        <5> QED
          BY <2>3, <3>4, <4>1, <4>4, <5>2
      <4>5. CASE q \notin dups
        <5>1. ~IsOurs(s[q])
          BY <1>2, <3>1, <4>2, <4>5
        <5>2. x \in Seq(Extension) /\ q <= Len(x) /\ OfOthers(x) = OfOthers(s)
          BY <4>3 DEF SeenDownTo
        <5>3. \A j \in 1..q : x[j] = s[j]
          BY <4>3 DEF SeenDownTo
        <5>4. \A j \in 1..Len(x) : j > q => ~IsOurs(x[j])
          BY <4>3 DEF SeenDownTo
        <5>5. Len(x) \in Nat
          BY SMTT(30), <5>2
        <5>6. q - 1 <= Len(x) /\ q \in 1..q
          BY SMTT(30), <3>1, <5>2, <5>5
        <5>7. \A j \in 1..(q - 1) : j \in 1..q
          BY SMTT(30), <3>1
        <5>8. \A j \in 1..Len(x) : j > q - 1 => j > q \/ j = q
          BY SMTT(30), <3>1, <5>5
        <5>9. x[q] = s[q]
          BY <5>3, <5>6
        <5>10. \A j \in 1..Len(x) : j > q - 1 => ~IsOurs(x[j])
          BY <5>1, <5>4, <5>8, <5>9
        <5>11. SeenDownTo(s, x, q - 1)
          BY <5>2, <5>3, <5>6, <5>7, <5>10 DEF SeenDownTo
        <5> QED
          BY <2>3, <3>4, <4>1, <4>5, <5>11
      <4> QED
        BY <4>4, <4>5
    <3>6. CASE ~(q > first)
      <4>1. H(k - 1) = first /\ H(k) = first
        BY SMTT(30), <1>1, <1>5, <2>3, <3>6
      <4>2. q \notin dups
        <5>1. ASSUME q \in dups PROVE FALSE
          <6>1. first <= q /\ q # first
            BY <5>1
          <6> QED BY SMTT(30), <1>5, <3>1, <3>6, <6>1
        <5> QED BY <5>1
      <4> HIDE DEF H, x, q
      <4> QED
        BY <2>3, <3>3, <3>4, <4>1, <4>2
    <3> QED
      BY <3>5, <3>6
  <2> QED
    BY <2>4, <2>5
<1>7. N \in 0..N /\ H(N) = first
  BY SMTT(30), <1>1, <1>5
<1>8. SeenDownTo(s, O[N], H(N))
  BY <1>6, <1>7
<1> QED
  BY <1>4, <1>7, <1>8

LEMMA FirstIs ==
    ASSUME NEW s \in Seq(Extension), Matching(s) # {}
    PROVE  /\ First(Matching(s)) \in Matching(s)
           /\ \A k \in Matching(s) : First(Matching(s)) <= k
<1>1. Len(s) \in Nat
  BY SMTT(30)
<1>2. 1..Len(s) \subseteq Nat
  BY SMTT(30), <1>1
<1>3. Matching(s) \in SUBSET Nat
  BY <1>2 DEF Matching
<1>4. \E n \in Matching(s) : \A m \in Matching(s) : n <= m
  BY <1>3, LeastNatural
<1> QED
  BY <1>4 DEF First

(* merge_agent_card, whatever card the operator brings: one declaration,   *)
(* which is the node's, and the extensions of others as they were.         *)
LEMMA MergeIs ==
    ASSUME NEW s \in Seq(Extension), NEW r \in RequirementValues
    PROVE  /\ MergeAgentCard(s, r) \in Seq(Extension)
           /\ Declares(MergeAgentCard(s, r), r)
           /\ OfOthers(MergeAgentCard(s, r)) = OfOthers(s)
<1> DEFINE ours == AgentExtensionForNode(r)
           first == First(Matching(s))
           N == Len(s)
<1>1. ours \in Extension /\ IsOurs(ours)
  <2> DEFINE no == FALSE
             ca2a == "ca2a"
  <2>1. no \in BOOLEAN
    OBVIOUS
  <2>2. ca2a \in Uris
    BY DEF Uris
  <2>3. ours = [uri |-> ca2a, required |-> no, unknown |-> no, requirement |-> r]
    BY DEF AgentExtensionForNode
  <2> HIDE DEF no, ca2a, ours
  <2>4. ours \in Extension /\ ours.uri = ca2a
    BY SMTT(30), <2>1, <2>2, <2>3 DEF Extension
  <2> QED
    BY <2>4 DEF IsOurs, ca2a
<1>2. N \in Nat
  BY SMTT(30)
<1>3. CASE Matching(s) = {}
  <2> DEFINE w == Append(s, ours)
  <2>1. MergeAgentCard(s, r) = w
    BY <1>3 DEF MergeAgentCard
  <2> HIDE DEF ours
  <2>2. /\ w \in Seq(Extension) /\ Len(w) = N + 1 /\ w[N + 1] = ours
        /\ \A j \in 1..N : w[j] = s[j]
    BY SMTT(30), <1>1
  <2> HIDE DEF w
  <2>3. N <= Len(s) /\ N <= Len(w)
    BY SMTT(30), <1>2, <2>2
  <2>4. Others(s)[N] = Others(w)[N]
    BY <1>2, <2>2, <2>3, OthersSame
  <2>5. N + 1 \in 1..Len(w) /\ (N + 1) - 1 = N
    BY SMTT(30), <1>2, <2>2
  <2>6. Others(w)[N + 1] = Others(w)[N]
    <3>1. Others(w)[N + 1] = IF IsOurs(w[N + 1]) THEN Others(w)[(N + 1) - 1]
                             ELSE Append(Others(w)[(N + 1) - 1], w[N + 1])
      BY <2>2, <2>5, OthersStep
    <3> QED BY <1>1, <2>2, <2>5, <3>1
  <2>7. OfOthers(w) = Others(w)[Len(w)] /\ OfOthers(s) = Others(s)[N]
    BY <2>2, OthersStep
  <2>8. OfOthers(w) = OfOthers(s)
    BY <2>2, <2>4, <2>6, <2>7
  <2>9. \A j \in 1..N : ~IsOurs(s[j])
    BY <1>3 DEF Matching
  <2>10. \A j \in 1..Len(w) : j \in 1..N \/ j = N + 1
    BY SMTT(30), <1>2, <2>2
  <2>11. \A j \in 1..Len(w) : IsOurs(w[j]) <=> j = N + 1
    <3>1. ~(N + 1 \in 1..N)
      BY SMTT(30), <1>2
    <3> QED BY <1>1, <2>2, <2>9, <2>10, <3>1
  <2>12. Matching(w) = {N + 1}
    BY <2>5, <2>11 DEF Matching
  <2>13. Declares(w, r)
    BY <2>2, <2>5, <2>12 DEF Declares, ours
  <2> QED
    BY <2>1, <2>2, <2>8, <2>13
<1>4. CASE Matching(s) # {}
  <2> DEFINE e == [s EXCEPT ![first] = ours]
             x == Collapse(e, Matching(s) \ {first})
  <2>1. MergeAgentCard(s, r) = x
    BY <1>4 DEF MergeAgentCard
  <2>2. first \in Matching(s) /\ \A k \in Matching(s) : first <= k
    BY <1>4, FirstIs
  <2>3. first \in 1..N /\ IsOurs(s[first])
    BY <2>2 DEF Matching
  <2> HIDE DEF ours, first
  <2>4. /\ e \in Seq(Extension) /\ Len(e) = N /\ e[first] = ours
        /\ \A j \in 1..N : j # first => e[j] = s[j]
    BY SMTT(30), <1>1, <2>3
  <2> HIDE DEF e
  <2>5. \A j \in 1..N : IsOurs(s[j]) <=> IsOurs(e[j])
    BY <1>1, <2>3, <2>4
  <2>6. Matching(e) = Matching(s)
    BY <2>4, <2>5 DEF Matching
  <2>7. OfOthers(e) = OfOthers(s)
    <3>1. N <= Len(s) /\ N <= Len(e)
      BY SMTT(30), <1>2, <2>4
    <3>2. \A j \in 1..N : s[j] = e[j] \/ (IsOurs(s[j]) /\ IsOurs(e[j]))
      BY <1>1, <2>3, <2>4
    <3>3. Others(s)[N] = Others(e)[N]
      BY <1>2, <2>4, <3>1, <3>2, OthersSame
    <3>4. OfOthers(e) = Others(e)[Len(e)] /\ OfOthers(s) = Others(s)[N]
      BY <2>4, OthersStep
    <3> QED BY <2>4, <3>3, <3>4
  <2>8. SeenDownTo(e, x, first)
    <3>1. first \in Matching(e) /\ \A k \in Matching(e) : first <= k
      BY <2>2, <2>6
    <3>2. SeenDownTo(e, Collapse(e, Matching(e) \ {first}), first)
      BY <2>4, <3>1, CollapseKeeps
    <3> QED BY <2>6, <3>2
  <2> HIDE DEF x
  <2>9. /\ x \in Seq(Extension) /\ first <= Len(x) /\ OfOthers(x) = OfOthers(s)
        /\ \A j \in 1..first : x[j] = e[j]
        /\ \A j \in 1..Len(x) : j > first => ~IsOurs(x[j])
    BY <2>7, <2>8 DEF SeenDownTo
  <2>10. Len(x) \in Nat
    BY SMTT(30), <2>9
  <2>11. /\ first \in 1..first /\ first \in 1..Len(x)
         /\ \A j \in 1..Len(x) :
                j = first \/ j > first \/ (j \in 1..first /\ j \in 1..N /\ ~(first <= j))
    BY SMTT(30), <1>2, <2>3, <2>9, <2>10
  <2>12. x[first] = ours
    BY <2>4, <2>9, <2>11
  <2>13. \A j \in 1..N : ~(first <= j) => ~IsOurs(e[j])
    BY <2>2, <2>4, <2>6 DEF Matching
  <2>14. \A j \in 1..Len(x) : IsOurs(x[j]) => j = first
    BY <2>9, <2>11, <2>13
  <2>15. Matching(x) = {first}
    BY <1>1, <2>11, <2>12, <2>14 DEF Matching
  <2>16. Declares(x, r)
    BY <2>11, <2>12, <2>15 DEF Declares, ours
  <2> QED
    BY <2>1, <2>9, <2>16
<1> QED
  BY <1>3, <1>4

(* inspect_agent_card of a card with one declaration, the node's. *)
LEMMA InspectIs ==
    ASSUME NEW c, NEW r \in RequirementValues, Declares(c, r)
    PROVE  InspectAgentCard(c) =
               [advertised |-> TRUE, requirement |-> r, warnings |-> {}]
<1>1. PICK i \in 1..Len(c) : Matching(c) = {i} /\ c[i] = AgentExtensionForNode(r)
  BY DEF Declares
<1>2. \E k \in {i} : \A m \in {i} : k <= m
  <2>1. i <= i
    <3>1. i \in Int
      BY SMTT(30)
    <3> QED BY SMTT(30), <3>1
  <2> QED BY <2>1
<1>3. First(Matching(c)) = i
  BY <1>1, <1>2 DEF First
<1>4. /\ c[i].requirement = r /\ c[i].required = FALSE /\ c[i].unknown = FALSE
  BY SMTT(30), <1>1 DEF AgentExtensionForNode
<1>5. ~(Cardinality(Matching(c)) > 1)
  <2>1. Cardinality({i}) = 1
    BY FS_Singleton
  <2> QED BY SMTT(30), <1>1, <2>1
<1>6. Matching(c) # {}
  BY <1>1
<1> QED
  BY <1>3, <1>4, <1>5, <1>6 DEF InspectAgentCard

-----------------------------------------------------------------------------
(* A message stays what it is as more calls are built. *)

LEMMA FitsKept ==
    ASSUME NEW m, MessageFits(m), built \subseteq built'
    PROVE  MessageFits(m)'
<1>1. CASE m.origin = None
  BY <1>1 DEF MessageFits, WireRecord, OrdinaryOK
<1>2. CASE m.origin # None
  <2>1. CallOK(m)'
    BY <1>2 DEF MessageFits, CallOK
  <2> QED
    BY <1>2, <2>1 DEF MessageFits, WireRecord
<1> QED
  BY <1>1, <1>2

(* The wire when nothing is sent or damaged. *)
LEMMA WireKept ==
    ASSUME WireOK, wire' \subseteq wire, built \subseteq built'
    PROVE  WireOK'
<1> SUFFICES ASSUME NEW m \in wire' PROVE MessageFits(m)'
  BY DEF WireOK, MessageFits
<1>1. MessageFits(m)
  BY DEF WireOK, MessageFits
<1> QED
  BY <1>1, FitsKept

LEMMA LookupsKept ==
    ASSUME LookupsOK, UNCHANGED lookups, built \subseteq built'
    PROVE  LookupsOK'
BY DEF LookupsOK, LookupWasAuthorized

-----------------------------------------------------------------------------
(* Initially, and each step *)

LEMMA InitInv == Init => Inv
<1> SUFFICES ASSUME Init PROVE Inv
  OBVIOUS
<1>1. ServerOK
  <2>1. MaxFaults \in Nat
    BY NumbersAssumption
  <2>2. 0 \in Nat /\ 0 \in 0..MaxFaults
    BY SMTT(30), <2>1
  <2> QED BY <2>2 DEF Init, ServerOK
<1>2. CardOK
  BY DEF Init, CardOK
<1>3. HellosOK /\ BuiltOK /\ MessageOK /\ WireOK
  BY DEF Init, HellosOK, BuiltOK, MessageOK, WireOK
<1>4. LookupsOK
  <2>1. lookups = << >>
    BY DEF Init
  <2>2. lookups \in Seq({}) /\ 1..Len(lookups) = {}
    BY SMTT(30), <2>1
  <2> QED BY <2>2 DEF LookupsOK, LookupWasAuthorized
<1> QED
  BY <1>1, <1>2, <1>3, <1>4 DEF Inv

(* The conjuncts of Inv that a step leaves alone because it leaves their   *)
(* variables alone.                                                        *)
LEMMA ServerKept ==
    ASSUME ServerOK, UNCHANGED <<clock, node, faults>> PROVE ServerOK'
BY DEF ServerOK

LEMMA CardKept ==
    ASSUME CardOK, UNCHANGED server PROVE CardOK'
BY DEF CardOK, server, Declares

LEMMA HellosKept ==
    ASSUME HellosOK, UNCHANGED hellos PROVE HellosOK'
BY DEF HellosOK

LEMMA MessageKept ==
    ASSUME MessageOK, UNCHANGED <<msg, attached>>, built \subseteq built' PROVE MessageOK'
BY DEF MessageOK

LEMMA BuiltKept ==
    ASSUME BuiltOK, UNCHANGED built PROVE BuiltOK'
BY DEF BuiltOK

LEMMA StutterInv == Inv /\ UNCHANGED vars => Inv'
<1> SUFFICES ASSUME Inv, UNCHANGED vars PROVE Inv'
  OBVIOUS
<1>1. /\ UNCHANGED <<clock, node, faults>> /\ UNCHANGED server /\ UNCHANGED hellos
      /\ UNCHANGED <<msg, attached>> /\ UNCHANGED built /\ UNCHANGED faults
      /\ UNCHANGED lookups /\ wire' \subseteq wire /\ built \subseteq built'
  BY DEF vars, server, client
<1>2. ServerOK' /\ CardOK' /\ HellosOK' /\ BuiltOK'
  BY <1>1, ServerKept, CardKept, HellosKept, BuiltKept DEF Inv
<1>3. MessageOK' /\ WireOK' /\ LookupsOK'
  BY <1>1, MessageKept, WireKept, LookupsKept DEF Inv
<1> QED
  BY <1>2, <1>3 DEF Inv

LEMMA TickInv == Inv /\ Tick => Inv'
<1> SUFFICES ASSUME Inv, Tick PROVE Inv'
  OBVIOUS
<1>1. /\ UNCHANGED server /\ UNCHANGED hellos /\ UNCHANGED <<msg, attached>>
      /\ UNCHANGED built /\ UNCHANGED faults /\ UNCHANGED lookups
      /\ wire' \subseteq wire /\ built \subseteq built'
  BY DEF Tick, client
<1>2. ServerOK'
  <2>1. clock \in Nat
    BY DEF Inv, ServerOK
  <2>2. clock' = clock + 1
    BY DEF Tick
  <2>3. clock' \in Nat
    BY SMTT(30), <2>1, <2>2
  <2> QED BY <1>1, <2>3 DEF Inv, ServerOK, server
<1>3. CardOK' /\ HellosOK' /\ BuiltOK'
  BY <1>1, CardKept, HellosKept, BuiltKept DEF Inv
<1>4. MessageOK' /\ WireOK' /\ LookupsOK'
  BY <1>1, MessageKept, WireKept, LookupsKept DEF Inv
<1> QED
  BY <1>2, <1>3, <1>4 DEF Inv

LEMMA ServeInv ==
    ASSUME Inv, NEW t \in Cards, NEW requirement \in Requirements, Serve(t, requirement)
    PROVE  Inv'
<1> DEFINE epoch == IF node = None THEN 1 ELSE node.epoch + 1
<1>1. /\ UNCHANGED hellos /\ UNCHANGED <<msg, attached>> /\ UNCHANGED built
      /\ UNCHANGED faults /\ UNCHANGED lookups /\ UNCHANGED clock
      /\ wire' \subseteq wire /\ built \subseteq built'
  BY DEF Serve, client
<1>2. node' = [epoch |-> epoch, requirement |-> requirement] /\ ~t.signed
      /\ card' = MergeAgentCard(t.extensions, requirement)
  BY DEF Serve
<1>3. epoch \in Nat
  <2>1. CASE node = None
    BY SMTT(30), <2>1
  <2>2. CASE node # None
    <3>1. node.epoch \in Nat
      BY <2>2 DEF Inv, ServerOK
    <3>2. node.epoch + 1 \in Nat
      BY SMTT(30), <3>1
    <3> QED BY <2>2, <3>2
  <2> QED BY <2>1, <2>2
<1> HIDE DEF epoch
<1>4. node'.epoch = epoch /\ node'.requirement = requirement
  BY SMTT(30), <1>2
<1>5. ServerOK'
  BY <1>1, <1>3, <1>4 DEF Inv, ServerOK
<1>6. t.extensions \in Seq(Extension) /\ OfOthers(t.extensions) \in OperatorsOthers
  <2>1. CASE t \in Templates
    BY <1>2, <2>1, CardsAssumption DEF OperatorsOthers
  <2>2. CASE t \notin Templates
    <3>1. card # None /\ t = [extensions |-> card, signed |-> FALSE]
      BY <2>2 DEF Cards
    <3>2. t.extensions = card
      BY <3>1
    <3>3. card \in Seq(Extension) /\ OfOthers(card) \in OperatorsOthers
      BY <3>1 DEF Inv, CardOK
    <3> QED BY <3>2, <3>3
  <2> QED BY <2>1, <2>2
<1>7. requirement \in RequirementValues
  BY CardsAssumption
<1>8. CardOK'
  <2>1. /\ MergeAgentCard(t.extensions, requirement) \in Seq(Extension)
        /\ Declares(MergeAgentCard(t.extensions, requirement), requirement)
        /\ OfOthers(MergeAgentCard(t.extensions, requirement)) = OfOthers(t.extensions)
    BY <1>6, <1>7, MergeIs
  <2>2. /\ card' \in Seq(Extension) /\ Declares(card', requirement)
        /\ OfOthers(card') \in OperatorsOthers
    BY <1>2, <1>6, <2>1
  <2> QED BY <1>4, <1>7, <2>2 DEF CardOK
<1>9. HellosOK' /\ BuiltOK'
  BY <1>1, HellosKept, BuiltKept DEF Inv
<1>10. MessageOK' /\ WireOK' /\ LookupsOK'
  BY <1>1, MessageKept, WireKept, LookupsKept DEF Inv
<1> QED
  BY <1>5, <1>8, <1>9, <1>10 DEF Inv

LEMMA ConnectInv == Inv /\ Connect => Inv'
<1> SUFFICES ASSUME Inv, Connect PROVE Inv'
  OBVIOUS
<1>1. /\ UNCHANGED <<clock, node, faults>> /\ UNCHANGED server /\ UNCHANGED hellos
      /\ UNCHANGED <<msg, attached>> /\ UNCHANGED built /\ UNCHANGED faults
      /\ UNCHANGED lookups /\ wire' \subseteq wire /\ built \subseteq built'
  BY DEF Connect, server
<1>2. ServerOK' /\ CardOK' /\ HellosOK' /\ BuiltOK'
  BY <1>1, ServerKept, CardKept, HellosKept, BuiltKept DEF Inv
<1>3. MessageOK' /\ WireOK' /\ LookupsOK'
  BY <1>1, MessageKept, WireKept, LookupsKept DEF Inv
<1> QED
  BY <1>2, <1>3 DEF Inv

LEMMA ChannelInv ==
    ASSUME Inv, NEW c \in Call, Channel(c)
    PROVE  Inv'
<1>1. /\ UNCHANGED <<clock, node, faults>> /\ UNCHANGED server
      /\ UNCHANGED <<msg, attached>> /\ UNCHANGED built /\ UNCHANGED faults
      /\ UNCHANGED lookups /\ wire' \subseteq wire /\ built \subseteq built'
  BY DEF Channel, server, client
<1>2. ServerOK' /\ CardOK' /\ BuiltOK'
  BY <1>1, ServerKept, CardKept, BuiltKept DEF Inv
<1>3. MessageOK' /\ WireOK' /\ LookupsOK'
  BY <1>1, MessageKept, WireKept, LookupsKept DEF Inv
<1>4. HellosOK'
  <2>1. node.epoch \in Nat /\ clock \in Nat
    BY DEF Inv, ServerOK, Channel
  <2> SUFFICES ASSUME NEW h \in hellos'
               PROVE  \E e \in Nat, d \in Call, now \in Nat : HelloOf(h, e, d, now)
    BY DEF HellosOK, HelloOf
  <2>2. CASE h \in hellos
    BY <2>2 DEF Inv, HellosOK
  <2>3. CASE h \notin hellos
    <3>1. HelloOf(h, node.epoch, c, clock)
      BY <2>3 DEF Channel, HelloOf
    <3> QED BY <2>1, <3>1
  <2> QED BY <2>2, <2>3
<1> QED
  BY <1>2, <1>3, <1>4 DEF Inv

LEMMA DelegatedMessageInv ==
    ASSUME Inv, NEW c \in Call, NEW p \in Plans, NEW h \in hellos,
           NEW message \in {NewMessage, msg}, DelegatedMessage(c, p, h, message)
    PROVE  Inv'
<1> DEFINE r == Built(c, p, h)
<1>1. /\ UNCHANGED <<clock, node, faults>> /\ UNCHANGED server /\ UNCHANGED hellos
      /\ UNCHANGED faults /\ UNCHANGED lookups /\ wire' \subseteq wire
  BY DEF DelegatedMessage, server
<1>2. msg' = AttachToSdkMessage(message, r) /\ attached' = r /\ built' = built \cup {r}
  BY DEF DelegatedMessage
<1>3. r \in PeerRequest
  <2>1. \E e \in Nat, d \in Call, now \in Nat : HelloOf(h, e, d, now)
    BY DEF Inv, HellosOK
  <2> QED BY <2>1, BuiltIsRequest
<1> HIDE DEF r
<1>4. built \subseteq built'
  BY <1>2
<1>5. BuiltOK'
  BY <1>2, <1>3 DEF Inv, BuiltOK
<1>6. message = NewMessage \/ \E q \in PeerRequest : message = Carrier(q)
  <2>1. CASE message = NewMessage
    BY <2>1
  <2>2. CASE message = msg
    BY <2>2 DEF Inv, MessageOK, BuiltOK
  <2> QED BY <2>1, <2>2
<1>7. MessageOK'
  <2>1. msg' = Carrier(r)
    BY <1>2, <1>6, AttachAgain
  <2>2. r # None
    BY <1>3, RequestValues
  <2>3. attached' # None /\ attached' \in built' /\ msg' = Carrier(attached')
    BY <1>2, <2>1, <2>2
  <2> QED BY <2>3 DEF MessageOK
<1>8. ServerOK' /\ CardOK' /\ HellosOK'
  BY <1>1, ServerKept, CardKept, HellosKept DEF Inv
<1>9. WireOK' /\ LookupsOK'
  BY <1>1, <1>4, WireKept, LookupsKept DEF Inv
<1> QED
  BY <1>5, <1>7, <1>8, <1>9 DEF Inv

(* What every step on the wire leaves alone. *)
LEMMA WireStep ==
    ASSUME Inv, UNCHANGED <<clock, server, hellos, client, lookups>>, ServerOK', WireOK'
    PROVE  Inv'
<1>1. /\ UNCHANGED server /\ UNCHANGED hellos /\ UNCHANGED <<msg, attached>>
      /\ UNCHANGED built /\ UNCHANGED lookups /\ built \subseteq built'
  BY DEF client
<1>2. CardOK' /\ HellosOK' /\ BuiltOK'
  BY <1>1, CardKept, HellosKept, BuiltKept DEF Inv
<1>3. MessageOK' /\ LookupsOK'
  BY <1>1, MessageKept, LookupsKept DEF Inv
<1> QED
  BY <1>2, <1>3 DEF Inv

LEMMA SendInv ==
    ASSUME Inv, NEW ca2a \in BOOLEAN, Send(ca2a)
    PROVE  Inv'
<1> DEFINE x == [metadata |-> msg.metadata, declared |-> msg.declared,
                 requested |-> ca2a, origin |-> attached, lost |-> {}]
<1>1. /\ UNCHANGED <<clock, server, hellos, client, lookups>>
      /\ UNCHANGED <<clock, node, faults>> /\ UNCHANGED faults
      /\ built \subseteq built' /\ UNCHANGED built
  BY DEF Send, server, client
<1>2. wire' = wire \cup {x} /\ ca2a = (attached # None)
  BY DEF Send
<1>3. ServerOK'
  BY <1>1, ServerKept DEF Inv
<1>4. /\ x.metadata = msg.metadata /\ x.declared = msg.declared
      /\ x.requested = ca2a /\ x.origin = attached
      /\ x = [metadata |-> x.metadata, declared |-> x.declared,
              requested |-> x.requested, origin |-> x.origin, lost |-> x.lost]
  OBVIOUS
<1> HIDE DEF x
<1>5. MessageFits(x)
  <2>1. CASE attached = None
    <3>1. msg = NewMessage /\ ca2a = FALSE
      BY <1>2, <2>1 DEF Inv, MessageOK
    <3>2. NewMessage.declared = FALSE
      BY DEF NewMessage
    <3>3. x.declared = FALSE /\ x.requested = FALSE /\ x.metadata = NewMessage.metadata
      BY <1>4, <3>1, <3>2
    <3> QED BY <1>4, <2>1, <3>3 DEF MessageFits, WireRecord, OrdinaryOK
  <2>2. CASE attached # None
    <3>1. attached \in built /\ msg = Carrier(attached) /\ attached \in PeerRequest
      BY <2>2 DEF Inv, MessageOK, BuiltOK
    <3>2. /\ msg.metadata = [k \in SetKeys(attached) \cup {"app"} |-> msg.metadata[k]]
          /\ DOMAIN msg.metadata = SetKeys(attached) \cup {"app"}
          /\ msg.declared
      BY <3>1, CarrierFields
    <3>3. Remains(x.metadata, Carrier(x.origin).metadata)
      BY <1>4, <3>1, <3>2 DEF Remains
    <3>4. RequiredKeys \ DOMAIN x.metadata = {}
      BY <1>4, <3>2 DEF SetKeys
    <3>5. x.requested /\ x.declared
      BY <1>2, <1>4, <2>2, <3>2
    <3>6. CallOK(x)
      BY <1>4, <3>1, <3>3, <3>4, <3>5 DEF CallOK
    <3> QED BY <1>4, <2>2, <3>6 DEF MessageFits, WireRecord
  <2> QED BY <2>1, <2>2
<1>6. WireOK'
  <2> SUFFICES ASSUME NEW m \in wire' PROVE MessageFits(m)'
    BY DEF WireOK, MessageFits
  <2>1. MessageFits(m)
    <3>1. CASE m = x
      BY <1>5, <3>1
    <3>2. CASE m # x
      BY <1>2, <3>2 DEF Inv, WireOK, MessageFits
    <3> QED BY <3>1, <3>2
  <2> QED BY <1>1, <2>1, FitsKept
<1> QED
  BY <1>1, <1>3, <1>6, WireStep

LEMMA LoseInv ==
    ASSUME Inv, NEW m \in wire, Lose(m)
    PROVE  Inv'
<1>1. /\ UNCHANGED <<clock, server, hellos, client, lookups>>
      /\ UNCHANGED <<clock, node, faults>> /\ UNCHANGED faults
      /\ built \subseteq built' /\ wire' \subseteq wire
  BY DEF Lose, server, client
<1>2. ServerOK' /\ WireOK'
  BY <1>1, ServerKept, WireKept DEF Inv
<1> QED
  BY <1>1, <1>2, WireStep

(* A message that lost something, or carries other metadata. *)
LEMMA HeaderTaken ==
    ASSUME NEW m, WireRecord(m), NEW v, NEW w
    PROVE  [m EXCEPT !.requested = v, !.lost = w] =
                  [metadata |-> m.metadata, declared |-> m.declared,
                   requested |-> v, origin |-> m.origin, lost |-> w]
<1> DEFINE a == m.metadata
           b == m.declared
           c == m.requested
           d == m.origin
           e == m.lost
<1>1. m = [metadata |-> a, declared |-> b, requested |-> c, origin |-> d, lost |-> e]
  BY DEF WireRecord
<1> HIDE DEF a, b, c, d, e
<1> DEFINE x == [m EXCEPT !.requested = v]
<1>2. x =
          [metadata |-> a, declared |-> b,
           requested |-> v, origin |-> d, lost |-> e]
  BY SMTT(30), <1>1
<1> HIDE DEF x
<1>3. [x EXCEPT !.lost = w] =
          [metadata |-> a, declared |-> b,
           requested |-> v, origin |-> d, lost |-> w]
  BY SMTT(30), <1>2
<1> QED
  BY <1>3 DEF a, b, c, d, e, x

LEMMA DeclarationTaken ==
    ASSUME NEW m, WireRecord(m), NEW v, NEW w
    PROVE  [m EXCEPT !.declared = v, !.lost = w] =
                  [metadata |-> m.metadata, declared |-> v,
                   requested |-> m.requested, origin |-> m.origin, lost |-> w]
<1> DEFINE a == m.metadata
           b == m.declared
           c == m.requested
           d == m.origin
           e == m.lost
<1>1. m = [metadata |-> a, declared |-> b, requested |-> c, origin |-> d, lost |-> e]
  BY DEF WireRecord
<1> HIDE DEF a, b, c, d, e
<1> DEFINE x == [m EXCEPT !.declared = v]
<1>2. x =
          [metadata |-> a, declared |-> v,
           requested |-> c, origin |-> d, lost |-> e]
  BY SMTT(30), <1>1
<1> HIDE DEF x
<1>3. [x EXCEPT !.lost = w] =
          [metadata |-> a, declared |-> v,
           requested |-> c, origin |-> d, lost |-> w]
  BY SMTT(30), <1>2
<1> QED
  BY <1>3 DEF a, b, c, d, e, x

LEMMA KeysTaken ==
    ASSUME NEW m, WireRecord(m), NEW v, NEW w
    PROVE  [m EXCEPT !.metadata = v, !.lost = w] =
                  [metadata |-> v, declared |-> m.declared,
                   requested |-> m.requested, origin |-> m.origin, lost |-> w]
<1> DEFINE a == m.metadata
           b == m.declared
           c == m.requested
           d == m.origin
           e == m.lost
<1>1. m = [metadata |-> a, declared |-> b, requested |-> c, origin |-> d, lost |-> e]
  BY DEF WireRecord
<1> HIDE DEF a, b, c, d, e
<1> DEFINE x == [m EXCEPT !.metadata = v]
<1>2. x =
          [metadata |-> v, declared |-> b,
           requested |-> c, origin |-> d, lost |-> e]
  BY SMTT(30), <1>1
<1> HIDE DEF x
<1>3. [x EXCEPT !.lost = w] =
          [metadata |-> v, declared |-> b,
           requested |-> c, origin |-> d, lost |-> w]
  BY SMTT(30), <1>2
<1> QED
  BY <1>3 DEF a, b, c, d, e, x

LEMMA MetadataGarbled ==
    ASSUME NEW m, WireRecord(m), NEW v
    PROVE  [m EXCEPT !.metadata = v] =
                  [metadata |-> v, declared |-> m.declared,
                   requested |-> m.requested, origin |-> m.origin, lost |-> m.lost]
<1> DEFINE a == m.metadata
           b == m.declared
           c == m.requested
           d == m.origin
           e == m.lost
<1>1. m = [metadata |-> a, declared |-> b, requested |-> c, origin |-> d, lost |-> e]
  BY DEF WireRecord
<1> HIDE DEF a, b, c, d, e
<1>2. [m EXCEPT !.metadata = v] =
          [metadata |-> v, declared |-> b,
           requested |-> c, origin |-> d, lost |-> e]
  BY SMTT(30), <1>1
<1> QED
  BY <1>2 DEF a, b, c, d, e

LEMMA WireFields ==
    ASSUME NEW a, NEW b, NEW c, NEW d, NEW e, NEW x,
           x = [metadata |-> a, declared |-> b, requested |-> c, origin |-> d, lost |-> e]
    PROVE  /\ x.metadata = a /\ x.declared = b /\ x.requested = c /\ x.origin = d
           /\ x.lost = e /\ WireRecord(x)
BY DEF WireRecord

LEMMA AlteredInv ==
    ASSUME Inv, NEW m, NEW m2, Altered(m, m2), ServerOK', MessageFits(m2)
    PROVE  Inv'
<1>1. /\ UNCHANGED <<clock, server, hellos, client, lookups>>
      /\ UNCHANGED built /\ built \subseteq built'
      /\ wire' = (wire \ {m}) \cup {m2}
  BY DEF Altered, client
<1>2. WireOK'
  <2> SUFFICES ASSUME NEW n \in wire' PROVE MessageFits(n)'
    BY DEF WireOK, MessageFits
  <2>1. n \in wire \/ n = m2
    BY <1>1
  <2>2. MessageFits(n)
    BY <2>1 DEF Inv, WireOK, MessageFits
  <2> QED BY <1>1, <2>2, FitsKept
<1> QED
  BY <1>1, <1>2, WireStep

(* A lost header. *)
LEMMA LoseHeaderInv ==
    ASSUME Inv, NEW m \in wire, LoseHeader(m)
    PROVE  Inv'
<1> DEFINE no == FALSE
           lost == m.lost \cup {"header"}
           m2 == [m EXCEPT !.requested = no, !.lost = lost]
<1>1. MessageFits(m) /\ m.requested
  BY DEF Inv, WireOK, MessageFits, LoseHeader
<1>2. Altered(m, m2) /\ UNCHANGED <<clock, node, faults>>
  BY DEF LoseHeader, Altered, server
<1> HIDE DEF no, lost
<1>3. m2 = [metadata |-> m.metadata, declared |-> m.declared,
            requested |-> no, origin |-> m.origin, lost |-> lost]
  BY <1>1, HeaderTaken DEF MessageFits
<1> HIDE DEF m2
<1>4. /\ m2.metadata = m.metadata /\ m2.declared = m.declared /\ m2.requested = no
      /\ m2.origin = m.origin /\ m2.lost = lost /\ WireRecord(m2)
  BY SMTT(30), <1>3, WireFields
<1>5. m.lost \subseteq lost /\ "header" \in lost
  BY DEF lost
<1>6. m.origin # None
  BY <1>1 DEF MessageFits, OrdinaryOK
<1>7. CallOK(m2)
  BY <1>1, <1>4, <1>5, <1>6 DEF MessageFits, CallOK
<1>8. MessageFits(m2)
  BY <1>4, <1>6, <1>7 DEF MessageFits
<1>9. ServerOK'
  BY <1>2, ServerKept DEF Inv
<1> QED
  BY <1>2, <1>8, <1>9, AlteredInv

(* A lost declaration. *)
LEMMA LoseDeclarationInv ==
    ASSUME Inv, NEW m \in wire, LoseDeclaration(m)
    PROVE  Inv'
<1> DEFINE no == FALSE
           lost == m.lost \cup {"declaration"}
           m2 == [m EXCEPT !.declared = no, !.lost = lost]
<1>1. MessageFits(m) /\ m.declared
  BY DEF Inv, WireOK, MessageFits, LoseDeclaration
<1>2. Altered(m, m2) /\ UNCHANGED <<clock, node, faults>>
  BY DEF LoseDeclaration, Altered, server
<1> HIDE DEF no, lost
<1>3. m2 = [metadata |-> m.metadata, declared |-> no,
            requested |-> m.requested, origin |-> m.origin, lost |-> lost]
  BY <1>1, DeclarationTaken DEF MessageFits
<1> HIDE DEF m2
<1>4. /\ m2.metadata = m.metadata /\ m2.declared = no /\ m2.requested = m.requested
      /\ m2.origin = m.origin /\ m2.lost = lost /\ WireRecord(m2)
  BY SMTT(30), <1>3, WireFields
<1>5. m.lost \subseteq lost /\ "declaration" \in lost
  BY DEF lost
<1>6. m.origin # None
  BY <1>1 DEF MessageFits, OrdinaryOK
<1>7. CallOK(m2)
  BY <1>1, <1>4, <1>5, <1>6 DEF MessageFits, CallOK
<1>8. MessageFits(m2)
  BY <1>4, <1>6, <1>7 DEF MessageFits
<1>9. ServerOK'
  BY <1>2, ServerKept DEF Inv
<1> QED
  BY <1>2, <1>8, <1>9, AlteredInv

(* One more fault: metadata with keys missing that are recorded as lost,   *)
(* or with rubbish in it.                                                  *)
LEMMA DamageInv ==
    ASSUME Inv, NEW m \in wire, DOMAIN m.metadata \cap Ca2aKeys # {},
           NEW meta, meta = [j \in DOMAIN meta |-> meta[j]],
           NEW lost, m.lost \subseteq lost,
           DOMAIN meta \subseteq DOMAIN m.metadata,
           DOMAIN m.metadata \ DOMAIN meta \subseteq lost,
           \A j \in DOMAIN meta : meta[j] \in {m.metadata[j], Rubbish},
           NEW m2, Damage(m, m2),
           m2 = [metadata |-> meta, declared |-> m.declared,
                 requested |-> m.requested, origin |-> m.origin, lost |-> lost]
    PROVE  Inv'
<1> DEFINE sent == Carrier(m.origin).metadata
<1>1. MessageFits(m)
  BY DEF Inv, WireOK, MessageFits
<1>2. Altered(m, m2) /\ faults' = faults + 1 /\ faults < MaxFaults
  BY DEF Damage
<1>3. UNCHANGED <<clock, node>>
  BY <1>2 DEF Altered, server
<1>4. /\ m2.metadata = meta /\ m2.declared = m.declared /\ m2.lost = lost
      /\ m2.requested = m.requested /\ m2.origin = m.origin /\ WireRecord(m2)
  BY SMTT(30), WireFields
<1>5. ServerOK'
  <2>1. faults \in 0..MaxFaults /\ MaxFaults \in Nat
    BY NumbersAssumption DEF Inv, ServerOK
  <2>2. faults' \in 0..MaxFaults
    BY SMTT(30), <1>2, <2>1
  <2> QED BY <1>3, <2>2 DEF Inv, ServerOK
<1>6. m.origin # None
  <2>1. ASSUME m.origin = None PROVE FALSE
    <3>1. m.metadata = Note
      BY <1>1, <2>1 DEF MessageFits, OrdinaryOK, Note
    <3> QED BY <3>1, KeyNames
  <2> QED BY <2>1
<1>7. CallOK(m)
  BY <1>1, <1>6 DEF MessageFits
<1>8. Remains(meta, sent)
  <2>1. /\ DOMAIN m.metadata \subseteq DOMAIN sent
        /\ \A j \in DOMAIN m.metadata : m.metadata[j] \in {sent[j], Rubbish}
    BY <1>7 DEF CallOK, Remains
  <2> HIDE DEF sent
  <2>2. \A j \in DOMAIN meta : meta[j] \in {sent[j], Rubbish}
    BY <2>1
  <2> QED BY <2>1, <2>2 DEF Remains
<1>9. /\ RequiredKeys \ DOMAIN meta \subseteq lost
      /\ ~m.requested => "header" \in lost
      /\ ~m.declared => "declaration" \in lost
  BY <1>7 DEF CallOK
<1>10. CallOK(m2)
  BY <1>4, <1>7, <1>8, <1>9 DEF CallOK
<1>11. MessageFits(m2)
  BY <1>4, <1>6, <1>10 DEF MessageFits
<1> QED
  BY <1>2, <1>5, <1>11, AlteredInv

LEMMA LoseKeysInv ==
    ASSUME Inv, NEW m \in wire, NEW keys \in SUBSET Ca2aKeys, LoseKeys(m, keys)
    PROVE  Inv'
<1> DEFINE old == m.metadata
           meta == [j \in DOMAIN old \ keys |-> old[j]]
           lost == m.lost \cup keys
           m2 == [m EXCEPT !.metadata = meta, !.lost = lost]
<1>1. MessageFits(m)
  BY DEF Inv, WireOK, MessageFits
<1>2. keys \cap DOMAIN old # {} /\ Damage(m, m2)
  BY DEF LoseKeys
<1>3. /\ DOMAIN meta = DOMAIN old \ keys
      /\ \A j \in DOMAIN meta : meta[j] = old[j]
      /\ meta = [j \in DOMAIN meta |-> meta[j]]
  OBVIOUS
<1> HIDE DEF meta
<1>4. \A j \in DOMAIN meta : meta[j] \in {old[j], Rubbish}
  BY <1>3
<1>5. /\ m.lost \subseteq lost /\ DOMAIN meta \subseteq DOMAIN old
      /\ DOMAIN old \ DOMAIN meta \subseteq lost /\ DOMAIN old \cap Ca2aKeys # {}
  BY <1>2, <1>3
<1> HIDE DEF lost
<1>6. m2 = [metadata |-> meta, declared |-> m.declared,
            requested |-> m.requested, origin |-> m.origin, lost |-> lost]
  BY <1>1, KeysTaken DEF MessageFits
<1> HIDE DEF m2
<1> QED
  BY <1>2, <1>3, <1>4, <1>5, <1>6, DamageInv

LEMMA GarbleKeyInv ==
    ASSUME Inv, NEW m \in wire, NEW k \in Ca2aKeys, GarbleKey(m, k)
    PROVE  Inv'
<1> DEFINE old == m.metadata
           meta == [old EXCEPT ![k] = Rubbish]
           m2 == [m EXCEPT !.metadata = meta]
<1>1. MessageFits(m)
  BY DEF Inv, WireOK, MessageFits
<1>2. k \in DOMAIN old /\ Damage(m, m2)
  BY DEF GarbleKey
<1>3. /\ DOMAIN meta = DOMAIN old
      /\ \A j \in DOMAIN meta : meta[j] \in {old[j], Rubbish}
      /\ meta = [j \in DOMAIN meta |-> meta[j]]
  OBVIOUS
<1> HIDE DEF meta
<1>4. m2 = [metadata |-> meta, declared |-> m.declared,
            requested |-> m.requested, origin |-> m.origin, lost |-> m.lost]
  BY <1>1, MetadataGarbled DEF MessageFits
<1> HIDE DEF m2
<1>5. /\ m.lost \subseteq m.lost /\ DOMAIN meta \subseteq DOMAIN old
      /\ DOMAIN old \ DOMAIN meta \subseteq m.lost /\ DOMAIN old \cap Ca2aKeys # {}
  BY <1>2, <1>3
<1> QED
  BY <1>2, <1>3, <1>4, <1>5, DamageInv

(* A message that gets to the protected handler. *)
LEMMA AcceptedWasBuilt ==
    ASSUME Inv, NEW m \in wire, Body(m) = "accepted",
           NEW q, q = ParseSdkMessage(m).request
    PROVE  \E b \in built :
               /\ b.holder_proof = q.holder_proof
               /\ b.sealed_payload = q.sealed_payload
               /\ b.sealed_payload # None
               /\ b.sealed_payload.plain = Widget
               /\ b.sealed_payload.to = CalleeKey(node.epoch)
               /\ b.requested_capability = READ
               /\ READ \in Policy
               /\ \A i \in 1..Len(q.chain) : READ \in q.chain[i].scope
               /\ clock < b.holder_proof.challenge.expiry
<1> DEFINE b == m.origin
<1>1. MessageFits(m)
  BY DEF Inv, WireOK, MessageFits
<1>2. /\ HasCa2aMetadata(m.metadata)
      /\ ParseSdkMessage(m).error = "ok"
      /\ VerifyChain(q.chain, None, clock, None) \in Accepted
      /\ VerifyHolderProof(node.epoch, q, clock)
      /\ q.requested_capability \in Policy \cap Leaf(q.chain).scope
      /\ Opens(q.sealed_payload, node.epoch)
      /\ Served(q)
  BY AcceptedBody
<1>3. b # None
  <2>1. ASSUME b = None PROVE FALSE
    <3>1. m.metadata = Note
      BY <1>1, <2>1 DEF MessageFits, OrdinaryOK, Note
    <3> QED BY <1>2, <3>1, KeyNames DEF HasCa2aMetadata
  <2> QED BY <2>1
<1>4. b \in built /\ b \in PeerRequest /\ Remains(m.metadata, Carrier(b).metadata)
  BY <1>1, <1>3 DEF MessageFits, CallOK, Inv, BuiltOK
<1> HIDE DEF b
<1>5. /\ q.chain = b.chain
      /\ q.requested_capability = b.requested_capability
      /\ q.holder_proof \in {None, b.holder_proof}
      /\ q.sealed_payload \in {None, b.sealed_payload}
  BY ZenonT(40), <1>2, <1>4, DamagedParses
<1>6. q.holder_proof # None /\ clock < q.holder_proof.challenge.expiry
  BY <1>2 DEF VerifyHolderProof, VerifyChallenge
<1>7. /\ q.sealed_payload # None /\ q.sealed_payload.plain = Widget
      /\ q.sealed_payload.to = CalleeKey(node.epoch) /\ q.requested_capability = READ
  BY <1>2 DEF Served, Opens
<1>8. b.holder_proof = q.holder_proof /\ b.sealed_payload = q.sealed_payload
  BY <1>5, <1>6, <1>7
<1>9. Len(q.chain) \in Nat /\ Len(q.chain) >= 1
  <2>1. b.chain \in Chains
    BY SMTT(30), <1>4 DEF PeerRequest
  <2>2. b.chain \in Seq(IssuedCredential) /\ b.chain # << >>
    BY <2>1 DEF Chains
  <2>3. Len(b.chain) \in Nat /\ Len(b.chain) >= 1
    BY SMTT(30), <2>2
  <2> QED BY <1>5, <2>3
<1>10. \A i \in 1..Len(q.chain) : Leaf(q.chain).scope \subseteq q.chain[i].scope
  BY <1>2, <1>9, AcceptedChainGrants
<1>11. READ \in Policy /\ \A i \in 1..Len(q.chain) : READ \in q.chain[i].scope
  BY <1>2, <1>7, <1>10
<1>12. b.requested_capability = READ
  BY <1>5, <1>7
<1> QED
  BY <1>4, <1>6, <1>7, <1>8, <1>11, <1>12

LEMMA ReplyInv ==
    ASSUME Inv, NEW m \in wire, Reply(m)
    PROVE  Inv'
<1> DEFINE q == ParseSdkMessage(m).request
           e == node.epoch
           l == [request |-> q, epoch |-> e, at |-> clock]
<1>1. /\ UNCHANGED <<clock, node, faults>> /\ UNCHANGED server /\ UNCHANGED hellos
      /\ UNCHANGED <<msg, attached>> /\ UNCHANGED built /\ UNCHANGED faults
      /\ wire' \subseteq wire /\ built \subseteq built'
  BY DEF Reply, server, client
<1>2. lookups' = Append(lookups, l)
  BY DEF Reply
<1>3. \E b \in built :
          /\ b.holder_proof = q.holder_proof
          /\ b.sealed_payload = q.sealed_payload
          /\ b.sealed_payload # None
          /\ b.sealed_payload.plain = Widget
          /\ b.sealed_payload.to = CalleeKey(e)
          /\ b.requested_capability = READ
          /\ READ \in Policy
          /\ \A i \in 1..Len(q.chain) : READ \in q.chain[i].scope
          /\ clock < b.holder_proof.challenge.expiry
  BY AcceptedWasBuilt DEF Reply
<1> HIDE DEF q, e
<1>4. l.request = q /\ l.epoch = e /\ l.at = clock
  OBVIOUS
<1> HIDE DEF l
<1> DEFINE Good(x) ==
               \E b \in built :
                  /\ b.holder_proof = x.request.holder_proof
                  /\ b.sealed_payload = x.request.sealed_payload
                  /\ b.sealed_payload # None
                  /\ b.sealed_payload.plain = Widget
                  /\ b.sealed_payload.to = CalleeKey(x.epoch)
                  /\ b.requested_capability = READ
                  /\ READ \in Policy
                  /\ \A i \in 1..Len(x.request.chain) : READ \in x.request.chain[i].scope
                  /\ x.at < b.holder_proof.challenge.expiry
<1>5. Good(l)
  BY <1>3, <1>4
<1>6. PICK S : lookups \in Seq(S)
  BY DEF Inv, LookupsOK
<1>7. \A n \in 1..Len(lookups) : Good(lookups[n])
  BY DEF Inv, LookupsOK, LookupWasAuthorized
<1>8. LookupWasAuthorized' <=> \A n \in 1..Len(lookups') : Good(lookups'[n])
  BY <1>1 DEF LookupWasAuthorized
<1> HIDE DEF Good
<1>9. /\ lookups' \in Seq(S \cup {l})
      /\ \A n \in 1..Len(lookups') :
             \/ n \in 1..Len(lookups) /\ lookups'[n] = lookups[n]
             \/ lookups'[n] = l
  <2>1. lookups \in Seq(S \cup {l})
    BY SMTT(30), <1>6
  <2>2. l \in S \cup {l}
    OBVIOUS
  <2> DEFINE U == S \cup {l}
  <2> HIDE DEF U
  <2>3. lookups \in Seq(U) /\ l \in U
    BY <2>1, <2>2 DEF U
  <2>4. /\ lookups' \in Seq(U)
        /\ \A n \in 1..Len(lookups') :
               \/ n \in 1..Len(lookups) /\ lookups'[n] = lookups[n]
               \/ lookups'[n] = l
    BY SMTT(30), <1>2, <2>3
  <2> QED BY <2>4 DEF U
<1>10. LookupsOK'
  <2>1. \A n \in 1..Len(lookups') : Good(lookups'[n])
    BY <1>5, <1>7, <1>9
  <2> QED BY <1>8, <1>9, <2>1 DEF LookupsOK
<1>11. ServerOK' /\ CardOK' /\ HellosOK' /\ BuiltOK'
  BY <1>1, ServerKept, CardKept, HellosKept, BuiltKept DEF Inv
<1>12. MessageOK' /\ WireOK'
  BY <1>1, MessageKept, WireKept DEF Inv
<1> QED
  BY <1>10, <1>11, <1>12 DEF Inv

-----------------------------------------------------------------------------
(* The theorems *)

LEMMA NextInv == Inv /\ [Next]_vars => Inv'
<1> SUFFICES ASSUME Inv, [Next]_vars PROVE Inv'
  OBVIOUS
<1>1. CASE UNCHANGED vars
  BY <1>1, StutterInv
<1>2. CASE Tick
  BY <1>2, TickInv
<1>3. CASE \E t \in Cards, requirement \in Requirements : Serve(t, requirement)
  BY <1>3, ServeInv
<1>4. CASE Connect
  BY <1>4, ConnectInv
<1>5. CASE \E c \in Call : Channel(c)
  BY <1>5, ChannelInv
<1>6. CASE \E c \in Call, p \in Plans, h \in hellos, message \in {NewMessage, msg} :
               DelegatedMessage(c, p, h, message)
  BY <1>6, DelegatedMessageInv
<1>7. CASE \E ca2a \in BOOLEAN : Send(ca2a)
  BY <1>7, SendInv
<1>8. CASE \E m \in wire : Lose(m) \/ LoseHeader(m) \/ LoseDeclaration(m)
  BY <1>8, LoseInv, LoseHeaderInv, LoseDeclarationInv
<1>9. CASE \E m \in wire, keys \in {Ca2aKeys} \cup {{k} : k \in Ca2aKeys} : LoseKeys(m, keys)
  <2>1. PICK m \in wire, keys \in {Ca2aKeys} \cup {{k} : k \in Ca2aKeys} : LoseKeys(m, keys)
    BY <1>9
  <2>2. keys \in SUBSET Ca2aKeys
    OBVIOUS
  <2> QED BY <2>1, <2>2, LoseKeysInv
<1>10. CASE \E m \in wire, k \in Ca2aKeys : GarbleKey(m, k)
  BY <1>10, GarbleKeyInv
<1>11. CASE \E m \in wire : Reply(m)
  BY <1>11, ReplyInv
<1> QED
  BY <1>1, <1>2, <1>3, <1>4, <1>5, <1>6, <1>7, <1>8, <1>9, <1>10, <1>11 DEF Next

(* The invariant holds of every behaviour of the client, the card, the     *)
(* wire and the executor of the SDK loopback example.                      *)
THEOREM Invariance == Spec => []Inv
<1>1. Init => Inv
  BY InitInv
<1>2. Inv /\ [Next]_vars => Inv'
  BY NextInv
<1> QED
  BY <1>1, <1>2, PTL DEF Spec

(* However often a message is reused and whatever the length of the        *)
(* chains, parse_sdk_message returns what attach_to_sdk_message was last   *)
(* given, and leaves the application's keys alone.                         *)
THEOREM EveryAttachParses == Spec => []AttachThenParse
<1>1. Inv => AttachThenParse
  <2> SUFFICES ASSUME Inv, attached # None
               PROVE  /\ ParseSdkMessage(msg) = [error |-> "ok", request |-> attached]
                      /\ msg.declared
                      /\ msg.metadata.app = NewMessage.metadata.app
    BY DEF AttachThenParse
  <2>1. msg = Carrier(attached) /\ attached \in PeerRequest
    BY DEF Inv, MessageOK, BuiltOK
  <2>2. ParseSdkMessage(msg) = [error |-> "ok", request |-> attached]
    BY <2>1, CarrierParses
  <2>3. msg.declared /\ msg.metadata.app = "note"
    BY <2>1, CarrierFields
  <2>4. NewMessage.metadata.app = "note"
    BY KeyNames DEF Note
  <2> QED BY <2>2, <2>3, <2>4
<1> QED
  BY <1>1, Invariance, PTL

(* The protected lookup of InventoryExecutor.reply runs only for calls a   *)
(* client built for this process and that every hop and the policy allow,  *)
(* whatever the intermediaries did to the messages.                        *)
THEOREM EveryLookupWasAuthorized == Spec => []LookupWasAuthorized
<1>1. Inv => LookupWasAuthorized
  BY DEF Inv, LookupsOK
<1> QED
  BY <1>1, Invariance, PTL

(* Whatever is lost or garbled, and however often, a call is answered by   *)
(* the ordinary branch of InventoryExecutor.reply only when all that tells *)
(* it from an ordinary message was taken from it, and no ordinary message  *)
(* by the other.                                                           *)
THEOREM NoCallFallsBack == Spec => []NoSilentFallback
<1>1. Inv => NoSilentFallback
  <2> SUFFICES ASSUME Inv, NEW m \in wire
               PROVE  IF m.origin = None THEN Body(m) = "ordinary"
                      ELSE Body(m) = "ordinary" => Marks \subseteq m.lost
    BY DEF NoSilentFallback
  <2>1. MessageFits(m)
    BY DEF Inv, WireOK, MessageFits
  <2>2. Body(m) = "ordinary" <=>
            ~HasCa2aMetadata(m.metadata) /\ ~m.declared /\ ~m.requested
    BY OrdinaryBody
  <2>3. CASE m.origin = None
    <3>1. OrdinaryOK(m)
      BY <2>1, <2>3 DEF MessageFits
    <3>2. ~HasCa2aMetadata(m.metadata)
      BY <3>1, KeyNames DEF OrdinaryOK, HasCa2aMetadata, Note
    <3> QED BY <2>2, <2>3, <3>1, <3>2 DEF OrdinaryOK
  <2>4. CASE m.origin # None
    <3>1. /\ RequiredKeys \ DOMAIN m.metadata \subseteq m.lost
          /\ ~m.requested => "header" \in m.lost
          /\ ~m.declared => "declaration" \in m.lost
      BY <2>1, <2>4 DEF MessageFits, CallOK
    <3>2. ASSUME Body(m) = "ordinary" PROVE Marks \subseteq m.lost
      <4>1. RequiredKeys \cap DOMAIN m.metadata = {}
        BY <2>2, <3>2 DEF HasCa2aMetadata, Ca2aKeys
      <4> QED BY <2>2, <3>1, <3>2, <4>1 DEF Marks
    <3> QED BY <2>4, <3>2
  <2> QED BY <2>3, <2>4
<1> QED
  BY <1>1, Invariance, PTL

(* Whatever list of extensions the operator brings, of any length and with *)
(* any number of declarations, merge_agent_card leaves the one the node    *)
(* enforces and every extension of others, in order, and                   *)
(* inspect_agent_card finds it without a warning.                          *)
THEOREM EveryCardTellsNode == Spec => []CardTellsNode
<1>1. Inv => CardTellsNode
  <2> SUFFICES ASSUME Inv, node # None
               PROVE  /\ InspectAgentCard(card) =
                             [advertised |-> TRUE, requirement |-> node.requirement,
                              warnings |-> {}]
                      /\ OfOthers(card) \in OperatorsOthers
    BY DEF CardTellsNode, OperatorsOthers
  <2>1. /\ node.requirement \in RequirementValues
        /\ Declares(card, node.requirement)
        /\ OfOthers(card) \in OperatorsOthers
    BY DEF Inv, CardOK
  <2> QED BY <2>1, InspectIs
<1> QED
  BY <1>1, Invariance, PTL
=============================================================================
