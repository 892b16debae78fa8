----------------------------- MODULE Delegation -----------------------------
(***************************************************************************)
(* Delegation credentials, revocation statements and the checks            *)
(* verify_chain applies to them (ca2a_runtime/delegation/credential.py and *)
(* revocation.py), as constant-level operators.                            *)
(*                                                                         *)
(* Cryptography is abstracted to authorship: the "signature" field is the  *)
(* key whose private half signed exactly this body, or None when no key    *)
(* did (unsigned, or altered after signing).  A digest is the body itself. *)
(***************************************************************************)
EXTENDS Integers, Sequences

CONSTANTS
    Key,            \* Ed25519 public keys
    Cap,            \* capability names
    CredId,         \* credential identifiers
    None,           \* Python's None
    TrustedRoots,   \* trusted_root_issuers
    MaxDepth,       \* max_depth
    MaxStaleness    \* max_revocation_staleness, None when the bound is unset

ASSUME NoneAssumption == None \notin Key \cup CredId \cup Int
ASSUME RootsAssumption == TrustedRoots \subseteq Key
ASSUME DepthAssumption == MaxDepth \in Nat
ASSUME StalenessAssumption == MaxStaleness \in Nat \cup {None}

Bound == Nat \cup {None}

(* One signed hop.  Both bounds are inclusive; None leaves a side open. *)
DelegationCredential ==
    [credential_id : CredId, issuer : Key, subject : Key, scope : SUBSET Cap,
     depth : Nat, parent_id : CredId \cup {None},
     not_before : Bound, not_after : Bound, signature : Key \cup {None}]

(* __post_init__: a credential whose window is inverted cannot be built. *)
Constructible(c) ==
    (c.not_before # None /\ c.not_after # None) => c.not_before <= c.not_after

(* sign: only the issuer's own key signs; any other key raises, and the    *)
(* credential stays as it was.                                             *)
Sign(c, k) == IF k = c.issuer THEN [c EXCEPT !.signature = k] ELSE c

VerifySignature(c) == c.signature = c.issuer

-----------------------------------------------------------------------------
(* credential_digest hashes the body, so it covers every field except the  *)
(* signature.                                                              *)
CredentialDigest(c) == [c EXCEPT !.signature = None]

RevocationStatement ==
    [revoked_digest : DelegationCredential, revoker : Key, issued_at : Nat,
     signature : Key \cup {None}]

Revocation(c, k, t) ==
    [revoked_digest |-> CredentialDigest(c), revoker |-> k, issued_at |-> t,
     signature |-> k]

RevocationSnapshot ==
    [as_of : Nat, statements : SUBSET RevocationStatement]

ASSUME NoSnapshotAssumption == None \notin RevocationSnapshot

(* RevocationSnapshot.__post_init__: one statement that does not verify    *)
(* refuses the snapshot as a whole.                                        *)
SnapshotVerifies(batch) == \A s \in batch : s.signature = s.revoker

(* Mutant: an audit counts statements issued after the time it replays. *)
EffectiveRevocations_AnyTime(snapshot, c, authorized, at_time) ==
    {s \in snapshot.statements :
        s.revoked_digest = CredentialDigest(c) /\ s.revoker \in authorized}

(* effective_revocation: the statements of a snapshot that revoke c under  *)
(* the authority of the keys in "authorized".                              *)
EffectiveRevocations(snapshot, c, authorized, at_time) ==
    {s \in snapshot.statements :
        /\ s.revoked_digest = CredentialDigest(c)
        /\ s.revoker \in authorized
        /\ at_time # None => s.issued_at <= at_time}

-----------------------------------------------------------------------------
Accepted == {"not_checked", "not_revoked"}

Refusals ==
    {"InvalidCredential", "CredentialNotYetValid", "CredentialExpired",
     "CredentialReplay", "DelegationDepthExceeded", "BrokenDelegationLink",
     "ScopeEscalation", "UntrustedDelegationRoot", "CredentialRevoked",
     "RevocationStatusUnknown"}

(* The checks that read no list, in the order verify_chain makes them.     *)
EntryError(chain) ==
    IF chain = << >> THEN "BrokenDelegationLink"
    ELSE IF chain[1].issuer \notin TrustedRoots THEN "UntrustedDelegationRoot"
    ELSE "ok"

RootError(c) ==
    IF c.parent_id # None \/ c.depth # 0 THEN "BrokenDelegationLink" ELSE "ok"

(* Mutant: the scope is not compared with the parent's. *)
LinkError_NoAttenuation(c, prev) ==
    IF \/ c.parent_id # prev.credential_id
       \/ c.issuer # prev.subject
       \/ c.depth # prev.depth + 1
    THEN "BrokenDelegationLink" ELSE "ok"

LinkError(c, prev) ==
    IF \/ c.parent_id # prev.credential_id
       \/ c.issuer # prev.subject
       \/ c.depth # prev.depth + 1
    THEN "BrokenDelegationLink"
    ELSE IF ~(c.scope \subseteq prev.scope) THEN "ScopeEscalation"
    ELSE "ok"

(* One turn of the loop over the hops: what it raises for hop i, "ok" when *)
(* the hop passes.  "now" is the evaluation time and "seen" the identifiers *)
(* of the earlier hops.                                                    *)
HopError(chain, i, seen, now) ==
    LET c == chain[i]
    IN  IF ~VerifySignature(c) THEN "InvalidCredential"
        ELSE IF c.not_before # None /\ now < c.not_before THEN "CredentialNotYetValid"
        ELSE IF c.not_after # None /\ now > c.not_after THEN "CredentialExpired"
        ELSE IF c.credential_id \in seen THEN "CredentialReplay"
        ELSE IF c.depth > MaxDepth THEN "DelegationDepthExceeded"
        ELSE IF i = 1 THEN RootError(c) ELSE LinkError(c, chain[i - 1])

(* The staleness test, made only after no hop was found revoked. *)
StalenessVerdict(snapshot, now) ==
    IF MaxStaleness # None /\ now - snapshot.as_of > MaxStaleness
    THEN "RevocationStatusUnknown" ELSE "not_revoked"

(* Mutant: a missing snapshot is let through although a bound is set. *)
UncheckedVerdict_Lenient == "not_checked"

(* The verdict without any snapshot. *)
UncheckedVerdict ==
    IF MaxStaleness # None THEN "RevocationStatusUnknown" ELSE "not_checked"

-----------------------------------------------------------------------------
IdsBefore(chain, i) == {chain[j].credential_id : j \in 1..(i - 1)}

IssuersUpTo(chain, i) == {chain[j].issuer : j \in 1..i}

RevokedHops(chain, snapshot, at_time) ==
    {i \in 1..Len(chain) :
        EffectiveRevocations(snapshot, chain[i], IssuersUpTo(chain, i), at_time) # {}}

(* verify_chain as one step, for the components that call it: the first    *)
(* failing hop decides, then revocation, then staleness.  Its checks that  *)
(* at_time and max_revocation_staleness are natural numbers or None have   *)
(* no counterpart: nothing else is passed here.                            *)
VerifyChain(chain, at_time, now, snapshot) ==
    LET Err(i) == HopError(chain, i, IdsBefore(chain, i), now)
        failing == {i \in 1..Len(chain) : Err(i) # "ok"}
    IN  IF EntryError(chain) # "ok" THEN EntryError(chain)
        ELSE IF failing # {}
             THEN Err(CHOOSE i \in failing : \A j \in failing : i <= j)
        ELSE IF snapshot = None THEN UncheckedVerdict
        ELSE IF RevokedHops(chain, snapshot, at_time) # {} THEN "CredentialRevoked"
        ELSE StalenessVerdict(snapshot, now)
=============================================================================
