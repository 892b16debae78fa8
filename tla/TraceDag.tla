------------------------------ MODULE TraceDag ------------------------------
(***************************************************************************)
(* Signed TRACE records: the hops of a workflow emit them                  *)
(* (trace_binding.py) and "ca2a verify-lineage" authenticates a stored     *)
(* path of them against a delegation chain (cli.py, ca2a_verify/dag.py).   *)
(*                                                                         *)
(* A record hash is the whole signed record under the name of its digest   *)
(* algorithm; "signature" is the key that signed exactly this body, None   *)
(* when the body was changed since.  A record's delegation block and the   *)
(* previous record's hash may be missing: each is a set of at most one.    *)
(***************************************************************************)
EXTENDS Delegation, FiniteSets

CONSTANTS
    Chain,          \* delegation chains the verifier may be given
    Body,           \* what a hop's record says: its subject, context and time
    ChildForm,      \* [key, body, credential_id, alg] of the children hops emit
    MaxSigned,      \* bound on the records emitted
    MaxPath         \* bound on the records of a submitted path

ASSUME ChainsAssumption == Chain \subseteq Seq(DelegationCredential)
ASSUME BoundsAssumption == {MaxSigned, MaxPath} \subseteq Nat
ASSUME ChildFormAssumption ==
    ChildForm \subseteq
        [key : Key, body : Body, credential_id : CredId \cup {None},
         alg : {"sha256", "sha384"}]

LINK_DIGEST == "sha256"

VARIABLES
    signed,     \* records signed by their hops (history)
    pc, chain, records,
    i,          \* the record the loop of verify_trace_dag is at
    seen_hashes,
    verdict,    \* "none" until the command reports
    verified    \* the lineages reported as verified (history)

vars == <<signed, pc, chain, records, i, seen_hashes, verdict, verified>>

Init ==
    /\ signed = {}
    /\ pc = "idle"
    /\ chain = << >>
    /\ records = << >>
    /\ i = 1
    /\ seen_hashes = {}
    /\ verdict = "none"
    /\ verified = {}

-----------------------------------------------------------------------------
(* trace_record_hash, and the same link under another digest. *)
RecordHash(alg, r) == [alg |-> alg, of |-> r]

(* build_trace_record and sign_trace_record. *)
TraceRecord(k, body, delegation) ==
    [cnf |-> k, body |-> body, delegation |-> delegation, signature |-> k]

Block(alg, parent, credential_id) ==
    {[parent_record_hash |-> RecordHash(alg, parent), credential_id |-> credential_id]}

(* The root hop of emit_dag. *)
EmitRoot(k, body) ==
    /\ pc = "idle"
    /\ Cardinality(signed) < MaxSigned
    /\ signed' = signed \cup {TraceRecord(k, body, {})}
    /\ UNCHANGED <<pc, chain, records, i, seen_hashes, verdict, verified>>

(* A later hop: its record links to a signed one.  HopSpec leaves the      *)
(* credential id empty (None here) unless the producer sets it, and a      *)
(* producer of another version may link with another digest.               *)
EmitHop(form, parent) ==
    /\ pc = "idle"
    /\ Cardinality(signed) < MaxSigned
    /\ signed' = signed \cup
            {TraceRecord(form.key, form.body,
                         Block(form.alg, parent, form.credential_id))}
    /\ UNCHANGED <<pc, chain, records, i, seen_hashes, verdict, verified>>

(* What storage may have made of a record: a key, what it says, a          *)
(* credential id or a parent replaced, or the block dropped.  Its          *)
(* signature covers none of these changes.                                 *)
Altered(r) ==
    {[r EXCEPT !.cnf = k, !.signature = None] : k \in Key}
    \cup {[r EXCEPT !.body = b, !.signature = None] : b \in Body}
    \cup {[r EXCEPT !.delegation = d, !.signature = None] :
            d \in {{}} \cup UNION {{Block(LINK_DIGEST, s, c) : c \in CredId} : s \in signed}}

(* _cmd_verify_lineage starts: the chain is verified first, and a chain    *)
(* that is refused ends the command.  The path is any sequence of signed   *)
(* records, at most one of them altered.                                   *)
Load(ch, path, at, r) ==
    LET outcome == VerifyChain(ch, None, 0, None)
    IN  /\ pc = "idle"
        /\ chain' = ch
        /\ records' = IF at = 0 THEN path ELSE [path EXCEPT ![at] = r]
        /\ IF outcome \notin Accepted THEN pc' = "done" /\ verdict' = outcome
           ELSE IF path = << >> THEN pc' = "done" /\ verdict' = "ProvenanceLinkBroken"
           ELSE pc' = "walk" /\ UNCHANGED verdict
        /\ UNCHANGED <<signed, i, seen_hashes, verified>>

(* _validate_delegation_block: the credential id is a non-empty string. *)
BlockInvalid(delegation) == \E block \in delegation : block.credential_id = None

TrustedKeys == {chain[j].subject : j \in DOMAIN chain}

(* verify_record of the trace library: the signature of the embedded key. *)
SignatureVerifies(r) == r.signature = r.cnf

(* Mutant: the parent link is not compared with the previous record. *)
RecordError_Unlinked(r, prev) ==
    IF BlockInvalid(r.delegation) THEN "TraceRecordInvalid"
    ELSE IF r.cnf \notin TrustedKeys THEN "TraceRecordInvalid"
    ELSE IF ~SignatureVerifies(r) THEN "TraceRecordInvalid"
    ELSE IF RecordHash(LINK_DIGEST, r) \in seen_hashes THEN "ProvenanceLinkBroken"
    ELSE IF prev = {}
         THEN IF r.delegation # {} THEN "ProvenanceLinkBroken" ELSE "ok"
    ELSE IF r.delegation = {} THEN "ProvenanceLinkBroken" ELSE "ok"

(* Mutant: the parent, not the record itself, is looked up among the seen. *)
RecordError_SeenParent(r, prev) ==
    IF BlockInvalid(r.delegation) THEN "TraceRecordInvalid"
    ELSE IF r.cnf \notin TrustedKeys THEN "TraceRecordInvalid"
    ELSE IF ~SignatureVerifies(r) THEN "TraceRecordInvalid"
    ELSE IF prev # {} /\ prev \subseteq seen_hashes THEN "ProvenanceLinkBroken"
    ELSE IF prev = {}
         THEN IF r.delegation # {} THEN "ProvenanceLinkBroken" ELSE "ok"
    ELSE IF r.delegation = {} THEN "ProvenanceLinkBroken"
    ELSE IF \E block \in r.delegation : block.parent_record_hash.alg # LINK_DIGEST
         THEN "TraceDigestUnsupported"
    ELSE IF \E block \in r.delegation : block.parent_record_hash \notin prev
         THEN "ProvenanceLinkBroken"
    ELSE "ok"

(* One turn of the loop of verify_trace_dag: what it raises for record r   *)
(* after one whose hash is prev.                                           *)
RecordError(r, prev) ==
    IF BlockInvalid(r.delegation) THEN "TraceRecordInvalid"
    ELSE IF r.cnf \notin TrustedKeys THEN "TraceRecordInvalid"
    ELSE IF ~SignatureVerifies(r) THEN "TraceRecordInvalid"
    ELSE IF RecordHash(LINK_DIGEST, r) \in seen_hashes THEN "ProvenanceLinkBroken"
    ELSE IF prev = {}
         THEN IF r.delegation # {} THEN "ProvenanceLinkBroken" ELSE "ok"
    ELSE IF r.delegation = {} THEN "ProvenanceLinkBroken"
    ELSE IF \E block \in r.delegation : block.parent_record_hash.alg # LINK_DIGEST
         THEN "TraceDigestUnsupported"
    ELSE IF \E block \in r.delegation : block.parent_record_hash \notin prev
         THEN "ProvenanceLinkBroken"
    ELSE "ok"

VerifyRecord ==
    LET r == records[i]
        prev == IF i = 1 THEN {} ELSE {RecordHash(LINK_DIGEST, records[i - 1])}
        error == RecordError(r, prev)
    IN  /\ pc = "walk"
        /\ IF error = "ok"
           THEN /\ seen_hashes' = seen_hashes \cup {RecordHash(LINK_DIGEST, r)}
                /\ i' = i + 1
                /\ pc' = IF i = Len(records) THEN "cross" ELSE "walk"
                /\ UNCHANGED verdict
           ELSE /\ verdict' = error
                /\ pc' = "done"
                /\ UNCHANGED <<seen_hashes, i>>
        /\ UNCHANGED <<signed, chain, records, verified>>

(* Mutant: the signing keys are not compared with the subjects. *)
LinesUp_AnySigner(recs, ch) ==
    /\ Len(recs) = Len(ch)
    /\ \A j \in 2..Len(recs) :
          \E block \in recs[j].delegation : block.credential_id = ch[j].credential_id

(* cross_check_trace_dag *)
LinesUp(recs, ch) ==
    /\ Len(recs) = Len(ch)
    /\ \A j \in DOMAIN recs : recs[j].cnf = ch[j].subject
    /\ \A j \in 2..Len(recs) :
          \E block \in recs[j].delegation : block.credential_id = ch[j].credential_id

CrossCheck ==
    /\ pc = "cross"
    /\ pc' = "done"
    /\ IF LinesUp(records, chain)
       THEN /\ verdict' = "verified"
            /\ verified' = verified \cup {[chain |-> chain, records |-> records]}
       ELSE verdict' = "ProvenanceLinkBroken" /\ UNCHANGED verified
    /\ UNCHANGED <<signed, chain, records, i, seen_hashes>>

(* The command prints its result and ends. *)
Report ==
    /\ pc = "done"
    /\ pc' = "idle"
    /\ chain' = << >>
    /\ records' = << >>
    /\ i' = 1
    /\ seen_hashes' = {}
    /\ verdict' = "none"
    /\ UNCHANGED <<signed, verified>>

Paths == UNION {[1..n -> signed] : n \in 0..MaxPath}

Next ==
    \/ \E k \in Key, body \in Body : EmitRoot(k, body)
    \/ \E form \in ChildForm, parent \in signed : EmitHop(form, parent)
    \/ /\ pc = "idle"
       /\ \E ch \in Chain, path \in Paths :
            \/ Load(ch, path, 0, None)
            \/ \E at \in DOMAIN path : \E r \in Altered(path[at]) : Load(ch, path, at, r)
    \/ VerifyRecord \/ CrossCheck \/ Report

Spec == Init /\ [][Next]_vars

-----------------------------------------------------------------------------

(* A lineage reported as verified is one the delegates of the chain made:  *)
(* every record was really signed, by the subject of the credential at its *)
(* position, and was made as the child of the record before it             *)
(* (verify_trace_dag with cross_check_trace_dag, over altered storage).    *)
VerifiedLineageWasMade ==
    \A v \in verified : \A j \in DOMAIN v.records :
        /\ v.records[j] \in signed
        /\ v.records[j].signature = v.chain[j].subject
        /\ j > 1 => v.records[j].delegation =
                        Block(LINK_DIGEST, v.records[j - 1], v.chain[j].credential_id)

(* The last record commits to the whole lineage: two verified paths that   *)
(* end in the same record are the same path, whoever submitted them.       *)
LeafCommitsToPath ==
    \A v, w \in verified :
        v.records[Len(v.records)] = w.records[Len(w.records)] => v.records = w.records

(* What emit_dag makes for a chain: one record per credential, each under  *)
(* the one before it.                                                      *)
Made(recs, ch) ==
    /\ recs # << >>
    /\ Len(recs) = Len(ch)
    /\ \A j \in DOMAIN recs :
          recs[j] = TraceRecord(ch[j].subject, recs[j].body,
                        IF j = 1 THEN {} ELSE Block(LINK_DIGEST, recs[j - 1], ch[j].credential_id))

(* What emit_dag returns for a chain verifies against that chain: the path *)
(* that the delegates emitted in order is never refused.                   *)
EmittedDagVerifies ==
    pc = "done" /\ Made(records, chain) /\ VerifyChain(chain, None, 0, None) \in Accepted
        => verdict = "verified"
=============================================================================
