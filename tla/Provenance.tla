----------------------------- MODULE Provenance -----------------------------
(***************************************************************************)
(* The linked decision records of a workflow (provenance.py): callees emit *)
(* them, callers keep the paths they were answered with and link the next  *)
(* call to the last one, and an auditor runs verify_dag and then           *)
(* cross_check_chain, as ca2a verify-dag --chain does (cli.py), on a path  *)
(* that may have been altered in storage.                                  *)
(*                                                                         *)
(* A record's hash is the record, so a link holds the whole ancestry.  A   *)
(* parent link and the previous record may be missing: each is a set of    *)
(* at most one.                                                            *)
(***************************************************************************)
EXTENDS Delegation, FiniteSets

CONSTANTS
    Chain,        \* the delegation chain of the workflow, already verified
    RecordId,     \* record identifiers, chosen by callers
    MaxRecords,   \* bound on the records of a path
    MaxPaths      \* bound on the paths kept

(* verify_chain refuses an empty chain and one that repeats an identifier. *)
ASSUME ChainAssumption ==
    /\ Chain \in Seq(DelegationCredential)
    /\ Chain # << >>
    /\ \A j, k \in DOMAIN Chain : Chain[j].credential_id = Chain[k].credential_id => j = k
ASSUME BoundsAssumption == {MaxRecords, MaxPaths} \subseteq Nat

VARIABLES
    paths,      \* root-to-leaf paths of records as their callees emitted them
    pc,         \* where the auditor is
    records,    \* the path it was given
    chain,      \* the chain it was given
    i,          \* the record verify_dag is at
    seen_ids,   \* identifiers of the records before it
    verdict     \* "verified", "cross_checked", or what was raised

audit == <<pc, records, chain, i, seen_ids, verdict>>
vars == <<paths, audit>>

(* record_for and denial_record_for: what is kept of a credential, the     *)
(* identifier and the parent link the caller sent, and the decision.       *)
RecordFor(c, id, parent, decision) ==
    [record_id |-> id, credential_id |-> c.credential_id, subject |-> c.subject,
     parent_record_hash |-> parent, decision |-> decision]

RecordHash(rec) == rec

Denied(rec) == rec.decision = "deny"

LinkTo(p) == IF p = << >> THEN {} ELSE {RecordHash(p[Len(p)])}

Init ==
    /\ paths = {}
    /\ pc = "idle"
    /\ records = << >>
    /\ chain = << >>
    /\ i = 1
    /\ seen_ids = {}
    /\ verdict = "none"

-----------------------------------------------------------------------------
(* A callee decides a call made under hop k of the chain.  It takes the    *)
(* record identifier and the parent link as the caller sent them.          *)
Emit(p, k, id, decision) ==
    /\ Len(p) < MaxRecords
    /\ Cardinality(paths) < MaxPaths
    /\ paths' = paths \cup {Append(p, RecordFor(Chain[k], id, LinkTo(p), decision))}
    /\ UNCHANGED audit

(* What storage may have done to a path: a record rewritten in one field,  *)
(* or taken from another path, two exchanged, one missing.                 *)
Rewritten(rec) ==
    {[rec EXCEPT !.record_id = id] : id \in RecordId}
    \cup {[rec EXCEPT !.credential_id = c.credential_id] : c \in {Chain[k] : k \in DOMAIN Chain}}
    \cup {[rec EXCEPT !.subject = c.subject] : c \in {Chain[k] : k \in DOMAIN Chain}}
    \cup {[rec EXCEPT !.decision = d] : d \in {"allow", "deny"}}
    \cup {[rec EXCEPT !.parent_record_hash = {}]}

Substitutes(p, j) ==
    Rewritten(p[j]) \cup {q[j] : q \in {q \in paths : j \in DOMAIN q}}

Altered(p) ==
    (UNION {{[p EXCEPT ![j] = rec] : rec \in Substitutes(p, j)} : j \in DOMAIN p})
    \cup (UNION {{[p EXCEPT ![j] = p[k], ![k] = p[j]] : k \in DOMAIN p} : j \in DOMAIN p})
    \cup {SubSeq(p, 1, j - 1) \o SubSeq(p, j + 1, Len(p)) : j \in DOMAIN p}

(* ca2a verify-dag loads the records and the chain; ch is the part of the  *)
(* chain the last call was made under, or another one.                     *)
Load(recs, ch) ==
    /\ pc = "idle"
    /\ records' = recs
    /\ chain' = ch
    /\ IF recs = << >>
       THEN pc' = "done" /\ verdict' = "ProvenanceLinkBroken"
       ELSE pc' = "dag" /\ UNCHANGED verdict
    /\ UNCHANGED <<paths, i, seen_ids>>

(* Mutant: the parent link is not compared with the previous record. *)
RecordBroken_NoLink(rec, prev) ==
    \/ rec.record_id \in seen_ids
    \/ prev = {} /\ rec.parent_record_hash # {}
    \/ \E last \in prev : Denied(last)

(* Mutant: nothing is refused for following a denial. *)
RecordBroken_PastDenial(rec, prev) ==
    \/ rec.record_id \in seen_ids
    \/ prev = {} /\ rec.parent_record_hash # {}
    \/ \E last \in prev : rec.parent_record_hash # {RecordHash(last)}

(* Mutant: the root must have a parent, too. *)
RecordBroken_RootLink(rec, prev) ==
    \/ rec.record_id \in seen_ids
    \/ prev = {} /\ rec.parent_record_hash = {}
    \/ \E last \in prev : Denied(last) \/ rec.parent_record_hash # {RecordHash(last)}

(* The body of verify_dag's loop. *)
RecordBroken(rec, prev) ==
    \/ rec.record_id \in seen_ids
    \/ prev = {} /\ rec.parent_record_hash # {}
    \/ \E last \in prev : Denied(last) \/ rec.parent_record_hash # {RecordHash(last)}

VerifyRecord ==
    LET rec == records[i]
        prev == IF i = 1 THEN {} ELSE {records[i - 1]}
    IN  /\ pc = "dag"
        /\ IF RecordBroken(rec, prev)
           THEN /\ pc' = "done"
                /\ verdict' = "ProvenanceLinkBroken"
                /\ UNCHANGED <<i, seen_ids>>
           ELSE /\ seen_ids' = seen_ids \cup {rec.record_id}
                /\ i' = i + 1
                /\ IF i = Len(records) THEN pc' = "cross" /\ verdict' = "verified"
                                       ELSE UNCHANGED <<pc, verdict>>
        /\ UNCHANGED <<paths, records, chain>>

-----------------------------------------------------------------------------
(* The positions of the hop records, and which hop each one is. *)
Hops(recs) == {j \in DOMAIN recs : ~Denied(recs[j])}
HopNumber(recs, j) == Cardinality({k \in Hops(recs) : k <= j})

(* cross_check_chain: hop records against the chain by position ... *)
HopsMatch(recs, ch) ==
    /\ Cardinality(Hops(recs)) = Len(ch)
    /\ \A j \in Hops(recs) :
          /\ recs[j].credential_id = ch[HopNumber(recs, j)].credential_id
          /\ recs[j].subject = ch[HopNumber(recs, j)].subject

(* ... and denials by credential.  The credentials of a verified chain     *)
(* have distinct identifiers.                                              *)
DenialsMatch(recs, ch) ==
    \A j \in DOMAIN recs : Denied(recs[j]) =>
        \E k \in DOMAIN ch : /\ recs[j].credential_id = ch[k].credential_id
                             /\ recs[j].subject = ch[k].subject

CrossCheck ==
    /\ pc = "cross"
    /\ pc' = "done"
    /\ verdict' = IF HopsMatch(records, chain) /\ DenialsMatch(records, chain)
                  THEN "cross_checked" ELSE "ProvenanceLinkBroken"
    /\ UNCHANGED <<paths, records, chain, i, seen_ids>>

(* The command exits; the next audit starts afresh. *)
Report ==
    /\ pc = "done"
    /\ pc' = "idle"
    /\ records' = << >>
    /\ chain' = << >>
    /\ i' = 1
    /\ seen_ids' = {}
    /\ verdict' = "none"
    /\ UNCHANGED paths

Next ==
    \/ \E p \in paths \cup {<< >>}, k \in DOMAIN Chain, id \in RecordId, d \in {"allow", "deny"} :
           Emit(p, k, id, d)
    \/ \E p \in paths : \E recs \in Altered(p) \cup {p}, n \in DOMAIN Chain :
           Load(recs, SubSeq(Chain, 1, n))
    \/ VerifyRecord
    \/ CrossCheck
    \/ Report

Spec == Init /\ [][Next]_vars

-----------------------------------------------------------------------------

(* A path that verify_dag passes and that ends in a record some callee     *)
(* emitted is, record for record, the path that callee's caller had: the   *)
(* last link commits to the whole ancestry, so nothing before it can be    *)
(* changed, dropped, exchanged or added.                                   *)
VerifiedPathIsUnaltered ==
    verdict \in {"verified", "cross_checked"} =>
        \A p \in paths : p[Len(p)] = records[Len(records)] => p = records

(* A path that passes both checks accounts for every hop of the chain in   *)
(* order, and holds at most one denial, at its end, by the subject of a    *)
(* credential of the chain: no work is claimed past a refusal.             *)
CrossCheckedFollowsChain ==
    verdict = "cross_checked" =>
        /\ \A k \in DOMAIN chain : /\ records[k].subject = chain[k].subject
                                   /\ ~Denied(records[k])
        /\ Len(records) \in {Len(chain), Len(chain) + 1}
        /\ Len(records) > Len(chain) =>
              LET last == records[Len(records)]
              IN  Denied(last) /\ \E k \in DOMAIN chain : last.subject = chain[k].subject

(* The records of a workflow in which every hop was allowed once, under    *)
(* identifiers that do not repeat, pass both checks against its chain.     *)
FullWorkflowVerifies ==
    ( /\ records \in paths
      /\ Len(records) = Len(chain)
      /\ \A k \in DOMAIN records : /\ records[k].credential_id = chain[k].credential_id
                                   /\ ~Denied(records[k])
      /\ \A j, k \in DOMAIN records : records[j].record_id = records[k].record_id => j = k )
    => verdict # "ProvenanceLinkBroken"

(* A refusal is "checkable offline against the signed chain"               *)
(* (denial_record_for): the path of a workflow whose last call was refused *)
(* passes the cross-check against the chain that call presented.           *)
RefusalIsCheckable ==
    ( /\ records \in paths
      /\ Len(records) = Len(chain)
      /\ \A k \in DOMAIN records : /\ records[k].credential_id = chain[k].credential_id
                                   /\ Denied(records[k]) <=> k = Len(chain)
      /\ \A j, k \in DOMAIN records : records[j].record_id = records[k].record_id => j = k )
    => verdict # "ProvenanceLinkBroken"
=============================================================================
