-------------------------- MODULE ProvenanceProofs --------------------------
(***************************************************************************)
(* Proofs about Provenance: for a chain of any length, any number of       *)
(* records and identifiers, and every alteration of a stored path, what    *)
(* verify_dag and cross_check_chain let through is what the callees        *)
(* emitted and follows the chain, and a full workflow passes both.         *)
(***************************************************************************)
EXTENDS Provenance, FiniteSetTheorems, SequenceTheorems, WellFoundedInduction, TLAPS

USE Zenon

(* A sequence of one record or more. *)
Path(p) ==
    /\ Len(p) \in Nat \ {0}
    /\ DOMAIN p = 1..Len(p)
    /\ p = [j \in DOMAIN p |-> p[j]]

(* The link that belongs at a position: none at the root.                  *)
Link(p, j) == IF j = 1 THEN {} ELSE {p[j - 1]}

Linked(p) == \A j \in DOMAIN p : p[j].parent_record_hash = Link(p, j)

OfChain(p) ==
    \A j \in DOMAIN p : \E k \in DOMAIN Chain :
        p[j].credential_id = Chain[k].credential_id /\ p[j].subject = Chain[k].subject

(* The paths as callees emit them. *)
Emitted(p) == Path(p) /\ Linked(p) /\ OfChain(p)

PathsInv == \A p \in paths : Emitted(p)

(* What verify_dag has made sure of at a position it passed. *)
Passed(recs, j) ==
    /\ recs[j].parent_record_hash = Link(recs, j)
    /\ j > 1 => ~Denied(recs[j - 1])

Given(ch) == \E n \in DOMAIN Chain : ch = SubSeq(Chain, 1, n)

(* A workflow in which every hop was allowed once. *)
FullWorkflow(recs, ch) ==
    /\ Emitted(recs)
    /\ Given(ch)
    /\ Len(recs) = Len(ch)
    /\ \A k \in DOMAIN recs : /\ recs[k].credential_id = ch[k].credential_id
                              /\ ~Denied(recs[k])
    /\ \A j, k \in DOMAIN recs : recs[j].record_id = recs[k].record_id => j = k

(* The audit. *)
AuditInv ==
    /\ pc \in {"idle", "dag", "cross", "done"}
    /\ pc = "idle" => i = 1 /\ seen_ids = {} /\ verdict = "none"
    /\ pc # "idle" => Given(chain)
    /\ pc \in {"dag", "cross"} =>
          /\ Path(records)
          /\ \A j \in 1..(i - 1) : Passed(records, j)
          /\ seen_ids = {records[j].record_id : j \in 1..(i - 1)}
    /\ pc = "dag" => i \in 1..Len(records) /\ verdict = "none"
    /\ pc = "cross" => i = Len(records) + 1
    /\ verdict \in {"verified", "cross_checked"} =>
          Path(records) /\ \A j \in DOMAIN records : Passed(records, j)
    /\ verdict = "ProvenanceLinkBroken" => ~FullWorkflow(records, chain)
    /\ CrossCheckedFollowsChain

(* The inductive invariant. *)
ProvenanceInv == PathsInv /\ AuditInv

-----------------------------------------------------------------------------
(* Paths as sequences.                                                     *)

LEMMA SeqIsPath ==
    ASSUME NEW S, NEW p \in Seq(S), p # << >>
    PROVE  Path(p)
<1>1. Len(p) \in Nat \ {0}
    BY EmptySeq
<1>2. p \in [1..Len(p) -> S] /\ DOMAIN p = 1..Len(p)
    BY LenProperties
<1>3. p = [j \in DOMAIN p |-> p[j]]
    BY <1>2
<1> QED
    BY <1>1, <1>2, <1>3 DEF Path

LEMMA PathIsSeq ==
    ASSUME NEW p, Path(p), NEW S, {p[j] : j \in DOMAIN p} \subseteq S
    PROVE  p \in Seq(S)
<1> DEFINE n == Len(p)
<1>1. n \in Nat /\ DOMAIN p = 1..n /\ p = [j \in DOMAIN p |-> p[j]]
    BY DEF Path
<1> HIDE DEF n
<1>2. \A j \in DOMAIN p : p[j] \in S
    OBVIOUS
<1>3. p \in [1..n -> S]
    BY <1>1, <1>2
<1> QED
    BY SMTT(30), <1>1, <1>3

(* Every stored path is a sequence, altered or not.                        *)
LEMMA AlteredShape ==
    ASSUME NEW p, Path(p), NEW recs \in Altered(p)
    PROVE  recs = << >> \/ Path(recs)
<1> DEFINE S == {p[j] : j \in DOMAIN p}
<1>1. p \in Seq(S) /\ Len(p) \in Nat /\ DOMAIN p = 1..Len(p)
    BY PathIsSeq DEF Path
<1>2. \A j \in DOMAIN p : p[j] \in S
    OBVIOUS
<1>3. ASSUME NEW j \in DOMAIN p, NEW rec, recs = [p EXCEPT ![j] = rec]
      PROVE  recs \in Seq(S \cup {rec})
    <2>1. p \in Seq(S \cup {rec})
        BY PathIsSeq
    <2> QED
        BY <1>1, <1>3, <2>1, ExceptSeq
<1>4. ASSUME NEW j \in DOMAIN p, NEW k \in DOMAIN p,
             recs = [p EXCEPT ![j] = p[k], ![k] = p[j]]
      PROVE  recs \in Seq(S)
    <2> DEFINE q == [p EXCEPT ![j] = p[k]]
    <2>1. q \in Seq(S) /\ Len(q) = Len(p)
        BY <1>1, <1>2, ExceptSeq
    <2>2. recs = [q EXCEPT ![k] = p[j]]
        BY <1>4
    <2> HIDE DEF q
    <2> QED
        BY <1>1, <1>2, <2>1, <2>2, ExceptSeq
<1>5. ASSUME NEW j \in DOMAIN p, recs = SubSeq(p, 1, j - 1) \o SubSeq(p, j + 1, Len(p))
      PROVE  recs \in Seq(S)
    <2>1. /\ 1 \in Int /\ j - 1 \in Int /\ j + 1 \in Int /\ Len(p) \in Int
          /\ 1..(j - 1) \subseteq DOMAIN p /\ (j + 1)..Len(p) \subseteq DOMAIN p
        BY SMTT(30), <1>1
    <2>2. SubSeq(p, 1, j - 1) \in Seq(S) /\ SubSeq(p, j + 1, Len(p)) \in Seq(S)
        BY <1>2, <2>1, SubSeqProperties
    <2> QED
        BY <1>5, <2>2, ConcatProperties
<1> SUFFICES \E T : recs \in Seq(T)
    BY SeqIsPath
<1> DEFINE A == UNION {{[p EXCEPT ![j] = rec] : rec \in Substitutes(p, j)} : j \in DOMAIN p}
           B == UNION {{[p EXCEPT ![j] = p[k], ![k] = p[j]] : k \in DOMAIN p} : j \in DOMAIN p}
           C == {SubSeq(p, 1, j - 1) \o SubSeq(p, j + 1, Len(p)) : j \in DOMAIN p}
<1>6. recs \in A \/ recs \in B \/ recs \in C
    BY DEF Altered
<1>7. CASE recs \in A
    <2>1. PICK j \in DOMAIN p : \E rec \in Substitutes(p, j) : recs = [p EXCEPT ![j] = rec]
        BY <1>7
    <2>2. \E rec : recs \in Seq(S \cup {rec})
        BY <1>3, <2>1
    <2> HIDE DEF S
    <2> QED
        BY <2>2
<1>8. CASE recs \in B
    <2>1. PICK j \in DOMAIN p : \E k \in DOMAIN p : recs = [p EXCEPT ![j] = p[k], ![k] = p[j]]
        BY ZenonT(40), <1>8
    <2> QED
        BY <1>4, <2>1
<1>9. CASE recs \in C
    BY <1>5, <1>9
<1> HIDE DEF A, B, C
<1> QED
    BY <1>6, <1>7, <1>8, <1>9

(* The chain an auditor is given is a beginning of the workflow's chain.   *)
LEMMA GivenChain ==
    ASSUME NEW ch, Given(ch)
    PROVE  /\ Len(ch) \in 1..Len(Chain)
           /\ DOMAIN ch = 1..Len(ch)
           /\ \A k \in DOMAIN ch : k \in DOMAIN Chain /\ ch[k] = Chain[k]
<1>1. PICK n \in DOMAIN Chain : ch = SubSeq(Chain, 1, n)
    BY DEF Given
<1>2. Chain \in Seq(DelegationCredential)
    BY ChainAssumption
<1> QED
    BY SMTT(30), <1>1, <1>2

-----------------------------------------------------------------------------
(* Emission.                                                               *)

(* The next record of a path is linked to the one before it.               *)
LEMMA EmittedNext ==
    ASSUME NEW p, p = << >> \/ Emitted(p), NEW k \in DOMAIN Chain, NEW rec,
           rec.credential_id = Chain[k].credential_id, rec.subject = Chain[k].subject,
           rec.parent_record_hash = LinkTo(p)
    PROVE  Emitted(Append(p, rec))
<1> DEFINE S == {p[j] : j \in DOMAIN p} \cup {rec}
           q == Append(p, rec)
           n == Len(p)
<1>1. p \in Seq(S)
    BY PathIsSeq, EmptySeq DEF Emitted
<1>2. rec \in S
    OBVIOUS
<1> HIDE DEF S
<1>3. /\ q \in Seq(S) /\ q # << >> /\ Len(q) = n + 1
      /\ \A j \in 1..n : q[j] = p[j]
      /\ q[n + 1] = rec
    BY SMTT(30), <1>1, <1>2
<1>4. n \in Nat /\ DOMAIN p = 1..n /\ DOMAIN q = 1..Len(q)
    BY <1>1, <1>3, LenProperties
<1>5. p = << >> <=> n = 0
    BY SMTT(30), <1>1
<1> HIDE DEF q
<1>6. Path(q)
    BY <1>3, SeqIsPath
<1>7. \A j \in DOMAIN q : j \in 1..n \/ j = n + 1
    BY SMTT(30), <1>3, <1>4
<1>8. OfChain(q)
    <2>1. \A j \in DOMAIN p : \E m \in DOMAIN Chain :
              p[j].credential_id = Chain[m].credential_id /\ p[j].subject = Chain[m].subject
        <3>1. CASE p = << >>
            BY SMTT(30), <3>1
        <3> QED
            BY <3>1 DEF Emitted, OfChain
    <2> SUFFICES ASSUME NEW j \in DOMAIN q
                 PROVE  \E m \in DOMAIN Chain : /\ q[j].credential_id = Chain[m].credential_id
                                                /\ q[j].subject = Chain[m].subject
        BY DEF OfChain
    <2>2. CASE j \in 1..n
        BY <1>3, <1>4, <2>1, <2>2
    <2>3. CASE j = n + 1
        BY <1>3, <2>3
    <2> QED
        BY <1>7, <2>2, <2>3
<1>9. Linked(q)
    <2> SUFFICES ASSUME NEW j \in DOMAIN q
                 PROVE  q[j].parent_record_hash = Link(q, j)
        BY DEF Linked
    <2>1. CASE j = n + 1
        <3>1. CASE n = 0
            <4>1. j = 1 /\ rec.parent_record_hash = {}
                BY SMTT(30), <1>5, <2>1, <3>1 DEF LinkTo
            <4> QED
                BY <1>3, <2>1, <4>1 DEF Link
        <3>2. CASE n # 0
            <4>1. j # 1 /\ j - 1 = n /\ n \in 1..n
                BY SMTT(30), <1>4, <2>1, <3>2
            <4>2. rec.parent_record_hash = {p[n]}
                BY <1>5, <3>2 DEF LinkTo, RecordHash
            <4> QED
                BY <1>3, <2>1, <4>1, <4>2 DEF Link
        <3> QED
            BY <3>1, <3>2
    <2>2. CASE j \in 1..n
        <3>1. p # << >>
            BY SMTT(30), <1>4, <1>5, <2>2
        <3>2. p[j].parent_record_hash = Link(p, j)
            BY <1>4, <2>2, <3>1 DEF Emitted, Linked
        <3>3. j # 1 => j - 1 \in 1..n
            BY SMTT(30), <1>4, <2>2
        <3>4. Link(q, j) = Link(p, j)
            BY <1>3, <3>3 DEF Link
        <3> QED
            BY <1>3, <2>2, <3>2, <3>4
    <2> QED
        BY <1>7, <2>1, <2>2
<1> QED
    BY <1>6, <1>8, <1>9 DEF Emitted, q

LEMMA EmitInv ==
    ASSUME ProvenanceInv, NEW p \in paths \cup {<< >>}, NEW k \in DOMAIN Chain,
           NEW id, NEW d, Emit(p, k, id, d)
    PROVE  ProvenanceInv'
<1> DEFINE rec == RecordFor(Chain[k], id, LinkTo(p), d)
<1>1. /\ paths' = paths \cup {Append(p, rec)}
      /\ UNCHANGED <<pc, records, chain, i, seen_ids, verdict>>
    BY DEF Emit, audit
<1>2. p = << >> \/ Emitted(p)
    BY DEF ProvenanceInv, PathsInv
<1>3. /\ rec.credential_id = Chain[k].credential_id
      /\ rec.subject = Chain[k].subject
      /\ rec.parent_record_hash = LinkTo(p)
    BY SMTT(30) DEF RecordFor
<1> HIDE DEF rec
<1>4. Emitted(Append(p, rec))
    BY <1>2, <1>3, EmittedNext
<1>5. PathsInv'
    BY <1>1, <1>4 DEF ProvenanceInv, PathsInv
<1>6. AuditInv'
    BY <1>1 DEF ProvenanceInv, AuditInv, CrossCheckedFollowsChain
<1> QED
    BY <1>5, <1>6 DEF ProvenanceInv

-----------------------------------------------------------------------------
(* The audit.                                                              *)

LEMMA InitInv == Init => ProvenanceInv
<1> SUFFICES ASSUME Init
             PROVE  ProvenanceInv
    OBVIOUS
<1>1. PathsInv
    BY DEF Init, PathsInv
<1>2. AuditInv
    BY DEF Init, AuditInv, CrossCheckedFollowsChain
<1> QED
    BY <1>1, <1>2 DEF ProvenanceInv

LEMMA ReportInv ==
    ASSUME ProvenanceInv, Report
    PROVE  ProvenanceInv'
<1>1. PathsInv'
    BY DEF Report, ProvenanceInv, PathsInv
<1>2. AuditInv'
    BY DEF Report, AuditInv, CrossCheckedFollowsChain
<1> QED
    BY <1>1, <1>2 DEF ProvenanceInv

LEMMA LoadInv ==
    ASSUME ProvenanceInv, NEW p \in paths, NEW recs \in Altered(p) \cup {p},
           NEW n \in DOMAIN Chain, Load(recs, SubSeq(Chain, 1, n))
    PROVE  ProvenanceInv'
<1>1. /\ pc = "idle" /\ i = 1 /\ seen_ids = {} /\ verdict = "none"
      /\ UNCHANGED <<paths, i, seen_ids>>
      /\ records' = recs /\ chain' = SubSeq(Chain, 1, n)
      /\ \/ recs = << >> /\ pc' = "done" /\ verdict' = "ProvenanceLinkBroken"
         \/ recs # << >> /\ pc' = "dag" /\ verdict' = verdict
    BY DEF Load, ProvenanceInv, AuditInv
<1>2. PathsInv'
    BY <1>1 DEF ProvenanceInv, PathsInv
<1>3. recs = << >> \/ Path(recs)
    BY AlteredShape DEF ProvenanceInv, PathsInv, Emitted
<1>4. Given(chain')
    BY <1>1 DEF Given
<1>5. AuditInv'
    <2>1. CASE recs = << >>
        <3>1. ~Path(records')
            BY SMTT(30), <1>1, <2>1 DEF Path
        <3>2. ~FullWorkflow(records', chain')
            BY <3>1 DEF FullWorkflow, Emitted
        <3>3. pc' = "done" /\ verdict' = "ProvenanceLinkBroken"
            BY <1>1, <2>1
        <3> QED
            BY <1>4, <3>2, <3>3 DEF AuditInv, CrossCheckedFollowsChain
    <2>2. CASE recs # << >>
        <3>1. 1..(i' - 1) = {}
            BY SMTT(30), <1>1
        <3>2. i' \in 1..Len(records')
            BY SMTT(30), <1>1, <1>3, <2>2 DEF Path
        <3>3. {records'[j].record_id : j \in 1..(i' - 1)} = {}
            BY <3>1
        <3>4. pc' = "dag" /\ verdict' = "none" /\ Path(records') /\ seen_ids' = {}
            BY <1>1, <1>3, <2>2
        <3> QED
            BY <1>4, <3>1, <3>2, <3>3, <3>4 DEF AuditInv, CrossCheckedFollowsChain
    <2> QED
        BY <2>1, <2>2
<1> QED
    BY <1>2, <1>5 DEF ProvenanceInv

(* What RecordBroken leaves, with the previous record as verify_dag has it. *)
LEMMA NotBroken ==
    ASSUME NEW recs, NEW n \in Nat, n > 0
    PROVE  ~RecordBroken(recs[n], IF n = 1 THEN {} ELSE {recs[n - 1]}) <=>
               recs[n].record_id \notin seen_ids /\ Passed(recs, n)
<1>1. CASE n = 1
    <2>1. ~(n > 1)
        BY SMTT(30), <1>1
    <2> QED
        BY <1>1, <2>1 DEF RecordBroken, Passed, Link
<1>2. CASE n # 1
    <2>1. n > 1
        BY SMTT(30), <1>2
    <2> DEFINE last == recs[n - 1]
               rec == recs[n]
    <2>2. RecordBroken(rec, {last}) <=>
              rec.record_id \in seen_ids \/ Denied(last) \/ rec.parent_record_hash # {last}
        BY DEF RecordBroken, RecordHash
    <2>3. Passed(recs, n) <=> rec.parent_record_hash = {last} /\ ~Denied(last)
        BY <1>2, <2>1 DEF Passed, Link
    <2> QED
        BY <1>2, <2>2, <2>3
<1> QED
    BY <1>1, <1>2

(* The records of a full workflow pass verify_dag.                         *)
LEMMA FullPasses ==
    ASSUME NEW recs, NEW ch, FullWorkflow(recs, ch), NEW n \in DOMAIN recs,
           seen_ids = {recs[j].record_id : j \in 1..(n - 1)}
    PROVE  recs[n].record_id \notin seen_ids /\ Passed(recs, n)
<1>1. DOMAIN recs = 1..Len(recs) /\ Len(recs) \in Nat
    BY DEF FullWorkflow, Emitted, Path
<1>2. /\ \A j \in 1..(n - 1) : j \in DOMAIN recs /\ j # n
      /\ n > 1 => n - 1 \in DOMAIN recs
    BY SMTT(30), <1>1
<1>3. recs[n].record_id \notin seen_ids
    BY <1>2 DEF FullWorkflow
<1>4. recs[n].parent_record_hash = Link(recs, n)
    BY DEF FullWorkflow, Emitted, Linked
<1>5. n > 1 => ~Denied(recs[n - 1])
    BY <1>2 DEF FullWorkflow
<1> QED
    BY <1>3, <1>4, <1>5 DEF Passed

LEMMA VerifyRecordInv ==
    ASSUME ProvenanceInv, VerifyRecord
    PROVE  ProvenanceInv'
<1> DEFINE prev == IF i = 1 THEN {} ELSE {records[i - 1]}
<1>1. pc = "dag" /\ UNCHANGED <<paths, records, chain>>
    BY DEF VerifyRecord
<1>2. PathsInv'
    BY <1>1 DEF ProvenanceInv, PathsInv
<1>3. /\ Given(chain) /\ Path(records) /\ i \in 1..Len(records) /\ verdict = "none"
      /\ \A j \in 1..(i - 1) : Passed(records, j)
      /\ seen_ids = {records[j].record_id : j \in 1..(i - 1)}
    BY <1>1 DEF ProvenanceInv, AuditInv
<1>4. i \in Nat /\ i > 0 /\ i \in DOMAIN records /\ Len(records) \in Nat
    BY SMTT(30), <1>3 DEF Path
<1>5. CASE RecordBroken(records[i], prev)
    <2>1. pc' = "done" /\ verdict' = "ProvenanceLinkBroken"
        BY <1>5 DEF VerifyRecord
    <2>2. ~FullWorkflow(records, chain)
        BY <1>3, <1>4, <1>5, NotBroken, FullPasses
    <2>3. AuditInv'
        BY <1>1, <1>3, <2>1, <2>2 DEF AuditInv, CrossCheckedFollowsChain
    <2> QED
        BY <1>2, <2>3 DEF ProvenanceInv
<1>6. CASE ~RecordBroken(records[i], prev)
    <2>1. /\ seen_ids' = seen_ids \cup {records[i].record_id}
          /\ i' = i + 1
          /\ \/ i = Len(records) /\ pc' = "cross" /\ verdict' = "verified"
             \/ i # Len(records) /\ pc' = "dag" /\ verdict' = "none"
        BY <1>1, <1>3, <1>6 DEF VerifyRecord
    <2>2. Passed(records, i)
        BY <1>4, <1>6, NotBroken
    <2>3. 1..(i' - 1) = 1..(i - 1) \cup {i}
        BY SMTT(30), <1>4, <2>1
    <2>4. /\ \A j \in 1..(i' - 1) : Passed(records, j)
          /\ seen_ids' = {records[j].record_id : j \in 1..(i' - 1)}
        BY <1>3, <2>1, <2>2, <2>3
    <2>5. /\ i # Len(records) => i' \in 1..Len(records)
          /\ i = Len(records) => i' = Len(records) + 1 /\ 1..(i' - 1) = 1..Len(records)
        BY SMTT(30), <1>3, <1>4, <2>1
    <2>6. ASSUME i = Len(records)
          PROVE  AuditInv'
        <3>1. pc' = "cross" /\ verdict' = "verified"
            BY <2>1, <2>6
        <3>2. \A j \in DOMAIN records : Passed(records, j)
            BY <1>3, <2>4, <2>5, <2>6 DEF Path
        <3> QED
            BY <1>1, <1>3, <2>4, <2>5, <2>6, <3>1, <3>2 DEF AuditInv, CrossCheckedFollowsChain
    <2>7. ASSUME i # Len(records)
          PROVE  AuditInv'
        <3>1. pc' = "dag" /\ verdict' = "none"
            BY <2>1, <2>7
        <3> QED
            BY <1>1, <1>3, <2>4, <2>5, <2>7, <3>1 DEF AuditInv, CrossCheckedFollowsChain
    <2> QED
        BY <1>2, <2>6, <2>7 DEF ProvenanceInv
<1> QED
    BY <1>5, <1>6

-----------------------------------------------------------------------------
(* The cross-check.                                                        *)

(* When the hop records are the first m, hop k is record k.                *)
LEMMA HopNumbers ==
    ASSUME NEW recs, NEW m \in Nat, Hops(recs) = 1..m
    PROVE  /\ Cardinality(Hops(recs)) = m
           /\ \A j \in 1..m : HopNumber(recs, j) = j
<1>1. \A n \in Nat : Cardinality(1..n) = n
    <2> TAKE n \in Nat
    <2>1. 1 \in Int /\ n \in Int /\ (IF 1 > n THEN 0 ELSE n - 1 + 1) = n
        BY SMTT(30)
    <2> QED
        BY <2>1, FS_Interval
<1>2. ASSUME NEW j \in 1..m
      PROVE  HopNumber(recs, j) = j
    <2>1. j \in Nat /\ {k \in 1..m : k <= j} = 1..j
        BY SMTT(30), <1>2
    <2> QED
        BY <1>1, <2>1 DEF HopNumber
<1> QED
    BY <1>1, <1>2

(* Only the last record of a path that verify_dag passed may be a denial.  *)
LEMMA HopsFirst ==
    ASSUME NEW recs, Path(recs), \A j \in DOMAIN recs : Passed(recs, j)
    PROVE  LET n == Len(recs)
           IN  /\ ~Denied(recs[n]) => Hops(recs) = 1..n
               /\ Denied(recs[n]) => Hops(recs) = 1..(n - 1)
<1> DEFINE n == Len(recs)
<1>1. n \in Nat \ {0} /\ DOMAIN recs = 1..n
    BY DEF Path
<1> HIDE DEF n
<1>2. ASSUME NEW j \in 1..(n - 1)
      PROVE  ~Denied(recs[j])
    <2>1. j + 1 \in 1..n /\ j + 1 > 1 /\ (j + 1) - 1 = j
        BY SMTT(30), <1>1
    <2> QED
        BY <1>1, <2>1 DEF Passed
<1>3. 1..n = 1..(n - 1) \cup {n} /\ n \notin 1..(n - 1)
    BY SMTT(30), <1>1
<1>4. ~Denied(recs[n]) => Hops(recs) = 1..n
    BY <1>1, <1>2, <1>3 DEF Hops
<1>5. Denied(recs[n]) => Hops(recs) = 1..(n - 1)
    BY <1>1, <1>2, <1>3 DEF Hops
<1> QED
    BY <1>4, <1>5 DEF n

LEMMA CrossChecked ==
    ASSUME NEW recs, NEW ch, Given(ch), Path(recs), \A j \in DOMAIN recs : Passed(recs, j),
           HopsMatch(recs, ch), DenialsMatch(recs, ch)
    PROVE  /\ \A k \in DOMAIN ch : recs[k].subject = ch[k].subject /\ ~Denied(recs[k])
           /\ Len(recs) \in {Len(ch), Len(ch) + 1}
           /\ Len(recs) > Len(ch) =>
                 LET last == recs[Len(recs)]
                 IN  Denied(last) /\ \E k \in DOMAIN ch : last.subject = ch[k].subject
<1> DEFINE n == Len(recs)
           m == Len(ch)
<1>1. n \in Nat \ {0} /\ DOMAIN recs = 1..n /\ n \in DOMAIN recs
    BY SMTT(30) DEF Path
<1>2. m \in Nat /\ DOMAIN ch = 1..m
    BY SMTT(30), GivenChain, ChainAssumption
<1> HIDE DEF n, m
<1>3. ASSUME NEW x \in Nat, Hops(recs) = 1..x
      PROVE  /\ m = x
             /\ \A k \in DOMAIN ch : recs[k].subject = ch[k].subject /\ ~Denied(recs[k])
    <2>1. Cardinality(Hops(recs)) = x /\ \A j \in 1..x : HopNumber(recs, j) = j
        BY <1>3, HopNumbers
    <2>2. m = x
        BY <2>1 DEF HopsMatch, m
    <2>3. \A k \in 1..x : recs[k].subject = ch[k].subject
        BY <1>3, <2>1 DEF HopsMatch
    <2>4. \A k \in 1..x : ~Denied(recs[k])
        BY <1>3 DEF Hops
    <2> QED
        BY <1>2, <2>2, <2>3, <2>4
<1>4. CASE ~Denied(recs[n])
    <2>1. Hops(recs) = 1..n
        BY <1>4, HopsFirst DEF n
    <2>2. m = n /\ \A k \in DOMAIN ch : recs[k].subject = ch[k].subject /\ ~Denied(recs[k])
        BY <1>1, <1>3, <2>1
    <2>3. ~(n > m)
        BY SMTT(30), <1>1, <2>2
    <2> QED
        BY <2>2, <2>3 DEF n, m
<1>5. CASE Denied(recs[n])
    <2>1. Hops(recs) = 1..(n - 1) /\ n - 1 \in Nat
        <3>1. n - 1 \in Nat
            BY SMTT(30), <1>1
        <3> QED
            BY <1>5, <3>1, HopsFirst DEF n
    <2>2. m = n - 1 /\ \A k \in DOMAIN ch : recs[k].subject = ch[k].subject /\ ~Denied(recs[k])
        BY <1>3, <2>1
    <2>3. n = m + 1
        BY SMTT(30), <1>1, <1>2, <2>2
    <2>4. \E k \in DOMAIN ch : recs[n].subject = ch[k].subject
        BY <1>1, <1>5 DEF DenialsMatch
    <2> QED
        BY <1>5, <2>2, <2>3, <2>4 DEF n, m
<1> QED
    BY <1>4, <1>5

(* A full workflow passes the cross-check, too.                            *)
LEMMA FullMatches ==
    ASSUME NEW recs, NEW ch, FullWorkflow(recs, ch)
    PROVE  HopsMatch(recs, ch) /\ DenialsMatch(recs, ch)
<1> DEFINE n == Len(recs)
<1>1. /\ n \in Nat /\ DOMAIN recs = 1..n /\ n = Len(ch)
      /\ Given(ch) /\ OfChain(recs)
      /\ \A k \in DOMAIN recs : recs[k].credential_id = ch[k].credential_id /\ ~Denied(recs[k])
    BY DEF FullWorkflow, Emitted, Path
<1>2. DOMAIN ch = DOMAIN recs /\ \A k \in DOMAIN ch : k \in DOMAIN Chain /\ ch[k] = Chain[k]
    BY <1>1, GivenChain
<1> HIDE DEF n
<1>3. Hops(recs) = 1..n
    BY <1>1 DEF Hops
<1>4. Cardinality(Hops(recs)) = n /\ \A j \in 1..n : HopNumber(recs, j) = j
    BY <1>1, <1>3, HopNumbers
<1>5. ASSUME NEW j \in DOMAIN recs
      PROVE  recs[j].subject = ch[j].subject
    <2>1. PICK k \in DOMAIN Chain : /\ recs[j].credential_id = Chain[k].credential_id
                                    /\ recs[j].subject = Chain[k].subject
        BY <1>1 DEF OfChain
    <2>2. j \in DOMAIN Chain /\ ch[j] = Chain[j] /\ recs[j].credential_id = ch[j].credential_id
        BY <1>1, <1>2
    <2>3. k = j
        BY <2>1, <2>2, ChainAssumption
    <2> QED
        BY <2>1, <2>2, <2>3
<1>6. HopsMatch(recs, ch)
    BY <1>1, <1>3, <1>4, <1>5 DEF HopsMatch
<1>7. DenialsMatch(recs, ch)
    BY <1>1 DEF DenialsMatch
<1> QED
    BY <1>6, <1>7

LEMMA CrossCheckInv ==
    ASSUME ProvenanceInv, CrossCheck
    PROVE  ProvenanceInv'
<1> DEFINE ok == HopsMatch(records, chain) /\ DenialsMatch(records, chain)
<1>1. /\ pc = "cross" /\ pc' = "done"
      /\ verdict' = IF ok THEN "cross_checked" ELSE "ProvenanceLinkBroken"
      /\ UNCHANGED <<paths, records, chain, i, seen_ids>>
    BY DEF CrossCheck
<1>2. PathsInv'
    BY <1>1 DEF ProvenanceInv, PathsInv
<1>3. /\ Given(chain) /\ Path(records) /\ i = Len(records) + 1
      /\ \A j \in 1..(i - 1) : Passed(records, j)
    BY <1>1 DEF ProvenanceInv, AuditInv
<1>4. DOMAIN records = 1..(i - 1)
    BY SMTT(30), <1>3 DEF Path
<1>5. \A j \in DOMAIN records : Passed(records, j)
    BY <1>3, <1>4
<1>6. CASE ok
    <2>1. verdict' = "cross_checked"
        BY <1>1, <1>6
    <2>2. CrossCheckedFollowsChain'
        <3>1. records' = records /\ chain' = chain
            BY <1>1
        <3>2. /\ \A k \in DOMAIN chain : /\ records[k].subject = chain[k].subject
                                         /\ ~Denied(records[k])
              /\ Len(records) \in {Len(chain), Len(chain) + 1}
              /\ Len(records) > Len(chain) =>
                    /\ Denied(records[Len(records)])
                    /\ \E k \in DOMAIN chain : records[Len(records)].subject = chain[k].subject
            BY <1>3, <1>5, <1>6, CrossChecked
        <3> QED
            BY <3>1, <3>2 DEF CrossCheckedFollowsChain
    <2>3. AuditInv'
        BY <1>1, <1>3, <1>5, <2>1, <2>2 DEF AuditInv
    <2> QED
        BY <1>2, <2>3 DEF ProvenanceInv
<1>7. CASE ~ok
    <2>1. verdict' = "ProvenanceLinkBroken"
        BY <1>1, <1>7
    <2>2. ~FullWorkflow(records, chain)
        BY <1>7, FullMatches
    <2>3. AuditInv'
        BY <1>1, <1>3, <2>1, <2>2 DEF AuditInv, CrossCheckedFollowsChain
    <2> QED
        BY <1>2, <2>3 DEF ProvenanceInv
<1> QED
    BY <1>6, <1>7

LEMMA NextInv == ProvenanceInv /\ [Next]_vars => ProvenanceInv'
<1> SUFFICES ASSUME ProvenanceInv, [Next]_vars
             PROVE  ProvenanceInv'
    OBVIOUS
<1>1. ASSUME NEW p \in paths \cup {<< >>}, NEW k \in DOMAIN Chain, NEW id \in RecordId,
             NEW d \in {"allow", "deny"}, Emit(p, k, id, d)
      PROVE  ProvenanceInv'
    BY <1>1, EmitInv
<1>2. ASSUME NEW p \in paths, NEW recs \in Altered(p) \cup {p}, NEW n \in DOMAIN Chain,
             Load(recs, SubSeq(Chain, 1, n))
      PROVE  ProvenanceInv'
    BY <1>2, LoadInv
<1>3. CASE VerifyRecord
    BY <1>3, VerifyRecordInv
<1>4. CASE CrossCheck
    BY <1>4, CrossCheckInv
<1>5. CASE Report
    BY <1>5, ReportInv
<1>6. CASE UNCHANGED vars
    BY <1>6 DEF vars, audit, ProvenanceInv, PathsInv, AuditInv, CrossCheckedFollowsChain
<1> QED
    BY <1>1, <1>2, <1>3, <1>4, <1>5, <1>6 DEF Next

(* The inductive invariant holds throughout: emitted paths are linked back *)
(* to their roots, what verify_dag has passed is linked too and nothing in *)
(* it follows a denial, and no full workflow has been refused.             *)
THEOREM ProvenanceInvariance == Spec => []ProvenanceInv
<1>1. Init => ProvenanceInv
    BY InitInv
<1>2. ProvenanceInv /\ [Next]_vars => ProvenanceInv'
    BY NextInv
<1> QED
    BY <1>1, <1>2, PTL DEF Spec

(* Every path that passes verify_dag and cross_check_chain accounts for    *)
(* each hop of its chain in order, and at most its last record is a denial *)
(* by a subject of the chain, for chains of any length.                    *)
THEOREM EveryCrossCheckedPathFollowsItsChain == Spec => []CrossCheckedFollowsChain
<1>1. ProvenanceInv => CrossCheckedFollowsChain
    BY DEF ProvenanceInv, AuditInv
<1> QED
    BY <1>1, ProvenanceInvariance, PTL

(* The records of a workflow in which every hop was allowed once, under    *)
(* identifiers that do not repeat, are refused by neither check.           *)
THEOREM EveryFullWorkflowVerifies == Spec => []FullWorkflowVerifies
<1>1. ProvenanceInv => FullWorkflowVerifies
    <2> SUFFICES ASSUME ProvenanceInv, verdict = "ProvenanceLinkBroken",
                        records \in paths, Len(records) = Len(chain),
                        \A k \in DOMAIN records :
                            records[k].credential_id = chain[k].credential_id /\ ~Denied(records[k]),
                        \A j, k \in DOMAIN records :
                            records[j].record_id = records[k].record_id => j = k
                 PROVE  FALSE
        BY DEF FullWorkflowVerifies
    <2>1. Emitted(records)
        BY DEF ProvenanceInv, PathsInv
    <2>2. pc # "idle"
        BY DEF ProvenanceInv, AuditInv
    <2>3. Given(chain) /\ ~FullWorkflow(records, chain)
        BY <2>2 DEF ProvenanceInv, AuditInv
    <2> QED
        BY <2>1, <2>3 DEF FullWorkflow
<1> QED
    BY <1>1, ProvenanceInvariance, PTL

-----------------------------------------------------------------------------
(* The last record and the path.                                           *)

LEMMA LeastNatural ==
    ASSUME NEW T \in SUBSET Nat, T # {}
    PROVE  \E n \in T : \A m \in T : n <= m
<1> DEFINE R == OpToRel(<, Nat)
<1>1. IsWellFoundedOn(R, Nat)
    BY NatLessThanWellFounded
<1>2. \A y, x \in Nat : y < x => <<y, x>> \in R
    BY DEF OpToRel
<1> HIDE DEF R
<1>3. PICK x \in T : \A y \in T : ~(<<y, x>> \in R)
    BY <1>1, WFMin
<1>4. \A y \in T : ~(y < x)
    BY <1>2, <1>3
<1> QED
    BY SMTT(30), <1>4

(* Two linked paths with the same last record agree as far as both go.     *)
LEMMA SameSuffix ==
    ASSUME NEW p, NEW q, Path(p), Linked(p), Path(q), Linked(q), p[Len(p)] = q[Len(q)],
           NEW m \in Nat, m < Len(p), m < Len(q)
    PROVE  p[Len(p) - m] = q[Len(q) - m]
<1> DEFINE T == {k \in Nat : k < Len(p) /\ k < Len(q) /\ p[Len(p) - k] # q[Len(q) - k]}
<1>1. /\ Len(p) \in Nat \ {0} /\ DOMAIN p = 1..Len(p)
      /\ Len(q) \in Nat \ {0} /\ DOMAIN q = 1..Len(q)
    BY DEF Path
<1>2. ASSUME T # {}
      PROVE  FALSE
    <2>1. PICK n \in T : \A k \in T : n <= k
        BY <1>2, LeastNatural
    <2>2. n \in Nat /\ n < Len(p) /\ n < Len(q) /\ p[Len(p) - n] # q[Len(q) - n]
        BY <2>1
    <2>3. n # 0
        BY SMTT(30), <1>1, <2>2
    <2> DEFINE a == Len(p) - (n - 1)
               b == Len(q) - (n - 1)
    <2>4. /\ n - 1 \in Nat /\ n - 1 < Len(p) /\ n - 1 < Len(q) /\ ~(n <= n - 1)
          /\ a \in DOMAIN p /\ a # 1 /\ a - 1 = Len(p) - n
          /\ b \in DOMAIN q /\ b # 1 /\ b - 1 = Len(q) - n
        BY SMTT(30), <1>1, <2>2, <2>3
    <2>5. p[a] = q[b]
        BY <2>1, <2>4
    <2> HIDE DEF a, b
    <2>6. p[a].parent_record_hash = {p[Len(p) - n]}
        BY ZenonT(40), <2>4 DEF Linked, Link
    <2>7. q[b].parent_record_hash = {q[Len(q) - n]}
        BY <2>4 DEF Linked, Link
    <2>8. {p[Len(p) - n]} = {q[Len(q) - n]}
        BY <2>5, <2>6, <2>7
    <2> QED
        BY <2>2, <2>8
<1> QED
    BY <1>2

LEMMA NotShorter ==
    ASSUME NEW p, NEW q, Path(p), Linked(p), Path(q), Linked(q), p[Len(p)] = q[Len(q)]
    PROVE  ~(Len(p) < Len(q))
<1> SUFFICES ASSUME Len(p) < Len(q)
             PROVE  FALSE
    OBVIOUS
<1> DEFINE m == Len(p) - 1
           b == Len(q) - m
<1>0. /\ Len(p) \in Nat \ {0} /\ DOMAIN p = 1..Len(p)
      /\ Len(q) \in Nat \ {0} /\ DOMAIN q = 1..Len(q)
    BY DEF Path
<1>1. /\ m \in Nat /\ m < Len(p) /\ m < Len(q)
      /\ Len(p) - m = 1 /\ 1 \in DOMAIN p /\ b \in DOMAIN q /\ b # 1
    BY SMTT(30), <1>0
<1> HIDE DEF m
<1>2. p[1] = q[b]
    BY <1>1, SameSuffix
<1> HIDE DEF b
<1>3. q[b].parent_record_hash = {q[b - 1]} /\ p[1].parent_record_hash = {}
    BY <1>1 DEF Linked, Link
<1>4. {q[b - 1]} # {}
    OBVIOUS
<1> QED
    BY <1>2, <1>3, <1>4

LEMMA LeafDetermines ==
    ASSUME NEW p, NEW q, Path(p), Linked(p), Path(q), Linked(q), p[Len(p)] = q[Len(q)]
    PROVE  p = q
<1>1. ~(Len(p) < Len(q)) /\ ~(Len(q) < Len(p))
    BY NotShorter
<1>2. /\ Len(p) \in Nat /\ DOMAIN p = 1..Len(p)
      /\ Len(q) \in Nat /\ DOMAIN q = 1..Len(q)
    BY DEF Path
<1>3. \A m, n \in Nat : ~(m < n) /\ ~(n < m) => m = n
    BY SMTT(30)
<1>4. Len(p) = Len(q)
    BY <1>1, <1>2, <1>3
<1>5. ASSUME NEW j \in 1..Len(p)
      PROVE  p[j] = q[j]
    <2> DEFINE m == Len(p) - j
    <2>1. m \in Nat /\ m < Len(p) /\ Len(p) - m = j
        BY SMTT(30), <1>2
    <2> HIDE DEF m
    <2>2. p[Len(p) - m] = q[Len(q) - m]
        BY <1>4, <2>1, SameSuffix
    <2> QED
        BY <1>4, <2>1, <2>2
<1>6. p = [j \in 1..Len(p) |-> p[j]] /\ q = [j \in 1..Len(p) |-> q[j]]
    BY <1>2, <1>4 DEF Path
<1> QED
    BY <1>5, <1>6

(* Every path that verify_dag passes and that ends in an emitted record is *)
(* the path of that record's caller: walking back along the links, the two *)
(* never part, and neither goes on beyond the other's root.                *)
THEOREM EveryVerifiedPathIsUnaltered == Spec => []VerifiedPathIsUnaltered
<1>1. ProvenanceInv => VerifiedPathIsUnaltered
    <2> SUFFICES ASSUME ProvenanceInv, verdict \in {"verified", "cross_checked"},
                        NEW p \in paths, p[Len(p)] = records[Len(records)]
                 PROVE  p = records
        BY DEF VerifiedPathIsUnaltered
    <2>1. Path(p) /\ Linked(p)
        BY DEF ProvenanceInv, PathsInv, Emitted
    <2>2. Path(records) /\ Linked(records)
        BY DEF ProvenanceInv, AuditInv, Passed, Linked
    <2> QED
        BY <2>1, <2>2, LeafDetermines
<1> QED
    BY <1>1, ProvenanceInvariance, PTL
=============================================================================
