--------------------------- MODULE TraceDagProofs ---------------------------
(***************************************************************************)
(* Proofs about TraceDag: for any chains, keys and records, any number of  *)
(* records in a path and whatever storage made of one of them, a lineage   *)
(* that verifies was made by the delegates in that order, its last record  *)
(* determines it, and what emit_dag makes for a chain verifies.            *)
(***************************************************************************)
EXTENDS TraceDag, WellFoundedInduction, TLAPS

USE Zenon

(* What a hop signed: a record of its own key, with no block or with one   *)
(* that names a record signed before.                                      *)
SignedForm(r, before) ==
    /\ r = TraceRecord(r.cnf, r.body, r.delegation)
    /\ r.cnf \in Key
    /\ \/ r.delegation = {}
       \/ \E alg \in {"sha256", "sha384"}, s \in before, c \in CredId \cup {None} :
              r.delegation = Block(alg, s, c)

SignedInv == \A r \in signed : SignedForm(r, signed)

(* What verify_trace_dag has made sure of at a position it passed. *)
Passed(recs, j, made) ==
    /\ recs[j] \in made
    /\ recs[j].signature = recs[j].cnf
    /\ j = 1 => recs[j].delegation = {}
    /\ j > 1 => \E c \in CredId : recs[j].delegation = Block(LINK_DIGEST, recs[j - 1], c)

(* A submitted path: a sequence of one record or more. *)
Path(recs) ==
    /\ Len(recs) \in Nat \ {0}
    /\ DOMAIN recs = 1..Len(recs)
    /\ recs = [j \in DOMAIN recs |-> recs[j]]

(* The state of the walk. *)
WalkInv ==
    /\ pc \in {"idle", "walk", "cross", "done"}
    /\ pc = "idle" => i = 1 /\ seen_hashes = {} /\ verdict = "none"
    /\ pc \in {"walk", "cross"} =>
          /\ chain \in Chain
          /\ Path(records)
          /\ \A j \in DOMAIN records :
                records[j] \in signed \/ records[j].signature # records[j].cnf
          /\ \A j \in 1..(i - 1) : Passed(records, j, signed)
          /\ seen_hashes = {RecordHash(LINK_DIGEST, records[j]) : j \in 1..(i - 1)}
    /\ pc = "walk" => i \in 1..Len(records)
    /\ pc = "cross" => i = Len(records) + 1

(* What a verified lineage is. *)
Lineage(v, made) ==
    /\ Path(v.records)
    /\ \A j \in DOMAIN v.records :
          /\ Passed(v.records, j, made)
          /\ v.records[j].cnf = v.chain[j].subject
          /\ j > 1 => v.records[j].delegation =
                          Block(LINK_DIGEST, v.records[j - 1], v.chain[j].credential_id)

LineageInv == \A v \in verified : Lineage(v, signed)

(* The inductive invariant. *)
TraceInv == SignedInv /\ WalkInv /\ LineageInv

-----------------------------------------------------------------------------
(* The walk.                                                               *)

(* A path keeps what it passed when more records are signed.               *)
LEMMA PassedKept ==
    ASSUME NEW S, NEW T, S \subseteq T
    PROVE  /\ \A recs, j : Passed(recs, j, S) => Passed(recs, j, T)
           /\ \A v : Lineage(v, S) => Lineage(v, T)
           /\ \A r : SignedForm(r, S) => SignedForm(r, T)
<1>1. \A recs, j : Passed(recs, j, S) => Passed(recs, j, T)
    BY DEF Passed
<1>2. \A v : Lineage(v, S) => Lineage(v, T)
    BY <1>1 DEF Lineage
<1>3. \A r : SignedForm(r, S) => SignedForm(r, T)
    BY DEF SignedForm
<1> QED
    BY <1>1, <1>2, <1>3

(* Nothing is verified before anything is emitted.                         *)
LEMMA InitInv == Init => TraceInv
<1> SUFFICES ASSUME Init
             PROVE  TraceInv
    OBVIOUS
<1>1. SignedInv /\ LineageInv
    BY DEF Init, SignedInv, LineageInv
<1>2. WalkInv
    BY DEF Init, WalkInv
<1> QED
    BY <1>1, <1>2 DEF TraceInv

(* EmitRoot and EmitHop sign records of their own keys.                    *)
LEMMA RootForm ==
    ASSUME NEW k \in Key, NEW body, NEW before
    PROVE  SignedForm(TraceRecord(k, body, {}), before)
<1> DEFINE r == TraceRecord(k, body, {})
<1>1. r.cnf = k /\ r.body = body /\ r.delegation = {}
    BY SMTT(30) DEF TraceRecord
<1> HIDE DEF r
<1>2. r = TraceRecord(r.cnf, r.body, r.delegation)
    BY <1>1 DEF r
<1> QED
    BY <1>1, <1>2 DEF SignedForm, r

LEMMA HopForm ==
    ASSUME NEW form \in ChildForm, NEW before, NEW parent \in before
    PROVE  SignedForm(TraceRecord(form.key, form.body,
                          Block(form.alg, parent, form.credential_id)), before)
<1> DEFINE b == Block(form.alg, parent, form.credential_id)
           r == TraceRecord(form.key, form.body, b)
<1>1. r.cnf = form.key /\ r.body = form.body /\ r.delegation = b
    BY SMTT(30) DEF TraceRecord
<1>2. /\ form.key \in Key
      /\ form.alg \in {"sha256", "sha384"}
      /\ form.credential_id \in CredId \cup {None}
    BY SMTT(30), ChildFormAssumption
<1> HIDE DEF r
<1>3. r = TraceRecord(r.cnf, r.body, r.delegation)
    BY <1>1 DEF r
<1> QED
    BY <1>1, <1>2, <1>3 DEF SignedForm, r

LEMMA EmitInv ==
    ASSUME TraceInv, NEW r, SignedForm(r, signed), pc = "idle",
           signed' = signed \cup {r},
           UNCHANGED <<pc, chain, records, i, seen_hashes, verdict, verified>>
    PROVE  TraceInv'
<1>1. signed \subseteq signed'
    OBVIOUS
<1>2. SignedInv'
    BY <1>1, PassedKept DEF TraceInv, SignedInv
<1>3. LineageInv'
    BY <1>1, PassedKept DEF TraceInv, LineageInv
<1>4. WalkInv'
    BY DEF TraceInv, WalkInv
<1> QED
    BY <1>2, <1>3, <1>4 DEF TraceInv

(* A submitted path is a sequence; an altered record no longer carries the *)
(* signature of the key it names.                                          *)
LEMMA PathShape ==
    ASSUME NEW path \in Paths
    PROVE  /\ Len(path) \in Nat
           /\ DOMAIN path = 1..Len(path)
           /\ path = [j \in DOMAIN path |-> path[j]]
           /\ \A j \in DOMAIN path : path[j] \in signed
           /\ path # << >> => Len(path) # 0
<1>1. PICK n \in 0..MaxPath : path \in [1..n -> signed]
    BY DEF Paths
<1>2. n \in Nat
    BY SMTT(30), BoundsAssumption, <1>1
<1>3. path \in Seq(signed) /\ Len(path) = n
    BY SMTT(30), <1>1, <1>2
<1> QED
    BY SMTT(30), <1>3

LEMMA AlteredUnsigned ==
    ASSUME SignedInv, NEW s \in signed, NEW r \in Altered(s)
    PROVE  r.signature # r.cnf
<1>1. /\ s.cnf \in Key
      /\ s = [cnf |-> s.cnf, body |-> s.body, delegation |-> s.delegation, signature |-> s.cnf]
    BY DEF SignedInv, SignedForm, TraceRecord
<1>2. None \notin Key
    BY NoneAssumption
<1>3. CASE \E k \in Key : r = [s EXCEPT !.cnf = k, !.signature = None]
    BY SMTT(30), <1>1, <1>2, <1>3
<1>4. CASE \E b \in Body : r = [s EXCEPT !.body = b, !.signature = None]
    BY SMTT(30), <1>1, <1>2, <1>4
<1>5. CASE \E d : r = [s EXCEPT !.delegation = d, !.signature = None]
    BY SMTT(30), <1>1, <1>2, <1>5
<1> QED
    BY <1>3, <1>4, <1>5 DEF Altered

(* What Load puts into records, in both of its uses.                       *)
Loaded(path, at, r) == IF at = 0 THEN path ELSE [path EXCEPT ![at] = r]

LEMMA LoadedPath ==
    ASSUME SignedInv, NEW path \in Paths,
           NEW at \in DOMAIN path \cup {0}, NEW r,
           at # 0 => r \in Altered(path[at])
    PROVE  \A recs : recs = Loaded(path, at, r) =>
               /\ path # << >> => Path(recs)
               /\ \A j \in DOMAIN recs :
                     recs[j] \in signed \/ recs[j].signature # recs[j].cnf
<1> TAKE recs
<1> HAVE recs = Loaded(path, at, r)
<1>a. recs = IF at = 0 THEN path ELSE [path EXCEPT ![at] = r]
    BY DEF Loaded
<1>1. CASE at = 0
    <2>1. recs = path
        BY <1>1, <1>a
    <2> QED
        BY SMTT(30), <2>1, PathShape DEF Path
<1>2. CASE at # 0
    <2>1. at \in DOMAIN path /\ recs = [path EXCEPT ![at] = r]
        BY <1>2, <1>a
    <2>2. r.signature # r.cnf
        BY <1>2, <2>1, PathShape, AlteredUnsigned
    <2>3. DOMAIN recs = DOMAIN path /\ Len(recs) = Len(path)
        BY SMTT(30), <2>1, PathShape
    <2>4. \A j \in DOMAIN recs : recs[j] = IF j = at THEN r ELSE path[j]
        BY SMTT(30), <2>1
    <2>5. recs = [j \in DOMAIN recs |-> recs[j]]
        BY <2>1
    <2>6. path # << >> => Path(recs)
        BY SMTT(30), <2>3, <2>5, PathShape DEF Path
    <2>7. \A j \in DOMAIN recs : recs[j] = r \/ recs[j] \in signed
        BY <2>3, <2>4, PathShape
    <2> QED
        BY <2>2, <2>6, <2>7
<1> QED
    BY <1>1, <1>2

LEMMA LoadInv ==
    ASSUME TraceInv, NEW ch \in Chain, NEW path \in Paths,
           NEW at \in DOMAIN path \cup {0}, NEW r,
           at # 0 => r \in Altered(path[at]),
           Load(ch, path, at, r)
    PROVE  TraceInv'
<1>1. /\ pc = "idle" /\ i = 1 /\ seen_hashes = {}
      /\ UNCHANGED <<signed, i, seen_hashes, verified>>
      /\ chain' = ch
      /\ records' = Loaded(path, at, r)
      /\ pc' = "done" \/ (pc' = "walk" /\ path # << >>)
    BY DEF Load, Loaded, TraceInv, WalkInv
<1>2. SignedInv' /\ LineageInv'
    BY <1>1 DEF TraceInv, SignedInv, LineageInv
<1>3. SignedInv
    BY DEF TraceInv
<1>4. /\ path # << >> => Path(records')
      /\ \A j \in DOMAIN records' :
            records'[j] \in signed \/ records'[j].signature # records'[j].cnf
    BY <1>1, <1>3, LoadedPath
<1>5. WalkInv'
    <2>1. CASE pc' = "done"
        BY <2>1 DEF WalkInv
    <2>2. CASE pc' = "walk"
        <3>1. i' = 1 /\ 1..(i' - 1) = {}
            BY SMTT(30), <1>1
        <3>2. i' \in 1..Len(records')
            BY SMTT(30), <1>1, <1>4, <2>2, <3>1 DEF Path
        <3>3. {RecordHash(LINK_DIGEST, records'[j]) : j \in 1..(i' - 1)} = {}
            BY <3>1
        <3>4. pc' # "idle" /\ pc' # "cross" /\ pc' # "done"
            BY <2>2
        <3> QED
            BY <1>1, <1>4, <2>2, <3>1, <3>2, <3>3, <3>4 DEF WalkInv
    <2> QED
        BY <1>1, <2>1, <2>2
<1> QED
    BY <1>2, <1>5 DEF TraceInv

LEMMA ReportInv ==
    ASSUME TraceInv, Report
    PROVE  TraceInv'
<1>1. SignedInv' /\ LineageInv'
    BY DEF Report, TraceInv, SignedInv, LineageInv
<1>2. WalkInv'
    BY DEF Report, WalkInv
<1> QED
    BY <1>1, <1>2 DEF TraceInv

(* What verify_trace_dag asks of a record it does not raise for.           *)
RecordOk(r, prev) ==
    /\ ~BlockInvalid(r.delegation)
    /\ r.cnf \in TrustedKeys
    /\ SignatureVerifies(r)
    /\ RecordHash(LINK_DIGEST, r) \notin seen_hashes
    /\ prev = {} => r.delegation = {}
    /\ prev # {} => /\ r.delegation # {}
                    /\ \A block \in r.delegation :
                          /\ block.parent_record_hash.alg = LINK_DIGEST
                          /\ block.parent_record_hash \in prev

LEMMA RecordErrorOk ==
    ASSUME NEW r, NEW prev
    PROVE  RecordError(r, prev) = "ok" <=> RecordOk(r, prev)
<1> DEFINE A == BlockInvalid(r.delegation)
           B == r.cnf \notin TrustedKeys
           C == ~SignatureVerifies(r)
           D == RecordHash(LINK_DIGEST, r) \in seen_hashes
           E == \E block \in r.delegation : block.parent_record_hash.alg # LINK_DIGEST
           F == \E block \in r.delegation : block.parent_record_hash \notin prev
           e == RecordError(r, prev)
<1>1. e = IF A THEN "TraceRecordInvalid"
          ELSE IF B THEN "TraceRecordInvalid"
          ELSE IF C THEN "TraceRecordInvalid"
          ELSE IF D THEN "ProvenanceLinkBroken"
          ELSE IF prev = {}
               THEN IF r.delegation # {} THEN "ProvenanceLinkBroken" ELSE "ok"
          ELSE IF r.delegation = {} THEN "ProvenanceLinkBroken"
          ELSE IF E THEN "TraceDigestUnsupported"
          ELSE IF F THEN "ProvenanceLinkBroken"
          ELSE "ok"
    BY DEF RecordError
<1>2. RecordOk(r, prev) <=>
          /\ ~A /\ ~B /\ ~C /\ ~D
          /\ prev = {} => r.delegation = {}
          /\ prev # {} => r.delegation # {} /\ ~E /\ ~F
    BY DEF RecordOk
<1> HIDE DEF A, B, C, D, E, F, e
<1>3. e = "ok" <=> /\ ~A /\ ~B /\ ~C /\ ~D
                   /\ prev = {} => r.delegation = {}
                   /\ prev # {} => r.delegation # {} /\ ~E /\ ~F
    BY SMTT(30), <1>1
<1> QED
    BY <1>2, <1>3 DEF e

(* The position verify_trace_dag passes: a signed record whose block names *)
(* the record before it under the link digest.                             *)
LEMMA PassesRecord ==
    ASSUME SignedInv, NEW recs, NEW n \in Nat, n > 0, NEW prev,
           recs[n] \in signed \/ recs[n].signature # recs[n].cnf,
           prev = IF n = 1 THEN {} ELSE {RecordHash(LINK_DIGEST, recs[n - 1])},
           RecordOk(recs[n], prev)
    PROVE  Passed(recs, n, signed)
<1> DEFINE r == recs[n]
<1>1. r \in signed /\ r.signature = r.cnf
    BY DEF RecordOk, SignatureVerifies
<1>2. n = 1 => r.delegation = {}
    BY DEF RecordOk
<1>3. ASSUME n > 1
      PROVE  \E c \in CredId : r.delegation = Block(LINK_DIGEST, recs[n - 1], c)
    <2>1. n # 1
        BY SMTT(30), <1>3
    <2>2. prev = {RecordHash(LINK_DIGEST, recs[n - 1])} /\ prev # {}
        BY <2>1
    <2>3. /\ r.delegation # {}
          /\ \A block \in r.delegation :
                block.parent_record_hash = RecordHash(LINK_DIGEST, recs[n - 1])
          /\ \A block \in r.delegation : block.credential_id # None
        BY <2>2 DEF RecordOk, BlockInvalid
    <2>4. PICK alg \in {"sha256", "sha384"}, s \in signed, c \in CredId \cup {None} :
              r.delegation = Block(alg, s, c)
        BY <1>1, <2>3 DEF SignedInv, SignedForm
    <2> DEFINE b == [parent_record_hash |-> RecordHash(alg, s), credential_id |-> c]
    <2>5. r.delegation = {b}
        BY <2>4 DEF Block
    <2>6. b.parent_record_hash = RecordHash(alg, s) /\ b.credential_id = c
        OBVIOUS
    <2>7. RecordHash(alg, s) = RecordHash(LINK_DIGEST, recs[n - 1]) /\ c # None
        BY <2>3, <2>5, <2>6
    <2>8. c \in CredId
        BY <2>7
    <2> QED
        BY <2>5, <2>7, <2>8 DEF Block
<1> QED
    BY <1>1, <1>2, <1>3 DEF Passed

LEMMA VerifyRecordInv ==
    ASSUME TraceInv, VerifyRecord
    PROVE  TraceInv'
<1> DEFINE r == records[i]
           prev == IF i = 1 THEN {} ELSE {RecordHash(LINK_DIGEST, records[i - 1])}
<1>1. pc = "walk" /\ UNCHANGED <<signed, chain, records, verified>>
    BY DEF VerifyRecord
<1>2. SignedInv' /\ LineageInv'
    BY <1>1 DEF TraceInv, SignedInv, LineageInv
<1>3. /\ chain \in Chain
      /\ Path(records)
      /\ \A j \in DOMAIN records :
            records[j] \in signed \/ records[j].signature # records[j].cnf
      /\ \A j \in 1..(i - 1) : Passed(records, j, signed)
      /\ seen_hashes = {RecordHash(LINK_DIGEST, records[j]) : j \in 1..(i - 1)}
      /\ i \in 1..Len(records)
      /\ SignedInv
    BY <1>1 DEF TraceInv, WalkInv
<1>4. i \in Nat /\ i > 0 /\ i \in DOMAIN records /\ Len(records) \in Nat
    BY SMTT(30), <1>3 DEF Path
<1>5. CASE pc' = "done"
    <2>1. WalkInv'
        BY <1>5 DEF WalkInv
    <2> QED
        BY <1>2, <2>1 DEF TraceInv
<1>6. CASE pc' # "done"
    <2>1. /\ RecordError(r, prev) = "ok"
          /\ seen_hashes' = seen_hashes \cup {RecordHash(LINK_DIGEST, r)}
          /\ i' = i + 1
          /\ pc' = IF i = Len(records) THEN "cross" ELSE "walk"
        BY <1>6 DEF VerifyRecord
    <2>2. Passed(records, i, signed)
        BY <1>3, <1>4, <2>1, RecordErrorOk, PassesRecord
    <2>3. 1..(i' - 1) = 1..(i - 1) \cup {i}
        BY SMTT(30), <1>4, <2>1
    <2>4. /\ \A j \in 1..(i' - 1) : Passed(records, j, signed)
          /\ seen_hashes' = {RecordHash(LINK_DIGEST, records[j]) : j \in 1..(i' - 1)}
        BY <1>3, <2>1, <2>2, <2>3
    <2>5. /\ pc' = "walk" => i' \in 1..Len(records)
          /\ pc' = "cross" => i' = Len(records) + 1
          /\ pc' \in {"walk", "cross"} /\ pc' # "idle"
        BY SMTT(30), <1>3, <1>4, <2>1
    <2>6. WalkInv'
        BY <1>1, <1>3, <2>4, <2>5 DEF WalkInv
    <2> QED
        BY <1>2, <2>6 DEF TraceInv
<1> QED
    BY <1>5, <1>6

LEMMA BlockFields ==
    ASSUME NEW alg, NEW parent, NEW c
    PROVE  /\ Block(alg, parent, c) # {}
           /\ \A block \in Block(alg, parent, c) :
                 block.parent_record_hash = RecordHash(alg, parent) /\ block.credential_id = c
<1> DEFINE b == [parent_record_hash |-> RecordHash(alg, parent), credential_id |-> c]
<1>1. b.parent_record_hash = RecordHash(alg, parent) /\ b.credential_id = c
    OBVIOUS
<1>2. Block(alg, parent, c) = {b}
    BY DEF Block
<1> HIDE DEF b
<1> QED
    BY <1>1, <1>2

(* What the cross-check lets through is a lineage the delegates made.      *)
LEMMA LinedUp ==
    ASSUME NEW recs, NEW ch, NEW v, v = [chain |-> ch, records |-> recs],
           Path(recs), LinesUp(recs, ch),
           \A j \in DOMAIN recs : Passed(recs, j, signed)
    PROVE  Lineage(v, signed)
<1>1. v.records = recs /\ v.chain = ch
    OBVIOUS
<1>2. ASSUME NEW j \in DOMAIN recs, j > 1
      PROVE  recs[j].delegation = Block(LINK_DIGEST, recs[j - 1], ch[j].credential_id)
    <2>1. j \in 2..Len(recs)
        BY SMTT(30), <1>2 DEF Path
    <2>2. PICK c \in CredId : recs[j].delegation = Block(LINK_DIGEST, recs[j - 1], c)
        BY <1>2 DEF Passed
    <2>3. PICK block \in recs[j].delegation : block.credential_id = ch[j].credential_id
        BY <2>1 DEF LinesUp
    <2>4. \A b \in Block(LINK_DIGEST, recs[j - 1], c) : b.credential_id = c
        BY SMTT(30), BlockFields
    <2>5. c = ch[j].credential_id
        BY <2>2, <2>3, <2>4
    <2> QED
        BY <2>2, <2>5
<1> QED
    BY <1>1, <1>2 DEF Lineage, LinesUp

LEMMA CrossCheckInv ==
    ASSUME TraceInv, CrossCheck
    PROVE  TraceInv'
<1>1. /\ pc = "cross" /\ pc' = "done"
      /\ UNCHANGED <<signed, chain, records, i, seen_hashes>>
      /\ \/ verified' = verified
         \/ /\ LinesUp(records, chain)
            /\ verified' = verified \cup {[chain |-> chain, records |-> records]}
    BY DEF CrossCheck
<1>2. SignedInv' /\ WalkInv'
    BY <1>1 DEF TraceInv, SignedInv, WalkInv
<1>3. Path(records) /\ i = Len(records) + 1 /\ \A j \in 1..(i - 1) : Passed(records, j, signed)
    BY <1>1 DEF TraceInv, WalkInv
<1>4. DOMAIN records = 1..(i - 1)
    BY SMTT(30), <1>3 DEF Path
<1>5. \A v \in verified : Lineage(v, signed)
    BY DEF TraceInv, LineageInv
<1>6. LinesUp(records, chain) => Lineage([chain |-> chain, records |-> records], signed)
    BY <1>3, <1>4, LinedUp
<1>7. LineageInv'
    BY <1>1, <1>5, <1>6 DEF LineageInv
<1> QED
    BY <1>2, <1>7 DEF TraceInv

LEMMA NextInv == TraceInv /\ [Next]_vars => TraceInv'
<1> SUFFICES ASSUME TraceInv, [Next]_vars
             PROVE  TraceInv'
    OBVIOUS
<1>1. ASSUME NEW k \in Key, NEW body \in Body, EmitRoot(k, body)
      PROVE  TraceInv'
    BY <1>1, RootForm, EmitInv DEF EmitRoot
<1>2. ASSUME NEW form \in ChildForm, NEW parent \in signed, EmitHop(form, parent)
      PROVE  TraceInv'
    BY <1>2, HopForm, EmitInv DEF EmitHop
<1>3. ASSUME NEW ch \in Chain, NEW path \in Paths,
             \/ Load(ch, path, 0, None)
             \/ \E at \in DOMAIN path : \E r \in Altered(path[at]) : Load(ch, path, at, r)
      PROVE  TraceInv'
    <2>1. CASE Load(ch, path, 0, None)
        BY <2>1, LoadInv
    <2>2. ASSUME NEW at \in DOMAIN path, NEW r \in Altered(path[at]), Load(ch, path, at, r)
          PROVE  TraceInv'
        BY <2>2, LoadInv
    <2> QED
        BY <1>3, <2>1, <2>2
<1>4. CASE VerifyRecord
    BY <1>4, VerifyRecordInv
<1>5. CASE CrossCheck
    BY <1>5, CrossCheckInv
<1>6. CASE Report
    BY <1>6, ReportInv
<1>7. CASE UNCHANGED vars
    BY <1>7 DEF vars, TraceInv, SignedInv, WalkInv, LineageInv
<1> QED
    BY <1>1, <1>2, <1>3, <1>4, <1>5, <1>6, <1>7 DEF Next

(* The inductive invariant holds throughout: what was signed has the form  *)
(* emit_dag gives it, what the walk of verify_trace_dag has passed is a    *)
(* chain of signed records, and so is every lineage reported as verified.  *)
THEOREM TraceInvariance == Spec => []TraceInv
<1>1. Init => TraceInv
    BY InitInv
<1>2. TraceInv /\ [Next]_vars => TraceInv'
    BY NextInv
<1> QED
    BY <1>1, <1>2, PTL DEF Spec

(* Every lineage that verify-lineage reports as verified was made by the   *)
(* delegates of its chain, in that order and under those credentials, for  *)
(* paths of any length and whatever storage made of a record.              *)
THEOREM EveryVerifiedLineageWasMade == Spec => []VerifiedLineageWasMade
<1>1. TraceInv => VerifiedLineageWasMade
    BY DEF TraceInv, LineageInv, Lineage, Passed, VerifiedLineageWasMade
<1> QED
    BY <1>1, TraceInvariance, PTL

-----------------------------------------------------------------------------
(* The last record and the path.                                           *)

LEMMA LeastNatural ==
    ASSUME NEW T \in SUBSET Nat, T # {}
    PROVE  \E n \in T : \A m \in T : n <= m
<1> DEFINE R == OpToRel(<, Nat)
<1>1. IsWellFoundedOn(R, Nat)
    BY NatLessThanWellFounded
<1>2. \A y, x \in Nat : y < x => <<y, x>> \in R
    BY DEF OpToRel
<1> HIDE DEF R
<1>3. PICK x \in T : \A y \in T : ~(<<y, x>> \in R)
    BY <1>1, WFMin
<1>4. \A y \in T : ~(y < x)
    BY <1>2, <1>3
<1> QED
    BY SMTT(30), <1>4

(* A block names one parent.                                               *)
LEMMA BlockParent ==
    ASSUME NEW p, NEW q, NEW c, NEW d,
           Block(LINK_DIGEST, p, c) = Block(LINK_DIGEST, q, d)
    PROVE  p = q
<1>1. RecordHash(LINK_DIGEST, p) = RecordHash(LINK_DIGEST, q)
    BY SMTT(30), BlockFields
<1>2. \A x : RecordHash(LINK_DIGEST, x).of = x
    BY DEF RecordHash
<1>3. RecordHash(LINK_DIGEST, p).of = RecordHash(LINK_DIGEST, q).of
    BY <1>1
<1> QED
    BY SMTT(30), <1>2, <1>3

(* A path whose links lead back to a record without a block.               *)
Rooted(p) ==
    /\ Path(p)
    /\ p[1].delegation = {}
    /\ \A j \in 2..Len(p) : \E c : p[j].delegation = Block(LINK_DIGEST, p[j - 1], c)

(* Two such paths with the same last record agree as far as both go.       *)
LEMMA SameSuffix ==
    ASSUME NEW p, NEW q, Rooted(p), Rooted(q), p[Len(p)] = q[Len(q)],
           NEW m \in Nat, m < Len(p), m < Len(q)
    PROVE  p[Len(p) - m] = q[Len(q) - m]
<1> DEFINE T == {k \in Nat : k < Len(p) /\ k < Len(q) /\ p[Len(p) - k] # q[Len(q) - k]}
<1>1. Len(p) \in Nat \ {0} /\ Len(q) \in Nat \ {0}
    BY DEF Rooted, Path
<1>2. ASSUME T # {}
      PROVE  FALSE
    <2>1. PICK n \in T : \A k \in T : n <= k
        BY <1>2, LeastNatural
    <2>2. n \in Nat /\ n < Len(p) /\ n < Len(q) /\ p[Len(p) - n] # q[Len(q) - n]
        BY <2>1
    <2>3. n # 0
        BY SMTT(30), <1>1, <2>2
    <2>4. /\ n - 1 \in Nat /\ n - 1 < Len(p) /\ n - 1 < Len(q) /\ ~(n <= n - 1)
          /\ Len(p) - (n - 1) \in 2..Len(p) /\ (Len(p) - (n - 1)) - 1 = Len(p) - n
          /\ Len(q) - (n - 1) \in 2..Len(q) /\ (Len(q) - (n - 1)) - 1 = Len(q) - n
        BY SMTT(30), <1>1, <2>2, <2>3
    <2>5. p[Len(p) - (n - 1)] = q[Len(q) - (n - 1)]
        BY <2>1, <2>4
    <2>6. PICK c : p[Len(p) - (n - 1)].delegation = Block(LINK_DIGEST, p[Len(p) - n], c)
        BY <2>4 DEF Rooted
    <2>7. PICK d : q[Len(q) - (n - 1)].delegation = Block(LINK_DIGEST, q[Len(q) - n], d)
        BY <2>4 DEF Rooted
    <2>8. Block(LINK_DIGEST, p[Len(p) - n], c) = Block(LINK_DIGEST, q[Len(q) - n], d)
        BY <2>5, <2>6, <2>7
    <2> QED
        BY <2>2, <2>8, BlockParent
<1> QED
    BY <1>2

LEMMA NotShorter ==
    ASSUME NEW p, NEW q, Rooted(p), Rooted(q), p[Len(p)] = q[Len(q)]
    PROVE  ~(Len(p) < Len(q))
<1> SUFFICES ASSUME Len(p) < Len(q)
             PROVE  FALSE
    OBVIOUS
<1> DEFINE m == Len(p) - 1
<1>1. /\ m \in Nat /\ m < Len(p) /\ m < Len(q)
      /\ Len(p) - m = 1 /\ Len(q) - m \in 2..Len(q)
    BY SMTT(30) DEF Rooted, Path
<1> HIDE DEF m
<1>2. p[1] = q[Len(q) - m]
    BY <1>1, SameSuffix
<1>3. PICK c : q[Len(q) - m].delegation = Block(LINK_DIGEST, q[(Len(q) - m) - 1], c)
    BY <1>1 DEF Rooted
<1>4. Block(LINK_DIGEST, q[(Len(q) - m) - 1], c) # {}
    BY DEF Block
<1>5. p[1].delegation = {}
    BY DEF Rooted
<1> QED
    BY <1>2, <1>3, <1>4, <1>5

LEMMA LeafDetermines ==
    ASSUME NEW p, NEW q, Rooted(p), Rooted(q), p[Len(p)] = q[Len(q)]
    PROVE  p = q
<1>1. ~(Len(p) < Len(q)) /\ ~(Len(q) < Len(p))
    BY NotShorter
<1>a. /\ Len(p) \in Nat /\ DOMAIN p = 1..Len(p)
      /\ Len(q) \in Nat /\ DOMAIN q = 1..Len(q)
    BY DEF Rooted, Path
<1>b. \A m, n \in Nat : ~(m < n) /\ ~(n < m) => m = n
    BY SMTT(30)
<1>2. Len(p) = Len(q) /\ Len(p) \in Nat /\ DOMAIN p = 1..Len(p) /\ DOMAIN q = 1..Len(p)
    BY <1>1, <1>a, <1>b
<1>3. ASSUME NEW j \in 1..Len(p)
      PROVE  p[j] = q[j]
    <2> DEFINE m == Len(p) - j
    <2>1. m \in Nat /\ m < Len(p) /\ m < Len(q) /\ Len(p) - m = j /\ Len(q) - m = j
        BY SMTT(30), <1>2, <1>3
    <2> HIDE DEF m
    <2>2. p[Len(p) - m] = q[Len(q) - m]
        BY <2>1, SameSuffix
    <2> QED
        BY <2>1, <2>2
<1>4. p = [j \in 1..Len(p) |-> p[j]] /\ q = [j \in 1..Len(p) |-> q[j]]
    BY <1>2 DEF Rooted, Path

<1> QED
    BY <1>3, <1>4

(* Two verified paths that end in the same record are the same path:       *)
(* walking back from it along the links, they never part, and neither goes *)
(* on beyond the other's root.                                             *)
THEOREM EveryLeafCommitsToItsPath == Spec => []LeafCommitsToPath
<1>1. ASSUME NEW v, Lineage(v, signed)
      PROVE  Rooted(v.records)
    <2>1. Path(v.records) /\ \A j \in DOMAIN v.records : Passed(v.records, j, signed)
        BY <1>1 DEF Lineage
    <2>2. /\ 1 \in DOMAIN v.records
          /\ \A j \in 2..Len(v.records) : j \in DOMAIN v.records /\ j > 1
        BY SMTT(30), <2>1 DEF Path
    <2> QED
        BY <2>1, <2>2 DEF Rooted, Passed
<1>2. TraceInv => LeafCommitsToPath
    BY <1>1, LeafDetermines DEF TraceInv, LineageInv, LeafCommitsToPath
<1> QED
    BY <1>2, TraceInvariance, PTL

-----------------------------------------------------------------------------
(* What emit_dag makes.                                                    *)

(* Records linked back to a root are all different: the first of two equal *)
(* ones would have an equal pair before it.                                *)
LEMMA NoRepeat ==
    ASSUME NEW p, Rooted(p), NEW j \in DOMAIN p, NEW k \in DOMAIN p, j < k
    PROVE  p[j] # p[k]
<1> DEFINE T == {a \in Nat : a \in DOMAIN p /\ \E b \in DOMAIN p : a < b /\ p[a] = p[b]}
<1>1. Len(p) \in Nat /\ DOMAIN p = 1..Len(p)
    BY DEF Rooted, Path
<1>2. ASSUME T # {}
      PROVE  FALSE
    <2>1. PICK n \in T : \A a \in T : n <= a
        BY <1>2, LeastNatural
    <2>2. PICK b \in DOMAIN p : n < b /\ p[n] = p[b]
        BY <2>1
    <2>3. n \in Nat /\ n \in DOMAIN p
        BY <2>1
    <2>4. b \in 2..Len(p)
        BY SMTT(30), <1>1, <2>2, <2>3
    <2>5. PICK d : p[b].delegation = Block(LINK_DIGEST, p[b - 1], d)
        BY <2>4 DEF Rooted
    <2>6. CASE n = 1
        <3>1. p[b].delegation = {}
            BY <2>2, <2>6 DEF Rooted
        <3>2. Block(LINK_DIGEST, p[b - 1], d) # {}
            BY DEF Block
        <3> QED
            BY <2>5, <3>1, <3>2
    <2>7. CASE n # 1
        <3>1. /\ n \in 2..Len(p)
              /\ n - 1 \in Nat /\ n - 1 \in 1..Len(p) /\ b - 1 \in 1..Len(p)
              /\ n - 1 < b - 1 /\ ~(n <= n - 1)
            BY SMTT(30), <1>1, <2>2, <2>3, <2>4, <2>7
        <3>2. PICK c : p[n].delegation = Block(LINK_DIGEST, p[n - 1], c)
            BY <3>1 DEF Rooted
        <3>3. Block(LINK_DIGEST, p[n - 1], c) = Block(LINK_DIGEST, p[b - 1], d)
            BY <2>2, <2>5, <3>2
        <3>4. p[n - 1] = p[b - 1]
            BY <3>3, BlockParent
        <3>5. n - 1 \in T
            BY <1>1, <3>1, <3>4
        <3> QED
            BY <2>1, <3>1, <3>5
    <2> QED
        BY <2>6, <2>7
<1>3. j \in Nat
    BY SMTT(30), <1>1
<1> QED
    BY <1>2, <1>3

(* The fields of a record that emit_dag made for a credential.             *)
MadeAt(recs, ch, j) ==
    /\ recs[j].cnf = ch[j].subject
    /\ recs[j].signature = ch[j].subject
    /\ j = 1 => recs[j].delegation = {}
    /\ j # 1 => recs[j].delegation = Block(LINK_DIGEST, recs[j - 1], ch[j].credential_id)

LEMMA MadeRecord ==
    ASSUME NEW recs, NEW ch, Made(recs, ch), NEW j \in DOMAIN recs
    PROVE  MadeAt(recs, ch, j)
<1> DEFINE d == IF j = 1 THEN {} ELSE Block(LINK_DIGEST, recs[j - 1], ch[j].credential_id)
<1>1. recs[j] = TraceRecord(ch[j].subject, recs[j].body, d)
    BY DEF Made
<1>2. /\ j = 1 => d = {}
      /\ j # 1 => d = Block(LINK_DIGEST, recs[j - 1], ch[j].credential_id)
    OBVIOUS
<1> HIDE DEF d
<1>3. \A x, k, b : x = TraceRecord(k, b, d) =>
          x.cnf = k /\ x.signature = k /\ x.delegation = d
    BY SMTT(30) DEF TraceRecord
<1>4. recs[j].cnf = ch[j].subject /\ recs[j].signature = ch[j].subject /\ recs[j].delegation = d
    BY <1>1, <1>3
<1> QED
    BY <1>2, <1>4 DEF MadeAt

LEMMA MadeRooted ==
    ASSUME NEW recs, NEW ch, Made(recs, ch), Path(recs)
    PROVE  Rooted(recs)
<1>1. 1 \in DOMAIN recs /\ \A j \in 2..Len(recs) : j \in DOMAIN recs /\ j # 1
    BY SMTT(30) DEF Path
<1> QED
    BY <1>1, MadeRecord DEF Rooted, MadeAt

LEMMA MadeLinesUp ==
    ASSUME NEW recs, NEW ch, Made(recs, ch), Path(recs)
    PROVE  LinesUp(recs, ch)
<1>1. \A j \in 2..Len(recs) : j \in DOMAIN recs /\ j # 1
    BY SMTT(30) DEF Path
<1>a. \A j \in DOMAIN recs : MadeAt(recs, ch, j)
    BY MadeRecord
<1>2. \A j \in DOMAIN recs : recs[j].cnf = ch[j].subject
    BY <1>a DEF MadeAt
<1>3. ASSUME NEW j \in 2..Len(recs)
      PROVE  \E block \in recs[j].delegation : block.credential_id = ch[j].credential_id
    <2>1. recs[j].delegation = Block(LINK_DIGEST, recs[j - 1], ch[j].credential_id)
        BY <1>1, MadeRecord DEF MadeAt
    <2> QED
        BY SMTT(30), <2>1, BlockFields
<1> QED
    BY <1>2, <1>3 DEF LinesUp, Made

(* verify_trace_dag raises for none of them.                               *)
LEMMA MadePasses ==
    ASSUME TraceInv, pc = "walk", Made(records, chain)
    PROVE  RecordOk(records[i], IF i = 1 THEN {}
                                ELSE {RecordHash(LINK_DIGEST, records[i - 1])})
<1> DEFINE r == records[i]
           prev == IF i = 1 THEN {} ELSE {RecordHash(LINK_DIGEST, records[i - 1])}
<1>1. /\ chain \in Chain /\ Path(records) /\ i \in 1..Len(records)
      /\ seen_hashes = {RecordHash(LINK_DIGEST, records[j]) : j \in 1..(i - 1)}
    BY DEF TraceInv, WalkInv
<1>2. i \in DOMAIN records /\ \A j \in 1..(i - 1) : j \in DOMAIN records /\ j < i
    BY SMTT(30), <1>1 DEF Path
<1>3. i \in DOMAIN chain /\ chain[i] \in DelegationCredential
    <2>1. chain \in Seq(DelegationCredential) /\ Len(records) = Len(chain)
        BY <1>1, ChainsAssumption DEF Made
    <2> QED
        BY SMTT(30), <1>1, <2>1
<1>4. chain[i].credential_id # None
    <2>1. chain[i].credential_id \in CredId
        BY SMTT(30), <1>3 DEF DelegationCredential
    <2> QED
        BY <2>1, NoneAssumption
<1>a. MadeAt(records, chain, i)
    BY <1>2, MadeRecord
<1>5. /\ r.cnf = chain[i].subject /\ r.signature = chain[i].subject
      /\ i = 1 => r.delegation = {}
      /\ i # 1 => r.delegation = Block(LINK_DIGEST, records[i - 1], chain[i].credential_id)
    BY <1>a DEF MadeAt
<1>6. r.cnf \in TrustedKeys /\ SignatureVerifies(r)
    BY <1>3, <1>5 DEF TrustedKeys, SignatureVerifies
<1>7. RecordHash(LINK_DIGEST, r) \notin seen_hashes
    <2>1. ASSUME NEW j \in 1..(i - 1)
          PROVE  records[j] # r
        BY <1>1, <1>2, MadeRooted, NoRepeat
    <2>2. \A x, y : RecordHash(LINK_DIGEST, x) = RecordHash(LINK_DIGEST, y) => x = y
        BY SMTT(30) DEF RecordHash
    <2> QED
        BY <1>1, <2>1, <2>2
<1>8. CASE i = 1
    <2>1. r.delegation = {} /\ prev = {}
        BY <1>5, <1>8
    <2> QED
        BY <1>6, <1>7, <2>1 DEF RecordOk, BlockInvalid
<1>9. CASE i # 1
    <2>1. /\ r.delegation = Block(LINK_DIGEST, records[i - 1], chain[i].credential_id)
          /\ prev = {RecordHash(LINK_DIGEST, records[i - 1])}
        BY <1>5, <1>9
    <2>2. r.delegation # {} /\ prev # {}
        BY <2>1 DEF Block
    <2>3. ASSUME NEW block \in r.delegation
          PROVE  /\ block.parent_record_hash \in prev
                 /\ block.parent_record_hash.alg = LINK_DIGEST
                 /\ block.credential_id # None
        <3>1. /\ block.parent_record_hash = RecordHash(LINK_DIGEST, records[i - 1])
              /\ block.credential_id = chain[i].credential_id
            BY SMTT(30), <2>1, <2>3, BlockFields
        <3>2. RecordHash(LINK_DIGEST, records[i - 1]).alg = LINK_DIGEST
            BY DEF RecordHash
        <3> QED
            BY <1>4, <2>1, <3>1, <3>2
    <2> QED
        BY <1>6, <1>7, <2>2, <2>3 DEF RecordOk, BlockInvalid
<1> QED
    BY <1>8, <1>9

(* The path that emit_dag made for a chain verifies: no turn of the walk   *)
(* raises for it and the cross-check agrees, for chains of any length.     *)
THEOREM EveryEmittedDagVerifies == Spec => []EmittedDagVerifies
<1> DEFINE OfChain(recs, ch) ==
               Made(recs, ch) /\ VerifyChain(ch, None, 0, None) \in Accepted
<1>1. Init => EmittedDagVerifies
    BY DEF Init, EmittedDagVerifies
<1>2. TraceInv /\ EmittedDagVerifies /\ [Next]_vars => EmittedDagVerifies'
    <2> SUFFICES ASSUME TraceInv, EmittedDagVerifies, [Next]_vars,
                        pc' = "done", OfChain(records', chain')
                 PROVE  verdict' = "verified"
        BY DEF EmittedDagVerifies
    <2>1. ASSUME NEW k, NEW body, EmitRoot(k, body)
          PROVE  FALSE
        BY <2>1 DEF EmitRoot
    <2>2. ASSUME NEW form, NEW parent, EmitHop(form, parent)
          PROVE  FALSE
        BY <2>2 DEF EmitHop
    <2>3. ASSUME NEW ch, NEW path, NEW at \in DOMAIN path \cup {0}, NEW r, Load(ch, path, at, r)
          PROVE  FALSE
        <3>1. path = << >>
            BY <2>3 DEF Load
        <3>2. at = 0
            BY SMTT(30), <3>1
        <3>3. records' = << >>
            BY <2>3, <3>1, <3>2 DEF Load
        <3> QED
            BY <3>3 DEF Made
    <2>4. CASE VerifyRecord
        <3>1. pc = "walk" /\ Made(records, chain)
            BY <2>4 DEF VerifyRecord
        <3>2. RecordError(records[i], IF i = 1 THEN {}
                              ELSE {RecordHash(LINK_DIGEST, records[i - 1])}) = "ok"
            BY <3>1, MadePasses, RecordErrorOk
        <3>3. pc' = IF i = Len(records) THEN "cross" ELSE "walk"
            BY <2>4, <3>2 DEF VerifyRecord
        <3> QED
            BY <3>3
    <2>5. CASE CrossCheck
        <3>1. pc = "cross" /\ Made(records, chain)
            BY <2>5 DEF CrossCheck
        <3>2. Path(records)
            BY <3>1 DEF TraceInv, WalkInv
        <3>3. LinesUp(records, chain)
            BY <3>1, <3>2, MadeLinesUp
        <3> QED
            BY <2>5, <3>3 DEF CrossCheck
    <2>6. CASE Report
        BY <2>6 DEF Report
    <2>7. CASE UNCHANGED vars
        BY <2>7 DEF vars, EmittedDagVerifies
    <2> QED
        BY <2>1, <2>2, <2>3, <2>4, <2>5, <2>6, <2>7 DEF Next
<1> QED
    BY <1>1, <1>2, TraceInvariance, PTL DEF Spec
=============================================================================
