---------------------------- MODULE MCProvenance ----------------------------
(***************************************************************************)
(* Instances of Provenance for TLC: a chain of two hops, root -> a -> b.   *)
(***************************************************************************)
EXTENDS Provenance, TLC

CONSTANTS kr, ka, kb, c1, c2, read

MCKey == {kr, ka, kb}
MCCredId == {c1, c2}

Grant(id, issuer, subject, depth, parent) ==
    [credential_id |-> id, issuer |-> issuer, subject |-> subject,
     scope |-> {read}, depth |-> depth, parent_id |-> parent,
     not_before |-> None, not_after |-> None, signature |-> issuer]

MCChain == <<Grant(c1, kr, ka, 0, None), Grant(c2, ka, kb, 1, c1)>>

IdSymmetry == Permutations(RecordId)
=============================================================================
