----------------------------- MODULE MCTraceDag -----------------------------
(***************************************************************************)
(* Instances of TraceDag for TLC: the chain root -> a -> b, the chain of   *)
(* its first hop, and a chain whose second hop escalates.                  *)
(***************************************************************************)
EXTENDS TraceDag

CONSTANTS kr, ka, kb, kx, c1, c2, read, write, b1, b2

MCKey == {kr, ka, kb, kx}
MCCredId == {c1, c2}

Grant(id, issuer, subject, scope, depth, parent) ==
    [credential_id |-> id, issuer |-> issuer, subject |-> subject,
     scope |-> scope, depth |-> depth, parent_id |-> parent,
     not_before |-> None, not_after |-> None, signature |-> issuer]

First == Grant(c1, kr, ka, {read}, 0, None)

MCChain ==
    {<<First>>,
     <<First, Grant(c2, ka, kb, {read}, 1, c1)>>,
     <<First, Grant(c2, ka, kb, {read, write}, 1, c1)>>}

Form(k, c, alg) == [key |-> k, body |-> b1, credential_id |-> c, alg |-> alg]

(* The delegates emit as they should, under each other's credential, with  *)
(* another digest and with the credential left out; a stranger emits too.  *)
MCChildForm ==
    {Form(kb, c2, "sha256"), Form(kb, c1, "sha256"), Form(ka, c2, "sha256"),
     Form(kx, c2, "sha256"), Form(kb, c2, "sha384"), Form(kb, None, "sha256")}
=============================================================================
