--------------------------- MODULE MCChainVerify ----------------------------
(***************************************************************************)
(* Instances of ChainVerify for TLC.  The chains come from one well-formed *)
(* delegation root -> a -> b -> b, whose windows open and close inside the *)
(* run, and from every single alteration of one of its hops.               *)
(***************************************************************************)
EXTENDS ChainVerify, TLC

CONSTANTS kr, ka, kb, c1, c2, c3, c4, read, write

MCKey == {kr, ka, kb}
MCCap == {read, write}
MCCredId == {c1, c2, c3, c4}
MCTrustedRoots == {kr}

Grant(id, issuer, subject, scope, depth, parent, nb, na) ==
    Sign([credential_id |-> id, issuer |-> issuer, subject |-> subject,
          scope |-> scope, depth |-> depth, parent_id |-> parent,
          not_before |-> nb, not_after |-> na, signature |-> None], issuer)

FullChain ==
    <<Grant(c1, kr, ka, {read, write}, 0, None, None, 2),
      Grant(c2, ka, kb, {read}, 1, c1, 1, None),
      Grant(c3, kb, kb, {read}, 2, c2, None, None)>>

(* Every way to change one field of a credential, re-signed by the issuer  *)
(* it names, and the change left unsigned.                                 *)
Rewrites(c) ==
    {[c EXCEPT !.credential_id = id] : id \in CredId}
    \cup {[c EXCEPT !.issuer = k] : k \in Key}
    \cup {[c EXCEPT !.subject = k] : k \in Key}
    \cup {[c EXCEPT !.scope = sc] : sc \in SUBSET Cap}
    \cup {[c EXCEPT !.depth = d] : d \in 0..(MaxDepth + 1)}
    \cup {[c EXCEPT !.parent_id = id] : id \in CredId \cup {None}}
    \cup {[c EXCEPT !.not_before = b] : b \in (0..MaxClock) \cup {None}}
    \cup {[c EXCEPT !.not_after = b] : b \in (0..MaxClock) \cup {None}}

Alterations(c) ==
    {d \in {Sign(r, r.issuer) : r \in Rewrites(c)}
           \cup {[c EXCEPT !.signature = None]} : Constructible(d)}

Prefixes == {SubSeq(FullChain, 1, n) : n \in 0..Len(FullChain)}

TooDeep == Append(FullChain, Grant(c4, kb, ka, {read}, 3, c3, None, None))

FaultyChains ==
    Prefixes \cup {TooDeep} \cup UNION {{[p EXCEPT ![j] = d] : d \in Alterations(p[j])} :
                            <<p, j>> \in {<<p, j>> \in Prefixes \X (1..Len(FullChain)) :
                                            j <= Len(p)}}

(* Nothing tells two threads apart. *)
ThreadSymmetry == Permutations(Thread)

(* Valid at every instant of a short run, so that only revocation decides. *)
TwoHops == {<<FullChain[1], Grant(c2, ka, kb, {read}, 1, c1, None, None)>>}
=============================================================================
