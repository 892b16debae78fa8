------------------------- MODULE ChainVerifyProofs --------------------------
(***************************************************************************)
(* Proofs about ChainVerify, for every set of keys, chains and threads and *)
(* every bound.                                                            *)
(***************************************************************************)
EXTENDS ChainVerify, TLAPS

(* Every chain is a finite sequence of credentials. *)
LEMMA ChainsAreSequences ==
    ASSUME NEW ch \in Chains
    PROVE  /\ ch \in Seq(DelegationCredential)
           /\ Len(ch) \in Nat
           /\ \A k \in 1..Len(ch) : ch[k] \in DelegationCredential
BY ChainsAssumption

(* What the loops raise or return is one of the listed outcomes. *)
LEMMA HopErrorType ==
    ASSUME NEW ch, NEW n, NEW seen, NEW at
    PROVE  HopError(ch, n, seen, at) \in Refusals \cup {"ok"}
BY DEF HopError, RootError, LinkError, Refusals

LEMMA VerdictTypes ==
    /\ \A ch : EntryError(ch) \in Refusals \cup {"ok"}
    /\ UncheckedVerdict \in Accepted \cup Refusals
    /\ \A s, at : StalenessVerdict(s, at) \in Accepted \cup Refusals
BY DEF EntryError, UncheckedVerdict, StalenessVerdict, Accepted, Refusals

(* A credential's digest is the credential without its signature. *)
LEMMA DigestType ==
    ASSUME NEW c \in DelegationCredential
    PROVE  CredentialDigest(c) \in DelegationCredential
BY DEF CredentialDigest, DelegationCredential

-----------------------------------------------------------------------------
(* Type correctness.  TypeOK is inductive together with where the loops    *)
(* stand: a thread inside a loop is at a hop of its chain.                  *)

Control(t) ==
    /\ pc[t] # "idle" => chain[t] \in Chains
    /\ pc[t] \in {"idle", "enter"} => i[t] = 1
    /\ pc[t] \in {"hops", "revocation"} => i[t] \in 1..Len(chain[t])
    /\ pc[t] = "done" => verdict[t] \in Accepted \cup Refusals

TypeInv == TypeOK /\ \A t \in Thread : Control(t)

LEMMA InitType == Init => TypeInv
BY NoneAssumption DEF Init, TypeInv, TypeOK, Control, Bound, RevocationSnapshot

LEMMA EnvironmentType ==
    ASSUME TypeOK
    PROVE  /\ Tick => TypeOK'
           /\ \A k \in Key, c \in Credentials, claimed \in 0..MaxClock :
                  Revoke(k, c, claimed) => TypeOK'
           /\ \A held \in SUBSET statements : \A damaged \in SUBSET held :
                  RefreshFeed(held, damaged) => TypeOK'
<1>1. Tick => TypeOK'
  BY DEF TypeOK, Tick, locals
<1>2. ASSUME NEW k \in Key, NEW c \in Credentials, NEW claimed \in 0..MaxClock,
             Revoke(k, c, claimed)
      PROVE  TypeOK'
  <2>1. c \in DelegationCredential
    BY ChainsAreSequences DEF Credentials
  <2>2. Revocation(c, k, claimed) \in RevocationStatement
    BY <2>1, DigestType, BoundsAssumption DEF Revocation, RevocationStatement
  <2> QED BY <1>2, <2>2 DEF TypeOK, Revoke, locals
<1>3. ASSUME NEW held \in SUBSET statements, NEW damaged \in SUBSET held,
             RefreshFeed(held, damaged)
      PROVE  TypeOK'
  <2>1. \A s \in RevocationStatement : Damaged(s) \in RevocationStatement
    BY DEF Damaged, RevocationStatement
  <2>2. feed' \in RevocationSnapshot \cup {None}
    BY <1>3, <2>1 DEF RefreshFeed, Fetched, TypeOK, RevocationSnapshot
  <2> QED BY <1>3, <2>2 DEF TypeOK, RefreshFeed, locals
<1> QED BY <1>1, <1>2, <1>3

(* A step of one thread leaves the locals of the others alone. *)
LEMMA OtherThreads ==
    ASSUME TypeOK, NEW t \in Thread, ThreadStep(t), NEW u \in Thread, u # t
    PROVE  /\ pc'[u] = pc[u]
           /\ chain'[u] = chain[u]
           /\ at_time'[u] = at_time[u]
           /\ snap'[u] = snap[u]
           /\ now'[u] = now[u]
           /\ i'[u] = i[u]
           /\ seen_ids'[u] = seen_ids[u]
           /\ authorities'[u] = authorities[u]
           /\ verdict'[u] = verdict[u]
           /\ known'[u] = known[u]
<1> USE DEF TypeOK
<1>1. ASSUME NEW ch \in Chains, NEW at \in (0..MaxClock) \cup {None}, Call(t, ch, at)
      PROVE  <<pc'[u], chain'[u], at_time'[u], snap'[u], now'[u], i'[u], seen_ids'[u],
               authorities'[u], verdict'[u], known'[u]>>
             = <<pc[u], chain[u], at_time[u], snap[u], now[u], i[u], seen_ids[u],
                 authorities[u], verdict[u], known[u]>>
  BY <1>1 DEF Call
<1>2. CASE Enter(t)
  BY <1>2 DEF Enter, Finish
<1>3. CASE VerifyHop(t)
  BY <1>3 DEF VerifyHop, Finish
<1>4. CASE NoSnapshot(t)
  BY <1>4 DEF NoSnapshot, Finish, locals
<1>5. CASE LookUpRevocation(t)
  BY <1>5 DEF LookUpRevocation, Finish
<1>6. CASE Return(t)
  BY <1>6 DEF Return
<1> QED BY <1>1, <1>2, <1>3, <1>4, <1>5, <1>6 DEF ThreadStep

LEMMA FinishType ==
    ASSUME TypeOK, NEW t \in Thread, NEW outcome \in Accepted \cup Refusals,
           Finish(t, outcome)
    PROVE  /\ pc' \in [Thread -> {"idle", "enter", "hops", "revocation", "done"}]
           /\ verdict' \in [Thread -> Accepted \cup Refusals \cup {"none"}]
           /\ pc'[t] = "done"
           /\ verdict'[t] = outcome
BY DEF Finish, TypeOK

LEMMA ThreadType ==
    ASSUME TypeInv, NEW t \in Thread, ThreadStep(t)
    PROVE  TypeOK' /\ Control(t)'
<1> USE DEF TypeInv
<1>1. ASSUME NEW ch \in Chains, NEW at \in (0..MaxClock) \cup {None}, Call(t, ch, at)
      PROVE  TypeOK' /\ Control(t)'
  BY <1>1, BoundsAssumption DEF TypeOK, Control, Call, shared, Bound
<1>2. CASE Enter(t)
  <2>0. chain[t] \in Chains /\ i[t] = 1
    BY <1>2 DEF Enter, Control
  <2>1. CASE EntryError(chain[t]) # "ok"
    <3>1. Finish(t, EntryError(chain[t])) /\ UNCHANGED now
      BY <1>2, <2>1 DEF Enter
    <3>2. EntryError(chain[t]) \in Accepted \cup Refusals
      BY <2>1, VerdictTypes
    <3> QED BY <1>2, <2>0, <3>1, <3>2, FinishType DEF Enter, TypeOK, Control, shared
  <2>2. CASE EntryError(chain[t]) = "ok"
    <3>1. EvaluationTime(t) \in Nat
      BY DEF EvaluationTime, TypeOK, Bound
    <3>2. chain[t] # << >>
      BY <2>2 DEF EntryError
    <3>3. 1 \in 1..Len(chain[t])
      BY <2>0, <3>2, ChainsAreSequences
    <3> QED BY <1>2, <2>0, <2>2, <3>1, <3>3, ZenonT(40) DEF Enter, TypeOK, Control, shared
  <2> QED BY <2>1, <2>2
<1>3. CASE VerifyHop(t)
  <2> DEFINE err == HopError(chain[t], i[t], seen_ids[t], now[t])
  <2>0. /\ chain[t] \in Chains
        /\ i[t] \in 1..Len(chain[t])
        /\ Len(chain[t]) \in Nat
        /\ chain[t][i[t]] \in DelegationCredential
    BY <1>3, ChainsAreSequences DEF VerifyHop, Control
  <2>1. CASE err # "ok"
    <3>1. Finish(t, err) /\ UNCHANGED <<i, seen_ids>>
      BY <1>3, <2>1 DEF VerifyHop
    <3>2. err \in Accepted \cup Refusals
      BY <2>1, HopErrorType
    <3> HIDE DEF err
    <3> QED BY <1>3, <2>0, <3>1, <3>2, FinishType DEF VerifyHop, TypeOK, Control, shared
  <2>2. CASE err = "ok"
    <3>1. SeenAfter(t) \subseteq CredId
      BY <2>0 DEF SeenAfter, TypeOK, DelegationCredential
    <3> DEFINE last == i[t] = Len(chain[t])
    <3>2. /\ seen_ids' = [seen_ids EXCEPT ![t] = SeenAfter(t)]
          /\ i' = [i EXCEPT ![t] = IF last THEN 1 ELSE i[t] + 1]
          /\ pc' = [pc EXCEPT ![t] = IF last THEN "revocation" ELSE "hops"]
          /\ UNCHANGED <<verdict, shared, chain, at_time, snap, now,
                         authorities, decisions, known>>
      BY <1>3, <2>2 DEF VerifyHop
    <3>3. TypeOK'
      BY <2>0, <3>1, <3>2 DEF TypeOK, shared
    <3>4. Control(t)'
      BY <2>0, <3>2 DEF TypeOK, Control
    <3> QED BY <3>3, <3>4
  <2> QED BY <2>1, <2>2
<1>4. CASE NoSnapshot(t)
  BY <1>4, VerdictTypes, FinishType DEF NoSnapshot, TypeOK, Control, shared, locals
<1>5. CASE LookUpRevocation(t)
  <2> DEFINE authorized == authorities[t] \cup {RevokerOf(chain[t][i[t]])}
  <2>0. /\ chain[t] \in Chains
        /\ i[t] \in 1..Len(chain[t])
        /\ Len(chain[t]) \in Nat
        /\ chain[t][i[t]] \in DelegationCredential
    BY <1>5, ChainsAreSequences DEF LookUpRevocation, Control
  <2>1. authorized \subseteq Key
    BY <2>0 DEF RevokerOf, TypeOK, DelegationCredential
  <2>2. authorities' = [authorities EXCEPT ![t] = authorized]
    BY <1>5 DEF LookUpRevocation
  <2>3. UNCHANGED <<shared, chain, at_time, snap, now, seen_ids, decisions, known>>
    BY <1>5 DEF LookUpRevocation
  <2>4. ASSUME NEW outcome \in Accepted \cup Refusals, Finish(t, outcome), UNCHANGED i
        PROVE  TypeOK' /\ Control(t)'
    <3> HIDE DEF authorized
    <3> QED BY <2>0, <2>1, <2>2, <2>3, <2>4, FinishType DEF TypeOK, Control, shared
  <2>5. CASE i[t] # Len(chain[t]) /\ i' = [i EXCEPT ![t] = @ + 1] /\ UNCHANGED <<pc, verdict>>
    <3> HIDE DEF authorized
    <3>1. pc[t] = "revocation"
      BY <1>5 DEF LookUpRevocation
    <3> QED BY <2>0, <2>1, <2>2, <2>3, <2>5, <3>1 DEF TypeOK, Control, shared
  <2>6. "CredentialRevoked" \in Accepted \cup Refusals
    BY DEF Refusals
  <2> QED BY <1>5, <2>4, <2>5, <2>6, VerdictTypes DEF LookUpRevocation
<1>6. CASE Return(t)
  <2>1. /\ chain[t] \in Chains /\ verdict[t] \in Accepted \cup Refusals
        /\ now[t] \in Nat /\ snap[t] \in RevocationSnapshot \cup {None}
    BY <1>6 DEF Return, TypeOK, Control
  <2>2. decisions' \subseteq Decision
    BY <1>6, <2>1 DEF Return, TypeOK, Decision
  <2> QED BY <1>6, <2>2 DEF Return, TypeOK, Control, Bound, shared
<1> QED BY <1>1, <1>2, <1>3, <1>4, <1>5, <1>6 DEF ThreadStep

LEMMA TypeInductive == TypeInv /\ [Next]_vars => TypeInv'
<1> SUFFICES ASSUME TypeInv, [Next]_vars PROVE TypeInv'
  OBVIOUS
<1>1. CASE \E t \in Thread : ThreadStep(t)
  <2> PICK t \in Thread : ThreadStep(t)
    BY <1>1, Zenon
  <2>1. ASSUME NEW u \in Thread, u # t PROVE Control(u)'
    BY <2>1, OtherThreads DEF TypeInv, Control
  <2> QED BY <2>1, ThreadType DEF TypeInv
<1>2. ASSUME UNCHANGED <<pc, chain, i, verdict>> PROVE \A u \in Thread : Control(u)'
  BY <1>2 DEF TypeInv, Control
<1>3. CASE UNCHANGED vars
  BY <1>2, <1>3 DEF TypeInv, TypeOK, vars, shared, locals
<1>4. CASE Next /\ ~\E t \in Thread : ThreadStep(t)
  <2>1. UNCHANGED <<pc, chain, i, verdict>>
    BY <1>4, Zenon DEF Next, Tick, Revoke, RefreshFeed, locals
  <2>2. TypeOK'
    BY <1>4, EnvironmentType DEF Next, TypeInv
  <2> QED BY <1>2, <2>1, <2>2 DEF TypeInv
<1> QED BY <1>1, <1>3, <1>4

(* Every behaviour of the verifier is well typed, whatever the chains. *)
THEOREM TypeCorrect == Spec => []TypeOK
<1>1. Spec => []TypeInv
  BY InitType, TypeInductive, PTL DEF Spec
<1>2. TypeInv => TypeOK
  BY DEF TypeInv
<1> QED BY <1>1, <1>2, PTL

-----------------------------------------------------------------------------
(* What the loops have established about the hops they are past.           *)

HopsPass(ch, n, at) == \A k \in 1..n : HopError(ch, k, IdsBefore(ch, k), at) = "ok"

Unrevoked(ch, n, s, at) ==
    \A k \in 1..n : EffectiveRevocations(s, ch[k], IssuersUpTo(ch, k), at) = {}

(* A hop that passes next to its neighbour is in order with every hop      *)
(* above: scopes nest pairwise because they nest stepwise.                 *)
LEMMA HopExtends ==
    ASSUME NEW ch \in Seq(DelegationCredential), NEW n \in 1..Len(ch), NEW at \in Nat,
           EntryError(ch) = "ok", AuthorizesUpTo(ch, n - 1, at),
           HopError(ch, n, IdsBefore(ch, n), at) = "ok"
    PROVE  AuthorizesUpTo(ch, n, at)
<1> DEFINE c == ch[n]
<1>0. /\ n \in Nat /\ Len(ch) \in Nat /\ MaxDepth \in Nat
      /\ \A k \in 1..n : ch[k] \in DelegationCredential
  BY DepthAssumption
<1>1. /\ c.signature = c.issuer
      /\ c.not_before # None => ~(at < c.not_before)
      /\ c.not_after # None => ~(at > c.not_after)
      /\ c.credential_id \notin IdsBefore(ch, n)
      /\ ~(c.depth > MaxDepth)
      /\ (IF n = 1 THEN RootError(c) ELSE LinkError(c, ch[n - 1])) = "ok"
  BY DEF HopError, VerifySignature
<1>2. \A k \in 1..n : /\ ch[k].depth \in Nat
                      /\ ch[k].not_before \in Nat \cup {None}
                      /\ ch[k].not_after \in Nat \cup {None}
  BY <1>0 DEF DelegationCredential, Bound
<1>3. /\ n = 1 => c.issuer \in TrustedRoots /\ c.parent_id = None /\ c.depth = 0
      /\ n > 1 => /\ c.issuer = ch[n - 1].subject
                  /\ c.parent_id = ch[n - 1].credential_id
                  /\ c.depth = ch[n - 1].depth + 1
                  /\ c.scope \subseteq ch[n - 1].scope
  BY <1>0, <1>1 DEF RootError, LinkError, EntryError
<1>4. \A j \in 1..(n - 1) : ch[j].credential_id # c.credential_id
  BY <1>1 DEF IdsBefore
<1>5. ASSUME NEW j \in 1..(n - 1) PROVE c.scope \subseteq ch[j].scope
  <2>1. n > 1 /\ n - 1 \in 1..(n - 1) /\ c.scope \subseteq ch[n - 1].scope
    BY <1>0, <1>3
  <2>2. j = n - 1 \/ j < n - 1
    BY <1>0
  <2>3. j < n - 1 => ch[n - 1].scope \subseteq ch[j].scope
    BY <2>1 DEF AuthorizesUpTo
  <2> HIDE DEF c
  <2> QED BY <2>1, <2>2, <2>3
<1>6. c.depth = n - 1
  BY <1>0, <1>3 DEF AuthorizesUpTo
<1>7. n <= MaxDepth + 1
  BY <1>0, <1>1, <1>6
<1>8. /\ c.not_before # None => c.not_before <= at
      /\ c.not_after # None => at <= c.not_after
  BY <1>0, <1>1, <1>2
<1>9. \A k \in 1..n : k \in 1..(n - 1) \/ k = n
  BY <1>0
<1>10. ASSUME NEW k \in 1..n
       PROVE  /\ ch[k].signature = ch[k].issuer
              /\ ch[k].depth = k - 1
              /\ ch[k].not_before # None => ch[k].not_before <= at
              /\ ch[k].not_after # None => at <= ch[k].not_after
              /\ k = 1 => ch[k].issuer \in TrustedRoots /\ ch[k].parent_id = None
              /\ k > 1 => /\ ch[k].issuer = ch[k - 1].subject
                          /\ ch[k].parent_id = ch[k - 1].credential_id
  <2>1. CASE k = n
    BY <2>1, <1>1, <1>3, <1>6, <1>8
  <2>2. CASE k \in 1..(n - 1)
    BY <2>2 DEF AuthorizesUpTo
  <2> QED BY <2>1, <2>2, <1>9
<1>11. ASSUME NEW j \in 1..n, NEW k \in 1..n, j < k
       PROVE  /\ ch[k].scope \subseteq ch[j].scope
              /\ ch[j].credential_id # ch[k].credential_id
  <2>1. j \in 1..(n - 1)
    BY <1>0, <1>11
  <2>2. CASE k = n
    BY <2>1, <2>2, <1>4, <1>5
  <2>3. CASE k \in 1..(n - 1)
    BY <2>1, <2>3, <1>11 DEF AuthorizesUpTo
  <2> QED BY <2>2, <2>3, <1>9
<1> QED BY <1>7, <1>10, <1>11 DEF AuthorizesUpTo

(* The first failing hop is the verdict. *)
LEMMA VerdictOfHop ==
    ASSUME NEW ch \in Seq(DelegationCredential), NEW n \in 1..Len(ch), NEW at, NEW t, NEW s,
           EntryError(ch) = "ok", HopsPass(ch, n - 1, at),
           HopError(ch, n, IdsBefore(ch, n), at) # "ok"
    PROVE  VerifyChain(ch, t, at, s) = HopError(ch, n, IdsBefore(ch, n), at)
<1> DEFINE Err(k) == HopError(ch, k, IdsBefore(ch, k), at)
           failing == {k \in 1..Len(ch) : Err(k) # "ok"}
           first == CHOOSE k \in failing : \A j \in failing : k <= j
<1>0. n \in Nat /\ Len(ch) \in Nat
  OBVIOUS
<1>1. n \in failing /\ \A j \in failing : n <= j
  BY <1>0 DEF HopsPass
<1> HIDE DEF Err
<1>2. first \in failing /\ \A j \in failing : first <= j
  BY <1>1, Zenon
<1>3. first = n
  BY <1>0, <1>1, <1>2
<1>4. VerifyChain(ch, t, at, s) = Err(first)
  BY <1>1 DEF VerifyChain, Err
<1> QED BY <1>3, <1>4, Zenon DEF Err

(* After all hops passed, the snapshot decides. *)
LEMMA VerdictOfSnapshot ==
    ASSUME NEW ch \in Seq(DelegationCredential), NEW at, NEW t, NEW s,
           EntryError(ch) = "ok", HopsPass(ch, Len(ch), at)
    PROVE  /\ s = None => VerifyChain(ch, t, at, s) = UncheckedVerdict
           /\ s # None /\ Unrevoked(ch, Len(ch), s, t) =>
                  VerifyChain(ch, t, at, s) = StalenessVerdict(s, at)
           /\ s # None /\ ~Unrevoked(ch, Len(ch), s, t) =>
                  VerifyChain(ch, t, at, s) = "CredentialRevoked"
<1>1. {k \in 1..Len(ch) : HopError(ch, k, IdsBefore(ch, k), at) # "ok"} = {}
  BY DEF HopsPass
<1>2. Unrevoked(ch, Len(ch), s, t) <=> RevokedHops(ch, s, t) = {}
  BY Zenon DEF Unrevoked, RevokedHops
<1> QED BY <1>1, <1>2 DEF VerifyChain

-----------------------------------------------------------------------------
(* The loop invariant of one call. *)

Walk(t) ==
    /\ pc[t] \in {"idle", "enter", "hops"} => authorities[t] = {}
    /\ pc[t] \in {"idle", "enter"} => seen_ids[t] = {}
    /\ pc[t] \in {"hops", "revocation"} => EntryError(chain[t]) = "ok"
    /\ pc[t] = "hops" =>
          /\ seen_ids[t] = IdsBefore(chain[t], i[t])
          /\ AuthorizesUpTo(chain[t], i[t] - 1, now[t])
          /\ HopsPass(chain[t], i[t] - 1, now[t])
    /\ pc[t] = "revocation" =>
          /\ AuthorizesUpTo(chain[t], Len(chain[t]), now[t])
          /\ HopsPass(chain[t], Len(chain[t]), now[t])
          /\ authorities[t] = IssuersUpTo(chain[t], i[t] - 1)
          /\ snap[t] # None => Unrevoked(chain[t], i[t] - 1, snap[t], at_time[t])
    /\ pc[t] = "done" =>
          /\ verdict[t] = VerifyChain(chain[t], at_time[t], now[t], snap[t])
          /\ verdict[t] \in Accepted => Authorizes(chain[t], now[t])

WalkInv == TypeInv /\ \A t \in Thread : Walk(t)

LEMMA InitWalk == Init => WalkInv
BY InitType DEF Init, WalkInv, Walk

LEMMA RefusalsAreNotAcceptances == Refusals \cap Accepted = {} /\ "ok" \notin Accepted
BY DEF Refusals, Accepted

LEMMA WalkEnter ==
    ASSUME WalkInv, NEW t \in Thread, Enter(t)
    PROVE  Walk(t)'
<1> USE DEF WalkInv, TypeInv
<1>0. /\ chain[t] \in Chains /\ i[t] = 1 /\ pc[t] = "enter"
      /\ authorities[t] = {} /\ seen_ids[t] = {}
      /\ UNCHANGED <<chain, at_time, snap, i, seen_ids, authorities>>
  BY Zenon DEF Enter, Control, Walk
<1>1. CASE EntryError(chain[t]) # "ok"
  <2>1. pc'[t] = "done" /\ verdict'[t] = EntryError(chain[t])
    BY <1>1, Zenon DEF Enter, Finish, TypeOK
  <2>2. VerifyChain(chain[t], at_time[t], now'[t], snap[t]) = EntryError(chain[t])
    BY <1>1 DEF VerifyChain
  <2>3. EntryError(chain[t]) \notin Accepted
    BY <1>1, VerdictTypes, RefusalsAreNotAcceptances
  <2> QED BY <1>0, <2>1, <2>2, <2>3, Zenon DEF Walk
<1>2. CASE EntryError(chain[t]) = "ok"
  <2>1. pc'[t] = "hops"
    BY <1>2 DEF Enter, TypeOK
  <2>2. IdsBefore(chain[t], 1) = {}
    BY DEF IdsBefore
  <2>3. AuthorizesUpTo(chain[t], 0, now'[t]) /\ HopsPass(chain[t], 0, now'[t])
    BY DepthAssumption DEF AuthorizesUpTo, HopsPass
  <2>4. i'[t] = 1 /\ i'[t] - 1 = 0
    BY <1>0
  <2> QED BY <1>0, <1>2, <2>1, <2>2, <2>3, <2>4, Zenon DEF Walk
<1> QED BY <1>1, <1>2, Zenon

LEMMA WalkHop ==
    ASSUME WalkInv, NEW t \in Thread, VerifyHop(t)
    PROVE  Walk(t)'
<1> USE DEF WalkInv, TypeInv
<1> DEFINE ch == chain[t]
           n == i[t]
           at == now[t]
           err == HopError(ch, n, seen_ids[t], at)
<1>0. /\ ch \in Chains /\ n \in 1..Len(ch) /\ pc[t] = "hops"
      /\ EntryError(ch) = "ok" /\ seen_ids[t] = IdsBefore(ch, n) /\ authorities[t] = {}
      /\ AuthorizesUpTo(ch, n - 1, at) /\ HopsPass(ch, n - 1, at)
      /\ UNCHANGED <<chain, at_time, snap, now, authorities>>
  BY Zenon DEF VerifyHop, Control, Walk
<1>1. ch \in Seq(DelegationCredential) /\ Len(ch) \in Nat /\ n \in Nat /\ at \in Nat
  BY <1>0, ChainsAreSequences DEF TypeOK
<1>2. CASE err # "ok"
  <2>1. pc'[t] = "done" /\ verdict'[t] = err
    BY <1>2, Zenon DEF VerifyHop, Finish, TypeOK
  <2>2. VerifyChain(ch, at_time[t], at, snap[t]) = err
    <3>1. err = HopError(ch, n, IdsBefore(ch, n), at)
      BY <1>0, Zenon
    <3>2. HopError(ch, n, IdsBefore(ch, n), at) # "ok"
      BY <1>2, <3>1
    <3>3. /\ ch \in Seq(DelegationCredential) /\ n \in 1..Len(ch)
          /\ EntryError(ch) = "ok" /\ HopsPass(ch, n - 1, at)
      BY <1>0, <1>1
    <3> HIDE DEF ch, n, at, err, WalkInv, TypeInv
    <3>4. VerifyChain(ch, at_time[t], at, snap[t]) = HopError(ch, n, IdsBefore(ch, n), at)
      BY <3>2, <3>3, VerdictOfHop
    <3> QED BY <3>1, <3>4, Zenon
  <2>3. err \notin Accepted
    BY <1>2, HopErrorType, RefusalsAreNotAcceptances
  <2> HIDE DEF err
  <2> QED BY <1>0, <2>1, <2>2, <2>3, Zenon DEF Walk
<1>3. CASE err = "ok"
  <2>1. /\ seen_ids'[t] = seen_ids[t] \cup {ch[n].credential_id}
        /\ i'[t] = IF n = Len(ch) THEN 1 ELSE n + 1
        /\ pc'[t] = IF n = Len(ch) THEN "revocation" ELSE "hops"
    BY <1>3, Zenon DEF VerifyHop, SeenAfter, TypeOK
  <2>2. AuthorizesUpTo(ch, n, at)
    BY <1>0, <1>1, <1>3, HopExtends, Zenon
  <2>3. HopsPass(ch, n, at)
    <3>1. \A k \in 1..n : k \in 1..(n - 1) \/ k = n
      BY <1>1
    <3> QED BY <1>0, <1>3, <3>1 DEF HopsPass
  <2>4. IdsBefore(ch, n + 1) = IdsBefore(ch, n) \cup {ch[n].credential_id}
    <3>1. 1..((n + 1) - 1) = 1..(n - 1) \cup {n}
      BY <1>0, <1>1
    <3> QED BY <3>1 DEF IdsBefore
  <2>5. CASE n = Len(ch)
    <3>1. IssuersUpTo(ch, 0) = {}
      BY DEF IssuersUpTo
    <3>2. Unrevoked(ch, 0, snap[t], at_time[t])
      BY DEF Unrevoked
    <3>3. i'[t] - 1 = 0 /\ pc'[t] = "revocation"
      BY <2>1, <2>5
    <3> QED BY <1>0, <2>2, <2>3, <2>5, <3>1, <3>2, <3>3, Zenon DEF Walk
  <2>6. CASE n # Len(ch)
    <3>1. i'[t] = n + 1 /\ i'[t] - 1 = n /\ pc'[t] = "hops"
      <4>1. i'[t] = n + 1 /\ pc'[t] = "hops"
        BY <2>1, <2>6, Zenon
      <4>2. n \in Nat
        BY <1>1
      <4> HIDE DEF ch, n, at, err, WalkInv, TypeInv
      <4>3. (n + 1) - 1 = n
        BY <4>2
      <4> QED BY <4>1, <4>3
    <3> QED BY <1>0, <2>1, <2>2, <2>3, <2>4, <3>1, Zenon DEF Walk
  <2> QED BY <2>5, <2>6
<1> QED BY <1>2, <1>3, Zenon

LEMMA WalkNoSnapshot ==
    ASSUME WalkInv, NEW t \in Thread, NoSnapshot(t)
    PROVE  Walk(t)'
<1> USE DEF WalkInv, TypeInv
<1>1. /\ chain[t] \in Chains /\ snap[t] = None /\ pc[t] = "revocation"
      /\ i[t] \in 1..Len(chain[t])
      /\ EntryError(chain[t]) = "ok" /\ AuthorizesUpTo(chain[t], Len(chain[t]), now[t])
      /\ HopsPass(chain[t], Len(chain[t]), now[t])
      /\ UNCHANGED <<chain, at_time, snap, now, i, seen_ids, authorities>>
  BY Zenon DEF NoSnapshot, Control, Walk, locals
<1>2. pc'[t] = "done" /\ verdict'[t] = UncheckedVerdict
  BY DEF NoSnapshot, Finish, TypeOK
<1>3. VerifyChain(chain[t], at_time[t], now[t], snap[t]) = UncheckedVerdict
  <2> DEFINE ch == chain[t]
  <2>1. /\ ch \in Chains /\ snap[t] = None
        /\ EntryError(ch) = "ok" /\ HopsPass(ch, Len(ch), now[t])
    BY <1>1, Zenon
  <2> HIDE DEF ch, WalkInv, TypeInv
  <2>2. ch \in Seq(DelegationCredential)
    BY <2>1, ChainsAreSequences, Zenon
  <2>3. VerifyChain(ch, at_time[t], now[t], snap[t]) = UncheckedVerdict
    BY <2>1, <2>2, VerdictOfSnapshot
  <2> QED BY <2>3 DEF ch
<1>4. Authorizes(chain[t], now[t])
  <2> DEFINE ch == chain[t]
             n == i[t]
  <2>1. ch \in Chains /\ n \in 1..Len(ch) /\ AuthorizesUpTo(ch, Len(ch), now[t])
    BY <1>1, Zenon
  <2> HIDE DEF ch, n, WalkInv, TypeInv
  <2>2. Len(ch) > 0
    BY <2>1, ChainsAreSequences
  <2>3. Authorizes(ch, now[t])
    BY <2>1, <2>2 DEF Authorizes
  <2> QED BY <2>3 DEF ch
<1> QED BY <1>1, <1>2, <1>3, <1>4, Zenon DEF Walk

LEMMA OneMore == \A k \in Nat \ {0} : 1..k = 1..(k - 1) \cup {k}
OBVIOUS

LEMMA WalkLookUp ==
    ASSUME WalkInv, NEW t \in Thread, LookUpRevocation(t)
    PROVE  Walk(t)'
<1> USE DEF WalkInv, TypeInv
<1> DEFINE ch == chain[t]
           n == i[t]
           s == snap[t]
           at == at_time[t]
           authorized == authorities[t] \cup {RevokerOf(ch[n])}
           found == EffectiveRevocations(s, ch[n], authorized, at)
<1>0. /\ ch \in Chains /\ n \in 1..Len(ch) /\ s # None /\ pc[t] = "revocation"
      /\ EntryError(ch) = "ok"
      /\ AuthorizesUpTo(ch, Len(ch), now[t]) /\ HopsPass(ch, Len(ch), now[t])
      /\ authorities[t] = IssuersUpTo(ch, n - 1) /\ Unrevoked(ch, n - 1, s, at)
      /\ UNCHANGED <<chain, at_time, snap, now, seen_ids>>
  BY Zenon DEF LookUpRevocation, Control, Walk
<1>1. ch \in Seq(DelegationCredential) /\ Len(ch) \in Nat /\ n \in Nat \ {0}
  <2>1. ch \in Chains /\ n \in 1..Len(ch)
    BY <1>0, Zenon
  <2> HIDE DEF ch, n, WalkInv, TypeInv
  <2>2. ch \in Seq(DelegationCredential) /\ Len(ch) \in Nat
    BY <2>1, ChainsAreSequences
  <2> QED BY <2>1, <2>2
<1>2. authorized = IssuersUpTo(ch, n)
  <2>1. 1..n = 1..(n - 1) \cup {n}
    BY <1>1, OneMore, Zenon
  <2> QED BY <1>0, <2>1, Zenon DEF IssuersUpTo, RevokerOf
<1>3. Authorizes(ch, now[t])
  <2>1. n \in 1..Len(ch) /\ Len(ch) \in Nat /\ AuthorizesUpTo(ch, Len(ch), now[t])
    BY <1>0, <1>1, Zenon
  <2> HIDE DEF ch, n, WalkInv, TypeInv
  <2> QED BY <2>1 DEF Authorizes
<1>4. authorities'[t] = authorized
  BY DEF LookUpRevocation, TypeOK
<1>v. /\ Unrevoked(ch, Len(ch), s, at) =>
            VerifyChain(ch, at, now[t], s) = StalenessVerdict(s, now[t])
      /\ ~Unrevoked(ch, Len(ch), s, at) =>
            VerifyChain(ch, at, now[t], s) = "CredentialRevoked"
  <2>1. /\ ch \in Seq(DelegationCredential) /\ s # None
        /\ EntryError(ch) = "ok" /\ HopsPass(ch, Len(ch), now[t])
    BY <1>0, <1>1, Zenon
  <2> HIDE DEF ch, n, s, at, authorized, found, WalkInv, TypeInv
  <2> QED BY <2>1, VerdictOfSnapshot, Zenon
<1>5. CASE found # {}
  <2>1. pc'[t] = "done" /\ verdict'[t] = "CredentialRevoked"
    BY <1>5 DEF LookUpRevocation, Finish, TypeOK
  <2>2. ~Unrevoked(ch, Len(ch), s, at)
    <3>1. /\ n \in 1..Len(ch)
          /\ EffectiveRevocations(s, ch[n], IssuersUpTo(ch, n), at) # {}
      BY <1>0, <1>2, <1>5, Zenon
    <3> HIDE DEF ch, n, s, at, authorized, found, WalkInv, TypeInv
    <3> QED BY <3>1, Zenon DEF Unrevoked
  <2>3. VerifyChain(ch, at, now[t], s) = "CredentialRevoked"
    BY <1>v, <2>2, Zenon
  <2> QED BY <1>0, <1>3, <2>1, <2>3, Zenon DEF Walk
<1>6. CASE found = {}
  <2>1. Unrevoked(ch, n, s, at)
    <3>1. \A k \in 1..n : k \in 1..(n - 1) \/ k = n
      BY <1>1
    <3>2. /\ Unrevoked(ch, n - 1, s, at)
          /\ EffectiveRevocations(s, ch[n], IssuersUpTo(ch, n), at) = {}
      BY <1>0, <1>2, <1>6, Zenon
    <3> HIDE DEF ch, n, s, at, authorized, found, WalkInv, TypeInv
    <3> QED BY <3>1, <3>2 DEF Unrevoked
  <2>2. CASE n = Len(ch)
    <3>1. pc'[t] = "done" /\ verdict'[t] = StalenessVerdict(s, now[t])
      BY <1>6, <2>2, Zenon DEF LookUpRevocation, Finish, TypeOK
    <3>2. VerifyChain(ch, at, now[t], s) = StalenessVerdict(s, now[t])
      BY <1>v, <2>1, <2>2, Zenon
    <3> QED BY <1>0, <1>3, <3>1, <3>2, Zenon DEF Walk
  <2>3. CASE n # Len(ch)
    <3>1. i'[t] = n + 1 /\ pc'[t] = pc[t]
      BY <1>6, <2>3, Zenon DEF LookUpRevocation, TypeOK
    <3>2. i'[t] - 1 = n
      BY <1>1, <3>1
    <3> HIDE DEF authorized
    <3> QED BY <1>0, <1>2, <1>4, <2>1, <3>1, <3>2, Zenon DEF Walk
  <2> QED BY <2>2, <2>3
<1> QED BY <1>5, <1>6, Zenon

LEMMA WalkInductive == WalkInv /\ [Next]_vars => WalkInv'
<1> SUFFICES ASSUME WalkInv, [Next]_vars PROVE WalkInv'
  OBVIOUS
<1>0. TypeInv'
  BY TypeInductive DEF WalkInv
<1>1. CASE \E t \in Thread : ThreadStep(t)
  <2> PICK t \in Thread : ThreadStep(t)
    BY <1>1
  <2>1. ASSUME NEW u \in Thread, u # t PROVE Walk(u)'
    BY <2>1, OtherThreads, ZenonT(40) DEF WalkInv, TypeInv, Walk
  <2>2. ASSUME NEW k \in Chains, NEW at \in (0..MaxClock) \cup {None}, Call(t, k, at)
        PROVE  Walk(t)'
    BY <2>2, ZenonT(40) DEF WalkInv, TypeInv, TypeOK, Walk, Call
  <2>3. Return(t) => Walk(t)'
    BY ZenonT(40) DEF WalkInv, TypeInv, TypeOK, Walk, Return
  <2>4. Walk(t)'
    BY <2>2, <2>3, WalkEnter, WalkHop, WalkNoSnapshot, WalkLookUp DEF ThreadStep
  <2> QED BY <1>0, <2>1, <2>4 DEF WalkInv
<1>2. CASE UNCHANGED <<pc, locals, verdict>>
  BY <1>0, <1>2, ZenonT(40) DEF WalkInv, Walk, locals
<1>3. ~(\E t \in Thread : ThreadStep(t)) => UNCHANGED <<pc, locals, verdict>>
  BY Zenon DEF Next, Tick, Revoke, RefreshFeed, vars, locals
<1> QED BY <1>1, <1>2, <1>3

LEMMA WalkAlways == Spec => []WalkInv
BY InitWalk, WalkInductive, PTL DEF Spec

(* A chain verify_chain accepts, of any length, carries authority at one   *)
(* instant: trusted root, unbroken issuance, pairwise attenuation, every   *)
(* window open, although the clock moves during the loop.                  *)
THEOREM ChainAuthorizes == Spec => []AcceptedChainAuthorizes
<1>1. WalkInv => AcceptedChainAuthorizes
  BY Zenon DEF WalkInv, Walk, AcceptedChainAuthorizes, HasAccepted
<1> QED BY <1>1, WalkAlways, PTL

(* The two loops of verify_chain and _check_revocation return what the     *)
(* one-step definition VerifyChain says, so that other components may use  *)
(* it in their place.                                                      *)
THEOREM LoopIsVerifyChain == Spec => []LoopComputesVerdict
<1>1. WalkInv => LoopComputesVerdict
  BY Zenon DEF WalkInv, Walk, LoopComputesVerdict
<1> QED BY <1>1, WalkAlways, PTL

-----------------------------------------------------------------------------
(* What a verdict says about the chain and the snapshot it was given. *)

LEMMA StructureIsNotRevocation ==
    /\ \A ch : EntryError(ch) # "CredentialRevoked"
    /\ \A ch, n, seen, at : HopError(ch, n, seen, at) # "CredentialRevoked"
    /\ \A s, at : StalenessVerdict(s, at) # "CredentialRevoked"
    /\ UncheckedVerdict # "CredentialRevoked"
BY DEF EntryError, HopError, RootError, LinkError, StalenessVerdict, UncheckedVerdict

(* Past the hops: whenever the verdict is an acceptance or a revocation,   *)
(* every hop passed.                                                       *)
LEMMA VerdictPastHops ==
    ASSUME NEW ch \in Seq(DelegationCredential), NEW at, NEW t, NEW s,
           VerifyChain(ch, t, at, s) \in Accepted \cup {"CredentialRevoked"}
    PROVE  EntryError(ch) = "ok" /\ HopsPass(ch, Len(ch), at)
<1>1. EntryError(ch) = "ok"
  <2>1. CASE EntryError(ch) # "ok"
    <3>1. VerifyChain(ch, t, at, s) = EntryError(ch)
      BY <2>1 DEF VerifyChain
    <3> QED BY <2>1, <3>1, VerdictTypes, RefusalsAreNotAcceptances, StructureIsNotRevocation
  <2> QED BY <2>1
<1>2. HopsPass(ch, Len(ch), at)
  <2> DEFINE Err(k) == HopError(ch, k, IdsBefore(ch, k), at)
             failing == {k \in 1..Len(ch) : Err(k) # "ok"}
             first == CHOOSE k \in failing : \A j \in failing : k <= j
  <2>1. CASE failing # {}
    <3>1. VerifyChain(ch, t, at, s) = Err(first)
      BY <1>1, <2>1 DEF VerifyChain
    <3>2. Err(first) \in Refusals \cup {"ok"} /\ Err(first) # "CredentialRevoked"
      BY HopErrorType, StructureIsNotRevocation
    <3> HIDE DEF Err, first
    <3> QED BY <3>1, <3>2, RefusalsAreNotAcceptances
  <2>2. CASE failing = {}
    BY <2>2 DEF HopsPass
  <2> QED BY <2>1, <2>2
<1> QED BY <1>1, <1>2

LEMMA VerdictMeans ==
    ASSUME NEW ch \in Seq(DelegationCredential), NEW at, NEW t, NEW s
    PROVE  /\ VerifyChain(ch, t, at, s) \in Accepted =>
                 /\ s = None => MaxStaleness = None
                 /\ s # None => /\ Unrevoked(ch, Len(ch), s, t)
                                /\ MaxStaleness # None => ~(at - s.as_of > MaxStaleness)
           /\ VerifyChain(ch, t, at, s) = "CredentialRevoked" =>
                 s # None /\ ~Unrevoked(ch, Len(ch), s, t)
<1>0. "CredentialRevoked" \notin Accepted /\ "RevocationStatusUnknown" \notin Accepted
  BY Zenon DEF Accepted
<1>1. CASE VerifyChain(ch, t, at, s) \in Accepted \cup {"CredentialRevoked"}
  <2>1. EntryError(ch) = "ok" /\ HopsPass(ch, Len(ch), at)
    BY <1>1, VerdictPastHops
  <2>2. CASE s = None
    BY <1>0, <2>1, <2>2, VerdictOfSnapshot, StructureIsNotRevocation DEF UncheckedVerdict
  <2>3. CASE s # None /\ Unrevoked(ch, Len(ch), s, t)
    BY <1>0, <2>1, <2>3, VerdictOfSnapshot, StructureIsNotRevocation, Zenon DEF StalenessVerdict
  <2>4. CASE s # None /\ ~Unrevoked(ch, Len(ch), s, t)
    BY <1>0, <2>1, <2>4, VerdictOfSnapshot
  <2> QED BY <2>2, <2>3, <2>4
<1> QED BY <1>1

(* An effective statement at hop k is a withdrawal, and conversely. *)
LEMMA UnrevokedIsNotWithdrawn ==
    ASSUME NEW ch \in Seq(DelegationCredential), NEW s, NEW t
    PROVE  Unrevoked(ch, Len(ch), s, t) <=> \A x \in s.statements : ~Withdrawn(ch, x, t)
<1>0. Len(ch) \in Nat
  OBVIOUS
<1>1. ASSUME NEW x \in s.statements, Withdrawn(ch, x, t)
      PROVE  ~Unrevoked(ch, Len(ch), s, t)
  <2> PICK j \in 1..Len(ch), k \in 1..Len(ch) :
           /\ j <= k
           /\ x.revoked_digest = CredentialDigest(ch[k])
           /\ x.revoker = ch[j].issuer
           /\ t # None => x.issued_at <= t
    BY <1>1 DEF Withdrawn
  <2>1. x.revoker \in IssuersUpTo(ch, k)
    BY <1>0 DEF IssuersUpTo
  <2>2. x \in EffectiveRevocations(s, ch[k], IssuersUpTo(ch, k), t)
    BY <2>1 DEF EffectiveRevocations
  <2> QED BY <2>2, Zenon DEF Unrevoked
<1>2. ASSUME ~Unrevoked(ch, Len(ch), s, t)
      PROVE  \E x \in s.statements : Withdrawn(ch, x, t)
  <2> PICK k \in 1..Len(ch) : EffectiveRevocations(s, ch[k], IssuersUpTo(ch, k), t) # {}
    BY <1>2, Zenon DEF Unrevoked
  <2> PICK x : x \in EffectiveRevocations(s, ch[k], IssuersUpTo(ch, k), t)
    OBVIOUS
  <2>0. /\ x \in s.statements
        /\ x.revoked_digest = CredentialDigest(ch[k])
        /\ x.revoker \in IssuersUpTo(ch, k)
        /\ t # None => x.issued_at <= t
    BY DEF EffectiveRevocations
  <2>1. PICK j \in 1..k : x.revoker = ch[j].issuer
    BY <2>0 DEF IssuersUpTo
  <2>2. j \in 1..Len(ch) /\ j <= k
    BY <1>0
  <2>3. Withdrawn(ch, x, t)
    BY <2>0, <2>1, <2>2 DEF Withdrawn
  <2> QED BY <2>0, <2>3
<1> QED BY <1>1, <1>2

(* With a staleness bound set, acceptance rests on a fresh snapshot. *)
THEOREM StatusKnown == Spec => []StatusKnownWhenRequired
<1>1. WalkInv => StatusKnownWhenRequired
  <2> SUFFICES ASSUME WalkInv, NEW t \in Thread, HasAccepted(t), MaxStaleness # None
               PROVE  snap[t] # None /\ now[t] - snap[t].as_of <= MaxStaleness
    BY DEF StatusKnownWhenRequired
  <2>1. /\ chain[t] \in Seq(DelegationCredential)
        /\ VerifyChain(chain[t], at_time[t], now[t], snap[t]) \in Accepted
    BY ChainsAreSequences, Zenon DEF WalkInv, TypeInv, Control, Walk, HasAccepted
  <2>2. snap[t] # None /\ ~(now[t] - snap[t].as_of > MaxStaleness)
    BY <2>1, VerdictMeans, Zenon
  <2>3. now[t] \in Nat /\ snap[t].as_of \in Nat /\ MaxStaleness \in Nat
    BY <2>2, StalenessAssumption, Zenon DEF WalkInv, TypeInv, TypeOK, RevocationSnapshot
  <2> QED BY <2>2, <2>3
<1> QED BY <1>1, WalkAlways, PTL

-----------------------------------------------------------------------------
(* The snapshots seen over time: each is signed throughout, and later ones *)
(* hold at least the statements of earlier ones.                           *)

Older(s1, s2) ==
    s1 # None => /\ s2 # None
                 /\ s1.statements \subseteq s2.statements
                 /\ s1.as_of <= s2.as_of

SignedSnapshot(s) == s # None => \A x \in s.statements : x.signature = x.revoker

Recorded(d) == d.verdict = VerifyChain(d.chain, None, d.now, d.snap)

History(t) ==
    /\ Older(snap[t], feed)
    /\ SignedSnapshot(snap[t])
    /\ \A d \in known[t] : Older(d.snap, snap[t]) /\ Recorded(d)
    /\ (pc[t] \in {"hops", "revocation", "done"} /\ at_time[t] # None
           /\ EntryError(chain[t]) = "ok") => now[t] = at_time[t]

HistoryInv ==
    /\ WalkInv
    /\ feed # None => feed.as_of <= clock
    /\ SignedSnapshot(feed)
    /\ \A d \in decisions : Older(d.snap, feed) /\ Recorded(d)
    /\ \A t \in Thread : History(t)

LEMMA InitHistory == Init => HistoryInv
<1> SUFFICES ASSUME Init PROVE HistoryInv
  OBVIOUS
<1>1. feed = None /\ decisions = {}
  BY DEF Init
<1>2. \A t \in Thread : snap[t] = None /\ known[t] = {} /\ at_time[t] = None
  BY Zenon DEF Init
<1>3. \A t \in Thread : History(t)
  BY <1>2, Zenon DEF History, Older, SignedSnapshot
<1> QED BY <1>1, <1>3, InitWalk, Zenon DEF HistoryInv, SignedSnapshot

(* A refresh never loses a statement: a damaged copy stops the whole       *)
(* snapshot from being built.                                              *)
LEMMA RefreshGrows ==
    ASSUME HistoryInv, NEW held \in SUBSET statements, NEW damaged \in SUBSET held,
           RefreshFeed(held, damaged)
    PROVE  Older(feed, feed') /\ SignedSnapshot(feed') /\ (feed' # None => feed'.as_of <= clock')
<1> DEFINE batch == (held \ damaged) \cup {Damaged(s) : s \in damaged}
<1>0. TypeOK
  BY DEF HistoryInv, WalkInv, TypeInv
<1>1. feed' = Fetched(batch) /\ clock' = clock
  BY DEF RefreshFeed
<1>2. feed # None => feed.as_of \in Nat
  BY <1>0 DEF TypeOK, RevocationSnapshot
<1>3. CASE SnapshotVerifies(batch)
  <2>1. damaged = {}
    <3> SUFFICES ASSUME NEW s \in damaged PROVE FALSE
      OBVIOUS
    <3>1. s \in RevocationStatement
      BY <1>0 DEF TypeOK
    <3>2. Damaged(s).signature = Damaged(s).revoker
      BY <1>3 DEF SnapshotVerifies
    <3>3. Damaged(s).signature = None /\ Damaged(s).revoker \in Key
      BY <3>1 DEF Damaged, RevocationStatement
    <3> QED BY <3>2, <3>3, NoneAssumption
  <2>2. batch = held
    BY <2>1
  <2>3. feed' = [as_of |-> clock, statements |-> held]
    BY <1>1, <1>3, <2>2 DEF Fetched
  <2>4. feed' # None
    <3>1. feed' \in RevocationSnapshot
      BY <1>0, <2>3 DEF TypeOK, RevocationSnapshot
    <3> QED BY <3>1, NoSnapshotAssumption
  <2>5. feed # None => feed.statements \subseteq held /\ feed.as_of <= clock
    BY Zenon DEF RefreshFeed, HistoryInv
  <2>6. SignedSnapshot(feed')
    BY <1>3, <2>2, <2>3 DEF SnapshotVerifies, SignedSnapshot
  <2>7. feed'.as_of <= clock'
    BY <1>0, <1>1, <2>3 DEF TypeOK
  <2> QED BY <2>3, <2>4, <2>5, <2>6, <2>7, Zenon DEF Older
<1>4. CASE ~SnapshotVerifies(batch)
  <2>1. feed' = feed
    BY <1>1, <1>4 DEF Fetched
  <2>2. Older(feed, feed')
    BY <1>2, <2>1 DEF Older
  <2>3. SignedSnapshot(feed) /\ (feed # None => feed.as_of <= clock)
    BY DEF HistoryInv
  <2> QED BY <1>1, <2>1, <2>2, <2>3
<1> QED BY <1>3, <1>4

LEMMA OlderIsTransitive ==
    ASSUME NEW a \in RevocationSnapshot \cup {None}, NEW b \in RevocationSnapshot \cup {None},
           NEW c \in RevocationSnapshot \cup {None}, Older(a, b), Older(b, c)
    PROVE  Older(a, c)
BY DEF Older, RevocationSnapshot

LEMMA OlderIsReflexive ==
    ASSUME NEW a \in RevocationSnapshot \cup {None}
    PROVE  Older(a, a)
BY DEF Older, RevocationSnapshot

LEMMA HistoryThread ==
    ASSUME HistoryInv, NEW t \in Thread, ThreadStep(t)
    PROVE  HistoryInv'
<1>0. TypeOK /\ WalkInv' /\ Control(t) /\ Walk(t) /\ History(t)
  BY WalkInductive DEF HistoryInv, WalkInv, TypeInv, Next
<1>1. UNCHANGED <<clock, feed>>
  BY Zenon DEF ThreadStep, Call, Enter, VerifyHop, NoSnapshot, LookUpRevocation, Return, shared
<1>2. ASSUME NEW u \in Thread, u # t PROVE History(u)'
  BY <1>0, <1>1, <1>2, OtherThreads, Zenon DEF HistoryInv, History
<1>3. ~Return(t) => UNCHANGED decisions
  BY Zenon DEF ThreadStep, Call, Enter, VerifyHop, NoSnapshot, LookUpRevocation
<1>4. ASSUME NEW ch \in Chains, NEW at \in (0..MaxClock) \cup {None}, Call(t, ch, at)
      PROVE  History(t)'
  <2>1. /\ pc'[t] = "enter" /\ snap'[t] = feed /\ known'[t] = decisions
    BY <1>0, <1>4 DEF Call, TypeOK
  <2>2. Older(feed, feed)
    BY <1>0, OlderIsReflexive DEF TypeOK
  <2> QED BY <1>1, <2>1, <2>2, Zenon DEF HistoryInv, History
<1>5. ASSUME Enter(t) PROVE History(t)'
  <2>1. UNCHANGED <<snap, known, chain, at_time>>
    BY <1>5 DEF Enter
  <2>2. EntryError(chain[t]) = "ok" /\ at_time[t] # None => now'[t] = at_time[t]
    BY <1>0, <1>5 DEF Enter, EvaluationTime, TypeOK
  <2> QED BY <1>0, <1>1, <2>1, <2>2, Zenon DEF History
<1>6. ASSUME VerifyHop(t) \/ NoSnapshot(t) \/ LookUpRevocation(t)
      PROVE  History(t)'
  <2>1. /\ UNCHANGED <<snap, known, chain, at_time, now>>
        /\ pc[t] \in {"hops", "revocation"}
    BY <1>6, Zenon DEF VerifyHop, NoSnapshot, LookUpRevocation, locals
  <2> QED BY <1>0, <1>1, <2>1, Zenon DEF History
<1>7. ASSUME Return(t) PROVE History(t)'
  <2>1. snap'[t] = None /\ known'[t] = {} /\ pc'[t] = "idle"
    BY <1>0, <1>7 DEF Return, TypeOK
  <2> QED BY <2>1, Zenon DEF History, Older, SignedSnapshot
<1>8. History(t)'
  BY <1>4, <1>5, <1>6, <1>7 DEF ThreadStep
<1>9. \A d \in decisions' : Older(d.snap, feed) /\ Recorded(d)
  <2>1. CASE Return(t) /\ at_time[t] = None
    <3> DEFINE e == [chain |-> chain[t], now |-> now[t], snap |-> snap[t],
                     verdict |-> verdict[t]]
    <3>1. decisions' = decisions \cup {e}
      BY <2>1 DEF Return
    <3>2. Older(e.snap, feed)
      BY <1>0, Zenon DEF History
    <3>3. Recorded(e)
      BY <1>0, <2>1, Zenon DEF Return, Walk, Recorded
    <3> HIDE DEF e
    <3> QED BY <3>1, <3>2, <3>3 DEF HistoryInv
  <2>2. CASE ~(Return(t) /\ at_time[t] = None)
    <3>1. decisions' = decisions
      BY <1>3, <2>2, Zenon DEF Return
    <3> QED BY <3>1 DEF HistoryInv
  <2> QED BY <2>1, <2>2
<1> QED BY <1>0, <1>1, <1>2, <1>8, <1>9 DEF HistoryInv

LEMMA HistoryInductive == HistoryInv /\ [Next]_vars => HistoryInv'
<1> SUFFICES ASSUME HistoryInv, [Next]_vars PROVE HistoryInv'
  OBVIOUS
<1>0. TypeOK /\ TypeOK' /\ WalkInv'
  BY WalkInductive DEF HistoryInv, WalkInv, TypeInv
<1>1. CASE \E t \in Thread : ThreadStep(t)
  BY <1>1, HistoryThread
<1>2. ASSUME UNCHANGED <<pc, locals, decisions, known>>, Older(feed, feed'),
             SignedSnapshot(feed'), feed' # None => feed'.as_of <= clock'
      PROVE  HistoryInv'
  <2>1. \A d \in decisions : Older(d.snap, feed') /\ Recorded(d)
    BY <1>0, <1>2, OlderIsTransitive, Zenon DEF HistoryInv, TypeOK, Decision
  <2>2. ASSUME NEW u \in Thread PROVE History(u)'
    <3>1. Older(snap[u], feed')
      BY <1>0, <1>2, OlderIsTransitive, Zenon DEF HistoryInv, History, TypeOK
    <3> QED BY <1>2, <3>1, Zenon DEF HistoryInv, History, locals
  <2> QED BY <1>0, <1>2, <2>1, <2>2, Zenon DEF HistoryInv
<1>3. ASSUME UNCHANGED <<pc, locals, decisions, known, feed>>, clock' \in {clock, clock + 1}
      PROVE  HistoryInv'
  <2>1. Older(feed, feed') /\ SignedSnapshot(feed')
    BY <1>0, <1>3, OlderIsReflexive, Zenon DEF TypeOK, HistoryInv
  <2>2. feed' # None => feed'.as_of <= clock'
    BY <1>0, <1>3 DEF TypeOK, RevocationSnapshot, HistoryInv
  <2> QED BY <1>2, <1>3, <2>1, <2>2
<1>4. CASE Tick
  BY <1>3, <1>4 DEF Tick
<1>5. CASE \E k \in Key, c \in Credentials, claimed \in 0..MaxClock : Revoke(k, c, claimed)
  BY <1>3, <1>5 DEF Revoke
<1>6. ASSUME NEW held \in SUBSET statements, NEW damaged \in SUBSET held,
             RefreshFeed(held, damaged)
      PROVE  HistoryInv'
  BY <1>2, <1>6, RefreshGrows, Zenon DEF RefreshFeed
<1>7. CASE UNCHANGED vars
  BY <1>3, <1>7 DEF vars, shared
<1> QED BY <1>1, <1>4, <1>5, <1>6, <1>7 DEF Next

LEMMA HistoryAlways == Spec => []HistoryInv
BY InitHistory, HistoryInductive, PTL DEF Spec

(* A chain is refused as revoked exactly on a signed statement of the      *)
(* snapshot by the issuer of a hop or of one above it; the delegate of a   *)
(* hop cannot withdraw it.                                                 *)
THEOREM OnlyIssuersRevoke == Spec => []RevocationByIssuersOnly
<1>1. HistoryInv => RevocationByIssuersOnly
  <2> SUFFICES ASSUME HistoryInv, NEW t \in Thread, pc[t] = "done"
               PROVE  /\ (verdict[t] \in Accepted /\ snap[t] # None) =>
                             \A s \in snap[t].statements : ~Withdrawn(chain[t], s, at_time[t])
                      /\ verdict[t] = "CredentialRevoked" =>
                             \E s \in snap[t].statements :
                                 s.signature = s.revoker /\ Withdrawn(chain[t], s, at_time[t])
    BY Zenon DEF RevocationByIssuersOnly
  <2>1. /\ chain[t] \in Seq(DelegationCredential)
        /\ verdict[t] = VerifyChain(chain[t], at_time[t], now[t], snap[t])
        /\ SignedSnapshot(snap[t])
    BY ChainsAreSequences, Zenon DEF HistoryInv, History, WalkInv, TypeInv, Control, Walk
  <2>2. CASE verdict[t] \in Accepted /\ snap[t] # None
    BY <2>1, <2>2, VerdictMeans, UnrevokedIsNotWithdrawn, RefusalsAreNotAcceptances, Zenon
       DEF Refusals
  <2>3. CASE verdict[t] = "CredentialRevoked"
    <3>1. verdict[t] \notin Accepted
      BY <2>3, Zenon DEF Accepted
    <3> QED BY <2>1, <2>3, <3>1, VerdictMeans, UnrevokedIsNotWithdrawn, Zenon DEF SignedSnapshot
  <2> QED BY <2>2, <2>3, Zenon
<1> QED BY <1>1, HistoryAlways, PTL

(* Once a live call refused a chain as revoked, no live call that begins   *)
(* after it returned accepts that chain.                                   *)
THEOREM RevocationIsMonotonic == Spec => []RevokedStaysRevoked
<1>1. HistoryInv => RevokedStaysRevoked
  <2> SUFFICES ASSUME HistoryInv, NEW t \in Thread, HasAccepted(t), at_time[t] = None,
                      NEW d \in known[t], d.chain = chain[t], d.verdict = "CredentialRevoked"
               PROVE  FALSE
    BY Zenon DEF RevokedStaysRevoked
  <2>1. /\ chain[t] \in Seq(DelegationCredential)
        /\ VerifyChain(chain[t], None, now[t], snap[t]) \in Accepted
        /\ VerifyChain(chain[t], None, d.now, d.snap) = "CredentialRevoked"
        /\ Older(d.snap, snap[t])
    BY ChainsAreSequences, Zenon
       DEF HistoryInv, History, Recorded, WalkInv, TypeInv, Control, Walk, HasAccepted
  <2>2. /\ d.snap # None /\ ~Unrevoked(chain[t], Len(chain[t]), d.snap, None)
        /\ snap[t] # None => Unrevoked(chain[t], Len(chain[t]), snap[t], None)
    BY <2>1, VerdictMeans, Zenon
  <2>3. snap[t] # None /\ d.snap.statements \subseteq snap[t].statements
    BY <2>1, <2>2, Zenon DEF Older
  <2> QED BY <2>1, <2>2, <2>3, UnrevokedIsNotWithdrawn, Zenon
<1> QED BY <1>1, HistoryAlways, PTL

(* An audit at the time of an accepted live decision repeats it, unless a  *)
(* statement dated by then has come to light since.                        *)
THEOREM AuditRepeatsDecision == Spec => []AuditNotRewritten
<1>1. HistoryInv => AuditNotRewritten
  <2> SUFFICES ASSUME HistoryInv, NEW t \in Thread, pc[t] = "done", at_time[t] # None,
                      NEW d \in known[t], d.chain = chain[t], d.now = at_time[t],
                      d.verdict \in Accepted
               PROVE  \/ verdict[t] \in Accepted
                      \/ /\ verdict[t] = "CredentialRevoked"
                         /\ \E s \in HeldBy(snap[t]) \ HeldBy(d.snap) :
                                Withdrawn(chain[t], s, d.now)
    BY Zenon DEF AuditNotRewritten
  <2> DEFINE ch == chain[t]
             at == at_time[t]
             s == snap[t]
  <2>1. /\ ch \in Seq(DelegationCredential) /\ Len(ch) \in Nat
        /\ verdict[t] = VerifyChain(ch, at, now[t], s)
        /\ VerifyChain(ch, None, at, d.snap) \in Accepted
        /\ Older(d.snap, s)
    BY ChainsAreSequences, ZenonT(40) DEF HistoryInv, History, Recorded, WalkInv, TypeInv, Control, Walk
  <2>2. EntryError(ch) = "ok" /\ HopsPass(ch, Len(ch), at)
    BY <2>1, VerdictPastHops, Zenon
  <2>3. now[t] = at
    BY <2>2, Zenon DEF HistoryInv, History
  <2>4. /\ s = None => verdict[t] = UncheckedVerdict
        /\ s # None /\ Unrevoked(ch, Len(ch), s, at) => verdict[t] = StalenessVerdict(s, at)
        /\ s # None /\ ~Unrevoked(ch, Len(ch), s, at) => verdict[t] = "CredentialRevoked"
    <3>1. verdict[t] = VerifyChain(ch, at, at, s)
      BY <2>1, <2>3, Zenon
    <3> HIDE DEF ch, at, s
    <3> QED BY <2>1, <2>2, <3>1, VerdictOfSnapshot, ZenonT(40)
  <2>5. /\ d.snap = None => MaxStaleness = None
        /\ d.snap # None => /\ Unrevoked(ch, Len(ch), d.snap, None)
                            /\ MaxStaleness # None => ~(at - d.snap.as_of > MaxStaleness)
    BY <2>1, VerdictMeans, Zenon
  <2>6. CASE s = None
    <3>1. d.snap = None
      BY <2>1, <2>6, Zenon DEF Older
    <3> QED BY <2>5, <2>6, <2>4, <3>1, Zenon DEF UncheckedVerdict, Accepted
  <2>7. CASE s # None /\ Unrevoked(ch, Len(ch), s, at)
    <3>1. verdict[t] = StalenessVerdict(s, at)
      BY <2>4, <2>7, Zenon
    <3>2. MaxStaleness # None => ~(at - s.as_of > MaxStaleness)
      <4> SUFFICES ASSUME MaxStaleness # None PROVE ~(at - s.as_of > MaxStaleness)
        OBVIOUS
      <4>1. d.snap # None /\ d.snap.as_of <= s.as_of
        BY <2>1, <2>5, Zenon DEF Older
      <4>2. d.snap.as_of \in Nat /\ s.as_of \in Nat /\ at \in Nat /\ MaxStaleness \in Nat
        <5>1. /\ known[t] \in SUBSET Decision /\ snap[t] \in RevocationSnapshot \cup {None}
              /\ at_time[t] \in Bound
          BY Zenon DEF HistoryInv, WalkInv, TypeInv, TypeOK
        <5>2. d.snap \in RevocationSnapshot \cup {None}
          BY <5>1, Zenon DEF Decision
        <5>3. d.snap \in RevocationSnapshot /\ s \in RevocationSnapshot
          BY <2>7, <4>1, <5>1, <5>2, Zenon
        <5>4. d.snap.as_of \in Nat /\ s.as_of \in Nat
          BY <5>3 DEF RevocationSnapshot
        <5>5. at \in Nat /\ MaxStaleness \in Nat
          BY <5>1, StalenessAssumption DEF Bound
        <5> QED BY <5>4, <5>5
      <4> QED BY <2>5, <4>1, <4>2
    <3> QED BY <3>1, <3>2 DEF StalenessVerdict, Accepted
  <2>8. CASE s # None /\ ~Unrevoked(ch, Len(ch), s, at)
    <3>1. verdict[t] = "CredentialRevoked"
      BY <2>4, <2>8, Zenon
    <3>2. PICK x \in s.statements : Withdrawn(ch, x, at)
      BY <2>1, <2>8, UnrevokedIsNotWithdrawn, Zenon
    <3>3. Withdrawn(ch, x, None)
      BY <3>2, Zenon DEF Withdrawn
    <3>4. d.snap # None => x \notin d.snap.statements
      BY <2>1, <2>5, <3>3, UnrevokedIsNotWithdrawn, Zenon
    <3>5. x \in HeldBy(s) \ HeldBy(d.snap)
      BY <2>8, <3>4, Zenon DEF HeldBy
    <3> QED BY <3>1, <3>2, <3>5
  <2> QED BY <2>6, <2>7, <2>8, Zenon
<1> QED BY <1>1, HistoryAlways, PTL
=============================================================================
