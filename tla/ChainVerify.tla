---------------------------- MODULE ChainVerify -----------------------------
(***************************************************************************)
(* verify_chain as its callers run it: handler threads of one process (and *)
(* auditors replaying a decision with at_time), each walking its chain hop  *)
(* by hop while the clock moves, revocations are signed and the supplier   *)
(* behind revocation_source replaces the snapshot.                         *)
(***************************************************************************)
EXTENDS Delegation, FiniteSets

CONSTANTS
    Thread,         \* the threads that call verify_chain
    Chains,         \* the chains presented to them
    MaxClock,       \* bound on the clock
    MaxStatements,  \* bound on the revocation statements signed
    MaxDecisions    \* bound on the live decisions recorded

ASSUME ChainsAssumption == Chains \subseteq Seq(DelegationCredential)
ASSUME BoundsAssumption == {MaxClock, MaxStatements, MaxDecisions} \subseteq Nat

VARIABLES
    clock,        \* time.time() in whole seconds
    statements,   \* revocation statements signed so far
    feed,         \* what revocation_source() returns: None or a snapshot
    pc,           \* where each thread is in verify_chain
    chain,        \* its chain argument
    at_time,      \* its at_time argument; None for a live decision
    snap,         \* its revocations argument, read once before the call
    now,          \* the evaluation time it fixed on entry
    i,            \* the hop its loop is at
    seen_ids,     \* identifiers of the hops already passed
    authorities,  \* keys that may revoke the hop being looked up
    verdict,      \* what verify_chain raised or returned
    decisions,    \* history: the live decisions returned so far
    known         \* history: those returned before this call began

shared == <<clock, statements, feed>>
locals == <<chain, at_time, snap, now, i, seen_ids, authorities>>
vars == <<shared, pc, locals, verdict, decisions, known>>

Decision ==
    [chain : Chains, now : Nat, snap : RevocationSnapshot \cup {None},
     verdict : Accepted \cup Refusals]

Init ==
    /\ clock = 0
    /\ statements = {}
    /\ feed = None
    /\ pc = [t \in Thread |-> "idle"]
    /\ chain = [t \in Thread |-> << >>]
    /\ at_time = [t \in Thread |-> None]
    /\ snap = [t \in Thread |-> None]
    /\ now = [t \in Thread |-> 0]
    /\ i = [t \in Thread |-> 1]
    /\ seen_ids = [t \in Thread |-> {}]
    /\ authorities = [t \in Thread |-> {}]
    /\ verdict = [t \in Thread |-> "none"]
    /\ decisions = {}
    /\ known = [t \in Thread |-> {}]

-----------------------------------------------------------------------------
(* The environment *)

Tick ==
    /\ clock < MaxClock
    /\ clock' = clock + 1
    /\ UNCHANGED <<statements, feed, pc, locals, verdict, decisions, known>>

(* revoke: key k signs a statement against a credential in circulation.    *)
(* issued_at is what the revoker claims, which may be ahead of the clock   *)
(* (a revoker's fast clock) or behind it (a statement that travelled).     *)
Revoke(k, c, claimed) ==
    /\ Cardinality(statements) < MaxStatements
    /\ statements' = statements \cup {Revocation(c, k, claimed)}
    /\ UNCHANGED <<clock, feed, pc, locals, verdict, decisions, known>>

(* A statement whose bytes were damaged on the way no longer verifies. *)
Damaged(s) == [s EXCEPT !.signature = None]

(* Mutant: the damaged statement is skipped, the rest becomes the snapshot. *)
Fetched_SkipsDamaged(batch) ==
    [as_of |-> clock, statements |-> {s \in batch : s.signature = s.revoker}]

(* The supplier fetches statements, keeping those it has, and builds a new *)
(* snapshot.  When one of the fetched copies is damaged the constructor    *)
(* raises and the snapshot in use stays.                                   *)
Fetched(batch) ==
    IF SnapshotVerifies(batch) THEN [as_of |-> clock, statements |-> batch] ELSE feed

RefreshFeed(held, damaged) ==
    /\ feed # None => feed.statements \subseteq held
    /\ feed' = Fetched((held \ damaged) \cup {Damaged(s) : s \in damaged})
    /\ UNCHANGED <<clock, statements, pc, locals, verdict, decisions, known>>

-----------------------------------------------------------------------------
(* One call of verify_chain *)

(* PeerNode.handle evaluates revocation_source() before it enters          *)
(* verify_chain; an auditor passes the time of the decision it replays.    *)
Call(t, ch, at) ==
    /\ pc[t] = "idle"
    /\ Cardinality(decisions) < MaxDecisions
    /\ pc' = [pc EXCEPT ![t] = "enter"]
    /\ chain' = [chain EXCEPT ![t] = ch]
    /\ at_time' = [at_time EXCEPT ![t] = at]
    /\ snap' = [snap EXCEPT ![t] = feed]
    /\ known' = [known EXCEPT ![t] = decisions]
    /\ UNCHANGED <<shared, now, i, seen_ids, authorities, verdict, decisions>>

Finish(t, outcome) ==
    /\ pc' = [pc EXCEPT ![t] = "done"]
    /\ verdict' = [verdict EXCEPT ![t] = outcome]

(* Mutant: the default of at_time is not resolved. *)
EvaluationTime_NoDefault(t) == at_time[t]

EvaluationTime(t) == IF at_time[t] = None THEN clock ELSE at_time[t]

Enter(t) ==
    /\ pc[t] = "enter"
    /\ IF EntryError(chain[t]) # "ok"
       THEN Finish(t, EntryError(chain[t])) /\ UNCHANGED now
       ELSE /\ now' = [now EXCEPT ![t] = EvaluationTime(t)]
            /\ pc' = [pc EXCEPT ![t] = "hops"]
            /\ UNCHANGED verdict
    /\ UNCHANGED <<shared, chain, at_time, snap, i, seen_ids, authorities, decisions, known>>

SeenAfter(t) == seen_ids[t] \cup {chain[t][i[t]].credential_id}

VerifyHop(t) ==
    LET err == HopError(chain[t], i[t], seen_ids[t], now[t])
        last == i[t] = Len(chain[t])
    IN  /\ pc[t] = "hops"
        /\ IF err # "ok"
           THEN Finish(t, err) /\ UNCHANGED <<i, seen_ids>>
           ELSE /\ seen_ids' = [seen_ids EXCEPT ![t] = SeenAfter(t)]
                /\ i' = [i EXCEPT ![t] = IF last THEN 1 ELSE @ + 1]
                /\ pc' = [pc EXCEPT ![t] = IF last THEN "revocation" ELSE "hops"]
                /\ UNCHANGED verdict
        /\ UNCHANGED <<shared, chain, at_time, snap, now, authorities, decisions, known>>

(* _check_revocation without a snapshot. *)
NoSnapshot(t) ==
    /\ pc[t] = "revocation"
    /\ snap[t] = None
    /\ Finish(t, UncheckedVerdict)
    /\ UNCHANGED <<shared, locals, decisions, known>>

(* Mutant: the delegate may revoke the grant it received. *)
RevokerOf_Subject(c) == c.subject

(* The key added for this hop is its issuer: the subject of a hop has no   *)
(* say until it issues the next one.                                       *)
RevokerOf(c) == c.issuer

(* Mutant: a stale snapshot is refused before it is looked into. *)
LookUpRevocation_StaleFirst(t) ==
    LET c == chain[t][i[t]]
        authorized == authorities[t] \cup {RevokerOf(c)}
    IN  /\ pc[t] = "revocation"
        /\ snap[t] # None
        /\ authorities' = [authorities EXCEPT ![t] = authorized]
        /\ IF StalenessVerdict(snap[t], now[t]) \notin Accepted
           THEN Finish(t, StalenessVerdict(snap[t], now[t])) /\ UNCHANGED i
           ELSE IF EffectiveRevocations(snap[t], c, authorized, at_time[t]) # {}
           THEN Finish(t, "CredentialRevoked") /\ UNCHANGED i
           ELSE IF i[t] = Len(chain[t])
           THEN Finish(t, StalenessVerdict(snap[t], now[t])) /\ UNCHANGED i
           ELSE i' = [i EXCEPT ![t] = @ + 1] /\ UNCHANGED <<pc, verdict>>
        /\ UNCHANGED <<shared, chain, at_time, snap, now, seen_ids, decisions, known>>

(* _check_revocation's loop; the staleness test follows the last hop. *)
LookUpRevocation(t) ==
    LET c == chain[t][i[t]]
        authorized == authorities[t] \cup {RevokerOf(c)}
    IN  /\ pc[t] = "revocation"
        /\ snap[t] # None
        /\ authorities' = [authorities EXCEPT ![t] = authorized]
        /\ IF EffectiveRevocations(snap[t], c, authorized, at_time[t]) # {}
           THEN Finish(t, "CredentialRevoked") /\ UNCHANGED i
           ELSE IF i[t] = Len(chain[t])
           THEN Finish(t, StalenessVerdict(snap[t], now[t])) /\ UNCHANGED i
           ELSE i' = [i EXCEPT ![t] = @ + 1] /\ UNCHANGED <<pc, verdict>>
        /\ UNCHANGED <<shared, chain, at_time, snap, now, seen_ids, decisions, known>>

(* The caller takes the outcome, the call's locals are gone and the thread  *)
(* serves the next call.                                                   *)
Return(t) ==
    /\ pc[t] = "done"
    /\ pc' = [pc EXCEPT ![t] = "idle"]
    /\ decisions' = IF at_time[t] # None THEN decisions
                     ELSE decisions \cup {[chain |-> chain[t], now |-> now[t],
                                           snap |-> snap[t], verdict |-> verdict[t]]}
    /\ chain' = [chain EXCEPT ![t] = << >>]
    /\ at_time' = [at_time EXCEPT ![t] = None]
    /\ snap' = [snap EXCEPT ![t] = None]
    /\ now' = [now EXCEPT ![t] = 0]
    /\ i' = [i EXCEPT ![t] = 1]
    /\ seen_ids' = [seen_ids EXCEPT ![t] = {}]
    /\ authorities' = [authorities EXCEPT ![t] = {}]
    /\ verdict' = [verdict EXCEPT ![t] = "none"]
    /\ known' = [known EXCEPT ![t] = {}]
    /\ UNCHANGED shared

-----------------------------------------------------------------------------
Credentials == UNION {{ch[j] : j \in 1..Len(ch)} : ch \in Chains}

ThreadStep(t) ==
    \/ \E ch \in Chains, at \in (0..MaxClock) \cup {None} : Call(t, ch, at)
    \/ Enter(t)
    \/ VerifyHop(t)
    \/ NoSnapshot(t)
    \/ LookUpRevocation(t)
    \/ Return(t)

Next ==
    \/ Tick
    \/ \E k \in Key, c \in Credentials, claimed \in 0..MaxClock : Revoke(k, c, claimed)
    \/ \E held \in SUBSET statements : \E damaged \in SUBSET held :
           RefreshFeed(held, damaged)
    \/ \E t \in Thread : ThreadStep(t)

Spec == Init /\ [][Next]_vars

-----------------------------------------------------------------------------
(* Type invariant: the locals of every call and the recorded decisions     *)
(* keep their types.                                                       *)
TypeOK ==
    /\ clock \in Nat
    /\ statements \subseteq RevocationStatement
    /\ feed \in RevocationSnapshot \cup {None}
    /\ pc \in [Thread -> {"idle", "enter", "hops", "revocation", "done"}]
    /\ chain \in [Thread -> Chains \cup {<< >>}]
    /\ at_time \in [Thread -> Bound]
    /\ snap \in [Thread -> RevocationSnapshot \cup {None}]
    /\ now \in [Thread -> Nat]
    /\ i \in [Thread -> Nat \ {0}]
    /\ seen_ids \in [Thread -> SUBSET CredId]
    /\ authorities \in [Thread -> SUBSET Key]
    /\ verdict \in [Thread -> Accepted \cup Refusals \cup {"none"}]
    /\ decisions \subseteq Decision
    /\ known \in [Thread -> SUBSET Decision]

HasAccepted(t) == pc[t] = "done" /\ verdict[t] \in Accepted

(* What the first n grants must look like to carry authority at time "at": *)
(* they start at a trusted issuer, each was signed by the party the grant  *)
(* before it names, none exceeds ANY grant above it, and all windows       *)
(* contain the one evaluation time.  Stated over pairs of hops, where the  *)
(* code only compares neighbours.                                          *)
AuthorizesUpTo(ch, n, at) ==
    /\ n <= MaxDepth + 1
    /\ \A k \in 1..n :
          /\ ch[k].signature = ch[k].issuer
          /\ ch[k].depth = k - 1
          /\ ch[k].not_before # None => ch[k].not_before <= at
          /\ ch[k].not_after # None => at <= ch[k].not_after
          /\ k = 1 => ch[k].issuer \in TrustedRoots /\ ch[k].parent_id = None
          /\ k > 1 => /\ ch[k].issuer = ch[k - 1].subject
                      /\ ch[k].parent_id = ch[k - 1].credential_id
    /\ \A j, k \in 1..n :
          j < k => /\ ch[k].scope \subseteq ch[j].scope
                   /\ ch[j].credential_id # ch[k].credential_id

Authorizes(ch, at) == Len(ch) > 0 /\ AuthorizesUpTo(ch, Len(ch), at)

(* A chain verify_chain accepts carries authority, evaluated at one        *)
(* instant, although the clock moves while the loop runs.                  *)
AcceptedChainAuthorizes ==
    \A t \in Thread : HasAccepted(t) => Authorizes(chain[t], now[t])

(* The loops compute the verdict of the one-step definition the other      *)
(* components use: the first failing hop, then revocation, then staleness. *)
LoopComputesVerdict ==
    \A t \in Thread : pc[t] = "done" =>
        verdict[t] = VerifyChain(chain[t], at_time[t], now[t], snap[t])

(* Statement s withdraws a hop of ch under the authority of an issuer at   *)
(* or above that hop, by time "at".                                        *)
Withdrawn(ch, s, at) ==
    \E j, k \in 1..Len(ch) :
        /\ j <= k
        /\ s.revoked_digest = CredentialDigest(ch[k])
        /\ s.revoker = ch[j].issuer
        /\ at # None => s.issued_at <= at

(* An accepted chain has no hop withdrawn, in the snapshot this call was   *)
(* given, by the issuer of that hop or of one above it; a chain is refused *)
(* as revoked only on such a statement, so a delegate never revokes the    *)
(* grant it received (_check_revocation, effective_revocation).            *)
RevocationByIssuersOnly ==
    \A t \in Thread : pc[t] = "done" =>
        /\ (verdict[t] \in Accepted /\ snap[t] # None) =>
               \A s \in snap[t].statements : ~Withdrawn(chain[t], s, at_time[t])
        /\ verdict[t] = "CredentialRevoked" =>
               \E s \in snap[t].statements :
                   s.signature = s.revoker /\ Withdrawn(chain[t], s, at_time[t])

(* With max_revocation_staleness set, acceptance rests on a snapshot that  *)
(* was at most that old at the evaluation time.                            *)
StatusKnownWhenRequired ==
    \A t \in Thread : HasAccepted(t) /\ MaxStaleness # None =>
        snap[t] # None /\ now[t] - snap[t].as_of <= MaxStaleness

(* Revocation is monotonic: once a live call has refused a chain as        *)
(* revoked, no live call that begins later accepts it, whatever was signed *)
(* or fetched in between, damaged fetches included.                        *)
RevokedStaysRevoked ==
    \A t \in Thread : HasAccepted(t) /\ at_time[t] = None =>
        \A d \in known[t] : d.chain = chain[t] => d.verdict # "CredentialRevoked"

HeldBy(snapshot) == IF snapshot = None THEN {} ELSE snapshot.statements

(* "a revocation issued afterwards does not rewrite a decision that was    *)
(* correct when it was made": replaying an accepted live decision at its   *)
(* own time is refused only on a statement dated at or before that time    *)
(* which the live call had not been given.                                 *)
AuditNotRewritten ==
    \A t \in Thread : pc[t] = "done" /\ at_time[t] # None =>
        \A d \in known[t] :
            (d.chain = chain[t] /\ d.now = at_time[t] /\ d.verdict \in Accepted) =>
                \/ verdict[t] \in Accepted
                \/ /\ verdict[t] = "CredentialRevoked"
                   /\ \E s \in HeldBy(snap[t]) \ HeldBy(d.snap) :
                          Withdrawn(chain[t], s, d.now)
=============================================================================
