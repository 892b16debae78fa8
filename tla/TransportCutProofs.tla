------------------------- MODULE TransportCutProofs -------------------------
(***************************************************************************)
(* Proofs about TransportCut and the authenticated responses beneath it:   *)
(* one response per request, none outside its window, none but the peer's  *)
(* own, and so the promise of ResponseOutcome, for any number of calls of  *)
(* verify, of alterations, restarts and repeated deliveries.               *)
(***************************************************************************)
EXTENDS TransportCut, TLAPS

USE Zenon

Reply == [http_status : Status, statement : Statements \cup {None}, mac : Macs \cup {None}]
Handler == [envelope : Envelopes, status : HandlerStatus \cup {None}]
Executed == [envelope : Envelopes, result : {"accepted", "denied"}]

Types ==
    /\ clock \in Nat /\ epoch \in Nat
    /\ wire \subseteq Envelopes
    /\ running \subseteq Handler
    /\ executed \subseteq Executed
    /\ replies \subseteq Reply
    /\ pending \in [Req -> Pending \cup {None}]
    /\ vpc \in [Verifier -> {"idle", "start", "check", "end", "raised", "returned"}]
    /\ vreq \in [Verifier -> Req \cup {None}]
    /\ vmsg \in [Verifier -> Reply \cup {None}]
    /\ vkey \in [Verifier -> Keys \cup {None}]
    /\ outcome \in [Req -> {"none", "waiting", "accepted", "denied", "unknown"}]

(* Nothing is on its way, or worked on, that was not sent for the journaled *)
(* operation.                                                               *)
WireInv ==
    /\ \A env \in wire : env.session = Op /\ outcome[env.session] # "none" /\ journal # None
    /\ \A h \in running :
          /\ h.envelope \in wire
          /\ h.status # None =>
                [envelope |-> h.envelope, result |-> ResultOf(h.status)] \in executed
    /\ \A x \in executed : x.envelope \in wire

(* A MAC is over a result that was reached, for the envelope it names. *)
Genuine(mac) ==
    mac # None =>
        \E x \in executed, s \in HandlerStatus :
            /\ mac = [key |-> ResponseKey(x.envelope), over |-> Statement(x.envelope, s)]
            /\ x.result = ResultOf(s)

RepliesInv == \A m \in replies : Genuine(m.mac)

(* An unused occurrence belongs to a caller that waits, and has its key. *)
PendingInv(r) ==
    pending[r] # None =>
        /\ pending[r].request.session = r /\ pending[r].request.as_sent
        /\ ~pending[r].used => /\ outcome[r] = "waiting"
                               /\ pending[r].key = ResponseKey(pending[r].request)

Busy(v) == vpc[v] \in {"start", "check", "end"}
Began(v) == Busy(v) \/ vpc[v] = "returned"

(* A call of verify that got past the lock has used its occurrence up; one *)
(* that is still running has taken over the key.                           *)
VerifyInv(v) ==
    /\ Began(v) => /\ vreq[v] \in Req
                   /\ outcome[vreq[v]] # "none"
                   /\ pending[vreq[v]] # None => pending[vreq[v]].used
    /\ Busy(v) => /\ pending[vreq[v]] # None
                  /\ outcome[vreq[v]] = "waiting"
                  /\ vkey[v] = ResponseKey(pending[vreq[v]].request)
                  /\ vmsg[v] \in Reply
                  /\ Genuine(vmsg[v].mac)
    /\ vpc[v] = "end" => Authentic(v, vmsg[v])

OneVerifier == \A v, w \in Verifier : Began(v) /\ Began(w) /\ vreq[v] = vreq[w] => v = w

(* The peer reached this result for call r. *)
Reached(r, result) ==
    \E x \in executed : x.envelope.session = r /\ x.envelope.as_sent /\ x.result = result

LearntInv ==
    /\ \A r \in Req : outcome[r] \in {"accepted", "denied"} => Reached(r, outcome[r])
    /\ journal \in {"accepted", "denied"} => Reached(Op, journal)
    /\ recovered \in {"accepted", "denied"} => Reached(Op, recovered)

CallerInv == (\A r \in Req : PendingInv(r)) /\ (\A v \in Verifier : VerifyInv(v)) /\ OneVerifier

(* The inductive invariant. *)
CutInv == Types /\ WireInv /\ RepliesInv /\ CallerInv /\ LearntInv

-----------------------------------------------------------------------------
LEMMA OpReplay == Op \in Req /\ Replay \in Req /\ Op # Replay
BY OpAssumption

LEMMA PendingIsSome == \A p \in Pending : p # None
BY NoneAssumption

LEMMA InitCutInv == CutInit => CutInv
<1> SUFFICES ASSUME CutInit PROVE CutInv
  OBVIOUS
<1>1. Types
  BY DEF CutInit, Init, Types
<1>2. WireInv /\ RepliesInv
  BY DEF CutInit, Init, WireInv, RepliesInv
<1>3. CallerInv
  BY DEF CutInit, Init, CallerInv, PendingInv, VerifyInv, OneVerifier, Began, Busy
<1>4. LearntInv
  BY NoneAssumption DEF CutInit, Init, LearntInv
<1> QED BY <1>1, <1>2, <1>3, <1>4 DEF CutInv

(* A call of verify is disturbed only by what happens to its occurrence. *)
LEMMA VerifyFrame ==
    ASSUME NEW v \in Verifier, VerifyInv(v), executed \subseteq executed',
           vpc'[v] = vpc[v], vreq'[v] = vreq[v], vmsg'[v] = vmsg[v], vkey'[v] = vkey[v],
           Began(v) => /\ pending'[vreq[v]] = pending[vreq[v]]
                       /\ outcome'[vreq[v]] = outcome[vreq[v]]
    PROVE  VerifyInv(v)'
<1>1. Genuine(vmsg[v].mac) => Genuine(vmsg[v].mac)'
  BY DEF Genuine
<1>2. ASSUME vpc[v] = "end" PROVE Authentic(v, vmsg[v])'
  <2>1. Authentic(v, vmsg[v]) /\ pending'[vreq[v]] = pending[vreq[v]]
    BY <1>2 DEF VerifyInv, Began, Busy
  <2>2. Matches(vreq[v], vmsg[v]) => Matches(vreq[v], vmsg[v])'
    BY ZenonT(40), <2>1 DEF Matches
  <2> QED BY <2>1, <2>2 DEF Authentic
<1> QED BY <1>1, <1>2 DEF VerifyInv, Began, Busy

(* What the callee and the network do, and what the clock does, is no      *)
(* concern of the caller's as long as results stay reached.                *)
LEMMA CallerFrame ==
    ASSUME CallerInv, UNCHANGED <<pending, lock, verifier, outcome>>, executed \subseteq executed'
    PROVE  CallerInv'
<1> USE DEF verifier
<1>1. \A r \in Req : PendingInv(r)'
  BY DEF CallerInv, PendingInv
<1>2. ASSUME NEW v \in Verifier
      PROVE  VerifyInv(v)'
  BY VerifyFrame DEF CallerInv
<1>3. OneVerifier'
  BY DEF CallerInv, OneVerifier, Began, Busy
<1> QED BY <1>1, <1>2, <1>3 DEF CallerInv

LEMMA LearntFrame ==
    ASSUME LearntInv, UNCHANGED <<outcome, journal, recovered>>, executed \subseteq executed'
    PROVE  LearntInv'
BY DEF LearntInv, Reached

LEMMA RepliesFrame ==
    ASSUME RepliesInv, UNCHANGED replies, executed \subseteq executed'
    PROVE  RepliesInv'
BY DEF RepliesInv, Genuine

-----------------------------------------------------------------------------
(* The callee *)

LEMMA AdmitCutInv ==
    ASSUME CutInv, NEW env \in wire, Admit(env), UNCHANGED app
    PROVE  CutInv'
<1> USE DEF Admit, CutInv, app
<1>1. env \in Envelopes
  BY DEF Types
<1>2. Malformed \in Reply /\ Malformed.mac = None
  BY StatusAssumption DEF Malformed, Reply
<1>3. [envelope |-> env, status |-> None] \in Handler
  BY <1>1 DEF Handler
<1>4. Types'
  BY <1>2, <1>3 DEF Types, verifier
<1>5. WireInv'
  BY SMTT(30), <1>3 DEF WireInv
<1>6. RepliesInv'
  BY <1>2 DEF RepliesInv, Genuine
<1>7. CallerInv' /\ LearntInv'
  BY CallerFrame, LearntFrame
<1> QED BY <1>4, <1>5, <1>6, <1>7

LEMMA ExecuteCutInv ==
    ASSUME CutInv, NEW h \in running, NEW s \in HandlerStatus, Execute(h, s), UNCHANGED app
    PROVE  CutInv'
<1> USE DEF Execute, CutInv, app
<1>1. h \in Handler /\ h.envelope \in wire
  BY DEF Types, WireInv
<1> DEFINE x == [envelope |-> h.envelope, result |-> ResultOf(s)]
           g == [h EXCEPT !.status = s]
<1>2. x \in Executed
  BY <1>1 DEF Executed, Handler, ResultOf
<1>3. g \in Handler /\ g.envelope = h.envelope /\ g.status = s
  BY <1>1 DEF Handler
<1>4. Types'
  <2>1. running' \subseteq Handler
    BY <1>3 DEF Types
  <2>2. executed' \subseteq Executed
    BY <1>2 DEF Types
  <2> QED BY <2>1, <2>2 DEF Types, network, verifier
<1>5. WireInv'
  <2>1. \A k \in running' : k = g \/ k \in running
    OBVIOUS
  <2>2. /\ x \in executed' /\ executed \subseteq executed'
        /\ \A y \in executed' : y = x \/ y \in executed
    OBVIOUS
  <2>3. wire' = wire /\ outcome' = outcome /\ journal' = journal
    BY DEF network
  <2> HIDE DEF Execute, g, x
  <2>4. x = [envelope |-> g.envelope, result |-> ResultOf(g.status)] /\ x.envelope \in wire
    BY <1>1, <1>3 DEF x
  <2> QED BY <1>1, <1>3, <2>1, <2>2, <2>3, <2>4 DEF WireInv
<1>6. RepliesInv' /\ CallerInv' /\ LearntInv'
  BY RepliesFrame, CallerFrame, LearntFrame DEF network
<1> QED BY <1>4, <1>5, <1>6

LEMMA FinishCutInv ==
    ASSUME CutInv, NEW h \in running, FinishResponse(h), UNCHANGED app
    PROVE  CutInv'
<1> USE DEF CutInv, app
<1> DEFINE st == Statement(h.envelope, h.status)
           m == [http_status |-> h.status, statement |-> st,
                 mac |-> [key |-> ResponseKey(h.envelope), over |-> st]]
           x == [envelope |-> h.envelope, result |-> ResultOf(h.status)]
<1>1. h \in Handler /\ h.status \in HandlerStatus /\ x \in executed
  BY DEF FinishResponse, Types, WireInv, Handler
<1>2. h.envelope \in Envelopes /\ h.status \in Status
  BY ZenonT(40), <1>1 DEF Handler, HandlerStatus
<1>3. st \in Statements
  BY <1>2 DEF Statement, Statements, Kind, Body
<1>4. ResponseKey(h.envelope) \in Keys
  BY <1>2 DEF ResponseKey, Keys, Envelopes
<1>5. m \in Reply
  BY <1>2, <1>3, <1>4 DEF Reply, Macs
<1>6. replies' = replies \cup {m} /\ running' \subseteq running /\ executed' = executed
      /\ UNCHANGED <<clock, epoch, pending, lock, wire, verifier, outcome>>
  BY DEF FinishResponse
<1>7. Genuine(m.mac)'
  BY <1>1, <1>6 DEF Genuine
<1> HIDE DEF m, x, st
<1>8. Types'
  BY <1>5, <1>6 DEF Types, verifier
<1>9. WireInv'
  BY <1>6 DEF WireInv
<1>10. RepliesInv'
  BY <1>6, <1>7 DEF RepliesInv, Genuine
<1>11. CallerInv' /\ LearntInv'
  BY <1>6, CallerFrame, LearntFrame
<1> QED BY <1>8, <1>9, <1>10, <1>11

(* The other ends of a handler, and a restart. *)
LEMMA HandlerEndsCutInv ==
    ASSUME CutInv, UNCHANGED app,
           Restart \/ \E h \in running : FinishFails(h) \/ Drop(h)
    PROVE  CutInv'
<1> USE DEF CutInv, app
<1>1. Malformed \in Reply /\ Malformed.mac = None
  BY StatusAssumption DEF Malformed, Reply
<1>2. /\ running' \subseteq running /\ executed' = executed /\ epoch' \in Nat
      /\ replies' \in {replies, replies \cup {Malformed}}
      /\ UNCHANGED <<clock, pending, lock, wire, verifier, outcome>>
  BY SMTT(30) DEF Restart, FinishFails, Drop, network, Types
<1>3. Types'
  BY <1>1, <1>2 DEF Types, verifier
<1>4. WireInv'
  BY <1>2 DEF WireInv
<1>5. RepliesInv'
  BY <1>1, <1>2 DEF RepliesInv, Genuine
<1>6. CallerInv' /\ LearntInv'
  BY <1>2, CallerFrame, LearntFrame
<1> QED BY <1>3, <1>4, <1>5, <1>6

-----------------------------------------------------------------------------
(* The network and the clock *)

LEMMA AlterRequestCutInv ==
    ASSUME CutInv, NEW env \in wire, AlterRequest(env), UNCHANGED app
    PROVE  CutInv'
<1> USE DEF AlterRequest, CutInv, app
<1> DEFINE e == [env EXCEPT !.as_sent = FALSE]
<1>1. e \in Envelopes /\ e.session = env.session
  BY DEF Types, Envelopes
<1>2. wire' = wire \cup {e}
  OBVIOUS
<1> HIDE DEF e
<1>3. Types'
  BY <1>1, <1>2 DEF Types, server, verifier
<1>4. WireInv'
  BY <1>1, <1>2 DEF WireInv, server
<1>5. RepliesInv' /\ CallerInv' /\ LearntInv'
  BY RepliesFrame, CallerFrame, LearntFrame DEF server
<1> QED BY <1>3, <1>4, <1>5

LEMMA AlterReplyCutInv ==
    ASSUME CutInv, NEW m \in replies, NEW s \in Status, NEW env \in wire, NEW x \in Status,
           AlterReply(m, s, Statement(env, x)), UNCHANGED app
    PROVE  CutInv'
<1> USE DEF AlterReply, CutInv, app
<1> DEFINE n == [m EXCEPT !.http_status = s, !.statement = Statement(env, x)]
<1>1. Statement(env, x) \in Statements
  BY DEF Types, Statement, Statements, Kind, Body
<1>2. n \in Reply /\ n.mac = m.mac
  BY <1>1 DEF Types, Reply
<1>3. Malformed \in Reply /\ Malformed.mac = None
  BY StatusAssumption DEF Malformed, Reply
<1>4. replies' = replies \cup {n, Malformed}
  OBVIOUS
<1> HIDE DEF n
<1>5. Types'
  BY <1>2, <1>3, <1>4 DEF Types, server, verifier
<1>6. WireInv'
  BY DEF WireInv, server
<1>7. RepliesInv'
  BY ZenonT(40), <1>2, <1>3, <1>4 DEF RepliesInv, Genuine, server
<1>8. CallerInv' /\ LearntInv'
  BY CallerFrame, LearntFrame DEF server
<1> QED BY <1>5, <1>6, <1>7, <1>8

LEMMA SetClockCutInv ==
    ASSUME CutInv, NEW n \in 0..MaxClock, SetClock(n), UNCHANGED app
    PROVE  CutInv'
<1> USE DEF SetClock, CutInv, app
<1>1. Types'
  BY SMTT(30), MaxAssumption DEF Types, server, network, verifier
<1>2. WireInv'
  BY DEF WireInv, server, network
<1>3. RepliesInv' /\ CallerInv' /\ LearntInv'
  BY RepliesFrame, CallerFrame, LearntFrame DEF server, network
<1> QED BY <1>1, <1>2, <1>3

-----------------------------------------------------------------------------
(* The application *)

LEMMA JournalCutInv ==
    ASSUME CutInv, JournalSubmitted \/ JournalOutcome \/ ReadJournal
    PROVE  CutInv'
<1> USE DEF CutInv
<1>1. UNCHANGED vars
  BY DEF JournalSubmitted, JournalOutcome, ReadJournal
<1>2. Types'
  BY <1>1 DEF vars, server, network, verifier, Types
<1>3. journal # None => journal' # None
  BY NoneAssumption, OpReplay DEF Types, JournalSubmitted, JournalOutcome, ReadJournal
<1>4. WireInv'
  BY <1>1, <1>3 DEF vars, server, network, WireInv
<1>5. RepliesInv' /\ CallerInv'
  BY <1>1, RepliesFrame, CallerFrame DEF vars, server, network
<1>6. LearntInv'
  BY SMTT(30), <1>1, OpReplay, NoneAssumption
  DEF vars, server, LearntInv, Reached, JournalSubmitted, JournalOutcome, ReadJournal, Unresolved
<1> QED BY <1>2, <1>4, <1>5, <1>6

(* No call of verify is about a request that was not made yet. *)
LEMMA FreshCall ==
    ASSUME CutInv, NEW r \in Req, outcome[r] = "none", NEW v \in Verifier, Began(v)
    PROVE  vreq[v] # r
BY DEF CutInv, CallerInv, VerifyInv

LEMMA SubmitCutInv ==
    ASSUME CutInv, NEW peer \in 1..epoch, Submit(peer)
    PROVE  CutInv'
<1> USE DEF Submit, OpenCall, CutInv, app
<1> DEFINE e == Envelope(Op, peer, TRUE)
           p == [request |-> e, key |-> ResponseKey(e), started |-> clock, used |-> FALSE]
<1>1. Op \in Req
  BY OpReplay
<1>2. e \in Envelopes /\ e.session = Op /\ e.as_sent
  BY SMTT(30), <1>1 DEF Types, Envelope, Envelopes
<1>3. ResponseKey(e) \in Keys
  BY <1>2 DEF ResponseKey, Keys, Envelopes
<1>4. /\ p \in Pending /\ p.request.session = Op /\ p.request.as_sent /\ ~p.used
      /\ p.key = ResponseKey(p.request)
  BY <1>2, <1>3 DEF Types, Pending
<1>5. wire' = wire \cup {e} /\ pending' = [pending EXCEPT ![Op] = p]
  OBVIOUS
<1> HIDE DEF e, p
<1>6. Types'
  <2>1. pending' \in [Req -> Pending \cup {None}]
    <3> HIDE DEF Submit, OpenCall
    <3> QED BY <1>1, <1>4, <1>5 DEF Types
  <2>2. wire' \subseteq Envelopes
    BY <1>2, <1>5 DEF Types
  <2>3. outcome' \in [Req -> {"none", "waiting", "accepted", "denied", "unknown"}]
    BY <1>1 DEF Types
  <2> QED BY <2>1, <2>2, <2>3 DEF Types, server, verifier
<1>7. WireInv'
  BY <1>1, <1>2, <1>5, NoneAssumption DEF Types, WireInv, server
<1>8. RepliesInv'
  BY RepliesFrame DEF server
<1>9. ASSUME NEW r \in Req
      PROVE  PendingInv(r)'
  <2>1. CASE r = Op
    <3>1. pending'[r] = p /\ outcome'[r] = "waiting"
      BY <1>1, <1>5, <2>1 DEF Types
    <3> QED BY <1>4, <2>1, <3>1 DEF PendingInv
  <2>2. CASE r # Op
    <3>1. pending'[r] = pending[r] /\ outcome'[r] = outcome[r]
      BY <1>5, <2>2 DEF Types
    <3> QED BY <3>1 DEF CallerInv, PendingInv
  <2> QED BY <2>1, <2>2
<1>10. ASSUME NEW v \in Verifier
       PROVE  VerifyInv(v)'
  <2>1. Began(v) => vreq[v] # Op /\ vreq[v] \in Req
    BY <1>1, FreshCall DEF CallerInv, VerifyInv
  <2>2. Began(v) => pending'[vreq[v]] = pending[vreq[v]] /\ outcome'[vreq[v]] = outcome[vreq[v]]
    BY <2>1, <1>5 DEF Types
  <2> QED BY <2>2, VerifyFrame DEF CallerInv, server, verifier
<1>11. OneVerifier'
  BY DEF CallerInv, OneVerifier, verifier, Began, Busy
<1>12. LearntInv'
  BY ZenonT(40) DEF Types, LearntInv, Reached, server
<1> QED BY <1>6, <1>7, <1>8, <1>9, <1>10, <1>11, <1>12 DEF CallerInv

LEMMA TimesOutCutInv ==
    ASSUME CutInv, TimesOut
    PROVE  CutInv'
<1> USE DEF TimesOut, GiveUp, CutInv, app
<1>1. Op \in Req
  BY OpReplay
<1>2. Types'
  BY <1>1 DEF Types, server, network, verifier
<1>3. WireInv'
  BY <1>1 DEF Types, WireInv, server, network
<1>4. RepliesInv'
  BY RepliesFrame DEF server, network
<1>5. \A r \in Req : PendingInv(r)'
  BY ZenonT(40), <1>1 DEF Types, CallerInv, PendingInv
<1>6. ASSUME NEW v \in Verifier
      PROVE  VerifyInv(v)'
  <2>1. VerifyInv(v)
    BY DEF CallerInv
  <2>2. Began(v) => vreq[v] # Op /\ vreq[v] \in Req
    BY <2>1 DEF VerifyInv
  <2>3. Began(v) => pending'[vreq[v]] = pending[vreq[v]] /\ outcome'[vreq[v]] = outcome[vreq[v]]
    BY <2>2 DEF Types
  <2> QED BY <2>1, <2>3, VerifyFrame DEF server, verifier
<1>7. OneVerifier'
  BY DEF CallerInv, OneVerifier, verifier, Began, Busy
<1>8. LearntInv'
  BY ZenonT(40), <1>1 DEF Types, LearntInv, Reached, server
<1> QED BY <1>2, <1>3, <1>4, <1>5, <1>6, <1>7, <1>8 DEF CallerInv

LEMMA EndCutInv ==
    ASSUME CutInv, End
    PROVE  CutInv'
<1> USE DEF End, LoseCaller, CutInv
<1>1. Types'
  BY DEF Types, server, network
<1>2. WireInv'
  BY OpReplay DEF Types, WireInv, server, network
<1>3. RepliesInv'
  BY RepliesFrame DEF server, network
<1>4. \A r \in Req : PendingInv(r)'
  BY DEF PendingInv
<1>5. \A v \in Verifier : VerifyInv(v)'
  BY DEF Types, CallerInv, VerifyInv, Began, Busy
<1>6. OneVerifier'
  BY DEF Types, CallerInv, OneVerifier, Began, Busy
<1>7. LearntInv'
  BY ZenonT(40) DEF Types, LearntInv, Reached, server
<1> QED BY <1>1, <1>2, <1>3, <1>4, <1>5, <1>6, <1>7 DEF CallerInv

-----------------------------------------------------------------------------
(* Verifying a response *)

(* The steps that take the lock: v becomes busy on r, about which no other *)
(* call of verify is.                                                      *)
LEMMA TakeCutInv ==
    ASSUME CutInv, NEW v \in Verifier, NEW r \in Req, NEW m \in replies, NEW p \in Pending,
           p.used, p.request.session = r, p.request.as_sent, vpc[v] = "idle",
           \A w \in Verifier : Began(w) => vreq[w] # r,
           pending' = [pending EXCEPT ![r] = p],
           outcome' = [outcome EXCEPT ![r] = "waiting"], outcome[r] \in {"none", "waiting"},
           vpc' = [vpc EXCEPT ![v] = "start"], vreq' = [vreq EXCEPT ![v] = r],
           vmsg' = [vmsg EXCEPT ![v] = m], vkey' = [vkey EXCEPT ![v] = ResponseKey(p.request)],
           UNCHANGED <<clock, server, network, app>>
    PROVE  CutInv'
<1> USE DEF CutInv, app
<1> DEFINE key == ResponseKey(p.request)
<1>1. m \in Reply /\ Genuine(m.mac) /\ p # None
  BY PendingIsSome DEF Types, RepliesInv
<1>2. key \in Keys
  BY DEF Pending, ResponseKey, Keys, Envelopes
<1> HIDE DEF key
<1>3. Types'
  <2>1. pending' \in [Req -> Pending \cup {None}]
    BY DEF Types
  <2>2. /\ vpc' \in [Verifier -> {"idle", "start", "check", "end", "raised", "returned"}]
        /\ vreq' \in [Verifier -> Req \cup {None}]
        /\ vmsg' \in [Verifier -> Reply \cup {None}]
        /\ vkey' \in [Verifier -> Keys \cup {None}]
    BY <1>1, <1>2 DEF Types, key
  <2>3. outcome' \in [Req -> {"none", "waiting", "accepted", "denied", "unknown"}]
    BY DEF Types
  <2> QED BY <2>1, <2>2, <2>3 DEF Types, server, network
<1>4. WireInv'
  BY OpReplay DEF Types, WireInv, server, network
<1>5. RepliesInv'
  BY RepliesFrame DEF server, network
<1>6. ASSUME NEW q \in Req
      PROVE  PendingInv(q)'
  <2>1. CASE q = r
    <3>1. pending'[q] = p
      BY <2>1 DEF Types
    <3> QED BY <2>1, <3>1 DEF PendingInv
  <2>2. CASE q # r
    <3>1. pending'[q] = pending[q] /\ outcome'[q] = outcome[q]
      BY <2>2 DEF Types
    <3> QED BY ZenonT(40), <3>1 DEF CallerInv, PendingInv
  <2> QED BY <2>1, <2>2
<1>7. ASSUME NEW w \in Verifier
      PROVE  VerifyInv(w)'
  <2>1. CASE w = v
    <3>1. /\ vpc'[w] = "start" /\ vreq'[w] = r /\ vmsg'[w] = m /\ vkey'[w] = key
          /\ pending'[r] = p /\ outcome'[r] = "waiting"
      BY <2>1 DEF Types, key
    <3>2. Genuine(m.mac)'
      BY <1>1 DEF Genuine, server
    <3> QED BY <1>1, <3>1, <3>2 DEF VerifyInv, Began, Busy, key
  <2>2. CASE w # v
    <3>1. vpc'[w] = vpc[w] /\ vreq'[w] = vreq[w] /\ vmsg'[w] = vmsg[w] /\ vkey'[w] = vkey[w]
      BY <2>2 DEF Types
    <3>2. Began(w) => vreq[w] # r /\ vreq[w] \in Req
      BY DEF CallerInv, VerifyInv
    <3>3. Began(w) => pending'[vreq[w]] = pending[vreq[w]] /\ outcome'[vreq[w]] = outcome[vreq[w]]
      BY <3>2 DEF Types
    <3> QED BY <3>1, <3>3, VerifyFrame DEF CallerInv, server
  <2> QED BY <2>1, <2>2
<1>8. OneVerifier'
  <2>1. \A w \in Verifier : w # v => vpc'[w] = vpc[w] /\ vreq'[w] = vreq[w]
    BY DEF Types
  <2>2. vreq'[v] = r
    BY DEF Types
  <2> QED BY SMTT(30), <2>1, <2>2 DEF CallerInv, OneVerifier, Began, Busy
<1>9. LearntInv'
  BY ZenonT(40) DEF Types, LearntInv, Reached, server
<1> QED BY <1>3, <1>4, <1>5, <1>6, <1>7, <1>8, <1>9 DEF CallerInv

LEMMA EnterVerifyCutInv ==
    ASSUME CutInv, NEW v \in Verifier, NEW m \in replies, EnterVerify(v, Op, m), UNCHANGED app
    PROVE  CutInv'
<1> USE DEF EnterVerify
<1>1. Op \in Req /\ pending[Op] \in Pending
  BY OpReplay DEF CutInv, Types
<1>2. CASE pending[Op].used
  <2> USE DEF CutInv, app
  <2>1. Types'
    BY <1>1, <1>2 DEF Types, server, network
  <2>2. WireInv'
    BY DEF WireInv, server, network
  <2>3. RepliesInv'
    BY RepliesFrame DEF server, network
  <2>4. \A r \in Req : PendingInv(r)'
    BY <1>2 DEF CallerInv, PendingInv
  <2>5. ASSUME NEW w \in Verifier
        PROVE  VerifyInv(w)'
    <3>1. CASE w = v
      <4>1. vpc'[w] = "raised"
        BY <1>2, <3>1 DEF Types
      <4> QED BY <4>1 DEF VerifyInv, Began, Busy
    <3>2. CASE w # v
      <4>1. /\ vpc'[w] = vpc[w] /\ vreq'[w] = vreq[w] /\ vmsg'[w] = vmsg[w] /\ vkey'[w] = vkey[w]
            /\ pending' = pending /\ outcome' = outcome
        BY <1>2, <3>2 DEF Types
      <4> QED BY <4>1, VerifyFrame DEF CallerInv, server
    <3> QED BY <3>1, <3>2
  <2>6. OneVerifier'
    <3>1. vpc'[v] = "raised" /\ \A w \in Verifier : w # v => vpc'[w] = vpc[w] /\ vreq'[w] = vreq[w]
      BY <1>2 DEF Types
    <3> QED BY SMTT(30), <3>1 DEF CallerInv, OneVerifier, Began, Busy
  <2>7. LearntInv'
    BY LearntFrame DEF server
  <2> QED BY <2>1, <2>2, <2>3, <2>4, <2>5, <2>6, <2>7 DEF CallerInv
<1>3. CASE ~pending[Op].used
  <2> DEFINE p == [pending[Op] EXCEPT !.used = TRUE, !.key = None]
  <2>1. p \in Pending /\ p.used /\ p.request = pending[Op].request
    BY <1>1 DEF Pending
  <2>2. pending' = [pending EXCEPT ![Op] = p]
    BY <1>1, <1>3 DEF Consume, CutInv, Types
  <2>3. PendingInv(Op)
    BY <1>1 DEF CutInv, CallerInv
  <2>4. outcome[Op] = "waiting" /\ outcome' = [outcome EXCEPT ![Op] = "waiting"]
    BY ZenonT(40), <1>1, <1>3, <2>3 DEF PendingInv, CutInv, Types
  <2>5. \A w \in Verifier : Began(w) => vreq[w] # Op
    BY <1>3 DEF CutInv, CallerInv, VerifyInv
  <2>6. /\ vkey' = [vkey EXCEPT ![v] = ResponseKey(p.request)]
        /\ p.request.session = Op /\ p.request.as_sent
    BY <1>3, <2>1, <2>3 DEF PendingInv
  <2>7. /\ vpc[v] = "idle" /\ vpc' = [vpc EXCEPT ![v] = "start"]
        /\ vreq' = [vreq EXCEPT ![v] = Op] /\ vmsg' = [vmsg EXCEPT ![v] = m]
        /\ UNCHANGED <<clock, server, network, app>>
    BY <1>3 DEF Begins
  <2> HIDE DEF p, EnterVerify
  <2> QED BY <1>1, <2>1, <2>2, <2>4, <2>5, <2>6, <2>7, TakeCutInv
<1> QED BY <1>2, <1>3

LEMMA PresentCaptureCutInv ==
    ASSUME CutInv, NEW v \in Verifier, NEW m \in replies, PresentCapture(v, m)
    PROVE  CutInv'
<1> USE DEF PresentCapture
<1> DEFINE e == Envelope(Replay, epoch, TRUE)
           p == [request |-> e, key |-> None, started |-> clock, used |-> TRUE]
<1>1. Replay \in Req
  BY OpReplay
<1>2. e \in Envelopes /\ e.session = Replay /\ e.as_sent
  BY <1>1 DEF CutInv, Types, Envelope, Envelopes
<1>3. p \in Pending /\ p.request = e /\ p.used
  BY ZenonT(30), <1>2 DEF CutInv, Types, Pending
<1>4. /\ vpc[v] = "idle" /\ vpc' = [vpc EXCEPT ![v] = "start"]
      /\ vreq' = [vreq EXCEPT ![v] = Replay] /\ vmsg' = [vmsg EXCEPT ![v] = m]
      /\ outcome[Replay] = "none" /\ outcome' = [outcome EXCEPT ![Replay] = "waiting"]
      /\ UNCHANGED <<clock, server, network, app>>
  BY DEF Begins
<1>5. \A w \in Verifier : Began(w) => vreq[w] # Replay
  BY <1>1, FreshCall
<1>6. /\ pending' = [pending EXCEPT ![Replay] = p]
      /\ vkey' = [vkey EXCEPT ![v] = ResponseKey(p.request)]
  OBVIOUS
<1> HIDE DEF e, p, PresentCapture
<1> QED BY <1>1, <1>2, <1>3, <1>4, <1>5, <1>6, TakeCutInv

LEMMA ProceedCutInv ==
    ASSUME CutInv, NEW v \in Verifier, Busy(v), NEW label \in {"check", "end"},
           label = "end" => Authentic(v, vmsg[v]), Proceed(v, label),
           UNCHANGED <<clock, server, pending, network, vreq, app>>
    PROVE  CutInv'
<1> USE DEF Proceed, CutInv, app
<1>1. Types'
  BY DEF Types, server, network
<1>2. WireInv' /\ RepliesInv' /\ LearntInv'
  BY RepliesFrame, LearntFrame DEF WireInv, server, network
<1>3. \A r \in Req : PendingInv(r)'
  BY DEF CallerInv, PendingInv
<1>4. ASSUME NEW w \in Verifier
      PROVE  VerifyInv(w)'
  <2>1. VerifyInv(w)
    BY DEF CallerInv
  <2>2. CASE w = v
    <3>1. vpc'[w] = label
      BY <2>2 DEF Types
    <3>2. Genuine(vmsg[v].mac) => Genuine(vmsg[v].mac)'
      BY DEF Genuine, server
    <3>3. Authentic(v, vmsg[v]) => Authentic(v, vmsg[v])'
      BY ZenonT(30) DEF Authentic, Matches
    <3> QED BY <2>1, <2>2, <3>1, <3>2, <3>3 DEF VerifyInv, Began, Busy
  <2>3. CASE w # v
    <3>1. vpc'[w] = vpc[w]
      BY <2>3 DEF Types
    <3> QED BY <2>1, <3>1, VerifyFrame DEF server
  <2> QED BY <2>2, <2>3
<1>5. OneVerifier'
  <2>1. \A w \in Verifier : Began(w)' <=> Began(w)
    BY DEF Types, Began, Busy
  <2> QED BY <2>1 DEF CallerInv, OneVerifier
<1> QED BY <1>1, <1>2, <1>3, <1>4, <1>5 DEF CallerInv

LEMMA LeaveCutInv ==
    ASSUME CutInv, NEW v \in Verifier, Busy(v), NEW label \in {"raised", "returned"},
           NEW learnt \in {"accepted", "denied", "unknown"},
           learnt # "unknown" => Reached(vreq[v], learnt), Leave(v, label, learnt),
           UNCHANGED <<clock, server, pending, network, vreq, app>>
    PROVE  CutInv'
<1> USE DEF Leave, CutInv, app
<1>1. VerifyInv(v) /\ vreq[v] \in Req
  BY DEF CallerInv, VerifyInv, Began
<1>2. Types'
  BY <1>1 DEF Types, server, network
<1>3. WireInv'
  BY <1>1, OpReplay DEF Types, WireInv, server, network
<1>4. RepliesInv'
  BY RepliesFrame DEF server, network
<1>5. ASSUME NEW r \in Req
      PROVE  PendingInv(r)'
  <2>1. r # vreq[v] => outcome'[r] = outcome[r]
    BY DEF Types
  <2>2. PendingInv(r) /\ (r = vreq[v] /\ pending[r] # None => pending[r].used)
    BY <1>1 DEF CallerInv, VerifyInv, Began
  <2> QED BY <2>1, <2>2 DEF PendingInv
<1>6. ASSUME NEW w \in Verifier
      PROVE  VerifyInv(w)'
  <2>1. CASE w = v
    <3>1. vpc'[w] = label /\ outcome'[vreq[v]] = learnt
      BY <1>1, <2>1 DEF Types
    <3> QED BY <1>1, <2>1, <3>1 DEF VerifyInv, Began, Busy
  <2>2. CASE w # v
    <3>1. vpc'[w] = vpc[w] /\ vmsg'[w] = vmsg[w] /\ vkey'[w] = vkey[w]
      BY <2>2 DEF Types
    <3>2. Began(w) => vreq[w] # vreq[v] /\ vreq[w] \in Req
      BY <2>2 DEF CallerInv, OneVerifier, VerifyInv, Began
    <3>3. Began(w) => outcome'[vreq[w]] = outcome[vreq[w]]
      BY <3>2 DEF Types
    <3>4. VerifyInv(w)
      BY DEF CallerInv
    <3> QED BY <3>1, <3>3, <3>4, VerifyFrame DEF server
  <2> QED BY <2>1, <2>2
<1>7. OneVerifier'
  <2>1. \A w \in Verifier : Began(w)' => Began(w)
    BY DEF Types, Began, Busy
  <2> QED BY <2>1 DEF CallerInv, OneVerifier
<1>8. LearntInv'
  <2>1. \A r \in Req : r # vreq[v] => outcome'[r] = outcome[r]
    BY DEF Types
  <2>2. outcome'[vreq[v]] = learnt
    BY <1>1 DEF Types
  <2> QED BY SMTT(30), <1>1, <2>1, <2>2 DEF LearntInv, Reached, server
<1> QED BY <1>2, <1>3, <1>4, <1>5, <1>6, <1>7, <1>8 DEF CallerInv

(* A response that passed the checks of verify states a result the peer    *)
(* reached for the very request: the key is derived from the envelope.     *)
LEMMA AuthenticIsReached ==
    ASSUME CutInv, NEW v \in Verifier, vpc[v] = "end"
    PROVE  Reached(vreq[v], ResultOf(vmsg[v].http_status))
<1> DEFINE m == vmsg[v]
           request == pending[vreq[v]].request
<1>1. VerifyInv(v) /\ vreq[v] \in Req
  BY DEF CutInv, CallerInv, VerifyInv, Began, Busy
<1>2. m \in Reply /\ Genuine(m.mac) /\ Authentic(v, m) /\ vkey[v] = ResponseKey(request)
  BY <1>1 DEF VerifyInv, Busy
<1>3. request \in Envelopes /\ request.session = vreq[v] /\ request.as_sent
  <2>1. pending[vreq[v]] # None
    BY <1>1 DEF VerifyInv, Busy
  <2>2. pending[vreq[v]] \in Pending /\ PendingInv(vreq[v])
    BY <1>1, <2>1 DEF CutInv, Types, CallerInv
  <2> QED BY <2>1, <2>2 DEF PendingInv, Pending
<1> HIDE DEF m, request
<1>4. m.statement \in Statements /\ m.mac = [key |-> ResponseKey(request), over |-> m.statement]
      /\ m.statement.status = m.http_status
  BY <1>2 DEF Authentic, Matches, Reply
<1>5. ResponseKey(request) \in Keys
  BY <1>3 DEF ResponseKey, Keys, Envelopes
<1>6. m.mac \in Macs
  BY SMTT(30), <1>4, <1>5 DEF Macs
<1>7. m.mac # None
  BY <1>6, NoneAssumption
<1>8. PICK x \in executed, s \in HandlerStatus :
        /\ m.mac = [key |-> ResponseKey(x.envelope), over |-> Statement(x.envelope, s)]
        /\ x.result = ResultOf(s)
  BY <1>2, <1>7 DEF Genuine
<1>9. ResponseKey(x.envelope) = ResponseKey(request) /\ m.statement = Statement(x.envelope, s)
  BY SMTT(30), <1>4, <1>8
<1>10. x.envelope = request /\ s = m.http_status
  BY SMTT(30), <1>4, <1>9 DEF ResponseKey, Statement
<1> QED BY <1>3, <1>8, <1>10 DEF Reached, m

LEMMA RunningCutInv ==
    ASSUME CutInv, NEW v \in Verifier, Running(v)
    PROVE  CutInv'
<1> USE DEF Running
<1>1. CASE CheckStart(v)
  BY ZenonT(30), <1>1, ProceedCutInv, LeaveCutInv DEF CheckStart, Busy
<1>2. CASE CheckReply(v)
  BY ZenonT(30), <1>2, ProceedCutInv, LeaveCutInv DEF CheckReply, Busy
<1>3. CASE CheckEnd(v)
  <2>1. Busy(v) /\ UNCHANGED <<clock, server, pending, network, vreq, app>>
    BY <1>3 DEF CheckEnd, Busy
  <2>2. Reached(vreq[v], ResultOf(vmsg[v].http_status))
    BY <1>3, AuthenticIsReached DEF CheckEnd
  <2>3. ResultOf(vmsg[v].http_status) \in {"accepted", "denied", "unknown"}
    BY DEF ResultOf
  <2> QED BY <1>3, <2>1, <2>2, <2>3, LeaveCutInv DEF CheckEnd
<1> QED BY <1>1, <1>2, <1>3

-----------------------------------------------------------------------------
(* Only the last step of verify returns, and only in time. *)
LEMMA OnlyCheckEndReturns ==
    ASSUME CutInv, [CutNext]_cutVars, NEW v \in Verifier,
           vpc[v] # "returned", vpc'[v] = "returned"
    PROVE  CheckEnd(v) /\ InTime(vreq[v])
<1> USE DEF CutInv, Types
<1>1. ASSUME UNCHANGED vpc
      PROVE  FALSE
  BY <1>1
<1>2. CASE UNCHANGED cutVars \/ JournalSubmitted \/ JournalOutcome \/ ReadJournal
  BY <1>1, <1>2
  DEF cutVars, vars, verifier, JournalSubmitted, JournalOutcome, ReadJournal
<1>3. CASE (\E peer \in 1..epoch : Submit(peer)) \/ TimesOut
           \/ \E n \in 0..MaxClock : SetClock(n)
  BY ZenonT(30), <1>1, <1>3 DEF Submit, OpenCall, TimesOut, GiveUp, SetClock, verifier
<1>4. CASE Server \/ Network
  BY <1>1, <1>4 DEF Server, Network, Admit, Execute, FinishResponse, FinishFails, Drop,
     Restart, AlterRequest, AlterReply, verifier
<1>5. CASE End
  BY <1>5 DEF End, LoseCaller
<1>6. CASE \E w \in Verifier, m \in replies : PresentCapture(w, m) \/ EnterVerify(w, Op, m)
  BY ZenonT(30), <1>6 DEF PresentCapture, EnterVerify
<1>7. CASE \E w \in Verifier : Running(w)
  <2>1. PICK w \in Verifier : Running(w)
    BY <1>7
  <2>2. w = v
    BY <2>1 DEF Running, CheckStart, CheckReply, CheckEnd, Proceed, Leave
  <2> QED BY <2>1, <2>2 DEF Running, CheckStart, CheckReply, CheckEnd, Proceed, Leave
<1> QED BY <1>2, <1>3, <1>4, <1>5, <1>6, <1>7 DEF CutNext

LEMMA NextCutInv == CutInv /\ [CutNext]_cutVars => CutInv'
<1> SUFFICES ASSUME CutInv, [CutNext]_cutVars PROVE CutInv'
  OBVIOUS
<1>1. CASE UNCHANGED cutVars
  <2> USE <1>1 DEF cutVars, vars, server, network, verifier, app, CutInv
  <2>1. Types' /\ WireInv'
    BY DEF Types, WireInv
  <2>2. RepliesInv' /\ CallerInv' /\ LearntInv'
    BY RepliesFrame, CallerFrame, LearntFrame
  <2> QED BY <2>1, <2>2
<1>2. CASE Server /\ UNCHANGED app
  BY <1>2, AdmitCutInv, ExecuteCutInv, FinishCutInv, HandlerEndsCutInv DEF Server
<1>3. CASE Network /\ UNCHANGED app
  BY <1>3, AlterRequestCutInv, AlterReplyCutInv DEF Network
<1>4. CASE CutNext
  BY <1>2, <1>3, <1>4, JournalCutInv, SubmitCutInv, EndCutInv, PresentCaptureCutInv,
     TimesOutCutInv, RunningCutInv, EnterVerifyCutInv, SetClockCutInv DEF CutNext
<1> QED BY <1>1, <1>4

LEMMA AlwaysCutInv == CutSpec => []CutInv
BY InitCutInv, NextCutInv, PTL DEF CutSpec

(* At most one call of PendingResponse.verify returns a response for a     *)
(* request, whatever the other calls are given and however they interleave. *)
THEOREM ResponseIsUsedOnce == CutSpec => []OneResponsePerRequest
<1>1. CutInv => OneResponsePerRequest
  BY DEF CutInv, CallerInv, OneVerifier, OneResponsePerRequest, Began
<1> QED BY <1>1, AlwaysCutInv, PTL

(* An application restarted after any crash knows of its operation if the  *)
(* peer worked on it, and claims a result only if the peer reached it.     *)
THEOREM RestartKnows == CutSpec => []RestartKnowsItsOperation
<1>1. ASSUME CutInv
      PROVE  RestartKnowsItsOperation
  <2> USE <1>1 DEF CutInv
  <2>1. executed # {} => journal # None
    BY DEF WireInv
  <2>2. ASSUME NEW result, Reached(Op, result)
        PROVE  result \in reached[Op]
    BY <2>2, OpReplay DEF Reached, reached
  <2>3. outcome[Replay] \in {"none", "waiting", "unknown"}
    <3>1. \A result : ~Reached(Replay, result)
      BY OpReplay DEF Reached, WireInv
    <3> QED BY <3>1, OpReplay DEF Types, LearntInv
  <2> QED BY <2>1, <2>2, <2>3 DEF LearntInv, RestartKnowsItsOperation
<1> QED BY <1>1, AlwaysCutInv, PTL

(* verify returns a response only inside the window of its occurrence:     *)
(* _check_deadline stands behind the last check, and the clock may have    *)
(* been set to anything meanwhile.                                         *)
THEOREM ResponseIsInTime == CutSpec => NoLateResponse
<1>1. ASSUME CutInv, [CutNext]_cutVars, NEW v \in Verifier,
             vpc[v] # "returned", vpc'[v] = "returned"
      PROVE  clock \in pending[vreq[v]].started..(pending[vreq[v]].started + Timeout - 1)
  <2>1. CheckEnd(v) /\ InTime(vreq[v])
    BY <1>1, OnlyCheckEndReturns
  <2>2. pending[vreq[v]] \in Pending
    BY SMTT(30), <1>1, <2>1 DEF CutInv, Types, CallerInv, VerifyInv, CheckEnd, Began, Busy
  <2> QED BY SMTT(30), <1>1, <2>1, <2>2, TimeoutAssumption DEF InTime, CutInv, Types, Pending
<1>2. CutInv /\ [CutNext]_cutVars =>
        [\A v \in Verifier :
          (vpc[v] # "returned" /\ vpc'[v] = "returned") =>
              LET p == pending[vreq[v]]
              IN  clock \in p.started..(p.started + Timeout - 1)]_vars
  BY <1>1
<1> QED BY <1>2, AlwaysCutInv, PTL DEF CutSpec, NoLateResponse

-----------------------------------------------------------------------------
(* The refinement *)

LEMMA ReachedUnchanged ==
    ASSUME UNCHANGED executed
    PROVE  UNCHANGED reached
BY DEF reached

(* One caller or several settle with the same outcome. *)
LEMMA SettleOne ==
    ASSUME NEW r \in Req, NEW o \in {"accepted", "denied", "unknown"}, Types,
           outcome[r] = "waiting", o # "unknown" => Reached(r, o),
           outcome' = [outcome EXCEPT ![r] = o], UNCHANGED executed
    PROVE  Promise!Next
<1>1. o \in reached[r] \cup {"unknown"}
  BY DEF Reached, reached
<1>2. outcome' = [q \in Req |-> IF q \in {r} THEN o ELSE outcome[q]]
  BY DEF Types
<1>3. Promise!Settle({r}, o)
  BY <1>1, <1>2, ReachedUnchanged DEF Promise!Settle
<1> QED BY <1>3 DEF Promise!Next, Promise!Results

LEMMA ExecuteReaches ==
    ASSUME CutInv, NEW h \in running, NEW s \in HandlerStatus, Execute(h, s)
    PROVE  [Promise!Next]_(Promise!vars)
<1> DEFINE x == [envelope |-> h.envelope, result |-> ResultOf(s)]
           r == h.envelope.session
<1>1. h.envelope \in wire /\ r \in Req /\ outcome[r] # "none"
  BY OpReplay DEF CutInv, WireInv
<1>2. executed' = executed \cup {x} /\ UNCHANGED outcome
  BY DEF Execute
<1>3. ResultOf(s) \in Promise!Results
  BY DEF ResultOf, Promise!Results
<1>4. CASE h.envelope.as_sent
  <2>1. ASSUME NEW q \in Req
        PROVE  reached'[q] = IF q = r THEN reached[q] \cup {ResultOf(s)} ELSE reached[q]
    <3>1. \A y : y \in reached[q] <=>
              \E z \in executed : z.envelope.session = q /\ z.envelope.as_sent /\ z.result = y
      BY DEF reached
    <3>2. \A y : y \in reached'[q] <=>
              \E z \in executed' : z.envelope.session = q /\ z.envelope.as_sent /\ z.result = y
      BY DEF reached
    <3>3. x.envelope.session = r /\ x.envelope.as_sent /\ x.result = ResultOf(s)
      BY <1>4
    <3> HIDE DEF x, r
    <3>4. \A y : y \in reached'[q] <=> y \in reached[q] \/ (q = r /\ y = ResultOf(s))
      BY SMTT(30), <1>2, <3>1, <3>2, <3>3
    <3> QED BY <3>4
  <2>2. reached' = [reached EXCEPT ![r] = @ \cup {ResultOf(s)}]
    BY <2>1 DEF reached
  <2> QED BY ZenonT(30), <1>1, <1>2, <1>3, <2>2 DEF Promise!Next, Promise!Reach
<1>5. CASE ~h.envelope.as_sent
  <2>1. ASSUME NEW q \in Req
        PROVE  reached'[q] = reached[q]
    BY SMTT(30), <1>2, <1>5 DEF reached
  <2>2. reached' = reached
    BY <2>1 DEF reached
  <2> QED BY <1>2, <2>2 DEF Promise!vars
<1> QED BY <1>4, <1>5

LEMMA OpenStep ==
    ASSUME NEW r \in Req, outcome[r] = "none", outcome' = [outcome EXCEPT ![r] = "waiting"],
           UNCHANGED executed
    PROVE  Promise!Next
BY ZenonT(30), ReachedUnchanged DEF Promise!Next, Promise!Open

LEMMA EndSettles ==
    ASSUME CutInv, End
    PROVE  Promise!Next
<1> DEFINE S == {r \in Req : outcome[r] = "waiting"}
<1>1. outcome' = [r \in Req |-> IF r \in S THEN "unknown" ELSE outcome[r]] /\ UNCHANGED executed
  BY DEF End, LoseCaller, server
<1>2. Promise!Settle(S, "unknown")
  BY <1>1, ReachedUnchanged DEF Promise!Settle
<1> QED BY <1>2 DEF Promise!Next

LEMMA RunningSettles ==
    ASSUME CutInv, NEW v \in Verifier, Running(v)
    PROVE  [Promise!Next]_(Promise!vars)
<1>1. Busy(v) /\ UNCHANGED executed
  BY DEF Running, CheckStart, CheckReply, CheckEnd, Busy, server
<1>2. vreq[v] \in Req /\ outcome[vreq[v]] = "waiting" /\ Types
  BY <1>1 DEF CutInv, CallerInv, VerifyInv, Began
<1>3. \/ UNCHANGED outcome
      \/ outcome' = [outcome EXCEPT ![vreq[v]] = "unknown"]
      \/ vpc[v] = "end" /\ outcome' = [outcome EXCEPT ![vreq[v]] = ResultOf(vmsg[v].http_status)]
  BY DEF Running, CheckStart, CheckReply, CheckEnd, Proceed, Leave
<1>4. CASE UNCHANGED outcome
  BY <1>1, <1>4, ReachedUnchanged DEF Promise!vars
<1>5. CASE outcome' = [outcome EXCEPT ![vreq[v]] = "unknown"]
  BY <1>1, <1>2, <1>5, SettleOne
<1>6. CASE vpc[v] = "end" /\ outcome' = [outcome EXCEPT ![vreq[v]] = ResultOf(vmsg[v].http_status)]
  <2>1. ResultOf(vmsg[v].http_status) \in {"accepted", "denied", "unknown"}
    BY DEF ResultOf
  <2> QED BY <1>1, <1>2, <1>6, <2>1, SettleOne, AuthenticIsReached
<1> QED BY <1>3, <1>4, <1>5, <1>6

LEMMA StepRefines == CutInv /\ [CutNext]_cutVars => [Promise!Next]_(Promise!vars)
<1> SUFFICES ASSUME CutInv, [CutNext]_cutVars PROVE [Promise!Next]_(Promise!vars)
  OBVIOUS
<1>1. UNCHANGED <<outcome, executed>> => UNCHANGED Promise!vars
  BY ReachedUnchanged DEF Promise!vars
<1>2. CASE UNCHANGED cutVars
  BY <1>1, <1>2 DEF cutVars, vars, server
<1>3. CASE JournalSubmitted \/ JournalOutcome \/ ReadJournal
  BY <1>1, <1>3 DEF JournalSubmitted, JournalOutcome, ReadJournal, vars, server
<1>4. CASE \E peer \in 1..epoch : Submit(peer)
  BY <1>4, OpenStep, OpReplay DEF Submit, OpenCall, server
<1>5. CASE End
  BY <1>5, EndSettles
<1>6. CASE \E v \in Verifier, m \in replies : PresentCapture(v, m)
  BY <1>6, OpenStep, OpReplay DEF PresentCapture, server
<1>7. CASE TimesOut
  <2>1. outcome[Op] = "waiting"
    BY <1>7, OpReplay DEF TimesOut, GiveUp, CutInv, CallerInv, PendingInv
  <2> QED BY <1>7, <2>1, SettleOne, OpReplay DEF TimesOut, GiveUp, CutInv, server
<1>8. CASE \E v \in Verifier : Running(v)
  BY <1>8, RunningSettles
<1>9. CASE \E v \in Verifier, m \in replies : EnterVerify(v, Op, m) /\ UNCHANGED app
  BY <1>1, <1>9 DEF EnterVerify, server
<1>10. CASE \E n \in 0..MaxClock : SetClock(n) /\ UNCHANGED app
  BY <1>1, <1>10 DEF SetClock, server
<1>11. CASE Server /\ UNCHANGED app
  <2>1. CASE \E h \in running, s \in HandlerStatus : Execute(h, s)
    BY <2>1, ExecuteReaches
  <2>2. CASE \/ \E env \in wire : Admit(env)
             \/ \E h \in running : FinishResponse(h) \/ FinishFails(h) \/ Drop(h)
             \/ Restart
    BY <1>1, <2>2 DEF Admit, FinishResponse, FinishFails, Drop, Restart
  <2> QED BY <1>11, <2>1, <2>2 DEF Server
<1>12. CASE Network /\ UNCHANGED app
  BY <1>1, <1>12 DEF Network, AlterRequest, AlterReply, server
<1> QED BY <1>2, <1>3, <1>4, <1>5, <1>6, <1>7, <1>8, <1>9, <1>10, <1>11, <1>12 DEF CutNext

(* The authenticated response implements its promise: a call settles once, *)
(* as accepted or denied only if the peer reached that result for exactly  *)
(* this request, and as unknown otherwise.                                 *)
THEOREM PromiseKept == CutSpec => KeepsPromise
<1>1. ASSUME CutInit
      PROVE  Promise!Init
  <2>1. executed = {} /\ outcome = [r \in Req |-> "none"]
    BY <1>1 DEF CutInit, Init
  <2>2. reached = [r \in Req |-> {}]
    BY <2>1 DEF reached
  <2> QED BY <2>1, <2>2 DEF Promise!Init
<1> QED BY <1>1, StepRefines, AlwaysCutInv, PTL DEF CutSpec, KeepsPromise, Promise!Spec

-----------------------------------------------------------------------------
(* The lock of a pending response *)

(* The lock is held exactly by the running call, and who waits has an      *)
(* occurrence that is unused or being verified.                            *)
LockInv ==
    /\ lock \in [Req -> Verifier \cup {None}]
    /\ \A r \in Req, v \in Verifier : lock[r] = v <=> Busy(v) /\ vreq[v] = r
    /\ \A r \in Req : outcome[r] = "waiting" =>
           pending[r] # None /\ (pending[r].used => lock[r] # None)

LEMMA InitLockInv == CutInit => LockInv
BY SMTT(30), VerifierAssumption DEF CutInit, Init, LockInv, Busy

LEMMA LockFrame ==
    ASSUME LockInv, UNCHANGED <<lock, vpc, vreq, outcome, pending>>
    PROVE  LockInv'
BY DEF LockInv, Busy

(* An occurrence gets a fresh caller, or loses its own. *)
LEMMA CallerLockInv ==
    ASSUME CutInv, LockInv, NEW r \in Req, NEW p \in Pending \cup {None}, NEW o,
           UNCHANGED <<lock, vpc, vreq>>,
           outcome' = [outcome EXCEPT ![r] = o], pending' = [pending EXCEPT ![r] = p],
           o = "waiting" => p # None /\ ~p.used
    PROVE  LockInv'
<1>1. /\ outcome'[r] = o /\ pending'[r] = p
      /\ \A q \in Req : q # r => outcome'[q] = outcome[q] /\ pending'[q] = pending[q]
  BY DEF CutInv, Types
<1> QED
  BY SMTT(30), <1>1 DEF LockInv, Busy

(* A call of verify takes the free lock of an occurrence. *)
LEMMA TakeLockInv ==
    ASSUME CutInv, LockInv, NEW v \in Verifier, NEW r \in Req, ~Busy(v), lock[r] = None,
           pending'[r] # None, \A q \in Req : q # r => pending'[q] = pending[q],
           \A q \in Req : q # r => outcome'[q] = outcome[q],
           vpc' = [vpc EXCEPT ![v] = "start"], vreq' = [vreq EXCEPT ![v] = r],
           lock' = [lock EXCEPT ![r] = v]
    PROVE  LockInv'
<1>1. /\ vpc'[v] = "start" /\ vreq'[v] = r /\ lock'[r] = v
      /\ \A w \in Verifier : w # v => vpc'[w] = vpc[w] /\ vreq'[w] = vreq[w]
      /\ \A q \in Req : q # r => lock'[q] = lock[q]
      /\ lock' \in [Req -> Verifier \cup {None}]
  BY SMTT(30) DEF CutInv, Types, LockInv
<1>2. Busy(v)' /\ \A w \in Verifier : w # v => (Busy(w)' <=> Busy(w))
  BY <1>1 DEF Busy
<1>3. None \notin Verifier
  BY VerifierAssumption
<1>4. ASSUME NEW q \in Req, NEW w \in Verifier PROVE lock'[q] = w <=> Busy(w)' /\ vreq'[w] = q
  <2>1. lock[q] = w <=> Busy(w) /\ vreq[w] = q
    BY DEF LockInv
  <2>2. lock[r] # w /\ ~(Busy(w) /\ vreq[w] = r)
    BY <1>3 DEF LockInv
  <2> QED
    BY ZenonT(40), <1>1, <1>2, <2>1, <2>2
<1>5. \A q \in Req : outcome'[q] = "waiting" =>
           pending'[q] # None /\ (pending'[q].used => lock'[q] # None)
  BY SMTT(30), <1>1, <1>3 DEF LockInv
<1> QED
  BY <1>1, <1>4, <1>5 DEF LockInv

LEMMA ProceedLockInv ==
    ASSUME CutInv, LockInv, NEW v \in Verifier, Busy(v), NEW label \in {"check", "end"},
           Proceed(v, label), UNCHANGED <<pending, vreq>>
    PROVE  LockInv'
<1>1. \A w \in Verifier : Busy(w)' <=> Busy(w)
  BY DEF CutInv, Types, Proceed, Busy
<1> QED
  BY <1>1 DEF LockInv, Proceed

LEMMA LeaveLockInv ==
    ASSUME CutInv, LockInv, NEW v \in Verifier, Busy(v), NEW label \in {"raised", "returned"},
           NEW learnt, learnt # "waiting", Leave(v, label, learnt), UNCHANGED <<pending, vreq>>
    PROVE  LockInv'
<1>1. vreq[v] \in Req
  BY DEF CutInv, CallerInv, VerifyInv, Began
<1>2. lock[vreq[v]] = v
  BY <1>1 DEF LockInv
<1>3. /\ vpc'[v] = label /\ lock'[vreq[v]] = None /\ outcome'[vreq[v]] = learnt
      /\ \A w \in Verifier : w # v => vpc'[w] = vpc[w]
      /\ \A r \in Req : r # vreq[v] => lock'[r] = lock[r] /\ outcome'[r] = outcome[r]
      /\ lock' \in [Req -> Verifier \cup {None}]
  BY SMTT(30), <1>1 DEF CutInv, Types, LockInv, Leave
<1>4. ~Busy(v)' /\ \A w \in Verifier : w # v => (Busy(w)' <=> Busy(w))
  BY <1>3 DEF Busy
<1>5. None \notin Verifier
  BY VerifierAssumption
<1>6. ASSUME NEW q \in Req, NEW w \in Verifier PROVE lock'[q] = w <=> Busy(w)' /\ vreq'[w] = q
  <2>1. lock[q] = w <=> Busy(w) /\ vreq[w] = q
    BY DEF LockInv
  <2> QED
    BY SMTT(30), <1>2, <1>3, <1>4, <1>5, <2>1
<1>7. \A r \in Req : outcome'[r] = "waiting" =>
           pending'[r] # None /\ (pending'[r].used => lock'[r] # None)
  BY SMTT(30), <1>3 DEF LockInv
<1> QED
  BY <1>3, <1>6, <1>7 DEF LockInv

LEMMA EndLockInv ==
    ASSUME CutInv, LockInv, LoseCaller
    PROVE  LockInv'
<1>1. \A v \in Verifier : ~Busy(v)'
  BY DEF CutInv, Types, LoseCaller, Busy
<1>2. \A r \in Req : lock'[r] = None /\ outcome'[r] # "waiting"
  BY DEF CutInv, Types, LoseCaller
<1>3. lock' \in [Req -> Verifier \cup {None}] /\ None \notin Verifier
  BY VerifierAssumption DEF LoseCaller
<1> QED
  BY <1>1, <1>2, <1>3 DEF LockInv

LEMMA EnterLockInv ==
    ASSUME CutInv, LockInv, NEW v \in Verifier, NEW r \in Req, NEW m, EnterVerify(v, r, m)
    PROVE  LockInv'
<1>1. ~Busy(v) /\ vpc[v] = "idle" /\ lock[r] = None /\ pending[r] # None
  BY DEF EnterVerify, Begins, Busy
<1>2. CASE pending[r].used
  <2>1. /\ vpc' = [vpc EXCEPT ![v] = "raised"] /\ vreq' = [vreq EXCEPT ![v] = r]
        /\ UNCHANGED <<lock, pending, outcome>>
    BY <1>2 DEF EnterVerify
  <2>2. /\ vpc'[v] = "raised"
        /\ \A w \in Verifier : w # v => vpc'[w] = vpc[w] /\ vreq'[w] = vreq[w]
    BY <2>1 DEF CutInv, Types
  <2>3. ~Busy(v)' /\ \A w \in Verifier : w # v => (Busy(w)' <=> Busy(w))
    BY <2>2 DEF Busy
  <2> QED
    BY SMTT(30), <1>1, <2>1, <2>2, <2>3 DEF LockInv
<1>3. CASE ~pending[r].used
  <2>1. /\ vpc' = [vpc EXCEPT ![v] = "start"] /\ vreq' = [vreq EXCEPT ![v] = r]
        /\ lock' = [lock EXCEPT ![r] = v] /\ Consume(r) /\ UNCHANGED outcome
    BY <1>3 DEF EnterVerify
  <2>2. pending[r] \in Pending
    BY <1>1 DEF CutInv, Types
  <2>3. pending'[r] = [pending[r] EXCEPT !.used = TRUE, !.key = None]
    BY <2>1 DEF Consume, CutInv, Types
  <2>4. pending'[r] \in Pending
    BY <2>2, <2>3 DEF Pending
  <2>5. pending'[r] # None /\ \A q \in Req : q # r => pending'[q] = pending[q]
    BY <2>1, <2>4, PendingIsSome DEF Consume, CutInv, Types
  <2> QED
    BY <1>1, <2>1, <2>5, TakeLockInv
<1> QED
  BY <1>2, <1>3

LEMMA NextLockInv == CutInv /\ LockInv /\ [CutNext]_cutVars => LockInv'
<1> SUFFICES ASSUME CutInv, LockInv, [CutNext]_cutVars PROVE LockInv'
  OBVIOUS
<1>1. CASE UNCHANGED cutVars \/ JournalSubmitted \/ JournalOutcome \/ ReadJournal
  BY <1>1, LockFrame
  DEF cutVars, vars, verifier, JournalSubmitted, JournalOutcome, ReadJournal
<1>2. CASE Server \/ Network \/ \E n \in 0..MaxClock : SetClock(n)
  BY <1>2, LockFrame DEF Server, Network, Admit, Execute, FinishResponse, FinishFails, Drop,
     Restart, AlterRequest, AlterReply, SetClock, verifier
<1>3. ASSUME NEW peer \in 1..epoch, Submit(peer) PROVE LockInv'
  <2> DEFINE e == Envelope(Op, peer, TRUE)
             p == [request |-> e, key |-> ResponseKey(e), started |-> clock, used |-> FALSE]
  <2>1. e \in Envelopes
    BY SMTT(30), OpReplay DEF Envelope, Envelopes, CutInv, Types
  <2>2. ResponseKey(e) \in Keys
    BY <2>1 DEF ResponseKey, Keys, Envelopes
  <2>3. p \in Pending /\ ~p.used
    BY <2>1, <2>2 DEF Pending, CutInv, Types
  <2>4. /\ UNCHANGED <<lock, vpc, vreq>> /\ outcome' = [outcome EXCEPT ![Op] = "waiting"]
        /\ pending' = [pending EXCEPT ![Op] = p]
    BY <1>3 DEF Submit, OpenCall, verifier
  <2> HIDE DEF p
  <2>5. p # None
    BY <2>3, PendingIsSome
  <2> QED
    BY <2>3, <2>4, <2>5, OpReplay, CallerLockInv
<1>4. CASE TimesOut
  <2>1. /\ UNCHANGED <<lock, vpc, vreq>> /\ outcome' = [outcome EXCEPT ![Op] = "unknown"]
        /\ pending' = [pending EXCEPT ![Op] = None]
    BY <1>4 DEF TimesOut, GiveUp, verifier
  <2>2. "unknown" # "waiting"
    OBVIOUS
  <2> QED
    BY <2>1, <2>2, OpReplay, CallerLockInv
<1>5. CASE End
  BY <1>5, EndLockInv DEF End
<1>6. ASSUME NEW v \in Verifier, NEW m \in replies, PresentCapture(v, m) PROVE LockInv'
  <2> DEFINE e == Envelope(Replay, epoch, TRUE)
             p == [request |-> e, key |-> None, started |-> clock, used |-> TRUE]
  <2>1. e \in Envelopes
    BY OpReplay DEF Envelope, Envelopes, CutInv, Types
  <2>2. p \in Pending
    BY <2>1 DEF Pending, CutInv, Types
  <2>3. /\ outcome[Replay] = "none" /\ vpc[v] = "idle"
        /\ outcome' = [outcome EXCEPT ![Replay] = "waiting"]
        /\ pending' = [pending EXCEPT ![Replay] = p] /\ lock' = [lock EXCEPT ![Replay] = v]
        /\ vpc' = [vpc EXCEPT ![v] = "start"] /\ vreq' = [vreq EXCEPT ![v] = Replay]
    BY <1>6 DEF PresentCapture, Begins
  <2> HIDE DEF p
  <2>4. /\ pending'[Replay] # None
        /\ \A q \in Req : q # Replay => pending'[q] = pending[q] /\ outcome'[q] = outcome[q]
    BY <2>2, <2>3, OpReplay, PendingIsSome DEF CutInv, Types
  <2>5. lock[Replay] = None
    <3>1. ASSUME NEW w \in Verifier, Busy(w) PROVE vreq[w] # Replay
      BY <2>3, <3>1, OpReplay, FreshCall DEF Began
    <3> QED
      BY <3>1, OpReplay DEF LockInv
  <2>6. ~Busy(v)
    BY <2>3 DEF Busy
  <2> QED
    BY <2>3, <2>4, <2>5, <2>6, OpReplay, TakeLockInv
<1>7. ASSUME NEW v \in Verifier, NEW m \in replies, EnterVerify(v, Op, m) PROVE LockInv'
  BY <1>7, OpReplay, EnterLockInv
<1>8. ASSUME NEW v \in Verifier, Running(v) PROVE LockInv'
  <2>1. Busy(v) /\ UNCHANGED <<pending, vreq>>
    BY <1>8 DEF Running, CheckStart, CheckReply, CheckEnd, Busy
  <2>2. "unknown" # "waiting" /\ ResultOf(vmsg[v].http_status) # "waiting"
    BY DEF ResultOf
  <2>3. \/ \E label \in {"check", "end"} : Proceed(v, label)
        \/ \E label \in {"raised", "returned"} :
              Leave(v, label, "unknown") \/ Leave(v, label, ResultOf(vmsg[v].http_status))
    BY <1>8 DEF Running, CheckStart, CheckReply, CheckEnd
  <2> QED
    BY <2>1, <2>2, <2>3, ProceedLockInv, LeaveLockInv
<1> QED
  BY <1>1, <1>2, <1>3, <1>4, <1>5, <1>6, <1>7, <1>8 DEF CutNext

ClockInv == clock \in 0..MaxClock

LEMMA NextClock == ClockInv /\ [CutNext]_cutVars => ClockInv'
<1> SUFFICES ASSUME ClockInv, [CutNext]_cutVars PROVE ClockInv'
  OBVIOUS
<1>1. (\E n \in 0..MaxClock : SetClock(n)) \/ UNCHANGED clock
  BY ZenonT(30) DEF CutNext, cutVars, vars, JournalSubmitted, JournalOutcome, ReadJournal, Submit, OpenCall,
     End, LoseCaller, PresentCapture, TimesOut, GiveUp, Running, CheckStart, CheckReply, CheckEnd,
     EnterVerify, Server, Network, Admit, Execute, FinishResponse, FinishFails, Drop, Restart,
     AlterRequest, AlterReply
<1> QED
  BY <1>1 DEF SetClock, ClockInv

(* Type correctness with the discipline of the lock: whatever the other    *)
(* calls of verify, the relay, restarts and losses of the caller do, the   *)
(* lock of a pending response is held exactly by the call of verify that   *)
(* runs on it, and a caller waits exactly while its occurrence is unused   *)
(* or being verified.                                                      *)
THEOREM LockIsDisciplined == CutSpec => []TypeOK
<1>1. CutInit => ClockInv
  BY SMTT(30), MaxAssumption DEF CutInit, Init, ClockInv
<1>2. CutInv /\ LockInv /\ ClockInv => TypeOK
  <2> SUFFICES ASSUME CutInv, LockInv, ClockInv PROVE TypeOK
    OBVIOUS
  <2>1. running \subseteq [envelope : wire, status : HandlerStatus \cup {None}]
    BY DEF CutInv, Types, WireInv, Handler
  <2>2. executed \subseteq [envelope : wire, result : {"accepted", "denied"}]
    BY DEF CutInv, Types, WireInv, Executed
  <2>3. ASSUME NEW r \in Req, lock[r] # None
        PROVE  /\ lock[r] \in Verifier /\ vreq[lock[r]] = r
               /\ pending[r] # None /\ pending[r].used /\ outcome[r] = "waiting"
    <3>1. lock[r] \in Verifier
      BY SMTT(30), <2>3 DEF LockInv
    <3>2. Busy(lock[r]) /\ vreq[lock[r]] = r
      BY <3>1 DEF LockInv
    <3> QED
      BY <3>1, <3>2 DEF CutInv, CallerInv, VerifyInv, Began
  <2>4. ASSUME NEW r \in Req, pending[r] # None, ~pending[r].used PROVE outcome[r] = "waiting"
    BY <2>4 DEF CutInv, CallerInv, PendingInv
  <2>5. \A r \in Req : outcome[r] = "waiting" =>
            pending[r] # None /\ (pending[r].used => lock[r] # None)
    BY DEF LockInv
  <2>6. ASSUME NEW v \in Verifier
        PROVE  vpc[v] \in {"start", "check", "end"} <=> \E r \in Req : lock[r] = v
    <3>1. Busy(v) => vreq[v] \in Req
      BY DEF CutInv, CallerInv, VerifyInv, Began
    <3>2. \A r \in Req : lock[r] = v <=> Busy(v) /\ vreq[v] = r
      BY DEF LockInv
    <3> QED
      BY <3>1, <3>2 DEF Busy
  <2>7. /\ epoch \in Nat /\ wire \subseteq Envelopes
        /\ outcome \in [Req -> {"none", "waiting", "accepted", "denied", "unknown"}]
        /\ vpc \in [Verifier -> {"idle", "start", "check", "end", "raised", "returned"}]
    BY DEF CutInv, Types
  <2> QED
    BY <2>1, <2>2, <2>3, <2>4, <2>5, <2>6, <2>7 DEF TypeOK, ClockInv
<1> QED
  BY <1>1, <1>2, AlwaysCutInv, InitLockInv, NextLockInv, NextClock, PTL DEF CutSpec
=============================================================================
