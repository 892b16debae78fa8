---------------------------- MODULE ResponseAuth ----------------------------
(***************************************************************************)
(* The one-use session-MAC response profile (response.py): PendingResponse *)
(* on the caller, ResponseProducer inside PeerNode.handle_authenticated on *)
(* the callee, and the authenticated path of send_task between them; what  *)
(* they do together with an application is TransportCut's next step.       *)
(*                                                                         *)
(* A request hash is the envelope it hashes.  The response key, which both *)
(* sides derive from recipient, peer and hash, is that triple; a MAC is    *)
(* the key and the statement it covers.                                    *)
(***************************************************************************)
EXTENDS Integers, FiniteSets

CONSTANTS
    Req,          \* calls: the session and the recipient key of an envelope
    Verifier,     \* calls of PendingResponse.verify, numbered as they begin
    None,         \* Python's None
    Status,       \* HTTP statuses that may arrive
    Timeout,      \* seconds a pending response may wait
    MaxClock,     \* bound on the caller's clock
    MaxEpoch,     \* bound on the callee's restarts
    MaxRunning,   \* bound on the handlers running at once
    MaxAltered    \* bound on the messages altered on the way

ASSUME ReqAssumption == None \notin Req
ASSUME VerifierAssumption == Verifier \subseteq Nat /\ None \notin Verifier
ASSUME StatusAssumption == Status \subseteq Nat /\ 200 \in Status
(* The statuses handle_authenticated answers with. *)
HandlerStatus == Status \cap ({200} \cup 400..599)

(* Envelopes, the keys derived from them, statements and MACs. *)
Envelopes == [session : Req, peer : Nat, as_sent : BOOLEAN]
Keys == [recipient : Req, peer : Nat, salt : Envelopes]
Statements == [request_sha256 : Envelopes, status : Status, kind : {"provenance", "denial"},
               body : {"accepted", "error"}]
Macs == [key : Keys, over : Statements]
Pending == [request : Envelopes, key : Keys \cup {None}, started : Nat, used : BOOLEAN]

ASSUME NoneAssumption ==
    None \notin Macs \cup Pending \cup {"submitted", "accepted", "denied", "unknown"}
ASSUME TimeoutAssumption == Timeout \in Nat \ {0}
ASSUME MaxAssumption == {MaxClock, MaxEpoch, MaxRunning, MaxAltered} \subseteq Nat

VARIABLES
    clock,      \* the clock PendingResponse reads
    epoch,      \* the callee's process, and so its channel key
    pending,    \* PendingResponse per call, None before and after its life
    lock,       \* who holds a pending response's lock
    wire,       \* envelopes that may reach the callee
    running,    \* handlers of the callee between admission and response
    executed,   \* history: the results reached, with their envelope
    replies,    \* responses that may reach a caller
    altered,    \* how many messages were altered on the way
    vpc,        \* where each call of verify is
    vreq,       \* the pending response it is about
    vmsg,       \* the status and bytes it was given
    vkey,       \* the key it took over
    outcome     \* what each caller has learnt

network == <<wire, replies, altered>>
server == <<epoch, running, executed>>
verifier == <<vpc, vreq, vmsg, vkey>>
vars == <<clock, server, pending, lock, network, verifier, outcome>>

(* The envelope of call r to the process "peer"; "as_sent" is false once   *)
(* its request object was rewritten on the way.                            *)
Envelope(r, peer, as_sent) == [session |-> r, peer |-> peer, as_sent |-> as_sent]

ResponseKey(env) == [recipient |-> env.session, peer |-> env.peer, salt |-> env]

Kind(status) == IF status = 200 THEN "provenance" ELSE "denial"
Body(status) == IF status = 200 THEN "accepted" ELSE "error"
ResultOf(status) == IF status = 200 THEN "accepted" ELSE "denied"

Statement(env, status) ==
    [request_sha256 |-> env, status |-> status, kind |-> Kind(status), body |-> Body(status)]

Init ==
    /\ clock = 0
    /\ epoch = 1
    /\ pending = [r \in Req |-> None]
    /\ lock = [r \in Req |-> None]
    /\ wire = {}
    /\ running = {}
    /\ executed = {}
    /\ replies = {}
    /\ altered = 0
    /\ vpc = [v \in Verifier |-> "idle"]
    /\ vreq = [v \in Verifier |-> None]
    /\ vmsg = [v \in Verifier |-> None]
    /\ vkey = [v \in Verifier |-> None]
    /\ outcome = [r \in Req |-> "none"]

-----------------------------------------------------------------------------
(* The environment *)

(* The clock is supplied to PendingResponse; it may also be set back. *)
SetClock(n) ==
    /\ clock' = n
    /\ UNCHANGED <<server, pending, lock, network, verifier, outcome>>

(* A reply decode or the field test rejects: no JSON, or no MAC. *)
Malformed == [http_status |-> 200, statement |-> None, mac |-> None]

AlterRequest(env) ==
    /\ altered < MaxAltered
    /\ altered' = altered + 1
    /\ wire' = wire \cup {[env EXCEPT !.as_sent = FALSE]}
    /\ UNCHANGED <<clock, server, pending, lock, replies, verifier, outcome>>

(* A reply whose status line, statement or both were replaced. *)
AlterReply(m, http_status, statement) ==
    /\ altered < MaxAltered
    /\ altered' = altered + 1
    /\ replies' = replies \cup
           {[m EXCEPT !.http_status = http_status, !.statement = statement], Malformed}
    /\ UNCHANGED <<clock, server, pending, lock, wire, verifier, outcome>>

-----------------------------------------------------------------------------
(* The callee: PeerNode.handle_authenticated.  An envelope stays on the    *)
(* wire, so it may be delivered again, also while a handler runs it.       *)

(* ResponseProducer.__init__ refuses an envelope for another channel key   *)
(* before anything is executed; that refusal carries no MAC.               *)
Admit(env) ==
    /\ Cardinality(running) < MaxRunning
    /\ IF env.peer = epoch
       THEN running' = running \cup {[envelope |-> env, status |-> None]} /\ UNCHANGED replies
       ELSE running' = running /\ replies' = replies \cup {Malformed}
    /\ UNCHANGED <<clock, epoch, executed, pending, lock, wire, altered, verifier, outcome>>

(* handle returns, or raises a CA2AError with its status. *)
Execute(h, status) ==
    /\ h.status = None
    /\ running' = (running \ {h}) \cup {[h EXCEPT !.status = status]}
    /\ executed' = executed \cup {[envelope |-> h.envelope, result |-> ResultOf(status)]}
    /\ UNCHANGED <<clock, epoch, pending, lock, network, verifier, outcome>>

(* ResponseProducer.finish *)
FinishResponse(h) ==
    LET statement == Statement(h.envelope, h.status)
    IN  /\ h.status # None
        /\ running' = running \ {h}
        /\ replies' = replies \cup
               {[http_status |-> h.status, statement |-> statement,
                 mac |-> [key |-> ResponseKey(h.envelope), over |-> statement]]}
        /\ UNCHANGED <<clock, epoch, executed, pending, lock, wire, altered, verifier, outcome>>

(* A response that does not encode (it is too large) fails after the call  *)
(* was executed; do_POST answers with an error that carries no MAC.        *)
FinishFails(h) ==
    /\ h.status # None
    /\ running' = running \ {h}
    /\ replies' = replies \cup {Malformed}
    /\ UNCHANGED <<clock, epoch, executed, pending, lock, wire, altered, verifier, outcome>>

(* An exception that is no CA2AError drops the connection without a reply. *)
Drop(h) ==
    /\ running' = running \ {h}
    /\ UNCHANGED <<clock, epoch, executed, pending, lock, network, verifier, outcome>>

Restart ==
    /\ epoch < MaxEpoch
    /\ epoch' = epoch + 1
    /\ running' = {}
    /\ UNCHANGED <<clock, executed, pending, lock, network, verifier, outcome>>

-----------------------------------------------------------------------------
(* The caller *)

(* PendingResponse.__init__, for a peer key some handshake verified, and   *)
(* the POST of request_bytes.                                              *)
OpenCall(r, peer) ==
    /\ outcome[r] = "none"
    /\ outcome' = [outcome EXCEPT ![r] = "waiting"]
    /\ pending' = [pending EXCEPT ![r] =
           [request |-> Envelope(r, peer, TRUE), key |-> ResponseKey(Envelope(r, peer, TRUE)),
            started |-> clock, used |-> FALSE]]
    /\ wire' = wire \cup {Envelope(r, peer, TRUE)}
    /\ UNCHANGED <<clock, server, lock, replies, altered, verifier>>

(* Mutant: there is no socket timeout, only the deadline ends the wait. *)
GiveUp_PastDeadline(r) ==
    /\ pending[r] # None
    /\ ~pending[r].used
    /\ lock[r] = None
    /\ clock >= pending[r].started + Timeout
    /\ outcome' = [outcome EXCEPT ![r] = "unknown"]
    /\ pending' = [pending EXCEPT ![r] = None]
    /\ UNCHANGED <<clock, server, lock, network, verifier>>

(* The transport raises before there is anything to verify: send_task      *)
(* reports an unknown outcome and the pending response is forgotten.       *)
GiveUp(r) ==
    /\ pending[r] # None
    /\ ~pending[r].used
    /\ lock[r] = None
    /\ outcome' = [outcome EXCEPT ![r] = "unknown"]
    /\ pending' = [pending EXCEPT ![r] = None]
    /\ UNCHANGED <<clock, server, lock, network, verifier>>

(* The caller's process is lost: pending responses cannot be restored, and *)
(* the calls of verify that were running never return.                     *)
LoseCaller ==
    /\ pending' = [r \in Req |-> None]
    /\ lock' = [r \in Req |-> None]
    /\ vpc' = [v \in Verifier |-> IF vpc[v] \in {"idle", "returned"} THEN vpc[v] ELSE "raised"]
    /\ vmsg' = [v \in Verifier |-> None]
    /\ vkey' = [v \in Verifier |-> None]
    /\ outcome' = [r \in Req |-> IF outcome[r] = "waiting" THEN "unknown" ELSE outcome[r]]
    /\ UNCHANGED <<clock, server, network, vreq>>

(* Mutant: the occurrence is not used up. *)
Consume_Not(r) == UNCHANGED pending

Consume(r) == pending' = [pending EXCEPT ![r].used = TRUE, ![r].key = None]

(* The next call of verify. *)
Begins(v) == vpc[v] = "idle" /\ \A w \in Verifier : w < v => vpc[w] # "idle"

(* verify takes the lock; an occurrence that was used is refused at once,  *)
(* any other one is used up here, whatever the rest of the call finds.     *)
EnterVerify(v, r, m) ==
    /\ Begins(v)
    /\ pending[r] # None
    /\ lock[r] = None
    /\ vreq' = [vreq EXCEPT ![v] = r]
    /\ IF pending[r].used
       THEN /\ vpc' = [vpc EXCEPT ![v] = "raised"]
            /\ UNCHANGED <<lock, vmsg, vkey, pending>>
       ELSE /\ vmsg' = [vmsg EXCEPT ![v] = m]
            /\ vpc' = [vpc EXCEPT ![v] = "start"]
            /\ lock' = [lock EXCEPT ![r] = v]
            /\ vkey' = [vkey EXCEPT ![v] = pending[r].key]
            /\ Consume(r)
    /\ UNCHANGED <<clock, server, network, outcome>>

(* The call ends with what it learnt, and the lock is released. *)
Leave(v, label, learnt) ==
    /\ vpc' = [vpc EXCEPT ![v] = label]
    /\ vkey' = [vkey EXCEPT ![v] = None]
    /\ vmsg' = [vmsg EXCEPT ![v] = None]
    /\ lock' = [lock EXCEPT ![vreq[v]] = None]
    /\ outcome' = [outcome EXCEPT ![vreq[v]] = learnt]

Proceed(v, label) ==
    /\ vpc' = [vpc EXCEPT ![v] = label]
    /\ UNCHANGED <<vkey, vmsg, lock, outcome>>

(* Mutant: a reply is still taken at the deadline. *)
InTime_Inclusive(r) == pending[r].started <= clock /\ clock <= pending[r].started + Timeout

(* _check_deadline *)
InTime(r) == pending[r].started <= clock /\ clock < pending[r].started + Timeout

CheckStart(v) ==
    /\ vpc[v] = "start"
    /\ IF InTime(vreq[v]) THEN Proceed(v, "check") ELSE Leave(v, "raised", "unknown")
    /\ UNCHANGED <<clock, server, pending, network, vreq>>

(* The fields compared before the MAC. *)
Matches(r, m) ==
    /\ m.statement.request_sha256 = pending[r].request
    /\ m.statement.status = m.http_status
    /\ m.http_status = 200 \/ m.http_status \in 400..599

(* Mutant: the MAC is not recomputed. *)
Authentic_Unchecked(v, m) ==
    /\ m.statement # None
    /\ Matches(vreq[v], m)

Authentic(v, m) ==
    /\ m.statement # None
    /\ Matches(vreq[v], m)
    /\ m.mac = [key |-> vkey[v], over |-> m.statement]
    /\ m.statement.kind = Kind(m.http_status)
    /\ m.statement.body = Body(m.http_status)

CheckReply(v) ==
    /\ vpc[v] = "check"
    /\ IF Authentic(v, vmsg[v]) THEN Proceed(v, "end") ELSE Leave(v, "raised", "unknown")
    /\ UNCHANGED <<clock, server, pending, network, vreq>>

(* The deadline again, then VerifiedResponse; send_task turns a status     *)
(* other than 200 into AuthenticatedPeerError.                             *)
CheckEnd(v) ==
    /\ vpc[v] = "end"
    /\ IF InTime(vreq[v]) THEN Leave(v, "returned", ResultOf(vmsg[v].http_status))
                          ELSE Leave(v, "raised", "unknown")
    /\ UNCHANGED <<clock, server, pending, network, vreq>>

Server ==
    \/ \E env \in wire : Admit(env)
    \/ \E h \in running :
           \/ (\E status \in HandlerStatus : Execute(h, status))
           \/ FinishResponse(h) \/ FinishFails(h) \/ Drop(h)
    \/ Restart

Network ==
    \/ \E env \in wire : AlterRequest(env)
    \/ \E m \in replies, s \in Status, env \in wire, x \in Status :
           m.statement # None /\ AlterReply(m, s, Statement(env, x))

-----------------------------------------------------------------------------
(* The lock of a pending response is held exactly by the call of verify    *)
(* that is running on it, that call alone has the key, and a caller waits  *)
(* exactly while its occurrence is unused or being verified.               *)
TypeOK ==
    /\ clock \in 0..MaxClock
    /\ epoch \in Nat
    /\ wire \subseteq Envelopes
    /\ running \subseteq [envelope : wire, status : HandlerStatus \cup {None}]
    /\ executed \subseteq [envelope : wire, result : {"accepted", "denied"}]
    /\ outcome \in [Req -> {"none", "waiting", "accepted", "denied", "unknown"}]
    /\ vpc \in [Verifier -> {"idle", "start", "check", "end", "raised", "returned"}]
    /\ \A r \in Req :
          /\ outcome[r] = "waiting" <=> pending[r] # None /\ (pending[r].used => lock[r] # None)
          /\ lock[r] # None => lock[r] \in Verifier /\ vreq[lock[r]] = r
          /\ (pending[r] # None /\ ~pending[r].used) => lock[r] = None
    /\ \A v \in Verifier :
          vpc[v] \in {"start", "check", "end"} <=> \E r \in Req : lock[r] = v

(* However many threads call verify on one pending response, with however  *)
(* many copies of however many valid replies, one of them at most gets a   *)
(* response: the first one to take the lock uses the occurrence up.        *)
OneResponsePerRequest ==
    \A v, w \in Verifier :
        (vpc[v] = "returned" /\ vpc[w] = "returned" /\ vreq[v] = vreq[w]) => v = w

(* No response is returned outside its time window, also when it arrived   *)
(* inside and the checks took until after the deadline, or when the clock  *)
(* was set back meanwhile.                                                 *)
NoLateResponse ==
    [][\A v \in Verifier :
          (vpc[v] # "returned" /\ vpc'[v] = "returned") =>
              LET p == pending[vreq[v]]
              IN  clock \in p.started..(p.started + Timeout - 1)]_vars

(* What the peer reached for call r: only executions of the very envelope  *)
(* the caller hashed count.                                                *)
reached == [r \in Req |->
               {x.result : x \in {y \in executed : y.envelope.session = r /\ y.envelope.as_sent}}]

Promise ==
    INSTANCE ResponseOutcome WITH Req <- Req, outcome <- outcome, reached <- reached

(* The profile implements its promise: a call settles once, as accepted or *)
(* denied only if the peer it verified reached that result for exactly     *)
(* this request, and as unknown in every other case (a lost, late, altered *)
(* or malformed reply, a restarted peer, a lost caller).                   *)
KeepsPromise == Promise!Spec
=============================================================================
