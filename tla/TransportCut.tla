---------------------------- MODULE TransportCut ----------------------------
(***************************************************************************)
(* An application on top of the authenticated response, as the             *)
(* transport-cut experiment runs it (papers/handoff-response-              *)
(* authentication/experiments/transport_cut.py).  The caller's process     *)
(* writes to a journal before it sends and after it learnt an outcome; it  *)
(* may be killed anywhere.  A relay may lose the request, the reply or     *)
(* both, and keeps a copy of what the peer answered.  A later process      *)
(* reads the journal and presents that copy to a pending response of its   *)
(* own.                                                                    *)
(***************************************************************************)
EXTENDS ResponseAuth

CONSTANTS
    Op,       \* the operation the application submits
    Replay    \* the occurrence the later process opens, and never posts

ASSUME OpAssumption == Req = {Op, Replay} /\ Op # Replay

VARIABLES
    process,    \* the application's process
    journal,    \* the last state its journal has for Op
    recovered   \* what the later process says of Op, None before

app == <<process, journal, recovered>>
cutVars == <<vars, app>>

CutInit ==
    /\ Init
    /\ process = "caller"
    /\ journal = None
    /\ recovered = None

-----------------------------------------------------------------------------
(* caller: the journal has the operation before anything is sent. *)
JournalSubmitted ==
    /\ process = "caller"
    /\ journal = None
    /\ journal' = "submitted"
    /\ UNCHANGED <<vars, process, recovered>>

Submit(peer) ==
    /\ process = "caller"
    /\ journal = "submitted"
    /\ OpenCall(Op, peer)
    /\ UNCHANGED app

(* send_task returned or raised, and the journal has what it said. *)
JournalOutcome ==
    /\ process = "caller"
    /\ journal = "submitted"
    /\ outcome[Op] \notin {"none", "waiting"}
    /\ journal' = outcome[Op]
    /\ UNCHANGED <<vars, process, recovered>>

(* The process ends, on its own or because it is killed. *)
End ==
    /\ process # "ended"
    /\ process' = "ended"
    /\ LoseCaller
    /\ UNCHANGED <<journal, recovered>>

(* Mutant: an operation that was sent is taken to have succeeded. *)
Unresolved_Optimistic(state) ==
    IF state = None THEN "absent" ELSE IF state = "submitted" THEN "accepted" ELSE state

(* An operation without an outcome stays unknown. *)
Unresolved(state) ==
    IF state = None THEN "absent" ELSE IF state = "submitted" THEN "unknown" ELSE state

(* recover, in a new process *)
ReadJournal ==
    /\ process = "ended"
    /\ recovered = None
    /\ process' = "recover"
    /\ recovered' = Unresolved(journal)
    /\ UNCHANGED <<vars, journal>>

(* The reply the relay kept goes to a new pending response for the peer as *)
(* it is now; that occurrence's own request is not sent.                   *)
PresentCapture(v, m) ==
    LET request == Envelope(Replay, epoch, TRUE)
    IN  /\ process = "recover"
        /\ outcome[Replay] = "none"
        /\ Begins(v)
        /\ outcome' = [outcome EXCEPT ![Replay] = "waiting"]
        /\ pending' = [pending EXCEPT ![Replay] =
               [request |-> request, key |-> None, started |-> clock, used |-> TRUE]]
        /\ lock' = [lock EXCEPT ![Replay] = v]
        /\ vpc' = [vpc EXCEPT ![v] = "start"]
        /\ vreq' = [vreq EXCEPT ![v] = Replay]
        /\ vmsg' = [vmsg EXCEPT ![v] = m]
        /\ vkey' = [vkey EXCEPT ![v] = ResponseKey(request)]
        /\ UNCHANGED <<clock, server, network, app>>

Running(v) == (CheckStart(v) \/ CheckReply(v) \/ CheckEnd(v)) /\ UNCHANGED app

TimesOut == GiveUp(Op) /\ UNCHANGED app

(* The relay's modes are choices of this network: a request that is never  *)
(* admitted, a reply that never arrives, one cut short (Malformed), and a  *)
(* reply held back until the caller is killed.                             *)
CutNext ==
    \/ JournalSubmitted
    \/ \E peer \in 1..epoch : Submit(peer)
    \/ JournalOutcome
    \/ End
    \/ ReadJournal
    \/ \E v \in Verifier, m \in replies : PresentCapture(v, m)
    \/ TimesOut
    \/ \E v \in Verifier : Running(v)
    \/ \E v \in Verifier, m \in replies : EnterVerify(v, Op, m) /\ UNCHANGED app
    \/ \E n \in 0..MaxClock : SetClock(n) /\ UNCHANGED app
    \/ Server /\ UNCHANGED app
    \/ Network /\ UNCHANGED app

(* The transport's socket timeout ends every wait for a reply, and a call  *)
(* of verify that has the lock runs on to its end.                         *)
Fairness == WF_cutVars(TimesOut) /\ \A v \in Verifier : WF_cutVars(Running(v))

CutSpec == CutInit /\ [][CutNext]_cutVars /\ Fairness

-----------------------------------------------------------------------------
(* Every call settles: the transport's timeout and the end of verify leave *)
(* no caller waiting, whatever the callee, the relay and the network do.   *)
EveryCallSettles ==
    \A r \in Req : (outcome[r] = "waiting") ~> (outcome[r] \in {"accepted", "denied", "unknown"})

(* A restarted application is neither ignorant nor mistaken about its      *)
(* operation: one the peer worked on is in its journal, one it calls       *)
(* accepted or denied had that result at the peer, and the reply the relay *)
(* kept resolves nothing, wherever the process was killed.                 *)
RestartKnowsItsOperation ==
    /\ executed # {} => journal # None
    /\ recovered \in {"accepted", "denied"} => recovered \in reached[Op]
    /\ outcome[Replay] \in {"none", "waiting", "unknown"}
=============================================================================
