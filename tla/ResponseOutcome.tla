-------------------------- MODULE ResponseOutcome ---------------------------
(***************************************************************************)
(* What an authenticated response promises a caller, apart from how: a     *)
(* call settles once.  It settles as accepted or denied only if the peer   *)
(* reached that result for this very request, and otherwise as unknown,    *)
(* which says nothing about what the peer did or may still do.             *)
(***************************************************************************)
EXTENDS Naturals

CONSTANTS Req

VARIABLES
    outcome,   \* what each caller has learnt
    reached    \* the results the peer reached for each request

vars == <<outcome, reached>>

Results == {"accepted", "denied"}

Init ==
    /\ outcome = [r \in Req |-> "none"]
    /\ reached = [r \in Req |-> {}]

Open(r) ==
    /\ outcome[r] = "none"
    /\ outcome' = [outcome EXCEPT ![r] = "waiting"]
    /\ UNCHANGED reached

(* The request may be executed again when it is delivered again. *)
Reach(r, result) ==
    /\ outcome[r] # "none"
    /\ reached' = [reached EXCEPT ![r] = @ \cup {result}]
    /\ UNCHANGED outcome

(* Callers settle; several at once when their process is lost. *)
Settle(settled, o) ==
    /\ \A r \in settled : outcome[r] = "waiting" /\ o \in reached[r] \cup {"unknown"}
    /\ outcome' = [r \in Req |-> IF r \in settled THEN o ELSE outcome[r]]
    /\ UNCHANGED reached

Next ==
    \/ \E r \in Req : Open(r) \/ \E result \in Results : Reach(r, result)
    \/ \E settled \in SUBSET Req, o \in Results \cup {"unknown"} : Settle(settled, o)

Spec == Init /\ [][Next]_vars
=============================================================================
