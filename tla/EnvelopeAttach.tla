--------------------------- MODULE EnvelopeAttach ---------------------------
(***************************************************************************)
(* An application that builds an A2A envelope as a plain mapping and       *)
(* attaches cA2A calls to it with attach_ca2a_metadata                     *)
(* (transport/a2a_adapter.py): it may set metadata of its own, wrap a      *)
(* message in a SendMessage body, and attach again for the next call or    *)
(* for a retry under a new challenge.                                      *)
(***************************************************************************)
EXTENDS Metadata

CONSTANT Requests   \* the requests the application may attach

VARIABLES env,        \* the envelope
          attached    \* history: the request just attached, None when env changed since

vars == <<env, attached>>

Init ==
    /\ env \in [params : BOOLEAN, has_message : {FALSE},
                metadata : {<< >>}, params_metadata : {<< >>}, message_metadata : {<< >>}]
    /\ attached = None

(* The application adds the message, with metadata or with a value there   *)
(* that is not a map.                                                      *)
AddMessage(metadata) ==
    /\ env.params /\ ~env.has_message
    /\ env' = [env EXCEPT !.has_message = TRUE, !.message_metadata = metadata]
    /\ attached' = None

(* attach_ca2a_metadata; when it raises, the application keeps what it had. *)
Attach(r) ==
    /\ ~AttachRefused(env)
    /\ env' = AttachCa2aMetadata(env, r)
    /\ attached' = r

Next ==
    \/ \E metadata \in {<< >>, [app |-> "note"], Rubbish} : AddMessage(metadata)
    \/ \E r \in Requests : Attach(r)

Spec == Init /\ [][Next]_vars

-----------------------------------------------------------------------------
(* "attach then parse is a round trip for every accepted shape", "Existing *)
(* cA2A keys are replaced with values derived from request"                *)
(* (attach_ca2a_metadata): after Attach the envelope parses to the request *)
(* attached, with nothing left of an earlier one.                          *)
EnvelopeRoundTrip ==
    attached # None => ParseEnvelope(env) = [error |-> "ok", request |-> attached]
=============================================================================
