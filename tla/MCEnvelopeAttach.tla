-------------------------- MODULE MCEnvelopeAttach --------------------------
(***************************************************************************)
(* Instance of EnvelopeAttach for TLC: one call with a payload and an      *)
(* attested caller, and one without either.                                *)
(***************************************************************************)
EXTENDS EnvelopeAttach

CONSTANTS kr, ka, c1, read, call1, call2

MCKey == {kr, ka}
MCCap == {read}
MCCredId == {c1}
MCTrustedRoots == {kr}

Chain ==
    <<Sign([credential_id |-> c1, issuer |-> kr, subject |-> ka, scope |-> {read},
            depth |-> 0, parent_id |-> None, not_before |-> 0, not_after |-> None,
            signature |-> None], kr)>>

Hello(c) ==
    [offer |-> ChannelOffer(CalleeKey(1), c, "callee", "software-only", None),
     challenge |-> Challenge(1, c, 0)]

Args(payload, platform) ==
    [chain |-> Chain, requested_capability |-> read, payload |-> payload,
     parent_record_hash |-> None, platform |-> platform, root |-> None]

MCRequests ==
    {Built(call1, Args("task", "software-only"), Hello(call1)),
     Built(call2, Args(None, None), Hello(call2))}
=============================================================================
