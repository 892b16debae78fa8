--------------------------- MODULE MCSdkLoopback ---------------------------
(***************************************************************************)
(* Instance of SdkLoopback for TLC: the two hops of demo_credentials with  *)
(* their validity windows, two calls, and cards with no, stale, repeated   *)
(* and malformed declarations between the extensions of others.            *)
(***************************************************************************)
EXTENDS SdkLoopback, TLC

CONSTANTS kr, ka, kb, c1, c2, read, write, call1, call2

MCKey == {kr, ka, kb}
MCCap == {read, write}
MCCredId == {c1, c2}
MCTrustedRoots == {kr}
MCCall == {call1, call2}

Grant(id, issuer, subject, depth, parent) ==
    Sign([credential_id |-> id, issuer |-> issuer, subject |-> subject,
          scope |-> {read, write}, depth |-> depth, parent_id |-> parent,
          not_before |-> 0, not_after |-> 2, signature |-> None], issuer)

DemoCredentials == <<Grant(c1, kr, ka, 0, None), Grant(c2, ka, kb, 1, c1)>>

Args(cap, payload, platform) ==
    [chain |-> DemoCredentials, requested_capability |-> cap, payload |-> payload,
     parent_record_hash |-> None, platform |-> platform, root |-> None]

MCPlans ==
    {Args(read, "widget", None), Args(read, None, "software-only"), Args(write, "widget", None)}

Ours(requirement) ==
    [uri |-> "ca2a", required |-> FALSE, unknown |-> FALSE, requirement |-> requirement]
Odd == [Ours(Rubbish) EXCEPT !.required = TRUE, !.unknown = TRUE]
Other(name) ==
    [uri |-> name, required |-> FALSE, unknown |-> FALSE, requirement |-> None]

Card(extensions, signed) == [extensions |-> extensions, signed |-> signed]

MCTemplates ==
    {Card(<<Other("x"), Other("y")>>, FALSE),
     Card(<<Other("x"), Odd, Ours("none"), Ours(None), Other("y")>>, FALSE),
     Card(<<Ours("any")>>, TRUE)}
=============================================================================
