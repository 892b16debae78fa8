----------------------------- MODULE TsmCollect -----------------------------
(***************************************************************************)
(* Collecting an attestation report through the kernel's configfs-TSM      *)
(* directory (tee/tsm.py), as SevSnpProvider.attest and TdxProvider.attest *)
(* do.  Several processes of one guest collect at the same time; each      *)
(* system call is a step of its own, may fail, and the process may be      *)
(* killed between any two of them.                                         *)
(***************************************************************************)
EXTENDS EvidenceVerify, FiniteSets

CONSTANTS
    Proc,       \* processes that collect
    EntryName,  \* the names ca2a-<pid>-<token> that may be drawn
    PubKey, Nonce,
    MaxCalls    \* bound on the calls made

ASSUME NamesAssumption == None \notin EntryName
ASSUME CallsAssumption == MaxCalls \in Nat

Platform == {"sev-snp", "tdx"}
Role == {"callee", "caller"}
TsmProvider == {"sev_guest", "tdx_guest", "other"}

(* PROVIDER_SEV_GUEST, PROVIDER_TDX_GUEST: expect_provider of a platform. *)
ExpectProvider(p) == IF p = "sev-snp" THEN "sev_guest" ELSE "tdx_guest"

Request == [platform : Platform, role : Role, public_key : PubKey, nonce : Nonce]

VARIABLES
    host,       \* [devices, provider]: device nodes and the registered provider
    entry,      \* entry[n]: [exists, inblob] of the directory entry n
    pc,         \* where each process is in attest
    req,        \* the request each process serves
    name,       \* the entry each process created, None when it has none
    outblob,    \* the report read, None before
    outcome,    \* "pending", "report", "AttestationFailed", "AttestationUnsupported"
    signed,     \* what the platform was made to sign (history)
    orphans,    \* entries no process will remove any more (history)
    calls

vars == <<host, entry, pc, req, name, outblob, outcome, signed, orphans, calls>>

NoEntry == [exists |-> FALSE, inblob |-> None]

Init ==
    /\ host \in [devices : SUBSET Platform, provider : TsmProvider]
    /\ entry = [n \in EntryName |-> NoEntry]
    /\ pc = [p \in Proc |-> "idle"]
    /\ req = [p \in Proc |-> None]
    /\ name = [p \in Proc |-> None]
    /\ outblob = [p \in Proc |-> None]
    /\ outcome = [p \in Proc |-> "pending"]
    /\ signed = {}
    /\ orphans = {}
    /\ calls = 0

Goto(p, l) == pc' = [pc EXCEPT ![p] = l]
Outcome(p, o) == outcome' = [outcome EXCEPT ![p] = o]

-----------------------------------------------------------------------------
(* attest: _require_host refuses when the platform's device node is not    *)
(* there; the report data is derived.                                      *)
Attest(p, r) ==
    /\ pc[p] = "idle"
    /\ calls < MaxCalls
    /\ calls' = calls + 1
    /\ req' = [req EXCEPT ![p] = r]
    /\ outblob' = [outblob EXCEPT ![p] = None]
    /\ IF r.platform \in host.devices
       THEN Goto(p, "mkdir") /\ Outcome(p, "pending")
       ELSE Goto(p, "idle") /\ Outcome(p, "AttestationUnsupported")
    /\ UNCHANGED <<host, entry, name, signed, orphans>>

(* Mutant: an entry that is there already is used (mkdir with exist_ok). *)
Mkdir_ExistOk(p) ==
    /\ pc[p] = "mkdir"
    /\ \E n \in EntryName :
        /\ entry' = [entry EXCEPT ![n].exists = TRUE]
        /\ name' = [name EXCEPT ![p] = n]
    /\ Goto(p, "inblob")
    /\ UNCHANGED <<host, req, outblob, outcome, signed, orphans, calls>>

(* entry.mkdir() under a freshly drawn name: the kernel refuses a name     *)
(* that is taken, and may refuse for reasons of its own.                   *)
Mkdir(p) ==
    /\ pc[p] = "mkdir"
    /\ \/ \E n \in EntryName :
            /\ ~entry[n].exists
            /\ entry' = [entry EXCEPT ![n] = [exists |-> TRUE, inblob |-> None]]
            /\ name' = [name EXCEPT ![p] = n]
            /\ Goto(p, "inblob")
            /\ UNCHANGED outcome
       \/ /\ Goto(p, "idle")
          /\ Outcome(p, "AttestationUnsupported")
          /\ UNCHANGED <<entry, name>>
    /\ UNCHANGED <<host, req, outblob, signed, orphans, calls>>

(* OSError in one of the calls inside the try block: the error is raised   *)
(* and the finally block runs.                                             *)
CallFails(p) ==
    /\ pc[p] \in {"inblob", "provider", "outblob"}
    /\ Goto(p, "rmdir")
    /\ Outcome(p, "AttestationFailed")
    /\ UNCHANGED <<host, entry, req, name, outblob, signed, orphans, calls>>

WriteInblob(p) ==
    /\ pc[p] = "inblob"
    /\ entry' = [entry EXCEPT ![name[p]].inblob = ReportData(req[p])]
    /\ Goto(p, "provider")
    /\ UNCHANGED <<host, req, name, outblob, outcome, signed, orphans, calls>>

(* Mutant: the provider is not confirmed before the report is read. *)
ReadProvider_Unconfirmed(p) ==
    /\ pc[p] = "provider"
    /\ Goto(p, "outblob")
    /\ UNCHANGED <<host, entry, req, name, outblob, outcome, signed, orphans, calls>>

(* The provider is read and compared with the one expected. *)
ReadProvider(p) ==
    /\ pc[p] = "provider"
    /\ IF host.provider = ExpectProvider(req[p].platform)
       THEN Goto(p, "outblob") /\ UNCHANGED outcome
       ELSE Goto(p, "rmdir") /\ Outcome(p, "AttestationFailed")
    /\ UNCHANGED <<host, entry, req, name, outblob, signed, orphans, calls>>

(* Reading outblob makes the platform sign what inblob holds at that       *)
(* moment.  An empty report is an error: see CallFails.  The optional      *)
(* auxblob is read next and dropped by both providers.                     *)
ReadOutblob(p) ==
    /\ pc[p] = "outblob"
    /\ outblob' = [outblob EXCEPT ![p] = entry[name[p]].inblob]
    /\ signed' = signed \cup
            {[provider |-> host.provider, by |-> p, data |-> entry[name[p]].inblob]}
    /\ Goto(p, "rmdir")
    /\ UNCHANGED <<host, entry, req, name, outcome, orphans, calls>>

(* Mutant: the entry is removed only when a report was read. *)
Rmdir_OnSuccess(p) ==
    /\ pc[p] = "rmdir"
    /\ IF outcome[p] = "pending"
       THEN entry' = [entry EXCEPT ![name[p]] = NoEntry]
       ELSE UNCHANGED entry
    /\ name' = [name EXCEPT ![p] = None]
    /\ Goto(p, IF outcome[p] = "pending" THEN "parse" ELSE "idle")
    /\ UNCHANGED <<host, req, outblob, outcome, signed, orphans, calls>>

(* The finally block: rmdir, whose own OSError is suppressed. *)
Rmdir(p) ==
    /\ pc[p] = "rmdir"
    /\ \/ entry' = [entry EXCEPT ![name[p]] = NoEntry] /\ UNCHANGED orphans
       \/ orphans' = orphans \cup {name[p]} /\ UNCHANGED entry
    /\ name' = [name EXCEPT ![p] = None]
    /\ Goto(p, IF outcome[p] = "pending" THEN "parse" ELSE "idle")
    /\ UNCHANGED <<host, req, outblob, outcome, signed, calls>>

(* TdxQuote.parse, SevSnpReport.parse: every declared length and type is   *)
(* checked; a blob that does not add up, or a quote of another kind of     *)
(* TEE, is refused.                                                        *)
Parse(p) ==
    /\ pc[p] = "parse"
    /\ \/ Goto(p, "check") /\ UNCHANGED outcome
       \/ Goto(p, "idle") /\ Outcome(p, "AttestationFailed")
    /\ UNCHANGED <<host, entry, req, name, outblob, signed, orphans, calls>>

(* The report data has to be the one this call derived.                    *)
Check(p) ==
    /\ pc[p] = "check"
    /\ Outcome(p, IF outblob[p] = ReportData(req[p])
                  THEN "report" ELSE "AttestationFailed")
    /\ Goto(p, "idle")
    /\ UNCHANGED <<host, entry, req, name, outblob, signed, orphans, calls>>

(* The process is killed; what it left in configfs stays. *)
Killed(p) ==
    /\ pc[p] # "idle"
    /\ Goto(p, "idle")
    /\ Outcome(p, "pending")
    /\ name' = [name EXCEPT ![p] = None]
    /\ outblob' = [outblob EXCEPT ![p] = None]
    /\ orphans' = IF name[p] = None THEN orphans ELSE orphans \cup {name[p]}
    /\ UNCHANGED <<host, entry, req, signed, calls>>

Next ==
    \E p \in Proc :
        \/ \E r \in Request : Attest(p, r)
        \/ Mkdir(p) \/ CallFails(p) \/ WriteInblob(p) \/ ReadProvider(p)
        \/ ReadOutblob(p) \/ Rmdir(p) \/ Parse(p) \/ Check(p) \/ Killed(p)

Spec == Init /\ [][Next]_vars

-----------------------------------------------------------------------------

(* Two collectors never share an entry, however their calls interleave and *)
(* whatever killed processes left behind: the report collect_report reads  *)
(* commits the reader's own key and nonce (the race its docstring names).  *)
ReportIsOwn ==
    \A p \in Proc : outblob[p] # None => outblob[p] = ReportData(req[p])

(* The platform signs a binding only when it is the provider that the      *)
(* binding's platform expects: a wrong provider is never asked to sign.    *)
OnlyExpectedProviderSigns ==
    \A s \in signed : s.provider = ExpectProvider(s.data[1])

(* No call leaves its entry behind, on any error path: what exists belongs *)
(* to a collector that will remove it, unless rmdir itself failed or the   *)
(* process was killed.                                                     *)
NoEntryLeaks ==
    \A n \in EntryName :
        entry[n].exists => n \in orphans \/ \E p \in Proc : name[p] = n

-----------------------------------------------------------------------------
Binding == Platform \X Role \X PubKey \X Nonce

SnpBody ==
    [signature_algo : {"ecdsa-p384"}, measurement : {"workload", "other"},
     report_data : Binding, platform_info : SUBSET {"ecc", "smt", "unrecognized"},
     debug : BOOLEAN, vmpl : Nat, guest_svn : Nat]

SnpEvidence == [body : SnpBody, signature : [key : {"vcek"}, over : SnpBody]]

(* Evidence is something, and a measurement is no failure. *)
ASSUME EvidenceAssumption ==
    None \notin {"workload"} \cup Binding \cup SnpEvidence /\ Failed # "workload"

(* A relying party that accepts one workload on one kind of machine. *)
SnpPolicy ==
    [trusted_roots |-> {"ark"}, vcek_chain |-> [key |-> "vcek", root |-> "ark"],
     expected_measurement |-> "workload", min_guest_svn |-> 1, require_platform |-> {"ecc"},
     forbid_platform |-> {"smt"}, reject_unrecognized_platform_bits |-> TRUE]

(* The report SevSnpProvider.attest returns to p when the machine is as g  *)
(* says, under the label l.                                                *)
SnpReport(p, g, l) ==
    LET body == [g EXCEPT !.report_data = outblob[p]]
    IN  [platform |-> "sev-snp", role |-> l.role, public_key |-> l.public_key,
         nonce |-> l.nonce, raw_evidence |-> [body |-> body, signature |-> Signature("vcek", body)]]

SoundGuest ==
    [signature_algo |-> "ecdsa-p384", measurement |-> "workload", report_data |-> None,
     platform_info |-> {"ecc"}, debug |-> FALSE, vmpl |-> 0, guest_svn |-> 1]

UnsoundGuests ==
    {[SoundGuest EXCEPT !.measurement = "other"], [SoundGuest EXCEPT !.debug = TRUE],
     [SoundGuest EXCEPT !.vmpl = 1], [SoundGuest EXCEPT !.guest_svn = 0],
     [SoundGuest EXCEPT !.platform_info = {}],
     [SoundGuest EXCEPT !.platform_info = {"ecc", "smt"}],
     [SoundGuest EXCEPT !.platform_info = {"ecc", "unrecognized"}]}

SnpVerifiedAsCollected(p) ==
    req[p].platform = "sev-snp" =>
        /\ \A l \in Request :
              SevSnpVerifier(SnpPolicy, SnpReport(p, SoundGuest, l), l.nonce) # Failed
                  <=> [l EXCEPT !.platform = "sev-snp"] = req[p]
        /\ \A g \in UnsoundGuests :
              SevSnpVerifier(SnpPolicy, SnpReport(p, g, req[p]), req[p].nonce) = Failed

(* A quote over the report data d by a machine whose PCK leads to a root. *)
TdxQuote(root, d) ==
    LET body == [tee_type |-> "tdx", mrtd |-> "workload", report_data |-> d]
        qe_report == [report_data |-> <<"ak", root>>]
    IN  [body |-> body, quote_signature |-> Signature(<<"ak", root>>, body),
         attestation_key |-> <<"ak", root>>, qe_report |-> qe_report,
         qe_report_signature |-> Signature(<<"pck", root>>, qe_report),
         pck_chain |-> [key |-> <<"pck", root>>, root |-> root]]

Spliced(q1, q2, parts) == [f \in DOMAIN q1 |-> IF f \in parts THEN q2[f] ELSE q1[f]]

TdxVerifiedAsCollected(p) ==
    req[p].platform = "tdx" =>
        \A l \in {r \in Request : r.platform = "tdx"} :
            LET here == TdxQuote("intel", outblob[p])
                elsewhere == TdxQuote("unknown", ReportData(l))
            IN  \A q \in {Spliced(here, elsewhere, parts) : parts \in SUBSET DOMAIN here} :
                    VerifyTdxQuote(q, {"intel"}, "workload", ReportData(l))
                        <=> q = here /\ l = req[p]

(* Collectors and verifiers agree.  A collected SEV-SNP report is accepted *)
(* by sev_snp_verifier under the key, nonce and role it was collected for  *)
(* and under no other, and never from a guest that is not as the policy    *)
(* wants it.  A collected TDX quote is accepted by verify_tdx_quote for    *)
(* its binding and for no other, also when parts of it are replaced by     *)
(* those of a machine outside the trusted root: the PCK, the quoting       *)
(* enclave's report and the attestation key hold together.                 *)
VerifiedAsCollected ==
    \A p \in Proc : outcome[p] = "report" =>
        SnpVerifiedAsCollected(p) /\ TdxVerifiedAsCollected(p)
=============================================================================
