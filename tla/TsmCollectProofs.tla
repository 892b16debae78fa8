-------------------------- MODULE TsmCollectProofs --------------------------
(***************************************************************************)
(* Proofs about TsmCollect: for every number of processes, entry names,    *)
(* keys and nonces, collectors do not get in each other's way.             *)
(***************************************************************************)
EXTENDS TsmCollect, TLAPS

Blob == {ReportData(r) : r \in Request} \cup {None}

Entry == [exists : BOOLEAN, inblob : Blob]

Label == {"idle", "mkdir", "inblob", "provider", "outblob", "rmdir", "parse", "check"}

Types ==
    /\ entry \in [EntryName -> Entry]
    /\ pc \in [Proc -> Label]
    /\ req \in [Proc -> Request \cup {None}]
    /\ name \in [Proc -> EntryName \cup {None}]
    /\ outblob \in [Proc -> Blob]
    /\ orphans \subseteq EntryName

(* Between mkdir and rmdir a process has an entry, which exists and which  *)
(* nobody gave up; at no other time has it one.                            *)
Holds(p) ==
    IF pc[p] \in {"inblob", "provider", "outblob", "rmdir"}
    THEN name[p] \in EntryName /\ entry[name[p]].exists /\ name[p] \notin orphans
    ELSE name[p] = None

(* What a process has written, confirmed and read is what it asked for. *)
Progress(p) ==
    /\ pc[p] # "idle" => req[p] \in Request
    /\ pc[p] \in {"provider", "outblob"} => entry[name[p]].inblob = ReportData(req[p])
    /\ pc[p] = "outblob" => host.provider = ExpectProvider(req[p].platform)

Exclusive == \A p, q \in Proc : name[p] # None /\ name[p] = name[q] => p = q

OrphansExist == \A n \in orphans : entry[n].exists

(* The inductive invariant: an entry belongs to one process, which alone   *)
(* writes to it.                                                           *)
Ownership ==
    /\ Types
    /\ \A p \in Proc : Holds(p) /\ Progress(p)
    /\ Exclusive
    /\ OrphansExist

LEMMA Blobs == None \in Blob /\ \A r \in Request : ReportData(r) \in Blob
BY Zenon DEF Blob

LEMMA Entries == NoEntry \in Entry /\ [exists |-> TRUE, inblob |-> None] \in Entry
BY Blobs DEF Entry, NoEntry

LEMMA InitOwnership == Init => Ownership
<1> SUFFICES ASSUME Init PROVE Ownership
  OBVIOUS
<1>1. Types
  BY Blobs, Entries DEF Init, Types, Label
<1> QED BY <1>1 DEF Init, Ownership, Holds, Progress, Exclusive, OrphansExist

(* Reports over different requests are told apart by their platform. *)
LEMMA ReportDataPlatform ==
    ASSUME NEW r \in Request
    PROVE  ReportData(r)[1] = r.platform
BY DEF ReportData

LEMMA AttestOwnership ==
    ASSUME Ownership, NEW p \in Proc, NEW r \in Request, Attest(p, r)
    PROVE  Ownership'
<1> USE DEF Ownership, Attest, Goto, Outcome
<1>1. Types'
  BY Blobs DEF Types, Label
<1>2. \A q \in Proc : Holds(q)' /\ Progress(q)'
  BY DEF Types, Holds, Progress
<1>3. Exclusive' /\ OrphansExist'
  BY DEF Exclusive, OrphansExist
<1> QED BY <1>1, <1>2, <1>3

LEMMA MkdirOwnership ==
    ASSUME Ownership, NEW p \in Proc, Mkdir(p)
    PROVE  Ownership'
<1> USE DEF Ownership, Mkdir, Goto, Outcome
<1>1. Types'
  <2>1. entry' \in [EntryName -> Entry]
    BY Zenon, Entries DEF Types
  <2>2. pc' \in [Proc -> Label] /\ name' \in [Proc -> EntryName \cup {None}]
    BY DEF Types, Label
  <2> QED BY <2>1, <2>2 DEF Types
<1>2. ASSUME NEW n \in EntryName, ~entry[n].exists,
             entry' = [entry EXCEPT ![n] = [exists |-> TRUE, inblob |-> None]],
             name' = [name EXCEPT ![p] = n], pc' = [pc EXCEPT ![p] = "inblob"]
      PROVE  Ownership'
  <2>1. \A q \in Proc : name[q] # n
    BY <1>2, NamesAssumption DEF Types, Holds
  <2>2. n \notin orphans
    BY <1>2 DEF OrphansExist
  <2>3. \A q \in Proc : Holds(q)' /\ Progress(q)'
    BY <1>2, <2>1, <2>2 DEF Types, Holds, Progress
  <2>4. Exclusive'
    BY <1>2, <2>1 DEF Types, Exclusive
  <2>5. OrphansExist'
    BY <1>2 DEF Types, OrphansExist
  <2> QED BY <1>1, <2>3, <2>4, <2>5
<1>3. ASSUME pc' = [pc EXCEPT ![p] = "idle"], UNCHANGED <<entry, name>>
      PROVE  Ownership'
  <2>1. \A q \in Proc : Holds(q)' /\ Progress(q)'
    BY <1>3 DEF Types, Holds, Progress
  <2> QED BY <1>1, <1>3, <2>1 DEF Exclusive, OrphansExist
<1> QED BY <1>2, <1>3

LEMMA WriteInblobOwnership ==
    ASSUME Ownership, NEW p \in Proc, WriteInblob(p)
    PROVE  Ownership'
<1> USE DEF Ownership, WriteInblob, Goto
<1>1. name[p] \in EntryName /\ req[p] \in Request
  BY DEF Holds, Progress
<1>2. Types'
  BY <1>1, Blobs DEF Types, Entry, Label
<1>3. ASSUME NEW q \in Proc
      PROVE  Holds(q)' /\ Progress(q)'
  <2>1. q # p => name[q] # name[p]
    BY <1>1, NamesAssumption DEF Exclusive
  <2> QED BY <1>1, <2>1 DEF Types, Holds, Progress
<1>4. Exclusive' /\ OrphansExist'
  BY <1>1 DEF Types, Exclusive, OrphansExist
<1> QED BY <1>2, <1>3, <1>4

LEMMA RmdirOwnership ==
    ASSUME Ownership, NEW p \in Proc, Rmdir(p)
    PROVE  Ownership'
<1> USE DEF Ownership, Rmdir, Goto
<1>1. name[p] \in EntryName /\ name[p] \notin orphans
  BY DEF Holds
<1>2. Types'
  <2>1. entry' \in [EntryName -> Entry]
    BY <1>1, Entries DEF Types
  <2>2. pc' \in [Proc -> Label]
    BY DEF Types, Label
  <2>3. orphans' \subseteq EntryName
    BY <1>1 DEF Types
  <2> QED BY <2>1, <2>2, <2>3 DEF Types
<1>3. ASSUME NEW q \in Proc
      PROVE  Holds(q)' /\ Progress(q)'
  <2>1. q # p => name[q] # name[p]
    BY <1>1, NamesAssumption DEF Exclusive
  <2> QED BY <1>1, <2>1 DEF Types, Holds, Progress, NoEntry
<1>4. Exclusive'
  BY DEF Types, Exclusive
<1>5. OrphansExist'
  BY <1>1 DEF Types, Holds, OrphansExist
<1> QED BY <1>2, <1>3, <1>4, <1>5

LEMMA KilledOwnership ==
    ASSUME Ownership, NEW p \in Proc, Killed(p)
    PROVE  Ownership'
<1> USE DEF Ownership, Killed, Goto, Outcome
<1>1. Types'
  BY Blobs DEF Types, Label
<1>2. ASSUME NEW q \in Proc
      PROVE  Holds(q)' /\ Progress(q)'
  <2>1. q # p /\ name[p] # None => name[q] # name[p]
    BY DEF Exclusive
  <2> QED BY <2>1 DEF Types, Holds, Progress
<1>3. Exclusive'
  BY DEF Types, Exclusive
<1>4. OrphansExist'
  BY DEF Types, Holds, OrphansExist
<1> QED BY <1>1, <1>2, <1>3, <1>4

(* The steps that leave the directory alone. *)
LEMMA LocalOwnership ==
    ASSUME Ownership, NEW p \in Proc,
           CallFails(p) \/ ReadProvider(p) \/ ReadOutblob(p) \/ Parse(p) \/ Check(p)
    PROVE  Ownership'
<1> USE DEF Ownership, Goto, Outcome
<1>1. CASE CallFails(p)
  <2>1. Types'
    BY <1>1, Blobs DEF CallFails, Types, Label
  <2>2. \A q \in Proc : Holds(q)' /\ Progress(q)'
    BY <1>1 DEF CallFails, Types, Holds, Progress
  <2> QED BY <1>1, <2>1, <2>2 DEF CallFails, Exclusive, OrphansExist
<1>2. CASE ReadProvider(p)
  <2>1. Types'
    BY <1>2, Blobs DEF ReadProvider, Types, Label
  <2>2. \A q \in Proc : Holds(q)' /\ Progress(q)'
    BY <1>2 DEF ReadProvider, Types, Holds, Progress
  <2> QED BY <1>2, <2>1, <2>2 DEF ReadProvider, Exclusive, OrphansExist
<1>3. CASE ReadOutblob(p)
  <2>1. Types'
    BY <1>3 DEF ReadOutblob, Types, Entry, Label, Holds
  <2>2. \A q \in Proc : Holds(q)' /\ Progress(q)'
    BY <1>3 DEF ReadOutblob, Types, Holds, Progress
  <2> QED BY <1>3, <2>1, <2>2 DEF ReadOutblob, Exclusive, OrphansExist
<1>4. CASE Parse(p)
  <2>1. Types'
    BY <1>4, Blobs DEF Parse, Types, Label
  <2>2. \A q \in Proc : Holds(q)' /\ Progress(q)'
    BY <1>4 DEF Parse, Types, Holds, Progress
  <2> QED BY <1>4, <2>1, <2>2 DEF Parse, Exclusive, OrphansExist
<1>5. CASE Check(p)
  <2>1. Types'
    BY <1>5, Blobs DEF Check, Types, Label
  <2>2. \A q \in Proc : Holds(q)' /\ Progress(q)'
    BY <1>5 DEF Check, Types, Holds, Progress
  <2> QED BY <1>5, <2>1, <2>2 DEF Check, Exclusive, OrphansExist
<1> QED BY <1>1, <1>2, <1>3, <1>4, <1>5

LEMMA NextOwnership == Ownership /\ [Next]_vars => Ownership'
<1> SUFFICES ASSUME Ownership, [Next]_vars PROVE Ownership'
  OBVIOUS
<1>1. CASE UNCHANGED vars
  BY <1>1 DEF vars, Ownership, Types, Holds, Progress, Exclusive, OrphansExist
<1>2. CASE Next
  BY <1>2, AttestOwnership, MkdirOwnership, WriteInblobOwnership, RmdirOwnership,
     KilledOwnership, LocalOwnership DEF Next
<1> QED BY <1>1, <1>2

LEMMA AlwaysOwnership == Spec => []Ownership
BY InitOwnership, NextOwnership, PTL DEF Spec

-----------------------------------------------------------------------------
(* The report a collector reads commits its own key, nonce, role and       *)
(* platform: collect_report is free of the race its docstring names for    *)
(* any number of collectors and leftovers.                                 *)
THEOREM ReportsAreOwn == Spec => []ReportIsOwn
<1>1. Init => ReportIsOwn
  BY DEF Init, ReportIsOwn
<1>2. Ownership /\ ReportIsOwn /\ [Next]_vars => ReportIsOwn'
  <2> SUFFICES ASSUME Ownership, ReportIsOwn, [Next]_vars,
                      NEW q \in Proc, outblob'[q] # None
               PROVE  outblob'[q] = ReportData(req'[q])
    BY DEF ReportIsOwn
  <2> USE DEF Ownership, Types, ReportIsOwn
  <2>1. CASE UNCHANGED vars
    BY <2>1 DEF vars
  <2>2. ASSUME NEW p \in Proc, ReadOutblob(p)
        PROVE  outblob'[q] = ReportData(req'[q])
    BY <2>2 DEF ReadOutblob, Progress
  <2>3. ASSUME NEW p \in Proc, NEW r \in Request, Attest(p, r)
        PROVE  outblob'[q] = ReportData(req'[q])
    BY <2>3 DEF Attest
  <2>4. ASSUME NEW p \in Proc,
               \/ Mkdir(p) \/ CallFails(p) \/ WriteInblob(p) \/ ReadProvider(p)
               \/ Rmdir(p) \/ Parse(p) \/ Check(p) \/ Killed(p)
        PROVE  outblob'[q] = ReportData(req'[q])
    BY <2>4 DEF Mkdir, CallFails, WriteInblob, ReadProvider, Rmdir, Parse, Check, Killed
  <2> QED BY <2>1, <2>2, <2>3, <2>4 DEF Next
<1> QED BY <1>1, <1>2, AlwaysOwnership, PTL DEF Spec

(* The platform is made to sign a binding only by the provider which that  *)
(* binding's platform expects (collect_report confirms it before it reads  *)
(* outblob).                                                               *)
THEOREM ExpectedProviderSigns == Spec => []OnlyExpectedProviderSigns
<1>1. Init => OnlyExpectedProviderSigns
  BY DEF Init, OnlyExpectedProviderSigns
<1>2. Ownership /\ OnlyExpectedProviderSigns /\ [Next]_vars => OnlyExpectedProviderSigns'
  <2> SUFFICES ASSUME Ownership, OnlyExpectedProviderSigns, [Next]_vars
               PROVE  OnlyExpectedProviderSigns'
    OBVIOUS
  <2> USE DEF OnlyExpectedProviderSigns
  <2>1. CASE UNCHANGED vars
    BY <2>1 DEF vars
  <2>2. ASSUME NEW p \in Proc, ReadOutblob(p)
        PROVE  OnlyExpectedProviderSigns'
    <3>1. req[p] \in Request /\ entry[name[p]].inblob = ReportData(req[p])
          /\ host.provider = ExpectProvider(req[p].platform)
      BY <2>2 DEF ReadOutblob, Ownership, Progress
    <3>2. host.provider = ExpectProvider(entry[name[p]].inblob[1])
      BY <3>1, ReportDataPlatform
    <3> QED BY <2>2, <3>2 DEF ReadOutblob
  <2>3. ASSUME NEW p \in Proc,
               \/ \E r \in Request : Attest(p, r)
               \/ Mkdir(p) \/ CallFails(p) \/ WriteInblob(p) \/ ReadProvider(p)
               \/ Rmdir(p) \/ Parse(p) \/ Check(p) \/ Killed(p)
        PROVE  OnlyExpectedProviderSigns'
    BY <2>3 DEF Attest, Mkdir, CallFails, WriteInblob, ReadProvider, Rmdir, Parse, Check, Killed
  <2> QED BY <2>1, <2>2, <2>3 DEF Next
<1> QED BY <1>1, <1>2, AlwaysOwnership, PTL DEF Spec

(* Every entry in the directory belongs to a collector that will remove    *)
(* it, or is left from a kill or a failed rmdir (the finally block of      *)
(* collect_report).                                                        *)
THEOREM EntriesDoNotLeak == Spec => []NoEntryLeaks
<1>1. ASSUME Init
      PROVE  NoEntryLeaks
  <2>1. \A n \in EntryName : ~entry[n].exists
    BY SMTT(30), <1>1 DEF Init, NoEntry
  <2> QED BY <2>1 DEF NoEntryLeaks
<1>2. Ownership /\ NoEntryLeaks /\ [Next]_vars => NoEntryLeaks'
  <2> SUFFICES ASSUME Ownership, NoEntryLeaks, [Next]_vars,
                      NEW n \in EntryName, entry'[n].exists
               PROVE  n \in orphans' \/ \E q \in Proc : name'[q] = n
    BY DEF NoEntryLeaks
  <2> USE DEF Ownership, Types, NoEntryLeaks
  <2>1. CASE UNCHANGED vars
    BY <2>1 DEF vars
  <2>2. ASSUME NEW p \in Proc, Mkdir(p)
        PROVE  n \in orphans' \/ \E q \in Proc : name'[q] = n
    <3>1. name[p] = None
      BY <2>2 DEF Mkdir, Holds
    <3> QED BY <2>2, <3>1, NamesAssumption DEF Mkdir
  <2>3. ASSUME NEW p \in Proc, WriteInblob(p)
        PROVE  n \in orphans' \/ \E q \in Proc : name'[q] = n
    <3>1. name[p] \in EntryName
      BY <2>3 DEF WriteInblob, Holds
    <3> QED BY <2>3, <3>1 DEF WriteInblob
  <2>4. ASSUME NEW p \in Proc, Rmdir(p)
        PROVE  n \in orphans' \/ \E q \in Proc : name'[q] = n
    <3>1. name[p] \in EntryName
      BY <2>4 DEF Rmdir, Holds
    <3>2. entry[n].exists /\ (n # name[p] \/ n \in orphans')
      BY <2>4, <3>1 DEF Rmdir, NoEntry
    <3> QED BY <2>4, <3>2 DEF Rmdir
  <2>5. ASSUME NEW p \in Proc, Killed(p)
        PROVE  n \in orphans' \/ \E q \in Proc : name'[q] = n
    <3>1. n = name[p] => n \in orphans'
      BY SMTT(30), <2>5, NamesAssumption DEF Killed
    <3> QED BY <2>5, <3>1 DEF Killed
  <2>6. ASSUME NEW p \in Proc,
               \/ \E r \in Request : Attest(p, r)
               \/ CallFails(p) \/ ReadProvider(p) \/ ReadOutblob(p) \/ Parse(p) \/ Check(p)
        PROVE  n \in orphans' \/ \E q \in Proc : name'[q] = n
    BY <2>6, Zenon DEF Attest, CallFails, ReadProvider, ReadOutblob, Parse, Check
  <2> QED BY <2>1, <2>2, <2>3, <2>4, <2>5, <2>6, Zenon DEF Next
<1> QED BY <1>1, <1>2, AlwaysOwnership, PTL DEF Spec

-----------------------------------------------------------------------------
(* Collectors and verifiers agree *)

(* A process that returned a report has read its own. *)
Returned ==
    /\ outcome \in [Proc -> {"pending", "report", "AttestationFailed", "AttestationUnsupported"}]
    /\ \A p \in Proc : outcome[p] = "report" =>
           /\ pc[p] = "idle"
           /\ req[p] \in Request
           /\ outblob[p] = ReportData(req[p])

LEMMA InitReturned == Init => Returned
BY DEF Init, Returned

LEMMA NextReturned == Ownership /\ Returned /\ [Next]_vars => Returned'
<1> SUFFICES ASSUME Ownership, Returned, [Next]_vars PROVE Returned'
  OBVIOUS
<1>1. CASE UNCHANGED vars
  BY <1>1 DEF vars, Returned
<1>2. ASSUME NEW p \in Proc, NEW r \in Request, Attest(p, r) PROVE Returned'
  <2>1. \A q \in Proc \ {p} : /\ outcome'[q] = outcome[q] /\ pc'[q] = pc[q]
                             /\ req'[q] = req[q] /\ outblob'[q] = outblob[q]
    BY <1>2 DEF Attest, Goto, Outcome, Ownership, Types, Returned
  <2>2. outcome'[p] # "report"
    BY <1>2 DEF Attest, Outcome, Returned
  <2> QED
    BY <1>2, <2>1, <2>2 DEF Attest, Outcome, Returned
<1>3. ASSUME NEW p \in Proc, Check(p) PROVE Returned'
  <2>1. \A q \in Proc \ {p} : outcome'[q] = outcome[q] /\ pc'[q] = pc[q]
    BY <1>3 DEF Check, Goto, Outcome, Ownership, Types, Returned
  <2>2. UNCHANGED <<req, outblob>> /\ req[p] \in Request
    BY <1>3 DEF Check, Ownership, Progress
  <2>3. outcome'[p] = "report" => pc'[p] = "idle" /\ outblob[p] = ReportData(req[p])
    BY <1>3 DEF Check, Goto, Outcome, Ownership, Types, Returned
  <2> QED
    BY <1>3, <2>1, <2>2, <2>3 DEF Check, Outcome, Returned
<1>4. ASSUME NEW p \in Proc, ReadOutblob(p) PROVE Returned'
  BY <1>4 DEF ReadOutblob, Goto, Ownership, Types, Returned
<1>5. ASSUME NEW p \in Proc, Killed(p) PROVE Returned'
  BY <1>5 DEF Killed, Goto, Outcome, Ownership, Types, Returned
<1>6. ASSUME NEW p \in Proc, pc[p] # "idle", UNCHANGED <<req, outblob>>,
             \E l \in Label : Goto(p, l),
             UNCHANGED outcome \/ \E o \in {"AttestationFailed", "AttestationUnsupported"} : Outcome(p, o)
      PROVE  Returned'
  BY <1>6 DEF Goto, Outcome, Ownership, Types, Returned
<1>7. ASSUME NEW p \in Proc,
             \/ Mkdir(p) \/ CallFails(p) \/ WriteInblob(p) \/ ReadProvider(p)
             \/ Rmdir(p) \/ Parse(p)
      PROVE  Returned'
  <2>1. pc[p] # "idle" /\ UNCHANGED <<req, outblob>>
    BY <1>7 DEF Mkdir, CallFails, WriteInblob, ReadProvider, Rmdir, Parse
  <2>2. \E l \in Label : Goto(p, l)
    BY <1>7 DEF Mkdir, CallFails, WriteInblob, ReadProvider, Rmdir, Parse, Label
  <2>3. UNCHANGED outcome \/ \E o \in {"AttestationFailed", "AttestationUnsupported"} : Outcome(p, o)
    BY <1>7 DEF Mkdir, CallFails, WriteInblob, ReadProvider, Rmdir, Parse
  <2> QED
    BY <1>6, <2>1, <2>2, <2>3
<1> QED
  BY <1>1, <1>2, <1>3, <1>4, <1>5, <1>7 DEF Next

LEMMA SameBinding ==
    ASSUME NEW l \in Request, NEW r \in Request
    PROVE  /\ ReportData(l) = ReportData(r) <=> l = r
           /\ ReportData(r) \in Binding
           /\ None # ReportData(r)
<1>1. ReportData(l) = ReportData(r) => /\ l.platform = r.platform /\ l.role = r.role
                                       /\ l.public_key = r.public_key /\ l.nonce = r.nonce
  BY DEF ReportData
<1>2. ReportData(r) \in Binding
  BY DEF Request, ReportData, Binding
<1> QED
  BY <1>1, <1>2, EvidenceAssumption DEF Request

(* What a guest may be like. *)
Guest ==
    [signature_algo : {"ecdsa-p384"}, measurement : {"workload", "other"},
     report_data : {None}, platform_info : SUBSET {"ecc", "smt", "unrecognized"},
     debug : BOOLEAN, vmpl : Nat, guest_svn : Nat]

(* The verifier's conditions, field by field of the body it is shown. *)
Accepts(b, l) ==
    /\ b.signature_algo = "ecdsa-p384"
    /\ b.measurement = "workload"
    /\ b.report_data = <<"sev-snp", l.role, l.public_key, l.nonce>>
    /\ "ecc" \in b.platform_info /\ "smt" \notin b.platform_info
    /\ "unrecognized" \notin b.platform_info
    /\ ~b.debug /\ b.vmpl = 0 /\ b.guest_svn >= 1

LEMMA ReportedBody ==
    ASSUME NEW g \in Guest, NEW d \in Binding
    PROVE  LET b == [g EXCEPT !.report_data = d]
           IN  /\ b \in SnpBody
               /\ b.signature_algo = g.signature_algo /\ b.measurement = g.measurement
               /\ b.report_data = d /\ b.platform_info = g.platform_info
               /\ b.debug = g.debug /\ b.vmpl = g.vmpl /\ b.guest_svn = g.guest_svn
BY DEF Guest, SnpBody

(* What the SEV-SNP verifier makes of a report with a given body. *)
LEMMA SnpAppraisal ==
    ASSUME NEW l \in Request, NEW b \in SnpBody
    PROVE  LET report == [platform |-> "sev-snp", role |-> l.role,
                          public_key |-> l.public_key, nonce |-> l.nonce,
                          raw_evidence |-> [body |-> b, signature |-> Signature("vcek", b)]]
           IN  SevSnpVerifier(SnpPolicy, report, l.nonce) =
                   IF Accepts(b, l) THEN "workload" ELSE Failed
<1> DEFINE raw == [body |-> b, signature |-> Signature("vcek", b)]
           report == [platform |-> "sev-snp", role |-> l.role,
                      public_key |-> l.public_key, nonce |-> l.nonce, raw_evidence |-> raw]
<1>1. raw.body = b /\ raw.signature = Signature("vcek", b) /\ raw \in SnpEvidence
  BY DEF SnpEvidence, Signature
<1>2. raw # None
  BY <1>1, EvidenceAssumption
<1> HIDE DEF raw
<1>3. /\ report.platform = "sev-snp" /\ report.nonce = l.nonce /\ report.raw_evidence = raw
      /\ ReportData(report) = <<"sev-snp", l.role, l.public_key, l.nonce>>
  BY DEF ReportData
<1> HIDE DEF report
<1>a. "workload" # None /\ ReportData(report) # None
  <2>1. <<"sev-snp", l.role, l.public_key, l.nonce>> \in Binding
    BY DEF Request, Binding, Platform
  <2> QED BY <1>3, <2>1, EvidenceAssumption
<1>4. VerifySevSnpReport(raw, SnpPolicy, ReportData(report)) <=>
          /\ b.signature_algo = "ecdsa-p384"
          /\ b.measurement = "workload"
          /\ b.report_data = <<"sev-snp", l.role, l.public_key, l.nonce>>
          /\ "ecc" \in b.platform_info /\ "smt" \notin b.platform_info
          /\ "unrecognized" \notin b.platform_info
  BY <1>1, <1>3, <1>a DEF VerifySevSnpReport, VerifyCertChain, AppraisePlatformInfo, SnpPolicy
<1>5. SnpPolicy.min_guest_svn = 1
  BY DEF SnpPolicy
<1>6. SevSnpVerifier(SnpPolicy, report, l.nonce) =
          IF Accepts(b, l) THEN "workload" ELSE Failed
  BY <1>1, <1>2, <1>3, <1>4, <1>5 DEF SevSnpVerifier, Accepts
<1> QED
  BY <1>6 DEF report, raw

LEMMA SoundIsGuest == SoundGuest \in Guest
BY DEF SoundGuest, Guest

LEMMA UnsoundIsGuest ==
    ASSUME NEW g \in UnsoundGuests, NEW l, NEW d \in Binding
    PROVE  g \in Guest /\ ~Accepts([g EXCEPT !.report_data = d], l)
<1>1. g \in Guest
  <2>1. [SoundGuest EXCEPT !.measurement = "other"] \in Guest
    BY SoundIsGuest DEF Guest
  <2>2. \A b \in BOOLEAN : [SoundGuest EXCEPT !.debug = b] \in Guest
    BY SoundIsGuest DEF Guest
  <2>3. \A n \in Nat : [SoundGuest EXCEPT !.vmpl = n] \in Guest
    BY SoundIsGuest DEF Guest
  <2>4. \A n \in Nat : [SoundGuest EXCEPT !.guest_svn = n] \in Guest
    BY SoundIsGuest DEF Guest
  <2>5. \A i \in SUBSET {"ecc", "smt", "unrecognized"} :
            [SoundGuest EXCEPT !.platform_info = i] \in Guest
    BY SoundIsGuest DEF Guest
  <2> QED
    BY <2>1, <2>2, <2>3, <2>4, <2>5, Zenon DEF UnsoundGuests
<1>2. \/ g.measurement = "other" \/ g.debug \/ g.vmpl = 1 \/ g.guest_svn = 0
      \/ "ecc" \notin g.platform_info \/ "smt" \in g.platform_info
      \/ "unrecognized" \in g.platform_info
  BY DEF UnsoundGuests, SoundGuest
<1> QED
  BY <1>1, <1>2, ReportedBody DEF Accepts

LEMMA SnpAgrees ==
    ASSUME NEW p \in Proc, req[p] \in Request, outblob[p] = ReportData(req[p])
    PROVE  SnpVerifiedAsCollected(p)
<1> SUFFICES ASSUME req[p].platform = "sev-snp" PROVE SnpVerifiedAsCollected(p)!2
  BY DEF SnpVerifiedAsCollected
<1> DEFINE Body(g) == [g EXCEPT !.report_data = outblob[p]]
<1>1. outblob[p] \in Binding
  BY SameBinding
<1>2. ASSUME NEW g \in Guest, NEW l \in Request
      PROVE  SevSnpVerifier(SnpPolicy, SnpReport(p, g, l), l.nonce) =
                 IF Accepts(Body(g), l) THEN "workload" ELSE Failed
  BY <1>1, ReportedBody, SnpAppraisal DEF SnpReport
<1>3. ASSUME NEW l \in Request
      PROVE  Accepts(Body(SoundGuest), l) <=> [l EXCEPT !.platform = "sev-snp"] = req[p]
  <2>1. Accepts(Body(SoundGuest), l) <=>
            outblob[p] = <<"sev-snp", l.role, l.public_key, l.nonce>>
    BY DEF SoundGuest, Accepts
  <2>2. [l EXCEPT !.platform = "sev-snp"] \in Request
    BY DEF Request, Platform
  <2>3. ReportData([l EXCEPT !.platform = "sev-snp"]) =
            <<"sev-snp", l.role, l.public_key, l.nonce>>
    BY DEF Request, ReportData
  <2> QED
    BY <2>1, <2>2, <2>3, SameBinding
<1> HIDE DEF Body
<1>4. Failed # "workload"
  BY EvidenceAssumption
<1>5. \A g \in UnsoundGuests : g \in Guest /\ ~Accepts(Body(g), req[p])
  BY <1>1, UnsoundIsGuest DEF Body
<1> QED
  BY <1>2, <1>3, <1>4, <1>5, SoundIsGuest

(* The links of a quote hold together: of two quotes whose keys and roots  *)
(* differ, a mixture passes the signatures and the trusted root only when  *)
(* it is the first one unchanged.                                          *)
LEMMA SplicedQuote ==
    ASSUME NEW d, NEW e, NEW x, NEW parts,
           NEW q, q = Spliced(TdxQuote("intel", d), TdxQuote("unknown", e), parts)
    PROVE  /\ q = TdxQuote("intel", d) \/ ~VerifyTdxQuote(q, {"intel"}, "workload", x)
           /\ q = TdxQuote("intel", d) /\ x # None =>
                  (VerifyTdxQuote(q, {"intel"}, "workload", x) <=> d = x)
<1> DEFINE here == TdxQuote("intel", d)
           there == TdxQuote("unknown", e)
           F == {"body", "quote_signature", "attestation_key", "qe_report",
                 "qe_report_signature", "pck_chain"}
           Body(y) == [tee_type |-> "tdx", mrtd |-> "workload", report_data |-> y]
           Vouched(root) == [report_data |-> <<"ak", root>>]
<1>1. /\ here = [f \in F |-> here[f]]
      /\ here["body"] = Body(d) /\ here["attestation_key"] = <<"ak", "intel">>
      /\ here["quote_signature"] = Signature(<<"ak", "intel">>, Body(d))
      /\ here["qe_report"] = Vouched("intel")
      /\ here["qe_report_signature"] = Signature(<<"pck", "intel">>, Vouched("intel"))
      /\ here["pck_chain"] = [key |-> <<"pck", "intel">>, root |-> "intel"]
  BY DEF TdxQuote
<1>2. /\ there["body"] = Body(e) /\ there["attestation_key"] = <<"ak", "unknown">>
      /\ there["quote_signature"] = Signature(<<"ak", "unknown">>, Body(e))
      /\ there["qe_report"] = Vouched("unknown")
      /\ there["qe_report_signature"] = Signature(<<"pck", "unknown">>, Vouched("unknown"))
      /\ there["pck_chain"] = [key |-> <<"pck", "unknown">>, root |-> "unknown"]
  BY DEF TdxQuote
<1>3. \A y : Body(y).tee_type = "tdx" /\ Body(y).mrtd = "workload" /\ Body(y).report_data = y
  OBVIOUS
<1>4. \A r : Vouched(r).report_data = <<"ak", r>>
  OBVIOUS
<1> HIDE DEF here, there, Body, Vouched
<1>5. q = [f \in F |-> IF f \in parts THEN there[f] ELSE here[f]]
  BY <1>1 DEF Spliced, here, there
<1>6. \A k1, k2, o1, o2 : Signature(k1, o1) = Signature(k2, o2) => k1 = k2 /\ o1 = o2
  BY DEF Signature
<1>7. ASSUME VerifyTdxQuote(q, {"intel"}, "workload", x) PROVE q = here
  <2>1. q["pck_chain"] = here["pck_chain"]
    BY <1>1, <1>2, <1>5, <1>7 DEF VerifyTdxQuote, VerifyCertChain
  <2>2. q["qe_report_signature"] = Signature(<<"pck", "intel">>, q["qe_report"])
    BY <1>1, <1>7, <2>1 DEF VerifyTdxQuote
  <2>3. q["qe_report_signature"] = here["qe_report_signature"] /\ q["qe_report"] = Vouched("intel")
    BY <1>1, <1>2, <1>5, <1>6, <2>2
  <2>4. q["attestation_key"] = <<"ak", "intel">>
    BY <1>4, <1>7, <2>3, Zenon DEF VerifyTdxQuote
  <2>5. q["quote_signature"] = Signature(<<"ak", "intel">>, q["body"])
    BY <1>7, <2>4 DEF VerifyTdxQuote
  <2>6. q["quote_signature"] = here["quote_signature"] /\ q["body"] = Body(d)
    BY <1>1, <1>2, <1>5, <1>6, <2>5
  <2> QED
    BY <1>1, <1>5, <2>1, <2>3, <2>4, <2>6
<1>8. ASSUME q = here, x # None
      PROVE  VerifyTdxQuote(q, {"intel"}, "workload", x) <=> d = x
  BY <1>1, <1>3, <1>4, <1>8 DEF VerifyTdxQuote, VerifyCertChain
<1> QED
  BY <1>7, <1>8 DEF here

LEMMA TdxAgrees ==
    ASSUME NEW p \in Proc, req[p] \in Request, outblob[p] = ReportData(req[p])
    PROVE  TdxVerifiedAsCollected(p)
<1> SUFFICES ASSUME NEW l \in Request,
                    NEW q, NEW parts,
                    q = Spliced(TdxQuote("intel", outblob[p]), TdxQuote("unknown", ReportData(l)), parts)
             PROVE  VerifyTdxQuote(q, {"intel"}, "workload", ReportData(l))
                        <=> q = TdxQuote("intel", outblob[p]) /\ l = req[p]
  BY DEF TdxVerifiedAsCollected
<1>1. ReportData(l) # None
  BY SameBinding
<1>2. ReportData(l) = outblob[p] <=> l = req[p]
  BY SameBinding
<1> QED
  BY <1>1, <1>2, SplicedQuote

(* A collected SEV-SNP report or TDX quote is accepted by the offline      *)
(* verifiers for the request it was collected for and for no other, from   *)
(* no guest the policy refuses and not after a splice with the quote of a  *)
(* machine outside the trusted root.                                       *)
THEOREM EveryReportVerifiesAsCollected == Spec => []VerifiedAsCollected
<1>1. Returned => VerifiedAsCollected
  BY SnpAgrees, TdxAgrees DEF Returned, VerifiedAsCollected
<1> QED
  BY <1>1, InitReturned, NextReturned, AlwaysOwnership, PTL DEF Spec
=============================================================================
