----------------------------- MODULE TpmCollect -----------------------------
(***************************************************************************)
(* Collecting a TPM quote (TpmProvider.attest in tee/tpm.py): the PCRs are *)
(* read, a signing key is chosen, the quote is made and compared with the  *)
(* PCRs read.  Each TPM command and each fetch is a step of its own and    *)
(* may fail.  Meanwhile the system extends PCRs, the platform renews the   *)
(* certificate in NV, and other collectors use the same TPM.               *)
(***************************************************************************)
EXTENDS EvidenceVerify, Sequences, FiniteSets

CONSTANTS
    Proc,           \* collectors
    Slot,           \* the TPM's slots for transient keys
    Role, PubKey, Nonce,
    NvSize,         \* size of the certificate in NV, in blocks
    ChunkMax,       \* largest number of blocks one NV read returns
    AiaMaxDepth,    \* _AIA_MAX_DEPTH
    PathLength,     \* certificates from the platform key to below the vendor's root
    MaxBundle,      \* bound on the certificates in one PKCS#7 bundle
    MaxExtends,     \* bound on the extensions of a PCR
    MaxRenewals,    \* bound on the renewals of the certificate
    MaxCalls        \* bound on the calls made

ASSUME SizesAssumption ==
    /\ {NvSize, ChunkMax, AiaMaxDepth, PathLength, MaxBundle} \subseteq Nat \ {0}
    /\ {MaxExtends, MaxRenewals, MaxCalls} \subseteq Nat
ASSUME SlotsAssumption == None \notin Slot /\ "platform" \notin Slot

Request == [role : Role, public_key : PubKey, nonce : Nonce]

(* What a host is like.  nv: what the NV index of the certificate holds    *)
(* (nothing, no bytes, bytes that are no certificate, or a certificate of  *)
(* the platform key or of another key); key: whether the platform key is   *)
(* at its handle; rm: whether a resource manager stands before the TPM;    *)
(* chunk: its limit on one read of NV, for which nothing rules out 0.      *)
Host == [ready : BOOLEAN, rm : BOOLEAN, key : BOOLEAN, chunk : 0..ChunkMax,
         nv : {"undefined", "empty", "junk", "platform", "other"}]

VARIABLES
    host,
    pcr,        \* how often the quoted PCRs were extended
    cert,       \* how often the certificate was renewed
    device,     \* the collectors that have the TPM open
    loaded,     \* occupied slots
    orphans,    \* slots whose flush failed or whose collector died (history)
    c,          \* what each collector knows: the locals of _collect, and moved, whether
                \* a PCR was extended since it read them (history)
    calls

vars == <<host, pcr, cert, device, loaded, orphans, c, calls>>

Idle == [pc |-> "idle", req |-> None, local |-> None, out |-> <<>>,
         chain |-> None, handle |-> None, quote |-> None, moved |-> FALSE, outcome |-> "pending"]

Init ==
    /\ host \in Host
    /\ pcr = 0
    /\ cert = 0
    /\ device = {}
    /\ loaded = {}
    /\ orphans = {}
    /\ c = [p \in Proc |-> Idle]
    /\ calls = 0

At(p, l) == c[p].pc = l
Goto(p, l) == c' = [c EXCEPT ![p].pc = l]
Raise(p, e) == c' = [c EXCEPT ![p].pc = "idle", ![p].outcome = e]

(* total in _read_nv. *)
Total == IF host.nv = "empty" THEN 0 ELSE NvSize

(* The bytes read are those of one version of the certificate. *)
Whole(out) == \A i, j \in DOMAIN out : out[i] = out[j]

(* What load_any may make of the bytes read: the certificate, or the       *)
(* bundle, that NV holds.  It looks at structure only, so bytes that a     *)
(* renewal tore may load too, with the same key or another one and with a  *)
(* signature that is broken or not.                                        *)
LoadAny(out) ==
    IF host.nv \notin {"platform", "other"} THEN {}
    ELSE [leaf : IF Whole(out) THEN {host.nv} ELSE {host.nv, "other"},
          length : 1..MaxBundle,
          broken : IF Whole(out) THEN {{}} ELSE {{}, {"torn"}}]

-----------------------------------------------------------------------------
(* attest, _require_host. *)
Attest(p, r) ==
    /\ At(p, "idle")
    /\ calls < MaxCalls
    /\ calls' = calls + 1
    /\ c' = [c EXCEPT ![p] = [Idle EXCEPT !.req = r,
                !.pc = IF host.ready THEN "open" ELSE "idle",
                !.outcome = IF host.ready THEN "pending" ELSE "AttestationUnsupported"]]
    /\ UNCHANGED <<host, pcr, cert, device, loaded, orphans>>

(* with ESAPI(): the device is opened.  Without a resource manager only one *)
(* collector can have it open.  An open that fails raises the binding's    *)
(* own error, which nothing here converts.                                 *)
Open(p) ==
    /\ At(p, "open")
    /\ \/ /\ host.rm \/ device = {}
          /\ device' = device \cup {p}
          /\ Goto(p, "pcrs")
       \/ Raise(p, "TSS2_Exception") /\ UNCHANGED device
    /\ UNCHANGED <<host, pcr, cert, loaded, orphans, calls>>

(* _read_pcrs: no bank to read, too few PCRs, or the digest of their values. *)
ReadPcrs(p) ==
    /\ At(p, "pcrs")
    /\ \/ /\ c' = [c EXCEPT ![p].local = pcr, ![p].pc = "nv"]
          /\ UNCHANGED device
       \/ /\ \E e \in {"AttestationUnsupported", "AttestationFailed"} : Raise(p, e)
          /\ device' = device \ {p}
    /\ UNCHANGED <<host, pcr, cert, loaded, orphans, calls>>

(* _read_nv up to the loop: an index that is not defined, or cannot be     *)
(* asked about, means there is no certificate.                             *)
NvPublic(p) ==
    /\ At(p, "nv")
    /\ \/ host.nv # "undefined" /\ Goto(p, "nvread")
       \/ Goto(p, "create")
    /\ UNCHANGED <<host, pcr, cert, device, loaded, orphans, calls>>

(* Mutant: the loop goes on while len(out) <= total. *)
NvRead_OneMore(p) ==
    /\ At(p, "nvread")
    /\ LET have == Len(c[p].out)
           left == Total - have
           want == IF left < host.chunk THEN left ELSE host.chunk
       IN  \/ /\ have <= Total
              /\ c' = [c EXCEPT ![p].out = @ \o [i \in 1..want |-> cert]]
           \/ have > Total /\ Goto(p, "public")
    /\ UNCHANGED <<host, pcr, cert, device, loaded, orphans, calls>>

(* One turn of the loop of _read_nv: the next chunk of the certificate as  *)
(* it is now.                                                              *)
NvRead(p) ==
    /\ At(p, "nvread")
    /\ LET have == Len(c[p].out)
           left == Total - have
           want == IF left < host.chunk THEN left ELSE host.chunk
       IN  \/ /\ have < Total
              /\ c' = [c EXCEPT ![p].out = @ \o [i \in 1..want |-> cert]]
           \/ have >= Total /\ Goto(p, "public")
    /\ UNCHANGED <<host, pcr, cert, device, loaded, orphans, calls>>

(* A read that fails means there is no certificate. *)
NvReadFails(p) ==
    /\ At(p, "nvread")
    /\ Len(c[p].out) < Total
    /\ Goto(p, "create")
    /\ UNCHANGED <<host, pcr, cert, device, loaded, orphans, calls>>

(* tr_from_tpmpublic and read_public of the platform key. *)
ReadPublic(p) ==
    /\ At(p, "public")
    /\ \/ host.key /\ Goto(p, "leaf")
       \/ Goto(p, "create")
    /\ UNCHANGED <<host, pcr, cert, device, loaded, orphans, calls>>

(* _chain_from_leaf: the leaf, or none when the bytes do not load. *)
LoadLeaf(p) ==
    /\ At(p, "leaf")
    /\ \/ \E chain \in LoadAny(c[p].out) : c' = [c EXCEPT ![p].chain = chain, ![p].pc = "aia"]
       \/ (LoadAny(c[p].out) = {} \/ ~Whole(c[p].out)) /\ Goto(p, "create")
    /\ UNCHANGED <<host, pcr, cert, device, loaded, orphans, calls>>

(* The top of its loop: a fetch begins, or an error makes the platform key *)
(* unusable.  The walk may also end at any turn.                           *)
WalkAia(p) ==
    /\ At(p, "aia")
    /\ \/ c[p].chain.length < AiaMaxDepth /\ Goto(p, "fetch")
       \/ c' = [c EXCEPT ![p].chain = None, ![p].pc = "create"]
    /\ UNCHANGED <<host, pcr, cert, device, loaded, orphans, calls>>

(* The fetch returns a certificate, which nothing checks to be the         *)
(* issuer's, or it fails and ends the walk.                                *)
FollowAia(p) ==
    /\ At(p, "fetch")
    /\ \/ \E stray \in {{}, {"stray"}} :
            c' = [c EXCEPT ![p].chain = [leaf |-> @.leaf, length |-> @.length + 1,
                                         broken |-> @.broken \cup stray],
                           ![p].pc = "aia"]
       \/ Goto(p, "certify")
    /\ UNCHANGED <<host, pcr, cert, device, loaded, orphans, calls>>

(* At the end of the walk, _certifies and the choice of _attestation_key:  *)
(* the platform key with its chain when the leaf carries its public key,   *)
(* else a transient key without one.                                       *)
Certifies(p) ==
    /\ At(p, "aia") \/ At(p, "certify")
    /\ c' = IF c[p].chain.leaf = "platform"
            THEN [c EXCEPT ![p].handle = "platform", ![p].pc = "quote"]
            ELSE [c EXCEPT ![p].chain = None, ![p].pc = "create"]
    /\ UNCHANGED <<host, pcr, cert, device, loaded, orphans, calls>>

(* _create_attestation_key: create_primary in a free slot. *)
CreateKey(p) ==
    /\ At(p, "create")
    /\ \/ \E s \in Slot \ loaded :
            /\ loaded' = loaded \cup {s}
            /\ c' = [c EXCEPT ![p].handle = s, ![p].pc = "quote"]
            /\ UNCHANGED device
       \/ /\ Raise(p, "AttestationFailed")
          /\ device' = device \ {p}
          /\ UNCHANGED loaded
    /\ UNCHANGED <<host, pcr, cert, orphans, calls>>

(* ectx.quote: the TPM signs the qualifying data and the PCRs as they are  *)
(* now, or the command fails.                                              *)
Quote(p) ==
    /\ At(p, "quote")
    /\ \/ c' = [c EXCEPT ![p].pc = "flush",
                ![p].quote = [signer |-> IF c[p].handle = "platform" THEN "platform" ELSE "transient",
                              data |-> QualifyingData(c[p].req), pcr |-> pcr]]
       \/ c' = [c EXCEPT ![p].pc = "flush", ![p].outcome = "AttestationFailed"]
    /\ UNCHANGED <<host, pcr, cert, device, loaded, orphans, calls>>

(* What the open device still holds when it is closed: a resource manager  *)
(* flushes the keys of the connection, a bare TPM keeps them.              *)
Close(p, kept) ==
    /\ device' = device \ {p}
    /\ loaded' = IF host.rm THEN loaded \ {c[p].handle} ELSE loaded \ ({c[p].handle} \ kept)
    /\ orphans' = IF host.rm THEN orphans ELSE orphans \cup (kept \cap Slot)

(* Mutant: the key is flushed only after a quote was made. *)
Flush_OnSuccess(p) ==
    /\ At(p, "flush")
    /\ device' = device \ {p}
    /\ loaded' = IF host.rm \/ c[p].quote # None THEN loaded \ {c[p].handle} ELSE loaded
    /\ c' = [c EXCEPT ![p].handle = None, ![p].pc = IF c[p].quote = None THEN "idle" ELSE "check"]
    /\ UNCHANGED <<host, pcr, cert, orphans, calls>>

(* The finally block and the end of the with block: a transient key is     *)
(* flushed, an error of the flush is only logged, the device is closed.    *)
Flush(p) ==
    /\ At(p, "flush")
    /\ \E kept \in {{}, {c[p].handle}} : Close(p, kept)
    /\ c' = [c EXCEPT ![p].handle = None, ![p].pc = IF c[p].quote = None THEN "idle" ELSE "check"]
    /\ UNCHANGED <<host, pcr, cert, calls>>

(* Mutant: the quoted PCRs are not compared with those read. *)
CheckQuote_NoPcr(k) == k.quote.data = QualifyingData(k.req)

(* _check_quote: the quote commits the key and the nonce of this call and  *)
(* the PCRs that were read.                                                *)
CheckQuote(k) ==
    /\ k.quote.data = QualifyingData(k.req)
    /\ k.quote.pcr = k.local

(* TpmQuote.parse, which may refuse the blob, _check_quote and the report. *)
Report(p) ==
    /\ At(p, "check")
    /\ \/ Raise(p, "AttestationFailed")
       \/ CheckQuote(c[p]) /\ Raise(p, "report")
    /\ UNCHANGED <<host, pcr, cert, device, loaded, orphans, calls>>

-----------------------------------------------------------------------------
(* The process ends; the system closes its device. *)
Killed(p) ==
    /\ ~At(p, "idle")
    /\ Close(p, {c[p].handle})
    /\ c' = [c EXCEPT ![p] = Idle]
    /\ UNCHANGED <<host, pcr, cert, calls>>

(* The firmware or the system extends a PCR of the quoted selection. *)
Extend ==
    /\ pcr < MaxExtends
    /\ pcr' = pcr + 1
    /\ c' = [p \in Proc |-> [c[p] EXCEPT !.moved = @ \/ (p \in device /\ c[p].local # None /\ c[p].quote = None)]]
    /\ UNCHANGED <<host, cert, device, loaded, orphans, calls>>

(* The platform writes a renewed certificate to the NV index. *)
Renew ==
    /\ host.nv \in {"platform", "other"}
    /\ cert < MaxRenewals
    /\ cert' = cert + 1
    /\ UNCHANGED <<host, pcr, device, loaded, orphans, c, calls>>

Advance(p) ==
    \/ Open(p) \/ ReadPcrs(p) \/ NvPublic(p) \/ NvRead(p) \/ ReadPublic(p) \/ LoadLeaf(p)
    \/ WalkAia(p) \/ Certifies(p) \/ CreateKey(p) \/ Quote(p) \/ Flush(p) \/ Report(p)

Next ==
    \/ \E p \in Proc : \/ \E r \in Request : Attest(p, r)
                       \/ Advance(p) \/ FollowAia(p) \/ NvReadFails(p) \/ Killed(p)
    \/ Extend
    \/ Renew

(* A TPM command returns, with an answer or an error or at the driver's    *)
(* timeout, so a running collector goes on.  Nothing is assumed of a fetch: *)
(* the timeout of urlopen is per socket operation and read() is unbounded. *)
(* That a read of NV fails is not counted on either.                       *)
Spec == Init /\ [][Next]_vars /\ \A p \in Proc : WF_vars(Advance(p))

-----------------------------------------------------------------------------

(* A report is returned only when no PCR was extended between the read of  *)
(* the PCRs and the quote: its measurement describes one state of the      *)
(* platform, however long the key selection in between took.               *)
MeasurementIsSteady ==
    \A p \in Proc : c[p].outcome = "report" => ~c[p].moved

(* Every occupied slot belongs to a collector that will flush it, unless   *)
(* the flush failed or the collector died on a host without a resource     *)
(* manager; no error path of _collect leaves a key in the TPM.             *)
NoKeyLeaks ==
    \A s \in loaded : s \in orphans \/ \E p \in Proc : c[p].handle = s

(* A fetch that does not return, and the loop of _read_nv under a TPM that *)
(* reports a limit of 0.                                                   *)
Stuck(p) == At(p, "fetch") \/ (At(p, "nvread") /\ host.chunk = 0 /\ Len(c[p].out) < Total)

(* attest comes back: the chunked NV read, the walk along the issuers and  *)
(* every fall-back end.  The one thing that keeps it for ever is a single  *)
(* fetch of an issuer that never returns, or the loop of _read_nv when the *)
(* TPM reports that it reads 0 bytes at a time.                            *)
AttestReturns ==
    \A p \in Proc : []<>At(p, "idle") \/ <>[]Stuck(p)

-----------------------------------------------------------------------------
(* A chain leads to the vendor's root when it is long enough and each      *)
(* certificate is signed by the next.                                      *)
Rooted(chain) == chain.length >= PathLength /\ chain.broken = {}

(* The report a collector k returns, under the label l and with the        *)
(* measurement d; its signature is made under some hash.                   *)
TpmReport(k, l, d, hash) ==
    LET attest == [data |-> k.quote.data, pcr |-> k.quote.pcr]
    IN  [role |-> l.role, public_key |-> l.public_key, nonce |-> l.nonce, measurement |-> d,
         raw_evidence |-> attest,
         quote_signature |-> TpmtSignature(k.quote.signer, attest, <<"rsa", hash>>),
         attestation_key_chain |->
             IF k.chain = None THEN None
             ELSE [key |-> k.chain.leaf, type |-> "rsa",
                   root |-> IF Rooted(k.chain) THEN "vendor" ELSE None]]

Labels == [role : Role, public_key : PubKey \cup {"other"}, nonce : Nonce \cup {"other"}]

(* What the evidence in a report may be; none of it is None. *)
Data == Role \X (PubKey \cup {"other"}) \X (Nonce \cup {"other"})
Evidence == [data : Data, pcr : Nat]
Scheme == {"rsa"} \X {"sha256", "sha384"}
QuoteSignature == [key : {"platform", "transient"}, over : Evidence, made : Scheme, declared : Scheme]
KeyChain == [key : {"platform"}, type : {"rsa"}, root : {"vendor", None}]
Chain == [leaf : {"platform", "other"}, length : Nat, broken : SUBSET {"torn", "stray"}]
ASSUME EvidenceAssumption ==
    /\ None \notin {"vendor"} \cup Nat \cup Data \cup Evidence \cup Scheme
    /\ None \notin QuoteSignature \cup KeyChain \cup Chain
    /\ "later" \notin Nonce

(* How verify_tpm_report and verify_tpm_quote judge that report. *)
JudgedAsCollected(k, l, d, hash) ==
    LET report == TpmReport(k, l, d, hash)
        bare == [report.quote_signature EXCEPT !.declared = None]
        rooted == k.chain # None /\ Rooted(k.chain)
    IN  /\ VerifyTpmReport(report, l.nonce, {"vendor"}) =
               IF rooted /\ l = k.req /\ d = k.local THEN k.local ELSE Failed
        /\ VerifyTpmReport(report, "later", {"vendor"}) = Failed
        /\ VerifyTpmReport(report, l.nonce, {}) = Failed
        /\ VerifyTpmQuote(report.raw_evidence, bare, report.attestation_key_chain,
                          {"vendor"}, d, QualifyingData(l))
               <=> rooted /\ l = k.req /\ d = k.local /\ hash = "sha256"

(* Collector and verify_tpm_report agree: a collected report is accepted,  *)
(* under its own key, nonce, role and measurement and under no other, if   *)
(* it ships a chain that leads to a trusted root, and the measurement it   *)
(* proves is the one of the PCRs read.  The leaf of a chain carries the    *)
(* key that signed, whatever NV held while it was read or renewed, and a   *)
(* transient key's quote "cannot be mistaken for the stronger tier".  What *)
(* a renewal tore may load and ship, since only the key is compared; such  *)
(* a report is refused, and none is torn when NV was read as it stood.  A  *)
(* signature without its declaration is taken as SHA-256 and nothing else. *)
TpmVerifiedAsCollected ==
    \A p \in Proc : c[p].outcome = "report" =>
        /\ \A l \in Labels, d \in 0..MaxExtends, hash \in {"sha256", "sha384"} :
              JudgedAsCollected(c[p], l, d, hash)
        /\ (c[p].chain # None /\ Whole(c[p].out)) => "torn" \notin c[p].chain.broken
=============================================================================
