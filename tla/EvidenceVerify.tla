--------------------------- MODULE EvidenceVerify ---------------------------
(***************************************************************************)
(* The offline appraisal of evidence (ca2a_verify): what a relying party   *)
(* computes from a report of AMD SEV-SNP (sev_snp.py), Intel TDX (tdx.py)  *)
(* or a TPM 2.0 (tpm.py), and the bindings both sides derive.              *)
(*                                                                         *)
(* A signature is the key that made it and what it covers; a certificate   *)
(* chain is the key of its leaf and the root it leads to.                  *)
(***************************************************************************)
EXTENDS Naturals

CONSTANTS
    None,     \* Python's None
    Failed    \* a verifier raises AttestationFailed

Signature(key, over) == [key |-> key, over |-> over]

(* role_prefix, derive_binding and pad_report_data: the report data commits *)
(* the platform and the role by its prefix, then the key and the nonce.    *)
ReportData(r) == <<r.platform, r.role, r.public_key, r.nonce>>

(* tpm_qualifying_data: role_prefix and derive_binding commit the role, the *)
(* channel key and the nonce.                                              *)
QualifyingData(r) == <<r.role, r.public_key, r.nonce>>

VerifyCertChain(chain, trusted_roots) == chain.root \in trusted_roots

-----------------------------------------------------------------------------
(* SEV-SNP: raw evidence is the report body and its signature. *)

(* appraise_platform_info; "unrecognized" stands for the bits without name. *)
AppraisePlatformInfo(info, p) ==
    /\ p.require_platform \subseteq info
    /\ p.forbid_platform \cap info = {}
    /\ p.reject_unrecognized_platform_bits => "unrecognized" \notin info

VerifySevSnpReport(raw, p, expected_report_data) ==
    /\ raw.body.signature_algo = "ecdsa-p384"
    /\ VerifyCertChain(p.vcek_chain, p.trusted_roots)
    /\ raw.signature = Signature(p.vcek_chain.key, raw.body)
    /\ p.expected_measurement # None => raw.body.measurement = p.expected_measurement
    /\ expected_report_data # None => raw.body.report_data = expected_report_data
    /\ AppraisePlatformInfo(raw.body.platform_info, p)

(* The verifier that sev_snp_verifier builds from the policy p. *)
SevSnpVerifier(p, report, nonce) ==
    LET body == report.raw_evidence.body
    IN  IF /\ report.platform = "sev-snp"
           /\ report.raw_evidence # None
           /\ report.nonce = nonce
           /\ VerifySevSnpReport(report.raw_evidence, p, ReportData(report))
           /\ ~body.debug
           /\ body.vmpl = 0
           /\ body.guest_svn >= p.min_guest_svn
        THEN body.measurement ELSE Failed

-----------------------------------------------------------------------------
(* TDX: the quoting enclave's report vouches for an attestation key, the   *)
(* PCK signs that report and the attestation key signs the quote body; the *)
(* authentication data hashed along with the key is left out.              *)

(* Mutant: the attestation key is not compared with the one vouched for. *)
VerifyTdxQuote_AnyKey(q, trusted_roots, expected_mrtd, expected_report_data) ==
    /\ q.body.tee_type = "tdx"
    /\ VerifyCertChain(q.pck_chain, trusted_roots)
    /\ q.qe_report_signature = Signature(q.pck_chain.key, q.qe_report)
    /\ q.quote_signature = Signature(q.attestation_key, q.body)
    /\ q.body.mrtd = expected_mrtd
    /\ q.body.report_data = expected_report_data

VerifyTdxQuote(q, trusted_roots, expected_mrtd, expected_report_data) ==
    /\ q.body.tee_type = "tdx"
    /\ VerifyCertChain(q.pck_chain, trusted_roots)
    /\ q.qe_report_signature = Signature(q.pck_chain.key, q.qe_report)
    /\ q.qe_report.report_data = q.attestation_key
    /\ q.quote_signature = Signature(q.attestation_key, q.body)
    /\ expected_mrtd # None => q.body.mrtd = expected_mrtd
    /\ expected_report_data # None => q.body.report_data = expected_report_data

-----------------------------------------------------------------------------
(* TPM: attest is the quote, a TPMT_SIGNATURE also declares its scheme and *)
(* hash; "made" is the scheme the signature was really made with.          *)

TpmtSignature(key, over, scheme) ==
    [key |-> key, over |-> over, made |-> scheme, declared |-> scheme]

(* parse_tpmt_signature, and the legacy form without a declaration, which  *)
(* stands for the default of the key's type.                               *)
TagLegacyBareSignature(signature, ak) ==
    IF signature.declared # None THEN signature
    ELSE [signature EXCEPT !.declared = <<ak.type, "sha256">>]

(* agent_manifest.verify_tpm_quote: the chain, the signature under the     *)
(* declared scheme, and the two expected values where they are given.      *)
Delegate(attest, signature, chain, trusted_roots, expected_qualifying_data, expected_pcr_digest) ==
    /\ VerifyCertChain(chain, trusted_roots)
    /\ signature.key = chain.key
    /\ signature.over = attest
    /\ signature.declared = signature.made
    /\ expected_qualifying_data # None => attest.data = expected_qualifying_data
    /\ expected_pcr_digest # None => attest.pcr = expected_pcr_digest

VerifyTpmQuote(attest, signature, chain, trusted_roots, expected_pcr_digest, expected_qualifying_data) ==
    /\ chain # None
    /\ trusted_roots # {}
    /\ Delegate(attest, TagLegacyBareSignature(signature, chain), chain, trusted_roots,
                expected_qualifying_data, expected_pcr_digest)

(* Mutant: the measurement is taken from the report as it stands. *)
VerifyTpmReport_AsReported(report, expected_nonce, trusted_roots) ==
    IF \/ report.nonce # expected_nonce
       \/ None \in {report.raw_evidence, report.quote_signature, report.attestation_key_chain}
       \/ trusted_roots = {}
       \/ ~Delegate(report.raw_evidence, report.quote_signature, report.attestation_key_chain,
                    trusted_roots, QualifyingData(report), None)
    THEN Failed
    ELSE report.measurement

VerifyTpmReport(report, expected_nonce, trusted_roots) ==
    IF \/ report.nonce # expected_nonce
       \/ None \in {report.raw_evidence, report.quote_signature, report.attestation_key_chain}
       \/ trusted_roots = {}
       \/ ~Delegate(report.raw_evidence, report.quote_signature, report.attestation_key_chain,
                    trusted_roots, QualifyingData(report), None)
       \/ report.measurement # report.raw_evidence.pcr
    THEN Failed
    ELSE report.raw_evidence.pcr
=============================================================================
