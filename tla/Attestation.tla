----------------------------- MODULE Attestation -----------------------------
(***************************************************************************)
(* Attestation evidence (crate ne-attestation): how the three providers    *)
(* generate it, how verify() decides on it, and how it crosses the API     *)
(* (ne-protocol/attestation.rs).  Everything here is a pure operator; the  *)
(* state that surrounds it (who asks, when, with which seal) belongs to    *)
(* module Sealing.                                                         *)
(*                                                                         *)
(* Bytes are abstract.  A hash is a tagged copy of its input, so it is     *)
(* injective; a signature records its key and its message; a length is     *)
(* kept wherever the code compares it.                                     *)
(***************************************************************************)
EXTENDS Integers, Sequences, FiniteSets, Outcomes

CONSTANT I64Max         \* i64::MAX, scaled down

ASSUME I64MaxAssumption == I64Max \in Nat \ {0}

-----------------------------------------------------------------------------
(* Cryptography, as the code uses it. *)

Sha(alg, bytes) == <<alg, bytes>>

Sign(key, msg) == [key |-> key, msg |-> msg]

VerifyStrict(key, msg, sig) == sig = Sign(key, msg)

-----------------------------------------------------------------------------
(* The evidence envelope. *)

ProviderTypes == {"software", "sev_snp"}

\* A challenge nonce: its value and its length in bytes.
NonceNew(n) == n.len \in 16..64

canonical_report_data(provider_type, req, issued_at) ==
    [ctx |-> "ne-enclave-attestation-v1", provider_type |-> provider_type,
     workspace_id |-> req.workspace_id, measurement |-> req.measurement,
     nonce |-> req.nonce, issued_at |-> issued_at]

Evidence(provider_type, req, issued_at, proof) ==
    [provider_type |-> provider_type, workspace_id |-> req.workspace_id,
     measurement |-> req.measurement, nonce |-> req.nonce,
     issued_at |-> issued_at,
     report_data |-> canonical_report_data(provider_type, req, issued_at),
     proof |-> proof]

software_generate(signing_key, req, issued_at) ==
    LET data == canonical_report_data("software", req, issued_at)
    IN  Evidence("software", req, issued_at,
                 [kind |-> "software", signature |-> Sign(signing_key, data),
                  signer_pubkey |-> signing_key])

-----------------------------------------------------------------------------
(* SEV-SNP: firmware reports and the VCEK certificate chain. *)

\* REPORT_DATA is 64 bytes: the direct path fills both halves with a SHA-512
\* digest, the Azure paravisor fills the first with a SHA-256 one.
Digest512(data) == [head |-> Sha("sha512-head", data), tail |-> Sha("sha512-tail", data)]

ZeroTail == "zero"

AzureReportData(var_data) == [head |-> Sha("sha256", var_data), tail |-> ZeroTail]

VcekKey(chip_id, tcb) == [alg |-> "ec_p384", id |-> <<"vcek", chip_id, tcb>>]

\* External: AMD firmware stamps REPORT_DATA and signs the body with the VCEK
\* of this chip at this TCB.
FirmwareReport(host, report_data) ==
    LET body == [guest_policy |-> host.guest_policy, report_data |-> report_data,
                 measurement |-> host.meas, reported_tcb |-> host.tcb,
                 chip_id |-> host.chip]
    IN  [size |-> "full", body |-> body,
         signature |-> [rs |-> Sign(VcekKey(host.chip, host.tcb), body),
                        reserved |-> ZeroTail]]

\* The ioctl returns a 4000-byte buffer whose leading window must parse.
ioctl_get_report(host, report_data) ==
    LET report == FirmwareReport(host, report_data)
    IN  [report |-> report, chip_id |-> report.body.chip_id,
         tcb |-> report.body.reported_tcb]

snp_report_parse(report) == report.size = "full"

signed_bytes(report) == report.body

\* VcekCache and the fetcher behind it, keyed by chip and TCB.  The answer is
\* the key distribution service's: the leaf and the intermediate that signed it.
KdsChain(host, chip_id, tcb) ==
    << [form |-> "der", key |-> VcekKey(chip_id, tcb),
        sig |-> [alg |-> "rsassa_pss", by |-> [alg |-> "rsa", id |-> "ask"]]],
       [form |-> "der", key |-> [alg |-> "rsa", id |-> "ask"],
        sig |-> [alg |-> "rsassa_pss", by |-> [alg |-> "rsa", id |-> host.root]]] >>

\* An issuer signature verifies only under a key of its own algorithm; an
\* algorithm the code does not know is a malformed certificate.
verify_cert_signature(cert, issuer) ==
    CASE cert.sig.alg = "rsassa_pss" ->
           IF issuer.alg = "rsa" /\ cert.sig.by = issuer THEN Ok ELSE Err("BadChain")
      [] cert.sig.alg = "ecdsa_sha384" ->
           IF issuer.alg = "ec_p384" /\ cert.sig.by = issuer THEN Ok ELSE Err("BadChain")
      [] OTHER -> Err("MalformedCert")

\* split_concat_der, cert_pubkey and cert_tbs_and_sig: each element must be a
\* well-formed certificate.
ChainParses(chain) == \A i \in DOMAIN chain : chain[i].form = "der"

IssuerKey(chain, i, root) == IF i < Len(chain) THEN chain[i + 1].key ELSE root

amd_sig_to_p384(signature) == signature.reserved = ZeroTail

verify_report(report, chain, root) ==
    FirstFailure(
      << Check(snp_report_parse(report), "MalformedCert"),
         Check(ChainParses(chain), "MalformedCert"),
         Check(chain # <<>>, "BadChain") >>
      \o [i \in DOMAIN chain |->
            verify_cert_signature(chain[i], IssuerKey(chain, i, root))]
      \o (IF chain = <<>> THEN <<>> ELSE
          << Check(chain[1].key.alg = "ec_p384", "BadSignature"),
             Check(amd_sig_to_p384(report.signature), "BadSignature"),
             Check(VerifyStrict(chain[1].key, signed_bytes(report), report.signature.rs),
                   "BadSignature") >>))

sev_snp_generate(host, req, issued_at) ==
    LET data  == canonical_report_data("sev_snp", req, issued_at)
        snp   == ioctl_get_report(host, Digest512(data))
    IN  Evidence("sev_snp", req, issued_at,
                 [kind |-> "sev_snp", report |-> snp.report,
                  vcek_cert_chain |-> KdsChain(host, snp.chip_id, snp.tcb)])

-----------------------------------------------------------------------------
(* Azure: the boot-fixed report in vTPM memory and the TPM quote under the   *)
(* attestation key (AK).                                                     *)

\* The HCLA blob: the report window, the report type and the variable data,
\* each present only when the blob is long enough.
HclaBlob(host) ==
    LET var_data == [keys |-> <<[kid |-> "HCLAkPub", n |-> host.ak]>>]
    IN  [report |-> Some(FirmwareReport(host, AzureReportData(var_data))),
         report_type |-> Some("snp"), var_data |-> Some(var_data)]

extract_snp_report(blob) == blob.report

extract_var_data(blob) == blob.var_data

sha256_matches_report_data(var_data, report_data) ==
    report_data.head = Sha("sha256", var_data)

ak_modulus_from_jwk(var_data) ==
    LET named == {i \in DOMAIN var_data.keys : var_data.keys[i].kid = "HCLAkPub"}
    IN  IF named = {} THEN None
        ELSE Some(var_data.keys[CHOOSE i \in named : \A j \in named : i <= j].n)

\* The TPM2B_PUBLIC area tpm2_readpublic writes for the AK handle.
AkPublic(host) ==
    [exact |-> TRUE, type |-> "rsa", attributes |-> {"restricted", "sign"},
     symmetric |-> "null", scheme |-> "rsassa", hash |-> "sha256", bits |-> 2048,
     exponent |-> 0, modulus |-> host.ak, modulus_len |-> 256]

azure_ak_rsa_modulus(ak_pub) ==
    IF /\ ak_pub.exact
       /\ ak_pub.type = "rsa"
       /\ ak_pub.symmetric = "null"
       /\ ak_pub.scheme = "rsassa" /\ ak_pub.hash = "sha256"
       /\ ak_pub.bits = 2048
       /\ ak_pub.exponent \in {0, 65537}
       /\ ak_pub.modulus_len = 256
    THEN Some(ak_pub.modulus) ELSE None

ak_pub_attributes_look_like_quoting_key(ak_pub) ==
    {"restricted", "sign"} \subseteq ak_pub.attributes

\* External: tpm2_quote signs an attest structure embedding the qualifying data.
TpmQuote(host, qualifying_data) ==
    LET msg == [magic |-> "tpm_generated", extra_data |-> qualifying_data]
    IN  [msg |-> msg, sig |-> Sign(host.ak, msg)]

parse_tpm2b_attest(msg) == IF msg.magic = "tpm_generated" THEN Some(msg) ELSE None

\* AzureVtpmReportSource::open: both pre-flight reads must succeed.
azure_open(host) ==
    /\ IsSome(extract_snp_report(HclaBlob(host)))
    /\ ak_pub_attributes_look_like_quoting_key(AkPublic(host))

get_azure_evidence(host, qualifying_data) ==
    LET blob  == HclaBlob(host)
        quote == TpmQuote(host, qualifying_data)
    IN  [report |-> Get(extract_snp_report(blob)),
         var_data |-> Get(extract_var_data(blob)),
         ak_pub_tpm2b |-> AkPublic(host),
         quote_msg |-> quote.msg, quote_sig |-> quote.sig]

generate_azure(host, req, issued_at) ==
    LET data == canonical_report_data("sev_snp", req, issued_at)
        az   == get_azure_evidence(host, Sha("sha256", data))
        body == az.report.body
    IN  Evidence("sev_snp", req, issued_at,
                 [kind |-> "sev_snp_azure", report |-> az.report,
                  vcek_cert_chain |-> KdsChain(host, body.chip_id, body.reported_tcb),
                  var_data |-> az.var_data, ak_pub_tpm2b |-> az.ak_pub_tpm2b,
                  quote_msg |-> az.quote_msg, quote_sig |-> az.quote_sig])

-----------------------------------------------------------------------------
(* verify(): the checks in the order the code makes them. *)

SatSub(a, b) == LET d == a - b
                IN  IF d > I64Max THEN I64Max ELSE IF d < -I64Max - 1 THEN -I64Max - 1 ELSE d

SatAbs(a) == IF a >= 0 THEN a ELSE IF a = -I64Max - 1 THEN I64Max ELSE -a

\* Mutant: evidence from the future is always fresh.
StaleOneSided(now, issued_at, freshness) == SatSub(now, issued_at) > freshness

\* A freshness window beyond i64::MAX seconds is clamped to it.
Stale(now, issued_at, freshness) ==
    SatAbs(SatSub(now, issued_at)) > (IF freshness > I64Max THEN I64Max ELSE freshness)

verify_envelope(ev, params) ==
    FirstFailure(
      << Check(ev.provider_type \in params.accept_provider_types, "ProviderTypeNotAccepted"),
         Check(ev.nonce = params.expected_nonce, "NonceMismatch"),
         Check(IsSome(params.expected_measurement)
                 => ev.measurement = Get(params.expected_measurement), "MeasurementMismatch"),
         Check(~Stale(params.now, ev.issued_at, params.freshness), "Stale"),
         Check(NonceNew(ev.nonce), "MalformedProof"),
         Check(ev.report_data = canonical_report_data(ev.provider_type, ev, ev.issued_at),
               "BadSignature") >>)

verify_software(ev, anchor) ==
    FirstFailure(
      << Check(ev.provider_type = "software", "ProviderProofMismatch"),
         Check(anchor.kind = "software", "ProviderProofMismatch") >>
      \o (IF anchor.kind # "software" THEN <<>> ELSE
          << Check(ev.proof.signer_pubkey = anchor.expected_signer, "UntrustedSigner"),
             Check(VerifyStrict(anchor.expected_signer, ev.report_data, ev.proof.signature),
                   "BadSignature") >>))

\* The certificate chain and, once it holds, the reference-value pins.
verify_chain_and_pins(proof, anchor) ==
    LET chain == verify_report(proof.report, proof.vcek_cert_chain,
                               [alg |-> "rsa", id |-> anchor.amd_product_root])
        body  == proof.report.body
    IN  FirstFailure(
          << Check(chain # "BadSignature", "BadSignature"),
             Check(chain = Ok, "BadCertChain"),
             Check(body.reported_tcb >= anchor.min_tcb, "PolicyMismatch"),
             Check(anchor.guest_policy \subseteq body.guest_policy, "PolicyMismatch"),
             Check(IsSome(anchor.expected_host_cvm_meas)
                     => body.measurement = Get(anchor.expected_host_cvm_meas),
                   "MeasurementMismatch") >>)

verify_sev_snp(ev, anchor) ==
    FirstFailure(
      << Check(ev.provider_type = "sev_snp", "ProviderProofMismatch"),
         Check(anchor.kind = "sev_snp", "ProviderProofMismatch") >>
      \o (IF anchor.kind # "sev_snp" THEN <<>> ELSE
          << Check(snp_report_parse(ev.proof.report), "MalformedProof"),
             Check(Digest512(ev.report_data) = ev.proof.report.body.report_data,
                   "ReportDataMismatch"),
             verify_chain_and_pins(ev.proof, anchor) >>))

\* Layer 2 of the Azure binding: the quoted AK is the anchored one, and its
\* signature covers the digest of this envelope's report data.
verify_quote(ev) ==
    LET anchored == ak_modulus_from_jwk(ev.proof.var_data)
        quoting  == azure_ak_rsa_modulus(ev.proof.ak_pub_tpm2b)
        attest   == parse_tpm2b_attest(ev.proof.quote_msg)
    IN  FirstFailure(
          << Check(IsSome(anchored), "MalformedProof"),
             Check(IsSome(quoting), "MalformedProof"),
             Check(anchored = quoting, "ReportDataMismatch"),
             Check(IsSome(attest), "TpmQuoteInvalid"),
             Check(IsSome(attest) =>
                     Get(attest).extra_data = Sha("sha256", ev.report_data), "TpmQuoteInvalid"),
             Check(IsSome(quoting) =>
                     VerifyStrict(Get(quoting), ev.proof.quote_msg, ev.proof.quote_sig),
                   "TpmQuoteInvalid") >>)

verify_sev_snp_azure(ev, anchor) ==
    FirstFailure(
      << Check(ev.provider_type = "sev_snp", "ProviderProofMismatch"),
         Check(anchor.kind = "sev_snp", "ProviderProofMismatch") >>
      \o (IF anchor.kind # "sev_snp" THEN <<>> ELSE
          LET rd == ev.proof.report.body.report_data
          IN  << Check(snp_report_parse(ev.proof.report), "MalformedProof"),
                 Check(sha256_matches_report_data(ev.proof.var_data, rd), "ReportDataMismatch"),
                 Check(rd.tail = ZeroTail, "MalformedProof"),
                 verify_chain_and_pins(ev.proof, anchor),
                 verify_quote(ev) >>))

verify(ev, params) ==
    IF verify_envelope(ev, params) # Ok THEN verify_envelope(ev, params)
    ELSE CASE ev.proof.kind = "software"      -> verify_software(ev, params.trust_anchor)
           [] ev.proof.kind = "sev_snp"       -> verify_sev_snp(ev, params.trust_anchor)
           [] ev.proof.kind = "sev_snp_azure" -> verify_sev_snp_azure(ev, params.trust_anchor)

=============================================================================
