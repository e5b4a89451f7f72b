-------------------------- MODULE EvidenceVerifiers --------------------------
(***************************************************************************)
(* The public evidence contract and the three places that decide on        *)
(* evidence: the sealing gate of the runtime (ne-seal/gate.rs), the WASM   *)
(* seam an external control plane links (ne-enclave-wasm), and the offline *)
(* verifier of the command line (ne/attestation_cli.rs).  They share       *)
(* verify(), but reach it through different conversions and policies.      *)
(***************************************************************************)
EXTENDS Attestation

CONSTANTS Hosts,         \* hosts evidence is asked of
          GatePolicies,  \* policies it is judged by
          Nonces,        \* challenges, with their lengths
          Clocks         \* readings of a clock, in i64

-----------------------------------------------------------------------------
(* The public envelope (ne-protocol/attestation.rs). *)

PublicSchemaVersion == 1

PublicProviders == {"software", "sev_snp_direct", "sev_snp_azure"}

\* Which public provider a proof variant becomes, and the provider type that
\* both directions require of it.
PublicProviderOf(kind) ==
    CASE kind = "software" -> "software"
      [] kind = "sev_snp" -> "sev_snp_direct"
      [] kind = "sev_snp_azure" -> "sev_snp_azure"

DomainTypeOf(public_provider) ==
    IF public_provider = "software" THEN "software" ELSE "sev_snp"

\* The result of a conversion: a value or the error that stopped it.
Converted(error, value) == [error |-> error, value |-> value]

to_public(ev) ==
    LET provider == PublicProviderOf(ev.proof.kind)
        error == FirstFailure(
                   << Check(NonceNew(ev.nonce), "InvalidNonceLength"),
                      Check(ev.provider_type = DomainTypeOf(provider), "ProviderProofMismatch") >>)
    IN  Converted(error,
          [schema_version |-> PublicSchemaVersion, provider |-> provider,
           workspace_id |-> ev.workspace_id, workspace_measurement |-> ev.measurement,
           nonce |-> ev.nonce, issued_at |-> ev.issued_at,
           report_data |-> ev.report_data, proof |-> ev.proof])

from_public(pub) ==
    LET error == FirstFailure(
                   << Check(pub.schema_version = PublicSchemaVersion, "UnsupportedSchemaVersion"),
                      Check(NonceNew(pub.nonce), "InvalidNonceLength"),
                      Check(pub.provider = PublicProviderOf(pub.proof.kind),
                            "ProviderProofMismatch") >>)
    IN  Converted(error,
          [provider_type |-> DomainTypeOf(pub.provider), workspace_id |-> pub.workspace_id,
           measurement |-> pub.workspace_measurement, nonce |-> pub.nonce,
           issued_at |-> pub.issued_at, report_data |-> pub.report_data,
           proof |-> pub.proof])

\* The protobuf envelope numbers its providers and carries the proof in a
\* oneof that may be absent; both directions re-validate the domain value.
ProtoNumber(provider) ==
    CASE provider = "software" -> 1
      [] provider = "sev_snp_direct" -> 2
      [] provider = "sev_snp_azure" -> 3

to_proto(pub) ==
    Converted(from_public(pub).error,
              [pub EXCEPT !.provider = ProtoNumber(@), !.proof = Some(@)])

from_proto(msg) ==
    IF msg.provider \notin 1..3 THEN Converted("InvalidProtobufProvider", msg)
    ELSE IF ~IsSome(msg.proof) THEN Converted("MissingProtobufProof", msg)
    ELSE LET pub == [msg EXCEPT !.provider =
                        (CHOOSE p \in PublicProviders : ProtoNumber(p) = msg.provider),
                                !.proof = Get(@)]
         IN  Converted(from_public(pub).error, pub)

-----------------------------------------------------------------------------
(* The sealing gate and its two callers. *)

\* A key or a certificate in a policy that does not parse is "malformed".
gate_params(policy, expected_nonce, now) ==
    [expected_nonce |-> expected_nonce, expected_measurement |-> policy.expected_measurement,
     accept_provider_types |-> policy.accept_provider_types,
     freshness |-> policy.freshness_seconds, now |-> now,
     trust_anchor |-> policy.trust_anchor]

AnchorParses(anchor) ==
    IF anchor.kind = "software" THEN Check(anchor.expected_signer # "malformed", "BadCrypto")
    ELSE FirstFailure(<< Check(anchor.amd_product_root # "malformed", "SevSnpPolicy"),
                         Check(anchor.expected_host_cvm_meas # Some("malformed"),
                               "SevSnpPolicy") >>)

verify_against_policy(policy, ev, expected_nonce, now) ==
    IF AnchorParses(policy.trust_anchor) # Ok THEN AnchorParses(policy.trust_anchor)
    ELSE verify(ev, gate_params(policy, expected_nonce, now))

\* The WASM seam decodes its nonce first and reports only whether it verified.
wasm_verify(policy, ev, expected_nonce, now) ==
    IF ~NonceNew(expected_nonce) THEN "nonce out of range"
    ELSE verify_against_policy(policy, ev, expected_nonce, now)

\* The offline verifier: its own file format, the built-in Milan root, and
\* the accepted provider types replaced by that of the evidence at hand.
MilanRoot == "ark-milan"

cli_verify_evidence(pub, policy, now) ==
    LET domain == from_public(pub)
        anchor == IF pub.provider = "software"
                  THEN [kind |-> "software", expected_signer |-> Get(policy.expected_signer)]
                  ELSE [kind |-> "sev_snp", amd_product_root |-> MilanRoot,
                        expected_host_cvm_meas |-> policy.expected_host_cvm_measurement,
                        min_tcb |-> policy.min_tcb, guest_policy |-> policy.guest_policy]
        params == [expected_nonce |-> policy.expected_nonce,
                   expected_measurement |-> policy.expected_workspace_measurement,
                   accept_provider_types |-> {domain.value.provider_type},
                   freshness |-> policy.freshness_seconds, now |-> now,
                   trust_anchor |-> anchor]
        before == FirstFailure(
                    << Check(pub.workspace_id = policy.expected_workspace_id, "workspace id mismatch"),
                       Check(pub.provider \in policy.accepted_providers, "provider not accepted"),
                       Check(NonceNew(policy.expected_nonce), "expected_nonce_hex"),
                       Check(policy.expected_signer # Some("malformed"), "expected_signer_b64"),
                       Check(domain.error = Ok, "public evidence contract"),
                       Check(pub.provider = "software" => IsSome(policy.expected_signer),
                             "expected_signer_b64 is required") >>)
    IN  IF before # Ok THEN before ELSE verify(domain.value, params)

-----------------------------------------------------------------------------
(* Choosing a provider at start-up (attestation_factory.rs, profile.rs). *)

provider_source(backend) ==
    CASE backend = "Software" -> "software"
      [] backend = "SevSnpDirect" -> "sev_guest_ioctl"
      [] backend = "SevSnpAzure" -> "azure_vtpm"

attestation_backend(profile) ==
    IF profile = "standard" THEN "Software" ELSE "SevSnpAzure"

\* What the host offers: devices, binaries and accounts as a set of names.
Requirements(profile) ==
    IF profile = "standard" THEN << "kvm", "firecracker", "jailer" >>
    ELSE << "azure-vtpm", "openshell-sandbox", "openshell-policy-rules",
            "openshell-policy-data", "sandbox-user" >>

validate_startup_requirements(profile, offered) ==
    FirstFailure(
      << Check("linux_x86_64" \in offered, "conflict") >>
      \o [i \in DOMAIN Requirements(profile) |->
            Check(Requirements(profile)[i] \in offered, Requirements(profile)[i])])

\* The evidence this host's provider produces for a request.
generate(host, req, issued_at) ==
    CASE host.source = "software"        -> software_generate(host.key, req, issued_at)
      [] host.source = "sev_guest_ioctl" -> sev_snp_generate(host, req, issued_at)
      [] host.source = "azure_vtpm"      -> generate_azure(host, req, issued_at)

build_provider(backend, host) ==
    /\ host.source = provider_source(backend)
    /\ host.source = "azure_vtpm" => azure_open(host)

-----------------------------------------------------------------------------
(* What the verifiers must decide. *)

\* A policy judges an honest host's evidence by these facts and no others.  A
\* window of i64::MAX seconds or more is no window: the saturated distance of two
\* clocks never exceeds it.
HostSatisfies(host, policy) ==
    LET anchor == policy.trust_anchor
    IN  IF host.source = "software"
        THEN anchor.kind = "software" /\ anchor.expected_signer = host.key
        ELSE /\ anchor.kind = "sev_snp" /\ anchor.amd_product_root = host.root
             /\ host.tcb >= anchor.min_tcb
             /\ anchor.guest_policy \subseteq host.guest_policy
             /\ anchor.expected_host_cvm_meas \in {None, Some(host.meas)}

ShouldAccept(host, req, issued_at, policy, nonce, now) ==
    /\ (IF host.source = "software" THEN "software" ELSE "sev_snp") \in policy.accept_provider_types
    /\ req.nonce = nonce
    /\ policy.expected_measurement \in {None, Some(req.measurement)}
    /\ \/ policy.freshness_seconds >= I64Max
       \/ now \in (issued_at - policy.freshness_seconds)..(issued_at + policy.freshness_seconds)
    /\ AnchorParses(policy.trust_anchor) = Ok
    /\ HostSatisfies(host, policy)

Requests == [workspace_id : {"w1", "w2"}, measurement : {"m1", "m2"},
             nonce : {n \in Nonces : NonceNew(n)}]

\* The command line's policy file for the same decision about workspace w1.
cli_policy(policy, nonce) ==
    LET sw == policy.trust_anchor.kind = "software"
    IN  [expected_workspace_id |-> "w1", expected_nonce |-> nonce,
         accepted_providers |-> {p \in PublicProviders :
                                   DomainTypeOf(p) \in policy.accept_provider_types},
         expected_workspace_measurement |-> policy.expected_measurement,
         freshness_seconds |-> policy.freshness_seconds,
         expected_signer |-> IF sw THEN Some(policy.trust_anchor.expected_signer) ELSE None,
         expected_host_cvm_measurement |->
             IF sw THEN None ELSE policy.trust_anchor.expected_host_cvm_meas,
         min_tcb |-> IF sw THEN 0 ELSE policy.trust_anchor.min_tcb,
         guest_policy |-> IF sw THEN {} ELSE policy.trust_anchor.guest_policy]

\* The command line has one AMD root and keeps software and hardware pins in
\* one file, so it expresses the policies of those shapes only.
CliExpresses(host, policy) ==
    /\ policy.trust_anchor.kind = "software" \/ policy.trust_anchor.amd_product_root = MilanRoot
    /\ (policy.trust_anchor.kind = "software") = (host.source = "software")

\* A supervisor that starts under a profile issues the evidence that profile is
\* for: hardware evidence on the confidential one, and the device it comes from is
\* among the start-up requirements.
ProviderDecisions ==
    \A profile \in {"standard", "confidential-azure"}, host \in Hosts, req \in Requests :
      /\ build_provider(attestation_backend(profile), host) =>
           LET type == generate(host, req, 0).provider_type
           IN  type \in ProviderTypes /\ (type = "sev_snp") = (profile # "standard")
      /\ \A offered \in SUBSET {"azure-vtpm", "kvm"} :
           LET others == {"linux_x86_64", "firecracker", "jailer", "openshell-sandbox",
                          "openshell-policy-rules", "openshell-policy-data", "sandbox-user"}
           IN  validate_startup_requirements(profile, offered \cup others) = Ok
                 <=> (IF profile = "standard" THEN "kvm" ELSE "azure-vtpm") \in offered

\* Whatever a host's provider produces survives the public envelope and its
\* protobuf form unchanged, and the sealing gate, the WASM seam and the
\* offline verifier then all accept it exactly when the policy's pins, nonce
\* and freshness window (with its saturating arithmetic) say so.
VerifierDecisions ==
    /\ ProviderDecisions
    /\ \A host \in Hosts, req \in Requests, issued_at \in Clocks :
         LET ev  == generate(host, req, issued_at)
             pub == from_proto(to_proto(to_public(ev).value).value)
         IN  /\ pub.error = Ok
             /\ from_public(pub.value).value = ev
             /\ \A policy \in GatePolicies, nonce \in Nonces, now \in Clocks :
                  LET should == ShouldAccept(host, req, issued_at, policy, nonce, now)
                  IN  /\ (verify_against_policy(policy, ev, nonce, now) = Ok) = should
                      /\ (wasm_verify(policy, ev, nonce, now) = Ok) = should
                      /\ CliExpresses(host, policy) =>
                           (cli_verify_evidence(pub.value, cli_policy(policy, nonce), now) = Ok)
                             = (should /\ req.workspace_id = "w1")

=============================================================================
