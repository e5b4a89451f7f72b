------------------------------ MODULE MCSealing ------------------------------
(* Two seal calls, two unseal calls and one crash on a software-attested      *)
(* host; the verifiers' agreement is evaluated over three kinds of host.      *)
EXTENDS Sealing, TLC

CONSTANTS s1, s2

MCSealers == {s1, s2}

HostKind(source, root, tcb) ==
    [source |-> source, key |-> <<"key", 1>>, chip |-> "chip", tcb |-> tcb, meas |-> "cvm1",
     guest_policy |-> {"smt"}, root |-> root, ak |-> "ak"]

MCHost == HostKind("software", "ark-milan", 0)

MCHosts == {MCHost, HostKind("sev_guest_ioctl", "ark-milan", 2),
            HostKind("azure_vtpm", "ark-milan", 1), HostKind("azure_vtpm", "ark-genoa", 2)}

MCNonces == {[val |-> 1, len |-> 16], [val |-> 2, len |-> 64], [val |-> 1, len |-> 15]}

SoftwarePolicy(signer, meas, freshness, accept) ==
    [expected_measurement |-> meas, freshness_seconds |-> freshness, accept_provider_types |-> accept,
     trust_anchor |-> [kind |-> "software", expected_signer |-> signer]]

SnpPolicy(root, tcb, bits, cvm, freshness) ==
    [expected_measurement |-> None, freshness_seconds |-> freshness,
     accept_provider_types |-> {"sev_snp"},
     trust_anchor |-> [kind |-> "sev_snp", amd_product_root |-> root, min_tcb |-> tcb,
                       guest_policy |-> bits, expected_host_cvm_meas |-> cvm]]

MCGatePolicies ==
    {SoftwarePolicy(k, m, f, {"software"}) : k \in {<<"key", 1>>, <<"key", 2>>},
                                             m \in {None, Some("m1")}, f \in {0, 2, 9}}
    \cup {SoftwarePolicy(<<"key", 1>>, None, 2, {"sev_snp"})}
    \cup {SnpPolicy("ark-milan", t, b, c, 2) : t \in {1, 2}, b \in {{}, {"smt"}, {"debug"}},
                                               c \in {None, Some("cvm1"), Some("cvm2")}}
    \cup {SnpPolicy("ark-genoa", 0, {}, None, 2)}

\* A policy this host satisfies and one it does not.
MCPolicies == {SoftwarePolicy(<<"key", 1>>, Some("m1"), 2, {"software"}),
               SoftwarePolicy(<<"key", 2>>, None, 2, {"software"})}

Environment(endpoint, tls, dev, env) ==
    [endpoint |-> endpoint, tls |-> tls, tls_readable |-> TRUE, api_key |-> "unset",
     dev_mode |-> dev, allow_env |-> env]

MCConfigs == {Environment("https", {"ca", "cert", "key"}, FALSE, FALSE),
              Environment("unset", {}, FALSE, TRUE),
              [Environment("loopback_http", {}, TRUE, FALSE) EXCEPT !.api_key = "set"],
              Environment("https", {"ca"}, TRUE, TRUE)}

\* Both ends of the scaled i64, whose distance saturates, and clocks in between.
MCClocks == {-I64Max - 1, -2, 0, 3, I64Max}

MCSymmetry == Permutations(MCSealers)
=============================================================================
