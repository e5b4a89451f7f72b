----------------------------- MODULE NetworkPolicy -----------------------------
(***************************************************************************)
(* What the parts of a workspace's network path decide, as operators: the  *)
(* addresses and netfilter rules of a slot (ne-supervisor, network.rs),    *)
(* the DNS filter (ne-dns-filter), the privacy router (ne-privacy-router), *)
(* and the ingress router (ne-ingress).                                    *)
(*                                                                         *)
(* An IPv4 address is a tuple of octets, a name a sequence of labels, a    *)
(* rule a record.  How the kernel walks a rule list is external.           *)
(***************************************************************************)
EXTENDS Outcomes, Integers, Sequences, SequencesExt, FiniteSets

-----------------------------------------------------------------------------
\* Addresses.

\* SlotIpLayout::for_slot: two /30 nets, one for the veth pair, one for the guest.
for_slot(s) ==
    [host_ip |-> <<169, 254, s, 1>>, workspace_ip |-> <<169, 254, s, 2>>,
     tap_gateway_ip |-> <<169, 254, s, 5>>, guest_eth_ip |-> <<169, 254, s, 6>>,
     veth_net |-> [addr |-> <<169, 254, s, 0>>, prefix |-> Some(30)],
     guest_net |-> [addr |-> <<169, 254, s, 4>>, prefix |-> Some(30)]]

\* validate_cidr: four octets of eight bits, and a prefix of at most 32.
validate_cidr(c) ==
    /\ Len(c.addr) = 4
    /\ \A i \in DOMAIN c.addr : c.addr[i] \in 0 .. 255
    /\ IsSome(c.prefix) => Get(c.prefix) \in 0 .. 32

\* Whether an address is in a CIDR block, octet by octet.
InCidr(ip, c) ==
    LET bits(i) == (IF IsSome(c.prefix) THEN Get(c.prefix) ELSE 32) - 8 * (i - 1)
        width(i) == IF bits(i) < 0 THEN 0 ELSE IF bits(i) > 8 THEN 8 ELSE bits(i)
    IN \A i \in 1 .. 4 : ip[i] \div 2 ^ (8 - width(i)) = c.addr[i] \div 2 ^ (8 - width(i))

\* The label forms validate_hostname refuses: empty, over 63 bytes, a hyphen at
\* an edge, a character that is neither alphanumeric nor a hyphen.
BadLabels == {"", "64-bytes", "-edge", "edge-", "under_score"}

\* normalize: a leading `*.' and trailing dots go (a trailing dot is an empty last
\* label), and case is folded (labels here are lower case).
normalize(name) ==
    LET stripped == IF Len(name) > 1 /\ Head(name) = "*" THEN Tail(name) ELSE name
        ends == {n \in 0 .. Len(stripped) : \A i \in n + 1 .. Len(stripped) : stripped[i] = ""}
    IN SubSeq(stripped, 1, CHOOSE n \in ends : \A m \in ends : n <= m)

validate_hostname(name) ==
    LET stripped == normalize(name)
    IN stripped # <<>> /\ \A i \in DOMAIN stripped : stripped[i] \notin BadLabels \cup {"*"}

\* The checks setup makes before it allocates anything.
validate_policy(p) ==
    (\A c \in p.allow_cidrs : validate_cidr(c)) /\ (\A n \in p.allow_hostnames : validate_hostname(n))

-----------------------------------------------------------------------------
\* Netfilter.  A rule: the packets it matches and its target, a verdict or the
\* chain of a workspace.

Rule(in, src, not_src, dst, established, target) ==
    [in |-> in, src |-> src, not_src |-> not_src, dst |-> dst, established |-> established,
     target |-> target]
Verdict(target) == Rule(None, None, FALSE, None, FALSE, target)

Matches(rule, pkt) ==
    /\ IsSome(rule.in) => rule.in = Some(pkt.in)
    /\ IsSome(rule.src) => InCidr(pkt.src, Get(rule.src)) # rule.not_src
    /\ IsSome(rule.dst) => InCidr(pkt.dst, Get(rule.dst))
    /\ rule.established => pkt.established

\* install_forward_chain: the body of NE-FWD-<id>.
install_forward_chain(p) ==
    <<[Verdict("ACCEPT") EXCEPT !.established = TRUE]>>
        \o (IF p.allow_cidrs = {} /\ p.enable_egress THEN <<Verdict("ACCEPT")>>
            ELSE SetToSeq({[Verdict("ACCEPT") EXCEPT !.dst = Some(c)] : c \in p.allow_cidrs})
                     \o <<Verdict("DROP")>>)

\* The jump from FORWARD, and antispoof_forward_argv.
JumpRule(id, s) == [Verdict(id) EXCEPT !.src = Some(for_slot(s).veth_net)]
antispoof_rule(id, s) == Rule(Some(id), Some(for_slot(s).veth_net), TRUE, None, FALSE, "DROP")

\* The verdict of the first rule of a list that matches and decides; a chain that
\* falls off its end returns to the list that jumped to it (kernel).
FirstMatch(rules, pkt) ==
    LET hits == {i \in DOMAIN rules : Matches(rules[i], pkt)}
    IN IF hits = {} THEN "RETURN" ELSE rules[CHOOSE i \in hits : \A j \in hits : i <= j].target
ForwardVerdict(forward, chains, default, pkt) ==
    LET verdict(i) ==
            IF ~Matches(forward[i], pkt) THEN "RETURN"
            ELSE IF forward[i].target = "DROP" THEN "DROP"
            ELSE FirstMatch(chains[forward[i].target], pkt)
        deciding == {i \in DOMAIN forward : verdict(i) # "RETURN"}
    IN IF deciding = {} THEN default
       ELSE verdict(CHOOSE i \in deciding : \A j \in deciding : i <= j)

-----------------------------------------------------------------------------
\* ne-dns-filter.

\* Allowlist::new drops what normalizes to nothing; matches compares suffixes.
Allowlist(patterns) == {normalize(n) : n \in patterns} \ {<<>>}
allowlist_matches(allow, qname) == \E a \in allow : IsSuffix(a, normalize(qname))

\* parse_query: at least a header and a question, names without compression, and
\* labels that are UTF-8; the root name is the empty string.
parse_query(q) ==
    IF q.header /\ q.qdcount > 0 /\ q.form = "plain" THEN Some(q.name) ELSE None

\* rcode_response: what is shorter than a header gets no answer at all.
rcode_response(q, rcode) == IF q.header THEN rcode ELSE "nothing"

\* handle_one, with what the upstream answered (None: no answer in time): the
\* answer sent to the peer and the decision line written to stdout.
handle_one(allow, q, upstream) ==
    LET qname == parse_query(q)
        answer(a, d) == [answer |-> a, decision |-> d]
    IN IF ~IsSome(qname) THEN answer(rcode_response(q, "FORMERR"), "malformed")
       ELSE IF ~allowlist_matches(allow, Get(qname)) THEN answer("NXDOMAIN", "denied")
       ELSE IF IsSome(upstream) THEN answer("records", "allowed")
       ELSE answer("NXDOMAIN", "denied")

\* relay_dns_audit_lines and relay_privacy_audit_lines: a line that is blank, not
\* JSON, or of an unknown decision is dropped.
DnsEvents == [allowed |-> "DnsAllowed", denied |-> "DnsDenied", malformed |-> "DnsMalformed"]
PrivacyEvents ==
    [allowed |-> "PrivacyAllowed", audited |-> "PrivacyAudited",
     redacted |-> "PrivacyRedacted", blocked |-> "PrivacyBlocked"]
relay_line(events, line) == IF line \in DOMAIN events THEN Some(events[line]) ELSE None

-----------------------------------------------------------------------------
\* ne-privacy-router.  A request: its Host, the size of its body and what the PII
\* engine (external) makes of it.
PiiResults == {"clean", "audit", "redact", "block"}

scan_body(found) ==
    CASE found = "clean" -> "passthrough" [] found = "audit" -> "audited"
      [] found = "redact" -> "redacted" [] found = "block" -> "blocked"

\* Mutant: a body of exactly the policy's cap is not scanned.
scan_outcome_short(req, hard_cap, policy_cap) ==
    IF req.size = 0 \/ req.size > hard_cap \/ req.size >= policy_cap THEN "passthrough"
    ELSE scan_body(req.found)

scan_outcome(req, hard_cap, policy_cap) ==
    IF req.size = 0 \/ req.size > hard_cap \/ req.size > policy_cap THEN "passthrough"
    ELSE scan_body(req.found)

DecisionOf ==
    [passthrough |-> "allowed", audited |-> "audited", redacted |-> "redacted", blocked |-> "blocked"]

\* handle_request: refused before any decision without a Host; else the line on
\* stdout, written before the request is forwarded, and the body that is forwarded.
handle_request(req, hard_cap, policy_cap) ==
    LET outcome == scan_outcome(req, hard_cap, policy_cap)
        result(status, decision, body) == [status |-> status, decision |-> decision, body |-> body]
    IN IF req.host = None THEN result(400, "none", "none")
       ELSE IF outcome = "blocked" THEN result(403, DecisionOf[outcome], "none")
       ELSE result(200, DecisionOf[outcome], IF outcome = "redacted" THEN "redacted" ELSE "original")

-----------------------------------------------------------------------------
\* ne-ingress.  A Host header: its label, split at the first hyphen, and domain.

parse_ingress_host(h, domain) ==
    IF h.domain # domain THEN Err("DomainMismatch")
    ELSE IF ~h.hyphen \/ h.port \notin 1 .. 65535 \/ ~h.wsid_valid THEN Err("Parse")
    ELSE Ok

LinkLocal == [addr |-> <<169, 254, 0, 0>>, prefix |-> Some(16)]
Resolves(registry, h) == h.wsid \in DOMAIN registry /\ h.port \in registry[h.wsid].ports

\* route_decision, with the registry of resolve and, for the reason of a refusal, the
\* registry that workspace_exists sees later.
route_decision(h, domain, registry, later) ==
    LET parsed == parse_ingress_host(h, domain)
    IN FirstFailure(<<
           Check(h.dotted, "ParseError"),
           Check(parsed # "DomainMismatch", "DomainMismatch"),
           Check(parsed # "Parse", "ParseError"),
           Check(Resolves(registry, h),
                 IF h.wsid \in DOMAIN later THEN "UnexposedPort" ELSE "UnknownWorkspace"),
           Check(Resolves(registry, h) => InCidr(registry[h.wsid].ip, LinkLocal), "SsrfGuard")>>)

HopByHop == {"connection", "keep-alive", "proxy-authenticate", "proxy-authorization", "te",
             "trailer", "transfer-encoding", "upgrade"}

\* Mutant: what the client lists in Connection is removed after the injection.
prepare_upstream_headers_late(headers, listed, inject) ==
    LET names == ((DOMAIN headers \ HopByHop) \cup DOMAIN inject) \ listed
    IN [n \in names |-> IF n \in DOMAIN inject THEN inject[n] ELSE headers[n]]

\* prepare_upstream_headers: hop-by-hop headers and the ones Connection lists go,
\* then the configured headers are set.
prepare_upstream_headers(headers, listed, inject) ==
    LET kept == DOMAIN headers \ (HopByHop \cup listed)
    IN [n \in kept \cup DOMAIN inject |-> IF n \in DOMAIN inject THEN inject[n] ELSE headers[n]]

\* deny_response of handle, and of proxy when the guest does not answer.
ingress_status(decision) ==
    IF decision = Ok THEN 200 ELSE IF decision = "DomainMismatch" THEN 421 ELSE 404

\* load_server_config: readable files, at least one certificate, a key that fits it.
load_server_config(cert, key) ==
    FirstFailure(<<Check(cert.readable, "Read"), Check(key.readable, "Read"),
                   Check(cert.pem, "Read"), Check(cert.count > 0, "NoCerts"),
                   Check(key.pem, "Read"), Check(key.present, "NoKey"),
                   Check(key.fits, "Rustls")>>)

\* NonceRing::record, for a ring of cap entries: the ring after it and whether the
\* nonce was there.  The oldest entry makes room.
NonceRing_record(ring, nonce, cap) ==
    IF nonce \in ToSet(ring) THEN [ring |-> ring, replay |-> TRUE]
    ELSE [ring |-> Append(IF Len(ring) >= cap THEN Tail(ring) ELSE ring, nonce), replay |-> FALSE]
=============================================================================
