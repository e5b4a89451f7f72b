-------------------------------- MODULE Egress --------------------------------
(***************************************************************************)
(* What holds a guest to its network policy: the netns, links, netfilter   *)
(* rules and helper processes that NetworkController::setup makes and      *)
(* teardown removes (ne-supervisor, network.rs), over a succession of      *)
(* workspaces on a host where commands fail and the supervisor restarts.   *)
(*                                                                         *)
(* Host objects are named after the workspace id (netns, veth, chain) or   *)
(* the slot (addresses, jump, MASQUERADE, host route); the slot table is   *)
(* in the supervisor's memory only.  setup and teardown of one id touch no *)
(* name of another one.  An id may be created again while its teardown is  *)
(* still under way: `ip netns add' is refused until the old netns is       *)
(* deleted, so of the old teardown only the deletion of the veth and the   *)
(* release of the slot can come after a command of the new setup, and they *)
(* are a step of their own.  The interplay of slots, registry and ingress  *)
(* routes is in NetworkIngress.                                            *)
(***************************************************************************)
EXTENDS NetworkPolicy

CONSTANTS
    Ids,
    MaxSlot,
    Policies,       \* NetworkPolicy values of create requests
    Configs,        \* [filter, router, upstream, upstream_port, hard_cap, policy_cap,
                    \*  default]: the supervisor's, and the host's own FORWARD policy
    Destinations,   \* remote addresses packets are sent to
    Queries,        \* DNS queries guests make
    Requests,       \* HTTP requests guests make on port 80
    MaxSetups,      \* bound: networks set up over the life of the host
    MaxFaults       \* bound: commands that fail and restarts

ASSUME EgressConstants == MaxSlot \in Nat \ {0} /\ MaxSetups \in Nat /\ MaxFaults \in Nat

VARIABLES
    conf,       \* the configuration of the supervisor
    slots,      \* the slots that may be allocated
    used,       \* the slot of each live workspace, 0 if it has none
    policy,     \* the policy each live workspace was created with
    closing,    \* teardowns that have the veth left to delete: [id, slot]
    cut,        \* live workspaces whose veth such a teardown deleted
    host,       \* the host: [netns, veth, route, chains, forward, nat]
    setups,     \* networks set up so far
    faults      \* host commands that have failed, and restarts

evars == <<conf, slots, used, policy, closing, cut, host, setups, faults>>

AllSlots == 1 .. MaxSlot
NoPolicy ==
    [enable_egress |-> FALSE, allow_cidrs |-> {}, allow_hostnames |-> {}, privacy |-> FALSE]
NoNetns == [up |-> FALSE, filter |-> None, redirect |-> FALSE, router |-> FALSE, dnat |-> FALSE]

EInit ==
    /\ conf \in Configs
    /\ slots = AllSlots
    /\ used = [w \in Ids |-> 0] /\ policy = [w \in Ids |-> NoPolicy]
    /\ closing = {} /\ cut = {}
    /\ host = [netns |-> [w \in Ids |-> NoNetns], veth |-> [w \in Ids |-> FALSE],
               route |-> [s \in AllSlots |-> None], chains |-> [w \in Ids |-> None],
               forward |-> <<>>, nat |-> [s \in AllSlots |-> 0]]
    /\ setups = 0 /\ faults = 0

-----------------------------------------------------------------------------
\* NetworkController::setup: its host commands in order.
Commands == <<"netns", "links", "route", "chain", "rules", "jump", "spoof", "masq", "filter",
              "redirect", "router", "dnat">>

\* Names that are taken: ip and iptables refuse to make them twice.
Refused(h, c, w, s) ==
    \/ c = "netns" /\ h.netns[w].up
    \/ c = "links" /\ h.veth[w]
    \/ c = "route" /\ IsSome(h.route[s])
    \/ c = "chain" /\ IsSome(h.chains[w])

\* Mutant: the anti-spoof rule is appended instead of inserted first.
CommandSpoofLast(h, c, w, s, p) ==
    CASE c = "spoof" -> [h EXCEPT !.forward = Append(@, antispoof_rule(w, s))]
      [] c = "netns" -> [h EXCEPT !.netns[w].up = TRUE]
      [] c = "links" -> [h EXCEPT !.veth[w] = TRUE]
      [] c = "route" -> [h EXCEPT !.route[s] = Some(w)]
      [] c = "rules" -> [h EXCEPT !.chains[w] = Some(install_forward_chain(p))]
      [] c = "jump" -> [h EXCEPT !.forward = Append(@, JumpRule(w, s))]
      [] OTHER -> h

\* What each command does: install_forward_chain, install_antispoof_rule,
\* add_masquerade_rule, spawn_dns_filter, install_dns_redirect, spawn_privacy_router,
\* install_privacy_dnat.  Without its binary a helper is skipped.
Command(h, c, w, s, p) ==
    LET dns == p.allow_hostnames # {} /\ conf.filter
        scan == p.privacy /\ conf.router
    IN CASE c = "netns" -> [h EXCEPT !.netns[w] = [NoNetns EXCEPT !.up = TRUE]]
         [] c = "links" -> [h EXCEPT !.veth[w] = TRUE]
         [] c = "route" -> [h EXCEPT !.route[s] = Some(w)]
         [] c = "chain" -> [h EXCEPT !.chains[w] = Some(<<>>)]
         [] c = "rules" -> [h EXCEPT !.chains[w] = Some(install_forward_chain(p))]
         [] c = "jump" -> [h EXCEPT !.forward = Append(@, JumpRule(w, s))]
         [] c = "spoof" -> [h EXCEPT !.forward = <<antispoof_rule(w, s)>> \o @]
         [] c = "masq" /\ p.enable_egress -> [h EXCEPT !.nat[s] = @ + 1]
         [] c = "filter" /\ dns -> [h EXCEPT !.netns[w].filter = Some(Allowlist(p.allow_hostnames))]
         [] c = "redirect" /\ dns -> [h EXCEPT !.netns[w].redirect = TRUE]
         [] c = "router" /\ scan -> [h EXCEPT !.netns[w].router = TRUE]
         [] c = "dnat" /\ scan -> [h EXCEPT !.netns[w].dnat = TRUE]
         [] OTHER -> h

\* The host after the first n commands.
AfterCommands(w, s, p) ==
    LET after[n \in 0 .. Len(Commands)] ==
            IF n = 0 THEN host ELSE Command(after[n - 1], Commands[n], w, s, p)
    IN after

\* allocate_slot takes the lowest free slot; the first command that fails ends setup
\* with `?', and what was made stays, the slot included.
Setup(w, p) ==
    /\ used[w] = 0 /\ setups < MaxSetups
    /\ validate_policy(p) /\ slots # {}
    /\ LET s == CHOOSE i \in slots : \A j \in slots : i <= j
           after == AfterCommands(w, s, p)
       IN /\ slots' = slots \ {s}
          /\ \/ /\ \A n \in DOMAIN Commands : ~Refused(after[n - 1], Commands[n], w, s)
                /\ host' = after[Len(Commands)]
                /\ used' = [used EXCEPT ![w] = s]
                /\ policy' = [policy EXCEPT ![w] = p]
                /\ UNCHANGED faults
             \/ /\ \E n \in DOMAIN Commands :
                      /\ \A m \in 1 .. n - 1 : ~Refused(after[m - 1], Commands[m], w, s)
                      /\ host' = after[n - 1]
                /\ faults < MaxFaults /\ faults' = faults + 1
                /\ UNCHANGED <<used, policy>>
    /\ setups' = setups + 1
    /\ UNCHANGED <<conf, closing, cut>>

-----------------------------------------------------------------------------
\* NetworkController::teardown: every deletion is tried, whatever failed before.
Deletions == {"masq", "jump", "flush", "chain", "spoof", "route", "netns"}

\* delete_masquerade_rule.
DeleteMasquerade(h, w, s, failing) ==
    IF policy[w].enable_egress /\ "masq" \notin failing /\ h.nat[s] > 0
    THEN [h EXCEPT !.nat[s] = @ - 1] ELSE h

\* Mutant: the chain is flushed and deleted before the jump to it, which fails.
uninstall_forward_chain_swapped(h, w, s, failing) ==
    [h EXCEPT !.chains[w] = IF "flush" \in failing THEN @ ELSE Some(<<>>)]

\* uninstall_forward_chain: the jump, then the rules, then the chain; the first
\* failure keeps the rest.
uninstall_forward_chain(h, w, s, failing) ==
    IF "jump" \in failing THEN h
    ELSE [h EXCEPT !.forward = RemoveFirst(@, JumpRule(w, s)),
                   !.chains[w] = IF "flush" \in failing THEN @
                                 ELSE IF "chain" \in failing THEN Some(<<>>) ELSE None]

\* uninstall_antispoof_rule.
uninstall_antispoof_rule(h, w, s, failing) ==
    IF "spoof" \in failing THEN h
    ELSE [h EXCEPT !.forward = RemoveFirst(@, antispoof_rule(w, s))]

\* The host without the veth of w, and so without the routes over it.
WithoutVeth(h, w) ==
    [h EXCEPT !.veth[w] = FALSE,
              !.route = [r \in AllSlots |-> IF @[r] = Some(w) THEN None ELSE @[r]]]

\* The host route and the netns, the veth with it.  The helper processes are signalled
\* before the netns goes.
DeleteNetns(h, w, s, failing) ==
    LET h1 == IF "route" \notin failing /\ h.route[s] = Some(w) THEN [h EXCEPT !.route[s] = None] ELSE h
    IN IF "netns" \in failing THEN [h1 EXCEPT !.netns[w].filter = None, !.netns[w].router = FALSE]
       ELSE [WithoutVeth(h1, w) EXCEPT !.netns[w] = NoNetns]

\* Up to and including `ip netns del'.
Teardown(w, failing) ==
    /\ used[w] # 0
    /\ LET s == used[w]
           h1 == DeleteMasquerade(host, w, s, failing)
           h2 == uninstall_forward_chain(h1, w, s, failing)
           h3 == uninstall_antispoof_rule(h2, w, s, failing)
       IN host' = DeleteNetns(h3, w, s, failing) /\ closing' = closing \cup {[id |-> w, slot |-> s]}
    /\ used' = [used EXCEPT ![w] = 0]
    /\ policy' = [policy EXCEPT ![w] = NoPolicy]
    /\ cut' = cut \ {w}
    /\ faults' = faults + Cardinality(failing) /\ faults' <= MaxFaults
    /\ UNCHANGED <<conf, slots, setups>>

\* `ip link del', of whoever has the veth of that name by now, and release_slot.
TeardownEnd(job, fails) ==
    /\ job \in closing
    /\ host' = IF fails THEN host ELSE WithoutVeth(host, job.id)
    /\ cut' = IF ~fails /\ used[job.id] # 0 THEN cut \cup {job.id} ELSE cut
    /\ closing' = closing \ {job}
    /\ slots' = slots \cup {job.slot}
    /\ faults' = (IF fails THEN faults + 1 ELSE faults) /\ faults' <= MaxFaults
    /\ UNCHANGED <<conf, used, policy, setups>>

\* The supervisor stops and starts again: guests and teardowns end with it, the slot
\* table is new, and nothing removes what is on the host.
Restart ==
    /\ closing # {} \/ \E w \in Ids : used[w] # 0
    /\ slots' = AllSlots /\ closing' = {} /\ cut' = {}
    /\ used' = [w \in Ids |-> 0] /\ policy' = [w \in Ids |-> NoPolicy]
    /\ faults < MaxFaults /\ faults' = faults + 1
    /\ UNCHANGED <<conf, host, setups>>

ENext ==
    \/ \E w \in Ids, p \in Policies : Setup(w, p)
    \/ \E w \in Ids, failing \in SUBSET Deletions : Teardown(w, failing)
    \/ \E job \in closing, fails \in BOOLEAN : TeardownEnd(job, fails)
    \/ Restart

ESpec == EInit /\ [][ENext]_evars

-----------------------------------------------------------------------------
\* The path of a packet (kernel): the netns rewrites its destination, its source when
\* it is the guest's, and the host forwards or drops it.

\* The chain of each id as FORWARD sees it.
ChainOf(w) == IF IsSome(host.chains[w]) THEN Get(host.chains[w]) ELSE <<>>
HostVerdict(w, src, dst, established) ==
    ForwardVerdict(host.forward, [v \in Ids |-> ChainOf(v)], conf.default,
                   [in |-> w, src |-> src, dst |-> dst, established |-> established])

\* SNAT in the netns.
SourceOnVeth(w, src) ==
    IF InCidr(src, for_slot(used[w]).guest_net) THEN for_slot(used[w]).workspace_ip ELSE src

Gets(w, dst) == HostVerdict(w, for_slot(used[w]).workspace_ip, dst, FALSE) = "ACCEPT"

\* PREROUTING redirects what the guest sends and OUTPUT what the helpers in the netns
\* send, alike: port 53 to the filter, tcp port 80 to the privacy router.
ToFilter(w, port) == host.netns[w].redirect /\ port = 53
ToRouter(w, port) == host.netns[w].dnat /\ port = 80

\* What becomes of a guest's query: with a redirect it is the filter, which listens on
\* udp only, that asks the configured upstream.  `direct' says whether the host lets the
\* workspace reach the resolver the guest named, `relayed' whether the upstream.
Asked(w, q, proto, direct, relayed) ==
    IF ~ToFilter(w, 53) THEN IF direct THEN "upstream" ELSE "dropped"
    ELSE IF proto = "tcp" THEN "refused"
    ELSE LET reply == IF relayed /\ ~ToFilter(w, conf.upstream_port) THEN Some("reply") ELSE None
             result == handle_one(Get(host.netns[w].filter), q, reply)
         IN IF result.answer = "records" THEN "upstream" ELSE result.answer

\* The body that leaves the host for a guest's request on port 80, whose Host names the
\* port req.host, if the host lets the workspace reach its destination.
Leaves(w, req, reaches) ==
    LET handled == handle_request(req, conf.hard_cap, conf.policy_cap)
    IN IF ~ToRouter(w, 80) THEN IF reaches THEN "original" ELSE "none"
       ELSE IF handled.body = "none" \/ ToRouter(w, Get(req.host)) \/ ~reaches THEN "none"
       ELSE handled.body

-----------------------------------------------------------------------------
\* Rules another workspace left behind on this slot, or an earlier one of this id.
Leftover(w) ==
    \/ \E v \in Ids \ {w} : JumpRule(v, used[w]) \in ToSet(host.forward)
    \/ \E s \in AllSlots \ {used[w]} : antispoof_rule(w, s) \in ToSet(host.forward)

\* The policy's own words: tracked flows; everything when egress is on and no CIDR is
\* named; else the named CIDRs.
Permits(p, dst, established) ==
    \/ established
    \/ p.enable_egress /\ p.allow_cidrs = {}
    \/ \E c \in p.allow_cidrs : InCidr(dst, c)

Sources(w) == {for_slot(s).guest_eth_ip : s \in AllSlots} \cup {for_slot(s).workspace_ip : s \in AllSlots}
Live == {w \in Ids : used[w] # 0}

\* A guest gets out exactly what its policy permits, and nothing under an address of
\* another slot, in whatever order workspaces came and went and whatever the host's own
\* FORWARD policy is, as long as no rule of an earlier workspace names its slot or veth.
PolicyEnforced ==
    \A w \in Live : ~Leftover(w) =>
        \A src \in Sources(w), dst \in Destinations, est \in BOOLEAN :
            LET seen == SourceOnVeth(w, src)
                own == InCidr(seen, for_slot(used[w]).veth_net)
            IN (HostVerdict(w, seen, dst, est) = "ACCEPT")
                   <=> (own /\ Permits(policy[w], dst, est))

\* A live workspace has its own netns, chain and rules, and its own veth and host
\* route: neither the teardown of another one nor a failure or restart before it was
\* made takes or replaces one of them.  The one exception is a workspace created again
\* under an id whose teardown was not over: the `ip link del' that teardown ends with
\* may take the new veth, and the route with it, but nothing else.  Until something
\* fails the host holds nothing else.
NetworkIntact ==
    /\ \A w \in Live :
          LET s == used[w]
          IN /\ host.netns[w].up
             /\ w \notin cut => host.veth[w] /\ host.route[s] = Some(w)
             /\ host.chains[w] = Some(install_forward_chain(policy[w]))
             /\ {JumpRule(w, s), antispoof_rule(w, s)} \subseteq ToSet(host.forward)
             /\ policy[w].enable_egress => host.nat[s] > 0
    /\ \A w, v \in Live : w # v => used[w] # used[v]
    /\ faults = 0 =>
          /\ ToSet(host.forward) = UNION {{JumpRule(w, used[w]), antispoof_rule(w, used[w])} : w \in Live}
          /\ \A w \in Ids \ Live : ~host.netns[w].up /\ ~host.veth[w] /\ host.chains[w] = None
          /\ \A s \in AllSlots :
                host.nat[s] = Cardinality({w \in Live : used[w] = s /\ policy[w].enable_egress})

\* A name's labels without the decorations of a pattern or a query.
Labels(name) == SelectSeq(name, LAMBDA l : l \notin {"*", ""})
Wanted(p, q) ==
    /\ q.header /\ q.qdcount > 0 /\ q.form = "plain"
    /\ \E n \in p.allow_hostnames, k \in 0 .. Len(q.name) :
          Labels(n) = Labels(SubSeq(q.name, k + 1, Len(q.name)))

Filtered(w) == policy[w].allow_hostnames # {} /\ conf.filter

\* With an allowlist, a name outside it is resolved for no guest, over udp or tcp,
\* whichever resolver the guest asks; a name of the list is resolved over udp if the
\* guest's rules let the filter reach its upstream, unless the upstream listens on port
\* 53 (AllowedNamesRelayed).  With the privacy router, a body its policy would change or
\* refuse leaves only if it is empty or over a cap.  Every decision of the helpers
\* becomes an audit event, and that event says whether the guest got what it asked for.
HelpersMediate ==
    \A w \in Live :
        LET direct == {Gets(w, dst) : dst \in Destinations}
            relayed == Gets(w, conf.upstream)
        IN /\ Filtered(w) =>
                 \A q \in Queries :
                     /\ \A proto \in {"udp", "tcp"}, reaches \in direct :
                           LET asked == Asked(w, q, proto, reaches, relayed)
                               due == proto = "udp" /\ Wanted(policy[w], q) /\ relayed
                           IN /\ asked = "upstream" => due
                              /\ due /\ conf.upstream_port # 53 => asked = "upstream"
                     /\ \A reply \in {None, Some("reply")} :
                           LET one == handle_one(Allowlist(policy[w].allow_hostnames), q, reply)
                               event == relay_line(DnsEvents, one.decision)
                           IN IsSome(event) /\ (one.answer = "records") = (event = Some("DnsAllowed"))
           /\ (policy[w].privacy /\ conf.router) =>
                 \A req \in Requests, reaches \in direct :
                     LET left == Leaves(w, req, reaches)
                         scanned == req.size \in 1 .. conf.hard_cap /\ req.size <= conf.policy_cap
                         event == relay_line(PrivacyEvents,
                                             handle_request(req, conf.hard_cap, conf.policy_cap).decision)
                     IN /\ (scanned /\ req.found = "block") => left = "none"
                        /\ (scanned /\ req.found = "redact") => left \in {"none", "redacted"}
                        /\ left # "none" => reaches /\ IsSome(req.host)
                        /\ IsSome(req.host) => IsSome(event)
                        /\ left = "redacted" => event = Some("PrivacyRedacted")
                        /\ left = "original" => event \in {Some("PrivacyAllowed"), Some("PrivacyAudited")}

\* "Queries for names matching the allowlist ... get forwarded to the configured
\* upstream resolver and the answer is relayed back to the client" (ne-dns-filter).
\* The redirect of port 53 in the netns is in OUTPUT too, where it sends the filter's
\* own query to an upstream on port 53, such as the default 1.1.1.1:53, back to the
\* filter.
AllowedNamesRelayed ==
    \A w \in Live, q \in Queries, direct \in BOOLEAN :
        Filtered(w) /\ Wanted(policy[w], q) /\ Gets(w, conf.upstream)
            => Asked(w, q, "udp", direct, TRUE) = "upstream"

=============================================================================
