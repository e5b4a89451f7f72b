------------------------------- MODULE MCEgress -------------------------------
\* Egress for TLC: two ids on two slots, policies that differ in every field, and
\* packets, names and bodies on either side of each boundary.
EXTENDS Egress

Net(a, b, c, d, n) == [addr |-> <<a, b, c, d>>, prefix |-> Some(n)]
Resolver == <<1, 1, 1, 1>>
Site == <<10, 0, 8, 1>>

MCPolicies ==
    {NoPolicy,
     [NoPolicy EXCEPT !.enable_egress = TRUE],
     [NoPolicy EXCEPT !.allow_cidrs = {Net(10, 0, 0, 0, 20), Net(1, 1, 1, 1, 32)},
                      !.allow_hostnames = {<<"*", "corp", "example">>}, !.enable_egress = TRUE],
     [NoPolicy EXCEPT !.privacy = TRUE, !.enable_egress = TRUE, !.allow_hostnames = {<<"corp", "">>}],
     [NoPolicy EXCEPT !.allow_cidrs = {Net(10, 0, 0, 0, 33)}]}

Config(filter, router, port, default) ==
    [filter |-> filter, router |-> router, upstream |-> Resolver, upstream_port |-> port,
     hard_cap |-> 4, policy_cap |-> 3, default |-> default]
MCConfigs ==
    {Config(TRUE, TRUE, 5353, "DROP"), Config(TRUE, FALSE, 53, "ACCEPT")}

MCDestinations == {Resolver, Site, <<10, 0, 16, 1>>, for_slot(1).guest_eth_ip}

Query(name) == [header |-> TRUE, qdcount |-> 1, form |-> "plain", name |-> name]
MCQueries ==
    {Query(<<"corp", "example">>), Query(<<"api", "corp", "example">>), Query(<<"corp">>),
     Query(<<"mycorp", "example">>), Query(<<"corp", "example", "org">>), Query(<<>>),
     [Query(<<"corp">>) EXCEPT !.form = "compressed"], [Query(<<"corp">>) EXCEPT !.qdcount = 0],
     [Query(<<"corp">>) EXCEPT !.header = FALSE]}

MCRequests ==
    [host : {None, Some(80), Some(8080)}, size : {0, 3, 5}, found : PiiResults]
=============================================================================
