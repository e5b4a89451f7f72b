--------------------------- MODULE MCGuestRequests ---------------------------
(* Two concurrent requests, drawn from every kind of request the properties   *)
(* tell apart, on both execution profiles.                                    *)
EXTENDS GuestRequests

CONSTANTS c1, c2

MCCalls == {c1, c2}

Bearer(token) == Some([scheme |-> "Bearer", token |-> token])

Ask(surface, op) ==
    [surface |-> surface, header |-> Bearer("key"), op |-> op, path |-> "file", size |-> 16,
     digits |-> 4, timeout |-> 5, guest_port |-> 0, max_bytes |-> 0, port |-> 80, ports |-> {80},
     vcpu_count |-> 1, hostname |-> None, base64 |-> TRUE]

MCInputs ==
    {Ask("rest", "WriteFile"), Ask("grpc", "ReadFile"), Ask("rest", "RunCommand"),
     Ask("grpc", "CreateWorkspace"), Ask("rest", "Terminate"),
     [Ask("rest", "WriteFile") EXCEPT !.path = "dots"],
     [Ask("grpc", "WriteFile") EXCEPT !.size = MiB],
     [Ask("rest", "WriteFile") EXCEPT !.header = None],
     [Ask("rest", "ReadFile") EXCEPT !.path = "big"],
     [Ask("grpc", "RunCommand") EXCEPT !.timeout = 0],
     Ask("grpc", "ForkWorkspace"), [Ask("rest", "ForkWorkspace") EXCEPT !.hostname = Some("")],
     Ask("rest", "PoolStatus")}

Api == [dev_mode |-> FALSE, keys |-> {Sha256("key")}]
Sup(uid) == [dev_mode |-> FALSE, expected_peer_uid |-> Some(uid)]

MCSetups == {[profile |-> "standard", api |-> Api, sup |-> Sup("ne-api"), uid |-> "ne-api"],
             [profile |-> "confidential-azure", api |-> Api, sup |-> Sup("ne-api"), uid |-> "ne-api"],
             [profile |-> "standard", api |-> Api, sup |-> Sup("ne-api"), uid |-> "other"]}
=============================================================================
