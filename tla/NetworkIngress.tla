----------------------------- MODULE NetworkIngress -----------------------------
(***************************************************************************)
(* What a networked workspace holds besides its process (ne-supervisor,    *)
(* network.rs and the network half of create_inner and terminate_inner;    *)
(* ne-ingress, registry.rs and router.rs): a link-local slot, a netns and  *)
(* a veth named after the workspace id, an ingress route with its exposed  *)
(* port, an attestation nonce ring, and requests proxied to its guest.     *)
(*                                                                         *)
(* create holds the lifecycle lease of its id, the other operations do     *)
(* not.  Slot s stands for the addresses 169.254.s.*, slot 0 for none.     *)
(* Host commands may fail; the process itself is in WorkspaceManager, the  *)
(* rules on the host in Egress.                                            *)
(***************************************************************************)
EXTENDS NetworkPolicy

CONSTANTS
    WorkspaceIds,
    MaxSlot,        \* MAX_SLOT (253 in the code)
    Tasks           \* requests, one each

ASSUME NetworkConstants == MaxSlot \in Nat /\ None \notin WorkspaceIds

VARIABLES
    free,       \* NetworkController.slots: the slots that may be allocated
    netns,      \* the slot the netns of each id was made for, 0 if there is none
    veth,       \* the same for its host-side veth
    instances,  \* the slot of each registered workspace, 0 if not registered
    charged,    \* ids with a capacity entry
    claims,     \* ids under a lifecycle lease
    routes,     \* IngressRegistry: the slot each id's guest_ip belongs to, or 0
    ports,      \* ids whose route exposes the port
    rings,      \* ids with a nonce ring in attestation_nonces
    task,       \* requests: [op, id, pc, slot]
    raced,      \* ids on which a create or terminate has overlapped another request
    strayed,    \* ids whose requests were proxied to the guest of another id
    lost,       \* ids with a VM whose exit was not confirmed
    leaked      \* slots a failed setup or an unconfirmed exit withdrew

host == <<free, netns, veth>>
tables == <<instances, charged, claims, routes, ports, rings>>
history == <<raced, strayed, lost, leaked>>
vars == <<host, tables, task, history>>

Slots == 1 .. MaxSlot
Lifecycle == {"create", "terminate"}
Ops == Lifecycle \cup {"attest", "expose", "unexpose", "request"}
EntryPoint == [create |-> "claim", terminate |-> "remove", attest |-> "check",
               expose |-> "lookup", unexpose |-> "hide", request |-> "resolve"]
PC == {"idle", "claim", "reserve", "alloc", "netns", "links", "launch", "upsert", "cdel",
       "crelease", "finish", "remove", "reap", "tdel", "trelease", "unroute", "unring",
       "check", "ring", "lookup", "show", "hide", "resolve", "reason", "connect", "done"}

Init ==
    /\ free = Slots
    /\ netns = [w \in WorkspaceIds |-> 0] /\ veth = netns
    /\ instances = [w \in WorkspaceIds |-> 0]
    /\ charged = {} /\ claims = {} /\ ports = {} /\ rings = {}
    /\ routes = [w \in WorkspaceIds |-> 0]
    /\ task = [t \in Tasks |-> [op |-> "idle", id |-> None, pc |-> "idle", slot |-> 0]]
    /\ raced = {} /\ strayed = {} /\ lost = {} /\ leaked = {}

At(t, pc) == task[t].pc = pc
Id(t) == task[t].id
Goto(t, pc) == task' = [task EXCEPT ![t].pc = pc]
GotoWith(t, pc, slot) == task' = [task EXCEPT ![t].pc = pc, ![t].slot = slot]
Return(t) == task' = [task EXCEPT ![t] = [op |-> "idle", id |-> None, pc |-> "done", slot |-> 0]]
Busy(id) == \E t \in Tasks : Id(t) = id
Overlaps(op, id) ==
    \E t \in Tasks : Id(t) = id /\ (op \in Lifecycle \/ task[t].op \in Lifecycle)

Accept(t, op, id) ==
    /\ At(t, "idle")
    /\ task' = [task EXCEPT ![t] = [op |-> op, id |-> id, slot |-> 0, pc |-> EntryPoint[op]]]
    /\ raced' = IF Overlaps(op, id) THEN raced \cup {id} ELSE raced
    /\ UNCHANGED <<host, tables, strayed, lost, leaked>>

-----------------------------------------------------------------------------
\* create_inner with a network policy.

\* claim_boot.
CreateClaim(t) ==
    /\ At(t, "claim")
    /\ IF Id(t) \in claims \/ instances[Id(t)] # 0
       THEN Return(t) /\ UNCHANGED claims
       ELSE claims' = claims \cup {Id(t)} /\ Goto(t, "reserve")
    /\ UNCHANGED <<host, instances, charged, routes, ports, rings, history>>

\* The ledger refuses an id whose terminate has not confirmed the exit yet.
CreateReserve(t) ==
    /\ At(t, "reserve")
    /\ IF Id(t) \in charged THEN Goto(t, "finish") /\ UNCHANGED charged
       ELSE charged' = charged \cup {Id(t)} /\ Goto(t, "alloc")
    /\ UNCHANGED <<host, instances, claims, routes, ports, rings, history>>

CreateFinish(t) ==
    /\ At(t, "finish")
    /\ claims' = claims \ {Id(t)}
    /\ Return(t)
    /\ UNCHANGED <<host, instances, charged, routes, ports, rings, history>>

\* Mutant: the lowest free slot is used but not marked.
CreateAllocUnmarked(t) ==
    /\ At(t, "alloc")
    /\ IF free = {}
       THEN Goto(t, "finish") /\ charged' = charged \ {Id(t)}
       ELSE /\ GotoWith(t, "netns", CHOOSE s \in free : \A r \in free : s <= r)
            /\ UNCHANGED charged
    /\ UNCHANGED <<host, instances, claims, routes, ports, rings, history>>

\* allocate_slot: the lowest free one.
CreateAlloc(t) ==
    /\ At(t, "alloc")
    /\ IF free = {}
       THEN Goto(t, "finish") /\ charged' = charged \ {Id(t)} /\ UNCHANGED free
       ELSE LET slot == CHOOSE s \in free : \A r \in free : s <= r
            IN free' = free \ {slot} /\ GotoWith(t, "netns", slot) /\ UNCHANGED charged
    /\ UNCHANGED <<netns, veth, instances, claims, routes, ports, rings, history>>

\* setup returns its first error with `?': whatever it made by then stays.
SetupFails(t) ==
    /\ leaked' = leaked \cup {task[t].slot}
    /\ charged' = charged \ {Id(t)}
    /\ GotoWith(t, "finish", 0)

\* ip netns add fails when the name exists.
SetupNetns(t) ==
    /\ At(t, "netns")
    /\ \/ /\ netns[Id(t)] = 0
          /\ netns' = [netns EXCEPT ![Id(t)] = task[t].slot]
          /\ Goto(t, "links")
          /\ UNCHANGED <<charged, leaked>>
       \/ SetupFails(t) /\ UNCHANGED netns
    /\ UNCHANGED <<free, veth, instances, claims, routes, ports, rings, raced, strayed, lost>>

\* The veth pair, then addresses, routes, filters and the helper processes.
SetupLinks(t) ==
    /\ At(t, "links")
    /\ \/ veth[Id(t)] = 0 /\ veth' = [veth EXCEPT ![Id(t)] = task[t].slot]
       \/ UNCHANGED veth
    /\ \/ veth'[Id(t)] = task[t].slot /\ Goto(t, "launch") /\ UNCHANGED <<charged, leaked>>
       \/ SetupFails(t)
    /\ UNCHANGED <<free, netns, instances, claims, routes, ports, rings, raced, strayed, lost>>

\* std::mem::forget of the capacity owner and the network: both are kept for ever.
LoseVm(t) ==
    /\ lost' = lost \cup {Id(t)}
    /\ leaked' = leaked \cup {task[t].slot}

\* Launch and register_pending_firecracker.  A launch or registration that fails
\* reclaims the network first, unless the exit of the VM is not confirmed.
CreateLaunch(t) ==
    /\ At(t, "launch")
    /\ \/ /\ instances' = [instances EXCEPT ![Id(t)] = task[t].slot]
          /\ Goto(t, "upsert")
          /\ UNCHANGED <<lost, leaked>>
       \/ Goto(t, "cdel") /\ UNCHANGED <<instances, lost, leaked>>
       \/ LoseVm(t) /\ GotoWith(t, "finish", 0) /\ UNCHANGED instances
    /\ UNCHANGED <<host, charged, claims, routes, ports, rings, raced, strayed>>

\* upsert_workspace, with the ports of the create request: it replaces the table.
CreateUpsert(t) ==
    /\ At(t, "upsert")
    /\ routes' = [routes EXCEPT ![Id(t)] = task[t].slot]
    /\ ports' \in {ports \ {Id(t)}, ports \cup {Id(t)}}
    /\ GotoWith(t, "finish", 0)
    /\ UNCHANGED <<host, instances, charged, claims, rings, history>>

-----------------------------------------------------------------------------
\* NetworkController::teardown, best effort: everything is found by name.

\* ip netns del, which takes the veth pair that reaches into the netns along.
DeleteNetns(id) ==
    \/ /\ netns[id] # 0
       /\ netns' = [netns EXCEPT ![id] = 0]
       /\ veth' = [veth EXCEPT ![id] = IF @ = netns[id] THEN 0 ELSE @]
    \/ UNCHANGED <<netns, veth>>

\* ip link del, then release_slot whatever failed before.
ReleaseNetwork(t) ==
    /\ veth' \in {veth, [veth EXCEPT ![Id(t)] = 0]}
    /\ free' = free \cup {task[t].slot}
    /\ UNCHANGED netns

CreateTeardownNetns(t) ==
    /\ At(t, "cdel")
    /\ DeleteNetns(Id(t))
    /\ Goto(t, "crelease")
    /\ UNCHANGED <<free, tables, history>>

CreateTeardownRelease(t) ==
    /\ At(t, "crelease")
    /\ ReleaseNetwork(t)
    /\ charged' = charged \ {Id(t)}
    /\ GotoWith(t, "finish", 0)
    /\ UNCHANGED <<instances, claims, routes, ports, rings, history>>

-----------------------------------------------------------------------------
\* terminate_inner.
TermRemove(t) ==
    /\ At(t, "remove")
    /\ IF instances[Id(t)] = 0
       THEN Return(t) /\ UNCHANGED instances
       ELSE /\ instances' = [instances EXCEPT ![Id(t)] = 0]
            /\ GotoWith(t, "reap", instances[Id(t)])
    /\ UNCHANGED <<host, charged, claims, routes, ports, rings, history>>

\* Exit confirmed: the capacity guard drops here, before the network goes.  Not
\* confirmed: the route stays too.
TermReap(t) ==
    /\ At(t, "reap")
    /\ \/ charged' = charged \ {Id(t)} /\ Goto(t, "tdel") /\ UNCHANGED <<lost, leaked>>
       \/ LoseVm(t) /\ Return(t) /\ UNCHANGED charged
    /\ UNCHANGED <<host, instances, claims, routes, ports, rings, raced, strayed>>

TermNetns(t) ==
    /\ At(t, "tdel")
    /\ DeleteNetns(Id(t))
    /\ Goto(t, "trelease")
    /\ UNCHANGED <<free, tables, history>>

TermRelease(t) ==
    /\ At(t, "trelease")
    /\ ReleaseNetwork(t)
    /\ GotoWith(t, "unroute", 0)
    /\ UNCHANGED <<tables, history>>

\* Mutant: the route outlives the workspace.
TermUnrouteSkipped(t) ==
    /\ At(t, "unroute")
    /\ Goto(t, "unring")
    /\ UNCHANGED <<host, tables, history>>

TermUnroute(t) ==
    /\ At(t, "unroute")
    /\ routes' = [routes EXCEPT ![Id(t)] = 0] /\ ports' = ports \ {Id(t)}
    /\ Goto(t, "unring")
    /\ UNCHANGED <<host, instances, charged, claims, rings, history>>

TermUnring(t) ==
    /\ At(t, "unring")
    /\ rings' = rings \ {Id(t)}
    /\ Return(t)
    /\ UNCHANGED <<host, instances, charged, claims, routes, ports, history>>

-----------------------------------------------------------------------------
\* get_attestation_evidence: look the workspace up, then record the nonce.
AttestCheck(t) ==
    /\ At(t, "check")
    /\ IF instances[Id(t)] = 0 THEN Return(t) ELSE Goto(t, "ring")
    /\ UNCHANGED <<host, tables, history>>

AttestRing(t) ==
    /\ At(t, "ring")
    /\ rings' = rings \cup {Id(t)}
    /\ Return(t)
    /\ UNCHANGED <<host, instances, charged, claims, routes, ports, history>>

-----------------------------------------------------------------------------
\* expose_port_inner: look the workspace up, then ask the registry, which may not have
\* its route yet, or any more.
ExposeLookup(t) ==
    /\ At(t, "lookup")
    /\ IF instances[Id(t)] = 0 THEN Return(t) ELSE Goto(t, "show")
    /\ UNCHANGED <<host, tables, history>>

ExposePort(t) ==
    /\ At(t, "show")
    /\ ports' = IF routes[Id(t)] = 0 THEN ports ELSE ports \cup {Id(t)}
    /\ Return(t)
    /\ UNCHANGED <<host, instances, charged, claims, routes, rings, history>>

\* unexpose_port_inner only asks the registry.
UnexposePort(t) ==
    /\ At(t, "hide")
    /\ ports' = ports \ {Id(t)}
    /\ Return(t)
    /\ UNCHANGED <<host, instances, charged, claims, routes, rings, history>>

-----------------------------------------------------------------------------
\* IngressRouter::handle.
Domain == "ingress"
HostFor(id) == [dotted |-> TRUE, domain |-> Domain, hyphen |-> TRUE, port |-> 80, wsid |-> id,
                wsid_valid |-> TRUE]
Registry ==
    [w \in {v \in WorkspaceIds : routes[v] # 0} |->
        [ip |-> for_slot(routes[w]).guest_eth_ip, ports |-> IF w \in ports THEN {80} ELSE {}]]

\* resolve: the target is copied, and audited as allowed, before it is dialled.
RequestResolve(t) ==
    /\ At(t, "resolve")
    /\ IF route_decision(HostFor(Id(t)), Domain, Registry, Registry) = Ok
       THEN GotoWith(t, "connect", routes[Id(t)]) ELSE Goto(t, "reason")
    /\ UNCHANGED <<host, tables, history>>

\* workspace_exists, for the reason of the refusal.
RequestDenied(t) ==
    /\ At(t, "reason")
    /\ Return(t)
    /\ UNCHANGED <<host, tables, history>>

\* proxy connects to the address whoever holds it by now, or to nobody (502).
RequestConnect(t) ==
    /\ At(t, "connect")
    /\ strayed' = IF \E v \in WorkspaceIds \ {Id(t)} : instances[v] = task[t].slot
                  THEN strayed \cup {Id(t)} ELSE strayed
    /\ Return(t)
    /\ UNCHANGED <<host, tables, raced, lost, leaked>>

AllDone == \A t \in Tasks : At(t, "done")
Quiet == AllDone /\ UNCHANGED vars

CreateStep(t) ==
    \/ CreateClaim(t) \/ CreateReserve(t) \/ CreateAlloc(t) \/ SetupNetns(t) \/ SetupLinks(t)
    \/ CreateLaunch(t) \/ CreateUpsert(t) \/ CreateTeardownNetns(t)
    \/ CreateTeardownRelease(t) \/ CreateFinish(t)

TermStep(t) ==
    \/ TermRemove(t) \/ TermReap(t) \/ TermNetns(t) \/ TermRelease(t) \/ TermUnroute(t)
    \/ TermUnring(t)

IngressStep(t) ==
    \/ ExposeLookup(t) \/ ExposePort(t) \/ UnexposePort(t)
    \/ RequestResolve(t) \/ RequestDenied(t) \/ RequestConnect(t)

Next ==
    \/ \E t \in Tasks :
          \/ \E op \in Ops, id \in WorkspaceIds : Accept(t, op, id)
          \/ CreateStep(t) \/ TermStep(t) \/ AttestCheck(t) \/ AttestRing(t) \/ IngressStep(t)
    \/ Quiet

Spec == Init /\ [][Next]_vars

-----------------------------------------------------------------------------
\* Type invariant of the slot table, the host devices and the supervisor tables.
TypeOK ==
    /\ free \subseteq Slots
    /\ netns \in [WorkspaceIds -> 0 .. MaxSlot]
    /\ veth \in [WorkspaceIds -> 0 .. MaxSlot]
    /\ instances \in [WorkspaceIds -> 0 .. MaxSlot]
    /\ routes \in [WorkspaceIds -> 0 .. MaxSlot]
    /\ charged \cup claims \cup ports \cup rings \subseteq WorkspaceIds
    /\ \A t \in Tasks : task[t].pc \in PC /\ task[t].slot \in 0 .. MaxSlot

\* A create that has not registered yet, or a terminate, that owns slot s.
TaskHolders(s) ==
    {t \in Tasks : task[t].op \in Lifecycle /\ task[t].slot = s /\ ~At(t, "upsert")}
IdHolders(s) == {w \in WorkspaceIds : instances[w] = s}

\* A slot, and with it a guest address, belongs to one workspace at a time, with
\* creates and terminates of all ids interleaved: a free slot has no owner.
SlotsExclusive ==
    \A s \in Slots :
        Cardinality(TaskHolders(s)) + Cardinality(IdHolders(s)) <= (IF s \in free THEN 0 ELSE 1)

\* The slot table loses nothing: a slot belongs to one workspace at a time, and
\* every slot that is not free is owned, except the ones a failed setup or an
\* unconfirmed exit withdrew; no other path leaks one, and those never come back.
SlotsAccounted ==
    /\ SlotsExclusive
    /\ free \cap leaked = {}
    /\ \A s \in Slots \ (free \cup leaked) : TaskHolders(s) # {} \/ IdHolders(s) # {}

\* As long as requests on an id do not overlap, its registered workspace has its
\* own netns, veth and route, and an id that is not registered has no route, exposed
\* port or nonce ring, whatever happens to the other ids.
SerialIdsConsistent ==
    \A w \in WorkspaceIds :
        w \notin raced \cup lost /\ ~Busy(w) =>
            IF instances[w] # 0
            THEN netns[w] = instances[w] /\ veth[w] = instances[w] /\ routes[w] = instances[w]
            ELSE routes[w] = 0 /\ w \notin ports \cup rings

\* A request for one workspace is proxied to the guest of another only when it, or an
\* earlier request for that id, overlapped the id's create or terminate, or the exit of
\* the id's VM was not confirmed (terminate releases the address before the route).
RequestsReachOwnGuest ==
    strayed \subseteq raced \cup lost

HeaderNames == {"connection", "te", "accept", "x-key"}
Nonces == 1 .. 3
HeadersAndNonces ==
    /\ \A present, listed \in SUBSET HeaderNames, configured \in SUBSET {"x-key", "te"} :
          LET sent == prepare_upstream_headers([n \in present |-> "client"], listed,
                                               [n \in configured |-> "configured"])
          IN \A n \in HeaderNames :
                IF n \in configured THEN n \in DOMAIN sent /\ sent[n] = "configured"
                ELSE n \in DOMAIN sent <=> n \in present \ (listed \cup {"connection", "te"})
    /\ \A asked \in [1 .. 4 -> Nonces], cap \in 1 .. 2 :
          LET after[n \in 0 .. 4] ==
                  IF n = 0 THEN [ring |-> <<>>, replay |-> FALSE]
                  ELSE NonceRing_record(after[n - 1].ring, asked[n], cap)
              accepted == {n \in 1 .. 4 : ~after[n].replay}
          IN /\ \A n \in 0 .. 4 : Len(after[n].ring) <= cap
             /\ \A i, j \in accepted : i < j /\ asked[i] = asked[j] =>
                   Cardinality({k \in accepted : i < k /\ k < j}) >= cap

Octets == {<<169, 254, 1, 6>>, <<169, 253, 1, 6>>, <<10, 0, 0, 1>>}
RoutesAndListeners ==
    /\ \A dotted, hyphen, valid \in BOOLEAN, domain \in {Domain, "other"}, port \in {0, 80, 65536},
          ip \in Octets, exposed \in SUBSET {80}, known, still \in SUBSET {"w"} :
          LET h == [dotted |-> dotted, domain |-> domain, hyphen |-> hyphen, port |-> port,
                    wsid |-> "w", wsid_valid |-> valid]
              status == ingress_status(route_decision(h, Domain,
                            [w \in known |-> [ip |-> ip, ports |-> exposed]],
                            [w \in still |-> [ip |-> ip, ports |-> exposed]]))
          IN /\ status = 200 <=> /\ dotted /\ hyphen /\ valid /\ domain = Domain
                                 /\ known # {} /\ port \in exposed /\ SubSeq(ip, 1, 2) = <<169, 254>>
             /\ status = 421 <=> dotted /\ domain # Domain
    /\ \A cert \in [readable : BOOLEAN, pem : BOOLEAN, count : 0 .. 1],
          key \in [readable : BOOLEAN, pem : BOOLEAN, present : BOOLEAN, fits : BOOLEAN] :
          load_server_config(cert, key) = Ok =>
              cert.readable /\ key.readable /\ cert.count = 1 /\ key.present /\ key.fits

\* Headers of a proxied request: the configured ones arrive as configured whatever the
\* client sent or listed in Connection, and no other connection-specific one does.
\* A nonce is taken again only after a whole ring of other ones (cap entries).  A
\* connection is dialled only for an exposed port on a link-local address, whatever
\* the Host header and however the registry changes between the two lookups.
IngressDecisions == TypeOK /\ HeadersAndNonces /\ RoutesAndListeners
=============================================================================
