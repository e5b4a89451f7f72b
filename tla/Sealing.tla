------------------------------- MODULE Sealing -------------------------------
(***************************************************************************)
(* Sealed snapshots: the files of one snapshot directory, the calls that   *)
(* seal it (ne-seal/orchestration.rs seal_artifacts, any number of them,   *)
(* possibly overlapping), the call that unseals it (unseal_artifacts), the *)
(* key-release exchange with the control plane, the host signing key, and  *)
(* crashes of the supervisor between any two steps.  Every await of the    *)
(* code is a step boundary here.                                           *)
(*                                                                         *)
(* A file is written in place (tokio::fs::write truncates, then writes),   *)
(* so it is torn from the moment a write begins until it completes; two    *)
(* overlapping writes of one file leave either content or a torn file.     *)
(***************************************************************************)
EXTENDS EvidenceVerifiers

CONSTANTS Sealers,            \* calls of seal; each draws its own DEK
          Policies,           \* sealing policies a caller may choose
          Host,               \* this host, as module Attestation sees it
          Configs,            \* environments the supervisor may be started in
          Measurement,        \* the measurement the unseal call passes
          Now, CpClocks,      \* this host's clock, and readings of the control plane's
          MaxOpens, MaxCrashes

VARIABLES config,    \* the environment variables and mode of this supervisor
          disk,      \* the files of the snapshot directory, the outputs, the key
          daemon,    \* the supervisor: "down", "creating" or "publishing" its key, or "up"
          keys,      \* signing keys generated so far
          sealer,    \* the seal calls
          open,      \* the unseal call in progress, or the last one
          opens, crashes,
          cpBinding  \* external: the policy the control plane bound the snapshot to

sealVars == <<config, disk, daemon, keys, sealer, open, opens, crashes, cpBinding>>

-----------------------------------------------------------------------------
(* Files. *)

KeyFile == "audit-signing.ed25519"

PublicKeyFile == "audit-signing.pub.ed25519"

Files == {KeyFile, PublicKeyFile, "manifest.json", "mem.sealed", "vmstate.sealed", "seal.json",
          "out_mem", "out_vmstate"}

Absent == [st |-> "absent", by |-> None, data |-> None]

Torn(who) == [st |-> "torn", by |-> Some(who), data |-> None]

Whole(who, data) == [st |-> "whole", by |-> Some(who), data |-> Some(data)]

IsWhole(f) == disk[f].st = "whole"

Content(f) == Get(disk[f].data)

BeginWrite(f, who) == disk' = [disk EXCEPT ![f] = Torn(who)]

\* The write completes.  If another writer truncated the file meanwhile, the
\* two interleave: this content, the other's, or neither survives whole.
EndWrite(f, who, data) ==
    \E c \in IF disk[f] = Torn(who) THEN {Whole(who, data)}
             ELSE {Whole(who, data), Torn(who), disk[f]} :
        disk' = [disk EXCEPT ![f] = c]

-----------------------------------------------------------------------------
(* The chunked container of crypto.rs: a record per chunk and an empty        *)
(* sentinel, each authenticated with the snapshot, the manifest and its       *)
(* index.                                                                     *)

\* Mutant: the index is not authenticated.
ad_for_unindexed(mh, index) == <<"snap", mh>>

ad_for(mh, index) == <<"snap", mh, index>>

write_record(dek, mh, index, pt) == [dek |-> dek, ad |-> ad_for(mh, index), pt |-> pt]

encrypt_stream(dek, chunks, mh) ==
    [magic |-> "NESEAL01",
     records |-> [i \in 1..Len(chunks) |-> write_record(dek, mh, i - 1, chunks[i])]
                 \o << write_record(dek, mh, Len(chunks), "") >>]

\* Mutant: plaintext is emitted without a look at the tags.
decrypt_stream_unchecked(container, dek, mh) ==
    LET records == container.records
    IN  Some([j \in 1..(Len(records) - 1) |-> records[j].pt])

\* Record i opens if its tag verifies at index i - 1; the stream ends at the
\* first empty record, and a record that fails or is missing before it is an
\* error.
decrypt_stream(container, dek, mh) ==
    LET records   == container.records
        Opens(i)  == records[i].dek = dek /\ records[i].ad = ad_for(mh, i - 1)
        sentinels == {i \in DOMAIN records :
                        records[i].pt = "" /\ \A j \in 1..(i - 1) : records[j].pt # ""}
    IN  IF container.magic = "NESEAL01" /\ \E s \in sentinels : \A j \in 1..s : Opens(j)
        THEN LET s == CHOOSE i \in sentinels : TRUE
             IN  Some([j \in 1..(s - 1) |-> records[j].pt])
        ELSE None

-----------------------------------------------------------------------------
(* The signed manifest of the snapshot (ne-protocol/snapshot.rs).             *)

MANIFEST_VERSION == 5

\* The plaintext artifacts, captured before the manifest was written.
Plain(f) == IF f = "mem" THEN <<"m0", "m1">> ELSE <<"v0">>

Manifest(signer) ==
    [ctx |-> "ne-enclave-snapshot-v1", manifest_version |-> MANIFEST_VERSION,
     snapshot_id |-> "snap", signer_pubkey |-> signer,
     mem_sha256 |-> Sha("sha256", Plain("mem")), vmstate_sha256 |-> Sha("sha256", Plain("vmstate"))]

signed_manifest(signer) == [body |-> Manifest(signer), signature |-> Sign(signer, Manifest(signer))]

\* read_manifest and parse_manifest: a torn manifest is a hard error, and the
\* version is judged before the schema.
parse_snapshot_manifest(f) ==
    IF ~IsWhole(f) THEN Err("Io")
    ELSE Check(Content(f).body.manifest_version = MANIFEST_VERSION, "UnsupportedVersion")

verify_manifest_signature_pinned(m, expected_signer) ==
    FirstFailure(<< Check(m.body.manifest_version = MANIFEST_VERSION, "UnsupportedVersion"),
                    Check(m.body.signer_pubkey = expected_signer, "UntrustedSigner"),
                    Check(VerifyStrict(expected_signer, m.body, m.signature), "SignatureMismatch") >>)

manifest_canonical_sha256(m) == Sha("sha256", m.body)

-----------------------------------------------------------------------------
(* Key wrapping and the seal envelope. *)

SEAL_VERSION == 1

dek_wrap_associated_data(mh, policy) == <<"snap", mh, Sha("sha256", policy)>>

derive_kek(signing_key) == <<"kek", signing_key>>

wrap_dek(dek, kek, provider, mh, policy) ==
    [kek_provider |-> provider, kek |-> kek, dek |-> dek,
     ad |-> dek_wrap_associated_data(mh, policy)]

unwrap_dek(env, kek, mh, policy) ==
    IF env.kek = kek /\ env.ad = dek_wrap_associated_data(mh, policy) THEN Some(env.dek) ELSE None

\* SealEnvelope plus sign_seal; the signature covers everything else.
sign_seal(signer, dek_envelope, policy, mh) ==
    LET body == [seal_version |-> SEAL_VERSION, snapshot_id |-> "snap", policy |-> policy,
                 dek_envelope |-> dek_envelope, manifest_canonical_sha256 |-> mh,
                 signer_pubkey |-> signer]
    IN  [body |-> body, signature |-> Sign(signer, body)]

verify_seal_pinned(seal, host_vk) ==
    FirstFailure(<< Check(seal.body.seal_version = SEAL_VERSION, "UnsupportedVersion"),
                    Check(seal.body.signer_pubkey = host_vk, "UntrustedSigner"),
                    Check(VerifyStrict(host_vk, seal.body, seal.signature), "SignatureMismatch") >>)

check_binding(seal, m) ==
    FirstFailure(<< Check(seal.body.snapshot_id = m.body.snapshot_id, "BindingMismatch"),
                    Check(seal.body.manifest_canonical_sha256 = manifest_canonical_sha256(m),
                          "BindingMismatch") >>)

-----------------------------------------------------------------------------
(* The control plane and its client (key_release_cp.rs).                      *)

software_kek_allowed(dev_mode, allow_software_env) == dev_mode \/ allow_software_env

require_https(endpoint) == endpoint = "https"

new_mtls(c) == IF require_https(c.endpoint) /\ c.tls_readable THEN "client" ELSE Err("Configuration")

new_development(c) ==
    IF c.endpoint = "loopback_http" /\ c.api_key = "set" THEN "client" ELSE Err("Configuration")

\* SupervisorSealer::new: no endpoint is no client, a complete transport is
\* one, anything partial is an error (and then there is no sealer at all).
cp_client_from_values(c) ==
    CASE c.endpoint = "unset"                               -> "none"
      [] c.endpoint # "unset" /\ c.tls = {"ca", "cert", "key"} -> new_mtls(c)
      [] /\ c.endpoint # "unset" /\ c.tls = {}
         /\ c.api_key # "unset" /\ c.dev_mode               -> new_development(c)
      [] OTHER                                              -> Err("Configuration")

CpConfigured == cp_client_from_values(config) = "client"

\* Every way an exchange can fail on the way or at the control plane.
CpFaults == {"transport", "oversize", "not_utf8", "malformed_body", "401", "403", "409", "500"}

\* The reply of either endpoint: 200 with a body that decodes, or an error.
cp_reply(answer) ==
    CASE answer = "200" -> Ok
      [] answer = "409" -> Err("Conflict")
      [] answer = "401" -> Err("Unauthorized")
      [] answer = "403" -> Err("Denied")
      [] answer = "oversize" -> Err("ResponseTooLarge")
      [] answer \in {"not_utf8", "malformed_body"} -> Err("BadResponse")
      [] OTHER -> Err("Transport")

CpKek == <<"kek", "control-plane">>

\* External: the service binds the snapshot to its first policy.
CpBinds(policy) == cpBinding \in {None, Some(policy)}

\* External: it releases a key for a bound policy whose evidence its own WASM
\* gate accepts at its own clock.
CpReleases(seal, ev, clock) ==
    /\ cpBinding = Some(seal.body.policy)
    /\ wasm_verify(seal.body.policy, ev, ev.nonce, clock) = Ok
    /\ IsSome(unwrap_dek(seal.body.dek_envelope, CpKek,
                         seal.body.manifest_canonical_sha256, seal.body.policy))

-----------------------------------------------------------------------------
(* The supervisor process and its signing key (signing.rs).                   *)

HostKey == <<"key", Content(KeyFile)>>

KeyExists == disk[KeyFile].st # "absent"

\* load_or_create_signing_key with a key file present: it must be complete,
\* or the supervisor does not start.
LoadKey ==
    /\ daemon = "down"
    /\ KeyExists
    /\ IsWhole(KeyFile)
    /\ daemon' = "up"
    /\ UNCHANGED <<config, disk, keys, sealer, open, opens, crashes, cpBinding>>

CreateKey ==
    /\ daemon = "down"
    /\ ~KeyExists
    /\ daemon' = "creating"
    /\ keys' = keys + 1
    /\ BeginWrite(KeyFile, "host")
    /\ UNCHANGED <<config, sealer, open, opens, crashes, cpBinding>>

\* The private key is complete and the public one is begun.
KeyWritten ==
    /\ daemon = "creating"
    /\ disk' = [disk EXCEPT ![KeyFile] = Whole("host", keys), ![PublicKeyFile] = Torn("host")]
    /\ daemon' = "publishing"
    /\ UNCHANGED <<config, keys, sealer, open, opens, crashes, cpBinding>>

\* The public key is complete and the private one has its mode.  A start that was
\* cut short before this is not repaired: the next one only loads.
KeyPublished ==
    /\ daemon = "publishing"
    /\ EndWrite(PublicKeyFile, "host", keys)
    /\ daemon' = "up"
    /\ UNCHANGED <<config, keys, sealer, open, opens, crashes, cpBinding>>

\* write_manifest: once per snapshot directory.  A crash leaves it torn.
BeginManifest ==
    /\ daemon = "up"
    /\ disk["manifest.json"] = Absent
    /\ BeginWrite("manifest.json", crashes)
    /\ UNCHANGED <<config, daemon, keys, sealer, open, opens, crashes, cpBinding>>

EndManifest ==
    /\ daemon = "up"
    /\ disk["manifest.json"] = Torn(crashes)
    /\ EndWrite("manifest.json", crashes, signed_manifest(HostKey))
    /\ UNCHANGED <<config, daemon, keys, sealer, open, opens, crashes, cpBinding>>

-----------------------------------------------------------------------------
(* seal_artifacts: both ciphertexts, then the wrapped key, then seal.json.    *)

SealRest == UNCHANGED <<config, daemon, keys, open, opens, crashes>>

GoTo(s, pc) == sealer' = [sealer EXCEPT ![s].pc = pc]

mh_of(s) == sealer[s].mh

\* The call hashes the manifest it was given, draws a DEK (named after the
\* call) and starts to write mem.sealed.
SealCall(s) ==
    /\ daemon = "up" /\ sealer[s].pc = "new"
    /\ cp_client_from_values(config) \in {"none", "client"}
    /\ IsWhole("manifest.json")
    /\ \E policy \in Policies, provider \in {"SoftwareFallback", "ControlPlane"} :
          sealer' = [sealer EXCEPT ![s] =
              [pc |-> "mem", policy |-> Some(policy), provider |-> provider,
               mh |-> manifest_canonical_sha256(Content("manifest.json")),
               after |-> {t \in Sealers : sealer[t].pc \in {"ok", "err"}}]]
    /\ BeginWrite("mem.sealed", s)
    /\ UNCHANGED cpBinding /\ SealRest

SealMem(s) ==
    /\ sealer[s].pc = "mem"
    /\ EndWrite("mem.sealed", s, encrypt_stream(s, Plain("mem"), mh_of(s)))
    /\ GoTo(s, "mem_done")
    /\ UNCHANGED cpBinding /\ SealRest

\* Mutant: the second artifact is skipped.
SealVmstateBeginSkipped(s) ==
    /\ sealer[s].pc = "mem_done"
    /\ GoTo(s, "wrap")
    /\ UNCHANGED <<disk, cpBinding>> /\ SealRest

SealVmstateBegin(s) ==
    /\ sealer[s].pc = "mem_done"
    /\ BeginWrite("vmstate.sealed", s)
    /\ GoTo(s, "vmstate")
    /\ UNCHANGED cpBinding /\ SealRest

SealVmstate(s) ==
    /\ sealer[s].pc = "vmstate"
    /\ EndWrite("vmstate.sealed", s, encrypt_stream(s, Plain("vmstate"), mh_of(s)))
    /\ GoTo(s, "wrap")
    /\ UNCHANGED cpBinding /\ SealRest

WrapLocally(s) ==
    /\ sealer[s].pc = "wrap" /\ sealer[s].provider = "SoftwareFallback"
    /\ BeginWrite("seal.json", s)
    /\ GoTo(s, "json")
    /\ UNCHANGED cpBinding /\ SealRest

WrapUnconfigured(s) ==
    /\ sealer[s].pc = "wrap" /\ sealer[s].provider = "ControlPlane"
    /\ ~CpConfigured
    /\ GoTo(s, "err")
    /\ UNCHANGED <<disk, cpBinding>> /\ SealRest

\* The control plane decides, and its answer arrives or is lost; a binding it
\* recorded stays even when the client only sees a fault.
WrapRemotely(s) ==
    /\ sealer[s].pc = "wrap" /\ sealer[s].provider = "ControlPlane"
    /\ CpConfigured
    /\ \E answer \in CpFaults \cup (IF CpBinds(Get(sealer[s].policy)) THEN {"200"} ELSE {}),
           recorded \in BOOLEAN :
          /\ answer = "200" => recorded
          /\ recorded => CpBinds(Get(sealer[s].policy))
          /\ cpBinding' = IF recorded THEN sealer[s].policy ELSE cpBinding
          /\ IF cp_reply(answer) = Ok
             THEN BeginWrite("seal.json", s) /\ GoTo(s, "json")
             ELSE UNCHANGED disk /\ GoTo(s, "err")
    /\ SealRest

seal_of(s) ==
    LET kek == IF sealer[s].provider = "ControlPlane" THEN CpKek ELSE derive_kek(HostKey)
    IN  sign_seal(HostKey, wrap_dek(s, kek, sealer[s].provider, mh_of(s), Get(sealer[s].policy)),
                  Get(sealer[s].policy), mh_of(s))

SealJson(s) ==
    /\ sealer[s].pc = "json"
    /\ EndWrite("seal.json", s, seal_of(s))
    /\ GoTo(s, "ok")
    /\ UNCHANGED cpBinding /\ SealRest

\* A write fails (a full disk): the call returns, the file stays truncated.
SealWriteFails(s) ==
    /\ sealer[s].pc \in {"mem", "vmstate", "json"}
    /\ GoTo(s, "err")
    /\ UNCHANGED <<disk, cpBinding>> /\ SealRest

SealStep(s) ==
    \/ SealCall(s) \/ SealMem(s) \/ SealVmstateBegin(s) \/ SealVmstate(s)
    \/ WrapLocally(s) \/ WrapUnconfigured(s) \/ WrapRemotely(s)
    \/ SealJson(s) \/ SealWriteFails(s)

-----------------------------------------------------------------------------
(* unseal_artifacts. *)

OpenRest == UNCHANGED <<config, daemon, keys, sealer, crashes, cpBinding>>

Idle(res) == [pc |-> "idle", seal |-> None, seen |-> FALSE, dek |-> None, plain |-> <<>>, res |-> res]

Refused == open' = [Idle("refused") EXCEPT !.seen = open.seen] /\ UNCHANGED <<disk, opens>>

OpenCall ==
    /\ daemon = "up" /\ open.pc = "idle" /\ opens < MaxOpens
    /\ cp_client_from_values(config) \in {"none", "client"}
    /\ open' = [Idle("none") EXCEPT !.pc = "manifest"]
    /\ opens' = opens + 1
    /\ UNCHANGED disk /\ OpenRest

\* Step 1: the manifest, pinned to the host key.
ReadManifest ==
    /\ open.pc = "manifest"
    /\ IF /\ parse_snapshot_manifest("manifest.json") = Ok
          /\ verify_manifest_signature_pinned(Content("manifest.json"), HostKey) = Ok
       THEN open' = [open EXCEPT !.pc = "seal"] /\ UNCHANGED <<disk, opens>>
       ELSE Refused
    /\ OpenRest

\* The sealer whose complete set of files is on disk, if any.
Intact(s) ==
    /\ IsWhole("seal.json") /\ disk["seal.json"].by = Some(s)
    /\ \A f \in {"mem.sealed", "vmstate.sealed"} : IsWhole(f) /\ disk[f].by = Some(s)

\* Steps 2 and 3: the seal, pinned to the same key, and its binding.
ReadSealJson ==
    /\ open.pc = "seal"
    /\ IF ~IsWhole("seal.json") THEN Refused
       ELSE LET seal == Content("seal.json")
            IN  IF /\ verify_seal_pinned(seal, HostKey) = Ok
                   /\ check_binding(seal, Content("manifest.json")) = Ok
                THEN /\ open' = [open EXCEPT !.pc = "resolve", !.seal = Some(seal),
                                             !.seen = \E s \in Sealers : Intact(s)]
                     /\ UNCHANGED <<disk, opens>>
                ELSE Refused
    /\ OpenRest

\* Step 4: a fresh nonce and this host's evidence for it.
fresh_evidence ==
    generate([Host EXCEPT !.key = HostKey],
             [workspace_id |-> "w", measurement |-> Measurement, nonce |-> [val |-> opens, len |-> 16]],
             Now)

\* Mutant: the gate is left to the control plane on both arms.
evaluate_gate_open(seal) == Ok

evaluate_gate(seal) ==
    verify_against_policy(seal.body.policy, fresh_evidence, fresh_evidence.nonce, Now)

resolve_dek(seal) ==
    IF seal.body.dek_envelope.kek_provider # "SoftwareFallback" THEN None
    ELSE unwrap_dek(seal.body.dek_envelope, derive_kek(HostKey),
                    seal.body.manifest_canonical_sha256, seal.body.policy)

\* Step 5, software arm: refused unless permitted; the gate is authoritative.
ResolveLocally ==
    LET seal == Get(open.seal)
        allowed == software_kek_allowed(config.dev_mode, config.allow_env)
    IN  /\ open.pc = "resolve"
        /\ seal.body.dek_envelope.kek_provider = "SoftwareFallback"
        /\ IF allowed /\ evaluate_gate(seal) = Ok /\ IsSome(resolve_dek(seal))
           THEN open' = [open EXCEPT !.pc = "mem", !.dek = resolve_dek(seal)]
                /\ UNCHANGED <<disk, opens>>
           ELSE Refused
        /\ OpenRest

\* Step 5, control-plane arm: the local gate fails fast, then release_dek.
ReleaseRemotely ==
    LET seal == Get(open.seal)
    IN  /\ open.pc = "resolve"
        /\ seal.body.dek_envelope.kek_provider = "ControlPlane"
        /\ IF evaluate_gate(seal) # Ok \/ ~CpConfigured THEN Refused
           ELSE \E clock \in CpClocks :
                \E answer \in CpFaults \cup
                      (IF CpReleases(seal, fresh_evidence, clock) THEN {"200"} ELSE {}) :
                  IF cp_reply(answer) = Ok
                  THEN open' = [open EXCEPT !.pc = "mem", !.dek = Some(seal.body.dek_envelope.dek)]
                       /\ UNCHANGED <<disk, opens>>
                  ELSE Refused
        /\ OpenRest

Decrypted(f) ==
    IF IsWhole(f)
    THEN decrypt_stream(Content(f), Get(open.dek), Get(open.seal).body.manifest_canonical_sha256)
    ELSE None

\* Step 6: each file is decrypted as a whole before its output is opened.
\* The plaintext stays in memory until the write completes.
OpenFile(f, out, pc, next) ==
    /\ open.pc = pc
    /\ IF IsSome(Decrypted(f))
       THEN /\ BeginWrite(out, opens)
            /\ open' = [open EXCEPT !.pc = next, !.plain = Get(Decrypted(f))]
            /\ UNCHANGED opens
       ELSE Refused
    /\ OpenRest

OpenMem == OpenFile("mem.sealed", "out_mem", "mem", "mem_w")

WriteMem ==
    /\ open.pc = "mem_w"
    /\ EndWrite("out_mem", opens, open.plain)
    /\ open' = [open EXCEPT !.pc = "vmstate", !.plain = <<>>]
    /\ UNCHANGED opens /\ OpenRest

OpenVmstate == OpenFile("vmstate.sealed", "out_vmstate", "vmstate", "vmstate_w")

WriteVmstate ==
    /\ open.pc = "vmstate_w"
    /\ EndWrite("out_vmstate", opens, open.plain)
    /\ open' = [Idle("opened") EXCEPT !.seen = open.seen]
    /\ UNCHANGED opens /\ OpenRest

OpenWriteFails ==
    /\ open.pc \in {"mem_w", "vmstate_w"}
    /\ Refused /\ OpenRest

\* The supervisor dies: the calls are gone, the files stay as they are.
Crash ==
    /\ daemon # "down" /\ crashes < MaxCrashes
    /\ daemon' = "down"
    /\ crashes' = crashes + 1
    /\ sealer' = [s \in Sealers |->
                    IF sealer[s].pc = "new" THEN sealer[s]
                    ELSE [sealer[s] EXCEPT !.pc = IF @ = "ok" THEN "ok" ELSE "err"]]
    /\ open' = IF open.pc = "idle" THEN open ELSE [Idle("none") EXCEPT !.seen = open.seen]
    /\ UNCHANGED <<config, disk, keys, opens, cpBinding>>

SealInit ==
    /\ config \in Configs
    /\ disk = [f \in Files |-> Absent]
    /\ daemon = "down" /\ keys = 0
    /\ sealer = [s \in Sealers |-> [pc |-> "new", policy |-> None, provider |-> "none",
                                    mh |-> <<>>, after |-> {}]]
    /\ open = Idle("none")
    /\ opens = 0 /\ crashes = 0 /\ cpBinding = None

SealNext ==
    \/ LoadKey \/ CreateKey \/ KeyWritten \/ KeyPublished \/ BeginManifest \/ EndManifest
    \/ \E s \in Sealers : SealStep(s)
    \/ OpenCall \/ ReadManifest \/ ReadSealJson \/ ResolveLocally \/ ReleaseRemotely
    \/ OpenMem \/ WriteMem \/ OpenVmstate \/ WriteVmstate \/ OpenWriteFails
    \/ Crash

SealSpec == SealInit /\ [][SealNext]_sealVars

-----------------------------------------------------------------------------
(* Properties. *)

SealTypeOK ==
    /\ daemon \in {"down", "creating", "publishing", "up"}
    /\ \A f \in Files : /\ disk[f].st \in {"absent", "torn", "whole"}
                        /\ (disk[f].st = "whole") = IsSome(disk[f].data)
    /\ \A s \in Sealers : sealer[s].pc \in
          {"new", "mem", "mem_done", "vmstate", "wrap", "json", "ok", "err"}
    /\ open.pc \in {"idle", "manifest", "seal", "resolve", "mem", "mem_w", "vmstate", "vmstate_w"}

Outputs == {disk["out_mem"], disk["out_vmstate"]}

Delivered(n) == /\ disk["out_mem"] = Whole(n, Plain("mem"))
                /\ disk["out_vmstate"] = Whole(n, Plain("vmstate"))

Store == INSTANCE SealedStore WITH
    held    <- \E s \in Sealers : Intact(s),
    seen    <- open.seen,
    outcome <- IF open.pc # "idle" THEN "opening"
               ELSE IF open.res = "none" THEN "idle" ELSE open.res,
    out     <- IF Outputs = {Absent} THEN "none"
               ELSE IF \E n \in 1..opens : Delivered(n) THEN "whole" ELSE "partial"

\* unseal_artifacts implements the abstract store: whatever seal calls, crashes
\* and failed writes surround it, it returns success only if one seal call's
\* seal.json, mem.sealed and vmstate.sealed were all intact together at the
\* moment it read seal.json, and both outputs are then the captured plaintext.
ImplementsSealedStore == Store!StoreSpec

\* seal.json is the commit point of seal_artifacts: when a call has returned
\* success and every other call was over before it began, the set on disk is
\* its own and decrypts to the captured plaintext under its DEK.  Restarts keep
\* the host identity: whenever the supervisor is up, every complete manifest
\* and seal on its disk verifies under the key it loaded, and a complete public
\* key file is that key's (load_or_create_signing_key).
UndisturbedSealOpens ==
    /\ \A s \in Sealers :
          (sealer[s].pc = "ok" /\
             \A t \in Sealers \ {s} : sealer[t].pc = "new" \/ t \in sealer[s].after)
          => /\ Intact(s)
             /\ decrypt_stream(Content("mem.sealed"), s, mh_of(s)) = Some(Plain("mem"))
             /\ decrypt_stream(Content("vmstate.sealed"), s, mh_of(s)) = Some(Plain("vmstate"))
    /\ daemon = "up" =>
          /\ IsWhole(PublicKeyFile) => Content(PublicKeyFile) = Content(KeyFile)
          /\ IsWhole("manifest.json") =>
               verify_manifest_signature_pinned(Content("manifest.json"), HostKey) = Ok
          /\ IsWhole("seal.json") =>
               /\ verify_seal_pinned(Content("seal.json"), HostKey) = Ok
               /\ check_binding(Content("seal.json"), Content("manifest.json")) = Ok

\* No DEK reaches memory unless the policy inside the seal accepts this host,
\* and the arm that resolved it was permitted: the software KEK by the mode,
\* the control plane by a client and a binding to that very policy.
KeyReleaseGated ==
    IsSome(open.dek) =>
      LET env == Get(open.seal).body.dek_envelope
          policy == Get(open.seal).body.policy
      IN  /\ open.dek = Some(env.dek)
          /\ HostSatisfies([Host EXCEPT !.key = HostKey], policy)
          /\ policy.expected_measurement \in {None, Some(Measurement)}
          /\ IF env.kek_provider = "SoftwareFallback"
             THEN config.dev_mode \/ config.allow_env
             ELSE CpConfigured /\ cpBinding = Some(policy)

\* decrypt_stream detects every truncation, reordering, repetition and loss of
\* records: whatever is made of the records of a sealed file on disk opens, if
\* it opens at all, to that file's plaintext.
ContainerDetectsDamage ==
    opens = 0 =>
      \A f \in {"mem.sealed", "vmstate.sealed"} : IsWhole(f) =>
        LET whole == Content(f)
            dek   == whole.records[1].dek
            mh    == manifest_canonical_sha256(Content("manifest.json"))
            plain == decrypt_stream(whole, dek, mh)
            Pool  == {whole.records[i] : i \in DOMAIN whole.records}
        IN  /\ IsSome(plain)
            /\ \A n \in 0..(Len(whole.records) + 1) : \A records \in [1..n -> Pool] :
                 decrypt_stream([whole EXCEPT !.records = records], dek, mh) \in {None, plain}

\* The state is well formed, and the runtime gate, the WASM seam and the
\* offline verifier decide alike (VerifierDecisions, which no state changes).
VerifiersAgree == SealTypeOK /\ VerifierDecisions

=============================================================================
