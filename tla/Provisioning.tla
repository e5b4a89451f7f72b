----------------------------- MODULE Provisioning -----------------------------
(***************************************************************************)
(* Provisioning a host: `nee install`, `nee uninstall` and `nee image      *)
(* import` (crates/ne/src/install), and the use the supervisor makes of    *)
(* the image store they fill (crates/ne-supervisor/src/image.rs).          *)
(*                                                                         *)
(* A command is the sequence of the file-system steps of its code.  The    *)
(* install and the import may run at the same time, and each of them may   *)
(* be killed, or stopped by an I/O error, between any two of its steps:    *)
(* nothing is rolled back then except a half-copied image.                 *)
(*                                                                         *)
(* dirs[d]  "absent", "legacy" (of an older release, writable by the       *)
(*          service account), "made", "set" (owner and mode applied) or    *)
(*          "symlink".  A directory the service account owns may have its  *)
(*          entries replaced at any time.                                  *)
(* files[f] "absent", "torn" (opened for writing and not yet filled), the  *)
(*          rendered content, "edited" by the operator, or "symlink" when  *)
(*          the service account put a link there.                          *)
(* store[k] the inode of the image of kind k, 0 when there is none.  The   *)
(*          content of an inode is what its bytes hash to, and changes     *)
(*          under whoever has it open.                                     *)
(* theirs   the inodes of a legacy store: the service account may write    *)
(*          them, through a handle it keeps even once the store is root's. *)
(* hardened the directories and files of the store belong to root.         *)
(* rewritten  the inodes that matched their digest and were then written.  *)
(* interrupted  the files a command was stopped in the middle of, and      *)
(*          "import" when a purge removed the store under an open import:  *)
(*          its failure path removes whatever is at its path by then.      *)
(***************************************************************************)
EXTENDS Outcomes, Integers, Sequences, SequencesExt, FiniteSets

CONSTANTS MaxCommands,  \* commands the operator runs
          MaxLaunches,  \* workspaces the supervisor launches
          MaxInodes,    \* image files ever created
          MaxReplaced   \* interventions of the service account

ASSUME ProvisioningBounds ==
    /\ MaxCommands \in Nat
    /\ MaxLaunches \in Nat
    /\ MaxInodes \in Nat
    /\ MaxReplaced \in Nat

VARIABLES pinned, dirs, files, store, links, content, theirs, hardened, rewritten,
          commands, running, launch, chroot, commandsRun, launches, interrupted, replaced

imagevars == << store, links, content, theirs, hardened, rewritten >>
host == << dirs, files, imagevars, running, interrupted >>
supervisor == << launch, chroot, launches >>
pvars == << pinned, host, commands, commandsRun, supervisor, replaced >>

Kinds == {"kernels", "rootfs"}

Profiles == {"standard", "confidential-azure"}

Processes == {"install", "import"}

StateDirs == {"images", "workspaces", "openshell"}

Dirs == {"state"} \cup StateDirs

\* Written by every install, and written only where nothing is there yet.
Rendered == {"env", "supervisor_unit", "api_unit", "tmpfiles", "sandbox"}
Policies == {"privacy", "rules", "data"}

\* What the templates render to: the environment file and the supervisor's
\* unit depend on the profile.
render(file, profile) ==
    IF file \in {"env", "supervisor_unit"} THEN profile ELSE "default"

\* The directory of StateDirs a file lives in, if it lives in one.
ParentOf(file) == IF file \in {"rules", "data"} THEN {"openshell"} ELSE {}

-----------------------------------------------------------------------------
(* The steps of the commands *)

managed_dirs(profile) ==
    << "workspaces" >> \o
    IF profile = "standard" THEN << "images" >> ELSE << "openshell" >>

dir_ownership == << "state", "images", "workspaces", "openshell" >>

Each(name, items) == [i \in DOMAIN items |-> << name, items[i] >>]

write_file(file) == << << "open", file >>, << "fill", file >> >>

import_artifact(kind) ==
    << << "hash", kind >>, << "create", kind >>, << "copy", kind >>, << "publish", kind >> >>

Harden == << << "harden", "images" >> >>

fetch_default_image ==
    << << "pin", "images" >> >> \o import_artifact("kernels") \o import_artifact("rootfs")
        \o Harden

install_confidential_components ==
    write_file("sandbox") \o Each("if_absent", << "rules", "data" >>)

\* Mutant: the state directory is secured after its children are created.
install_locks_last(profile, no_image, no_start) ==
    Each("validate", << "state" >> \o managed_dirs(profile))
    \o << << "mkdir", "state" >> >> \o Each("mkdir", managed_dirs(profile))
    \o install_confidential_components
    \o Each("own", dir_ownership)
    \o FlattenSeq([i \in 1..4 |->
           write_file(<< "env", "supervisor_unit", "api_unit", "tmpfiles" >>[i])])
    \o Each("if_absent", << "privacy" >>)

install(profile, no_image, no_start) ==
    Each("validate", << "state" >> \o managed_dirs(profile))
    \o << << "mkdir", "state" >>, << "own", "state" >> >>
    \o Each("mkdir", managed_dirs(profile))
    \o Each("own", dir_ownership)
    \o (IF profile = "standard"
        THEN Harden \o (IF no_image THEN << >> ELSE fetch_default_image)
        ELSE install_confidential_components)
    \o FlattenSeq([i \in 1..4 |->
           write_file(<< "env", "supervisor_unit", "api_unit", "tmpfiles" >>[i])])
    \o Each("if_absent", << "privacy" >>)
    \o (IF no_start THEN << >> ELSE << << "start", "units" >> >>)

prepare_image_store ==
    Each("validate", << "state", "images" >>)
    \o << << "mkdir", "state" >>, << "own", "state" >>,
          << "mkdir", "images" >>, << "own", "images" >> >>
    \o Harden

image_import ==
    prepare_image_store \o import_artifact("kernels") \o import_artifact("rootfs") \o Harden

uninstall(purge) ==
    << << "stop", "units" >> >>
    \o Each("remove", << "supervisor_unit", "api_unit", "env", "tmpfiles", "privacy" >>)
    \o (IF purge THEN << << "purge", "state" >> >> ELSE << >>)

-----------------------------------------------------------------------------
(* Running a command *)

Idle == [name |-> "none", profile |-> "standard", images |-> FALSE, todo |-> << >>, fd |-> 0]

Command(name, profile, images, todo) ==
    [name |-> name, profile |-> profile, images |-> images, todo |-> todo, fd |-> 0]

PInit ==
    /\ pinned \in BOOLEAN
    /\ files = [f \in Rendered \cup Policies |-> "absent"]
    /\ \/ /\ dirs = [d \in Dirs |-> "absent"]
          /\ store = [k \in Kinds |-> 0] /\ content = << >> /\ hardened = TRUE
       \/ /\ dirs = [d \in Dirs |-> "legacy"]
          /\ store = [kernels |-> 1, rootfs |-> 2]
          /\ content = << "matching", "matching" >> /\ hardened = FALSE
    /\ theirs = DOMAIN content
    /\ links = {} /\ rewritten = {}
    /\ commands = [p \in Processes |-> Idle]
    /\ running = None
    /\ launch = [step |-> "idle", handles |-> [k \in Kinds |-> 0]]
    /\ chroot = None
    /\ commandsRun = 0
    /\ launches = 0
    /\ interrupted = {}
    /\ replaced = 0

Begin(p) ==
    /\ commands[p].name = "none"
    /\ commandsRun < MaxCommands
    /\ commandsRun' = commandsRun + 1
    /\ \/ /\ p = "install"
          /\ \E profile \in Profiles, no_image, no_start \in BOOLEAN :
                commands' = [commands EXCEPT ![p] = Command("install", profile,
                    profile = "standard" /\ ~no_image, install(profile, no_image, no_start))]
       \/ /\ p = "install"
          /\ \E purge \in BOOLEAN :
                commands' = [commands EXCEPT ![p] =
                    Command("uninstall", "standard", FALSE, uninstall(purge))]
       \/ /\ p = "import"
          /\ commands' = [commands EXCEPT ![p] = Command("import", "standard", TRUE, image_import)]
    /\ UNCHANGED << pinned, host, supervisor, replaced >>

Step(p) == Head(commands[p].todo)

At(p, name) == commands[p].todo # << >> /\ Step(p)[1] = name

Advance(p) == commands' = [commands EXCEPT ![p].todo = Tail(@)]

\* The rest of the command is not run.
Stop(p) == commands' = [commands EXCEPT ![p] = Idle]

Finish(p) ==
    /\ commands[p].name # "none"
    /\ commands[p].todo = << >>
    /\ commands' = [commands EXCEPT ![p] = Idle]
    /\ UNCHANGED << pinned, host, commandsRun, supervisor, replaced >>

Rest(p) == UNCHANGED << pinned, commandsRun, supervisor, replaced >>

DirectoryStep(p, ok, after) ==
    /\ IF ok THEN Advance(p) /\ dirs' = after ELSE Stop(p) /\ dirs' = dirs
    /\ UNCHANGED << files, imagevars, running, interrupted >>
    /\ Rest(p)

\* No link on the way to a managed directory, as far as it exists.
validate_existing_directory_chains(p) ==
    /\ At(p, "validate")
    /\ DirectoryStep(p, dirs[Step(p)[2]] # "symlink", dirs)

\* What is missing is made, below a parent that is there.
ensure_directory_chain(p) ==
    LET d == Step(p)[2]
    IN  /\ At(p, "mkdir")
        /\ DirectoryStep(p, dirs[d] # "symlink" /\ (d \in StateDirs => dirs["state"] # "absent"),
                         [dirs EXCEPT ![d] = IF @ = "absent" THEN "made" ELSE @])

\* Owner and mode through a handle opened without following a link; a directory
\* of the other profile that does not exist, or a link that leads nowhere, is
\* skipped.
apply_directory_policy(p) ==
    LET d == Step(p)[2]
    IN  /\ At(p, "own")
        /\ \E dangling \in IF d = "state" THEN {FALSE} ELSE BOOLEAN :
              DirectoryStep(p, dirs[d] # "symlink" \/ dangling,
                            [dirs EXCEPT ![d] = IF @ \in {"absent", "symlink"} THEN @ ELSE "set"])

\* Mutant: a link in the store is skipped.
harden_store_skips(p) ==
    /\ At(p, "harden")
    /\ IF dirs["images"] \in {"symlink", "absent"}
       THEN Stop(p) /\ UNCHANGED hardened
       ELSE Advance(p) /\ hardened' = TRUE
    /\ UNCHANGED << dirs, files, store, links, content, theirs, rewritten, running, interrupted >>
    /\ Rest(p)

\* The whole store must consist of directories and regular files; they are made
\* root's, and read-only.  A walk that ends at a link has hardened a part, which
\* counts as none.
harden_store(p) ==
    /\ At(p, "harden")
    /\ IF dirs["images"] \in {"symlink", "absent"} \/ links # {}
       THEN Stop(p) /\ UNCHANGED hardened
       ELSE Advance(p) /\ hardened' = TRUE
    /\ UNCHANGED << dirs, files, store, links, content, theirs, rewritten, running, interrupted >>
    /\ Rest(p)

Pin(p) ==
    /\ At(p, "pin")
    /\ IF pinned THEN Advance(p) ELSE Stop(p)
    /\ UNCHANGED host
    /\ Rest(p)

\* The source is hashed, and rewound; it may hold other bytes when it is copied.
HashSource(p) ==
    /\ At(p, "hash")
    /\ \E matches \in BOOLEAN : IF matches THEN Advance(p) ELSE Stop(p)
    /\ UNCHANGED host
    /\ Rest(p)

\* Mutant: the destination is opened for overwriting.
CreateImageTruncates(p) ==
    LET k == Step(p)[2]
    IN  /\ At(p, "create")
        /\ Len(content) < MaxInodes
        /\ LET n == IF store[k] = 0 THEN Len(content) + 1 ELSE store[k]
           IN  /\ store' = [store EXCEPT ![k] = n]
               /\ content' = IF store[k] = 0 THEN Append(content, "partial")
                                             ELSE [content EXCEPT ![n] = "partial"]
               /\ commands' = [commands EXCEPT ![p].todo = Tail(@), ![p].fd = n]
        /\ UNCHANGED << dirs, files, links, theirs, hardened, rewritten, running, interrupted >>
        /\ Rest(p)

\* OpenOptions::create_new: an image that is there is never opened.
CreateImage(p) ==
    LET k == Step(p)[2]
    IN  /\ At(p, "create")
        /\ \/ /\ store[k] # 0 \/ k \in links \/ dirs["images"] \in {"absent", "symlink"}
              /\ Stop(p)
              /\ UNCHANGED << store, content >>
           \/ /\ store[k] = 0 /\ k \notin links /\ dirs["images"] \notin {"absent", "symlink"}
              /\ Len(content) < MaxInodes
              /\ store' = [store EXCEPT ![k] = Len(content) + 1]
              /\ content' = Append(content, "partial")
              /\ commands' = [commands EXCEPT ![p].todo = Tail(@), ![p].fd = Len(content) + 1]
        /\ UNCHANGED << dirs, files, links, theirs, hardened, rewritten, running, interrupted >>
        /\ Rest(p)

\* The file grows under its final name, one read of the source at a time, until
\* the source ends.  The source may have changed since it was hashed: what was
\* copied may never match, or match for a while and then be followed by more.
CopyImage(p) ==
    LET n == commands[p].fd
    IN  /\ At(p, "copy")
        /\ \/ Advance(p) /\ UNCHANGED << content, rewritten >>
           \/ /\ \E copied \in IF content[n] = "partial" THEN {"matching", "different"}
                                                        ELSE {"different"} :
                    content' = [content EXCEPT ![n] = copied]
              /\ rewritten' = rewritten \cup (IF content[n] = "matching" THEN {n} ELSE {})
              /\ UNCHANGED commands
        /\ UNCHANGED << dirs, files, store, links, theirs, hardened, running, interrupted >>
        /\ Rest(p)

\* What was copied is compared with the digest, synced and made read-only; a
\* failure of any of these removes the file, if the removal succeeds.
PublishImage(p) ==
    /\ At(p, "publish")
    /\ \/ content[commands[p].fd] = "matching" /\ Advance(p) /\ store' = store
       \/ Stop(p) /\ store' \in {[store EXCEPT ![Step(p)[2]] = 0], store}
    /\ UNCHANGED << dirs, files, links, content, theirs, hardened, rewritten, running, interrupted >>
    /\ Rest(p)

\* A policy that is there is kept; one that is a link, or no file, is an error.
install_policy_if_absent(p) ==
    /\ At(p, "if_absent")
    /\ IF files[Step(p)[2]] = "symlink" THEN Stop(p)
       ELSE commands' = [commands EXCEPT ![p].todo =
                (IF files[Step(p)[2]] = "absent" THEN write_file(Step(p)[2]) ELSE << >>) \o Tail(@)]
    /\ UNCHANGED host
    /\ Rest(p)

WriteFile(p) ==
    LET f == Step(p)[2]
    IN  /\ \/ At(p, "open") /\ files' = [files EXCEPT ![f] = "torn"]
           \/ At(p, "fill") /\ files' = [files EXCEPT ![f] = render(f, commands[p].profile)]
           \/ At(p, "remove") /\ files' = [files EXCEPT ![f] = "absent"]
        /\ Advance(p)
        /\ interrupted' = interrupted \ {f}
        /\ UNCHANGED << dirs, imagevars, running >>
        /\ Rest(p)

\* `systemctl enable --now` starts what is stopped, and leaves alone what runs.
Systemctl(p) ==
    /\ \/ At(p, "start") /\ running' = (IF running = None THEN Some(files["env"]) ELSE running)
       \/ At(p, "stop") /\ running' \in {None, running}
    /\ Advance(p)
    /\ UNCHANGED << dirs, files, imagevars, interrupted >>
    /\ Rest(p)

Purge(p) ==
    /\ At(p, "purge")
    /\ dirs' = [d \in Dirs |-> "absent"]
    /\ files' = [f \in DOMAIN files |-> IF ParentOf(f) = {} THEN files[f] ELSE "absent"]
    /\ store' = [k \in Kinds |-> 0]
    /\ links' = {} /\ hardened' = TRUE
    /\ Advance(p)
    /\ interrupted' = interrupted \cup
                         {q \in {"import"} : commands[q].fd # 0}
    /\ UNCHANGED << content, theirs, rewritten, running >>
    /\ Rest(p)

\* The process is killed, or a step fails that has nothing to undo.
Interrupt(p) ==
    /\ commands[p].todo # << >>
    /\ Stop(p)
    /\ interrupted' = interrupted \cup {f \in DOMAIN files : Step(p) = << "fill", f >>}
    /\ UNCHANGED << dirs, files, imagevars, running >>
    /\ Rest(p)

-----------------------------------------------------------------------------
(* What happens on the host meanwhile *)

\* The service account may replace what is in a directory it owns: a directory
\* or a policy by a link, an image by a link or by another file, and it may write
\* to the image files that were its own.
Replaced ==
    /\ replaced < MaxReplaced
    /\ replaced' = replaced + 1
    /\ \/ /\ dirs["state"] = "legacy"
          /\ \E d \in StateDirs : dirs' = [dirs EXCEPT ![d] = "symlink"]
          /\ UNCHANGED << files, imagevars >>
       \/ /\ dirs["openshell"] = "legacy"
          /\ \E f \in {"rules", "data"} : files' = [files EXCEPT ![f] = "symlink"]
          /\ UNCHANGED << dirs, imagevars >>
       \/ /\ ~hardened
          /\ \E k \in Kinds : store' = [store EXCEPT ![k] = 0] /\ links' = links \cup {k}
          /\ UNCHANGED << dirs, files, content, theirs, hardened, rewritten >>
       \/ /\ ~hardened /\ Len(content) < MaxInodes
          /\ dirs["images"] # "symlink"
          /\ \E k \in Kinds : store' = [store EXCEPT ![k] = Len(content) + 1] /\ links' = links \ {k}
          /\ content' = Append(content, "different")
          /\ theirs' = theirs \cup {Len(content) + 1}
          /\ UNCHANGED << dirs, files, hardened, rewritten >>
       \/ /\ \E n \in theirs :
                /\ content' = [content EXCEPT ![n] = IF @ = "matching" THEN "different" ELSE "matching"]
                /\ rewritten' = rewritten \cup {n}
          /\ UNCHANGED << dirs, files, store, links, theirs, hardened >>
    /\ UNCHANGED << pinned, running, interrupted, commands, commandsRun, supervisor >>

OperatorEdits ==
    /\ \E f \in Policies : files[f] = "default" /\ files' = [files EXCEPT ![f] = "edited"]
    /\ UNCHANGED << pinned, dirs, imagevars, running, interrupted, commands, commandsRun, supervisor,
                    replaced >>

-----------------------------------------------------------------------------
(* The supervisor: create resolves the pair, claims the chroot, stages both *)

Supervise(next) ==
    /\ launch' = next
    /\ UNCHANGED << pinned, host, commands, commandsRun, replaced >>

Launch ==
    /\ launch.step = "idle"
    /\ launches < MaxLaunches
    /\ launches' = launches + 1
    /\ chroot' = chroot
    /\ Supervise([launch EXCEPT !.step = "kernels"])

\* The file is opened without following a link, and the open file is hashed.
resolve(k) ==
    FirstFailure(<< Check(k \notin links, "Rejected"),
                    Check(store[k] # 0, "NotFound"),
                    Check(k \in links \/ store[k] = 0 \/ content[store[k]] = "matching",
                          "DigestMismatch") >>)

resolve_pair ==
    /\ launch.step \in Kinds
    /\ UNCHANGED << chroot, launches >>
    /\ LET k == launch.step
       IN  IF dirs["images"] \in {"absent", "symlink"} \/ resolve(k) # Ok
           THEN Supervise([launch EXCEPT !.step = "idle", !.handles = [x \in Kinds |-> 0]])
           ELSE Supervise([step |-> IF k = "kernels" THEN "rootfs" ELSE "claim",
                           handles |-> [launch.handles EXCEPT ![k] = store[k]]])

\* The workspace's directory must not exist.
claim ==
    /\ launch.step = "claim"
    /\ launches' = launches
    /\ IF chroot = None
       THEN /\ chroot' = Some([k \in Kinds |-> "absent"])
            /\ Supervise([launch EXCEPT !.step = "stage"])
       ELSE /\ chroot' = chroot
            /\ Supervise([launch EXCEPT !.step = "idle", !.handles = [x \in Kinds |-> 0]])

\* The next image to stage, the kernel first.
Unstaged == IF Get(chroot)["kernels"] = "absent" THEN "kernels" ELSE "rootfs"

\* Copying from the retained handle: it yields what the inode holds now.
stage ==
    /\ launch.step = "stage"
    /\ launches' = launches
    /\ chroot' = Some([Get(chroot) EXCEPT ![Unstaged] = content[launch.handles[Unstaged]]])
    /\ Supervise([launch EXCEPT !.step = IF Unstaged = "rootfs" THEN "launched" ELSE "stage"])

\* A copy fails: stage removes its file, stage_verified_pair the kernel, and
\* cleanup_image_failure the tree; a removal that fails leaves the tree.
StageFails ==
    /\ launch.step = "stage"
    /\ launches' = launches
    /\ chroot' \in {None, Some([k \in Kinds |-> "partial"])}
    /\ Supervise([step |-> "idle", handles |-> [k \in Kinds |-> 0]])

Terminated ==
    /\ launch.step = "launched"
    /\ launches' = launches
    /\ chroot' = None
    /\ Supervise([step |-> "idle", handles |-> [k \in Kinds |-> 0]])

CommandStep(p) ==
    \/ Begin(p) \/ Finish(p) \/ validate_existing_directory_chains(p)
    \/ ensure_directory_chain(p) \/ apply_directory_policy(p) \/ harden_store(p) \/ Pin(p)
    \/ HashSource(p) \/ CreateImage(p) \/ CopyImage(p) \/ PublishImage(p) \/ install_policy_if_absent(p)
    \/ WriteFile(p) \/ Systemctl(p) \/ Purge(p) \/ Interrupt(p)

SupervisorStep ==
    Launch \/ resolve_pair \/ claim \/ stage \/ StageFails \/ Terminated

PNext ==
    \/ \E p \in Processes : CommandStep(p)
    \/ Replaced
    \/ OperatorEdits
    \/ SupervisorStep

PSpec == PInit /\ [][PNext]_pvars

-----------------------------------------------------------------------------
(* `nee doctor` *)

\* What `nee doctor` looks at: the devices, commands and accounts of the host
\* are given, the files are the ones install puts there.
run_report(profile, given) ==
    IF profile = "standard" THEN << given.kvm, given.firecracker, given.jailer >>
    ELSE << given.vtpm, given.tpm2, files["sandbox"] # "absent", files["rules"] # "absent",
            files["data"] # "absent", given.sandbox_identity, given.nvread, given.readpublic >>

report_ok(checks) == \A i \in DOMAIN checks : checks[i]

AllGiven == [kvm |-> TRUE, firecracker |-> TRUE, jailer |-> TRUE, vtpm |-> TRUE, tpm2 |-> TRUE,
             sandbox_identity |-> TRUE, nvread |-> TRUE, readpublic |-> TRUE]

-----------------------------------------------------------------------------
(* Properties *)

PTypeOK ==
    /\ dirs \in [Dirs -> {"absent", "legacy", "made", "set", "symlink"}]
    /\ files \in [Rendered \cup Policies -> {"absent", "torn", "default", "edited", "symlink"} \cup Profiles]
    /\ store \in [Kinds -> 0..Len(content)]
    /\ content \in Seq({"partial", "matching", "different"})
    /\ links \subseteq Kinds /\ theirs \cup rewritten \subseteq DOMAIN content

\* A workspace that is launched runs the kernel and the root file system its
\* request names by digest, whatever happened to the store between the check
\* and the copy: an import in progress, one that was killed, a purge, a file
\* replaced by another.  The copy is not hashed again, so one case remains: the
\* verified file itself was written after it had matched, by the service account
\* (a file of a legacy store), or by an import whose source grew after it was
\* hashed, and then the file never matches again (resolve and stage of the
\* supervisor, import_artifact).
StagedImagesVerified ==
    /\ PTypeOK
    /\ launch.step = "launched" =>
          \A k \in Kinds : Get(chroot)[k] = "matching" \/ launch.handles[k] \in rewritten
    /\ \A n \in rewritten \ theirs : content[n] = "different"

Finishing(p, name) ==
    commands[p].name = name /\ commands[p].todo = << >> /\ commands'[p].name = "none"

\* When an install returns, whatever earlier installs left behind: the files
\* are those of the profile it was asked for, a policy is there and is whole
\* unless an earlier install was killed while writing it, the directories
\* have their owners, the store holds no link, the default images are in the
\* store unless a purge was run under an import, and `nee doctor` has nothing
\* to say about what install provides.
CompletedInstall ==
    [][\A p \in Processes : Finishing(p, "install") =>
        LET profile == commands[p].profile
            confidential == profile # "standard"
            present == {"privacy"} \cup IF confidential THEN {"rules", "data"} ELSE {}
        IN  /\ \A f \in Rendered \ (IF confidential THEN {} ELSE {"sandbox"}) :
                  files[f] = render(f, profile)
            /\ \A f \in present : files[f] \in {"default", "edited"} \/ f \in interrupted
            /\ \A i \in DOMAIN managed_dirs(profile) : dirs[managed_dirs(profile)[i]] = "set"
            /\ dirs["state"] = "set"
            /\ commands[p].images /\ "import" \notin interrupted =>
                  \A k \in Kinds : store[k] # 0 /\ content[store[k]] = "matching"
            /\ ~confidential => links = {}
            /\ report_ok(run_report(profile, AllGiven))]_pvars

\* What a command never does: write below a directory, or through a policy, that
\* the service account has replaced by a link, touch a policy the operator has
\* edited (except to remove it on uninstall), or start the units from files that
\* are not those of the install that starts them.
CommandsRespectHost ==
    [][/\ \A f \in DOMAIN files : files'[f] \in {"torn"} \cup Profiles \cup {"default"}
                                  /\ files'[f] # files[f]
                                     => \A d \in ParentOf(f) : dirs[d] # "symlink"
       /\ \A f \in Policies : files[f] \in {"edited", "symlink"} =>
              files'[f] \in {files[f], "symlink", "absent"}
       /\ store' # store /\ Len(content') > Len(content) => dirs["images"] # "symlink"
       /\ \A p \in Processes : At(p, "start") /\ running = None /\ running' # None =>
              /\ running' = Some(commands[p].profile)
              /\ files["supervisor_unit"] = commands[p].profile
              /\ files["api_unit"] = "default"]_pvars

=============================================================================
