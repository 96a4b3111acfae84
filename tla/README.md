# A TLA+ model of proxctl

proxctl provisions virtual machines on Proxmox VE from a YAML manifest: it
builds a kickstart ISO per node, uploads it, creates and starts the machine,
waits until the guest answers on SSH and detaches the installation media. This
directory holds TLA+ modules for the parts of it that are concurrent, that can
be cut short, or that depend on an order, TLC configurations that check them on
small instances, and TLAPS proofs, for every instance, of every safety property they check.

Run `tlc -config X.cfg M` for the runs below and `tlapm M.tla` for the proofs.

## 1. The system

| Part | Code | State it keeps | Operations |
|---|---|---|---|
| Multi-node workflow | `pkg/workflow/multi_node.go` | one `SingleVMWorkflow` per node, a semaphore channel, a shared upload mutex, an `errgroup` or an error list | `Plan`, `Apply`, `Verify`, `Finalize`, `Up`, `Down`, `Rollback` |
| Single-VM workflow | `pkg/workflow/single_vm.go` | the change list, the path of the ISO it built | `Plan`, `Apply`, `Verify`, `Up`, `Down`, `Rollback` |
| Finalize | `pkg/workflow/finalize.go` | a deadline | `waitForSSHUp`, two ejects, boot order |
| Proxmox client | `pkg/proxmox/*.go` | none between calls; a task's UPID during one | `Do`, `WaitForTask`, and a wrapper per endpoint |
| Commands | `internal/root/*.go` | none: each is a process of its own | `workflow up/down/finalize/...`, `vm ...`, `boot ...`, `snapshot ...`, `replay`, `config ...` |
| Traces | `pkg/trace/{schema,writer,reader}.go` | a JSONL file, a buffer, the previous hash | `Write`, `Sync`, `Close`, `NewWriter`, `LoadAll`, `VerifyChain` |
| Replay | `pkg/trace/replay.go` | a cursor and the results | `Replay` in three modes |
| Configuration | `pkg/config/{loader,resolver}.go` | the structure being expanded in place, the set of files read | `Load` |
| Validators | `pkg/config/validators.go` | maps filled while looping over the nodes, the joined error | `Validate`, the last step of `Load` |
| Kickstart | `pkg/kickstart`, `internal/root/kickstart.go` | ISO files in the temp directory and in one the user names, both shared by all processes | render, build (`ISOBuilder`, `UbuntuISOBuilder`), rename or copy, upload, remove: `build-iso`, `build-ubuntu`, `build-stack` |
| Stubs and glue | `pkg/state`, `pkg/license`, `stack`, `env`, `version`, `cmd/` | none | return not implemented, print |

How they interact: a command resolves the manifest through `config.Load`, makes
a client and a workflow and calls it. The workflow's goroutines call the client;
every mutating call is one HTTP request and, if the hypervisor answers with a
task, a polling loop. The hypervisor holds the machines; what a killed command
leaves behind is there, and in the ISO files of the directories that all commands
share. Goroutines of one `Up` share a semaphore, `UploadMu`, the
errgroup's context and, in continue mode, an error list. Traces are files that a
later process, or a reader at the same time, opens again.

What is hard in it, and what makes each part correct:

* Multi-node `Up`: goroutines that wait for a token, for the mutex, or for an
  answer while another one's error cancels the context. Correct when no token,
  lock or goroutine is lost on any path, uploads never overlap, the error
  reported is the cause and not an echo, and nil means every node is complete.
* One API call: a request may be lost, refused, carried out late, or carried
  out after the client has given up. Correct when nil is returned only after
  the effect, as far as the hypervisor says how its tasks ended.
* Setting up one machine: create, attach, order, start, wait, eject. Until the media
  are ejected every boot may fall through to them and start the installer over.
  Correct when the installer always finds its media, a finalized guest is never sent
  back to its installer, and machines of other operators are left alone.
* Commands: killed anywhere, then followed by others; two operators at once.
  Correct when each command reaches its goal or reports the nodes it did not.
* Traces: buffers that spill, writes that fail half way, crashes. Correct when
  what can be read is always a chain and what was reported written is there.
* Replay: must execute nothing it should not, and stop where it must.
* Loading: a structure read and written by the same walk, in an order partly
  random. Correct when every placeholder gets the value it stands for and a
  missing source is always reported.
* Validating: five loops over Go maps that each stop at their first violation.
  Correct when the rules reported do not depend on the order the maps are read
  in, and when what passes is built as it is written, where no two disks name one
  interface.
* Building ISOs: one path per node name in a shared directory, commands killed or
  failing between writing, moving, uploading and removing. Correct when what is
  uploaded for a node is its own ISO, whole, and when a job that is cut short has
  finished or not begun every node but the one it was at.

`PROJECT.json` lists every component with its status, and under `hazards` the
places in the code where these can go wrong.

## 2. The modules

    Pve ─── MultiNode ─── MCMultiNode                             (TLC)
     │          │  └───── MultiNodeProofs                         (TLAPS)
     │          └ refines Provision
     └───── Commands ── CommandsProofs                            (TLAPS)
    PveTask ── refines ── PveCall
        └───── PveTaskProofs                                      (TLAPS)
    Trace ──── TraceProofs                                        (TLAPS)
    Replay ─── ReplayProofs                                       (TLAPS)
    IsoFiles ─ MCIsoFiles (TLC), IsoFilesProofs                   (TLAPS)
    Validators MCValidators (TLC), ValidatorsProofs               (TLAPS)
    Config ─── ConfigProofs                                       (TLAPS)

**Pve** is the vocabulary: what a machine is to proxctl (`VM`: who made it, what
is in ide2 and ide3, its boot order, power and disk), the steps of Apply and
Finalize as sequences (`ApplySteps`, `FinalizeSteps`, from `Plan` and
`FinalizeSingle`), which requests the hypervisor accepts and what each does
(`Accepts`, `Effect`, `Stored`). Sizes, names and form fields are left out.

**MultiNode** is `MultiNodeWorkflow.Up`. `opts` is what a run is given: the flags,
the capacity of the semaphore and the nodes whose manifest entry has an IP. `phase`
and `next` are the main goroutine: it plans every node, launches the goroutines
(`Launch`, which in continue mode takes the token itself), joins them, verifies and
finalizes one node after another. `pc`, `todo` and `outcome` are the goroutines of
`applyPlan`; each works off its own change list. `sem` is the channel, `uploader`
the owner of `UploadMu`, `firstErr` the errgroup's error and with it the
cancelled context. A request has three steps of its own, `Send`, `Serve`,
`Reply`, with `Rejected`, `SendFails` and `GiveUp` beside them; after `GiveUp` the
hypervisor may still carry it out (`late`). `GuestInstalls` and `OthersCreate`
are the guest and another operator, at any time.

**Provision** is the abstract specification: per machine a stage that moves
forward one step at a time, `Succeed` only when every machine is where the flags
ask it to be. MultiNode implements it (`Promise`, `KeepsPromise`): the mapping
reads the stage off the machine, so neither goroutines nor requests appear in
the promise.

**PveTask** is one mutating call in full, several of them under one context:
`Post`, the answer with a UPID, null or an error, `Poll`, `Sleep`, the context's
cancellation at each of them, and the hypervisor's `Receive` and `Run`. It
implements **PveCall**: after `Ask` a call returns nil only once the effect is there,
or once the hypervisor has ended the task without saying how (`EndUntold`: a stopped
task whose `exitstatus` is empty is a success to `WaitForTask`), and an error says nothing
about the effect. MultiNode and Commands rely on more than `WaitForTask` promises: they
take a hypervisor that gives every stopped task an exit status, so that nil means the
effect.

**Commands** is sequences of commands on the machines of one manifest, by one or
two operators. `job` is the running command with the steps left on the current
node, `Kill` ends the process between any two of them, `late` holds requests whose
sender is gone or never waited (snapshots). `NeedsNode` is the refusal of
a workflow command without `--node` on a manifest of one node; `Targets` is the
nodes a command without it visits, `down` in reverse. The verbs are the commands of
section 1 in one word each (`vm start` is `start`, `boot eject-iso` is `eject-iso`,
`workflow down --force` is `down-force`). `TriesMedia` says when a boot order comes to an
attached medium, before the disk or after it; where it does, `Boots` lets any boot,
of `vm start`, `vm reboot` or the guest itself, start the installer over. `tornDown`
remembers whether a command that deletes machines has begun, `rearmed` whether one that
goes back to a snapshot or to the installer has; `SetUpByMaker` and `InstalledStays` are
about the time before.

**Trace** is the file in pieces (a line is head, rest and newline, the least
that tells apart a torn line, a line that lost only its newline, and a whole
one), the bufio buffer that spills at any piece, `prevHash`, and how much of the
file would survive a power loss. `Open` is `NewWriter` with `readLastRecord` and its
dropped error, `All` and `VerifyChain` are the reader's; `Reading` is what the reader
has after each piece.

**Replay** walks any trace of bounded length with an executor that may answer
anything; `EqualNormalized` includes what `json.Unmarshal` does to numbers. `Numbers`
are points of a decimal grid, fractions as well as integers, and `Floats` those of them
that are float64s: `Float` rounds to the nearest, on a tie to the even one, and from
`Overflow` on `Decodes` fails and the bytes are compared. A document stands for one of the
numbers in it. Member names that occur twice, of which `json.Unmarshal` keeps the last, are
left out, and so are negative numbers.

**Config** is `Load`: profile, `$ref` slots with the `seen` set, the walk over
placeholders, and of the validation the one rule that looks at expanded values;
the rules across the manifest are in Validators.
`Stages` is the order of `walkStrings`; the parts of a stage are the entries of a
Go map, in any order. Placeholders are spelled as the code parses them. The reference
definition knows no order: `Meaning` follows a field's references as often as there are
fields (`Followed`, from what each field stands for by itself, `Leaves`). `GoesBack`
and `Ends` say where chains lead through sets of fields that no reference leaves. A
`badref` is a `${ref:}` whose path `resolveRefPath` does not find; a default does not cover it.

**Validators** is `Validate` on one manifest. Each rule is a loop over the nodes
that takes any of those left (`Turn`) and ends at the first violation; `vmIDs`, `macs`,
`ipByZone` and `tags` are the maps it fills. `Breaks` says of each rule what it means
without any order. `PlacedOn` is `resolveStorage` of `buildCreateOpts`, which
relies on what has passed; `Form` is what `CreateVM` sends of a node's disks, one field
per interface, so that of two disks on one interface the later one is there. A MAC is a
text, as it is to the code.

**IsoFiles** is every command that builds an ISO. A worker is a process, or one
goroutine of `up`; it builds at `proxctl-<host>.iso` in the temp directory (`Built`),
moves the file by rename or, across devices, by copy (`Result`), uploads it and
removes it. What a file holds is the set of workers whose kickstart is in it and
of those the ones that have not finished, so that an overwritten, an appended
and a torn file are told apart. A removal whose error the code drops may leave the
file (`AfterRemoval`). iso_builder.go:112 drops the error of removing a stale output
too; there it is modelled as a failed build, since what cannot be removed is another
user's file in a directory like /tmp, which the ISO tool cannot write either. `Fails` and
`Kill` may come at any step, and an
upload given up may still arrive (`LateStore`). Nothing in the code keeps two
processes from building nodes of one name at once; `disturbed` is the set of those
that met, and the properties are about the others.

Operators whose comment begins with "Mutant:" are variants of the definition below
them with a plausible bug; `PROJECT.json` pairs each with the property that must catch it.

## 3. What the runs show

Runs that must pass:

| Run | Properties | What it shows |
|---|---|---|
| `MultiNodeTwo` | `TypeOK`, `TokensAreHeld`, `UploadsSerialized`, `RootCauseReported`, `NothingLeftRunning`, `InstallerUndisturbed`, `OkMeansComplete`, `ApplyErrorsComplete`, `FinalizeErrorsComplete`, `OthersUntouched`, `NothingNewAfterCancel`, `KeepsPromise`, `UpTerminates` | two nodes, all combinations of the flags, one token or two, the second node with an address or without, one kickstart volume uploaded beforehand and one not, so `verify-kickstart-iso` both passes and fails |
| `PveTask` | `TypeOK`, `KeepsContract`, `CancelEndsCalls` | two calls under one context, tasks that end without an exit status included |
| `CommandsAll` | `TypeOK`, `GoalReached`, `InstalledStays` | any three of the sixteen commands on one machine |
| `CommandsTwo` | `GoalReached`, `SetUpByMaker` | two commands, of one operator or of two at once, on two machines |
| `Trace` | `TypeOK`, `ChainNeverBroken`, `PromisesKept`, `SyncedIsDurable`, `SyncedStaysReadable` | four records |
| `Replay` | `TypeOK`, `OnlyWhatRan`, `VerdictIsRight`, `StrictIsExact` | all traces of two records, all modes |
| `Config` | `TypeOK`, `ExpandsToMeaning`, `MissingIsReported` | all manifests with two placeholders of the five kinds, and of references to a key that is not there |
| `IsoFiles` | `TypeOK`, `UploadsOwn`, `NodeByNode` | two jobs of any kind over two node names, one after the other or at once |
| `Validators` | `TypeOK`, `VerdictIsRight`, `ValidatedIsBuildable` | manifests of two nodes: one family varies all that the rules on NICs look at, the other usages, disks and their interfaces, tags, VMIDs and the cluster |

Runs that must find a violation, each of a statement the repository makes of
itself; `findings` in `PROJECT.json` quotes it:

| Run | What the code does instead |
|---|---|
| `DocAttachedIso` | uploads `proxctl-<node>.iso` and attaches `<node>_kickstart.iso` |
| `DocReopen` | a writer opened on a torn line glues its first record to it: nothing written since can be loaded |
| `DocRefOrder` | a `${ref:}` to a field not yet walked gives its placeholder; between nodes Go's map order decides, so that one manifest may load now and fail later |

`OkMeansComplete` and `GoalReached` are about machines. That the local ISO is gone after
`up` returns nil is no property: the code drops the error of removing it, and
`NodeByNode` has both outcomes.

`InstalledStays` begins where Finalize has ended, and not earlier. The repository's
own account (CHANGELOG.md:74-81 and 436-448, single_vm.go:322-324) is that the install
order `scsi0;ide3;ide2` falls through and reinstalls; so, until the media are ejected, a
guest that reboots may lose what was installed. It asks for an undisturbed command,
which nobody runs beside: another operator's `up` that has passed its check
may attach the media to a machine that this operator's `finalize` has just completed.
It ends where a command begins that deletes machines (`tornDown`), rolls back to a
snapshot or asks for a first boot (`rearmed`): those are there to undo an installation,
and after a deletion the late requests of a killed `up` may arm the next machine of that
VMID.

Other places where the code and its documentation part, met while modelling and
followed by the modules as the code has them, without a run of their own:

* A failed `up` unwinds nothing and `Rollback` has no caller; user-guide.md:326-328
  says the stack is unwound automatically.
* `up` on a machine it has completed is refused; workflow.go:154 calls it idempotent
  (user-guide.md:215-216).
* `vm create` boots the machine, user-guide.md:190 says it does not; without
  `--skip-kickstart-build` it always fails, for it sets no Builder.
* `boot configure-first-boot` puts the ISO first, so every boot enters the installer
  until the ISO is ejected; user-guide.md:238-239 says later boots fall through.
* Workflow commands on a manifest of one node need `--node`; user-guide.md:291 and
  quick-start.md:93 do without.
* An observe replay returns nil after a failed execution, against
  replay.go:20-21. In a strict one all numbers that a float64 can reach are compared as
  float64s: integers beyond 2^53, further apart the larger they are, but also 0.1 and
  0.10000000000000001. A document with a number out of range is compared by its bytes.
* `${env:X | default=v}` (config-reference.md:409-412) is an error even where X is set:
  the code knows `default:v`, and the space becomes part of the name. The path in
  `${ref:spec.hypervisor.nodes...}` (line 402) is an error, since the value sits one
  level deeper, and `${gen:password,length=32}` (line 401) is the empty string.
* Two `$ref`s to one file are "circular".
* config-reference.md:444-451 lists as checked that `ips` are unique across nodes and
  that a RAC stack has two nodes, a shared disk and an `interconnect_subnet`;
  validators.go checks none of these. Of linux.yaml's tags only those in
  disk_layout.additional are looked for, config-reference.md:357-358 says every one.
* MACs are compared as text, so that one in upper and in lower case passes for two;
  validators.go:96 has them unique.
* `WaitForTask` returns nil for a stopped task whose exit status is empty; its comment,
  client.go:360-361, promises nil for "OK" only.
* Two disks of a node may have one interface, both naming it or one taking it by
  its position; `create-vm` keeps the later disk and loses the other without a word.
* single_vm.go:398-401 takes the fallback to local-lvm for unreachable after a
  validation; a disk with neither `storage` nor `storage_class` passes and gets there.
* config-reference.md:228 has a shared disk "created once, attached many"; each
  node's `create-vm` allocates a disk of its own and marks it shared.
* client.go:121-122 asks ssh to "fail fast if port is taken", but `NewClient` never looks
  whether it did and goes on after five seconds with a port nobody, or somebody else,
  listens on. client.go:189 has the tunnel end with the process; nothing ends the ssh
  child, which outlives it.

Bounds, and why they are enough for what the runs ask:

* Nodes (`N = 2`) and tokens (`maxConc` 1 or 2). Every property relates at most two
  goroutines and what they share; with one token there is a holder and one that
  waits, with two the same for the mutex. The theorems remove the bound for all of
  them but `UpTerminates`.
* `MaxCommands`, for all operators together. With three on one machine: one that
  leaves debris, one that runs on it, and a third that meets late requests or the
  snapshot of the first. With two on two machines: two creators at once, and a
  loop over the nodes in which one is as a command left it and the other is not. The
  theorems remove this bound and the one on nodes.
* `MaxRecords = 4`. A torn record, the reopened writer's first, and two more to tell
  a chain that starts anew from one that goes on.
* `MaxLen = 2`, `Numbers`, `Floats`, `Even`, `Overflow`. Whether Replay goes on after a
  record is decided by that record; the numbers are floats, numbers between two floats of
  either parity, nearer to one or half way, and one out of range. The theorems are for
  every such sets.
* `MaxPlaceholders`, `NSlots`. The walk looks at one reference at a time; two
  placeholders give a reference to every other kind and a chain of two references.
  One text per field; two slots are enough to name one file twice. The theorems
  remove these bounds, but are about the same six fields, which stand for what the walk
  does with a string: in a struct, in a map of strings, and in a map of structs.
* `Workers`, `Names` in IsoFiles. Two workers: one whose debris the other finds, or two
  that meet. Two names: a node that is done and one that is not begun. Both sets are
  symmetric. The theorems remove the bounds.
* Manifests in Validators: two nodes of at most two NICs and two disks, since every
  rule and every clash of interfaces relates two of them or one and the catalogue. The
  theorems remove the bound.

Deadlock is checked in every run: where the program may stop, the module has a
stuttering disjunct for that state only, such as `Terminated`, `Stopped` or `Loaded`.

## 4. Fairness

`UpTerminates` assumes weak fairness of the main goroutine and of each worker,
which is the Go scheduler's, with no strong fairness for the semaphore or the
mutex: each is only ever waited for while a holder can go on. A call ends
because the HTTP client has a 30 s timeout (`client.go`, `NewClient`) and because
the hypervisor's tasks stop. The second is an assumption about the hypervisor:
`WaitForTask` has no deadline and the commands pass `context.Background()`. Nothing
is assumed of guests, of which `waitForSSHUp`'s deadline makes `Up` independent.
`CancelEndsCalls` assumes the client's own steps only. It says what a cancelled
context guarantees even when a task never stops.

## 5. What is proved

**MultiNode**, for every number of nodes, every set of runs (flags, capacity of the
semaphore, addressed nodes) and every set of uploaded volumes, which is what its
three named assumptions say. Three invariants, each resting on the one before.

The goroutines: `TypeCorrect`, `TokensHeld`, `UploadsAreSerialized`, `RootCause`,
`NothingLeft`, `NothingNew`, from
`IInv == TypeOK /\ PhaseInv /\ CallInv /\ UploadsSerialized /\ ErrInv /\ TokensAreHeld`.

* `PhaseInv` says which positions of goroutines each phase of the main goroutine
  allows. Without it the join could not know that nobody is left, nor a step of
  `Finalize` that no worker runs beside it.
* `CallInv` says that a call in flight belongs to the first step of a goroutine
  that has not failed; an answer is then one to the step it completes, which
  typing, the mutex and the token count all need.
* `ErrInv` is `RootCauseReported` strengthened by what a cancellation needs to have
  been seen: a node fails with "cancelled" only after `firstErr` was recorded.
* `TokensAreHeld` equates a counter with a cardinality. Its proof is about
  `Holders`: each step leaves the set alone, adds its own node or removes it, and
  the library's theorems about `Cardinality` of finite sets do the rest.

`NothingLeft` then needs no induction: it follows from the invariant at a returned
state. `NothingNew`, an action property, follows from it step by step.

The machines: `Undisturbed`, `ApplyComplete`, `FinalizeComplete`, `OkComplete`,
`OthersLeftAlone`, from `TrackInv`, which ties the goroutines to the machines. The
steps a node has left, counted from the end of its list, name a stage; a machine
whose node has not failed is at that stage exactly, and one whose node has failed is
at some stage with at most one request left behind, the one that leads on from it
(`StepsInv`, `MachineInv`). `OutcomeInv` and `MainInv` relate what each Apply returned, the
collected errors and the phase; `SignalInv` says that a failed goroutine of a
fail-fast run has told the errgroup. Without the part on requests left behind, the
invariant breaks when one of them takes effect.

The refinement: `PromiseKept`, that MultiNode implements Provision. With
`LateInv` (a request of Finalize is left behind only in a run that finalizes) every
action maps to one step of one machine's stage, to the return of `Up`, or to a
stutter.

**PveTask**, for every set of calls: `TypeCorrect`, and `ContractKept`, that PveTask
implements PveCall. The invariant relates the client's position, the request and
the task, so that the client sees a stopped task with exit status OK only after
its effect, and one without an exit status as ended untold; then every step maps to a step
of PveCall or to a stutter.

**Commands**, for every number of operators and nodes, every set of commands and any
number of them: `TypeCorrect`, `ReachesGoal`, `OnlyItsMaker`, `NeverReinstalled`.
`IInv` says of each running command that what it has left to do is an end of its program (`RestOf`), on
nodes it has not been at yet, and that an answer it waits for is one to its next step.
On it rest three further invariants, one per theorem:

* `QuietInv`, for `ReachesGoal`: a command that nothing disturbs is alone, the requests
  left behind cannot spoil its goal (`Harmless`), the nodes it is done with are where it
  wants them, and the current one is as far as the steps left say (`Progress`).
  `Harmless` has cases because a command that fails on one node goes on to the next while
  its request may still be carried out, and because `down` ignores what became of its
  StopVM and deletes the machine all the same.
* `MakerInv`, for `OnlyItsMaker`: as long as nobody tears machines down, the machine
  of an `up` past create-vm is its own.
* `Settled`, for `NeverReinstalled`: a machine that was completed is installed and boots
  from its disk, and no command past its check and no late request is left that could
  change that. `QuietInv` gives it at the moment of completion: an undisturbed
  command leaves only `Harmless` requests behind.

**Trace**, for every number of records: `TypeCorrect`, `Durable`, `ChainVerified`,
`PromiseKept` and `SyncedReadable`. `Durability` follows a record's line: a synced one
lies whole within the durable part of the file, a flushed one within the file, a buffered
one within file and buffer together as long as the writer has not failed. Spills, flushes
and cuts behind a line leave it where it is. That the hash a reopened writer resumes is
one of a written record needs the last newline of a file to exist, which is the
minimum of a well-founded order.

What a reader makes of a file is a recursive function of it, `Reading`. The library's
induction theorems cannot be used for such a function here, but induction over a set can
(`Induct`, from the well-foundedness of the naturals): the set is that of the lengths
up to which two files are read alike, or up to which a file reads as a chain. `StreamInv`
is about what has been written, in the file or still in the buffer: no part of a record is in it
twice and every beginning of it reads as a chain (`Stream`), the open writer resumes its
last record (`Resumed`), and as long as nothing was written onto a torn line every
line that has ended parses (`Clean`). A crash, a power loss or a failed flush cuts a
stream short, and a stream cut short is one. `SyncedReadable`, an action property, needs
besides only that no step changes the durable part of the file: a record is read from
what precedes the end of its line.

**Config**, for every set of placeholder kinds and filters, any number of placeholders
and slots: `TypeCorrect`, `MeaningGiven`, `MissingReported`. A field is `Fresh` until
the walk has come to its part. `MeansInv` says that a fresh field holds what was
written and, as long as there is no error, any other field whose references go back holds
its meaning. The second half alone is not inductive: to expand a field one must know
what it holds and that the field it names has been walked. `TodoInv` gives the latter,
relating what is left of the walk to the number of the stage (`Pos`); that the second walk
over an inline hypervisor changes nothing is a case of its own. `MissInv` says that a
placeholder without a source is fresh or reported, and is needed because a reference may
have copied it before it was met. `MeaningIs` turns `Meaning`, which follows references
six times, into one equation between a field and the one it names: where references
only go back the fourth time already changes nothing (`Settled`, by the same kind
of induction as for Trace). `TextInv` bounds how often a text can have been encoded by
the number of parts walked (`Encoded`), for `TypeCorrect`.

**Replay**, for traces of every length: `TypeCorrect`, `OnlyRan`, `RightVerdict`,
`ExactWhenStrict`. `CursorInv` says that exactly the records passed which were to be
executed have an answer; `StrictInv`, that in a strict replay only the last answer
can be wrong, and ends it. The rest is about rounding: between two numbers with one
nearest float there is no second float.

**IsoFiles**, for any workers and node names: `TypeCorrect`, `UploadsAreOwn`,
`CutsCostOneNode`, whichever removals fail. `Kept` says what an undisturbed worker finds
at its paths at each of
its steps; it survives the steps of others because their kickstarts are under names of
their own nodes only (`Marks`) and a worker that shares a node with an active one is
disturbed (`Meets`).

**Validators**, for every set of manifests, any number of nodes, NICs and disks:
`TypeCorrect`, `RightVerdict`, `Buildable`. `MapInv` says that the maps hold what the
visited nodes have, without a repetition, and `LoopInv` that no visited node breaks the
rule; `VerdictInv` then equates the errors with the broken rules, which needs no
order. `LastStays` is about the form: the disk that stays on an interface is the last.

Only model-checked: `UpTerminates` and `CancelEndsCalls`, for liveness under fairness
is out of the prover's reach. The runs that must find a violation show a statement of
the repository to be false on one instance, which is all there is to show.

## 6. What is left out

* `pkg/state` and `pkg/license` do nothing, and nothing calls them. `stack`, `env`,
  `license` and `version` print or return not implemented.
* `Rollback`, of both workflows: no command calls it.
* The SSH tunnel of `NewClient`: the port and the child are the kernel's, and the code
  does not look at what became of either.
* The registry's migration in `root.go`: one rename whose failure is only logged.
* Text: templates, form encoding, error messages, what is extracted and patched inside
  an ISO. `isNotFound`, which takes any message with "does not exist" for an absent
  VM, is listed as a hazard.
* The manifests have an `iso.image`, so a created machine has ide2; node names are
  distinct, as the keys of a map are.
* One kickstart and one install volume per node, one snapshot per machine.
* The SSH probe is one answer at any time after the guest is installed.
* In MultiNode the install loop: `GuestInstalls` is the installer that finished and a
  guest that came up, however often it started over before, and from the answer on SSH
  to the ejects the guest is taken not to reboot. Commands has the reboots.
* In MultiNode and Commands, tasks that end without an exit status.
* In Config one description stands for all a profile may give. In Validators the
  struct tags are one check that passes or fails.

## 7. Plan

What is left, in order:

1. That Commands' `up` implements Provision as MultiNode does, for the commands of one
   operator: `RestOf` and `Progress` say in which state a machine is, as `TrackInv` does.
2. `Rollback`, on the states a failed `Up` leaves, once a command calls it.
3. `Tunnel`, once `NewClient` looks at what became of the child: the port it releases
   before `ssh` binds it, and who may listen there.
4. Record sizes in Trace, for the limit of the reader's scanner.
