------------------------------ MODULE Commands ------------------------------
(***************************************************************************)
(* Sequences of proxctl commands (src/internal/root) on the machines of    *)
(* one manifest, by one operator or several at once.  A command is one     *)
(* process: it may be killed between any two of its steps, and what it has *)
(* sent by then the hypervisor may still carry out, during a later command. *)
(*                                                                         *)
(* `up` is here the single-node one, `workflow up --node n`, and `create`   *)
(* is `vm create n`, both with --skip-kickstart-build; `create-build`       *)
(* is `vm create n` without it.  Module MultiNode has the `up` of a stack.  *)
(***************************************************************************)
EXTENDS Pve, FiniteSets, SequencesExt

CONSTANTS Ops,          \* the operators, or shells
          N,            \* number of nodes in the manifest
          Verbs,        \* the commands they use
          MaxCommands   \* bound on the commands of all operators together

Nodes == 1 .. N

Workflow  == {"up", "create", "create-build", "finalize", "down", "down-force"}
PowerVerbs == {"start", "stop", "stop-force", "reboot", "delete"}
Media     == {"configure-first-boot", "eject-iso"}
TearDown  == {"down", "down-force", "delete"}
Rearming  == {"snapshot-restore", "configure-first-boot"}
Snapshots == {"snapshot-create", "snapshot-restore", "snapshot-delete"}

AllVerbs == Workflow \cup PowerVerbs \cup Media \cup Snapshots

ASSUME CommandsAssumption ==
    N \in Nat /\ MaxCommands \in Nat /\ Verbs \subseteq AllVerbs

Check    == {"check-free", "check-exists"}
BootPut  == {"put-first-boot", "put-empty-ide3"}
SnapPost == {"snapshot", "rollback", "delete-snapshot"}
Sent     == Request \cup BootPut \cup SnapPost \cup {"reboot-vm"}

Idle == "idle"

VARIABLES
    job,     \* each operator's running command: the nodes it was given, those
             \* it still has to do, the current one first, and the steps left
             \* on that one
    call,    \* its request in flight
    last,    \* its last command that returned, and what it returned
    errs,    \* nodes whose errors the command has collected
    quiet,   \* nothing else touches the machines while the command runs
    left,    \* how many commands may still be run
    tornDown,\* a command that deletes machines has begun
    rearmed, \* one that goes back to a snapshot or to the installer has begun
    late,    \* requests whose sender is gone or does not wait
    vm, snap,\* the hypervisor: each node's machine and its snapshot
    maker    \* who created the machine

client == <<job, call, last, errs, quiet, left, tornDown, rearmed>>
server == <<vm, snap, maker>>
vars   == <<client, late, server>>

NoJob == [verb |-> Idle, given |-> {}, nodes |-> <<>>, todo |-> <<>>]
NoRun == [verb |-> Idle, given |-> {}, result |-> "none"]
Nobody == "nobody"

TypeOK ==
    /\ \A p \in Ops : /\ job[p].verb \in Verbs \cup {Idle}
                      /\ job[p].nodes \in BoundedSeq(Nodes, N)
                      /\ \A i \in DOMAIN job[p].todo :
                             job[p].todo[i] \in Sent \cup Check \cup Step
                      /\ job[p].verb = Idle <=> job[p].nodes = <<>>
    /\ call \in [Ops -> {"none", "sent", "carried-out"}]
    /\ \A p \in Ops :
           /\ last[p].result \in {"none", "ok", "error", "exists", "usage", "killed", "no-builder"}
           /\ errs[p] \subseteq job[p].given \cup last[p].given
    /\ errs \in [Ops -> SUBSET Nodes]
    /\ quiet \in [Ops -> BOOLEAN]
    /\ left \in 0 .. MaxCommands
    /\ tornDown \in BOOLEAN
    /\ rearmed \in BOOLEAN
    /\ late \subseteq Nodes \X Sent \X Ops
    /\ vm \in [Nodes -> VM]
    /\ snap \in [Nodes -> VM]
    /\ maker \in [Nodes -> Ops \cup {Nobody}]

Init ==
    /\ job = [p \in Ops |-> NoJob]
    /\ call = [p \in Ops |-> "none"]
    /\ last = [p \in Ops |-> NoRun]
    /\ errs = [p \in Ops |-> {}]
    /\ quiet = [p \in Ops |-> FALSE]
    /\ left = MaxCommands
    /\ tornDown = FALSE
    /\ rearmed = FALSE
    /\ late = {}
    /\ vm = [n \in Nodes |-> NoVM]
    /\ snap = [n \in Nodes |-> NoVM]
    /\ maker = [n \in Nodes |-> Nobody]

-----------------------------------------------------------------------------
(* The commands.                                                           *)

(* --skip-kickstart-build: the kickstart ISO was uploaded beforehand.       *)
Preloaded == [continueOnError |-> FALSE, skipKickstart |-> TRUE,
              kickstartStorage |-> TRUE, skipFinalize |-> FALSE, dryRun |-> FALSE]

FromScratch == [Preloaded EXCEPT !.skipKickstart = FALSE]

(* What a command does on one node.  Down is VMExists, StopVM, DeleteVM.   *)
WorkflowSteps(verb) ==
    CASE verb = "finalize"     -> FinalizeSteps
      [] verb = "down"         -> <<"check-exists", "shutdown-vm", "delete-vm">>
      [] verb = "down-force" -> <<"check-exists", "stop-vm", "delete-vm">>
      [] verb = "create-build" ->
             <<"check-free">> \o ApplySteps(FromScratch) \o FinalizeSteps
      [] OTHER -> <<"check-free">> \o ApplySteps(Preloaded) \o FinalizeSteps

PowerRequest(verb) ==
    CASE verb = "start"        -> "start-vm"
      [] verb = "stop"         -> "shutdown-vm"
      [] verb = "stop-force" -> "stop-vm"
      [] verb = "reboot"       -> "reboot-vm"
      [] verb = "delete"       -> "delete-vm"

MediaRequest(verb) ==
    IF verb = "eject-iso" THEN "put-empty-ide3" ELSE "put-first-boot"

SnapshotRequest(verb) ==
    CASE verb = "snapshot-create"  -> "snapshot"
      [] verb = "snapshot-restore" -> "rollback"
      [] verb = "snapshot-delete"  -> "delete-snapshot"

Program(verb) ==
    CASE verb \in Workflow   -> WorkflowSteps(verb)
      [] verb \in PowerVerbs -> <<PowerRequest(verb)>>
      [] verb \in Media      -> <<MediaRequest(verb)>>
      [] verb \in Snapshots  -> <<SnapshotRequest(verb)>>

InOrder  == [i \in 1 .. N |-> i]

(* The nodes a command works on: the one it names, or without --node every  *)
(* node, `down` in reverse order.                                          *)
Targets(verb) ==
    {<<n>> : n \in Nodes} \cup
    (CASE N > 1 /\ verb = "finalize" -> {InOrder}
       [] N > 1 /\ verb \in {"down", "down-force"} -> {Reverse(InOrder)}
       [] OTHER -> {})

Begin(p, verb, nodes) ==
    /\ job[p] = NoJob
    /\ left > 0
    /\ left' = left - 1
    /\ tornDown' = (tornDown \/ verb \in TearDown)
    /\ rearmed' = (rearmed \/ verb \in Rearming)
    /\ job' = [job EXCEPT ![p] = [verb |-> verb, given |-> ToSet(nodes),
                                   nodes |-> nodes, todo |-> Program(verb)]]
    /\ errs' = [errs EXCEPT ![p] = {}]
    /\ quiet' = [q \in Ops |-> /\ q = p
                               /\ late = {}
                               /\ \A o \in Ops \ {p} : job[o] = NoJob]
    /\ UNCHANGED <<call, last, late, server>>

Run(p) == \E verb \in Verbs : \E nodes \in Targets(verb) : Begin(p, verb, nodes)

(* The command returned result r.                                          *)
Returns(p, verb, given, r) ==
    last' = [last EXCEPT ![p] = [verb |-> verb, given |-> given, result |-> r]]

(* Mutant: it leaves the errors of the command before.                      *)
NeedsNodeKeepsErrs(p) ==
    /\ N = 1
    /\ job[p] = NoJob
    /\ left > 0
    /\ left' = left - 1
    /\ \E verb \in (Verbs \cap Workflow) \ {"create", "create-build"} :
           Returns(p, verb, {}, "usage")
    /\ UNCHANGED <<job, call, errs, quiet, tornDown, rearmed, late, server>>

(* A workflow command without --node on a manifest of one node.            *)
NeedsNode(p) ==
    /\ N = 1
    /\ job[p] = NoJob
    /\ left > 0
    /\ left' = left - 1
    /\ \E verb \in (Verbs \cap Workflow) \ {"create", "create-build"} :
           Returns(p, verb, {}, "usage")
    /\ errs' = [errs EXCEPT ![p] = {}]
    /\ UNCHANGED <<job, call, quiet, tornDown, rearmed, late, server>>

At(p, s) == job[p].todo # <<>> /\ Head(job[p].todo) = s
Node(p)  == Head(job[p].nodes)

StepDone(p) == job' = [job EXCEPT ![p].todo = Tail(@)]

(* Mutant: an early return from the loop over the nodes, without an error.  *)
NodeDoneStops(p, result) ==
    /\ errs' = IF result = "ok" THEN errs ELSE [errs EXCEPT ![p] = @ \cup {Node(p)}]
    /\ job' = [job EXCEPT ![p] = NoJob]
    /\ Returns(p, job[p].verb, job[p].given, IF errs'[p] = {} THEN "ok" ELSE "error")

(* The command is done with the current node, with an error or without: the *)
(* loop of Down or Finalize goes on to the next, or the command returns.   *)
NodeDone(p, result) ==
    LET bad == IF result = "ok" THEN errs[p] ELSE errs[p] \cup {Node(p)} IN
    /\ errs' = [errs EXCEPT ![p] = bad]
    /\ IF Len(job[p].nodes) > 1
       THEN /\ job' = [job EXCEPT ![p].nodes = Tail(@),
                                  ![p].todo = Program(job[p].verb)]
            /\ last' = last
       ELSE /\ job' = [job EXCEPT ![p] = NoJob]
            /\ Returns(p, job[p].verb, job[p].given,
                       IF bad = {} THEN "ok"
                       ELSE IF result = "ok" THEN "error" ELSE result)

(* Mutant: every step's error is ignored, as StopVM's is.                   *)
StepFailedIgnored(p) ==
    IF job[p].verb \in {"down", "down-force"}
    THEN StepDone(p) /\ UNCHANGED <<last, errs>>
    ELSE NodeDone(p, "error")

(* A step failed.  Down ignores the error of StopVM and goes on to delete.  *)
StepFailed(p) ==
    IF job[p].verb \in {"down", "down-force"} /\ Head(job[p].todo) # "delete-vm"
         /\ Head(job[p].todo) # "check-exists"
    THEN StepDone(p) /\ UNCHANGED <<last, errs>>
    ELSE NodeDone(p, "error")

NodeReturns(p) ==
    /\ job[p] # NoJob
    /\ job[p].todo = <<>>
    /\ NodeDone(p, "ok")
    /\ UNCHANGED <<call, quiet, left, tornDown, rearmed, late, server>>

-----------------------------------------------------------------------------
(* The checks: VMExists, before anything is sent.                          *)

(* Mutant: an `up` that finds a machine goes on setting it up.              *)
CheckFreeResumes(p) ==
    /\ At(p, "check-free")
    /\ job' = [job EXCEPT ![p].todo =
                  IF Exists(vm[Node(p)])
                  THEN SelectSeq(Tail(@), LAMBDA s : s # "create-vm") ELSE Tail(@)]
    /\ UNCHANGED <<last, errs>>
    /\ UNCHANGED <<call, quiet, left, tornDown, rearmed, late, server>>

CheckFree(p) ==
    /\ At(p, "check-free")
    /\ IF Exists(vm[Node(p)])
       THEN NodeDone(p, "exists")
       ELSE StepDone(p) /\ UNCHANGED <<last, errs>>
    /\ UNCHANGED <<call, quiet, left, tornDown, rearmed, late, server>>

(* Down of a machine that is not there has nothing to do.                  *)
CheckExists(p) ==
    /\ At(p, "check-exists")
    /\ IF Exists(vm[Node(p)])
       THEN StepDone(p) /\ UNCHANGED <<last, errs>>
       ELSE NodeDone(p, "ok")
    /\ UNCHANGED <<call, quiet, left, tornDown, rearmed, late, server>>

CheckFails(p) ==
    /\ At(p, "check-free") \/ At(p, "check-exists")
    /\ StepFailed(p)
    /\ UNCHANGED <<call, quiet, left, tornDown, rearmed, late, server>>

Render(p) ==
    /\ At(p, "render-kickstart")
    /\ \/ StepDone(p) /\ UNCHANGED <<last, errs>>
       \/ NodeDone(p, "error")
    /\ UNCHANGED <<call, quiet, left, tornDown, rearmed, late, server>>

(* `vm create` gives its workflow no Builder.                              *)
BuildFails(p) ==
    /\ At(p, "build-iso")
    /\ NodeDone(p, "no-builder")
    /\ UNCHANGED <<call, quiet, left, tornDown, rearmed, late, server>>

-----------------------------------------------------------------------------
(* Requests.                                                               *)

Send(p) ==
    /\ \E req \in Sent : At(p, req)
    /\ call[p] = "none"
    /\ call' = [call EXCEPT ![p] = "sent"]
    /\ UNCHANGED <<job, last, errs, quiet, left, tornDown, rearmed, late, server>>

(* The boot order comes to a medium that is attached, before the disk or   *)
(* after it; the order a machine is created with ends in ide2.             *)
TriesMedia(v) ==
    \/ v.boot \in {"iso-first", "install"} /\ v.ide3
    \/ v.boot \in {"default", "install"} /\ v.ide2

(* Power on, or again: the guest comes up from its disk, or the firmware   *)
(* falls through to the installer and that starts over.                    *)
Boots(v) ==
    {w \in {Power(v, TRUE), [Power(v, TRUE) EXCEPT !.disk = "blank"]} :
        w.disk = v.disk \/ TriesMedia(v)}

Takes(req, n) ==
    CASE req = "reboot-vm" -> Exists(vm[n]) /\ vm[n].on
      [] req \in {"rollback", "delete-snapshot"} -> Exists(snap[n])
      [] OTHER -> Accepts(req, vm[n], {AttachedAs})

(* What the machine may be after a request, those that this module adds to *)
(* module Pve's included.                                                  *)
After(req, n) ==
    CASE req \in {"start-vm", "reboot-vm"} -> Boots(vm[n])
      [] req = "put-first-boot" -> {BootFrom(WithKickstart(vm[n]), "iso-first")}
      [] req = "put-empty-ide3" -> {Ejected(vm[n], "ide3")}
      [] req = "rollback"       -> {Power(snap[n], FALSE)}
      [] OTHER                  -> {Effect(req, vm[n])}

(* The hypervisor carries out request req of operator p on node n.         *)
CarryOut(req, n, p) ==
    /\ Takes(req, n)
    /\ \E v \in After(req, n) : vm' = [vm EXCEPT ![n] = v]
    /\ snap' = [snap EXCEPT ![n] =
          CASE req = "snapshot" -> vm[n]
            [] req \in {"delete-snapshot", "delete-vm"} -> NoVM
            [] OTHER -> @]
    /\ maker' = [maker EXCEPT ![n] =
          CASE req = "create-vm" -> p
            [] req = "delete-vm" -> Nobody
            [] OTHER -> @]

Serve(p) ==
    /\ call[p] = "sent"
    /\ Head(job[p].todo) \notin SnapPost
    /\ CarryOut(Head(job[p].todo), Node(p), p)
    /\ call' = [call EXCEPT ![p] = "carried-out"]
    /\ UNCHANGED <<job, last, errs, quiet, left, tornDown, rearmed, late>>

Reply(p) ==
    /\ call[p] = "carried-out"
    /\ call' = [call EXCEPT ![p] = "none"]
    /\ StepDone(p)
    /\ UNCHANGED <<last, errs, quiet, left, tornDown, rearmed, late, server>>

(* The snapshot commands throw the task's UPID away and do not wait for it: *)
(* they return while the hypervisor is at work.                            *)
ReplyUnawaited(p) ==
    /\ call[p] = "sent"
    /\ Head(job[p].todo) \in SnapPost
    /\ Takes(Head(job[p].todo), Node(p))
    /\ late' = late \cup {<<Node(p), Head(job[p].todo), p>>}
    /\ call' = [call EXCEPT ![p] = "none"]
    /\ StepDone(p)
    /\ UNCHANGED <<last, errs, quiet, left, tornDown, rearmed, server>>

(* Mutant: create-vm adopts the machine it finds.                           *)
RejectedAdopts(p) ==
    /\ call[p] = "sent"
    /\ call' = [call EXCEPT ![p] = "none"]
    /\ IF At(p, "create-vm") /\ Exists(vm[Node(p)])
       THEN StepDone(p) /\ UNCHANGED <<last, errs>> ELSE StepFailed(p)
    /\ UNCHANGED <<quiet, left, tornDown, rearmed, late, server>>

Rejected(p) ==
    /\ call[p] = "sent"
    /\ call' = [call EXCEPT ![p] = "none"]
    /\ StepFailed(p)
    /\ UNCHANGED <<quiet, left, tornDown, rearmed, late, server>>

Behind(p) ==
    IF call[p] = "sent" THEN {<<Node(p), Head(job[p].todo), p>>} ELSE {}

(* A timeout or a lost connection: the command fails, its request may not. *)
GiveUp(p) ==
    /\ call[p] # "none"
    /\ late' = late \cup Behind(p)
    /\ call' = [call EXCEPT ![p] = "none"]
    /\ StepFailed(p)
    /\ UNCHANGED <<quiet, left, tornDown, rearmed, server>>

(* Ctrl-C, or the shell dies.                                              *)
Kill(p) ==
    /\ job[p] # NoJob
    /\ late' = late \cup Behind(p)
    /\ call' = [call EXCEPT ![p] = "none"]
    /\ job' = [job EXCEPT ![p] = NoJob]
    /\ Returns(p, job[p].verb, job[p].given, "killed")
    /\ UNCHANGED <<errs, quiet, left, tornDown, rearmed, server>>

LateEffect ==
    \E r \in late :
        /\ CarryOut(r[2], r[1], r[3])
        /\ late' = late \ {r}
        /\ UNCHANGED client

SSHAnswers(p) ==
    /\ At(p, "wait-ssh")
    /\ SSHUp(vm[Node(p)])
    /\ StepDone(p)
    /\ UNCHANGED <<call, last, errs, quiet, left, tornDown, rearmed, late, server>>

SSHDeadline(p) ==
    /\ At(p, "wait-ssh")
    /\ NodeDone(p, "error")
    /\ UNCHANGED <<call, quiet, left, tornDown, rearmed, late, server>>

-----------------------------------------------------------------------------
(* The guest.                                                              *)

(* The installer finishes and the guest comes up; an installer that the    *)
(* next boot starts over is not finished yet.                              *)
GuestInstalls(n) ==
    /\ CanInstall(vm[n])
    /\ vm' = [vm EXCEPT ![n].disk = "installed"]
    /\ UNCHANGED <<client, late, snap, maker>>

(* A reboot of the guest into the installer: whoever counts on the machine  *)
(* at that moment is disturbed.                                            *)
GuestReboots(n) ==
    /\ SSHUp(vm[n])
    /\ \E v \in Boots(vm[n]) : v # vm[n] /\ vm' = [vm EXCEPT ![n] = v]
    /\ quiet' = [p \in Ops |-> FALSE]
    /\ UNCHANGED <<job, call, last, errs, left, tornDown, rearmed, late, snap, maker>>

Client(p) ==
    \/ Run(p) \/ NeedsNode(p) \/ NodeReturns(p)
    \/ CheckFree(p) \/ CheckExists(p) \/ CheckFails(p)
    \/ Render(p) \/ BuildFails(p)
    \/ Send(p) \/ Reply(p) \/ ReplyUnawaited(p) \/ Rejected(p) \/ GiveUp(p)
    \/ SSHAnswers(p) \/ SSHDeadline(p)

(* Every operator has run all its commands.                                *)
Stopped ==
    /\ left = 0 /\ \A p \in Ops : job[p] = NoJob
    /\ UNCHANGED vars

Next ==
    \/ Stopped
    \/ \E p \in Ops : Client(p) \/ Serve(p) \/ Kill(p)
    \/ LateEffect
    \/ \E n \in Nodes : GuestInstalls(n) \/ GuestReboots(n)

Spec == Init /\ [][Next]_vars

-----------------------------------------------------------------------------
(* What a command is run for.                                              *)
Goal(verb, v) ==
    CASE verb \in {"up", "create", "finalize"}     -> Finalized(v)
      [] verb \in {"down", "down-force", "delete"} -> ~Exists(v)
      [] verb \in {"start", "reboot"}              -> v.on
      [] verb \in {"stop", "stop-force"}         -> ~v.on
      [] verb = "configure-first-boot"             -> v.ide3 /\ v.boot = "iso-first"
      [] verb = "eject-iso"                        -> ~v.ide3
      [] OTHER                                     -> TRUE

(* A command that nothing disturbed and that returned has reached its goal *)
(* on every node it did not report an error for, whatever state earlier    *)
(* commands, killed ones too, left the machines in: `finalize` recovers an  *)
(* `up` that was cut short, `down` cleans up after anything, an ignored     *)
(* error of StopVM hides nothing, and one node's error keeps no other node  *)
(* from its goal.                                                          *)
GoalReached ==
    \A p \in Ops :
        quiet[p] /\ job[p] = NoJob /\ last[p].result \in {"ok", "error"}
        => /\ \A n \in last[p].given \ errs[p] : Goal(last[p].verb, vm[n])
           /\ (last[p].result = "ok") = (errs[p] = {})

(* Of several `up` on one VMID only the one that created the machine ever   *)
(* configures or starts it: the others fail at the check or at create-vm.   *)
(* (Where nobody tears machines down: who deletes one under a running `up`  *)
(* and creates another has it set up by both.)                             *)
SetUpByMaker ==
    ~tornDown
    => \A p \in Ops :
          job[p].verb = "up" /\ (\E req \in Request \ {"create-vm", "verify-kickstart-iso"} :
                                     At(p, req))
          => maker[Node(p)] = p

(* A node that an undisturbed `up` or `finalize` reported no error for.    *)
Completed(n) ==
    \E p \in Ops :
        /\ quiet[p] /\ job[p] = NoJob /\ last[p].result \in {"ok", "error"}
        /\ last[p].verb \in {"up", "create", "finalize"}
        /\ n \in last[p].given \ errs[p]

(* Finalize closes the install loop for good: once it has reported a node  *)
(* done, the guest there stays installed and no boot can come to an        *)
(* installer again, whatever else is run, killed or refused, until a       *)
(* command begins that deletes machines, rolls back or asks for a first    *)
(* boot.  Before that the install order falls through to the media, so the *)
(* guarantee needs `up` to refuse the machine it finds (CHANGELOG #33, #67; *)
(* single_vm.go, Up).                                                      *)
InstalledStays ==
    \A n \in Nodes :
        [](Completed(n) =>
               [](tornDown \/ rearmed
                  \/ (vm[n].disk = "installed" /\ ~TriesMedia(vm[n]))))
=============================================================================
