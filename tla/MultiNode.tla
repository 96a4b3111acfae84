----------------------------- MODULE MultiNode -----------------------------
(***************************************************************************)
(* `proxctl workflow up` on a stack of several nodes: MultiNodeWorkflow.Up *)
(* with the SingleVMWorkflow that each of its goroutines runs.             *)
(*                                                                         *)
(* Plan and Finalize run on the main goroutine, one node after the other;  *)
(* Apply runs one goroutine per node under a semaphore, with one mutex     *)
(* around the ISO upload.  A call to the hypervisor is three steps, so     *)
(* that anything can happen between them: the client sends, the hypervisor *)
(* carries the request out, the client gets the answer.  A client that     *)
(* gives up leaves the request behind and it may still take effect.  Module *)
(* PveTask shows that pkg/proxmox keeps to this contract with a hypervisor *)
(* that says how each task ended; WaitForTask takes a task that stopped    *)
(* without an exit status for a success, which is not modelled here.       *)
(***************************************************************************)
EXTENDS Pve, Integers, FiniteSets

CONSTANTS N,          \* number of nodes in the manifest
          OptionSet,  \* the runs to consider
          Uploaded    \* nodes whose kickstart volume is in storage already

Nodes == 1 .. N       \* in the order of nodeNames, which sorts
NoNode == 0

(* The flags of one `workflow up`, the capacity of its semaphore channel,  *)
(* and the nodes whose manifest entry has an IP.                           *)
Options == [continueOnError  : BOOLEAN,
            skipKickstart    : BOOLEAN,
            kickstartStorage : BOOLEAN,
            skipFinalize     : BOOLEAN,
            dryRun           : BOOLEAN,
            maxConc          : Nat \ {0},
            addressed        : SUBSET Nodes]

ASSUME NAssumption == N \in Nat
ASSUME OptionAssumption == OptionSet \subseteq Options
ASSUME UploadedAssumption == Uploaded \subseteq Nodes

VARIABLES
    opts,      \* flags and manifest of this run, fixed at Init
    phase,     \* where the main goroutine is; "ok" and "error" once Up returned
    next,      \* cursor of the main goroutine's loop over the nodes
    pc,        \* where the goroutine of each node is
    todo,      \* the steps the node's Apply or Finalize still has to take
    outcome,   \* what the node's Apply returned
    call,      \* the node's request in flight
    late,      \* a request the client gave up on and the hypervisor still has
    sem,       \* tokens in the semaphore channel
    uploader,  \* holder of UploadMu
    firstErr,  \* node whose error errgroup kept; the context is cancelled with it
    errs,      \* nodes whose errors are collected for errors.Join
    vm, vols   \* the hypervisor: each node's machine and storage volumes

main    == <<opts, phase, next>>
workers == <<pc, todo, outcome>>
rpc     == <<call, late>>
sync    == <<sem, uploader, firstErr, errs>>
server  == <<vm, vols>>
vars    == <<main, workers, rpc, sync, server>>

TypeOK ==
    /\ opts \in OptionSet
    /\ phase \in {"plan", "apply", "verify", "finalize", "ok", "error"}
    /\ next \in 1 .. N + 1
    /\ pc \in [Nodes -> {"wait", "run", "unwind", "signal", "done", "finalize"}]
    /\ todo \in [Nodes -> Seq(Step)]
    /\ outcome \in [Nodes -> {"none", "ok", "err", "cancelled"}]
    /\ call \in [Nodes -> {"none", "sent", "carried-out"}]
    /\ late \in [Nodes -> Request \cup {"none"}]
    /\ sem \in 0 .. opts.maxConc
    /\ uploader \in Nodes \cup {NoNode}
    /\ firstErr \in Nodes \cup {NoNode}
    /\ errs \in SUBSET Nodes
    /\ vm \in [Nodes -> VM]
    /\ vols \in [Nodes -> SUBSET Volume]

(* The stack is new, but kickstart volumes may have been uploaded by hand  *)
(* (that is what --skip-kickstart-build asks for).                         *)
Init ==
    /\ opts \in OptionSet
    /\ phase = "plan"
    /\ next = 1
    /\ pc = [n \in Nodes |-> "wait"]
    /\ todo = [n \in Nodes |-> <<>>]
    /\ outcome = [n \in Nodes |-> "none"]
    /\ call = [n \in Nodes |-> "none"]
    /\ late = [n \in Nodes |-> "none"]
    /\ sem = 0
    /\ uploader = NoNode
    /\ firstErr = NoNode
    /\ errs = {}
    /\ vm = [n \in Nodes |-> NoVM]
    /\ vols = [n \in Nodes |-> IF n \in Uploaded THEN {AttachedAs} ELSE {}]

Returned == phase \in {"ok", "error"}

-----------------------------------------------------------------------------
(* Plan: VMExists for each node in turn.  A machine that exists, or a      *)
(* failed check, ends the whole run.                                       *)

PlanNode ==
    /\ phase = "plan"
    /\ next \in Nodes
    /\ ~Exists(vm[next])
    /\ next' = next + 1
    /\ UNCHANGED <<opts, phase, workers, rpc, sync, server>>

PlanFails ==
    /\ phase = "plan"
    /\ next \in Nodes
    /\ phase' = "error"
    /\ UNCHANGED <<opts, next, workers, rpc, sync, server>>

(* A dry run only prints the change lists.                                 *)
PlanDone ==
    /\ phase = "plan"
    /\ next = N + 1
    /\ next' = 1
    /\ IF opts.dryRun
       THEN phase' = "ok" /\ todo' = todo
       ELSE phase' = "apply" /\ todo' = [n \in Nodes |-> ApplySteps(opts)]
    /\ UNCHANGED <<opts, pc, outcome, rpc, sync, server>>

-----------------------------------------------------------------------------
(* Apply: the goroutines.                                                  *)

(* --continue-on-error: the loop takes a token before it starts the next   *)
(* goroutine.                                                              *)
Launch ==
    /\ phase = "apply"
    /\ opts.continueOnError
    /\ next \in Nodes
    /\ sem < opts.maxConc
    /\ sem' = sem + 1
    /\ pc' = [pc EXCEPT ![next] = "run"]
    /\ next' = next + 1
    /\ UNCHANGED <<opts, phase, todo, outcome, rpc, uploader, firstErr, errs,
                   server>>

(* Fail-fast: every goroutine is started at once and takes the token in a  *)
(* select; with a token free and the context cancelled either case may be  *)
(* chosen.                                                                 *)
Acquire(n) ==
    /\ phase = "apply"
    /\ ~opts.continueOnError
    /\ pc[n] = "wait"
    /\ sem < opts.maxConc
    /\ sem' = sem + 1
    /\ pc' = [pc EXCEPT ![n] = "run"]
    /\ UNCHANGED <<main, todo, outcome, rpc, uploader, firstErr, errs, server>>

Cancelled == firstErr # NoNode

(* Mutant: the deferred receive is registered before the select.            *)
AbandonReleases(n) ==
    /\ phase = "apply"
    /\ pc[n] = "wait"
    /\ Cancelled
    /\ pc' = [pc EXCEPT ![n] = "unwind"]
    /\ outcome' = [outcome EXCEPT ![n] = "cancelled"]
    /\ UNCHANGED <<main, todo, rpc, sync, server>>

Abandon(n) ==
    /\ phase = "apply"
    /\ pc[n] = "wait"
    /\ Cancelled
    /\ pc' = [pc EXCEPT ![n] = "signal"]
    /\ outcome' = [outcome EXCEPT ![n] = "cancelled"]
    /\ UNCHANGED <<main, todo, rpc, sync, server>>

(* The next step of node n's Apply or Finalize is s.                       *)
At(n, s) ==
    /\ pc[n] \in {"run", "finalize"}
    /\ todo[n] # <<>>
    /\ Head(todo[n]) = s

StepDone(n) == todo' = [todo EXCEPT ![n] = Tail(@)]

(* Mutant: the error slice is overwritten, not appended to.                *)
StepFailedForgets(n, how) ==
    /\ todo' = [todo EXCEPT ![n] = <<>>]
    /\ pc' = [pc EXCEPT ![n] = IF @ = "run" THEN "unwind" ELSE "done"]
    /\ outcome' = [outcome EXCEPT ![n] = IF pc[n] = "run" THEN how ELSE @]
    /\ errs' = {n}
    /\ next' = IF pc[n] = "run" THEN next ELSE next + 1

(* A step of node n failed: its Apply returns the error (and the collecting *)
(* goroutine appends it), or its Finalize does and the loop goes on.       *)
StepFailed(n, how) ==
    /\ todo' = [todo EXCEPT ![n] = <<>>]
    /\ IF pc[n] = "run"
       THEN /\ pc' = [pc EXCEPT ![n] = "unwind"]
            /\ outcome' = [outcome EXCEPT ![n] = how]
            /\ errs' = IF opts.continueOnError THEN errs \cup {n} ELSE errs
            /\ next' = next
       ELSE /\ pc' = [pc EXCEPT ![n] = "done"]
            /\ errs' = errs \cup {n}
            /\ next' = next + 1
            /\ outcome' = outcome

UnlockUpload(n) == uploader' = IF uploader = n THEN NoNode ELSE uploader

(* render-kickstart and build-iso do not look at the context.              *)
LocalWork(n) ==
    \E s \in LocalStep :
        /\ At(n, s)
        /\ StepDone(n)
        /\ UNCHANGED <<main, pc, outcome, rpc, sync, server>>

LocalWorkFails(n) ==
    \E s \in LocalStep :
        /\ At(n, s)
        /\ StepFailed(n, "err")
        /\ UNCHANGED <<opts, phase, rpc, sem, uploader, firstErr, server>>

(* UploadMu is not context aware: a cancelled goroutine still waits for it. *)
LockUpload(n) ==
    /\ At(n, "upload-iso")
    /\ uploader = NoNode
    /\ uploader' = n
    /\ UNCHANGED <<main, workers, rpc, sem, firstErr, errs, server>>

(* Mutant: UploadMu is not taken.                                          *)
MaySendUnlocked(n, req) == At(n, req) /\ call[n] = "none"

MaySend(n, req) ==
    /\ At(n, req)
    /\ call[n] = "none"
    /\ req = "upload-iso" => uploader = n

(* Mutant: the request is built without the goroutine's context.           *)
SendAnyway(n) ==
    \E req \in Request :
        /\ MaySend(n, req)
        /\ call' = [call EXCEPT ![n] = "sent"]
        /\ UNCHANGED <<main, workers, late, sync, server>>

Send(n) ==
    \E req \in Request :
        /\ MaySend(n, req)
        /\ ~Cancelled
        /\ call' = [call EXCEPT ![n] = "sent"]
        /\ UNCHANGED <<main, workers, late, sync, server>>

(* With the context cancelled, http.Client.Do fails before it sends.       *)
SendFails(n) ==
    \E req \in Request :
        /\ MaySend(n, req)
        /\ Cancelled
        /\ StepFailed(n, "cancelled")
        /\ UnlockUpload(n)
        /\ UNCHANGED <<opts, phase, rpc, sem, firstErr, server>>

(* The hypervisor carries out the request in flight.                       *)
Serve(n) ==
    \E req \in Request :
        /\ At(n, req)
        /\ call[n] = "sent"
        /\ Accepts(req, vm[n], vols[n])
        /\ call' = [call EXCEPT ![n] = "carried-out"]
        /\ vm' = [vm EXCEPT ![n] = Effect(req, @)]
        /\ vols' = [vols EXCEPT ![n] = Stored(req, @)]
        /\ UNCHANGED <<main, workers, late, sync>>

(* The call returned nil.                                                  *)
Reply(n) ==
    /\ call[n] = "carried-out"
    /\ call' = [call EXCEPT ![n] = "none"]
    /\ StepDone(n)
    /\ UnlockUpload(n)
    /\ UNCHANGED <<main, pc, outcome, late, sem, firstErr, errs, server>>

(* Mutant: the error of a step is logged and the loop over changes goes on. *)
RejectionIgnored(n) ==
    /\ call[n] = "sent"
    /\ call' = [call EXCEPT ![n] = "none"]
    /\ StepDone(n)
    /\ UnlockUpload(n)
    /\ UNCHANGED <<main, pc, outcome, late, sem, firstErr, errs, server>>

(* The hypervisor refused, or its task failed.                             *)
Rejected(n) ==
    /\ call[n] = "sent"
    /\ call' = [call EXCEPT ![n] = "none"]
    /\ StepFailed(n, "err")
    /\ UnlockUpload(n)
    /\ UNCHANGED <<opts, phase, late, sem, firstErr, server>>

(* The client gives up: timeout, lost connection, failed poll, or the      *)
(* cancelled context.  A request not yet carried out stays behind.         *)
GiveUp(n) ==
    /\ call[n] # "none"
    /\ call' = [call EXCEPT ![n] = "none"]
    /\ late' = [late EXCEPT ![n] = IF call[n] = "sent" THEN Head(todo[n]) ELSE @]
    /\ StepFailed(n, IF Cancelled THEN "cancelled" ELSE "err")
    /\ UnlockUpload(n)
    /\ UNCHANGED <<opts, phase, sem, firstErr, server>>

LateEffect(n) ==
    /\ late[n] # "none"
    /\ Accepts(late[n], vm[n], vols[n])
    /\ vm' = [vm EXCEPT ![n] = Effect(late[n], @)]
    /\ vols' = [vols EXCEPT ![n] = Stored(late[n], @)]
    /\ late' = [late EXCEPT ![n] = "none"]
    /\ UNCHANGED <<main, workers, call, sync>>

(* Every change applied.  (Apply then tries to remove the ISO it built and *)
(* does not look at the result; the local files are in module IsoFiles.)   *)
ApplyReturns(n) ==
    /\ pc[n] = "run"
    /\ todo[n] = <<>>
    /\ pc' = [pc EXCEPT ![n] = "unwind"]
    /\ outcome' = [outcome EXCEPT ![n] = "ok"]
    /\ UNCHANGED <<main, todo, rpc, sync, server>>

(* Mutant: the token is given back on the success path only.               *)
ReleaseOnSuccess(n) ==
    /\ pc[n] = "unwind"
    /\ pc' = [pc EXCEPT ![n] = "signal"]
    /\ sem' = IF outcome[n] = "ok" THEN sem - 1 ELSE sem
    /\ UNCHANGED <<main, todo, outcome, rpc, uploader, firstErr, errs, server>>

(* The deferred receive gives the token back ...                           *)
Release(n) ==
    /\ pc[n] = "unwind"
    /\ pc' = [pc EXCEPT ![n] = "signal"]
    /\ sem' = sem - 1
    /\ UNCHANGED <<main, todo, outcome, rpc, uploader, firstErr, errs, server>>

(* Mutant: the last error wins instead of the first.                       *)
SignalLast(n) ==
    /\ pc[n] = "signal"
    /\ pc' = [pc EXCEPT ![n] = "done"]
    /\ firstErr' = IF ~opts.continueOnError /\ outcome[n] # "ok"
                   THEN n ELSE firstErr
    /\ UNCHANGED <<main, todo, outcome, rpc, sem, uploader, errs, server>>

(* ... before errgroup sees the error, keeps the first and cancels, or     *)
(* before WaitGroup.Done.                                                  *)
Signal(n) ==
    /\ pc[n] = "signal"
    /\ pc' = [pc EXCEPT ![n] = "done"]
    /\ firstErr' = IF /\ ~opts.continueOnError
                      /\ outcome[n] # "ok"
                      /\ ~Cancelled
                   THEN n ELSE firstErr
    /\ UNCHANGED <<main, todo, outcome, rpc, sem, uploader, errs, server>>

(* Mutant: the main goroutine goes on at the first error.                  *)
ApplyJoinEarly ==
    /\ phase = "apply"
    /\ Cancelled \/ \A n \in Nodes : pc[n] = "done"
    /\ phase' = IF errs = {} /\ ~Cancelled THEN "verify" ELSE "error"
    /\ UNCHANGED <<opts, next, workers, rpc, sync, server>>

(* Wait returns once every goroutine is done.                              *)
ApplyJoin ==
    /\ phase = "apply"
    /\ opts.continueOnError => next = N + 1
    /\ \A n \in Nodes : pc[n] = "done"
    /\ phase' = IF errs = {} /\ ~Cancelled THEN "verify" ELSE "error"
    /\ UNCHANGED <<opts, next, workers, rpc, sync, server>>

-----------------------------------------------------------------------------
(* Verify reads each machine's status; what it finds is only a warning.    *)
VerifyAll ==
    /\ phase = "verify"
    /\ phase' = IF opts.skipFinalize THEN "ok" ELSE "finalize"
    /\ next' = 1
    /\ UNCHANGED <<opts, workers, rpc, sync, server>>

(* Finalize, node after node; an error is collected and the loop goes on.  *)
FinalizeNode ==
    /\ phase = "finalize"
    /\ next \in Nodes
    /\ pc[next] = "done"
    /\ next \in opts.addressed
    /\ pc' = [pc EXCEPT ![next] = "finalize"]
    /\ todo' = [todo EXCEPT ![next] = FinalizeSteps]
    /\ UNCHANGED <<main, outcome, rpc, sync, server>>

(* Mutant: a node without an IP is silently skipped.                       *)
FinalizeSkipsNoIP ==
    /\ phase = "finalize"
    /\ next \in Nodes \ opts.addressed
    /\ next' = next + 1
    /\ UNCHANGED <<opts, phase, workers, rpc, sync, server>>

(* A node without an IP cannot be probed.                                  *)
FinalizeNoIP ==
    /\ phase = "finalize"
    /\ next \in Nodes \ opts.addressed
    /\ errs' = errs \cup {next}
    /\ next' = next + 1
    /\ UNCHANGED <<opts, phase, workers, rpc, sem, uploader, firstErr, server>>

SSHAnswers(n) ==
    /\ At(n, "wait-ssh")
    /\ SSHUp(vm[n])
    /\ StepDone(n)
    /\ UNCHANGED <<main, pc, outcome, rpc, sync, server>>

(* Mutant: the deadline is looked at only after a successful probe.        *)
SSHDeadlineLate(n) ==
    /\ At(n, "wait-ssh")
    /\ SSHUp(vm[n])
    /\ StepFailed(n, "err")
    /\ UNCHANGED <<opts, phase, rpc, sem, uploader, firstErr, server>>

SSHDeadline(n) ==
    /\ At(n, "wait-ssh")
    /\ StepFailed(n, "err")
    /\ UNCHANGED <<opts, phase, rpc, sem, uploader, firstErr, server>>

FinalizeReturns(n) ==
    /\ pc[n] = "finalize"
    /\ todo[n] = <<>>
    /\ pc' = [pc EXCEPT ![n] = "done"]
    /\ next' = next + 1
    /\ UNCHANGED <<opts, phase, todo, outcome, rpc, sync, server>>

(* Mutant: Finalize's joined error is dropped.                             *)
UpReturnsOk ==
    /\ phase = "finalize"
    /\ next = N + 1
    /\ phase' = "ok"
    /\ UNCHANGED <<opts, next, workers, rpc, sync, server>>

UpReturns ==
    /\ phase = "finalize"
    /\ next = N + 1
    /\ phase' = IF errs = {} THEN "ok" ELSE "error"
    /\ UNCHANGED <<opts, next, workers, rpc, sync, server>>

-----------------------------------------------------------------------------
(* The world around it.                                                    *)

(* Another operator takes the VMID, between Plan's check and create-vm too. *)
OthersCreate(n) ==
    /\ ~Exists(vm[n])
    /\ vm' = [vm EXCEPT ![n] = OthersVM]
    /\ UNCHANGED <<main, workers, rpc, sync, vols>>

GuestInstalls(n) ==
    /\ CanInstall(vm[n])
    /\ vm' = [vm EXCEPT ![n].disk = "installed"]
    /\ UNCHANGED <<main, workers, rpc, sync, vols>>

Terminated == Returned /\ UNCHANGED vars

-----------------------------------------------------------------------------
Main ==
    \/ PlanNode \/ PlanFails \/ PlanDone
    \/ Launch \/ ApplyJoin \/ VerifyAll
    \/ FinalizeNode \/ FinalizeNoIP \/ UpReturns

Worker(n) ==
    \/ Acquire(n) \/ Abandon(n)
    \/ LocalWork(n) \/ LocalWorkFails(n)
    \/ LockUpload(n) \/ Send(n) \/ SendFails(n)
    \/ Reply(n) \/ Rejected(n) \/ GiveUp(n)
    \/ ApplyReturns(n) \/ Release(n) \/ Signal(n)
    \/ SSHAnswers(n) \/ SSHDeadline(n) \/ FinalizeReturns(n)

Hypervisor(n) == Serve(n) \/ LateEffect(n)

Environment(n) == OthersCreate(n) \/ GuestInstalls(n)

Next ==
    \/ Main
    \/ \E n \in Nodes : Worker(n) \/ Hypervisor(n) \/ Environment(n)
    \/ Terminated

Spec == Init /\ [][Next]_vars

(* The Go scheduler runs every goroutine and waitForSSHUp has a deadline.    *)
(* A call ends because its HTTP requests time out after 30s and because the *)
(* hypervisor's tasks stop: WaitForTask has no deadline of its own, so this *)
(* is assumed of the hypervisor.  Nothing is assumed of the guest, of what  *)
(* the tasks do, or of other operators.                                     *)
Fairness ==
    /\ WF_vars(Main)
    /\ \A n \in Nodes : WF_vars(Worker(n))

FairSpec == Spec /\ Fairness

-----------------------------------------------------------------------------
(* Safety.                                                                 *)

HoldsToken(n) == pc[n] \in {"run", "unwind"}

(* At most maxConc goroutines are between taking a token and giving it     *)
(* back, and the channel holds exactly their tokens: none is lost on an    *)
(* error path and none is returned twice (applyPlan, both modes).          *)
TokensAreHeld ==
    /\ sem = Cardinality({n \in Nodes : HoldsToken(n)})
    /\ sem <= opts.maxConc

InUpload(n) == At(n, "upload-iso") /\ call[n] # "none"

(* UploadISO calls of this process never overlap, and UploadMu is held only *)
(* by a goroutine about to call it or in it: no error path keeps it.       *)
UploadsSerialized ==
    /\ \A n \in Nodes : InUpload(n) => uploader = n
    /\ uploader # NoNode => At(uploader, "upload-iso")

(* In fail-fast mode the error `up` reports is one that a node ran into,   *)
(* never the context error of a node cancelled because of it, whatever the *)
(* order in which the goroutines get to errgroup (g.Wait's contract).      *)
RootCauseReported ==
    Cancelled => ~opts.continueOnError /\ outcome[firstErr] = "err"

(* --continue-on-error runs every node to its own end, skips none, and     *)
(* joins exactly the errors of the nodes that failed.                      *)
ApplyErrorsComplete ==
    LET failed == {n \in Nodes : outcome[n] = "err"} IN
    opts.continueOnError /\ phase \in {"verify", "finalize", "ok", "error"}
        /\ (\E n \in Nodes : outcome[n] # "none")
    => /\ \A n \in Nodes : outcome[n] \in {"ok", "err"}
       /\ failed # {} => phase = "error" /\ errs = failed

(* A machine whose installer runs has the install ISO in ide2 and, with a  *)
(* kickstart storage, the kickstart ISO in ide3 and the install boot       *)
(* order: nothing starts it before it is set up and nothing ejects its     *)
(* media before the guest is installed.                                    *)
InstallerUndisturbed ==
    \A n \in Nodes :
        LET v == vm[n] IN
        v.by = "proxctl" /\ v.on /\ v.disk = "blank"
        => /\ v.ide2
           /\ opts.kickstartStorage => v.ide3 /\ v.boot = "install"

(* When `up` returns nil, every node's machine is the one it created and   *)
(* runs; with Finalize it is installed, detached from both ISOs and boots  *)
(* from disk.                                                              *)
OkMeansComplete ==
    phase = "ok" /\ ~opts.dryRun
    => \A n \in Nodes :
           IF opts.skipFinalize
           THEN vm[n].by = "proxctl" /\ vm[n].on
           ELSE Finalized(vm[n])

(* One node's Finalize error does not keep the others from being           *)
(* finalized, and the joined error names every node that is not.           *)
FinalizeErrorsComplete ==
    Returned /\ ~opts.skipFinalize /\ (\A n \in Nodes : outcome[n] = "ok")
    => \A n \in Nodes \ errs : Finalized(vm[n])

(* When `up` has returned, nothing of it is left running: no goroutine, no *)
(* call, no token, no lock.                                                *)
NothingLeftRunning ==
    Returned => /\ sem = 0 /\ uploader = NoNode
                /\ \A n \in Nodes : call[n] = "none" /\ pc[n] \in {"wait", "done"}

(* Action properties.                                                      *)

(* A machine that another operator created under a VMID of the manifest,   *)
(* before or during the run, is never changed by it.                       *)
OthersUntouched ==
    [][\A n \in Nodes : vm[n].by = "other" => vm'[n] = vm[n]]_vars

(* Once errgroup has an error, machines change only by requests that were  *)
(* in flight already.                                                      *)
NothingNewAfterCancel ==
    [][\A n \in Nodes :
          Cancelled /\ call[n] = "none" /\ late[n] = "none"
          => /\ call'[n] = "none"
             /\ vm'[n] # vm[n] => OthersCreate(n) \/ GuestInstalls(n)]_vars

(* Liveness: `up` returns, and every goroutine waiting for a token, for    *)
(* UploadMu or for SSH gets past it, in both modes.                        *)
UpTerminates == <>Returned

-----------------------------------------------------------------------------
(* Refinement: the goroutines and requests above implement Provision.      *)

StageOf(v) ==
    IF v.by = "other" THEN "others" ELSE
    IF v.by = "nobody" THEN "absent" ELSE
    CASE v.disk = "installed" /\ v.boot = "disk"   -> "finalized"
      [] v.disk = "installed" /\ v.boot # "disk"   -> "installed"
      [] v.disk = "blank" /\ v.on                  -> "booting"
      [] v.disk = "blank" /\ ~v.on /\ v.boot = "install" -> "armed"
      [] v.disk = "blank" /\ ~v.on /\ v.boot # "install" /\ v.ide3 -> "attached"
      [] OTHER                                     -> "created"

Promise == INSTANCE Provision WITH
    arms      <- opts.kickstartStorage,
    finalizes <- ~opts.skipFinalize,
    dry       <- opts.dryRun,
    stage     <- [n \in Nodes |-> StageOf(vm[n])],
    result    <- IF Returned THEN phase ELSE "none"

(* `up` does only what Provision allows: no machine ever steps back, none  *)
(* skips a stage, and nil is returned only when all are complete.          *)
KeepsPromise == Promise!Spec

=============================================================================
