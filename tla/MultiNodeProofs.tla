-------------------------- MODULE MultiNodeProofs --------------------------
(***************************************************************************)
(* For every number of nodes, every capacity of the semaphore and every    *)
(* set of options: MultiNode is well typed, its tokens are exactly held,   *)
(* its uploads are serialized, the reported error is a root cause, and a   *)
(* returned `up` leaves nothing running.                                   *)
(*                                                                         *)
(* The second half is what `up` makes of the machines.  The steps that a   *)
(* goroutine still has to take say in which state its machine is, whatever *)
(* the other goroutines, the hypervisor, the guest and other operators do; *)
(* a node whose step failed is left in one of these states, at most one    *)
(* late request away from the next.  From that invariant: what `up`        *)
(* returns, whom it leaves alone, and that it implements Provision.        *)
(***************************************************************************)
EXTENDS MultiNode, FiniteSetTheorems, TLAPS

(* Which goroutine positions belong to which phase of the main goroutine.  *)
PhaseInv ==
    /\ phase = "plan" => \A n \in Nodes : pc[n] = "wait"
    /\ phase \in {"verify", "finalize"} => \A n \in Nodes : pc[n] \in {"done", "finalize"}
    /\ Returned => \A n \in Nodes : pc[n] \in {"wait", "done"}
    /\ \A n \in Nodes : pc[n] = "finalize"
                        => phase = "finalize" /\ next = n /\ n \in opts.addressed
    /\ phase = "apply" /\ opts.continueOnError
         => \A n \in Nodes : n >= next => pc[n] = "wait"

(* A call in flight is the first step of a goroutine that has not failed.  *)
CallInv ==
    \A n \in Nodes :
        call[n] # "none"
        => /\ pc[n] \in {"run", "finalize"}
           /\ todo[n] # <<>>
           /\ Head(todo[n]) \in Request

(* errgroup's error is a node's own: nodes see the cancelled context only  *)
(* after it has been recorded.                                             *)
ErrInv ==
    /\ RootCauseReported
    /\ Cancelled => phase \in {"apply", "error"} /\ pc[firstErr] = "done"
    /\ \A n \in Nodes :
          /\ outcome[n] = "cancelled" => Cancelled
          /\ pc[n] \in {"unwind", "signal"} => outcome[n] # "none"

IInv == TypeOK /\ PhaseInv /\ CallInv /\ UploadsSerialized /\ ErrInv /\ TokensAreHeld

(* The semaphore has room for at least one goroutine.                      *)
LEMMA CapacityIsPositive ==
  ASSUME opts \in OptionSet
  PROVE  opts.maxConc \in Nat \ {0}
BY OptionAssumption DEF Options

-----------------------------------------------------------------------------
(* The step lists are lists of steps.                                      *)
LEMMA ApplyStepsType ==
  ASSUME NEW o
  PROVE  ApplySteps(o) \in Seq(Step)
<1> DEFINE S == Step
<1>1. \A x, y \in S : <<x>> \in Seq(S) /\ <<x, y>> \in Seq(S)
  OBVIOUS
<1>2. {"render-kickstart", "build-iso", "upload-iso", "verify-kickstart-iso",
       "create-vm", "attach-cdrom", "set-boot-order", "start-vm"} \subseteq S
  BY DEF Step, LocalStep, Request, VMRequest
<1>3. <<>> \in Seq(S)
  OBVIOUS
<1> HIDE DEF S
<1>4. KickstartSteps(o) \in Seq(S)
  BY <1>1, <1>2, <1>3 DEF KickstartSteps
<1>5. AttachSteps(o) \in Seq(S)
  BY <1>1, <1>2, <1>3 DEF AttachSteps
<1>6. <<"create-vm">> \in Seq(S) /\ <<"start-vm">> \in Seq(S)
  BY <1>1, <1>2
<1>7. ApplySteps(o) \in Seq(S)
  BY <1>4, <1>5, <1>6 DEF ApplySteps
<1>8. QED
  BY <1>7 DEF S

LEMMA FinalizeStepsType == FinalizeSteps \in Seq(Step)
BY DEF FinalizeSteps, Step, LocalStep, Request, VMRequest

(* The hypervisor turns machines into machines.                            *)
LEMMA EffectType ==
  ASSUME NEW req, NEW v \in VM
  PROVE  Effect(req, v) \in VM
BY DEF Effect, Created, WithKickstart, Ejected, BootFrom, Power, VM, NoVM

LEMMA StoredType ==
  ASSUME NEW req, NEW vs \in SUBSET Volume
  PROVE  Stored(req, vs) \in SUBSET Volume
BY DEF Stored, Volume, UploadedAs

-----------------------------------------------------------------------------
(* The actions by what they do to the goroutines.  In every one of them    *)
(* node n's step ends, its call with it, and it lets go of UploadMu.       *)

StepEnds(n) ==
    /\ pc[n] \in {"run", "finalize"}
    /\ todo[n] # <<>>
    /\ call' = [call EXCEPT ![n] = "none"]
    /\ UnlockUpload(n)
    /\ UNCHANGED <<opts, phase, sem, firstErr>>

Succeeds(n) ==
    /\ StepEnds(n)
    /\ StepDone(n)
    /\ UNCHANGED <<next, pc, outcome, errs>>

Fails(n, how) ==
    /\ StepEnds(n)
    /\ StepFailed(n, how)
    /\ how = "cancelled" => Cancelled

LEMMA LocalStepIdle ==
  ASSUME IInv, NEW n \in Nodes, NEW s \in LocalStep \cup {"wait-ssh"}, At(n, s)
  PROVE  call[n] = "none" /\ uploader # n
<1>1. Head(todo[n]) \notin Request /\ Head(todo[n]) # "upload-iso"
  BY DEF At, LocalStep, Request, VMRequest
<1>2. call[n] = "none"
  BY <1>1 DEF IInv, CallInv
<1>3. n # NoNode
  BY NAssumption DEF Nodes, NoNode
<1>4. uploader # n
  BY <1>1, <1>3 DEF IInv, UploadsSerialized, At
<1>5. QED
  BY <1>2, <1>4

LEMMA Successes ==
  ASSUME IInv, NEW n \in Nodes, LocalWork(n) \/ Reply(n) \/ SSHAnswers(n)
  PROVE  Succeeds(n)
<1> USE DEF Succeeds, StepEnds
<1>1. CASE LocalWork(n) \/ SSHAnswers(n)
  <2>1. call[n] = "none" /\ uploader # n
    BY <1>1, LocalStepIdle DEF LocalWork, SSHAnswers
  <2>2. QED
    BY <1>1, <2>1 DEF LocalWork, SSHAnswers, At, UnlockUpload, IInv, TypeOK, main,
                      rpc, sync
<1>2. CASE Reply(n)
  BY <1>2 DEF Reply, IInv, CallInv, main
<1>3. QED
  BY <1>1, <1>2

LEMMA Failures ==
  ASSUME IInv, NEW n \in Nodes,
         LocalWorkFails(n) \/ SendFails(n) \/ Rejected(n) \/ GiveUp(n) \/ SSHDeadline(n)
  PROVE  \E how \in {"err", "cancelled"} : Fails(n, how)
<1> USE DEF Fails, StepEnds
<1>1. CASE LocalWorkFails(n) \/ SSHDeadline(n)
  <2>1. call[n] = "none" /\ uploader # n
    BY <1>1, LocalStepIdle DEF LocalWorkFails, SSHDeadline
  <2>2. Fails(n, "err")
    BY <1>1, <2>1 DEF LocalWorkFails, SSHDeadline, At, UnlockUpload, IInv, TypeOK, rpc
  <2>3. QED
    BY <2>2
<1>2. CASE SendFails(n)
  <2>1. Fails(n, "cancelled")
    BY <1>2 DEF SendFails, MaySend, At, IInv, TypeOK, rpc
  <2>2. QED
    BY <2>1
<1>3. CASE Rejected(n)
  <2>1. Fails(n, "err")
    BY <1>3 DEF Rejected, IInv, CallInv
  <2>2. QED
    BY <2>1
<1>4. CASE GiveUp(n)
  <2>1. Fails(n, IF Cancelled THEN "cancelled" ELSE "err")
    BY <1>4 DEF GiveUp, IInv, CallInv
  <2>2. QED
    BY <2>1
<1>5. QED
  BY <1>1, <1>2, <1>3, <1>4

-----------------------------------------------------------------------------
(* The next-state relation, with successes and failures for what they are. *)
Quiet == UNCHANGED <<main, workers, call, sync>>

LEMMA NextMoves ==
  ASSUME IInv, [Next]_vars
  PROVE  \/ Main
         \/ \E n \in Nodes : \/ Acquire(n) \/ Abandon(n)
                            \/ LockUpload(n) \/ Send(n) \/ Serve(n)
                            \/ ApplyReturns(n) \/ Release(n) \/ Signal(n)
                            \/ FinalizeReturns(n)
                            \/ Succeeds(n)
                            \/ \E how \in {"err", "cancelled"} : Fails(n, how)
         \/ Quiet
<1>1. CASE Main
  BY <1>1
<1>2. ASSUME NEW n \in Nodes, Worker(n)
      PROVE  \/ Acquire(n) \/ Abandon(n) \/ LockUpload(n) \/ Send(n)
             \/ ApplyReturns(n) \/ Release(n) \/ Signal(n)
             \/ FinalizeReturns(n) \/ Succeeds(n)
             \/ \E how \in {"err", "cancelled"} : Fails(n, how)
  BY <1>2, Successes, Failures DEF Worker
<1>3. ASSUME NEW n \in Nodes, Hypervisor(n) \/ Environment(n)
      PROVE  Serve(n) \/ Quiet
  BY <1>3 DEF Hypervisor, Environment, LateEffect, OthersCreate, GuestInstalls, Quiet,
              rpc
<1>4. CASE Terminated \/ UNCHANGED vars
  BY <1>4 DEF Terminated, Quiet, vars, rpc
<1>5. QED
  BY <1>1, <1>2, <1>3, <1>4 DEF Next

(* The goroutines that hold a token.                                       *)
Holders == {n \in Nodes : HoldsToken(n)}

LEMMA HoldersFinite == IsFiniteSet(Holders) /\ IsFiniteSet(Nodes)
<1>1. IsFiniteSet(Nodes)
  BY NAssumption, FS_Interval DEF Nodes
<1>2. Holders \in SUBSET Nodes
  BY DEF Holders
<1>3. QED
  BY <1>1, <1>2, FS_Subset

LEMMA HoldersPositive ==
  ASSUME IInv, NEW n \in Nodes, HoldsToken(n)
  PROVE  sem > 0
<1>1. n \in Holders
  BY DEF Holders
<1>2. Cardinality(Holders) # 0 /\ Cardinality(Holders) \in Nat
  BY <1>1, HoldersFinite, FS_EmptySet, FS_CardinalityType
<1>3. sem = Cardinality(Holders)
  BY DEF IInv, TokensAreHeld, Holders
<1>4. QED
  BY <1>2, <1>3

-----------------------------------------------------------------------------
(* Type correctness is preserved.                                          *)
LEMMA StepTypes ==
  ASSUME IInv, [Next]_vars
  PROVE  TypeOK'
<1> USE NAssumption, CapacityIsPositive DEF TypeOK, Nodes, NoNode, main, workers, rpc,
        sync, server
<1>0. TypeOK
  BY DEF IInv
<1>1. CASE Main
  <2>1. CASE PlanNode
    BY <1>0, <2>1 DEF PlanNode
  <2>7. CASE PlanFails \/ ApplyJoin \/ UpReturns
    BY <1>0, <2>7 DEF PlanFails, ApplyJoin, UpReturns
  <2>8. CASE VerifyAll
    BY <1>0, <2>8 DEF VerifyAll
  <2>5. CASE Launch
    BY <1>0, <2>5 DEF Launch
  <2>6. CASE FinalizeNoIP
    BY <1>0, <2>6 DEF FinalizeNoIP
  <2>2. CASE PlanDone
    BY <1>0, <2>2, ApplyStepsType DEF PlanDone
  <2>3. CASE FinalizeNode
    BY <1>0, <2>3, FinalizeStepsType DEF FinalizeNode
  <2>4. QED
    BY <1>1, <2>1, <2>2, <2>3, <2>5, <2>6, <2>7, <2>8
    DEF Main
<1>2. ASSUME NEW n \in Nodes, Worker(n)
      PROVE  TypeOK'
  <2>1. CASE Acquire(n) \/ Abandon(n) \/ ApplyReturns(n)
    <3>1. CASE Acquire(n)
      BY <1>0, <3>1 DEF Acquire
    <3>2. CASE Abandon(n)
      BY <1>0, <3>2 DEF Abandon
    <3>3. CASE ApplyReturns(n)
      BY <1>0, <3>3 DEF ApplyReturns
    <3>4. QED
      BY <2>1, <3>1, <3>2, <3>3
  <2>2. CASE LocalWork(n) \/ LockUpload(n) \/ Send(n) \/ Reply(n) \/ SSHAnswers(n)
    <3>1. CASE LocalWork(n) \/ Reply(n) \/ SSHAnswers(n)
      <4>1. todo' \in [Nodes -> Seq(Step)]
        <5>1. todo[n] # <<>> /\ StepDone(n)
          BY <3>1, Successes DEF Succeeds, StepEnds
        <5>2. Tail(todo[n]) \in Seq(Step)
          BY <1>0, <5>1
        <5>3. QED
          BY <1>0, <5>1, <5>2 DEF StepDone
      <4>2. QED
        BY <1>0, <3>1, <4>1 DEF LocalWork, Reply, SSHAnswers, UnlockUpload
    <3>2. CASE LockUpload(n) \/ Send(n)
      BY <1>0, <3>2 DEF LockUpload, Send
    <3>3. QED
      BY <2>2, <3>1, <3>2
  <2>3. CASE LocalWorkFails(n) \/ SendFails(n) \/ Rejected(n) \/ GiveUp(n)
             \/ SSHDeadline(n)
    <3>1. PICK how \in {"err", "cancelled"} : Fails(n, how)
      BY <2>3, Failures
    <3>2. pc[n] = "finalize" => next \in Nodes
      BY DEF IInv, PhaseInv
    <3>3. todo' \in [Nodes -> Seq(Step)]
      BY <1>0, <3>1 DEF Fails, StepFailed
    <3>4. /\ pc' \in [Nodes -> {"wait", "run", "unwind", "signal", "done", "finalize"}]
          /\ outcome' \in [Nodes -> {"none", "ok", "err", "cancelled"}]
          /\ errs' \in SUBSET Nodes
      <4>1. \/ pc' = [pc EXCEPT ![n] = "unwind"]
            \/ pc' = [pc EXCEPT ![n] = "done"]
        BY <3>1 DEF Fails, StepFailed
      <4>2. outcome' = [outcome EXCEPT ![n] = how] \/ outcome' = outcome
        BY <3>1 DEF Fails, StepFailed
      <4>3. errs' = errs \cup {n} \/ errs' = errs
        BY <3>1 DEF Fails, StepFailed
      <4>4. pc' \in [Nodes -> {"wait", "run", "unwind", "signal", "done", "finalize"}]
        BY <1>0, <4>1
      <4>5. outcome' \in [Nodes -> {"none", "ok", "err", "cancelled"}]
        BY <1>0, <4>2
      <4>6. errs' \in SUBSET Nodes
        BY <1>0, <4>3
      <4>7. QED
        BY <4>4, <4>5, <4>6
    <3>9. next' \in 1 .. N + 1
      <4>1. pc[n] = "run" => next' = next
        BY <3>1 DEF Fails, StepFailed
      <4>2. pc[n] # "run" => pc[n] = "finalize" /\ next' = next + 1
        BY <3>1 DEF Fails, StepEnds, StepFailed
      <4>3. QED
        BY <1>0, <3>2, <4>1, <4>2
    <3>5. call' \in [Nodes -> {"none", "sent", "carried-out"}]
          /\ uploader' \in Nodes \cup {NoNode}
      BY <1>0, <3>1 DEF Fails, StepEnds, UnlockUpload
    <3>6. late' \in [Nodes -> Request \cup {"none"}]
      <4>1. CASE GiveUp(n)
        <5>1. Head(todo[n]) \in Request
          BY <4>1 DEF GiveUp, IInv, CallInv
        <5>2. \/ late' = [late EXCEPT ![n] = Head(todo[n])]
              \/ late' = late
          BY <1>0, <4>1 DEF GiveUp
        <5>3. QED
          BY <1>0, <5>1, <5>2
      <4>2. CASE ~GiveUp(n)
        <5>1. late' = late
          BY <2>3, <4>2 DEF LocalWorkFails, SendFails, Rejected, SSHDeadline
        <5>2. QED
          BY <1>0, <5>1
      <4>3. QED
        BY <4>1, <4>2
    <3>7. UNCHANGED <<vm, vols, opts, phase, sem, firstErr>>
      BY <2>3 DEF LocalWorkFails, SendFails, Rejected, GiveUp, SSHDeadline
    <3>8. QED
      BY <1>0, <3>3, <3>4, <3>5, <3>6, <3>7, <3>9
  <2>4. CASE Release(n)
    <3>1. sem > 0
      BY <2>4, HoldersPositive DEF Release, HoldsToken
    <3>2. QED
      BY <1>0, <2>4, <3>1 DEF Release
  <2>5. CASE Signal(n)
    BY <1>0, <2>5 DEF Signal
  <2>6. CASE FinalizeReturns(n)
    <3>1. next \in Nodes
      BY <2>6 DEF FinalizeReturns, IInv, PhaseInv
    <3>2. next' \in 1 .. N + 1
      BY <1>0, <2>6, <3>1 DEF FinalizeReturns
    <3>3. QED
      BY <1>0, <2>6, <3>2 DEF FinalizeReturns
  <2>7. QED
    BY <1>2, <2>1, <2>2, <2>3, <2>4, <2>5, <2>6 DEF Worker
<1>3. ASSUME NEW n \in Nodes, Hypervisor(n)
      PROVE  TypeOK'
  <2>1. vm[n] \in VM /\ vols[n] \in SUBSET Volume
    BY <1>0
  <2>2. \A req : Effect(req, vm[n]) \in VM /\ Stored(req, vols[n]) \in SUBSET Volume
    BY <2>1, EffectType, StoredType
  <2>3. CASE Serve(n)
    BY <1>0, <2>2, <2>3 DEF Serve
  <2>4. CASE LateEffect(n)
    BY <1>0, <2>2, <2>4 DEF LateEffect
  <2>5. QED
    BY <1>3, <2>3, <2>4 DEF Hypervisor
<1>4. ASSUME NEW n \in Nodes, Environment(n)
      PROVE  TypeOK'
  <2>1. OthersVM \in VM
    BY DEF OthersVM, NoVM, VM
  <2>2. vm[n] \in VM
    BY <1>0
  <2>3. [vm[n] EXCEPT !.disk = "installed"] \in VM
    BY <2>2 DEF VM
  <2>4. QED
    BY <1>0, <1>4, <2>1, <2>3 DEF Environment, OthersCreate, GuestInstalls
<1>5. CASE Terminated \/ UNCHANGED vars
  BY <1>0, <1>5 DEF Terminated, vars
<1>6. QED
  BY <1>1, <1>2, <1>3, <1>4, <1>5 DEF Next

(* ... and so is the invariant about phases.                               *)
LEMMA StepPhase ==
  ASSUME IInv, [Next]_vars
  PROVE  PhaseInv'
<1> USE NAssumption DEF Nodes, main, workers, rpc, sync, server
<1>0. TypeOK /\ PhaseInv
  BY DEF IInv
<1>1. CASE Main
  <2>1. CASE PlanNode
    BY <1>0, <2>1 DEF PlanNode, PhaseInv, TypeOK, Returned
  <2>2. CASE PlanFails \/ PlanDone
    BY <1>0, <2>2 DEF PlanFails, PlanDone, PhaseInv, TypeOK, Returned
  <2>3. CASE Launch
    BY <1>0, <2>3 DEF Launch, PhaseInv, TypeOK, Returned
  <2>4. CASE ApplyJoin
    BY <1>0, <2>4 DEF ApplyJoin, PhaseInv, TypeOK, Returned
  <2>5. CASE VerifyAll
    BY <1>0, <2>5 DEF VerifyAll, PhaseInv, TypeOK, Returned
  <2>6. CASE FinalizeNode
    BY <1>0, <2>6 DEF FinalizeNode, PhaseInv, TypeOK, Returned
  <2>7. CASE FinalizeNoIP
    BY <1>0, <2>7 DEF FinalizeNoIP, PhaseInv, TypeOK, Returned
  <2>8. CASE UpReturns
    BY <1>0, <2>8 DEF UpReturns, PhaseInv, TypeOK, Returned
  <2>9. QED
    BY <1>1, <2>1, <2>2, <2>3, <2>4, <2>5, <2>6, <2>7, <2>8 DEF Main
<1>2. ASSUME NEW n \in Nodes, LockUpload(n) \/ Send(n) \/ Serve(n) \/ Succeeds(n)
      PROVE  PhaseInv'
  <2>1. UNCHANGED <<opts, phase, next, pc>>
    BY <1>2 DEF LockUpload, Send, Serve, Succeeds, StepEnds
  <2>2. QED
    BY <1>0, <2>1 DEF PhaseInv, Returned
<1>3. ASSUME NEW n \in Nodes, Acquire(n) \/ Abandon(n)
      PROVE  PhaseInv'
  <2>1. phase = "apply" /\ ~opts.continueOnError /\ UNCHANGED <<opts, phase, next>>
    BY <1>3 DEF Acquire, Abandon, IInv, ErrInv, RootCauseReported
  <2>2. \E p \in {"run", "signal"} : pc' = [pc EXCEPT ![n] = p]
    BY <1>3 DEF Acquire, Abandon
  <2>3. QED
    BY <1>0, <2>1, <2>2 DEF PhaseInv, TypeOK, Returned
<1>4. ASSUME NEW n \in Nodes, ApplyReturns(n) \/ Release(n) \/ Signal(n)
      PROVE  PhaseInv'
  <2>1. pc[n] \in {"run", "unwind", "signal"} /\ UNCHANGED <<opts, phase, next>>
    BY <1>4 DEF ApplyReturns, Release, Signal
  <2>2. \E p \in {"unwind", "signal", "done"} : pc' = [pc EXCEPT ![n] = p]
    BY <1>4 DEF ApplyReturns, Release, Signal
  <2>3. QED
    BY <1>0, <2>1, <2>2 DEF PhaseInv, TypeOK, Returned
<1>5. ASSUME NEW n \in Nodes, FinalizeReturns(n)
      PROVE  PhaseInv'
  BY <1>0, <1>5 DEF FinalizeReturns, PhaseInv, TypeOK, Returned
<1>6. ASSUME NEW n \in Nodes, NEW how, Fails(n, how)
      PROVE  PhaseInv'
  <2>1. UNCHANGED <<opts, phase>> /\ pc[n] \in {"run", "finalize"}
    BY <1>6 DEF Fails, StepEnds
  <2>2. CASE pc[n] = "run"
    <3>1. pc' = [pc EXCEPT ![n] = "unwind"] /\ next' = next
      BY <1>6, <2>2 DEF Fails, StepFailed
    <3>2. QED
      BY <1>0, <2>1, <2>2, <3>1 DEF PhaseInv, TypeOK, Returned
  <2>3. CASE pc[n] = "finalize"
    <3>1. pc' = [pc EXCEPT ![n] = "done"] /\ next' = next + 1
      BY <1>6, <2>3 DEF Fails, StepFailed
    <3>2. QED
      BY <1>0, <2>1, <2>3, <3>1 DEF PhaseInv, TypeOK, Returned
  <2>4. QED
    BY <2>1, <2>2, <2>3
<1>7. CASE Quiet
  BY <1>0, <1>7 DEF Quiet, PhaseInv, Returned
<1>8. QED
  BY <1>1, <1>2, <1>3, <1>4, <1>5, <1>6, <1>7, NextMoves

(* A call in flight belongs to the step its goroutine is at.               *)
LEMMA StepCall ==
  ASSUME IInv, [Next]_vars
  PROVE  CallInv'
<1> USE DEF main, workers, rpc, sync, server
<1>0. TypeOK /\ CallInv
  BY DEF IInv
<1>1. CASE Main
  <2>1. CASE PlanNode \/ PlanFails \/ ApplyJoin \/ VerifyAll \/ FinalizeNoIP \/ UpReturns
    <3>1. UNCHANGED <<call, pc, todo>>
      BY <2>1 DEF PlanNode, PlanFails, ApplyJoin, VerifyAll, FinalizeNoIP, UpReturns
    <3>2. QED
      BY <1>0, <3>1 DEF CallInv
  <2>2. CASE PlanDone
    <3>1. \A n \in Nodes : call[n] = "none"
      BY <1>0, <2>2 DEF PlanDone, CallInv, IInv, PhaseInv
    <3>2. QED
      BY <2>2, <3>1 DEF PlanDone, CallInv
  <2>3. CASE Launch
    <3>1. pc[next] = "wait"
      BY <1>0, <2>3, NAssumption DEF Launch, IInv, PhaseInv, TypeOK, Nodes
    <3>2. QED
      BY <1>0, <2>3, <3>1 DEF Launch, CallInv, TypeOK
  <2>4. CASE FinalizeNode
    BY <1>0, <2>4 DEF FinalizeNode, CallInv, TypeOK
  <2>5. QED
    BY <1>1, <2>1, <2>2, <2>3, <2>4 DEF Main
<1>2. ASSUME NEW n \in Nodes,
             Acquire(n) \/ Abandon(n) \/ ApplyReturns(n) \/ Release(n) \/ Signal(n)
               \/ FinalizeReturns(n)
      PROVE  CallInv'
  <2>1. call[n] = "none"
    BY <1>0, <1>2 DEF Acquire, Abandon, ApplyReturns, Release, Signal, FinalizeReturns,
                      CallInv
  <2>2. UNCHANGED <<call, todo>> /\ \E p : pc' = [pc EXCEPT ![n] = p]
    BY <1>2 DEF Acquire, Abandon, ApplyReturns, Release, Signal, FinalizeReturns
  <2>3. QED
    BY <1>0, <2>1, <2>2 DEF CallInv, TypeOK
<1>3. ASSUME NEW n \in Nodes, LockUpload(n)
      PROVE  CallInv'
  BY <1>0, <1>3 DEF LockUpload, CallInv
<1>4. ASSUME NEW n \in Nodes, Send(n)
      PROVE  CallInv'
  BY <1>0, <1>4 DEF Send, MaySend, At, CallInv, TypeOK
<1>5. ASSUME NEW n \in Nodes, Serve(n)
      PROVE  CallInv'
  BY <1>0, <1>5 DEF Serve, At, CallInv, TypeOK
<1>6. ASSUME NEW n \in Nodes, NEW how, Succeeds(n) \/ Fails(n, how)
      PROVE  CallInv'
  <2>1. call' = [call EXCEPT ![n] = "none"]
    BY <1>6 DEF Succeeds, Fails, StepEnds
  <2>2. \A m \in Nodes \ {n} : pc'[m] = pc[m] /\ todo'[m] = todo[m]
    BY <1>0, <1>6 DEF Succeeds, Fails, StepDone, StepFailed, TypeOK
  <2>3. QED
    BY <1>0, <2>1, <2>2 DEF CallInv, TypeOK
<1>7. CASE Quiet
  BY <1>0, <1>7 DEF Quiet, CallInv
<1>8. QED
  BY <1>1, <1>2, <1>3, <1>4, <1>5, <1>6, <1>7, NextMoves

(* Uploads stay serialized.                                                *)
LEMMA StepUploads ==
  ASSUME IInv, [Next]_vars
  PROVE  UploadsSerialized'
<1> USE DEF main, workers, rpc, sync, server
<1>0. TypeOK /\ UploadsSerialized
  BY DEF IInv
<1>1. CASE Main
  <2>1. CASE PlanNode \/ PlanFails \/ ApplyJoin \/ VerifyAll \/ FinalizeNoIP \/ UpReturns
    <3>1. UNCHANGED <<call, pc, todo, uploader>>
      BY <2>1 DEF PlanNode, PlanFails, ApplyJoin, VerifyAll, FinalizeNoIP, UpReturns
    <3>2. QED
      BY <1>0, <3>1 DEF UploadsSerialized, InUpload, At
  <2>2. CASE PlanDone
    <3>1. \A n \in Nodes : pc[n] = "wait"
      BY <2>2 DEF PlanDone, IInv, PhaseInv
    <3>2. uploader = NoNode
      BY <1>0, <3>1 DEF UploadsSerialized, At, TypeOK
    <3>3. UNCHANGED <<call, pc, uploader>>
      BY <2>2 DEF PlanDone
    <3>4. QED
      BY <3>1, <3>2, <3>3 DEF UploadsSerialized, InUpload, At
  <2>3. CASE Launch \/ FinalizeNode
    <3>1. pc[next] \in {"wait", "done"} /\ next \in Nodes
      BY <1>0, <2>3, NAssumption DEF Launch, FinalizeNode, IInv, PhaseInv, TypeOK, Nodes
    <3>2. call[next] = "none" /\ uploader # next
      BY <1>0, <3>1, NAssumption DEF IInv, CallInv, UploadsSerialized, At, Nodes, NoNode
    <3>3. /\ UNCHANGED <<call, uploader>>
          /\ \A m \in Nodes \ {next} : pc'[m] = pc[m] /\ todo'[m] = todo[m]
      BY <1>0, <2>3 DEF Launch, FinalizeNode, TypeOK
    <3>4. QED
      BY <1>0, <3>1, <3>2, <3>3 DEF UploadsSerialized, InUpload, At, TypeOK
  <2>4. QED
    BY <1>1, <2>1, <2>2, <2>3 DEF Main
<1>2. ASSUME NEW n \in Nodes,
             Acquire(n) \/ Abandon(n) \/ ApplyReturns(n) \/ Release(n) \/ Signal(n)
               \/ FinalizeReturns(n)
      PROVE  UploadsSerialized'
  <2>1. call[n] = "none" /\ uploader # n
    BY <1>0, <1>2, NAssumption
    DEF Acquire, Abandon, ApplyReturns, Release, Signal, FinalizeReturns, IInv, CallInv,
        UploadsSerialized, At, Nodes, NoNode
  <2>2. UNCHANGED <<call, todo, uploader>> /\ \E p : pc' = [pc EXCEPT ![n] = p]
    BY <1>2 DEF Acquire, Abandon, ApplyReturns, Release, Signal, FinalizeReturns
  <2>3. QED
    BY <1>0, <2>1, <2>2 DEF UploadsSerialized, InUpload, At, TypeOK
<1>3. ASSUME NEW n \in Nodes, LockUpload(n)
      PROVE  UploadsSerialized'
  BY <1>0, <1>3, NAssumption DEF LockUpload, UploadsSerialized, InUpload, At, Nodes, NoNode
<1>4. ASSUME NEW n \in Nodes, Send(n)
      PROVE  UploadsSerialized'
  <2>1. PICK req \in Request : MaySend(n, req) /\ call' = [call EXCEPT ![n] = "sent"]
    BY <1>4 DEF Send
  <2>2. At(n, "upload-iso") => uploader = n
    BY <2>1 DEF MaySend, At
  <2>3. UNCHANGED <<pc, todo, uploader>>
    BY <1>4 DEF Send
  <2>4. QED
    BY <1>0, <2>1, <2>2, <2>3 DEF UploadsSerialized, InUpload, At, TypeOK
<1>5. ASSUME NEW n \in Nodes, Serve(n)
      PROVE  UploadsSerialized'
  <2>1. call[n] = "sent" /\ call' = [call EXCEPT ![n] = "carried-out"]
    BY <1>5 DEF Serve
  <2>2. UNCHANGED <<pc, todo, uploader>>
    BY <1>5 DEF Serve
  <2>3. QED
    BY <1>0, <2>1, <2>2 DEF UploadsSerialized, InUpload, At, TypeOK
<1>6. ASSUME NEW n \in Nodes, NEW how, Succeeds(n) \/ Fails(n, how)
      PROVE  UploadsSerialized'
  <2>1. call' = [call EXCEPT ![n] = "none"]
    BY <1>6 DEF Succeeds, Fails, StepEnds
  <2>2. uploader' = IF uploader = n THEN NoNode ELSE uploader
    BY <1>6 DEF Succeeds, Fails, StepEnds, UnlockUpload
  <2>3. \A m \in Nodes \ {n} : pc'[m] = pc[m] /\ todo'[m] = todo[m]
    BY <1>0, <1>6 DEF Succeeds, Fails, StepDone, StepFailed, TypeOK
  <2>4. QED
    BY <1>0, <2>1, <2>2, <2>3, NAssumption
    DEF UploadsSerialized, InUpload, At, TypeOK, Nodes, NoNode
<1>7. CASE Quiet
  BY <1>0, <1>7 DEF Quiet, UploadsSerialized, InUpload, At
<1>8. QED
  BY <1>1, <1>2, <1>3, <1>4, <1>5, <1>6, <1>7, NextMoves

(* The recorded error stays the root cause.                                *)
LEMMA StepErr ==
  ASSUME IInv, [Next]_vars
  PROVE  ErrInv'
<1> USE NAssumption DEF main, workers, rpc, sync, server, Nodes, NoNode
<1>0. TypeOK /\ ErrInv
  BY DEF IInv
<1>1. CASE Main
  <2>1. CASE PlanNode \/ FinalizeNoIP
    <3>1. UNCHANGED <<opts, phase, pc, outcome, firstErr>>
      BY <2>1 DEF PlanNode, FinalizeNoIP
    <3>2. QED
      BY <1>0, <3>1 DEF ErrInv, RootCauseReported, Cancelled
  <2>2. CASE PlanFails \/ PlanDone \/ VerifyAll \/ UpReturns
    <3>1. UNCHANGED <<opts, pc, outcome, firstErr>> /\ phase \notin {"apply", "error"}
      BY <2>2 DEF PlanFails, PlanDone, VerifyAll, UpReturns
    <3>2. QED
      BY <1>0, <3>1 DEF ErrInv, RootCauseReported, Cancelled
  <2>3. CASE ApplyJoin
    <3>1. UNCHANGED <<opts, pc, outcome, firstErr>> /\ (Cancelled => phase' = "error")
      BY <2>3 DEF ApplyJoin
    <3>2. QED
      BY <1>0, <3>1 DEF ErrInv, RootCauseReported, Cancelled
  <2>4. CASE Launch
    <3>1. ~Cancelled
      BY <1>0, <2>4 DEF Launch, ErrInv, RootCauseReported
    <3>2. UNCHANGED <<opts, phase, outcome, firstErr>>
          /\ \A n \in Nodes : pc'[n] = pc[n] \/ pc'[n] = "run"
      BY <1>0, <2>4 DEF Launch, TypeOK
    <3>3. QED
      BY <1>0, <3>1, <3>2 DEF ErrInv, RootCauseReported, Cancelled
  <2>5. CASE FinalizeNode
    <3>1. ~Cancelled
      BY <1>0, <2>5 DEF FinalizeNode, ErrInv
    <3>2. UNCHANGED <<opts, phase, outcome, firstErr>>
          /\ \A n \in Nodes : pc'[n] = pc[n] \/ pc'[n] = "finalize"
      BY <1>0, <2>5 DEF FinalizeNode, TypeOK
    <3>3. QED
      BY <1>0, <3>1, <3>2 DEF ErrInv, RootCauseReported, Cancelled
  <2>6. QED
    BY <1>1, <2>1, <2>2, <2>3, <2>4, <2>5 DEF Main
<1>2. ASSUME NEW n \in Nodes, LockUpload(n) \/ Send(n) \/ Serve(n) \/ Succeeds(n)
      PROVE  ErrInv'
  <2>1. UNCHANGED <<opts, phase, pc, outcome, firstErr>>
    BY <1>2 DEF LockUpload, Send, Serve, Succeeds, StepEnds
  <2>2. QED
    BY <1>0, <2>1 DEF ErrInv, RootCauseReported, Cancelled
<1>3. ASSUME NEW n \in Nodes, Acquire(n) \/ Release(n) \/ FinalizeReturns(n)
      PROVE  ErrInv'
  <2>1. /\ UNCHANGED <<opts, phase, outcome, firstErr>>
        /\ pc[n] # "done"
        /\ \/ pc' = [pc EXCEPT ![n] = "run"]
           \/ pc' = [pc EXCEPT ![n] = "done"]
           \/ pc[n] = "unwind" /\ pc' = [pc EXCEPT ![n] = "signal"]
    BY <1>3 DEF Acquire, Release, FinalizeReturns
  <2>2. QED
    BY <1>0, <2>1 DEF ErrInv, RootCauseReported, Cancelled, TypeOK
<1>4. ASSUME NEW n \in Nodes, Abandon(n) \/ ApplyReturns(n)
      PROVE  ErrInv'
  <2>1. PICK p \in {"signal", "unwind"}, o \in {"cancelled", "ok"} :
            /\ pc' = [pc EXCEPT ![n] = p] /\ outcome' = [outcome EXCEPT ![n] = o]
            /\ o = "cancelled" => Cancelled
    BY <1>4 DEF Abandon, ApplyReturns
  <2>2. UNCHANGED <<opts, phase, firstErr>> /\ pc[n] # "done"
    BY <1>4 DEF Abandon, ApplyReturns
  <2>3. ASSUME Cancelled
        PROVE  firstErr # n /\ outcome'[firstErr] = outcome[firstErr]
                            /\ pc'[firstErr] = pc[firstErr]
    BY <1>0, <2>1, <2>2, <2>3 DEF ErrInv, TypeOK, Cancelled
  <2>4. QED
    BY <1>0, <2>1, <2>2, <2>3 DEF ErrInv, RootCauseReported, Cancelled, TypeOK
<1>5. ASSUME NEW n \in Nodes, Signal(n)
      PROVE  ErrInv'
  <2>1. phase = "apply"
    BY <1>5 DEF Signal, IInv, PhaseInv, Returned, TypeOK
  <2>2. CASE Cancelled
    BY <1>0, <1>5, <2>1, <2>2 DEF Signal, ErrInv, RootCauseReported, Cancelled, TypeOK
  <2>3. CASE ~Cancelled
    <3>1. outcome[n] \in {"ok", "err"}
      BY <1>0, <1>5, <2>3 DEF Signal, ErrInv, TypeOK
    <3>2. QED
      BY <1>0, <1>5, <2>1, <2>3, <3>1
      DEF Signal, ErrInv, RootCauseReported, Cancelled, TypeOK
  <2>4. QED
    BY <2>2, <2>3
<1>6. ASSUME NEW n \in Nodes, NEW how \in {"err", "cancelled"}, Fails(n, how)
      PROVE  ErrInv'
  <2>1. UNCHANGED <<opts, phase, firstErr>> /\ pc[n] \in {"run", "finalize"}
    BY <1>6 DEF Fails, StepEnds
  <2>2. CASE pc[n] = "run"
    <3>1. pc' = [pc EXCEPT ![n] = "unwind"] /\ outcome' = [outcome EXCEPT ![n] = how]
      BY <1>6, <2>2 DEF Fails, StepFailed
    <3>2. how = "cancelled" => Cancelled
      BY <1>6 DEF Fails
    <3>3. QED
      BY <1>0, <2>1, <2>2, <3>1, <3>2 DEF ErrInv, RootCauseReported, Cancelled, TypeOK
  <2>3. CASE pc[n] = "finalize"
    <3>1. pc' = [pc EXCEPT ![n] = "done"] /\ outcome' = outcome
      BY <1>6, <2>3 DEF Fails, StepFailed
    <3>2. QED
      BY <1>0, <2>1, <2>3, <3>1 DEF ErrInv, RootCauseReported, Cancelled, TypeOK
  <2>4. QED
    BY <2>1, <2>2, <2>3
<1>7. CASE Quiet
  BY <1>0, <1>7 DEF Quiet, ErrInv, RootCauseReported, Cancelled
<1>8. QED
  BY <1>1, <1>2, <1>3, <1>4, <1>5, <1>6, <1>7, NextMoves

(* The semaphore holds one token for each holder.                          *)
LEMMA Taken ==
  ASSUME IInv, NEW n \in Nodes, pc[n] = "wait", sem < opts.maxConc, sem' = sem + 1,
         opts' = opts,
         pc' = [pc EXCEPT ![n] = "run"]
  PROVE  TokensAreHeld'
<1>1. TypeOK
  BY DEF IInv
<1>2. n \notin Holders /\ Holders' = Holders \cup {n}
  BY <1>1 DEF Holders, HoldsToken, TypeOK
<1>3. Cardinality(Holders') = Cardinality(Holders) + 1
  BY <1>2, HoldersFinite, FS_AddElement
<1>4. sem = Cardinality(Holders)
  BY DEF IInv, TokensAreHeld, Holders
<1>5. sem' <= opts.maxConc'
  BY <1>1, CapacityIsPositive DEF TypeOK
<1>6. QED
  BY <1>3, <1>4, <1>5 DEF TokensAreHeld, Holders

LEMMA GivenBack ==
  ASSUME IInv, NEW n \in Nodes, pc[n] = "unwind", sem' = sem - 1, opts' = opts,
         pc' = [pc EXCEPT ![n] = "signal"]
  PROVE  TokensAreHeld'
<1>1. TypeOK
  BY DEF IInv
<1>2. n \in Holders /\ Holders' = Holders \ {n}
  BY <1>1 DEF Holders, HoldsToken, TypeOK
<1>3. Cardinality(Holders') = Cardinality(Holders) - 1
  BY <1>2, HoldersFinite, FS_RemoveElement
<1>4. sem = Cardinality(Holders)
  BY DEF IInv, TokensAreHeld, Holders
<1>5. sem' <= opts.maxConc'
  BY <1>1, CapacityIsPositive DEF TypeOK
<1>6. QED
  BY <1>3, <1>4, <1>5 DEF TokensAreHeld, Holders

LEMMA KeptTokens ==
  ASSUME IInv, sem' = sem, opts' = opts, \A n \in Nodes : HoldsToken(n)' = HoldsToken(n)
  PROVE  TokensAreHeld'
<1>1. Holders' = Holders
  BY DEF Holders
<1>2. QED
  BY <1>1 DEF IInv, TokensAreHeld, Holders

LEMMA StepTokens ==
  ASSUME IInv, [Next]_vars
  PROVE  TokensAreHeld'
<1> USE DEF main, workers, rpc, sync, server
<1>0. TypeOK /\ PhaseInv
  BY DEF IInv
<1>1. CASE Main
  <2>1. CASE Launch
    <3>1. next \in Nodes /\ pc[next] = "wait"
      BY <1>0, <2>1, NAssumption DEF Launch, PhaseInv, TypeOK, Nodes
    <3>2. QED
      BY <2>1, <3>1, Taken DEF Launch
  <2>2. CASE FinalizeNode
    <3>1. UNCHANGED <<opts, sem>> /\ pc' = [pc EXCEPT ![next] = "finalize"] /\ pc[next] = "done"
      BY <2>2 DEF FinalizeNode
    <3>2. QED
      BY <1>0, <3>1, KeptTokens DEF HoldsToken, TypeOK
  <2>3. CASE PlanNode \/ PlanFails \/ PlanDone \/ ApplyJoin \/ VerifyAll
               \/ FinalizeNoIP \/ UpReturns
    <3>1. UNCHANGED <<opts, sem, pc>>
      BY <2>3 DEF PlanNode, PlanFails, PlanDone, ApplyJoin, VerifyAll, FinalizeNoIP,
                  UpReturns
    <3>2. QED
      BY <3>1, KeptTokens DEF HoldsToken
  <2>4. QED
    BY <1>1, <2>1, <2>2, <2>3 DEF Main
<1>2. ASSUME NEW n \in Nodes, Acquire(n)
      PROVE  TokensAreHeld'
  BY <1>2, Taken DEF Acquire
<1>3. ASSUME NEW n \in Nodes, Release(n)
      PROVE  TokensAreHeld'
  BY <1>3, GivenBack DEF Release
<1>4. ASSUME NEW n \in Nodes,
             Abandon(n) \/ ApplyReturns(n) \/ Signal(n) \/ FinalizeReturns(n)
      PROVE  TokensAreHeld'
  <2>1. UNCHANGED <<opts, sem>>
    BY <1>4 DEF Abandon, ApplyReturns, Signal, FinalizeReturns
  <2>2. \/ pc[n] = "run" /\ pc' = [pc EXCEPT ![n] = "unwind"]
        \/ pc[n] \in {"wait", "signal", "finalize"}
             /\ \E p \in {"signal", "done"} : pc' = [pc EXCEPT ![n] = p]
    BY <1>4 DEF Abandon, ApplyReturns, Signal, FinalizeReturns
  <2>3. QED
    BY <1>0, <2>1, <2>2, KeptTokens DEF HoldsToken, TypeOK
<1>5. ASSUME NEW n \in Nodes, LockUpload(n) \/ Send(n) \/ Serve(n) \/ Succeeds(n)
      PROVE  TokensAreHeld'
  <2>1. UNCHANGED <<opts, sem, pc>>
    BY <1>5 DEF LockUpload, Send, Serve, Succeeds, StepEnds
  <2>2. QED
    BY <2>1, KeptTokens DEF HoldsToken
<1>6. ASSUME NEW n \in Nodes, NEW how, Fails(n, how)
      PROVE  TokensAreHeld'
  <2>1. UNCHANGED <<opts, sem>> /\ pc[n] \in {"run", "finalize"}
    BY <1>6 DEF Fails, StepEnds
  <2>2. pc' = [pc EXCEPT ![n] = IF pc[n] = "run" THEN "unwind" ELSE "done"]
    BY <1>6 DEF Fails, StepFailed
  <2>3. QED
    BY <1>0, <2>1, <2>2, KeptTokens DEF HoldsToken, TypeOK
<1>7. CASE Quiet
  BY <1>7, KeptTokens DEF Quiet, HoldsToken
<1>8. QED
  BY <1>1, <1>2, <1>3, <1>4, <1>5, <1>6, <1>7, NextMoves

-----------------------------------------------------------------------------
(* Nobody holds anything before `up` starts.                               *)
LEMMA InitInv == Init => IInv
<1> SUFFICES ASSUME Init
             PROVE  IInv
  OBVIOUS
<1> USE NAssumption, CapacityIsPositive DEF Init, Nodes, NoNode
<1>1. TypeOK
  <2>1. NoVM \in VM /\ AttachedAs \in Volume /\ <<>> \in Seq(Step)
    BY DEF NoVM, VM, AttachedAs, Volume
  <2>2. QED
    BY <2>1 DEF TypeOK
<1>2. PhaseInv /\ CallInv /\ UploadsSerialized
  BY DEF PhaseInv, CallInv, UploadsSerialized, InUpload, Returned
<1>3. ErrInv
  BY DEF ErrInv, RootCauseReported, Cancelled
<1>4. TokensAreHeld
  <2>1. {n \in Nodes : HoldsToken(n)} = {}
    BY DEF HoldsToken
  <2>2. Cardinality({n \in Nodes : HoldsToken(n)}) = 0
    BY ONLY <2>1, FS_EmptySet
  <2>3. sem = 0 /\ sem <= opts.maxConc
    OBVIOUS
  <2>4. QED
    BY ONLY <2>2, <2>3 DEF TokensAreHeld
<1>5. QED
  BY <1>1, <1>2, <1>3, <1>4 DEF IInv

(* The inductive invariant of `workflow up`.                               *)
THEOREM Invariance == Spec => []IInv
<1>1. IInv /\ [Next]_vars => IInv'
  BY StepTypes, StepPhase, StepCall, StepUploads, StepErr, StepTokens DEF IInv
<1>2. QED
  BY InitInv, <1>1, PTL DEF Spec

(* Every variable of `workflow up` keeps its type, the semaphore channel   *)
(* its capacity (MultiNodeWorkflow.Up and all it calls).                   *)
THEOREM TypeCorrect == Spec => []TypeOK
BY Invariance, PTL DEF IInv

(* No error path of applyPlan loses a token or gives one back twice.       *)
THEOREM TokensHeld == Spec => []TokensAreHeld
BY Invariance, PTL DEF IInv

(* UploadMu is never kept after an error, and no two uploads of the        *)
(* process overlap (SingleVMWorkflow.Apply).                               *)
THEOREM UploadsAreSerialized == Spec => []UploadsSerialized
BY Invariance, PTL DEF IInv

(* The error of a fail-fast `up` is one a node ran into, never the echo of *)
(* the cancellation it caused (applyPlan's errgroup).                      *)
THEOREM RootCause == Spec => []RootCauseReported
<1>1. IInv => RootCauseReported
  BY DEF IInv, ErrInv
<1>2. QED
  BY Invariance, <1>1, PTL

(* Under a cancelled context no call begins and no machine changes but by  *)
(* what was in flight (Client.Do and errgroup.WithContext).                *)
THEOREM NothingNew == Spec => NothingNewAfterCancel
<1> DEFINE Kept(n) == Cancelled /\ call[n] = "none" /\ late[n] = "none"
                      => /\ call'[n] = "none"
                         /\ vm'[n] # vm[n] => OthersCreate(n) \/ GuestInstalls(n)
<1> USE DEF main, workers, rpc, sync, server
<1>1. ASSUME IInv, [Next]_vars, NEW n \in Nodes
      PROVE  Kept(n)
  <2>0. TypeOK
    BY <1>1 DEF IInv
  <2>1. CASE Main
    BY <2>1 DEF Main, PlanNode, PlanFails, PlanDone, Launch, ApplyJoin, VerifyAll,
                FinalizeNode, FinalizeNoIP, UpReturns
  <2>2. ASSUME NEW m \in Nodes, Worker(m)
        PROVE  Kept(n)
    <3>1. CASE Acquire(m) \/ Abandon(m) \/ LocalWork(m) \/ LockUpload(m)
               \/ ApplyReturns(m) \/ Release(m) \/ Signal(m) \/ SSHAnswers(m)
               \/ FinalizeReturns(m)
      BY <3>1 DEF Acquire, Abandon, LocalWork, LockUpload, ApplyReturns, Release,
                  Signal, SSHAnswers, FinalizeReturns
    <3>2. CASE Send(m)
      BY <3>2 DEF Send
    <3>3. CASE LocalWorkFails(m) \/ SendFails(m) \/ SSHDeadline(m)
      BY <3>3 DEF LocalWorkFails, SendFails, SSHDeadline
    <3>4. CASE Reply(m) \/ Rejected(m) \/ GiveUp(m)
      BY <2>0, <3>4 DEF Reply, Rejected, GiveUp, TypeOK
    <3>5. QED
      BY <2>2, <3>1, <3>2, <3>3, <3>4 DEF Worker
  <2>3. ASSUME NEW m \in Nodes, Hypervisor(m)
        PROVE  Kept(n)
    BY <2>0, <2>3 DEF Hypervisor, Serve, LateEffect, TypeOK
  <2>4. ASSUME NEW m \in Nodes, Environment(m)
        PROVE  Kept(n)
    <3>1. CASE m = n
      BY <2>4, <3>1 DEF Environment, OthersCreate, GuestInstalls
    <3>2. CASE m # n
      BY <2>0, <2>4, <3>2 DEF Environment, OthersCreate, GuestInstalls, TypeOK
    <3>3. QED
      BY <3>1, <3>2
  <2>5. CASE Terminated \/ UNCHANGED vars
    BY <2>5 DEF Terminated, vars
  <2>6. QED
    BY <1>1, <2>1, <2>2, <2>3, <2>4, <2>5 DEF Next
<1>2. IInv /\ [Next]_vars
      => [\A n \in Nodes :
             Cancelled /\ call[n] = "none" /\ late[n] = "none"
             => /\ call'[n] = "none"
                /\ vm'[n] # vm[n] => OthersCreate(n) \/ GuestInstalls(n)]_vars
  BY <1>1
<1>3. QED
  BY Invariance, <1>2, PTL DEF Spec, NothingNewAfterCancel

(* A returned `up` leaves no goroutine, call, token or lock behind.        *)
THEOREM NothingLeft == Spec => []NothingLeftRunning
<1>1. ASSUME IInv, Returned
      PROVE  sem = 0 /\ uploader = NoNode
             /\ \A n \in Nodes : call[n] = "none" /\ pc[n] \in {"wait", "done"}
  <2>1. \A n \in Nodes : pc[n] \in {"wait", "done"}
    BY <1>1 DEF IInv, PhaseInv
  <2>2. \A n \in Nodes : call[n] = "none"
    BY <1>1, <2>1 DEF IInv, CallInv
  <2>3. uploader = NoNode
    BY <1>1, <2>1 DEF IInv, TypeOK, UploadsSerialized, At
  <2>4. {n \in Nodes : HoldsToken(n)} = {}
    BY <2>1 DEF HoldsToken
  <2>5. sem = 0
    BY <1>1, <2>4, FS_EmptySet DEF IInv, TokensAreHeld
  <2>6. QED
    BY <2>1, <2>2, <2>3, <2>5
<1>2. IInv => NothingLeftRunning
  BY <1>1 DEF NothingLeftRunning
<1>3. QED
  BY Invariance, <1>2, PTL

-----------------------------------------------------------------------------
(* What `up` makes of the machines.                                        *)

(* The states of a machine on its way: 0 before create-vm, 3 ready to be   *)
(* started, 4 installing, 5 seen on SSH, 8 finalized.  Without a kickstart *)
(* storage 1, 2 and 3 are the same.                                        *)
Machine(v, s) ==
    IF s = 0 THEN v = NoVM \/ v = OthersVM
    ELSE /\ v \in VM
         /\ v.by = "proxctl"
         /\ v.on <=> s >= 4
         /\ v.ide2 <=> s < 7
         /\ v.ide3 <=> (opts.kickstartStorage /\ s >= 2 /\ s <= 5)
         /\ v.boot = IF s = 8 THEN "disk"
                     ELSE IF opts.kickstartStorage /\ s >= 3 THEN "install"
                     ELSE "default"
         /\ s < 4 => v.disk = "blank"
         /\ s > 4 => v.disk = "installed"

(* The state in which a request finds its machine, and in which it leaves  *)
(* it.                                                                     *)
From == [r \in Request |->
           CASE r = "attach-cdrom"   -> 1
             [] r = "set-boot-order" -> 2
             [] r = "start-vm"       -> 3
             [] r = "eject-ide3"     -> 5
             [] r = "eject-ide2"     -> 6
             [] r = "boot-from-disk" -> 7
             [] OTHER                -> 0]

To == [r \in Request |->
         IF r \in {"upload-iso", "verify-kickstart-iso"} THEN 0 ELSE From[r] + 1]

(* The requests that `up` makes.                                           *)
Sent == {"create-vm", "start-vm", "eject-ide3", "eject-ide2", "boot-from-disk",
         "upload-iso", "verify-kickstart-iso"}
        \cup {r \in {"attach-cdrom", "set-boot-order"} : opts.kickstartStorage}

(* The state a machine is in when Apply has k requests on it to go.        *)
ApplyStage(k) ==
    IF opts.kickstartStorage
    THEN IF k >= 4 THEN 0 ELSE 4 - k
    ELSE IF k >= 2 THEN 0 ELSE IF k = 1 THEN 3 ELSE 4

(* Steps whose effect is still to come.                                    *)
Left(n) == IF call[n] = "carried-out" THEN Len(todo[n]) - 1 ELSE Len(todo[n])

(* Finalize has dealt with node n.                                         *)
Past(n) ==
    \/ phase = "finalize" /\ n < next
    \/ Returned /\ ~opts.skipFinalize /\ \A m \in Nodes : outcome[m] = "ok"

StageNow(n) ==
    CASE pc[n] = "wait"     -> 0
      [] pc[n] = "run"      -> ApplyStage(Left(n))
      [] pc[n] = "finalize" -> 8 - Left(n)
      [] OTHER              -> IF Past(n) THEN 8 ELSE 4

IsSuffix(t, L) ==
    /\ t \in Seq(Step)
    /\ Len(t) <= Len(L)
    /\ \A i \in 1 .. Len(t) : t[i] = L[Len(L) - Len(t) + i]

Failed(n) == outcome[n] \in {"err", "cancelled"} \/ n \in errs

(* Where node n is: its steps, its outcome and its machine.                *)
StepsInv(n) ==
    /\ pc[n] = "wait" /\ phase = "apply" => todo[n] = ApplySteps(opts)
    /\ pc[n] = "run" => IsSuffix(todo[n], ApplySteps(opts))
    /\ pc[n] = "finalize" => IsSuffix(todo[n], FinalizeSteps)

OutcomeInv(n) ==
    /\ pc[n] \in {"wait", "run"} => outcome[n] = "none" /\ n \notin errs
    /\ pc[n] = "finalize" => outcome[n] = "ok" /\ n \notin errs
    /\ pc[n] \in {"unwind", "signal", "done"} => outcome[n] # "none"

MachineInv(n) ==
    /\ \E s \in 0 .. 8 : /\ Machine(vm[n], s)
                         /\ late[n] = "none" \/ (late[n] \in Sent /\ s = From[late[n]])
    /\ ~Failed(n) => late[n] = "none" /\ Machine(vm[n], StageNow(n))

(* What the phase of the main goroutine says of the outcomes.              *)
MainInv ==
    LET all(o) == \A n \in Nodes : outcome[n] = o IN
    /\ opts.dryRun => phase \in {"plan", "ok", "error"} /\ all("none")
    /\ phase = "plan" => all("none") /\ errs = {}
    /\ phase = "apply" => errs = {n \in Nodes : opts.continueOnError /\ outcome[n] = "err"}
    /\ phase \in {"verify", "finalize"} => all("ok")
    /\ phase = "verify" => errs = {}
    /\ phase = "finalize" => ~opts.skipFinalize /\ \A n \in errs : n < next
    /\ phase = "ok" => errs = {} /\ (~opts.dryRun => all("ok"))
    /\ phase = "error" =>
          \/ all("none")
          \/ all("ok")
          \/ /\ \E n \in Nodes : outcome[n] = "err"
             /\ opts.continueOnError =>
                   /\ \A n \in Nodes : outcome[n] \in {"ok", "err"}
                   /\ errs = {n \in Nodes : outcome[n] = "err"}

Track(n) == StepsInv(n) /\ OutcomeInv(n) /\ MachineInv(n)

(* In fail-fast mode a goroutine that failed and is done has told errgroup. *)
SignalInv ==
    \A n \in Nodes :
        pc[n] = "done" /\ ~opts.continueOnError /\ outcome[n] # "ok" => Cancelled

TrackInv == IInv /\ MainInv /\ SignalInv /\ \A n \in Nodes : Track(n)

-----------------------------------------------------------------------------
(* The step lists, seen from their end.                                    *)
LEMMA FromTheEnd ==
  ASSUME NEW o
  PROVE  LET L == ApplySteps(o) IN
         /\ o.kickstartStorage =>
               /\ Len(L) >= 5
               /\ L[Len(L)] = "start-vm" /\ L[Len(L) - 1] = "set-boot-order"
               /\ L[Len(L) - 2] = "attach-cdrom" /\ L[Len(L) - 3] = "create-vm"
               /\ \A i \in 1 .. Len(L) - 4 :
                     L[i] \in LocalStep \cup {"upload-iso", "verify-kickstart-iso"}
         /\ ~o.kickstartStorage =>
               /\ Len(L) >= 2
               /\ L[Len(L)] = "start-vm" /\ L[Len(L) - 1] = "create-vm"
               /\ \A i \in 1 .. Len(L) - 2 : L[i] \in LocalStep
<1> DEFINE L == ApplySteps(o)
<1>1. CASE o.kickstartStorage /\ o.skipKickstart
  <2>1. /\ Len(L) = 5 /\ L[1] = "verify-kickstart-iso"
        /\ L[2] = "create-vm" /\ L[3] = "attach-cdrom"
        /\ L[4] = "set-boot-order" /\ L[5] = "start-vm"
    BY <1>1 DEF ApplySteps, KickstartSteps, AttachSteps
  <2>2. QED
    BY <1>1, <2>1 DEF LocalStep
<1>2. CASE o.kickstartStorage /\ ~o.skipKickstart
  <2>1. /\ Len(L) = 7 /\ L[1] = "render-kickstart"
        /\ L[2] = "build-iso" /\ L[3] = "upload-iso"
        /\ L[4] = "create-vm" /\ L[5] = "attach-cdrom"
        /\ L[6] = "set-boot-order" /\ L[7] = "start-vm"
    BY <1>2 DEF ApplySteps, KickstartSteps, AttachSteps
  <2>2. QED
    BY <1>2, <2>1 DEF LocalStep
<1>3. CASE ~o.kickstartStorage /\ o.skipKickstart
  <2>1. /\ Len(L) = 2 /\ L[1] = "create-vm"
        /\ L[2] = "start-vm"
    BY <1>3 DEF ApplySteps, KickstartSteps, AttachSteps
  <2>2. QED
    BY <1>3, <2>1 DEF LocalStep
<1>4. CASE ~o.kickstartStorage /\ ~o.skipKickstart
  <2>1. /\ Len(L) = 4 /\ L[1] = "render-kickstart"
        /\ L[2] = "build-iso" /\ L[3] = "create-vm"
        /\ L[4] = "start-vm"
    BY <1>4 DEF ApplySteps, KickstartSteps, AttachSteps
  <2>2. QED
    BY <1>4, <2>1 DEF LocalStep
<1>5. QED
  BY <1>1, <1>2, <1>3, <1>4

LEMMA SuffixTail ==
  ASSUME NEW L \in Seq(Step), NEW t, IsSuffix(t, L), t # <<>>
  PROVE  /\ Len(t) \in 1 .. Len(L) /\ Head(t) = L[Len(L) - Len(t) + 1]
         /\ IsSuffix(Tail(t), L) /\ Len(Tail(t)) = Len(t) - 1
<1>1. t \in Seq(Step) /\ Len(t) \in Nat /\ Len(t) >= 1
  BY DEF IsSuffix
<1>2. Head(t) = t[1] /\ Tail(t) \in Seq(Step) /\ Len(Tail(t)) = Len(t) - 1
      /\ \A i \in 1 .. Len(t) - 1 : Tail(t)[i] = t[i + 1]
  BY <1>1
<1>3. Len(L) \in Nat
  OBVIOUS
<1>4. QED
  BY <1>1, <1>2, <1>3 DEF IsSuffix

(* What the k-th step from the end of Apply is.                            *)
LEMMA ApplyStep ==
  ASSUME NEW k \in 1 .. Len(ApplySteps(opts)), NEW r,
         r = ApplySteps(opts)[Len(ApplySteps(opts)) - k + 1]
  PROVE  /\ r \in LocalStep \cup Sent
         /\ ApplyStage(k) \in 0 .. 8 /\ ApplyStage(k - 1) \in 0 .. 8
         /\ r \in LocalStep => ApplyStage(k) = 0 /\ ApplyStage(k - 1) = 0
         /\ r \in Request =>
               /\ From[r] = ApplyStage(k)
               /\ \/ To[r] = ApplyStage(k - 1)
                  \/ To[r] = 1 /\ ApplyStage(k - 1) = 3 /\ ~opts.kickstartStorage
<1> DEFINE L == ApplySteps(opts)
<1>0. L \in Seq(Step) /\ Len(L) \in Nat /\ k \in Nat /\ k >= 1 /\ k <= Len(L)
  BY ApplyStepsType
<1>1. CASE opts.kickstartStorage
  <2>1. /\ Len(L) >= 5
        /\ k = 1 => r = "start-vm"
        /\ k = 2 => r = "set-boot-order"
        /\ k = 3 => r = "attach-cdrom"
        /\ k = 4 => r = "create-vm"
        /\ k > 4 => r \in LocalStep \cup {"upload-iso", "verify-kickstart-iso"}
    BY <1>0, <1>1, FromTheEnd
  <2>2. k = 1 \/ k = 2 \/ k = 3 \/ k = 4 \/ k > 4
    BY <1>0
  <2>3. QED
    BY <1>0, <1>1, <2>1, <2>2, SMTT(20)
    DEF ApplyStage, From, To, Sent, LocalStep, Request, VMRequest
<1>2. CASE ~opts.kickstartStorage
  <2>1. /\ Len(L) >= 2
        /\ k = 1 => r = "start-vm"
        /\ k = 2 => r = "create-vm"
        /\ k > 2 => r \in LocalStep
    BY <1>0, <1>2, FromTheEnd
  <2>2. k = 1 \/ k = 2 \/ k > 2
    BY <1>0
  <2>3. QED
    BY <1>0, <1>2, <2>1, <2>2, SMTT(20)
    DEF ApplyStage, From, To, Sent, LocalStep, Request, VMRequest
<1>3. QED
  BY <1>1, <1>2

(* What the k-th step from the end of Finalize is.                         *)
LEMMA FinalizeStep ==
  ASSUME NEW k \in 1 .. Len(FinalizeSteps), NEW r,
         r = FinalizeSteps[Len(FinalizeSteps) - k + 1]
  PROVE  /\ Len(FinalizeSteps) = 4
         /\ r \in Sent \cup {"wait-ssh"} /\ r \notin LocalStep
         /\ r = "wait-ssh" <=> k = 4
         /\ r \in Request => From[r] = 8 - k /\ To[r] = 8 - (k - 1)
<1>1. Len(FinalizeSteps) = 4 /\ k \in {1, 2, 3, 4}
  BY DEF FinalizeSteps
<1>2. r = IF k = 4 THEN "wait-ssh" ELSE IF k = 3 THEN "eject-ide3"
          ELSE IF k = 2 THEN "eject-ide2" ELSE "boot-from-disk"
  BY <1>1 DEF FinalizeSteps
<1>3. QED
  BY <1>1, <1>2 DEF From, To, Sent, LocalStep, Request, VMRequest

(* A request carried out takes a machine from one state to the next.       *)
LEMMA Advances ==
  ASSUME NEW r \in Sent, NEW v \in VM, NEW vs, Machine(v, From[r]), Accepts(r, v, vs)
  PROVE  Machine(Effect(r, v), To[r])
<1>1. Effect(r, v) \in VM
  BY EffectType
<1>2. CASE r = "create-vm"
  <2>1. From[r] = 0 /\ To[r] = 1 /\ Effect(r, v) = Created
    BY <1>2 DEF From, To, Request, VMRequest, Effect
  <2>2. /\ Created.by = "proxctl" /\ Created.on = FALSE /\ Created.ide2 = TRUE
        /\ Created.ide3 = FALSE /\ Created.boot = "default" /\ Created.disk = "blank"
    BY DEF Created, NoVM
  <2>3. QED
    BY <1>1, <2>1, <2>2 DEF Machine
<1>3. CASE r \in {"upload-iso", "verify-kickstart-iso"}
  <2>1. From[r] = 0 /\ To[r] = 0 /\ Effect(r, v) = v
    BY <1>3 DEF From, To, Request, VMRequest, Effect
  <2>2. QED
    BY <2>1
<1>4. CASE r = "attach-cdrom"
  <2>1. From[r] = 1 /\ To[r] = 2 /\ Effect(r, v) = WithKickstart(v)
    BY <1>4 DEF From, To, Request, VMRequest, Effect
  <2>2. /\ Effect(r, v).by = v.by /\ Effect(r, v).on = v.on
        /\ Effect(r, v).ide2 = v.ide2 /\ Effect(r, v).ide3 = TRUE
        /\ Effect(r, v).boot = v.boot /\ Effect(r, v).disk = v.disk
    BY <1>4, <2>1 DEF VM, WithKickstart
  <2>3. opts.kickstartStorage
    BY <1>4 DEF Sent
  <2>4. QED
    BY <1>1, <2>1, <2>2, <2>3 DEF Machine
<1>5. CASE r = "set-boot-order"
  <2>1. From[r] = 2 /\ To[r] = 3 /\ Effect(r, v) = BootFrom(v, "install")
    BY <1>5 DEF From, To, Request, VMRequest, Effect
  <2>2. /\ Effect(r, v).by = v.by /\ Effect(r, v).on = v.on
        /\ Effect(r, v).ide2 = v.ide2 /\ Effect(r, v).ide3 = v.ide3
        /\ Effect(r, v).boot = "install" /\ Effect(r, v).disk = v.disk
    BY <1>5, <2>1 DEF VM, BootFrom
  <2>3. opts.kickstartStorage
    BY <1>5 DEF Sent
  <2>4. QED
    BY <1>1, <2>1, <2>2, <2>3 DEF Machine
<1>6. CASE r = "start-vm"
  <2>1. From[r] = 3 /\ To[r] = 4 /\ Effect(r, v) = Power(v, TRUE)
    BY <1>6 DEF From, To, Request, VMRequest, Effect
  <2>2. /\ Effect(r, v).by = v.by /\ Effect(r, v).on = TRUE
        /\ Effect(r, v).ide2 = v.ide2 /\ Effect(r, v).ide3 = v.ide3
        /\ Effect(r, v).boot = v.boot
    BY <1>6, <2>1 DEF VM, Power
  <2>3. /\ v.by = "proxctl" /\ v.ide2 = TRUE /\ (v.ide3 <=> opts.kickstartStorage)
        /\ v.boot = IF opts.kickstartStorage THEN "install" ELSE "default"
    BY <2>1 DEF Machine, VM
  <2>4. Machine(Effect(r, v), 4)
    BY <1>1, <2>2, <2>3 DEF Machine
  <2>5. QED
    BY <2>1, <2>4
<1>7. CASE r = "eject-ide3"
  <2>1. From[r] = 5 /\ To[r] = 6 /\ Effect(r, v) = Ejected(v, "ide3")
    BY <1>7 DEF From, To, Request, VMRequest, Effect
  <2>2. /\ Effect(r, v).by = v.by /\ Effect(r, v).on = v.on
        /\ Effect(r, v).ide2 = v.ide2 /\ Effect(r, v).ide3 = FALSE
        /\ Effect(r, v).boot = v.boot /\ Effect(r, v).disk = v.disk
    BY <1>7, <2>1 DEF VM, Ejected
  <2>3. QED
    BY <1>1, <2>1, <2>2 DEF Machine
<1>8. CASE r = "eject-ide2"
  <2>1. From[r] = 6 /\ To[r] = 7 /\ Effect(r, v) = Ejected(v, "ide2")
    BY <1>8 DEF From, To, Request, VMRequest, Effect
  <2>2. /\ Effect(r, v).by = v.by /\ Effect(r, v).on = v.on
        /\ Effect(r, v).ide2 = FALSE /\ Effect(r, v).ide3 = v.ide3
        /\ Effect(r, v).boot = v.boot /\ Effect(r, v).disk = v.disk
    BY <1>8, <2>1 DEF VM, Ejected
  <2>3. QED
    BY <1>1, <2>1, <2>2 DEF Machine
<1>9. CASE r = "boot-from-disk"
  <2>1. From[r] = 7 /\ To[r] = 8 /\ Effect(r, v) = BootFrom(v, "disk")
    BY <1>9 DEF From, To, Request, VMRequest, Effect
  <2>2. /\ Effect(r, v).by = v.by /\ Effect(r, v).on = v.on
        /\ Effect(r, v).ide2 = v.ide2 /\ Effect(r, v).ide3 = v.ide3
        /\ Effect(r, v).boot = "disk" /\ Effect(r, v).disk = v.disk
    BY <1>9, <2>1 DEF VM, BootFrom
  <2>3. QED
    BY <1>1, <2>1, <2>2 DEF Machine
<1>10. QED
  BY <1>2, <1>3, <1>4, <1>5, <1>6, <1>7, <1>8, <1>9 DEF Sent

-----------------------------------------------------------------------------
(* What a machine's fields say of its state.                               *)
LEMMA MachineFacts ==
  ASSUME NEW v, NEW s \in 0 .. 8, Machine(v, s)
  PROVE  /\ v \in VM
         /\ v.by # "proxctl" => s = 0
         /\ v.by = "proxctl" => s # 0
         /\ ~Exists(v) => v = NoVM
         /\ CanInstall(v) => s = 4
<1>1. /\ NoVM \in VM /\ NoVM.by = "nobody" /\ NoVM.on = FALSE
      /\ OthersVM \in VM /\ OthersVM.by = "other" /\ OthersVM.disk = "installed"
  BY DEF NoVM, OthersVM, VM
<1>2. CASE s = 0
  BY <1>1, <1>2 DEF Machine, Exists, CanInstall
<1>3. CASE s # 0
  BY <1>3 DEF Machine, Exists, CanInstall
<1>4. QED
  BY <1>2, <1>3

LEMMA PhaseOf ==
  ASSUME IInv, NEW n \in Nodes
  PROVE  /\ pc[n] \in {"run", "unwind", "signal"} => phase = "apply"
         /\ pc[n] = "finalize" => phase = "finalize" /\ next = n
         /\ pc[n] \notin {"run", "finalize"} => call[n] = "none"
BY DEF IInv, TypeOK, PhaseInv, CallInv, Returned

(* A node of which nothing changes.                                        *)
LEMMA Frame ==
  ASSUME NEW n \in Nodes, Track(n), opts' = opts,
         pc'[n] = pc[n], todo'[n] = todo[n], outcome'[n] = outcome[n],
         call'[n] = call[n], late'[n] = late[n], vm'[n] = vm[n],
         n \in errs' <=> n \in errs,
         pc[n] \in {"wait", "run", "finalize"} \/ (Past(n)' <=> Past(n)),
         pc[n] = "wait" /\ phase' = "apply" => phase = "apply"
  PROVE  Track(n)'
<1>1. /\ \A v, s : Machine(v, s)' <=> Machine(v, s)
      /\ Sent' = Sent
      /\ Left(n)' = Left(n)
      /\ \A k : ApplyStage(k)' = ApplyStage(k)
  BY DEF Machine, Sent, Left, ApplyStage
<1>2. StageNow(n)' = StageNow(n)
  <2>1. CASE pc[n] = "wait"
    BY <2>1 DEF StageNow
  <2>2. CASE pc[n] = "run"
    BY <1>1, <2>2 DEF StageNow
  <2>3. CASE pc[n] = "finalize"
    BY <1>1, <2>3 DEF StageNow
  <2>4. CASE pc[n] \notin {"wait", "run", "finalize"}
    BY <2>4 DEF StageNow
  <2>5. QED
    BY <2>1, <2>2, <2>3, <2>4
<1>3. StepsInv(n)'
  BY DEF Track, StepsInv, IsSuffix
<1>4. OutcomeInv(n)'
  BY DEF Track, OutcomeInv
<1>5. MachineInv(n)'
  <2>1. PICK s \in 0 .. 8 : /\ Machine(vm[n], s)
                            /\ late[n] = "none" \/ (late[n] \in Sent /\ s = From[late[n]])
    BY DEF Track, MachineInv
  <2>2. /\ Machine(vm[n], s)'
        /\ late'[n] = "none" \/ (late'[n] \in Sent' /\ s = From[late'[n]])
    BY <1>1, <2>1 DEF Machine
  <2>3. ~Failed(n)' => late'[n] = "none" /\ Machine(vm[n], StageNow(n))
    BY DEF Track, MachineInv, Failed
  <2>4. \A x : Machine(vm[n], x)' <=> Machine(vm[n], x)
    BY DEF Machine
  <2>5. ~Failed(n)' => late'[n] = "none" /\ Machine(vm[n], StageNow(n))'
    BY <1>2, <2>3, <2>4
  <2>6. QED
    BY <2>2, <2>5 DEF MachineInv, From
<1>6. QED
  BY <1>3, <1>4, <1>5 DEF Track

(* A step of node n leaves the other nodes alone.                          *)
Same(m) ==
    /\ pc'[m] = pc[m] /\ todo'[m] = todo[m] /\ outcome'[m] = outcome[m]
    /\ call'[m] = call[m] /\ late'[m] = late[m]
    /\ vm'[m] = vm[m]
    /\ m \in errs' <=> m \in errs

Own(n) ==
    /\ opts' = opts /\ phase' = phase
    /\ \A m \in Nodes \ {n} : Same(m)
    /\ next' = next \/ (phase = "finalize" /\ next = n /\ next' = n + 1)
    /\ Returned => outcome' = outcome

LEMMA Alone ==
  ASSUME TrackInv, NEW n \in Nodes, Own(n), Track(n)'
  PROVE  \A m \in Nodes : Track(m)'
<1>1. ASSUME NEW m \in Nodes \ {n}
      PROVE  Track(m)'
  <2>1. m \in Int /\ n \in Int /\ m # n
    BY NAssumption DEF Nodes
  <2>2. (phase = "finalize" /\ m < next)' <=> (phase = "finalize" /\ m < next)
    BY <2>1 DEF Own, TrackInv, IInv, TypeOK
  <2>3. Past(m)' <=> Past(m)
    BY <2>2 DEF Own, Past, Returned
  <2>4. Track(m) /\ Same(m)
    BY DEF TrackInv, Own
  <2>5. QED
    BY <2>3, <2>4, Frame DEF Own, Same
<1>2. QED
  BY <1>1

LEMMA OwnFails ==
  ASSUME IInv, NEW n \in Nodes, NEW how \in {"err", "cancelled"}, Fails(n, how),
         late' = late \/ late' = [late EXCEPT ![n] = Head(todo[n])],
         UNCHANGED <<vm>>
  PROVE  Own(n)
<1>1. /\ opts' = opts /\ phase' = phase /\ todo' = [todo EXCEPT ![n] = <<>>]
      /\ call' = [call EXCEPT ![n] = "none"] /\ vm' = vm
      /\ pc[n] \in {"run", "finalize"}
  BY DEF Fails, StepEnds, StepFailed
<1>2. /\ pc' = [pc EXCEPT ![n] = "unwind"] \/ pc' = [pc EXCEPT ![n] = "done"]
      /\ outcome' = [outcome EXCEPT ![n] = how] \/ outcome' = outcome
      /\ errs' = errs \cup {n} \/ errs' = errs
  BY DEF Fails, StepFailed
<1>3. \A m \in Nodes \ {n} : Same(m)
  BY <1>1, <1>2 DEF Same, IInv, TypeOK
<1>4. next' = next \/ (phase = "finalize" /\ next = n /\ next' = n + 1)
  BY <1>1, PhaseOf DEF Fails, StepFailed
<1>5. ~Returned
  BY <1>1, PhaseOf DEF Returned
<1>6. QED
  BY <1>1, <1>3, <1>4, <1>5 DEF Own

LEMMA OwnSteps ==
  ASSUME IInv, NEW n \in Nodes, Worker(n) \/ Hypervisor(n) \/ Environment(n)
  PROVE  Own(n)
<1> USE DEF IInv, TypeOK, Same, main, workers, rpc, sync, server
<1>1. CASE LocalWorkFails(n) \/ SendFails(n) \/ Rejected(n) \/ GiveUp(n) \/ SSHDeadline(n)
  <2>1. PICK how \in {"err", "cancelled"} : Fails(n, how)
    BY <1>1, Failures
  <2>2. late' = late \/ late' = [late EXCEPT ![n] = Head(todo[n])]
    BY <1>1 DEF LocalWorkFails, SendFails, Rejected, GiveUp, SSHDeadline
  <2>3. UNCHANGED <<vm>>
    BY <1>1 DEF LocalWorkFails, SendFails, Rejected, GiveUp, SSHDeadline
  <2>4. QED
    BY <2>1, <2>2, <2>3, OwnFails
<1>2. CASE Acquire(n)
  BY <1>2 DEF Acquire, Own, Returned
<1>3. CASE Abandon(n)
  BY <1>3 DEF Abandon, Own, Returned
<1>4. CASE LocalWork(n)
  BY <1>4 DEF LocalWork, StepDone, Own, Returned
<1>5. CASE LockUpload(n)
  BY <1>5 DEF LockUpload, Own, Returned
<1>6. CASE Send(n)
  BY <1>6 DEF Send, Own, Returned
<1>7. CASE Reply(n)
  BY <1>7 DEF Reply, StepDone, Own, Returned
<1>8. CASE ApplyReturns(n)
  <2>1. phase = "apply"
    BY <1>8, PhaseOf DEF ApplyReturns
  <2>2. QED
    BY <1>8, <2>1 DEF ApplyReturns, Own, Returned
<1>9. CASE Release(n) \/ Signal(n)
  BY <1>9 DEF Release, Signal, Own, Returned
<1>10. CASE SSHAnswers(n)
  BY <1>10 DEF SSHAnswers, StepDone, Own, Returned
<1>11. CASE FinalizeReturns(n)
  <2>1. phase = "finalize" /\ next = n
    BY <1>11, PhaseOf DEF FinalizeReturns
  <2>2. QED
    BY <1>11, <2>1 DEF FinalizeReturns, Own, Returned
<1>12. CASE Serve(n)
  BY <1>12 DEF Serve, Own
<1>13. CASE LateEffect(n)
  BY <1>13 DEF LateEffect, Own
<1>14. CASE OthersCreate(n) \/ GuestInstalls(n)
  BY <1>14 DEF OthersCreate, GuestInstalls, Own
<1>15. QED
  BY <1>1, <1>2, <1>3, <1>4, <1>5, <1>6, <1>7, <1>8, <1>9, <1>10, <1>11, <1>12, <1>13,
     <1>14
  DEF Worker, Hypervisor, Environment

-----------------------------------------------------------------------------
(* The state of node n's machine with k steps to go.                       *)
StageAt(n, k) == IF pc[n] = "run" THEN ApplyStage(k) ELSE 8 - k

LEMMA Working ==
  ASSUME TrackInv, NEW n \in Nodes, pc[n] \in {"run", "finalize"}
  PROVE  /\ todo[n] \in Seq(Step) /\ Len(todo[n]) \in Nat /\ Left(n) \in Nat
         /\ late[n] = "none" /\ ~Failed(n)
         /\ Machine(vm[n], StageAt(n, Left(n)))
         /\ StageAt(n, Left(n)) \in 0 .. 8
<1>1. Track(n) /\ n \notin errs /\ outcome[n] \in {"none", "ok"}
  BY DEF TrackInv, Track, OutcomeInv
<1>2. ~Failed(n) /\ late[n] = "none" /\ Machine(vm[n], StageNow(n))
  BY <1>1 DEF Track, MachineInv, Failed
<1>3. todo[n] \in Seq(Step) /\ Len(todo[n]) \in Nat
  BY DEF TrackInv, IInv, TypeOK
<1>4. call[n] = "carried-out" => Len(todo[n]) >= 1
  BY <1>3 DEF TrackInv, IInv, CallInv
<1>5. Left(n) \in Nat /\ Left(n) <= Len(todo[n])
  BY <1>3, <1>4 DEF Left
<1>6. StageNow(n) = StageAt(n, Left(n))
  BY DEF StageNow, StageAt
<1>7. StageAt(n, Left(n)) \in 0 .. 8
  <2>1. CASE pc[n] = "run"
    BY <1>5, <2>1 DEF StageAt, ApplyStage
  <2>2. CASE pc[n] = "finalize"
    <3>1. Len(todo[n]) <= 4
      BY <1>1, <2>2 DEF Track, StepsInv, IsSuffix, FinalizeSteps
    <3>2. QED
      BY <1>5, <2>2, <3>1 DEF StageAt
  <2>3. QED
    BY <2>1, <2>2
<1>8. QED
  BY <1>2, <1>3, <1>5, <1>6, <1>7

(* The next step of a goroutine, and what it does for its machine.         *)
LEMMA NextStep ==
  ASSUME TrackInv, NEW n \in Nodes, pc[n] \in {"run", "finalize"}, todo[n] # <<>>,
         NEW k, k = Len(todo[n]), NEW r, r = Head(todo[n])
  PROVE  /\ k \in Nat /\ k >= 1 /\ Len(Tail(todo[n])) = k - 1
         /\ StageAt(n, k) \in 0 .. 8 /\ StageAt(n, k - 1) \in 0 .. 8
         /\ r \in LocalStep \cup Sent \cup {"wait-ssh"}
         /\ r \in LocalStep => /\ pc[n] = "run"
                               /\ StageAt(n, k) = 0 /\ StageAt(n, k - 1) = 0
         /\ r = "wait-ssh" => pc[n] = "finalize" /\ k = 4
         /\ r \in Request => /\ r \in Sent /\ From[r] = StageAt(n, k)
                             /\ \A v : Machine(v, To[r]) => Machine(v, StageAt(n, k - 1))
         /\ pc[n] = "run" => IsSuffix(Tail(todo[n]), ApplySteps(opts))
         /\ pc[n] = "finalize" => IsSuffix(Tail(todo[n]), FinalizeSteps)
<1>1. /\ pc[n] = "run" => IsSuffix(todo[n], ApplySteps(opts))
      /\ pc[n] = "finalize" => IsSuffix(todo[n], FinalizeSteps)
      /\ k \in Nat /\ k >= 1
  BY DEF TrackInv, Track, StepsInv, IInv, TypeOK
<1>2. CASE pc[n] = "run"
  <2>1. /\ k \in 1 .. Len(ApplySteps(opts))
        /\ r = ApplySteps(opts)[Len(ApplySteps(opts)) - k + 1]
        /\ IsSuffix(Tail(todo[n]), ApplySteps(opts)) /\ Len(Tail(todo[n])) = k - 1
    BY <1>1, <1>2, SuffixTail, ApplyStepsType
  <2>2. StageAt(n, k) = ApplyStage(k) /\ StageAt(n, k - 1) = ApplyStage(k - 1)
    BY <1>2 DEF StageAt
  <2>3. ~opts.kickstartStorage => \A v : Machine(v, 1) => Machine(v, 3)
    BY DEF Machine
  <2>4. /\ r \in LocalStep \cup Sent
        /\ r \in LocalStep => ApplyStage(k) = 0 /\ ApplyStage(k - 1) = 0
        /\ ApplyStage(k) \in 0 .. 8 /\ ApplyStage(k - 1) \in 0 .. 8
        /\ r \in Request =>
               /\ From[r] = ApplyStage(k)
               /\ \/ To[r] = ApplyStage(k - 1)
                  \/ To[r] = 1 /\ ApplyStage(k - 1) = 3 /\ ~opts.kickstartStorage
    BY <2>1, ApplyStep
  <2>5. r \in Request => /\ r \in Sent
                         /\ \A v : Machine(v, To[r]) => Machine(v, ApplyStage(k - 1))
    BY <2>3, <2>4 DEF LocalStep, Request, VMRequest
  <2>6. r # "wait-ssh"
    BY <2>4 DEF LocalStep, Sent
  <2>7. QED
    BY <1>1, <1>2, <2>1, <2>2, <2>4, <2>5, <2>6
<1>3. CASE pc[n] = "finalize"
  <2>1. /\ k \in 1 .. Len(FinalizeSteps)
        /\ r = FinalizeSteps[Len(FinalizeSteps) - k + 1]
        /\ IsSuffix(Tail(todo[n]), FinalizeSteps) /\ Len(Tail(todo[n])) = k - 1
    BY <1>1, <1>3, SuffixTail, FinalizeStepsType
  <2>2. StageAt(n, k) = 8 - k /\ StageAt(n, k - 1) = 8 - (k - 1)
    BY <1>3 DEF StageAt
  <2>3. /\ Len(FinalizeSteps) = 4
        /\ r \in Sent \cup {"wait-ssh"} /\ r \notin LocalStep
        /\ r = "wait-ssh" => k = 4
        /\ r \in Request => From[r] = 8 - k /\ To[r] = 8 - (k - 1)
    BY <2>1, FinalizeStep
  <2>4. "wait-ssh" \notin Request
    BY DEF Request, VMRequest
  <2>5. StageAt(n, k) \in 0 .. 8 /\ StageAt(n, k - 1) \in 0 .. 8
    <3>1. k \in 1 .. 4
      BY <2>1, <2>3
    <3>2. \A j \in 1 .. 4 : 8 - j \in 0 .. 8 /\ 8 - (j - 1) \in 0 .. 8
      OBVIOUS
    <3>3. QED
      BY <2>2, <3>1, <3>2
  <2>6. r \in Request => /\ r \in Sent /\ From[r] = StageAt(n, k)
                         /\ To[r] = StageAt(n, k - 1)
    BY <2>2, <2>3, <2>4
  <2>7. r \in LocalStep \cup Sent \cup {"wait-ssh"} /\ r \notin LocalStep
    BY <2>1, <2>3, FinalizeStep
  <2>8. QED
    BY <1>1, <1>3, <2>1, <2>3, <2>5, <2>6, <2>7
<1>4. QED
  BY <1>2, <1>3

(* A request at the head of a step list leads from its stage to the next.   *)
LEMMA RequestStep ==
  ASSUME TrackInv, NEW n \in Nodes, NEW r \in Request, At(n, r)
  PROVE  /\ r \in Sent /\ From[r] = StageAt(n, Len(todo[n]))
         /\ \A v : Machine(v, To[r]) => Machine(v, StageAt(n, Len(todo[n]) - 1))
<1>1. pc[n] \in {"run", "finalize"} /\ todo[n] # <<>> /\ r = Head(todo[n])
  BY DEF At
<1>2. PICK k : k = Len(todo[n])
  OBVIOUS
<1>3. /\ r \in Sent /\ From[r] = StageAt(n, k)
      /\ \A v : Machine(v, To[r]) => Machine(v, StageAt(n, k - 1))
  <2>1. r \in Request => /\ r \in Sent /\ From[r] = StageAt(n, k)
                         /\ \A v : Machine(v, To[r]) => Machine(v, StageAt(n, k - 1))
    BY <1>1, <1>2, NextStep, SMTT(60)
  <2>2. QED
    BY <2>1, Zenon
<1>4. QED
  BY <1>2, <1>3, Zenon

LEMMA TrackSucceeds ==
  ASSUME TrackInv, NEW n \in Nodes, Succeeds(n), late' = late, vm' = vm,
         Machine(vm[n], StageAt(n, Len(todo[n]) - 1))
  PROVE  Track(n)'
<1>1. /\ pc[n] \in {"run", "finalize"} /\ todo[n] # <<>> /\ pc' = pc /\ opts' = opts
      /\ todo'[n] = Tail(todo[n]) /\ call'[n] = "none" /\ outcome' = outcome /\ errs' = errs
  BY DEF Succeeds, StepEnds, StepDone, TrackInv, IInv, TypeOK
<1>2. /\ late[n] = "none" /\ ~Failed(n) /\ Track(n)
  BY <1>1, Working DEF TrackInv
<1>3. /\ Len(todo'[n]) = Len(todo[n]) - 1
      /\ pc[n] = "run" => IsSuffix(Tail(todo[n]), ApplySteps(opts))
      /\ pc[n] = "finalize" => IsSuffix(Tail(todo[n]), FinalizeSteps)
      /\ StageAt(n, Len(todo[n]) - 1) \in 0 .. 8
  BY <1>1, NextStep
<1>4. StepsInv(n)'
  BY <1>1, <1>3 DEF StepsInv, IsSuffix
<1>5. OutcomeInv(n)'
  BY <1>1, <1>2 DEF Track, OutcomeInv
<1>6. Machine(vm[n], StageNow(n))' /\ StageNow(n)' \in 0 .. 8
  <2>1. Left(n)' = Len(todo[n]) - 1
    BY <1>1, <1>3 DEF Left
  <2>2. StageNow(n)' = StageAt(n, Len(todo[n]) - 1)
    BY <1>1, <2>1 DEF StageNow, StageAt, ApplyStage
  <2>3. \A x : Machine(vm[n], x)' <=> Machine(vm[n], x)
    BY <1>1 DEF Machine
  <2>4. QED
    BY <1>3, <2>2, <2>3
<1>7. QED
  BY <1>2, <1>4, <1>5, <1>6 DEF Track, MachineInv

LEMMA TrackFails ==
  ASSUME TrackInv, NEW n \in Nodes, NEW how \in {"err", "cancelled"}, Fails(n, how),
         \/ late' = late
         \/ /\ call[n] = "sent" /\ Head(todo[n]) \in Request
            /\ late' = [late EXCEPT ![n] = Head(todo[n])],
         UNCHANGED <<vm>>
  PROVE  Track(n)'
<1>1. /\ pc[n] \in {"run", "finalize"} /\ todo[n] # <<>> /\ opts' = opts
      /\ vm' = vm
  BY DEF Fails, StepEnds
<1>2. /\ pc[n] = "run" => pc'[n] = "unwind" /\ outcome'[n] = how
      /\ pc[n] # "run" => pc'[n] = "done" /\ n \in errs' /\ outcome' = outcome
  BY DEF Fails, StepFailed, TrackInv, IInv, TypeOK
<1>3. Failed(n)'
  BY <1>1, <1>2 DEF Failed
<1>4. StepsInv(n)'
  BY <1>1, <1>2 DEF StepsInv
<1>5. OutcomeInv(n)'
  BY <1>1, <1>2 DEF OutcomeInv, TrackInv, Track
<1>6. /\ late[n] = "none" /\ Machine(vm[n], StageAt(n, Left(n)))
      /\ StageAt(n, Left(n)) \in 0 .. 8
  BY <1>1, Working
<1>7. late'[n] = "none" \/ (late'[n] \in Sent /\ StageAt(n, Left(n)) = From[late'[n]])
  <2>1. CASE late' = late
    BY <1>6, <2>1
  <2>2. CASE /\ call[n] = "sent" /\ Head(todo[n]) \in Request
             /\ late' = [late EXCEPT ![n] = Head(todo[n])]
    <3>1. Left(n) = Len(todo[n]) /\ late'[n] = Head(todo[n])
      BY <2>2 DEF Left, TrackInv, IInv, TypeOK
    <3>2. QED
      BY <1>1, <2>2, <3>1, NextStep
  <2>3. QED
    BY <2>1, <2>2
<1>8. MachineInv(n)'
  <2>1. \A x : Machine(vm[n], x)' <=> Machine(vm[n], x)
    BY <1>1 DEF Machine
  <2>2. Sent' = Sent
    BY <1>1 DEF Sent
  <2>3. QED
    BY <1>3, <1>6, <1>7, <2>1, <2>2 DEF MachineInv, From
<1>9. QED
  BY <1>4, <1>5, <1>8 DEF Track

LEMMA TrackStarts ==
  ASSUME TrackInv, NEW n \in Nodes, pc[n] = "wait", phase = "apply", pc'[n] = "run",
         UNCHANGED <<opts, todo, outcome, call, late, errs, vm>>
  PROVE  Track(n)'
<1> DEFINE L == ApplySteps(opts)
<1>1. /\ Track(n) /\ todo[n] = L /\ call[n] = "none"
      /\ outcome[n] = "none" /\ n \notin errs /\ late[n] = "none"
      /\ Machine(vm[n], 0)
  BY PhaseOf DEF TrackInv, Track, StepsInv, OutcomeInv, MachineInv, Failed, StageNow
<1>2. L \in Seq(Step)
  BY ApplyStepsType
<1>3. IsSuffix(L, L)
  BY <1>2 DEF IsSuffix
<1>4. StepsInv(n)'
  BY <1>1, <1>3 DEF StepsInv, IsSuffix
<1>5. OutcomeInv(n)'
  BY <1>1 DEF OutcomeInv
<1>6. StageNow(n)' = 0
  <2>1. Left(n)' = Len(L)
    BY <1>1 DEF Left
  <2>2. ApplyStage(Len(L)) = 0
    BY FromTheEnd, <1>2 DEF ApplyStage
  <2>3. QED
    BY <2>1, <2>2 DEF StageNow, ApplyStage
<1>7. Machine(vm[n], 0)'
  BY <1>1 DEF Machine
<1>8. QED
  BY <1>1, <1>4, <1>5, <1>6, <1>7 DEF Track, MachineInv

LEMMA TrackWorker ==
  ASSUME TrackInv, NEW n \in Nodes, Worker(n)
  PROVE  Track(n)'
<1> USE DEF main, workers, rpc, sync, server
<1>0. TypeOK /\ IInv /\ Track(n)
  BY DEF TrackInv, IInv
<1>1. CASE Acquire(n)
  <2>1. pc[n] = "wait" /\ phase = "apply" /\ pc'[n] = "run"
        /\ UNCHANGED <<opts, todo, outcome, call, late, errs, vm>>
    BY <1>0, <1>1 DEF Acquire, TypeOK
  <2>2. QED
    BY <2>1, TrackStarts
<1>2. CASE Abandon(n)
  <2>1. /\ pc[n] = "wait" /\ pc'[n] = "signal" /\ outcome'[n] = "cancelled"
        /\ UNCHANGED <<opts, todo, call, late, errs, vm>>
    BY <1>0, <1>2 DEF Abandon, TypeOK
  <2>2. late[n] = "none" /\ Machine(vm[n], 0)
    BY <1>0, <2>1 DEF Track, OutcomeInv, MachineInv, Failed, StageNow
  <2>3. Machine(vm[n], 0)' /\ Failed(n)'
    BY <2>1, <2>2 DEF Machine, Failed
  <2>4. QED
    BY <2>1, <2>2, <2>3 DEF Track, StepsInv, OutcomeInv, MachineInv
<1>3. CASE LocalWork(n) \/ Reply(n) \/ SSHAnswers(n)
  <2> DEFINE k == Len(todo[n])
             r == Head(todo[n])
  <2>1. Succeeds(n) /\ pc[n] \in {"run", "finalize"} /\ todo[n] # <<>>
    BY <1>0, <1>3, Successes DEF Succeeds, StepEnds
  <2>2. late' = late /\ vm' = vm
    BY <1>3 DEF LocalWork, Reply, SSHAnswers
  <2>3. Machine(vm[n], StageAt(n, Left(n)))
    BY <2>1, Working
  <2>4. CASE LocalWork(n)
    <3>1. PICK s \in LocalStep : At(n, s)
      BY <2>4 DEF LocalWork
    <3>2. r \in LocalStep /\ call[n] = "none"
      BY <1>0, <3>1, LocalStepIdle DEF At
    <3>3. pc[n] = "run" /\ StageAt(n, k) = 0 /\ StageAt(n, k - 1) = 0
      BY <2>1, <3>2, NextStep
    <3>4. Left(n) = k /\ outcome[n] # "ok"
      BY <1>0, <3>2, <3>3 DEF Left, Track, OutcomeInv
    <3>5. Machine(vm[n], StageAt(n, k - 1))
      BY <2>3, <3>3, <3>4
    <3>6. QED
      BY <2>1, <2>2, <3>4, <3>5, TrackSucceeds
  <2>5. CASE Reply(n)
    <3>1. Left(n) = k - 1
      BY <2>5 DEF Reply, Left
    <3>2. QED
      BY <2>1, <2>2, <2>3, <3>1, TrackSucceeds
  <2>6. CASE SSHAnswers(n)
    <3>1. r = "wait-ssh" /\ call[n] = "none" /\ SSHUp(vm[n])
      BY <1>0, <2>6, LocalStepIdle DEF SSHAnswers, At
    <3>2. k = 4 /\ pc[n] = "finalize"
      BY <2>1, <3>1, NextStep
    <3>3. Left(n) = 4 /\ StageAt(n, 4) = 4 /\ StageAt(n, k - 1) = 5
      BY <3>1, <3>2 DEF Left, StageAt
    <3>4. Machine(vm[n], 4)
      BY <2>3, <3>3
    <3>5. Machine(vm[n], 5)
      BY <3>1, <3>4 DEF Machine, SSHUp
    <3>6. QED
      BY <2>1, <2>2, <3>1, <3>3, <3>5, TrackSucceeds
  <2>7. QED
    BY <1>3, <2>4, <2>5, <2>6
<1>4. CASE LocalWorkFails(n) \/ SendFails(n) \/ Rejected(n) \/ GiveUp(n) \/ SSHDeadline(n)
  <2>1. PICK how \in {"err", "cancelled"} : Fails(n, how)
    BY <1>0, <1>4, Failures
  <2>2. UNCHANGED <<vm>>
    BY <1>4 DEF LocalWorkFails, SendFails, Rejected, GiveUp, SSHDeadline
  <2>3. \/ late' = late
        \/ /\ call[n] = "sent" /\ Head(todo[n]) \in Request
           /\ late' = [late EXCEPT ![n] = Head(todo[n])]
    <3>1. CASE GiveUp(n)
      <4>1. Head(todo[n]) \in Request
        BY <1>0, <3>1 DEF GiveUp, IInv, CallInv
      <4>2. CASE call[n] = "sent"
        BY <3>1, <4>1, <4>2 DEF GiveUp
      <4>3. CASE call[n] # "sent"
        BY <1>0, <3>1, <4>3 DEF GiveUp, TypeOK
      <4>4. QED
        BY <4>2, <4>3
    <3>2. CASE ~GiveUp(n)
      BY <1>4, <3>2 DEF LocalWorkFails, SendFails, Rejected, SSHDeadline
    <3>3. QED
      BY <3>1, <3>2
  <2>4. QED
    BY <2>1, <2>2, <2>3, TrackFails
<1>5. CASE LockUpload(n) \/ Send(n)
  <2>1. /\ UNCHANGED <<opts, phase, next, pc, todo, outcome, late, errs, vm>>
        /\ pc[n] \in {"run", "finalize"}
    BY <1>5 DEF LockUpload, Send, MaySend, At
  <2>2. Left(n)' = Left(n)
    BY <1>0, <1>5 DEF LockUpload, Send, MaySend, Left, TypeOK
  <2>3. StageNow(n)' = StageNow(n)
    BY <2>1, <2>2 DEF StageNow, ApplyStage
  <2>4. \A x : Machine(vm[n], x)' <=> Machine(vm[n], x)
    BY <2>1 DEF Machine
  <2>5. MachineInv(n)'
    BY <1>0, <2>1, <2>3, <2>4 DEF Track, MachineInv, Failed, Sent, From
  <2>6. QED
    BY <1>0, <2>1, <2>5 DEF Track, StepsInv, IsSuffix, OutcomeInv
<1>6. CASE ApplyReturns(n)
  <2>1. /\ pc[n] = "run" /\ todo[n] = <<>> /\ pc'[n] = "unwind" /\ outcome'[n] = "ok"
        /\ UNCHANGED <<opts, phase, next, todo, call, late, errs, vm>>
    BY <1>0, <1>6 DEF ApplyReturns, TypeOK
  <2>2. Left(n) = 0 /\ phase = "apply"
    BY <1>0, <2>1, PhaseOf DEF Left, IInv, CallInv, TypeOK
  <2>3. late[n] = "none" /\ Machine(vm[n], 4)
    BY <2>1, <2>2, Working DEF StageAt, ApplyStage
  <2>4. StageNow(n)' = 4
    BY <2>1, <2>2 DEF StageNow, Past, Returned
  <2>5. Machine(vm[n], 4)'
    BY <2>1, <2>3 DEF Machine
  <2>6. QED
    BY <2>1, <2>3, <2>4, <2>5 DEF Track, StepsInv, OutcomeInv, MachineInv
<1>7. CASE Release(n) \/ Signal(n)
  <2>1. /\ pc[n] \in {"unwind", "signal"} /\ pc'[n] \in {"signal", "done"}
        /\ UNCHANGED <<opts, phase, next, todo, outcome, call, late, errs, vm>>
    BY <1>0, <1>7 DEF Release, Signal, TypeOK
  <2>2. StageNow(n)' = StageNow(n)
    BY <2>1 DEF StageNow, Past, Returned
  <2>3. \A x : Machine(vm[n], x)' <=> Machine(vm[n], x)
    BY <2>1 DEF Machine
  <2>4. MachineInv(n)'
    BY <1>0, <2>1, <2>2, <2>3 DEF Track, MachineInv, Failed, Sent, From
  <2>5. QED
    BY <1>0, <2>1, <2>4 DEF Track, StepsInv, OutcomeInv
<1>8. CASE FinalizeReturns(n)
  <2>1. /\ pc[n] = "finalize" /\ todo[n] = <<>> /\ pc'[n] = "done" /\ next' = next + 1
        /\ UNCHANGED <<opts, phase, todo, outcome, call, late, errs, vm>>
    BY <1>0, <1>8 DEF FinalizeReturns, TypeOK
  <2>2. Left(n) = 0 /\ phase = "finalize" /\ next = n /\ n \in Int
    BY <1>0, <2>1, PhaseOf, NAssumption DEF Left, IInv, CallInv, TypeOK, Nodes
  <2>3. late[n] = "none" /\ Machine(vm[n], 8)
    BY <2>1, <2>2, Working DEF StageAt
  <2>4. StageNow(n)' = 8
    BY <2>1, <2>2 DEF StageNow, Past
  <2>5. Machine(vm[n], 8)'
    BY <2>1, <2>3 DEF Machine
  <2>6. QED
    BY <1>0, <2>1, <2>3, <2>4, <2>5 DEF Track, StepsInv, OutcomeInv, MachineInv
<1>9. QED
  BY <1>1, <1>2, <1>3, <1>4, <1>5, <1>6, <1>7, <1>8 DEF Worker

LEMMA TrackWorld ==
  ASSUME TrackInv, NEW n \in Nodes, Hypervisor(n) \/ Environment(n)
  PROVE  Track(n)'
<1> USE DEF main, workers, rpc, sync, server
<1>0. TypeOK /\ IInv /\ Track(n) /\ vm[n] \in VM
  BY DEF TrackInv, IInv, TypeOK
<1>1. /\ UNCHANGED <<opts, phase, next, pc, todo, outcome, errs>>
      /\ StepsInv(n)' /\ OutcomeInv(n)'
  <2>1. UNCHANGED <<opts, phase, next, pc, todo, outcome, errs>>
    BY DEF Hypervisor, Environment, Serve, LateEffect, OthersCreate, GuestInstalls
  <2>2. StepsInv(n)'
    BY <1>0, <2>1 DEF Track, StepsInv, IsSuffix
  <2>3. OutcomeInv(n)'
    BY <1>0, <2>1 DEF Track, OutcomeInv
  <2>4. QED
    BY <2>1, <2>2, <2>3
<1>2. /\ \A v, x : Machine(v, x)' <=> Machine(v, x)
      /\ Failed(n)' <=> Failed(n)
      /\ Sent' = Sent /\ From' = From
  BY <1>1 DEF Machine, Failed, Sent, From
<1>3. PICK s \in 0 .. 8 : /\ Machine(vm[n], s)
                          /\ late[n] = "none" \/ (late[n] \in Sent /\ s = From[late[n]])
  BY <1>0 DEF Track, MachineInv
<1>4. CASE Serve(n)
  <2>1. PICK r \in Request :
           /\ At(n, r) /\ call[n] = "sent" /\ Accepts(r, vm[n], vols[n])
           /\ call'[n] = "carried-out" /\ vm'[n] = Effect(r, vm[n]) /\ late' = late
    BY <1>0, <1>4 DEF Serve, TypeOK
  <2> DEFINE k == Len(todo[n])
  <2>2. pc[n] \in {"run", "finalize"} /\ todo[n] # <<>> /\ r = Head(todo[n])
    BY <2>1 DEF At
  <2>3. /\ k \in Nat /\ r \in Sent /\ From[r] = StageAt(n, k)
        /\ \A v : Machine(v, To[r]) => Machine(v, StageAt(n, k - 1))
        /\ StageAt(n, k - 1) \in 0 .. 8
    <3>1. k \in Nat /\ StageAt(n, k - 1) \in 0 .. 8
      BY <2>2, NextStep
    <3>2. /\ r \in Sent /\ From[r] = StageAt(n, k)
          /\ \A v : Machine(v, To[r]) => Machine(v, StageAt(n, k - 1))
      BY <2>1, RequestStep, Zenon
    <3>3. QED
      BY <3>1, <3>2
  <2>4. late[n] = "none" /\ Machine(vm[n], StageAt(n, Left(n)))
    BY <2>2, Working
  <2>5. Left(n) = k /\ Left(n)' = k - 1
    BY <1>1, <2>1 DEF Left
  <2>6. Machine(Effect(r, vm[n]), To[r])
    BY <1>0, <2>1, <2>3, <2>4, <2>5, Advances
  <2>7. Machine(vm'[n], StageAt(n, k - 1))
    BY <2>1, <2>3, <2>6
  <2>8. StageNow(n)' = StageAt(n, k - 1)
    BY <1>1, <2>2, <2>5 DEF StageNow, StageAt, ApplyStage
  <2>9. Machine(vm[n], StageNow(n))' /\ StageNow(n)' \in 0 .. 8
    BY <1>1, <2>3, <2>7, <2>8 DEF Machine
  <2>10. QED
    BY <1>1, <2>1, <2>4, <2>9 DEF Track, MachineInv
<1>5. CASE LateEffect(n)
  <2> DEFINE r == late[n]
  <2>1. /\ r # "none" /\ Accepts(r, vm[n], vols[n])
        /\ vm'[n] = Effect(r, vm[n]) /\ late'[n] = "none"
    BY <1>0, <1>5 DEF LateEffect, TypeOK
  <2>2. Failed(n)
    BY <1>0, <2>1 DEF Track, MachineInv
  <2>3. r \in Sent /\ Machine(vm[n], From[r])
    BY <1>3, <2>1
  <2>4. Machine(Effect(r, vm[n]), To[r])
    BY <1>0, <2>1, <2>3, Advances
  <2>5. To[r] \in 0 .. 8
    BY <2>3 DEF To, From, Sent, Request, VMRequest
  <2>6. Machine(vm'[n], To[r])
    BY <2>1, <2>4
  <2>7. \E x \in 0 .. 8 : Machine(vm[n], x)'
    BY <1>1, <2>5, <2>6 DEF Machine
  <2>8. QED
    BY <1>1, <1>2, <2>1, <2>2, <2>7 DEF Track, MachineInv
<1>6. CASE Environment(n)
  <2>1. late' = late /\ call' = call
    BY <1>6 DEF Environment, OthersCreate, GuestInstalls
  <2>2. StageNow(n)' = StageNow(n)
    BY <1>1, <2>1 DEF StageNow, ApplyStage, Left, Past, Returned
  <2>3. ASSUME NEW x \in 0 .. 8, Machine(vm[n], x)
        PROVE  Machine(vm'[n], x)
    <3>1. CASE OthersCreate(n)
      <4>1. ~Exists(vm[n]) /\ vm'[n] = OthersVM
        BY <1>0, <3>1 DEF OthersCreate, TypeOK
      <4>2. x = 0
        BY <2>3, <4>1, MachineFacts DEF Exists
      <4>3. QED
        BY <4>1, <4>2 DEF Machine
    <3>2. CASE GuestInstalls(n)
      <4>1. CanInstall(vm[n]) /\ vm'[n] = [vm[n] EXCEPT !.disk = "installed"]
        BY <1>0, <3>2 DEF GuestInstalls, TypeOK
      <4>2. x = 4
        BY <2>3, <4>1, MachineFacts
      <4>3. /\ vm'[n] \in VM /\ vm'[n].by = vm[n].by /\ vm'[n].on = vm[n].on
            /\ vm'[n].ide2 = vm[n].ide2 /\ vm'[n].ide3 = vm[n].ide3
            /\ vm'[n].boot = vm[n].boot
        BY <1>0, <4>1 DEF VM
      <4>4. QED
        BY <2>3, <4>2, <4>3 DEF Machine
    <3>3. QED
      BY <1>6, <3>1, <3>2 DEF Environment
  <2>4. ~Failed(n) => late[n] = "none" /\ Machine(vm'[n], StageNow(n))
    <3>1. ~Failed(n) => StageNow(n) \in 0 .. 8
      <4>1. CASE pc[n] \in {"run", "finalize"}
        BY <4>1, Working DEF StageNow, StageAt
      <4>2. CASE pc[n] \notin {"run", "finalize"}
        BY <4>2 DEF StageNow
      <4>3. QED
        BY <4>1, <4>2
    <3>2. QED
      BY <1>0, <2>3, <3>1 DEF Track, MachineInv
  <2>5. ~Failed(n)' => late'[n] = "none" /\ Machine(vm[n], StageNow(n))'
    BY <1>1, <1>2, <2>1, <2>2, <2>4 DEF Machine
  <2>6. Machine(vm'[n], s)
    BY <1>3, <2>3
  <2>7. Machine(vm[n], s)'
    BY <1>1, <2>6 DEF Machine
  <2>8. QED
    BY <1>1, <1>2, <1>3, <2>1, <2>5, <2>7 DEF Track, MachineInv
<1>7. QED
  BY <1>4, <1>5, <1>6 DEF Hypervisor

(* The main goroutine's steps.                                             *)
LEMMA TrackMain ==
  ASSUME TrackInv, Main, NEW n \in Nodes
  PROVE  Track(n)'
<1> USE DEF main, workers, rpc, sync, server
<1>0. TypeOK /\ IInv /\ MainInv /\ Track(n) /\ n \in Int
  BY NAssumption DEF TrackInv, IInv, Nodes
<1>1. CASE PlanNode \/ PlanFails
  <2>1. outcome[n] = "none"
    BY <1>0, <1>1 DEF MainInv, PlanNode, PlanFails
  <2>2. ~Past(n) /\ ~Past(n)'
    BY <1>1, <2>1 DEF Past, Returned, PlanNode, PlanFails
  <2>3. QED
    BY <1>0, <1>1, <2>2, Frame DEF PlanNode, PlanFails
<1>2. CASE PlanDone
  <2>1. /\ phase = "plan" /\ pc[n] = "wait" /\ outcome[n] = "none"
        /\ UNCHANGED <<opts, pc, outcome, call, late, errs, vm>>
    BY <1>0, <1>2 DEF PlanDone, MainInv, IInv, PhaseInv
  <2>2. phase' = "apply" => todo'[n] = ApplySteps(opts)
    BY <1>2 DEF PlanDone
  <2>3. StageNow(n) = 0 /\ StageNow(n)' = 0
    BY <2>1 DEF StageNow
  <2>4. \A x : Machine(vm[n], x)' <=> Machine(vm[n], x)
    BY <2>1 DEF Machine
  <2>5. MachineInv(n)'
    BY <1>0, <2>1, <2>3, <2>4 DEF Track, MachineInv, Failed, Sent, From
  <2>6. QED
    BY <1>0, <2>1, <2>2, <2>5 DEF Track, StepsInv, OutcomeInv
<1>3. CASE Launch
  <2>1. /\ phase = "apply" /\ next \in Nodes /\ pc' = [pc EXCEPT ![next] = "run"]
        /\ opts.continueOnError /\ next' = next + 1 /\ phase' = phase
        /\ UNCHANGED <<opts, todo, outcome, call, late, errs, vm>>
    BY <1>3 DEF Launch
  <2>2. CASE n = next
    <3>1. pc[n] = "wait"
      BY <1>0, <2>1, <2>2 DEF IInv, PhaseInv
    <3>2. QED
      BY <1>0, <2>1, <2>2, <3>1, TrackStarts DEF TypeOK
  <2>3. CASE n # next
    <3>1. pc'[n] = pc[n]
      BY <1>0, <2>1, <2>3 DEF TypeOK
    <3>2. ~Past(n) /\ ~Past(n)'
      BY <2>1 DEF Past, Returned
    <3>3. QED
      BY <1>0, <2>1, <3>1, <3>2, Frame
  <2>4. QED
    BY <2>2, <2>3
<1>4. CASE ApplyJoin
  <2>1. /\ phase = "apply" /\ phase' \in {"verify", "error"}
        /\ UNCHANGED <<opts, next, pc, todo, outcome, call, late, errs, vm>>
        /\ phase' = "error" => errs # {} \/ Cancelled
    BY <1>4 DEF ApplyJoin
  <2>2. phase' = "error" => \E m \in Nodes : outcome[m] # "ok"
    <3>1. errs # {} => \E m \in Nodes : outcome[m] = "err"
      BY <1>0, <2>1 DEF MainInv
    <3>2. Cancelled => firstErr \in Nodes /\ outcome[firstErr] = "err"
      BY <1>0 DEF IInv, ErrInv, RootCauseReported, TypeOK, Cancelled
    <3>3. QED
      BY <2>1, <3>1, <3>2
  <2>3. ~Past(n) /\ ~Past(n)'
    BY <2>1, <2>2 DEF Past, Returned
  <2>4. QED
    BY <1>0, <2>1, <2>3, Frame
<1>5. CASE VerifyAll
  <2>1. /\ phase = "verify" /\ phase' = IF opts.skipFinalize THEN "ok" ELSE "finalize"
        /\ next' = 1
        /\ UNCHANGED <<opts, pc, todo, outcome, call, late, errs, vm>>
    BY <1>5 DEF VerifyAll
  <2>2. ~Past(n)
    BY <2>1 DEF Past, Returned
  <2>3. ~Past(n)'
    <3>1. n >= 1
      BY NAssumption DEF Nodes
    <3>2. QED
      BY <1>0, <2>1, <3>1 DEF Past, Returned
  <2>4. QED
    BY <1>0, <2>1, <2>2, <2>3, Frame
<1>6. CASE FinalizeNode
  <2>1. /\ phase = "finalize" /\ pc[next] = "done" /\ next \in Nodes
        /\ pc' = [pc EXCEPT ![next] = "finalize"]
        /\ todo' = [todo EXCEPT ![next] = FinalizeSteps]
        /\ UNCHANGED <<opts, phase, next, outcome, call, late, errs, vm>>
    BY <1>6 DEF FinalizeNode
  <2>2. CASE n # next
    <3>1. pc'[n] = pc[n] /\ todo'[n] = todo[n] /\ (Past(n)' <=> Past(n))
      BY <1>0, <2>1, <2>2 DEF TypeOK, Past, Returned
    <3>2. QED
      BY <1>0, <2>1, <3>1, Frame
  <2>3. CASE n = next
    <3>1. /\ pc'[n] = "finalize" /\ todo'[n] = FinalizeSteps /\ pc[n] = "done"
          /\ call[n] = "none"
      BY <1>0, <2>1, <2>3, PhaseOf DEF TypeOK
    <3>2. outcome[n] = "ok" /\ n \notin errs
      BY <1>0, <2>1, <2>3 DEF MainInv
    <3>3. ~Past(n)
      BY <1>0, <2>1, <2>3 DEF Past, Returned
    <3>4. late[n] = "none" /\ Machine(vm[n], 4)
      BY <1>0, <3>1, <3>2, <3>3 DEF Track, MachineInv, Failed, StageNow
    <3>5. Left(n)' = 4 /\ IsSuffix(FinalizeSteps, FinalizeSteps)
      BY <2>1, <3>1, FinalizeStepsType DEF Left, IsSuffix, FinalizeSteps
    <3>6. StageNow(n)' = 4
      BY <3>1, <3>5 DEF StageNow
    <3>7. Machine(vm[n], 4)'
      BY <2>1, <3>4 DEF Machine
    <3>8. MachineInv(n)'
      BY <2>1, <3>4, <3>6, <3>7 DEF MachineInv
    <3>9. QED
      BY <1>0, <2>1, <3>1, <3>2, <3>5, <3>8 DEF Track, StepsInv, IsSuffix, OutcomeInv
  <2>4. QED
    BY <2>2, <2>3
<1>7. CASE FinalizeNoIP
  <2>1. /\ phase = "finalize" /\ errs' = errs \cup {next} /\ next' = next + 1
        /\ next \in Nodes \ opts.addressed
        /\ UNCHANGED <<opts, phase, pc, todo, outcome, call, late, vm>>
    BY <1>7 DEF FinalizeNoIP
  <2>2. CASE n # next
    <3>1. n \in errs' <=> n \in errs
      BY <2>1, <2>2
    <3>2. Past(n)' <=> Past(n)
      BY <1>0, <2>1, <2>2 DEF Past, Returned, TypeOK
    <3>3. QED
      BY <1>0, <2>1, <3>1, <3>2, Frame
  <2>3. CASE n = next
    <3>1. Failed(n)'
      BY <2>1, <2>3 DEF Failed
    <3>2. pc[n] = "done"
      BY <1>0, <2>1, <2>3 DEF IInv, PhaseInv
    <3>3. \A x : Machine(vm[n], x)' <=> Machine(vm[n], x)
      BY <2>1 DEF Machine
    <3>4. MachineInv(n)'
      BY <1>0, <2>1, <3>1, <3>3 DEF Track, MachineInv, Sent, From
    <3>5. QED
      BY <1>0, <2>1, <3>2, <3>4 DEF Track, StepsInv, OutcomeInv
  <2>4. QED
    BY <2>2, <2>3
<1>8. CASE UpReturns
  <2>1. /\ phase = "finalize" /\ next = N + 1 /\ phase' \in {"ok", "error"}
        /\ UNCHANGED <<opts, next, pc, todo, outcome, call, late, errs, vm>>
    BY <1>8 DEF UpReturns
  <2>2. Past(n)
    BY <2>1, NAssumption DEF Past, Nodes
  <2>3. Past(n)'
    BY <1>0, <2>1 DEF Past, Returned, MainInv
  <2>4. QED
    BY <1>0, <2>1, <2>2, <2>3, Frame
<1>9. QED
  BY <1>1, <1>2, <1>3, <1>4, <1>5, <1>6, <1>7, <1>8 DEF Main

-----------------------------------------------------------------------------
(* The outcomes and the phase.                                             *)
LEMMA MainSame ==
  ASSUME TrackInv, opts' = opts, phase' = phase, outcome' = outcome, errs' = errs,
         next' = next \/ phase # "finalize" \/ next' = next + 1
  PROVE  MainInv'
<1>1. phase = "finalize" => \A n \in errs : n < next'
  <2>1. errs \subseteq Int /\ next \in Int
    BY NAssumption DEF TrackInv, IInv, TypeOK, Nodes
  <2>2. QED
    BY <2>1 DEF TrackInv, MainInv
<1>2. QED
  BY <1>1 DEF TrackInv, MainInv

LEMMA MainByMain ==
  ASSUME TrackInv, Main
  PROVE  MainInv'
<1> USE DEF main, workers, rpc, sync, server
<1>0. TypeOK /\ IInv /\ MainInv /\ \A n \in Nodes : Track(n)
  BY DEF TrackInv, IInv
<1>1. CASE PlanNode \/ Launch \/ FinalizeNode
  <2>1. /\ opts' = opts /\ phase' = phase /\ outcome' = outcome /\ errs' = errs
        /\ next' = next \/ phase # "finalize"
    BY <1>1 DEF PlanNode, Launch, FinalizeNode
  <2>2. QED
    BY <2>1, MainSame
<1>2. CASE PlanFails
  BY <1>0, <1>2 DEF PlanFails, MainInv
<1>3. CASE PlanDone
  BY <1>0, <1>3 DEF PlanDone, MainInv
<1>4. CASE ApplyJoin
  <2>1. /\ phase = "apply" /\ \A n \in Nodes : pc[n] = "done"
        /\ phase' = IF errs = {} /\ ~Cancelled THEN "verify" ELSE "error"
        /\ UNCHANGED <<opts, outcome, errs>> /\ ~opts.dryRun
    BY <1>0, <1>4 DEF ApplyJoin, MainInv
  <2>2. /\ errs = {n \in Nodes : opts.continueOnError /\ outcome[n] = "err"}
        /\ \A n \in Nodes : outcome[n] \in {"ok", "err", "cancelled"}
        /\ \A n \in Nodes : outcome[n] = "cancelled" => Cancelled
        /\ Cancelled => ~opts.continueOnError /\ \E n \in Nodes : outcome[n] = "err"
    <3>1. \A n \in Nodes : outcome[n] # "none"
      BY <1>0, <2>1 DEF Track, OutcomeInv
    <3>2. Cancelled => firstErr \in Nodes
      BY <1>0 DEF Cancelled, TypeOK
    <3>3. QED
      BY <1>0, <2>1, <3>1, <3>2 DEF MainInv, TypeOK, IInv, ErrInv, RootCauseReported
  <2>3. CASE errs = {} /\ ~Cancelled
    <3>1. \A n \in Nodes : outcome[n] = "ok"
      BY <2>1, <2>2, <2>3 DEF TrackInv, SignalInv
    <3>2. QED
      BY <2>1, <2>3, <3>1 DEF MainInv
  <2>4. CASE ~(errs = {} /\ ~Cancelled)
    <3>1. \E n \in Nodes : outcome[n] = "err"
      BY <2>2, <2>4
    <3>2. opts.continueOnError => /\ \A n \in Nodes : outcome[n] \in {"ok", "err"}
                                  /\ errs = {n \in Nodes : outcome[n] = "err"}
      BY <2>2
    <3>3. QED
      BY <2>1, <2>4, <3>1, <3>2 DEF MainInv
  <2>5. QED
    BY <2>3, <2>4
<1>5. CASE VerifyAll
  BY <1>0, <1>5 DEF VerifyAll, MainInv
<1>6. CASE FinalizeNoIP
  <2>1. /\ phase = "finalize" /\ phase' = phase /\ errs' = errs \cup {next}
        /\ next' = next + 1 /\ UNCHANGED <<opts, outcome>>
    BY <1>6 DEF FinalizeNoIP
  <2>2. errs \subseteq Int /\ next \in Int
    BY <1>0, NAssumption DEF TypeOK, Nodes
  <2>3. \A n \in errs' : n < next'
    BY <1>0, <2>1, <2>2 DEF MainInv
  <2>4. QED
    BY <1>0, <2>1, <2>3 DEF MainInv
<1>7. CASE UpReturns
  BY <1>0, <1>7 DEF UpReturns, MainInv
<1>8. QED
  BY <1>1, <1>2, <1>3, <1>4, <1>5, <1>6, <1>7 DEF Main

LEMMA MainByNode ==
  ASSUME TrackInv, NEW n \in Nodes, Worker(n) \/ Hypervisor(n) \/ Environment(n)
  PROVE  MainInv'
<1> USE DEF main, workers, rpc, sync, server
<1>0. TypeOK /\ IInv /\ MainInv /\ Track(n)
  BY DEF TrackInv, IInv
<1>1. CASE Abandon(n) \/ ApplyReturns(n)
  <2>1. /\ phase = "apply" /\ UNCHANGED <<opts, phase, errs>>
        /\ pc[n] \in {"wait", "run"}
        /\ \/ outcome' = [outcome EXCEPT ![n] = "ok"]
           \/ outcome' = [outcome EXCEPT ![n] = "cancelled"]
    BY <1>0, <1>1, PhaseOf DEF Abandon, ApplyReturns
  <2>2. outcome[n] = "none"
    BY <1>0, <2>1 DEF Track, OutcomeInv
  <2>3. \A m \in Nodes : outcome'[m] = "err" <=> outcome[m] = "err"
    BY <1>0, <2>1, <2>2 DEF TypeOK
  <2>4. QED
    BY <1>0, <2>1, <2>3 DEF MainInv
<1>2. CASE LocalWorkFails(n) \/ SendFails(n) \/ Rejected(n) \/ GiveUp(n) \/ SSHDeadline(n)
  <2>1. PICK how \in {"err", "cancelled"} : Fails(n, how)
    BY <1>0, <1>2, Failures
  <2>2. pc[n] \in {"run", "finalize"} /\ opts' = opts /\ phase' = phase
    BY <2>1 DEF Fails, StepEnds
  <2>3. CASE pc[n] = "run"
    <3>1. /\ phase = "apply" /\ outcome' = [outcome EXCEPT ![n] = how]
          /\ errs' = IF opts.continueOnError THEN errs \cup {n} ELSE errs
          /\ ~opts.dryRun
      BY <1>0, <2>1, <2>3, PhaseOf DEF Fails, StepFailed, MainInv
    <3>2. opts.continueOnError => how = "err"
      BY <1>0, <2>1 DEF Fails, IInv, ErrInv, RootCauseReported
    <3>3. errs' = {m \in Nodes : opts.continueOnError /\ outcome'[m] = "err"}
      <4>1. errs = {m \in Nodes : opts.continueOnError /\ outcome[m] = "err"}
        BY <1>0, <3>1 DEF MainInv
      <4>2. outcome'[n] = how /\ \A m \in Nodes \ {n} : outcome'[m] = outcome[m]
        BY <1>0, <3>1 DEF TypeOK
      <4>3. CASE opts.continueOnError
        BY <3>1, <3>2, <4>1, <4>2, <4>3
      <4>4. CASE ~opts.continueOnError
        BY <3>1, <4>1, <4>4
      <4>5. QED
        BY <4>3, <4>4
    <3>4. QED
      BY <2>2, <3>1, <3>3 DEF MainInv
  <2>4. CASE pc[n] = "finalize"
    <3>1. /\ phase = "finalize" /\ next = n /\ next' = next + 1 /\ outcome' = outcome
          /\ errs' = errs \cup {n}
      BY <1>0, <2>1, <2>4, PhaseOf DEF Fails, StepFailed
    <3>2. errs \subseteq Int /\ next \in Int /\ n \in Int
      BY <1>0, NAssumption DEF TypeOK, Nodes
    <3>3. \A m \in errs' : m < next'
      BY <1>0, <3>1, <3>2 DEF MainInv
    <3>4. QED
      BY <1>0, <2>2, <3>1, <3>3 DEF MainInv
  <2>5. QED
    BY <2>2, <2>3, <2>4
<1>3. CASE FinalizeReturns(n)
  BY <1>3, MainSame DEF FinalizeReturns
<1>4. CASE \/ Acquire(n) \/ LocalWork(n) \/ LockUpload(n) \/ Send(n) \/ Reply(n)
           \/ Release(n) \/ Signal(n) \/ SSHAnswers(n)
  <2>1. UNCHANGED <<opts, phase, next, outcome, errs>>
    BY <1>4 DEF Acquire, LocalWork, LockUpload, Send, Reply, Release, Signal, SSHAnswers
  <2>2. QED
    BY <2>1, MainSame
<1>5. CASE Hypervisor(n) \/ Environment(n)
  <2>1. UNCHANGED <<opts, phase, next, outcome, errs>>
    BY <1>5 DEF Hypervisor, Environment, Serve, LateEffect, OthersCreate, GuestInstalls
  <2>2. QED
    BY <2>1, MainSame
<1>6. QED
  BY <1>1, <1>2, <1>3, <1>4, <1>5 DEF Worker

LEMMA StepSignal ==
  ASSUME TrackInv, [Next]_vars
  PROVE  SignalInv'
<1> USE DEF main, workers, rpc, sync, server
<1>0. TypeOK /\ IInv /\ SignalInv /\ \A n \in Nodes : Track(n)
  BY DEF TrackInv, IInv
<1>1. CASE Main
  <2>1. opts' = opts /\ outcome' = outcome /\ firstErr' = firstErr
        /\ \A n \in Nodes : pc'[n] = "done" => pc[n] = "done"
    BY <1>0, <1>1 DEF Main, PlanNode, PlanFails, PlanDone, Launch, ApplyJoin, VerifyAll,
                      FinalizeNode, FinalizeNoIP, UpReturns, TypeOK
  <2>2. QED
    BY <1>0, <2>1 DEF SignalInv, Cancelled
<1>2. ASSUME NEW n \in Nodes, Worker(n) \/ Hypervisor(n) \/ Environment(n)
      PROVE  SignalInv'
  <2>1. \A m \in Nodes \ {n} : Same(m)
    BY <1>0, <1>2, OwnSteps DEF Own
  <2>2. opts' = opts
    BY <1>0, <1>2, OwnSteps DEF Own
  <2>3. Cancelled => Cancelled'
    <3>1. CASE Signal(n)
      BY <3>1 DEF Signal, Cancelled
    <3>2. CASE ~Signal(n)
      <4>1. firstErr' = firstErr
        BY <1>2, <3>2 DEF Worker, Hypervisor, Environment, Acquire, Abandon, LocalWork,
           LocalWorkFails, LockUpload, Send, SendFails, Reply, Rejected, GiveUp,
           ApplyReturns, Release, SSHAnswers, SSHDeadline, FinalizeReturns, Serve,
           LateEffect, OthersCreate, GuestInstalls
      <4>2. QED
        BY <4>1 DEF Cancelled
    <3>3. QED
      BY <3>1, <3>2
  <2>4. pc'[n] = "done" /\ ~opts.continueOnError /\ outcome'[n] # "ok" => Cancelled'
    <3>1. CASE Signal(n)
      <4>1. n # NoNode
        BY NAssumption DEF Nodes, NoNode
      <4>2. QED
        BY <2>3, <3>1, <4>1 DEF Signal, Cancelled
    <3>2. CASE pc'[n] = pc[n] /\ outcome'[n] = outcome[n]
      BY <1>0, <2>3, <3>2 DEF SignalInv
    <3>3. CASE pc[n] = "finalize" /\ outcome'[n] = outcome[n]
      BY <1>0, <3>3 DEF Track, OutcomeInv
    <3>4. CASE pc'[n] # "done"
      BY <3>4
    <3>5. QED
      <4>1. CASE LocalWorkFails(n) \/ SendFails(n) \/ Rejected(n) \/ GiveUp(n)
                 \/ SSHDeadline(n)
        <5>1. PICK how \in {"err", "cancelled"} : Fails(n, how)
          BY <1>0, <4>1, Failures
        <5>2. pc'[n] = "unwind" \/ (pc[n] = "finalize" /\ outcome'[n] = outcome[n])
          BY <1>0, <5>1 DEF Fails, StepEnds, StepFailed, TypeOK
        <5>3. QED
          BY <3>3, <3>4, <5>2
      <4>2. CASE Acquire(n) \/ Abandon(n) \/ ApplyReturns(n) \/ Release(n)
        <5>1. pc'[n] \in {"run", "signal", "unwind"}
          BY <1>0, <4>2 DEF Acquire, Abandon, ApplyReturns, Release, TypeOK
        <5>2. QED
          BY <3>4, <5>1
      <4>3. CASE FinalizeReturns(n)
        BY <3>3, <4>3 DEF FinalizeReturns
      <4>4. CASE \/ LocalWork(n) \/ LockUpload(n) \/ Send(n) \/ Reply(n) \/ SSHAnswers(n)
                 \/ Hypervisor(n) \/ Environment(n)
        <5>1. pc' = pc /\ outcome' = outcome
          BY <4>4 DEF LocalWork, LockUpload, Send, Reply, SSHAnswers, Hypervisor,
             Environment, Serve, LateEffect, OthersCreate, GuestInstalls
        <5>2. QED
          BY <3>2, <5>1
      <4>5. QED
        BY <1>2, <3>1, <4>1, <4>2, <4>3, <4>4 DEF Worker
  <2>5. QED
    BY <1>0, <2>1, <2>2, <2>3, <2>4 DEF SignalInv, Same
<1>3. CASE Terminated \/ UNCHANGED vars
  BY <1>0, <1>3 DEF Terminated, vars, SignalInv, Cancelled
<1>4. QED
  BY <1>1, <1>2, <1>3 DEF Next

-----------------------------------------------------------------------------
LEMMA InitTrack == Init => TrackInv
<1> SUFFICES ASSUME Init PROVE TrackInv
  OBVIOUS
<1>1. IInv
  BY InitInv
<1>2. MainInv /\ SignalInv
  BY DEF Init, MainInv, SignalInv
<1>3. ASSUME NEW n \in Nodes
      PROVE  Track(n)
  <2>1. Machine(vm[n], 0) /\ late[n] = "none" /\ StageNow(n) = 0
    BY DEF Init, Machine, StageNow
  <2>2. StepsInv(n) /\ OutcomeInv(n)
    BY DEF Init, StepsInv, OutcomeInv
  <2>3. QED
    BY <2>1, <2>2 DEF Track, MachineInv
<1>4. QED
  BY <1>1, <1>2, <1>3 DEF TrackInv

LEMMA StepTrack == TrackInv /\ [Next]_vars => TrackInv'
<1> SUFFICES ASSUME TrackInv, [Next]_vars PROVE TrackInv'
  OBVIOUS
<1>1. IInv'
  BY StepTypes, StepPhase, StepCall, StepUploads, StepErr, StepTokens DEF IInv, TrackInv
<1>2. SignalInv'
  BY StepSignal
<1>3. MainInv' /\ \A n \in Nodes : Track(n)'
  <2>1. CASE Main
    BY <2>1, MainByMain, TrackMain
  <2>2. ASSUME NEW n \in Nodes, Worker(n) \/ Hypervisor(n) \/ Environment(n)
        PROVE  MainInv' /\ \A m \in Nodes : Track(m)'
    <3>1. Own(n)
      BY <2>2, OwnSteps DEF TrackInv
    <3>2. Track(n)'
      BY <2>2, TrackWorker, TrackWorld
    <3>3. QED
      BY <2>2, <3>1, <3>2, Alone, MainByNode
  <2>3. CASE Terminated \/ UNCHANGED vars
    <3>1. UNCHANGED <<opts, phase, next, pc, todo, outcome, call, late, errs, vm>>
      BY <2>3 DEF Terminated, vars, main, workers, rpc, sync, server
    <3>2. MainInv'
      BY <3>1, MainSame
    <3>3. ASSUME NEW n \in Nodes PROVE Track(n)'
      <4>1. Track(n) /\ (Past(n)' <=> Past(n))
        BY <3>1 DEF TrackInv, Past, Returned
      <4>2. QED
        BY <3>1, <4>1, Frame
    <3>4. QED
      BY <3>2, <3>3
  <2>4. QED
    BY <2>1, <2>2, <2>3 DEF Next
<1>4. QED
  BY <1>1, <1>2, <1>3 DEF TrackInv

(* What is left to do tells where each machine is, in every run of `up`.   *)
THEOREM Tracked == Spec => []TrackInv
BY InitTrack, StepTrack, PTL DEF Spec

(* Nothing starts a machine before it is set up, and nothing takes its     *)
(* media away while the installer runs: no failure, cancellation or late   *)
(* request of SingleVMWorkflow or its Finalize does.                       *)
THEOREM Undisturbed == Spec => []InstallerUndisturbed
<1>1. ASSUME TrackInv, NEW n \in Nodes,
             vm[n].by = "proxctl", vm[n].on, vm[n].disk = "blank"
      PROVE  vm[n].ide2 /\ (opts.kickstartStorage => vm[n].ide3 /\ vm[n].boot = "install")
  <2>1. PICK s \in 0 .. 8 : Machine(vm[n], s)
    BY <1>1 DEF TrackInv, Track, MachineInv
  <2>2. s # 0
    BY <1>1, <2>1, MachineFacts
  <2>3. s = 4
    BY <1>1, <2>1, <2>2 DEF Machine
  <2>4. QED
    BY <2>1, <2>3 DEF Machine
<1>2. TrackInv => InstallerUndisturbed
  BY <1>1 DEF InstallerUndisturbed
<1>3. QED
  BY <1>2, Tracked, PTL

(* --continue-on-error runs every node and joins exactly the errors of     *)
(* those that failed (applyPlan's collecting mode).                        *)
THEOREM ApplyComplete == Spec => []ApplyErrorsComplete
<1>1. ASSUME TrackInv, opts.continueOnError,
             phase \in {"verify", "finalize", "ok", "error"},
             NEW m \in Nodes, outcome[m] # "none"
      PROVE  LET failed == {n \in Nodes : outcome[n] = "err"} IN
             /\ \A n \in Nodes : outcome[n] \in {"ok", "err"}
             /\ failed # {} => phase = "error" /\ errs = failed
  <2>1. ~opts.dryRun
    BY <1>1 DEF TrackInv, MainInv
  <2>2. QED
    BY <1>1, <2>1 DEF TrackInv, MainInv
<1>2. TrackInv => ApplyErrorsComplete
  BY <1>1 DEF ApplyErrorsComplete
<1>3. QED
  BY <1>2, Tracked, PTL

(* A node whose Finalize failed does not keep the others from being        *)
(* finalized, and the joined error leaves none of the failed out           *)
(* (MultiNodeWorkflow.Finalize).                                           *)
THEOREM FinalizeComplete == Spec => []FinalizeErrorsComplete
<1>1. ASSUME TrackInv, Returned, ~opts.skipFinalize,
             \A m \in Nodes : outcome[m] = "ok", NEW n \in Nodes \ errs
      PROVE  Finalized(vm[n])
  <2>1. pc[n] = "done"
    BY <1>1 DEF TrackInv, IInv, PhaseInv, Track, OutcomeInv
  <2>2. StageNow(n) = 8 /\ ~Failed(n)
    BY <1>1, <2>1 DEF StageNow, Past, Failed
  <2>3. Machine(vm[n], 8)
    BY <1>1, <2>2 DEF TrackInv, Track, MachineInv
  <2>4. QED
    BY <2>3 DEF Machine, Finalized, SSHUp
<1>2. TrackInv => FinalizeErrorsComplete
  BY <1>1 DEF FinalizeErrorsComplete
<1>3. QED
  BY <1>2, Tracked, PTL

(* When `up` returns nil every machine is where the flags ask it to be     *)
(* (MultiNodeWorkflow.Up).                                                 *)
THEOREM OkComplete == Spec => []OkMeansComplete
<1>1. ASSUME TrackInv, phase = "ok", ~opts.dryRun, NEW n \in Nodes
      PROVE  IF opts.skipFinalize
             THEN vm[n].by = "proxctl" /\ vm[n].on
             ELSE Finalized(vm[n])
  <2>1. Returned /\ errs = {} /\ \A m \in Nodes : outcome[m] = "ok"
    BY <1>1 DEF TrackInv, MainInv, Returned
  <2>2. pc[n] = "done"
    BY <1>1, <2>1 DEF TrackInv, IInv, PhaseInv, Track, OutcomeInv
  <2>3. StageNow(n) = (IF opts.skipFinalize THEN 4 ELSE 8) /\ ~Failed(n)
    BY <1>1, <2>1, <2>2 DEF StageNow, Past, Returned, Failed
  <2>4. Machine(vm[n], StageNow(n))
    BY <1>1, <2>3 DEF TrackInv, Track, MachineInv
  <2>5. CASE opts.skipFinalize
    <3>1. Machine(vm[n], 4)
      BY <2>3, <2>4, <2>5
    <3>2. QED
      BY <2>2, <2>5, <3>1 DEF Machine
  <2>6. CASE ~opts.skipFinalize
    <3>1. Machine(vm[n], 8)
      BY <2>3, <2>4, <2>6
    <3>2. QED
      BY <2>2, <2>6, <3>1 DEF Machine, Finalized, SSHUp
  <2>7. QED
    BY <2>5, <2>6
<1>2. TrackInv => OkMeansComplete
  BY <1>1 DEF OkMeansComplete
<1>3. QED
  BY <1>2, Tracked, PTL

(* A machine of another operator is never changed, whenever it appeared:   *)
(* the only requests that can meet it are those sent before it was there.  *)
THEOREM OthersLeftAlone == Spec => OthersUntouched
<1>1. ASSUME TrackInv, [Next]_vars, NEW n \in Nodes, vm[n].by = "other"
      PROVE  vm'[n] = vm[n]
  <2>1. TypeOK /\ IInv
    BY <1>1 DEF TrackInv, IInv
  <2>2. \A x \in 0 .. 8 : Machine(vm[n], x) => x = 0
    BY <1>1, MachineFacts
  <2>3. ASSUME NEW r \in Sent, From[r] = 0, Accepts(r, vm[n], vols[n])
        PROVE  Effect(r, vm[n]) = vm[n]
    <3>1. r \in {"create-vm", "upload-iso", "verify-kickstart-iso"}
      BY <2>3 DEF From, Sent, Request, VMRequest
    <3>2. r # "create-vm"
      BY <1>1, <2>3 DEF Accepts, Exists
    <3>3. QED
      BY <3>1, <3>2 DEF Effect
  <2>4. CASE Serve(n)
    <3>1. PICK r \in Request : /\ At(n, r) /\ call[n] = "sent"
                               /\ Accepts(r, vm[n], vols[n])
                               /\ vm' = [vm EXCEPT ![n] = Effect(r, @)]
      BY <2>4 DEF Serve
    <3>2. pc[n] \in {"run", "finalize"} /\ todo[n] # <<>> /\ r = Head(todo[n])
      BY <3>1 DEF At
    <3>3. Left(n) = Len(todo[n])
      BY <3>1 DEF Left
    <3>4. StageAt(n, Left(n)) = 0
      BY <1>1, <2>2, <3>2, Working
    <3>5. r \in Sent /\ From[r] = StageAt(n, Len(todo[n]))
      BY <1>1, <3>1, RequestStep, Zenon
    <3>6. vm'[n] = Effect(r, vm[n])
      BY <2>1, <3>1 DEF TypeOK
    <3>7. QED
      BY <2>3, <3>1, <3>3, <3>4, <3>5, <3>6
  <2>5. CASE LateEffect(n)
    <3>1. /\ late[n] # "none" /\ Accepts(late[n], vm[n], vols[n])
          /\ vm'[n] = Effect(late[n], vm[n])
      BY <2>1, <2>5 DEF LateEffect, TypeOK
    <3>2. late[n] \in Sent /\ From[late[n]] = 0
      BY <1>1, <2>2, <3>1 DEF TrackInv, Track, MachineInv
    <3>3. QED
      BY <2>3, <3>1, <3>2
  <2>6. CASE Environment(n)
    <3>1. ~OthersCreate(n)
      BY <1>1 DEF OthersCreate, Exists
    <3>2. PICK s \in 0 .. 8 : Machine(vm[n], s)
      BY <1>1 DEF TrackInv, Track, MachineInv
    <3>3. ~CanInstall(vm[n])
      BY <2>2, <3>2, MachineFacts
    <3>4. QED
      BY <2>6, <3>1, <3>3 DEF Environment, GuestInstalls
  <2>7. ASSUME NEW m \in Nodes \ {n}, Worker(m) \/ Hypervisor(m) \/ Environment(m)
        PROVE  vm'[n] = vm[n]
    BY <2>1, <2>7, OwnSteps DEF Own, Same
  <2>8. CASE Worker(n)
    BY <2>8 DEF Worker, Acquire, Abandon, LocalWork, LocalWorkFails, LockUpload, Send,
       SendFails, Reply, Rejected, GiveUp, ApplyReturns, Release, Signal, SSHAnswers,
       SSHDeadline, FinalizeReturns, server
  <2>9. CASE Main
    BY <2>9 DEF Main, PlanNode, PlanFails, PlanDone, Launch, ApplyJoin, VerifyAll,
       FinalizeNode, FinalizeNoIP, UpReturns, server
  <2>10. CASE Terminated \/ UNCHANGED vars
    BY <2>10 DEF Terminated, vars, server
  <2>11. QED
    BY <1>1, <2>4, <2>5, <2>6, <2>7, <2>8, <2>9, <2>10 DEF Next, Hypervisor
<1>2. TrackInv /\ [Next]_vars
      => [\A n \in Nodes : vm[n].by = "other" => vm'[n] = vm[n]]_vars
  BY <1>1
<1>3. QED
  BY <1>2, Tracked, PTL DEF Spec, OthersUntouched

-----------------------------------------------------------------------------
(* The refinement.  With its goroutines, its requests in flight and those   *)
(* left behind, MultiNode implements Provision.                            *)

(* A request of Finalize is left behind only where Finalize runs.          *)
LateInv ==
    \A n \in Nodes :
        late[n] \in {"eject-ide3", "eject-ide2", "boot-from-disk"} => ~opts.skipFinalize

PromiseInv == TrackInv /\ LateInv

(* A request of Finalize is on its way only in the finalize phase.         *)
LEMMA FinalizeSends ==
  ASSUME TrackInv, NEW n \in Nodes, NEW r \in Request, At(n, r),
         r \in {"eject-ide3", "eject-ide2", "boot-from-disk"}
  PROVE  ~opts.skipFinalize
<1>1. PICK k : k = Len(todo[n])
  OBVIOUS
<1>2. pc[n] \in {"run", "finalize"} /\ todo[n] # <<>> /\ r = Head(todo[n])
  BY DEF At
<1>3. r \in Sent /\ From[r] = StageAt(n, k) /\ k \in Nat /\ k >= 1
  BY <1>1, <1>2, NextStep
<1>4. From[r] > 4
  BY <1>3 DEF From, Sent, Request, VMRequest
<1>5. pc[n] # "run"
  <2>1. ApplyStage(k) \in 0 .. 4
    BY <1>3 DEF ApplyStage
  <2>2. QED
    BY <1>3, <1>4, <2>1 DEF StageAt
<1>6. phase = "finalize"
  BY <1>2, <1>5, PhaseOf DEF TrackInv
<1>7. QED
  BY <1>6 DEF TrackInv, MainInv

LEMMA StepLate == PromiseInv /\ [Next]_vars => LateInv'
<1> SUFFICES ASSUME PromiseInv, [Next]_vars, NEW n \in Nodes,
                    late'[n] \in {"eject-ide3", "eject-ide2", "boot-from-disk"}
             PROVE  ~opts'.skipFinalize
  BY DEF LateInv
<1> USE DEF main, workers, rpc, sync, server
<1>0. TrackInv /\ IInv /\ TypeOK
  BY DEF PromiseInv, TrackInv, IInv
<1>1. CASE Main \/ Terminated \/ UNCHANGED vars
  <2>1. opts' = opts /\ late' = late
    BY <1>1 DEF Main, PlanNode, PlanFails, PlanDone, Launch, ApplyJoin, VerifyAll,
       FinalizeNode, FinalizeNoIP, UpReturns, Terminated, vars
  <2>2. QED
    BY <2>1 DEF PromiseInv, LateInv
<1>2. ASSUME NEW m \in Nodes, Worker(m) \/ Hypervisor(m) \/ Environment(m)
      PROVE  ~opts'.skipFinalize
  <2>1. Own(m)
    BY <1>0, <1>2, OwnSteps
  <2>2. CASE late'[n] = late[n]
    BY <2>1, <2>2 DEF Own, PromiseInv, LateInv
  <2>3. CASE GiveUp(n)
    <3>1. /\ call[n] # "none"
          /\ late' = [late EXCEPT ![n] = IF call[n] = "sent" THEN Head(todo[n]) ELSE @]
      BY <2>3 DEF GiveUp
    <3>2. CASE call[n] = "sent"
      <4>1. late'[n] = Head(todo[n])
        BY <1>0, <3>1, <3>2 DEF TypeOK
      <4>2. pc[n] \in {"run", "finalize"} /\ todo[n] # <<>>
        BY <1>0, <3>2 DEF IInv, CallInv, PhaseInv
      <4>3. At(n, late'[n])
        BY <4>1, <4>2 DEF At
      <4>4. late'[n] \in Request
        BY DEF Request, VMRequest
      <4>5. QED
        BY <1>0, <2>1, <4>3, <4>4, FinalizeSends DEF Own
    <3>3. CASE call[n] # "sent"
      BY <1>0, <2>2, <3>1, <3>3 DEF TypeOK
    <3>4. QED
      BY <3>2, <3>3
  <2>4. CASE LateEffect(n)
    BY <1>0, <2>4 DEF LateEffect, TypeOK
  <2>5. CASE m # n
    BY <2>1, <2>2, <2>5 DEF Own, Same
  <2>6. CASE m = n /\ ~GiveUp(n) /\ ~LateEffect(n)
    <3>1. late' = late
      BY <1>2, <2>6 DEF Worker, Acquire, Abandon, LocalWork, LocalWorkFails, LockUpload,
         Send, SendFails, Reply, Rejected, ApplyReturns, Release, Signal, SSHAnswers,
         SSHDeadline, FinalizeReturns, Hypervisor, Serve, Environment, OthersCreate,
         GuestInstalls
    <3>2. QED
      BY <2>2, <3>1
  <2>7. QED
    BY <2>3, <2>4, <2>5, <2>6
<1>3. QED
  BY <1>1, <1>2 DEF Next

(* The invariant of the refinement.                                        *)
THEOREM Promised == Spec => []PromiseInv
<1>1. Init => PromiseInv
  BY InitTrack DEF Init, LateInv, PromiseInv
<1>2. PromiseInv /\ [Next]_vars => PromiseInv'
  BY StepTrack, StepLate DEF PromiseInv
<1>3. QED
  BY <1>1, <1>2, PTL DEF Spec

-----------------------------------------------------------------------------
(* Where Provision sees a machine.                                         *)
LEMMA Seen ==
  ASSUME NEW v, NEW s \in 0 .. 8, Machine(v, s)
  PROVE  /\ s = 0 => StageOf(v) = IF Exists(v) THEN "others" ELSE "absent"
         /\ s = 1 => StageOf(v) = "created"
         /\ s = 2 => StageOf(v) = IF opts.kickstartStorage THEN "attached" ELSE "created"
         /\ s = 3 => StageOf(v) = IF opts.kickstartStorage THEN "armed" ELSE "created"
         /\ s = 4 => StageOf(v) = IF v.disk = "blank" THEN "booting" ELSE "installed"
         /\ s \in 5 .. 7 => StageOf(v) = "installed"
         /\ s = 8 => StageOf(v) = "finalized"
<1>1. CASE s = 0
  <2>1. v = NoVM \/ v = OthersVM
    BY <1>1 DEF Machine
  <2>2. NoVM.by = "nobody" /\ OthersVM.by = "other"
    BY DEF NoVM, OthersVM
  <2>3. QED
    BY <1>1, <2>1, <2>2 DEF StageOf, Exists
<1>2. CASE s # 0
  <2>1. /\ v.by = "proxctl" /\ v.on \in BOOLEAN /\ v.ide3 \in BOOLEAN
        /\ v.disk \in {"blank", "installed"}
        /\ v.on <=> s >= 4
        /\ v.ide3 <=> (opts.kickstartStorage /\ s >= 2 /\ s <= 5)
        /\ v.boot = IF s = 8 THEN "disk"
                    ELSE IF opts.kickstartStorage /\ s >= 3 THEN "install"
                    ELSE "default"
        /\ s < 4 => v.disk = "blank"
        /\ s > 4 => v.disk = "installed"
    BY <1>2 DEF Machine, VM
  <2>2. CASE s \in {1, 2, 3}
    BY <2>1, <2>2 DEF StageOf
  <2>3. CASE s = 4
    BY <2>1, <2>3 DEF StageOf
  <2>4. CASE s \in 5 .. 8
    <3>1. v.disk = "installed" /\ (v.boot = "disk" <=> s = 8)
      BY <2>1, <2>4
    <3>2. QED
      BY <2>1, <2>4, <3>1 DEF StageOf
  <2>5. QED
    BY <1>2, <2>2, <2>3, <2>4
<1>3. QED
  BY <1>1, <1>2

(* A request moves its machine as Provision allows, or not at all.         *)
LEMMA Moves ==
  ASSUME NEW v, NEW r \in Sent, Machine(v, From[r]), NEW vs, Accepts(r, v, vs),
         opts \in Options
  PROVE  LET a == StageOf(v)
             b == StageOf(Effect(r, v))
             k == opts.kickstartStorage
         IN
         \/ b = a
         \/ a = "absent" /\ b = "created"
         \/ k /\ a = "created" /\ b = "attached"
         \/ k /\ a = "attached" /\ b = "armed"
         \/ a = (IF k THEN "armed" ELSE "created") /\ b = "booting"
         \/ r = "boot-from-disk" /\ a = "installed" /\ b = "finalized"
<1> DEFINE e == Effect(r, v)
<1>1. From[r] \in 0 .. 8 /\ To[r] \in 0 .. 8
  BY DEF From, To, Sent, Request, VMRequest
<1>2. Machine(e, To[r])
  BY <1>1, MachineFacts, Advances
<1>3. CASE r \in {"upload-iso", "verify-kickstart-iso"}
  BY <1>3 DEF Effect
<1>4. CASE r = "create-vm"
  <2>1. From[r] = 0 /\ To[r] = 1 /\ ~Exists(v)
    BY <1>4 DEF From, To, Request, VMRequest, Accepts
  <2>2. QED
    BY <1>1, <1>2, <2>1, Seen
<1>5. CASE r = "attach-cdrom"
  <2>1. From[r] = 1 /\ To[r] = 2 /\ opts.kickstartStorage
    BY <1>5 DEF From, To, Sent, Request, VMRequest
  <2>2. QED
    BY <1>1, <1>2, <2>1, Seen
<1>6. CASE r = "set-boot-order"
  <2>1. From[r] = 2 /\ To[r] = 3 /\ opts.kickstartStorage
    BY <1>6 DEF From, To, Sent, Request, VMRequest
  <2>2. QED
    BY <1>1, <1>2, <2>1, Seen
<1>7. CASE r = "start-vm"
  <2>1. From[r] = 3 /\ To[r] = 4
    BY <1>7 DEF From, To, Request, VMRequest
  <2>2. e.disk = "blank"
    BY <1>7, <2>1 DEF Machine, VM, Effect, Power
  <2>3. QED
    BY <1>1, <1>2, <2>1, <2>2, Seen
<1>8. CASE r \in {"eject-ide3", "eject-ide2"}
  <2>1. From[r] \in 5 .. 6 /\ To[r] \in 6 .. 7
    BY <1>8 DEF From, To, Request, VMRequest
  <2>2. StageOf(v) = "installed" /\ StageOf(e) = "installed"
    <3>1. From[r] \in 5 .. 7 /\ To[r] \in 5 .. 7
      BY <2>1
    <3>2. QED
      BY <1>1, <1>2, <3>1, Seen
  <2>3. QED
    BY <2>2
<1>9. CASE r = "boot-from-disk"
  <2>1. From[r] = 7 /\ To[r] = 8
    BY <1>9 DEF From, To, Request, VMRequest
  <2>2. QED
    BY <1>1, <1>2, <1>9, <2>1, Seen
<1>10. QED
  BY <1>3, <1>4, <1>5, <1>6, <1>7, <1>8, <1>9 DEF Sent

-----------------------------------------------------------------------------
(* A step that moves no machine and does not return is none for Provision. *)
LEMMA NoMove ==
  ASSUME opts' = opts, phase' = phase \/ (~Returned /\ ~Returned'),
         \A n \in Nodes : StageOf(vm'[n]) = StageOf(vm[n])
  PROVE  UNCHANGED Promise!vars
<1>1. [n \in Nodes |-> StageOf(vm'[n])] = [n \in Nodes |-> StageOf(vm[n])]
  OBVIOUS
<1>2. [n \in Nodes |-> StageOf(vm[n])]' = [n \in Nodes |-> StageOf(vm[n])]
  BY <1>1
<1>3. (IF Returned THEN phase ELSE "none")' = IF Returned THEN phase ELSE "none"
  BY DEF Returned
<1>4. QED
  BY <1>2, <1>3 DEF Promise!vars

LEMMA OneMove ==
  ASSUME opts' = opts, phase' = phase, NEW n \in Nodes,
         \A m \in Nodes \ {n} : vm'[m] = vm[m]
  PROVE  Promise!Move(n, StageOf(vm[n]), StageOf(vm'[n]))
<1>1. [m \in Nodes |-> StageOf(vm'[m])]
      = [[m \in Nodes |-> StageOf(vm[m])] EXCEPT ![n] = StageOf(vm'[n])]
  OBVIOUS
<1>2. [m \in Nodes |-> StageOf(vm[m])]'
      = [[m \in Nodes |-> StageOf(vm[m])] EXCEPT ![n] = StageOf(vm'[n])]
  BY <1>1
<1>3. (IF Returned THEN phase ELSE "none")' = IF Returned THEN phase ELSE "none"
  BY DEF Returned
<1>4. [m \in Nodes |-> StageOf(vm[m])][n] = StageOf(vm[n])
  OBVIOUS
<1>5. QED
  BY <1>2, <1>3, <1>4 DEF Promise!Move

(* A request the hypervisor carries out, in time or late, is a step of     *)
(* Provision.                                                              *)
LEMMA RequestMoves ==
  ASSUME PromiseInv, NEW n \in Nodes, NEW r \in Sent, Machine(vm[n], From[r]),
         Accepts(r, vm[n], vols[n]), vm'[n] = Effect(r, vm[n]),
         \A m \in Nodes \ {n} : vm'[m] = vm[m], opts' = opts, phase' = phase,
         ~opts.dryRun, r = "boot-from-disk" => ~opts.skipFinalize
  PROVE  [Promise!Next]_(Promise!vars)
<1> DEFINE a == StageOf(vm[n])
           b == StageOf(vm'[n])
           k == opts.kickstartStorage
<1>1. Promise!Move(n, a, b)
  BY OneMove
<1>2. opts \in Options
  BY OptionAssumption DEF PromiseInv, TrackInv, IInv, TypeOK
<1>3. \/ b = a
      \/ a = "absent" /\ b = "created"
      \/ k /\ a = "created" /\ b = "attached"
      \/ k /\ a = "attached" /\ b = "armed"
      \/ a = (IF k THEN "armed" ELSE "created") /\ b = "booting"
      \/ r = "boot-from-disk" /\ a = "installed" /\ b = "finalized"
  BY <1>2, Moves
<1>4. CASE b = a
  BY <1>4, NoMove
<1>5. CASE a = "absent" /\ b = "created"
  BY <1>1, <1>5 DEF Promise!Create, Promise!Next
<1>6. CASE k /\ a = "created" /\ b = "attached"
  BY <1>1, <1>6 DEF Promise!Attach, Promise!Next
<1>7. CASE k /\ a = "attached" /\ b = "armed"
  BY <1>1, <1>7 DEF Promise!Arm, Promise!Next
<1>8. CASE a = (IF k THEN "armed" ELSE "created") /\ b = "booting"
  BY <1>1, <1>8 DEF Promise!Start, Promise!Next
<1>9. CASE r = "boot-from-disk" /\ a = "installed" /\ b = "finalized"
  BY <1>1, <1>9 DEF Promise!Finalize, Promise!Next
<1>10. QED
  BY <1>3, <1>4, <1>5, <1>6, <1>7, <1>8, <1>9

(* In a dry run no request exists.                                         *)
LEMMA DryIsIdle ==
  ASSUME TrackInv, opts.dryRun, NEW n \in Nodes
  PROVE  pc[n] \notin {"run", "finalize"} /\ late[n] = "none"
<1>1. /\ IInv /\ Track(n) /\ outcome[n] = "none"
      /\ phase \in {"plan", "ok", "error"}
  BY DEF TrackInv, MainInv
<1>2. pc[n] \notin {"run", "finalize", "unwind", "signal", "done"}
  BY <1>1, PhaseOf DEF Track, OutcomeInv
<1>3. pc[n] = "wait"
  BY <1>1, <1>2 DEF IInv, TypeOK
<1>4. ~Failed(n)
  BY <1>1, <1>3 DEF Track, OutcomeInv, Failed
<1>5. QED
  BY <1>1, <1>2, <1>4 DEF Track, MachineInv

LEMMA MachineStep ==
  ASSUME PromiseInv, NEW n \in Nodes, Hypervisor(n) \/ Environment(n)
  PROVE  [Promise!Next]_(Promise!vars)
<1> USE DEF main, workers, rpc, sync, server
<1>0. TrackInv /\ IInv /\ TypeOK /\ Track(n)
  BY DEF PromiseInv, TrackInv, IInv
<1>1. opts' = opts /\ phase' = phase /\ \A m \in Nodes \ {n} : vm'[m] = vm[m]
  BY <1>0, OwnSteps DEF Own, Same
<1>2. CASE Serve(n)
  <2>1. PICK r \in Request : /\ At(n, r) /\ call[n] = "sent"
                             /\ Accepts(r, vm[n], vols[n])
                             /\ vm' = [vm EXCEPT ![n] = Effect(r, @)]
    BY <1>2 DEF Serve
  <2>2. pc[n] \in {"run", "finalize"} /\ todo[n] # <<>> /\ r = Head(todo[n])
    BY <2>1 DEF At
  <2>3. PICK k : k = Len(todo[n])
    OBVIOUS
  <2>4. r \in Sent /\ From[r] = StageAt(n, k)
    BY <1>0, <2>1, <2>3, RequestStep, Zenon
  <2>5. Machine(vm[n], From[r])
    BY <1>0, <2>1, <2>2, <2>3, <2>4, Working DEF Left
  <2>6. vm'[n] = Effect(r, vm[n])
    BY <1>0, <2>1 DEF TypeOK
  <2>7. ~opts.dryRun
    BY <1>0, <2>2, DryIsIdle
  <2>8. r = "boot-from-disk" => ~opts.skipFinalize
    BY <1>0, <2>1, FinalizeSends
  <2>9. QED
    BY <1>1, <2>1, <2>4, <2>5, <2>6, <2>7, <2>8, RequestMoves
<1>3. CASE LateEffect(n)
  <2>1. /\ late[n] # "none" /\ Accepts(late[n], vm[n], vols[n])
        /\ vm'[n] = Effect(late[n], vm[n])
    BY <1>0, <1>3 DEF LateEffect, TypeOK
  <2>2. late[n] \in Sent /\ Machine(vm[n], From[late[n]])
    BY <1>0, <2>1 DEF Track, MachineInv
  <2>3. ~opts.dryRun
    BY <1>0, <2>1, DryIsIdle
  <2>4. late[n] = "boot-from-disk" => ~opts.skipFinalize
    BY DEF PromiseInv, LateInv
  <2>5. QED
    BY <1>1, <2>1, <2>2, <2>3, <2>4, RequestMoves
<1>4. CASE OthersCreate(n)
  <2>1. ~Exists(vm[n]) /\ vm'[n] = OthersVM
    BY <1>0, <1>4 DEF OthersCreate, TypeOK
  <2>2. StageOf(vm[n]) = "absent" /\ StageOf(vm'[n]) = "others"
    <3>1. vm[n].by = "nobody"
      BY <2>1 DEF Exists
    <3>2. vm'[n].by = "other"
      BY <2>1 DEF OthersVM, NoVM
    <3>3. QED
      BY <3>1, <3>2 DEF StageOf
  <2>3. Promise!Take(n)
    BY <1>1, <2>2, OneMove DEF Promise!Take
  <2>4. QED
    BY <2>3 DEF Promise!Next
<1>5. CASE GuestInstalls(n)
  <2>1. CanInstall(vm[n]) /\ vm'[n] = [vm[n] EXCEPT !.disk = "installed"]
    BY <1>0, <1>5 DEF GuestInstalls, TypeOK
  <2>2. PICK s \in 0 .. 8 : Machine(vm[n], s)
    BY <1>0 DEF Track, MachineInv
  <2>3. s = 4
    BY <2>1, <2>2, MachineFacts
  <2>4. StageOf(vm[n]) = "booting"
    BY <2>1, <2>2, <2>3, Seen DEF CanInstall
  <2>5. StageOf(vm'[n]) = "installed"
    <3>1. /\ vm[n] \in VM /\ vm[n].by = "proxctl"
          /\ vm[n].boot = IF opts.kickstartStorage THEN "install" ELSE "default"
      BY <2>2, <2>3 DEF Machine
    <3>2. vm'[n].by = "proxctl" /\ vm'[n].boot = vm[n].boot /\ vm'[n].disk = "installed"
      BY <2>1, <3>1 DEF VM
    <3>3. QED
      BY <3>1, <3>2 DEF StageOf
  <2>6. Promise!Install(n)
    BY <1>1, <2>4, <2>5, OneMove DEF Promise!Install
  <2>7. QED
    BY <2>6 DEF Promise!Next
<1>6. QED
  BY <1>2, <1>3, <1>4, <1>5 DEF Hypervisor, Environment

LEMMA WorkerStep ==
  ASSUME PromiseInv, NEW n \in Nodes, Worker(n)
  PROVE  UNCHANGED Promise!vars
<1>1. opts' = opts /\ phase' = phase
  BY OwnSteps DEF Own, PromiseInv, TrackInv
<1>2. vm' = vm
  BY DEF Worker, Acquire, Abandon, LocalWork, LocalWorkFails, LockUpload, Send,
     SendFails, Reply, Rejected, GiveUp, ApplyReturns, Release, Signal, SSHAnswers,
     SSHDeadline, FinalizeReturns, server
<1>3. QED
  BY <1>1, <1>2, NoMove

(* Up returns: once, and with success only when every machine is where the *)
(* flags ask it to be.                                                     *)
LEMMA Returns ==
  ASSUME opts' = opts, vm' = vm, ~Returned, Returned',
         phase' = "ok" => \/ opts.dryRun
                          \/ \A n \in Nodes :
                                StageOf(vm[n]) \in IF ~opts.skipFinalize THEN {"finalized"}
                                                   ELSE {"booting", "installed"}
  PROVE  [Promise!Next]_(Promise!vars)
<1>1. [n \in Nodes |-> StageOf(vm[n])]' = [n \in Nodes |-> StageOf(vm[n])]
  <2>1. [n \in Nodes |-> StageOf(vm'[n])] = [n \in Nodes |-> StageOf(vm[n])]
    OBVIOUS
  <2>2. QED
    BY <2>1
<1>2. /\ (IF Returned THEN phase ELSE "none") = "none"
      /\ (IF Returned THEN phase ELSE "none")' = phase'
      /\ phase' \in {"ok", "error"}
  BY DEF Returned
<1>3. CASE phase' = "ok"
  <2>1. opts.dryRun \/ \A n \in Nodes : Promise!Complete(n)
    BY <1>3 DEF Promise!Complete
  <2>2. Promise!Succeed
    BY <1>1, <1>2, <1>3, <2>1 DEF Promise!Succeed
  <2>3. QED
    BY <2>2 DEF Promise!Next
<1>4. CASE phase' = "error"
  <2>1. Promise!Fail
    BY <1>1, <1>2, <1>4 DEF Promise!Fail
  <2>2. QED
    BY <2>1 DEF Promise!Next
<1>5. QED
  BY <1>2, <1>3, <1>4

LEMMA MainStep ==
  ASSUME PromiseInv, Main
  PROVE  [Promise!Next]_(Promise!vars)
<1> USE DEF main, workers, rpc, sync, server
<1>0. TrackInv /\ IInv /\ TypeOK /\ \A n \in Nodes : Track(n)
  BY DEF PromiseInv, TrackInv, IInv
<1>1. opts' = opts /\ vm' = vm
  BY DEF Main, PlanNode, PlanFails, PlanDone, Launch, ApplyJoin, VerifyAll,
     FinalizeNode, FinalizeNoIP, UpReturns
<1>2. CASE phase' = phase \/ (~Returned /\ ~Returned')
  BY <1>1, <1>2, NoMove
<1>3. CASE ~Returned /\ phase' = "error"
  BY <1>1, <1>3, Returns DEF Returned
<1>4. CASE PlanDone /\ phase' = "ok"
  <2>1. ~Returned /\ Returned' /\ opts.dryRun
    BY <1>4 DEF PlanDone, Returned
  <2>2. QED
    BY <1>1, <2>1, Returns
<1>5. CASE VerifyAll /\ phase' = "ok"
  <2>1. ~Returned /\ Returned' /\ phase = "verify" /\ opts.skipFinalize
    BY <1>5 DEF VerifyAll, Returned
  <2>2. ASSUME NEW n \in Nodes
        PROVE  StageOf(vm[n]) \in {"booting", "installed"}
    <3>1. pc[n] = "done" /\ outcome[n] = "ok" /\ errs = {}
      BY <1>0, <2>1, PhaseOf DEF IInv, PhaseInv, TrackInv, MainInv
    <3>2. StageNow(n) = 4 /\ ~Failed(n)
      BY <2>1, <3>1 DEF StageNow, Past, Failed
    <3>3. Machine(vm[n], 4)
      BY <1>0, <3>2 DEF Track, MachineInv
    <3>4. QED
      BY <3>3, Seen
  <2>3. QED
    BY <1>1, <2>1, <2>2, Returns
<1>6. CASE UpReturns /\ phase' = "ok"
  <2>1. /\ ~Returned /\ Returned' /\ phase = "finalize" /\ next = N + 1 /\ errs = {}
        /\ ~opts.skipFinalize
    BY <1>0, <1>6 DEF UpReturns, Returned, TrackInv, MainInv
  <2>2. ASSUME NEW n \in Nodes
        PROVE  StageOf(vm[n]) = "finalized"
    <3>1. n \in Int /\ n < next
      BY <2>1, NAssumption DEF Nodes
    <3>2. pc[n] = "done" /\ outcome[n] = "ok"
      BY <1>0, <2>1, <3>1, PhaseOf DEF IInv, PhaseInv, TrackInv, MainInv
    <3>3. StageNow(n) = 8 /\ ~Failed(n)
      BY <2>1, <3>1, <3>2 DEF StageNow, Past, Failed
    <3>4. Machine(vm[n], 8)
      BY <1>0, <3>3 DEF Track, MachineInv
    <3>5. QED
      BY <3>4, Seen
  <2>3. QED
    BY <1>1, <2>1, <2>2, Returns
<1>7. QED
  <2>1. CASE PlanNode \/ Launch \/ FinalizeNode \/ FinalizeNoIP
    BY <1>2, <2>1 DEF PlanNode, Launch, FinalizeNode, FinalizeNoIP
  <2>2. CASE PlanFails \/ ApplyJoin
    BY <1>2, <1>3, <2>2 DEF PlanFails, ApplyJoin, Returned
  <2>3. CASE PlanDone
    BY <1>2, <1>4, <2>3 DEF PlanDone, Returned
  <2>4. CASE VerifyAll
    BY <1>2, <1>5, <2>4 DEF VerifyAll, Returned
  <2>5. CASE UpReturns
    BY <1>3, <1>6, <2>5 DEF UpReturns, Returned
  <2>6. QED
    BY <2>1, <2>2, <2>3, <2>4, <2>5 DEF Main

LEMMA StepRefines == PromiseInv /\ [Next]_vars => [Promise!Next]_(Promise!vars)
<1> SUFFICES ASSUME PromiseInv, [Next]_vars
             PROVE  [Promise!Next]_(Promise!vars)
  OBVIOUS
<1>1. CASE Terminated \/ UNCHANGED vars
  <2>1. opts' = opts /\ phase' = phase /\ vm' = vm
    BY <1>1 DEF Terminated, vars, main, server
  <2>2. QED
    BY <2>1, NoMove
<1>2. QED
  BY <1>1, MainStep, MachineStep, WorkerStep DEF Next

(* `up` does only what Provision promises: machines only move forward, a   *)
(* machine of another operator is not touched, and nil means that all are  *)
(* complete (MultiNodeWorkflow.Up with the SingleVMWorkflows it runs).     *)
THEOREM PromiseKept == Spec => KeepsPromise
<1>1. Init => Promise!Init
  <2> SUFFICES ASSUME Init PROVE Promise!Init
    OBVIOUS
  <2>1. [n \in Nodes |-> StageOf(vm[n])] = [n \in Nodes |-> "absent"]
    BY DEF Init, StageOf, NoVM
  <2>2. opts \in Options /\ ~Returned
    BY OptionAssumption DEF Init, Returned
  <2>3. QED
    BY <2>1, <2>2 DEF Promise!Init, Options
<1>2. QED
  BY <1>1, StepRefines, Promised, PTL DEF Spec, KeepsPromise, Promise!Spec

=============================================================================
