--------------------------- MODULE PveTaskProofs ---------------------------
(***************************************************************************)
(* For every set of calls: PveTask is well typed and implements PveCall.   *)
(***************************************************************************)
EXTENDS PveTask, TLAPS

(* What ties the client's view to the hypervisor's: the answers a nil can  *)
(* come from are given only once the effect is there, and a request that   *)
(* has no answer yet, or whose task still runs, has no effect yet.         *)
CallInv(c) ==
    /\ ret[c] = "none" <=> pc[c] # "returned"
    /\ pc[c] = "start" => post[c] = "none"
    /\ pc[c] \in {"posting", "polling", "awaiting", "sleeping"} => post[c] # "none"
    /\ effect[c] => post[c] # "none"
    /\ post[c] = "sent" => ~effect[c]
    /\ post[c] = "null" => effect[c]
    /\ task[c] # "none" => post[c] = "upid"
    /\ task[c] = Running => ~effect[c]
    /\ task[c] \in {"OK", "WARNINGS"} => effect[c]

IInv == TypeOK /\ \A c \in Calls : CallInv(c)

(* A step of one call leaves what the others rely on alone.                *)
LEMMA StepTypes ==
  ASSUME TypeOK, [Next]_vars
  PROVE  TypeOK'
<1>1. ASSUME NEW c \in Calls, Client(c)
      PROVE  TypeOK'
  BY <1>1 DEF TypeOK, Client, Post, PostAnswered, RequestFails, Poll, PollAnswered,
              Sleep, Goto, Return
<1>2. ASSUME NEW c \in Calls, Receive(c)
      PROVE  TypeOK'
  BY <1>2 DEF TypeOK, Receive, Running
<1>3. ASSUME NEW c \in Calls, Run(c)
      PROVE  TypeOK'
  BY <1>3 DEF TypeOK, Run, Running, Stopped, Untold
<1>4. CASE Cancel
  BY <1>4 DEF TypeOK, Cancel
<1>5. CASE Terminated \/ UNCHANGED vars
  BY <1>5 DEF TypeOK, Terminated, vars
<1>6. QED
  BY <1>1, <1>2, <1>3, <1>4, <1>5 DEF Next

LEMMA StepCalls ==
  ASSUME IInv, [Next]_vars, NEW d \in Calls
  PROVE  CallInv(d)'
<1> USE DEF IInv, TypeOK
<1>1. ASSUME NEW c \in Calls, Client(c)
      PROVE  CallInv(d)'
  <2>1. CASE Post(c)
    BY <1>1, <2>1 DEF CallInv, Post, Goto, Return, Running
  <2>2. CASE PostAnswered(c)
    BY <1>1, <2>2 DEF CallInv, PostAnswered, Goto, Return, Running
  <2>3. CASE RequestFails(c)
    BY <1>1, <2>3 DEF CallInv, RequestFails, Return, Running
  <2>4. CASE Poll(c) \/ PollAnswered(c) \/ Sleep(c)
    BY <1>1, <2>4 DEF CallInv, Poll, PollAnswered, Sleep, Goto, Return, Running,
                      Stopped
  <2>5. QED
    BY <1>1, <2>1, <2>2, <2>3, <2>4 DEF Client
<1>2. ASSUME NEW c \in Calls, Receive(c)
      PROVE  CallInv(d)'
  BY <1>2 DEF CallInv, Receive, Running
<1>3. ASSUME NEW c \in Calls, Run(c)
      PROVE  CallInv(d)'
  BY <1>3 DEF CallInv, Run, Running, Stopped, Untold
<1>4. CASE Cancel
  BY <1>4 DEF CallInv, Cancel
<1>5. CASE Terminated \/ UNCHANGED vars
  BY <1>5 DEF CallInv, Terminated, vars
<1>6. QED
  BY <1>1, <1>2, <1>3, <1>4, <1>5 DEF Next

(* PveTask is well typed, and its calls keep CallInv, in every state.      *)
THEOREM Invariance == Spec => []IInv
<1>1. Init => IInv
  BY DEF Init, IInv, TypeOK, CallInv, Running
<1>2. IInv /\ [Next]_vars => IInv'
  BY StepTypes, StepCalls DEF IInv
<1>3. QED
  BY <1>1, <1>2, PTL DEF Spec

(* TypeOK alone, the type invariant the run checks.                        *)
THEOREM TypeCorrect == Spec => []TypeOK
<1>1. IInv => TypeOK
  BY DEF IInv
<1>2. QED
  BY <1>1, Invariance, PTL

-----------------------------------------------------------------------------
(* The refinement.                                                         *)

(* What the contract sees of the requests and of the tasks.                *)
Asked    == [c \in Calls |-> post[c] # "none"]
AsUntold == [c \in Calls |-> task[c] = Untold]

LEMMA StepRefines ==
  ASSUME IInv, [Next]_vars
  PROVE  [Contract!Next]_(Contract!vars)
<1> USE DEF IInv, TypeOK
<1>1. ASSUME NEW c \in Calls, Post(c)
      PROVE  [Contract!Next]_(Contract!vars)
  <2>1. CASE cancelled
    <3>1. Contract!ReturnErr(c)
      BY <1>1, <2>1 DEF Post, Return, Contract!ReturnErr, CallInv
    <3>2. QED
      BY <3>1 DEF Contract!Next
  <2>2. CASE ~cancelled
    <3>1. Contract!Ask(c)
      BY <1>1, <2>2 DEF Post, Goto, Contract!Ask, CallInv
    <3>2. QED
      BY <3>1 DEF Contract!Next
  <2>3. QED
    BY <2>1, <2>2
<1>2. ASSUME NEW c \in Calls, PostAnswered(c)
      PROVE  [Contract!Next]_(Contract!vars)
  <2>1. Contract!ReturnErr(c) \/ Contract!ReturnNil(c) \/ UNCHANGED Contract!vars
    BY <1>2 DEF PostAnswered, Goto, Return, CallInv,
                Contract!ReturnErr, Contract!ReturnNil, Contract!vars
  <2>2. QED
    BY <2>1 DEF Contract!Next
<1>3. ASSUME NEW c \in Calls, RequestFails(c)
      PROVE  [Contract!Next]_(Contract!vars)
  <2>1. Contract!ReturnErr(c)
    BY <1>3 DEF RequestFails, Return, CallInv, Contract!ReturnErr
  <2>2. QED
    BY <2>1 DEF Contract!Next
<1>4. ASSUME NEW c \in Calls, Poll(c) \/ PollAnswered(c) \/ Sleep(c)
      PROVE  [Contract!Next]_(Contract!vars)
  <2>1. UNCHANGED <<cancelled, post, task, effect>>
    BY <1>4 DEF Poll, PollAnswered, Sleep
  <2>2. CASE UNCHANGED ret
    BY <2>1, <2>2 DEF Contract!vars
  <2>3. CASE Return(c, "err")
    <3>1. ret[c] = "none"
      BY <1>4 DEF Poll, PollAnswered, Sleep, CallInv
    <3>2. Contract!ReturnErr(c)
      BY <2>1, <2>3, <3>1 DEF Return, Contract!ReturnErr
    <3>3. QED
      BY <3>2 DEF Contract!Next
  <2>4. CASE Return(c, "nil") /\ task[c] \in {"OK", Untold} /\ pc[c] = "awaiting"
    <3>1. ret[c] = "none" /\ (effect[c] \/ AsUntold[c])
      BY <2>4 DEF CallInv, AsUntold
    <3>2. Contract!ReturnNil(c)
      BY <2>1, <2>4, <3>1 DEF Return, Contract!ReturnNil, AsUntold
    <3>3. QED
      BY <3>2 DEF Contract!Next
  <2>5. QED
    BY <1>4, <2>2, <2>3, <2>4 DEF Poll, PollAnswered, Sleep, Goto
<1>5. ASSUME NEW c \in Calls, Receive(c)
      PROVE  [Contract!Next]_(Contract!vars)
  <2>1. UNCHANGED <<cancelled, ret>> /\ UNCHANGED Asked
    BY <1>5 DEF Receive, Asked
  <2>2. UNCHANGED AsUntold
    <3>1. post[c] # "upid" /\ task[c] = "none"
      BY <1>5 DEF Receive, CallInv
    <3>2. \A d \in Calls : task'[d] = Untold <=> task[d] = Untold
      BY <1>5, <3>1 DEF Receive, Untold, Running
    <3>3. QED
      BY <3>2 DEF AsUntold
  <2>3. CASE UNCHANGED effect
    BY <2>1, <2>2, <2>3 DEF Contract!vars, Asked, AsUntold
  <2>4. CASE effect' = [effect EXCEPT ![c] = TRUE]
    <3>1. Contract!Happen(c)
      BY <1>5, <2>1, <2>2, <2>4 DEF Receive, Contract!Happen, Asked, AsUntold
    <3>2. QED
      BY <3>1 DEF Contract!Next
  <2>5. QED
    BY <1>5, <2>3, <2>4 DEF Receive
<1>6. ASSUME NEW c \in Calls, Run(c)
      PROVE  [Contract!Next]_(Contract!vars)
  <2>1. UNCHANGED <<cancelled, ret>> /\ UNCHANGED Asked
    BY <1>6 DEF Run, Asked
  <2>2. ~effect[c] /\ post[c] = "upid" /\ task[c] = Running
    BY <1>6 DEF Run, CallInv, Running
  <2>3. PICK exit \in Stopped, done \in BOOLEAN :
            /\ task' = [task EXCEPT ![c] = exit]
            /\ effect' = [effect EXCEPT ![c] = done]
    BY <1>6 DEF Run
  <2>4. CASE exit = Untold
    <3>1. AsUntold' = [AsUntold EXCEPT ![c] = TRUE]
      <4>1. \A d \in Calls : task'[d] = Untold <=> (d = c \/ task[d] = Untold)
        BY <2>3, <2>4
      <4>2. QED
        BY <4>1 DEF AsUntold
    <3>2. effect' = [effect EXCEPT ![c] = @ \/ done]
      BY <2>2, <2>3
    <3>3. Contract!EndUntold(c)
      BY <2>1, <2>2, <3>1, <3>2 DEF Contract!EndUntold, Asked, AsUntold
    <3>4. QED
      BY <3>3 DEF Contract!Next
  <2>5. CASE exit # Untold
    <3>1. UNCHANGED AsUntold
      <4>1. \A d \in Calls : task'[d] = Untold <=> task[d] = Untold
        BY <2>2, <2>3, <2>5 DEF Untold, Running
      <4>2. QED
        BY <4>1 DEF AsUntold
    <3>2. CASE done = FALSE
      <4>1. UNCHANGED effect
        BY <2>2, <2>3, <3>2
      <4>2. QED
        BY <2>1, <3>1, <4>1 DEF Contract!vars, Asked, AsUntold
    <3>3. CASE done = TRUE
      <4>1. Contract!Happen(c)
        BY <2>1, <2>2, <2>3, <3>1, <3>3 DEF Contract!Happen, Asked, AsUntold
      <4>2. QED
        BY <4>1 DEF Contract!Next
    <3>4. QED
      BY <3>2, <3>3
  <2>6. QED
    BY <2>4, <2>5
<1>7. CASE Cancel
  <2>1. Contract!Cancel
    BY <1>7 DEF Cancel, Contract!Cancel
  <2>2. QED
    BY <2>1 DEF Contract!Next
<1>8. CASE Terminated \/ UNCHANGED vars
  BY <1>8 DEF Terminated, vars, Contract!vars
<1>9. QED
  BY <1>1, <1>2, <1>3, <1>4, <1>5, <1>6, <1>7, <1>8 DEF Next, Client

(* Do followed by WaitForTask keeps its contract: nil is returned only     *)
(* after the effect, or for a task that stopped without an exit status,    *)
(* whatever is cancelled or lost.                                          *)
THEOREM ContractKept == Spec => KeepsContract
<1>1. Init => Contract!Init
  BY DEF Init, Contract!Init, Untold
<1>2. IInv /\ [Next]_vars => [Contract!Next]_(Contract!vars)
  BY StepRefines
<1>3. QED
  BY <1>1, <1>2, Invariance, PTL DEF Spec, KeepsContract, Contract!Spec
=============================================================================
