------------------------------ MODULE PveTask ------------------------------
(***************************************************************************)
(* A mutating call of pkg/proxmox in full: Client.Do posts the request,    *)
(* the hypervisor answers with an error, with null or with the UPID of a   *)
(* task, and Client.WaitForTask polls the task until it has stopped.       *)
(* CreateVM, vmStatus, DeleteVM, configUpdate, UploadISO and the snapshot  *)
(* calls all have this shape.                                              *)
(*                                                                         *)
(* The hypervisor's side (Receive, Run) is external.  Several calls run at *)
(* once under one context, as the goroutines of an errgroup do.            *)
(***************************************************************************)
CONSTANT Calls

VARIABLES
    cancelled,  \* the shared context is done
    pc,         \* where the client is in the call
    ret,        \* what the call returned
    post,       \* the request: not sent, on its way, or how it was answered
    task,       \* the hypervisor's task
    effect      \* history: the request has taken effect

vars == <<cancelled, pc, ret, post, task, effect>>

Running == "running"
Untold  == "untold"
Stopped == {"OK", "WARNINGS", "ERROR", Untold}

TypeOK ==
    /\ cancelled \in BOOLEAN
    /\ pc \in [Calls -> {"start", "posting", "polling", "awaiting", "sleeping",
                         "returned"}]
    /\ ret \in [Calls -> {"none", "nil", "err"}]
    /\ post \in [Calls -> {"none", "sent", "refused", "null", "upid"}]
    /\ task \in [Calls -> {"none", Running} \cup Stopped]
    /\ effect \in [Calls -> BOOLEAN]

Init ==
    /\ cancelled = FALSE
    /\ pc = [c \in Calls |-> "start"]
    /\ ret = [c \in Calls |-> "none"]
    /\ post = [c \in Calls |-> "none"]
    /\ task = [c \in Calls |-> "none"]
    /\ effect = [c \in Calls |-> FALSE]

Goto(c, l) == pc' = [pc EXCEPT ![c] = l] /\ ret' = ret

Return(c, r) ==
    /\ pc' = [pc EXCEPT ![c] = "returned"]
    /\ ret' = [ret EXCEPT ![c] = r]

-----------------------------------------------------------------------------
(* The client.                                                             *)

(* http.Client.Do looks at the context before it sends.                    *)
Post(c) ==
    /\ pc[c] = "start"
    /\ IF cancelled
       THEN Return(c, "err") /\ post' = post
       ELSE Goto(c, "posting") /\ post' = [post EXCEPT ![c] = "sent"]
    /\ UNCHANGED <<cancelled, task, effect>>

(* A status outside 2xx or an errors envelope is an error; data null or an *)
(* empty UPID is success; a UPID is waited for.                            *)
PostAnswered(c) ==
    /\ pc[c] = "posting"
    /\ \/ post[c] = "refused" /\ Return(c, "err")
       \/ post[c] = "null" /\ Return(c, "nil")
       \/ post[c] = "upid" /\ Goto(c, "polling")
    /\ UNCHANGED <<cancelled, post, task, effect>>

(* Timeout of 30s, lost connection, cancelled context, unreadable answer:  *)
(* of the POST or of a poll.  There is no retry.                           *)
RequestFails(c) ==
    /\ pc[c] \in {"posting", "awaiting"}
    /\ Return(c, "err")
    /\ UNCHANGED <<cancelled, post, task, effect>>

(* Mutant: the poll is made without the caller's context.                  *)
PollDetached(c) ==
    /\ pc[c] = "polling"
    /\ Goto(c, "awaiting")
    /\ UNCHANGED <<cancelled, post, task, effect>>

Poll(c) ==
    /\ pc[c] = "polling"
    /\ IF cancelled THEN Return(c, "err") ELSE Goto(c, "awaiting")
    /\ UNCHANGED <<cancelled, post, task, effect>>

(* Mutant: any stopped task counts as success.                             *)
PollAnsweredStopped(c) ==
    /\ pc[c] = "awaiting"
    /\ \/ Goto(c, "sleeping")
       \/ task[c] \in Stopped /\ Return(c, "nil")
    /\ UNCHANGED <<cancelled, post, task, effect>>

(* Mutant: the exit status is passed on as the result.                     *)
PollAnsweredRaw(c) ==
    /\ pc[c] = "awaiting"
    /\ \/ Goto(c, "sleeping")
       \/ task[c] \in Stopped /\ Return(c, task[c])
    /\ UNCHANGED <<cancelled, post, task, effect>>

(* An answer without a status (data null) is taken for a running task; an  *)
(* exit status other than OK, warnings included, is a failure, but a       *)
(* stopped task whose exitstatus is empty is none.                         *)
PollAnswered(c) ==
    /\ pc[c] = "awaiting"
    /\ \/ Goto(c, "sleeping")
       \/ task[c] \in {"OK", Untold} /\ Return(c, "nil")
       \/ task[c] \in {"WARNINGS", "ERROR"} /\ Return(c, "err")
    /\ UNCHANGED <<cancelled, post, task, effect>>

(* select over the context and the poll interval.                          *)
Sleep(c) ==
    /\ pc[c] = "sleeping"
    /\ Goto(c, "polling") \/ (cancelled /\ Return(c, "err"))
    /\ UNCHANGED <<cancelled, post, task, effect>>

-----------------------------------------------------------------------------
(* The hypervisor, which need not know that the client has given up.       *)

Receive(c) ==
    /\ post[c] = "sent"
    /\ \/ /\ post' = [post EXCEPT ![c] = "refused"]
          /\ UNCHANGED <<task, effect>>
       \/ /\ post' = [post EXCEPT ![c] = "null"]
          /\ effect' = [effect EXCEPT ![c] = TRUE]
          /\ task' = task
       \/ /\ post' = [post EXCEPT ![c] = "upid"]
          /\ task' = [task EXCEPT ![c] = Running]
          /\ effect' = effect
    /\ UNCHANGED <<cancelled, pc, ret>>

(* A task that stops with warnings has done its work; one that fails, or    *)
(* stops without an exit status, may have.                                 *)
Run(c) ==
    /\ task[c] = Running
    /\ \E exit \in Stopped, done \in BOOLEAN :
          /\ exit \in {"OK", "WARNINGS"} => done
          /\ task' = [task EXCEPT ![c] = exit]
          /\ effect' = [effect EXCEPT ![c] = done]
    /\ UNCHANGED <<cancelled, pc, ret, post>>

-----------------------------------------------------------------------------
Cancel ==
    /\ ~cancelled
    /\ cancelled' = TRUE
    /\ UNCHANGED <<pc, ret, post, task, effect>>

Client(c) ==
    \/ Post(c) \/ PostAnswered(c) \/ RequestFails(c)
    \/ Poll(c) \/ PollAnswered(c) \/ Sleep(c)

Terminated == (\A c \in Calls : pc[c] = "returned") /\ UNCHANGED vars

Next ==
    \/ \E c \in Calls : Client(c) \/ Receive(c) \/ Run(c)
    \/ Cancel
    \/ Terminated

Spec == Init /\ [][Next]_vars

(* The client keeps running, and its HTTP timeout ends every request that  *)
(* is not answered.  Nothing is assumed of the hypervisor.                 *)
Fairness == \A c \in Calls : WF_vars(Client(c))

FairSpec == Spec /\ Fairness

-----------------------------------------------------------------------------
(* The call keeps its contract: nil only after the effect, unless the task  *)
(* stopped without an exit status, whatever the order of cancellation, lost *)
(* answers and the task's end.                                             *)
Contract == INSTANCE PveCall WITH asked  <- [c \in Calls |-> post[c] # "none"],
                                  untold <- [c \in Calls |-> task[c] = Untold]
KeepsContract == Contract!Spec

(* Cancelling the context gets every call back, even from a task that never *)
(* stops; without it WaitForTask waits as long as the task runs.           *)
CancelEndsCalls == cancelled ~> \A c \in Calls : pc[c] = "returned"
=============================================================================
