------------------------------ MODULE PveCall ------------------------------
(***************************************************************************)
(* The contract of a mutating call of pkg/proxmox.  A nil error means that *)
(* the request has taken effect, unless the hypervisor ended it without a  *)
(* word on how; pkg/workflow relies on hypervisors that always say.  An    *)
(* error means nothing: the effect may be there, may still come, or never. *)
(* Only a call whose context was cancelled before it was sent is known to  *)
(* have no effect.  The calls share one context, as in an errgroup.        *)
(***************************************************************************)
CONSTANT Calls

VARIABLES cancelled,  \* the shared context
          asked,      \* the request may have left the client
          effect,     \* the request has taken effect
          untold,     \* the hypervisor ended the request and does not say how
          ret         \* what the call returned

vars == <<cancelled, asked, effect, untold, ret>>

TypeOK ==
    /\ cancelled \in BOOLEAN
    /\ asked \in [Calls -> BOOLEAN]
    /\ effect \in [Calls -> BOOLEAN]
    /\ untold \in [Calls -> BOOLEAN]
    /\ ret \in [Calls -> {"none", "nil", "err"}]

Init ==
    /\ cancelled = FALSE
    /\ asked = [c \in Calls |-> FALSE]
    /\ effect = [c \in Calls |-> FALSE]
    /\ untold = [c \in Calls |-> FALSE]
    /\ ret = [c \in Calls |-> "none"]

Cancel ==
    /\ cancelled' = TRUE
    /\ UNCHANGED <<asked, effect, untold, ret>>

Ask(c) ==
    /\ ~cancelled
    /\ ret[c] = "none"
    /\ asked' = [asked EXCEPT ![c] = TRUE]
    /\ UNCHANGED <<cancelled, effect, untold, ret>>

Happen(c) ==
    /\ asked[c]
    /\ effect' = [effect EXCEPT ![c] = TRUE]
    /\ UNCHANGED <<cancelled, asked, untold, ret>>

EndUntold(c) ==
    /\ asked[c]
    /\ untold' = [untold EXCEPT ![c] = TRUE]
    /\ \E done \in BOOLEAN : effect' = [effect EXCEPT ![c] = @ \/ done]
    /\ UNCHANGED <<cancelled, asked, ret>>

ReturnNil(c) ==
    /\ ret[c] = "none"
    /\ effect[c] \/ untold[c]
    /\ ret' = [ret EXCEPT ![c] = "nil"]
    /\ UNCHANGED <<cancelled, asked, effect, untold>>

ReturnErr(c) ==
    /\ ret[c] = "none"
    /\ ret' = [ret EXCEPT ![c] = "err"]
    /\ UNCHANGED <<cancelled, asked, effect, untold>>

Next ==
    \/ Cancel
    \/ \E c \in Calls : Ask(c) \/ Happen(c) \/ EndUntold(c) \/ ReturnNil(c)
                            \/ ReturnErr(c)

Spec == Init /\ [][Next]_vars
=============================================================================
