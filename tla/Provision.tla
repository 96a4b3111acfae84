----------------------------- MODULE Provision -----------------------------
(***************************************************************************)
(* What `proxctl workflow up` promises, with no goroutine, request or      *)
(* retry in sight: each machine only ever moves forward through its life,  *)
(* from nothing to a finalized guest; a machine that is not proxctl's is   *)
(* left alone; and `up` reports success only when every machine is where   *)
(* the flags ask it to be.                                                 *)
(***************************************************************************)
CONSTANT Nodes

VARIABLES arms,       \* a kickstart ISO is attached before the first start
          finalizes,  \* up waits for the guests and detaches the ISOs
          dry,        \* nothing may be touched
          stage,      \* how far each node's machine has come
          result      \* what up returned

vars == <<arms, finalizes, dry, stage, result>>

Stage == {"absent", "others", "created", "attached", "armed", "booting",
          "installed", "finalized"}

TypeOK ==
    /\ arms \in BOOLEAN /\ finalizes \in BOOLEAN /\ dry \in BOOLEAN
    /\ stage \in [Nodes -> Stage]
    /\ result \in {"none", "ok", "error"}

Init ==
    /\ arms \in BOOLEAN /\ finalizes \in BOOLEAN /\ dry \in BOOLEAN
    /\ stage = [n \in Nodes |-> "absent"]
    /\ result = "none"

Move(n, from, to) ==
    /\ stage[n] = from
    /\ stage' = [stage EXCEPT ![n] = to]
    /\ UNCHANGED <<arms, finalizes, dry, result>>

Create(n)   == ~dry /\ Move(n, "absent", "created")
Attach(n)   == arms /\ Move(n, "created", "attached")
Arm(n)      == arms /\ Move(n, "attached", "armed")
Start(n)    == Move(n, IF arms THEN "armed" ELSE "created", "booting")
Finalize(n) == finalizes /\ Move(n, "installed", "finalized")

(* The guest and the other operators act on their own.                     *)
Install(n)  == Move(n, "booting", "installed")
Take(n)     == Move(n, "absent", "others")

(* A request the client gave up on may still move a machine after up has   *)
(* reported an error, so only success closes the books.                    *)
Complete(n) ==
    stage[n] \in IF finalizes THEN {"finalized"} ELSE {"booting", "installed"}

Succeed ==
    /\ result = "none"
    /\ dry \/ \A n \in Nodes : Complete(n)
    /\ result' = "ok"
    /\ UNCHANGED <<arms, finalizes, dry, stage>>

Fail ==
    /\ result = "none"
    /\ result' = "error"
    /\ UNCHANGED <<arms, finalizes, dry, stage>>

Next ==
    \/ \E n \in Nodes :
          \/ Create(n) \/ Attach(n) \/ Arm(n) \/ Start(n) \/ Finalize(n)
          \/ Install(n) \/ Take(n)
    \/ Succeed \/ Fail

Spec == Init /\ [][Next]_vars
=============================================================================
