--------------------------- MODULE CommandsProofs ---------------------------
(***************************************************************************)
(* For every number of operators and nodes, every set of commands and any  *)
(* bound on them: Commands is well typed; a command that nothing disturbs  *)
(* and that returns has reached its goal; of several `up` on one VMID only *)
(* the one that created the machine sets it up; and an installed guest on  *)
(* which `up` or `finalize` was done never gets back into its installer,   *)
(* short of a deletion, a rollback or configure-first-boot.                *)
(*                                                                         *)
(* First what the commands' programs are and what the hypervisor makes of  *)
(* a machine; then the steps of a command by their effect: it goes past a  *)
(* step of its program (Passes), is done with a node (Ends), or is one of  *)
(* Run, NeedsNode, Send, Serve and Kill; then an invariant of the commands *)
(* (IInv), on which those of the properties rest: MakerInv, QuietInv, and  *)
(* Settled, which holds of a machine from a command's success on.          *)
(***************************************************************************)
EXTENDS Commands, Integers, TLAPS

Settles == {"up", "create", "finalize"}
Downs   == {"down", "down-force"}
Ups     == {"up", "create", "create-build"}

StepNames == Sent \cup Check \cup LocalStep \cup {"wait-ssh"}

LEMMA PreloadedSteps ==
  LET L == ApplySteps(Preloaded) IN
  /\ L \in Seq(StepNames) /\ Len(L) = 5
  /\ L[1] = "verify-kickstart-iso" /\ L[2] = "create-vm" /\ L[3] = "attach-cdrom"
  /\ L[4] = "set-boot-order" /\ L[5] = "start-vm"
BY DEF ApplySteps, KickstartSteps, AttachSteps, Preloaded, StepNames, Sent, Request, VMRequest

LEMMA FromScratchSteps ==
  LET L == ApplySteps(FromScratch) IN
  /\ L \in Seq(StepNames) /\ Len(L) = 7
  /\ L[1] = "render-kickstart" /\ L[2] = "build-iso" /\ L[3] = "upload-iso"
  /\ L[4] = "create-vm" /\ L[5] = "attach-cdrom" /\ L[6] = "set-boot-order" /\ L[7] = "start-vm"
BY DEF ApplySteps, KickstartSteps, AttachSteps, Preloaded, FromScratch, StepNames, Sent,
       Request, VMRequest, LocalStep

LEMMA FinalizeList ==
  LET L == FinalizeSteps IN
  /\ L \in Seq(StepNames) /\ Len(L) = 4
  /\ L[1] = "wait-ssh" /\ L[2] = "eject-ide3" /\ L[3] = "eject-ide2"
  /\ L[4] = "boot-from-disk"
BY DEF FinalizeSteps, StepNames, Sent, Request, VMRequest

LEMMA Joined ==
  ASSUME NEW S, NEW s \in Seq(S), NEW t \in Seq(S)
  PROVE  /\ s \o t \in Seq(S) /\ Len(s \o t) = Len(s) + Len(t)
         /\ \A i \in 1 .. Len(s) : (s \o t)[i] = s[i]
         /\ \A i \in 1 .. Len(t) : (s \o t)[Len(s) + i] = t[i]
OBVIOUS

LEMMA CheckedFirst ==
  ASSUME NEW A \in Seq(StepNames), NEW B \in Seq(StepNames)
  PROVE  LET L == <<"check-free">> \o A \o B IN
         /\ L \in Seq(StepNames) /\ Len(L) = 1 + Len(A) + Len(B)
         /\ L[1] = "check-free"
         /\ \A i \in 1 .. Len(A) : L[1 + i] = A[i]
         /\ \A i \in 1 .. Len(B) : L[1 + Len(A) + i] = B[i]
<1>0. "check-free" \in StepNames
  BY DEF StepNames, Check
<1>1. PICK C : C = <<"check-free">> \o A
  OBVIOUS
<1>2. C \in Seq(StepNames) /\ Len(C) = 1 + Len(A) /\ C[1] = "check-free"
      /\ \A i \in 1 .. Len(A) : C[1 + i] = A[i]
  BY <1>0, <1>1
<1>3. /\ C \o B \in Seq(StepNames) /\ Len(C \o B) = Len(C) + Len(B)
      /\ \A i \in 1 .. Len(C) : (C \o B)[i] = C[i]
      /\ \A i \in 1 .. Len(B) : (C \o B)[Len(C) + i] = B[i]
  <2>1. C \in Seq(StepNames) /\ B \in Seq(StepNames)
    BY <1>2
  <2>2. QED
    BY <2>1, Joined
<1>4. QED
  BY <1>1, <1>2, <1>3

LEMMA UpProgram ==
  ASSUME NEW verb \in {"up", "create"}
  PROVE  LET L == Program(verb) IN
         /\ L \in Seq(StepNames) /\ Len(L) = 10
         /\ L[1] = "check-free" /\ L[2] = "verify-kickstart-iso" /\ L[3] = "create-vm"
         /\ L[4] = "attach-cdrom" /\ L[5] = "set-boot-order" /\ L[6] = "start-vm"
         /\ L[7] = "wait-ssh" /\ L[8] = "eject-ide3" /\ L[9] = "eject-ide2"
         /\ L[10] = "boot-from-disk"
<1>1. Program(verb) = <<"check-free">> \o ApplySteps(Preloaded) \o FinalizeSteps
  <2>1. Program(verb) = WorkflowSteps(verb)
    BY DEF Program, Workflow, PowerVerbs, Media, Snapshots
  <2>2. QED
    BY <2>1 DEF WorkflowSteps
<1>2. PICK A, B, L : /\ A = ApplySteps(Preloaded) /\ B = FinalizeSteps
                     /\ L = Program(verb)
  OBVIOUS
<1>3. A \in Seq(StepNames) /\ B \in Seq(StepNames) /\ L = <<"check-free">> \o A \o B
  BY <1>1, <1>2, PreloadedSteps, FinalizeList
<1>4. /\ L \in Seq(StepNames) /\ Len(L) = 1 + Len(A) + Len(B)
      /\ L[1] = "check-free"
      /\ \A i \in 1 .. Len(A) : L[1 + i] = A[i]
      /\ \A i \in 1 .. Len(B) : L[1 + Len(A) + i] = B[i]
  BY <1>3, CheckedFirst
<1>5. QED
  BY <1>2, <1>4, PreloadedSteps, FinalizeList

LEMMA BuildProgram ==
  ASSUME NEW verb, verb = "create-build"
  PROVE
  LET L == Program(verb) IN
  /\ L \in Seq(StepNames) /\ Len(L) = 12
  /\ L[1] = "check-free" /\ L[2] = "render-kickstart" /\ L[3] = "build-iso"
  /\ L[4] = "upload-iso" /\ L[5] = "create-vm" /\ L[6] = "attach-cdrom"
  /\ L[7] = "set-boot-order" /\ L[8] = "start-vm" /\ L[9] = "wait-ssh"
  /\ L[10] = "eject-ide3" /\ L[11] = "eject-ide2" /\ L[12] = "boot-from-disk"
<1>1. Program(verb) = <<"check-free">> \o ApplySteps(FromScratch) \o FinalizeSteps
  <2>1. Program(verb) = WorkflowSteps(verb)
    BY DEF Program, Workflow, PowerVerbs, Media, Snapshots
  <2>2. QED
    BY <2>1 DEF WorkflowSteps
<1>2. PICK A, B, L : /\ A = ApplySteps(FromScratch) /\ B = FinalizeSteps
                     /\ L = Program(verb)
  OBVIOUS
<1>3. A \in Seq(StepNames) /\ B \in Seq(StepNames) /\ L = <<"check-free">> \o A \o B
  BY <1>1, <1>2, FromScratchSteps, FinalizeList
<1>4. /\ L \in Seq(StepNames) /\ Len(L) = 1 + Len(A) + Len(B)
      /\ L[1] = "check-free"
      /\ \A i \in 1 .. Len(A) : L[1 + i] = A[i]
      /\ \A i \in 1 .. Len(B) : L[1 + Len(A) + i] = B[i]
  BY <1>3, CheckedFirst
<1>5. Len(A) = 7 /\ Len(B) = 4
  BY <1>2, FromScratchSteps, FinalizeList
<1>6. Len(L) = 12 /\ \A i \in 1 .. 7 : L[1 + i] = A[i]
  BY <1>4, <1>5
<1>7. \A i \in 1 .. 4 : L[8 + i] = B[i]
  BY <1>4, <1>5
<1>8. /\ L[2] = A[1] /\ L[3] = A[2] /\ L[4] = A[3] /\ L[5] = A[4]
      /\ L[6] = A[5] /\ L[7] = A[6] /\ L[8] = A[7]
  BY <1>6
<1>9. L[9] = B[1] /\ L[10] = B[2] /\ L[11] = B[3] /\ L[12] = B[4]
  BY <1>7
<1>10. /\ L \in Seq(StepNames) /\ Len(L) = 12
       /\ L[1] = "check-free" /\ L[2] = "render-kickstart" /\ L[3] = "build-iso"
       /\ L[4] = "upload-iso" /\ L[5] = "create-vm" /\ L[6] = "attach-cdrom"
       /\ L[7] = "set-boot-order" /\ L[8] = "start-vm"
  BY <1>2, <1>4, <1>6, <1>8, FromScratchSteps
<1>11. L[9] = "wait-ssh" /\ L[10] = "eject-ide3" /\ L[11] = "eject-ide2"
       /\ L[12] = "boot-from-disk"
  BY <1>2, <1>9, FinalizeList
<1>12. QED
  BY <1>2, <1>10, <1>11

LEMMA FinalizeProgram == Program("finalize") = FinalizeSteps
BY DEF Program, Workflow, PowerVerbs, Media, Snapshots, WorkflowSteps

LEMMA DownProgram ==
  ASSUME NEW verb \in Downs
  PROVE  LET L == Program(verb) IN
         /\ L \in Seq(StepNames) /\ Len(L) = 3
         /\ L[1] = "check-exists" /\ L[2] \in {"shutdown-vm", "stop-vm"}
         /\ L[3] = "delete-vm"
<1>1. Program(verb) = WorkflowSteps(verb)
  BY DEF Program, Workflow, PowerVerbs, Media, Snapshots, Downs
<1>2. WorkflowSteps(verb) =
        <<"check-exists", IF verb = "down" THEN "shutdown-vm" ELSE "stop-vm", "delete-vm">>
  BY DEF Downs, WorkflowSteps
<1>3. QED
  BY <1>1, <1>2 DEF StepNames, Check, Sent, Request, VMRequest

(* The one request of the other commands.                                  *)
Only(verb) ==
    CASE verb \in PowerVerbs -> PowerRequest(verb)
      [] verb \in Media      -> MediaRequest(verb)
      [] OTHER               -> SnapshotRequest(verb)

LEMMA OtherProgram ==
  ASSUME NEW verb \in AllVerbs \ Workflow
  PROVE  LET r == Only(verb) IN
         /\ Program(verb) = <<r>> /\ r \in Sent
         /\ r \in SnapPost <=> verb \in Snapshots
         /\ verb = "start" => r = "start-vm"
         /\ verb = "stop" => r = "shutdown-vm"
         /\ verb = "stop-force" => r = "stop-vm"
         /\ verb = "reboot" => r = "reboot-vm"
         /\ verb = "delete" <=> r = "delete-vm"
         /\ verb = "eject-iso" => r = "put-empty-ide3"
         /\ verb = "configure-first-boot" <=> r = "put-first-boot"
         /\ verb = "snapshot-restore" <=> r = "rollback"
         /\ r # "set-boot-order"
<1>1. CASE verb \in PowerVerbs
  <2>1. Program(verb) = <<PowerRequest(verb)>> /\ Only(verb) = PowerRequest(verb)
    BY <1>1 DEF Program, Workflow, PowerVerbs, Media, Snapshots, Only
  <2>2. QED
    BY <1>1, <2>1
    DEF PowerVerbs, PowerRequest, Sent, Request, VMRequest, SnapPost, Snapshots
<1>2. CASE verb \in Media
  <2>1. Program(verb) = <<MediaRequest(verb)>> /\ Only(verb) = MediaRequest(verb)
    BY <1>2 DEF Program, Workflow, PowerVerbs, Media, Snapshots, Only
  <2>2. QED
    BY <1>2, <2>1 DEF Media, MediaRequest, Sent, BootPut, SnapPost, Snapshots
<1>3. CASE verb \in Snapshots
  <2>1. Program(verb) = <<SnapshotRequest(verb)>> /\ Only(verb) = SnapshotRequest(verb)
    BY <1>3 DEF Program, Workflow, PowerVerbs, Media, Snapshots, Only
  <2>2. QED
    BY <1>3, <2>1 DEF Snapshots, SnapshotRequest, Sent, SnapPost
<1>4. QED
  BY <1>1, <1>2, <1>3 DEF AllVerbs

(* What is left of a program, and its k-th step from the end.               *)
RestOf(t, L) ==
    /\ t \in Seq(StepNames)
    /\ Len(t) <= Len(L)
    /\ \A i \in 1 .. Len(t) : t[i] = L[Len(L) - Len(t) + i]

StepAt(verb, k) == Program(verb)[Len(Program(verb)) - k + 1]

LEMMA RestTail ==
  ASSUME NEW L \in Seq(StepNames), NEW t, RestOf(t, L), t # <<>>
  PROVE  /\ Len(t) \in 1 .. Len(L) /\ Head(t) = L[Len(L) - Len(t) + 1]
         /\ RestOf(Tail(t), L) /\ Len(Tail(t)) = Len(t) - 1
<1>1. t \in Seq(StepNames) /\ Len(t) \in Nat /\ Len(t) >= 1
  BY DEF RestOf
<1>2. Head(t) = t[1] /\ Tail(t) \in Seq(StepNames) /\ Len(Tail(t)) = Len(t) - 1
      /\ \A i \in 1 .. Len(t) - 1 : Tail(t)[i] = t[i + 1]
  BY <1>1
<1>3. Len(L) \in Nat
  OBVIOUS
<1>4. QED
  BY <1>1, <1>2, <1>3 DEF RestOf

(* What the k-th step from the end of each command is.                     *)
Kinds(verb, k, s) ==
    /\ s \in StepNames
    /\ (s \in SnapPost) <=> (verb \in Snapshots)
    /\ s = "put-first-boot" => verb = "configure-first-boot"
    /\ s = "delete-vm" => verb \in TearDown
    /\ s = "rollback" => verb = "snapshot-restore"
    /\ s = "set-boot-order" => verb \in Ups
    /\ (s = "check-exists") <=> (verb \in Downs /\ k = 3)

SettleTail(verb, k, s) ==
    verb \in Settles =>
       /\ k = 4 => s = "wait-ssh"
       /\ k = 3 => s = "eject-ide3"
       /\ k = 2 => s = "eject-ide2"
       /\ k = 1 => s = "boot-from-disk"

DownTail(verb, k, s) ==
    verb \in Downs =>
       /\ k \in 1 .. 3
       /\ (k = 2) <=> (s \in {"shutdown-vm", "stop-vm"})
       /\ (k = 1) <=> (s = "delete-vm")

UpList(verb, k, s) ==
    verb = "up" =>
       /\ Len(Program(verb)) = 10
       /\ (s = "create-vm") <=> (k = 8)
       /\ (s \in {"check-free", "verify-kickstart-iso"}) <=> (k > 8)

Facts(verb, k, s) ==
    /\ Program(verb) \in Seq(StepNames) /\ Len(Program(verb)) >= 1
    /\ Kinds(verb, k, s)
    /\ SettleTail(verb, k, s)
    /\ DownTail(verb, k, s)
    /\ UpList(verb, k, s)
    /\ verb \notin Workflow => k = 1 /\ s = Only(verb)

LEMMA StepFacts ==
  ASSUME NEW verb \in AllVerbs, NEW k \in 1 .. Len(Program(verb))
  PROVE  Facts(verb, k, StepAt(verb, k))
<1>0. PICK s, L : s = StepAt(verb, k) /\ L = Program(verb)
  OBVIOUS
<1> SUFFICES Facts(verb, k, s)
  BY <1>0
<1>1. CASE verb \in {"up", "create"}
  <2>1. k \in 1 .. 10 /\ s = L[10 - k + 1] /\ Len(L) = 10 /\ L \in Seq(StepNames)
    BY <1>0, <1>1, UpProgram DEF StepAt
  <2>2. k \in {1, 2, 3, 4, 5, 6, 7, 8, 9, 10}
    BY <2>1
  <2>3. \/ k = 1 /\ s = "boot-from-disk"
        \/ k = 2 /\ s = "eject-ide2"
        \/ k = 3 /\ s = "eject-ide3"
        \/ k = 4 /\ s = "wait-ssh"
        \/ k = 5 /\ s = "start-vm"
        \/ k = 6 /\ s = "set-boot-order"
        \/ k = 7 /\ s = "attach-cdrom"
        \/ k = 8 /\ s = "create-vm"
        \/ k = 9 /\ s = "verify-kickstart-iso"
        \/ k = 10 /\ s = "check-free"
    BY <1>0, <1>1, <2>1, <2>2, UpProgram
  <2>4. s \in StepNames
    BY <2>2, <2>3 DEF StepNames, Sent, Check, Request, VMRequest
  <2>5. verb \notin Snapshots /\ verb \notin Downs /\ verb \in Workflow
    BY <1>1 DEF Snapshots, Downs, Workflow
  <2>6. Kinds(verb, k, s)
    BY <1>1, <2>3, <2>4, <2>5 DEF Kinds, SnapPost, Ups
  <2>7. SettleTail(verb, k, s)
    BY <2>3 DEF SettleTail
  <2>8. UpList(verb, k, s)
    BY <1>0, <2>1, <2>3 DEF UpList
  <2>9. QED
    BY <1>0, <2>1, <2>5, <2>6, <2>7, <2>8 DEF Facts, DownTail
<1>2. CASE verb = "create-build"
  <2>1. k \in 1 .. 12 /\ s = L[12 - k + 1] /\ Len(L) = 12 /\ L \in Seq(StepNames)
    BY <1>0, <1>2, BuildProgram DEF StepAt
  <2>2. k \in {1, 2, 3, 4, 5, 6, 7, 8, 9, 10, 11, 12}
    BY <2>1
  <2>3. \/ k = 1 /\ s = "boot-from-disk"
        \/ k = 2 /\ s = "eject-ide2"
        \/ k = 3 /\ s = "eject-ide3"
        \/ k = 4 /\ s = "wait-ssh"
        \/ k = 5 /\ s = "start-vm"
        \/ k = 6 /\ s = "set-boot-order"
        \/ k = 7 /\ s = "attach-cdrom"
        \/ k = 8 /\ s = "create-vm"
        \/ k = 9 /\ s = "upload-iso"
        \/ k = 10 /\ s = "build-iso"
        \/ k = 11 /\ s = "render-kickstart"
        \/ k = 12 /\ s = "check-free"
    <3>1. /\ L[1] = "check-free" /\ L[2] = "render-kickstart" /\ L[3] = "build-iso"
          /\ L[4] = "upload-iso" /\ L[5] = "create-vm" /\ L[6] = "attach-cdrom"
          /\ L[7] = "set-boot-order" /\ L[8] = "start-vm" /\ L[9] = "wait-ssh"
          /\ L[10] = "eject-ide3" /\ L[11] = "eject-ide2" /\ L[12] = "boot-from-disk"
      BY <1>0, <1>2, BuildProgram
    <3>2. QED
      BY <2>1, <2>2, <3>1
  <2>4. s \in StepNames
    BY <2>3 DEF StepNames, Sent, Check, Request, VMRequest, LocalStep
  <2>5. verb \notin Snapshots /\ verb \notin Downs /\ verb \in Workflow
        /\ verb \notin Settles /\ verb # "up"
    BY <1>2 DEF Snapshots, Downs, Workflow, Settles
  <2>6. Kinds(verb, k, s)
    BY <1>2, <2>3, <2>4, <2>5 DEF Kinds, SnapPost, Ups
  <2>7. QED
    BY <1>0, <2>1, <2>5, <2>6 DEF Facts, DownTail, SettleTail, UpList
<1>3. CASE verb = "finalize"
  <2>1. k \in 1 .. 4 /\ s = L[4 - k + 1] /\ Len(L) = 4 /\ L \in Seq(StepNames)
    BY <1>0, <1>3, FinalizeProgram, FinalizeList DEF StepAt
  <2>2. k \in {1, 2, 3, 4}
    BY <2>1
  <2>3. \/ k = 1 /\ s = "boot-from-disk"
        \/ k = 2 /\ s = "eject-ide2"
        \/ k = 3 /\ s = "eject-ide3"
        \/ k = 4 /\ s = "wait-ssh"
    BY <1>0, <1>3, <2>1, <2>2, FinalizeProgram, FinalizeList
  <2>4. s \in StepNames
    BY <2>2, <2>3 DEF StepNames, Sent, Check, Request, VMRequest
  <2>5. verb \notin Snapshots /\ verb \notin Downs /\ verb \in Workflow /\ verb # "up"
    BY <1>3 DEF Snapshots, Downs, Workflow
  <2>6. Kinds(verb, k, s)
    BY <2>3, <2>4, <2>5 DEF Kinds, SnapPost
  <2>7. SettleTail(verb, k, s)
    BY <2>3 DEF SettleTail
  <2>8. QED
    BY <1>0, <2>1, <2>5, <2>6, <2>7 DEF Facts, DownTail, UpList
<1>4. CASE verb \in Downs
  <2>1. k \in 1 .. 3 /\ s = L[3 - k + 1] /\ Len(L) = 3 /\ L \in Seq(StepNames)
    BY <1>0, <1>4, DownProgram DEF StepAt
  <2>2. k \in {1, 2, 3}
    BY <2>1
  <2>3. /\ k = 1 => s = "delete-vm"
        /\ k = 2 => s \in {"shutdown-vm", "stop-vm"}
        /\ k = 3 => s = "check-exists"
    BY <1>0, <1>4, <2>1, <2>2, DownProgram
  <2>4. s \in StepNames
    BY <2>2, <2>3 DEF StepNames, Sent, Check, Request, VMRequest
  <2>5. verb \notin Snapshots /\ verb \in Workflow /\ verb \notin Settles
        /\ verb # "up" /\ verb \in TearDown
    BY <1>4 DEF Snapshots, Downs, Workflow, Settles, TearDown
  <2>6. Kinds(verb, k, s)
    BY <1>4, <2>2, <2>3, <2>4, <2>5 DEF Kinds, SnapPost
  <2>7. DownTail(verb, k, s)
    BY <2>2, <2>3 DEF DownTail
  <2>8. QED
    BY <1>0, <2>1, <2>5, <2>6, <2>7 DEF Facts, SettleTail, UpList
<1>5. CASE verb \notin Workflow
  <2>1. L = <<Only(verb)>> /\ Only(verb) \in Sent
    BY <1>0, <1>5, OtherProgram
  <2>2. k = 1 /\ s = Only(verb) /\ Len(L) = 1 /\ Len(L) >= 1 /\ L \in Seq(StepNames)
    BY <1>0, <2>1 DEF StepAt, StepNames
  <2>3. /\ s \in SnapPost <=> verb \in Snapshots
        /\ s = "put-first-boot" => verb = "configure-first-boot"
        /\ s = "delete-vm" => verb = "delete"
        /\ s # "check-exists" /\ s \in StepNames
        /\ s = "rollback" => verb = "snapshot-restore"
        /\ s # "set-boot-order"
    BY <1>5, <2>1, <2>2, OtherProgram
    DEF StepNames, Sent, Request, VMRequest, BootPut, SnapPost
  <2>4. QED
    <3>1. verb \notin Settles /\ verb \notin Downs /\ verb # "up"
      BY <1>5 DEF Downs, Settles, Workflow
    <3>2. QED
      BY <1>0, <1>5, <2>2, <2>3, <3>1
      DEF Facts, Kinds, SettleTail, DownTail, UpList, TearDown
<1>6. QED
  BY <1>1, <1>2, <1>3, <1>4, <1>5 DEF Workflow, Downs

LEMMA ProgramType ==
  ASSUME NEW verb \in AllVerbs
  PROVE  /\ Program(verb) \in Seq(StepNames) /\ Len(Program(verb)) \in Nat
         /\ Len(Program(verb)) >= 1
         /\ RestOf(Program(verb), Program(verb))
<1>1. PICK L : L = Program(verb)
  OBVIOUS
<1>2. L \in Seq(StepNames) /\ Len(L) >= 1
  <2>1. CASE verb \in {"up", "create"}
    BY <1>1, <2>1, UpProgram
  <2>2. CASE verb = "create-build"
    BY <1>1, <2>2, BuildProgram
  <2>3. CASE verb = "finalize"
    BY <1>1, <2>3, FinalizeProgram, FinalizeList
  <2>4. CASE verb \in Downs
    BY <1>1, <2>4, DownProgram
  <2>5. CASE verb \notin Workflow
    <3>1. L = <<Only(verb)>> /\ Only(verb) \in StepNames
      BY <1>1, <2>5, OtherProgram DEF StepNames
    <3>2. QED
      BY <3>1
  <2>6. QED
    BY <2>1, <2>2, <2>3, <2>4, <2>5 DEF Workflow, Downs
<1>3. RestOf(L, L)
  BY <1>2 DEF RestOf
<1>4. QED
  BY <1>1, <1>2, <1>3

Job == [verb : Verbs \cup {Idle}, given : SUBSET Nodes, nodes : Seq(Nodes),
        todo : Seq(StepNames)]

LastRun == [verb : Verbs \cup {Idle}, given : SUBSET Nodes,
            result : {"none", "ok", "error", "exists", "usage", "killed", "no-builder"}]

Late == Nodes \X Sent \X Ops

(* A machine that proxctl created, or none.                                *)
Machine == {v \in VM : v.by # "other" /\ (~Exists(v) => v = NoVM)}

Types ==
    /\ job \in [Ops -> Job]
    /\ call \in [Ops -> {"none", "sent", "carried-out"}]
    /\ last \in [Ops -> LastRun]
    /\ errs \in [Ops -> SUBSET Nodes]
    /\ quiet \in [Ops -> BOOLEAN]
    /\ left \in 0 .. MaxCommands
    /\ tornDown \in BOOLEAN /\ rearmed \in BOOLEAN
    /\ late \subseteq Late
    /\ vm \in [Nodes -> Machine]
    /\ snap \in [Nodes -> Machine]
    /\ maker \in [Nodes -> Ops \cup {Nobody}]

(* A command at work: what is left of its program and of its nodes, and    *)
(* the errors of those it is done with.                                    *)
AtWork(j, c, bad) ==
    /\ j.verb \in Verbs
    /\ RestOf(j.todo, Program(j.verb))
    /\ Len(j.nodes) \in 1 .. N /\ IsInjective(j.nodes)
    /\ ToSet(j.nodes) \subseteq j.given
    /\ bad \subseteq j.given \ ToSet(j.nodes)
    /\ c # "none" => j.todo # <<>> /\ Head(j.todo) \in Sent
    /\ c = "carried-out" => Head(j.todo) \notin SnapPost

Control(p) ==
    IF job[p] = NoJob
    THEN call[p] = "none" /\ errs[p] \subseteq last[p].given
    ELSE AtWork(job[p], call[p], errs[p])

IInv == Types /\ \A p \in Ops : Control(p)

-----------------------------------------------------------------------------

LEMMA NotIdle == Idle \notin AllVerbs
BY DEF Idle, AllVerbs, Workflow, PowerVerbs, Media, Snapshots

LEMMA SentApart ==
  /\ \A s \in Sent : s \notin Check /\ s \notin LocalStep /\ s # "wait-ssh"
  /\ SnapPost \subseteq Sent /\ Sent \subseteq StepNames
  /\ {"shutdown-vm", "stop-vm"} \subseteq Sent
  /\ "delete-vm" \in Sent /\ "create-vm" \in Sent
BY DEF Sent, Check, LocalStep, Request, VMRequest, BootPut, SnapPost, StepNames

(* Where a command at work stands.                                         *)
LEMMA Here ==
  ASSUME IInv, NEW p \in Ops, job[p] # NoJob
  PROVE  /\ job[p].verb \in Verbs /\ job[p].verb \in AllVerbs
         /\ job[p].nodes \in Seq(Nodes) /\ Len(job[p].nodes) \in 1 .. N
         /\ Node(p) \in Nodes /\ Node(p) \in job[p].given /\ Node(p) \notin errs[p]
         /\ Node(p) \in ToSet(job[p].nodes)
         /\ AtWork(job[p], call[p], errs[p])
<1>1. AtWork(job[p], call[p], errs[p])
  BY DEF IInv, Control
<1>2. job[p].nodes \in Seq(Nodes) /\ Len(job[p].nodes) \in 1 .. N /\ job[p].verb \in Verbs
  BY <1>1 DEF AtWork, IInv, Types, Job
<1>3. N \in Nat /\ job[p].verb \in AllVerbs
  BY <1>2, CommandsAssumption
<1>4. Node(p) = job[p].nodes[1] /\ 1 \in DOMAIN job[p].nodes
  BY <1>2, <1>3 DEF Node
<1>5. Node(p) \in Nodes /\ Node(p) \in ToSet(job[p].nodes)
  BY <1>2, <1>4 DEF ToSet
<1>6. QED
  BY <1>1, <1>2, <1>3, <1>5 DEF AtWork

LEMMA HereStep ==
  ASSUME IInv, NEW p \in Ops, job[p] # NoJob, job[p].todo # <<>>
  PROVE  /\ Len(job[p].todo) \in Nat /\ Len(job[p].todo) >= 1
         /\ Facts(job[p].verb, Len(job[p].todo), Head(job[p].todo))
         /\ RestOf(Tail(job[p].todo), Program(job[p].verb))
         /\ Len(Tail(job[p].todo)) = Len(job[p].todo) - 1
         /\ Head(job[p].todo) \in StepNames
<1>1. PICK v, t, L : v = job[p].verb /\ t = job[p].todo /\ L = Program(v)
  OBVIOUS
<1>2. v \in AllVerbs /\ RestOf(t, L) /\ t # <<>>
  BY <1>1, Here DEF AtWork
<1>3. Len(t) \in Nat /\ Len(t) >= 1 /\ Len(t) <= Len(L)
  BY <1>2 DEF RestOf
<1>4. L \in Seq(StepNames)
  BY <1>1, <1>2, ProgramType
<1>5. /\ Len(t) \in 1 .. Len(L) /\ Head(t) = L[Len(L) - Len(t) + 1]
      /\ RestOf(Tail(t), L) /\ Len(Tail(t)) = Len(t) - 1
  BY <1>2, <1>4, RestTail
<1>6. Head(t) = StepAt(v, Len(t))
  BY <1>1, <1>5 DEF StepAt
<1>7. Facts(v, Len(t), Head(t))
  BY <1>1, <1>2, <1>5, <1>6, StepFacts
<1>8. QED
  BY <1>1, <1>3, <1>5, <1>7 DEF Facts, Kinds

MayLeave(p) ==
    \/ late' = late
    \/ call[p] = "sent" /\ late' = late \cup {<<Node(p), Head(job[p].todo), p>>}

(* A command goes past a step.                                             *)
Passes(p) ==
    /\ job[p] # NoJob /\ job[p].todo # <<>>
    /\ StepDone(p)
    /\ call' = [call EXCEPT ![p] = "none"]
    /\ UNCHANGED <<last, errs, quiet, left, tornDown, rearmed, server>>
    /\ \/ call[p] = "carried-out" /\ late' = late
       \/ /\ call[p] = "none" /\ late' = late
          /\ Head(job[p].todo) \in Check \cup LocalStep \cup {"wait-ssh"}
          /\ Head(job[p].todo) = "wait-ssh" => SSHUp(vm[Node(p)])
          /\ Head(job[p].todo) = "check-free" => ~Exists(vm[Node(p)])
       \/ /\ call[p] = "sent" /\ MayLeave(p)
          /\ \/ Head(job[p].todo) \in SnapPost
             \/ job[p].verb \in Downs /\ Head(job[p].todo) \in {"shutdown-vm", "stop-vm"}

(* A command is done with a node.                                          *)
Ends(p, r) ==
    /\ job[p] # NoJob
    /\ NodeDone(p, r)
    /\ call' = [call EXCEPT ![p] = "none"]
    /\ UNCHANGED <<quiet, left, tornDown, rearmed, server>>
    /\ MayLeave(p)
    /\ r = "ok" => /\ late' = late
                   /\ \/ job[p].todo = <<>>
                      \/ job[p].verb \in Downs /\ ~Exists(vm[Node(p)])

EndResult == {"ok", "error", "exists", "no-builder"}

LEMMA AtStep ==
  ASSUME IInv, NEW p \in Ops, NEW s, At(p, s)
  PROVE  /\ job[p] # NoJob /\ job[p].todo # <<>> /\ Head(job[p].todo) = s
         /\ s \notin Sent => call[p] = "none"
<1>1. job[p].todo # <<>> /\ Head(job[p].todo) = s
  BY DEF At
<1>2. job[p] # NoJob
  BY <1>1 DEF NoJob
<1>3. s \notin Sent => call[p] = "none"
  BY <1>1, <1>2, Here DEF AtWork
<1>4. QED
  BY <1>1, <1>2, <1>3

LEMMA NoCall ==
  ASSUME Types, NEW p \in Ops, call[p] = "none"
  PROVE  call = [call EXCEPT ![p] = "none"]
BY DEF Types

LEMMA InCall ==
  ASSUME IInv, NEW p \in Ops, call[p] # "none"
  PROVE  job[p] # NoJob /\ job[p].todo # <<>> /\ Head(job[p].todo) \in Sent
<1>1. job[p] # NoJob
  BY DEF IInv, Control
<1>2. QED
  BY <1>1, Here DEF AtWork

(* StepFailed is one or the other.                                         *)
LEMMA FailedSteps ==
  ASSUME IInv, NEW p \in Ops, job[p] # NoJob, job[p].todo # <<>>, StepFailed(p),
         Head(job[p].todo) \in Sent \cup Check
  PROVE  \/ NodeDone(p, "error")
         \/ /\ StepDone(p) /\ UNCHANGED <<last, errs>>
            /\ job[p].verb \in Downs /\ Head(job[p].todo) \in {"shutdown-vm", "stop-vm"}
<1>1. CASE /\ job[p].verb \in {"down", "down-force"} /\ Head(job[p].todo) # "delete-vm"
           /\ Head(job[p].todo) # "check-exists"
  <2>1. StepDone(p) /\ UNCHANGED <<last, errs>>
    BY <1>1 DEF StepFailed
  <2>2. PICK k, s : k = Len(job[p].todo) /\ s = Head(job[p].todo)
    OBVIOUS
  <2>3. Facts(job[p].verb, k, s) /\ job[p].verb \in Downs
    BY <1>1, <2>2, HereStep DEF Downs
  <2>4. /\ k \in 1 .. 3
        /\ (k = 2) <=> (s \in {"shutdown-vm", "stop-vm"})
        /\ (k = 1) <=> (s = "delete-vm")
        /\ (s = "check-exists") <=> (k = 3)
    BY <2>3 DEF Facts, DownTail, Kinds
  <2>5. k \in {1, 2, 3}
    BY <2>4
  <2>6. s \in {"shutdown-vm", "stop-vm"}
    BY <1>1, <2>2, <2>4, <2>5
  <2>7. QED
    BY <2>1, <2>2, <2>3, <2>6
<1>2. CASE ~(/\ job[p].verb \in {"down", "down-force"} /\ Head(job[p].todo) # "delete-vm"
             /\ Head(job[p].todo) # "check-exists")
  BY <1>2 DEF StepFailed
<1>3. QED
  BY <1>1, <1>2

LEMMA ClientSteps ==
  ASSUME IInv, NEW p \in Ops, Client(p)
  PROVE  \/ Run(p) \/ NeedsNode(p) \/ Send(p) \/ Passes(p)
         \/ \E r \in EndResult : Ends(p, r)
<1>0. Types
  BY DEF IInv
<1>1. CASE Run(p) \/ NeedsNode(p) \/ Send(p)
  BY <1>1
<1>2. CASE NodeReturns(p)
  <2>1. call[p] = "none"
    BY <1>2, InCall DEF NodeReturns
  <2>2. Ends(p, "ok")
    BY <1>0, <1>2, <2>1, NoCall DEF NodeReturns, Ends, MayLeave
  <2>3. QED
    BY <2>2 DEF EndResult
<1>3. CASE CheckFree(p) \/ CheckExists(p)
  <2>1. PICK s \in Check : At(p, s) /\ s = Head(job[p].todo)
    BY <1>3 DEF CheckFree, CheckExists, Check, At
  <2>2. job[p] # NoJob /\ job[p].todo # <<>> /\ call[p] = "none"
    BY <2>1, AtStep, SentApart DEF Check
  <2>3. call' = [call EXCEPT ![p] = "none"] /\ UNCHANGED <<quiet, left, tornDown, rearmed, server>>
        /\ late' = late
    BY <1>0, <1>3, <2>2, NoCall DEF CheckFree, CheckExists
  <2>4. CASE /\ StepDone(p) /\ UNCHANGED <<last, errs>>
             /\ Head(job[p].todo) = "check-free" => ~Exists(vm[Node(p)])
    BY <2>1, <2>2, <2>3, <2>4 DEF Passes, Check
  <2>5. CASE NodeDone(p, "exists")
    BY <2>2, <2>3, <2>5 DEF Ends, MayLeave, EndResult
  <2>6. CASE NodeDone(p, "ok") /\ At(p, "check-exists") /\ ~Exists(vm[Node(p)])
    <3>1. job[p].verb \in Downs
      BY <2>2, <2>6, HereStep DEF At, Facts, Kinds
    <3>2. QED
      BY <2>2, <2>3, <2>6, <3>1 DEF Ends, MayLeave, EndResult
  <2>7. QED
    BY <1>3, <2>4, <2>5, <2>6 DEF CheckFree, CheckExists, At
<1>4. CASE CheckFails(p)
  <2>1. PICK s \in Check : At(p, s) /\ s = Head(job[p].todo)
    BY <1>4 DEF CheckFails, Check, At
  <2>2. job[p] # NoJob /\ job[p].todo # <<>> /\ call[p] = "none"
    BY <2>1, AtStep, SentApart DEF Check
  <2>3. call' = [call EXCEPT ![p] = "none"] /\ UNCHANGED <<quiet, left, tornDown, rearmed, server>>
        /\ late' = late /\ StepFailed(p)
    BY <1>0, <1>4, <2>2, NoCall DEF CheckFails
  <2>4. NodeDone(p, "error")
    BY <2>1, <2>2, <2>3, FailedSteps DEF Check
  <2>5. QED
    BY <2>2, <2>3, <2>4 DEF Ends, MayLeave, EndResult
<1>5. CASE Render(p) \/ BuildFails(p) \/ SSHDeadline(p) \/ SSHAnswers(p)
  <2>1. PICK s \in LocalStep \cup {"wait-ssh"} : At(p, s) /\ s = Head(job[p].todo)
    BY <1>5 DEF Render, BuildFails, SSHAnswers, SSHDeadline, LocalStep, At
  <2>2. job[p] # NoJob /\ job[p].todo # <<>> /\ call[p] = "none"
    BY <2>1, AtStep, SentApart DEF LocalStep
  <2>3. call' = [call EXCEPT ![p] = "none"] /\ UNCHANGED <<quiet, left, tornDown, rearmed, server>>
        /\ late' = late
    BY <1>0, <1>5, <2>2, NoCall DEF Render, BuildFails, SSHAnswers, SSHDeadline
  <2>4. CASE NodeDone(p, "error") \/ NodeDone(p, "no-builder")
    BY <2>2, <2>3, <2>4 DEF Ends, MayLeave, EndResult
  <2>5. CASE /\ StepDone(p) /\ UNCHANGED <<last, errs>>
             /\ Head(job[p].todo) = "wait-ssh" => SSHUp(vm[Node(p)])
    BY <2>1, <2>2, <2>3, <2>5 DEF Passes, LocalStep
  <2>6. QED
    BY <1>5, <2>4, <2>5 DEF Render, BuildFails, SSHAnswers, SSHDeadline, At
<1>6. CASE Reply(p)
  BY <1>6, InCall DEF Reply, Passes
<1>7. CASE ReplyUnawaited(p)
  BY <1>7, InCall DEF ReplyUnawaited, Passes, MayLeave
<1>8. CASE Rejected(p) \/ GiveUp(p)
  <2>1. job[p] # NoJob /\ job[p].todo # <<>> /\ Head(job[p].todo) \in Sent
        /\ call[p] # "none"
    BY <1>8, InCall DEF Rejected, GiveUp
  <2>2. \/ call[p] = "sent"
        \/ call[p] = "carried-out" /\ late' = late
    <3>1. call[p] \in {"sent", "carried-out"}
      BY <1>0, <2>1 DEF Types
    <3>2. call[p] # "sent" => late' = late
      BY <1>8 DEF Rejected, GiveUp, Behind
    <3>3. QED
      BY <3>1, <3>2
  <2>3. call' = [call EXCEPT ![p] = "none"] /\ UNCHANGED <<quiet, left, tornDown, rearmed, server>>
        /\ MayLeave(p) /\ StepFailed(p)
    BY <1>8, <2>2 DEF Rejected, GiveUp, Behind, MayLeave
  <2>4. CASE NodeDone(p, "error")
    BY <2>1, <2>3, <2>4 DEF Ends, EndResult
  <2>5. CASE /\ StepDone(p) /\ UNCHANGED <<last, errs>>
             /\ job[p].verb \in Downs /\ Head(job[p].todo) \in {"shutdown-vm", "stop-vm"}
    BY <2>1, <2>2, <2>3, <2>5 DEF Passes
  <2>6. QED
    BY <2>1, <2>3, <2>4, <2>5, FailedSteps
<1>9. QED
  BY <1>1, <1>2, <1>3, <1>4, <1>5, <1>6, <1>7, <1>8 DEF Client

LEMMA TailNodes ==
  ASSUME NEW s \in Seq(Nodes), Len(s) >= 1, IsInjective(s)
  PROVE  /\ Tail(s) \in Seq(Nodes) /\ Len(Tail(s)) = Len(s) - 1
         /\ IsInjective(Tail(s))
         /\ ToSet(Tail(s)) = ToSet(s) \ {Head(s)}
         /\ Len(s) = 1 => ToSet(s) = {Head(s)}
<1>1. /\ Tail(s) \in Seq(Nodes) /\ Len(Tail(s)) = Len(s) - 1 /\ Len(s) \in Nat
      /\ \A i \in 1 .. Len(s) - 1 : Tail(s)[i] = s[i + 1]
      /\ Head(s) = s[1]
  OBVIOUS
<1>2. \A i, j \in 1 .. Len(s) : s[i] = s[j] => i = j
  BY DEF IsInjective
<1>3. IsInjective(Tail(s))
  <2>1. \A i, j \in 1 .. Len(s) - 1 : s[i + 1] = s[j + 1] => i = j
    <3>1. SUFFICES ASSUME NEW i \in 1 .. Len(s) - 1, NEW j \in 1 .. Len(s) - 1,
                          s[i + 1] = s[j + 1]
                   PROVE  i = j
      OBVIOUS
    <3>2. i + 1 \in 1 .. Len(s) /\ j + 1 \in 1 .. Len(s)
      BY <1>1
    <3>3. i + 1 = j + 1
      BY <1>2, <3>1, <3>2
    <3>4. QED
      BY <3>3
  <2>2. DOMAIN Tail(s) = 1 .. Len(s) - 1
    BY <1>1
  <2>3. QED
    BY <1>1, <2>1, <2>2 DEF IsInjective
<1>4. ToSet(s) = {s[i] : i \in 1 .. Len(s)}
  BY DEF ToSet
<1>5. ToSet(Tail(s)) = {s[i + 1] : i \in 1 .. Len(s) - 1}
  <2>1. PICK t : t = Tail(s)
    OBVIOUS
  <2>2. DOMAIN t = 1 .. Len(s) - 1 /\ \A i \in 1 .. Len(s) - 1 : t[i] = s[i + 1]
    BY <1>1, <2>1
  <2>3. ToSet(t) = {t[i] : i \in 1 .. Len(s) - 1}
    BY <2>2 DEF ToSet
  <2>4. QED
    BY <2>1, <2>2, <2>3
<1>6. ToSet(Tail(s)) \subseteq ToSet(s) \ {Head(s)}
  <2>1. ASSUME NEW i \in 1 .. Len(s) - 1
        PROVE  s[i + 1] \in ToSet(s) /\ s[i + 1] # s[1]
    <3>1. i + 1 \in 1 .. Len(s) /\ 1 \in 1 .. Len(s) /\ i + 1 # 1
      BY <1>1
    <3>2. QED
      BY <1>2, <1>4, <3>1
  <2>2. QED
    BY <1>1, <1>5, <2>1
<1>7. ToSet(s) \ {Head(s)} \subseteq ToSet(Tail(s))
  <2>1. ASSUME NEW i \in 1 .. Len(s), s[i] # s[1]
        PROVE  s[i] \in ToSet(Tail(s))
    <3>1. i - 1 \in 1 .. Len(s) - 1 /\ (i - 1) + 1 = i
      BY <2>1, <1>1
    <3>2. QED
      BY <1>5, <3>1
  <2>2. QED
    BY <1>1, <1>4, <2>1
<1>8. Len(s) = 1 => ToSet(s) = {Head(s)}
  BY <1>1, <1>4
<1>9. QED
  BY <1>1, <1>3, <1>6, <1>7, <1>8

(* Done with a node with result r: the errors, the job and the report that *)
(* follow.                                                                 *)
DoneTo(p, r, bad, j, l) ==
    /\ bad = IF r = "ok" THEN errs[p] ELSE errs[p] \cup {Node(p)}
    /\ errs' = [errs EXCEPT ![p] = bad]
    /\ job' = [job EXCEPT ![p] = j]
    /\ last' = [last EXCEPT ![p] = l]
    /\ bad \subseteq job[p].given
    /\ \/ /\ l = last[p]
          /\ j.verb = job[p].verb /\ j.given = job[p].given
          /\ j.todo = Program(j.verb)
          /\ j # NoJob /\ j.nodes # <<>> /\ Head(j.nodes) # Node(p)
          /\ ToSet(j.nodes) = ToSet(job[p].nodes) \ {Node(p)}
          /\ Head(j.nodes) \in ToSet(j.nodes)
          /\ AtWork(j, "none", bad)
       \/ /\ j = NoJob
          /\ ToSet(job[p].nodes) = {Node(p)}
          /\ l.verb = job[p].verb /\ l.given = job[p].given
          /\ l.result = IF bad = {} THEN "ok" ELSE IF r = "ok" THEN "error" ELSE r

(* What NodeDone does, in the terms of the invariant.                       *)
LEMMA DoneEffect ==
  ASSUME IInv, NEW p \in Ops, job[p] # NoJob, NEW r \in EndResult, NodeDone(p, r)
  PROVE  \E bad \in SUBSET Nodes, j \in Job, l \in LastRun : DoneTo(p, r, bad, j, l)
<1> DEFINE bad == IF r = "ok" THEN errs[p] ELSE errs[p] \cup {Node(p)}
<1>0. /\ job \in [Ops -> Job] /\ last \in [Ops -> LastRun] /\ errs \in [Ops -> SUBSET Nodes]
  BY DEF IInv, Types
<1>1. /\ job[p].nodes \in Seq(Nodes) /\ Len(job[p].nodes) \in 1 .. N
      /\ Node(p) \in Nodes /\ Node(p) \in job[p].given /\ Node(p) \notin errs[p]
      /\ job[p].verb \in Verbs /\ job[p].verb \in AllVerbs
      /\ IsInjective(job[p].nodes) /\ ToSet(job[p].nodes) \subseteq job[p].given
      /\ errs[p] \subseteq job[p].given \ ToSet(job[p].nodes)
      /\ Node(p) = Head(job[p].nodes)
  BY Here DEF AtWork, Node
<1>2. N \in Nat
  BY CommandsAssumption
<1>3. /\ bad \in SUBSET Nodes /\ bad \subseteq job[p].given
      /\ job[p].given \in SUBSET Nodes /\ bad \in SUBSET Nodes
  BY <1>0, <1>1 DEF Job
<1>4. errs' = [errs EXCEPT ![p] = bad]
  BY DEF NodeDone
<1>5. PICK s, rest : s = job[p].nodes /\ rest = Tail(s)
  OBVIOUS
<1>11. s \in Seq(Nodes) /\ Len(s) \in 1 .. N
  BY <1>1, <1>5
<1>6. /\ rest \in Seq(Nodes) /\ Len(rest) = Len(s) - 1
      /\ IsInjective(rest) /\ ToSet(rest) = ToSet(s) \ {Node(p)}
      /\ Len(s) = 1 => ToSet(s) = {Node(p)}
  BY <1>1, <1>2, <1>5, TailNodes
<1>7. CASE Len(s) > 1
  <2>1. PICK j : j = [job[p] EXCEPT !.nodes = rest, !.todo = Program(job[p].verb)]
    OBVIOUS
  <2>2. job' = [job EXCEPT ![p] = j] /\ last' = last
    BY <1>0, <1>5, <1>7, <2>1 DEF NodeDone, Job
  <2>3. Program(job[p].verb) \in Seq(StepNames)
        /\ RestOf(Program(job[p].verb), Program(job[p].verb))
    BY <1>1, ProgramType
  <2>4. /\ j \in Job /\ j.verb = job[p].verb /\ j.given = job[p].given
        /\ j.nodes = rest /\ j.todo = Program(j.verb)
    BY <1>0, <1>6, <2>1, <2>3 DEF Job
  <2>5. Len(rest) \in 1 .. N /\ rest # <<>>
    BY <1>2, <1>11, <1>6, <1>7
  <2>6. Head(rest) \in ToSet(rest) /\ Head(rest) # Node(p)
    <3>1. Head(rest) = rest[1] /\ 1 \in DOMAIN rest
      BY <1>6, <2>5
    <3>2. QED
      BY <1>6, <3>1 DEF ToSet
  <2>7. bad \subseteq job[p].given \ ToSet(rest)
    BY <1>1, <1>5, <1>6
  <2>8. AtWork(j, "none", bad)
    <3>1. ToSet(j.nodes) \subseteq j.given
      BY <1>1, <1>5, <1>6, <2>4
    <3>2. RestOf(j.todo, Program(j.verb)) /\ j.verb \in Verbs
      BY <1>1, <2>3, <2>4
    <3>3. QED
      BY <1>6, <2>4, <2>5, <2>7, <3>1, <3>2 DEF AtWork
  <2>9. j # NoJob
    BY <2>4, <2>5 DEF NoJob
  <2>10. last' = [last EXCEPT ![p] = last[p]] /\ last[p] \in LastRun
    BY <1>0, <2>2
  <2>11. DoneTo(p, r, bad, j, last[p])
    BY <1>3, <1>4, <1>5, <1>6, <2>2, <2>4, <2>5, <2>6, <2>8, <2>9, <2>10 DEF DoneTo
  <2>12. QED
    BY <1>3, <2>4, <2>10, <2>11
<1>8. CASE Len(s) = 1
  <2>1. PICK l : l = [verb |-> job[p].verb, given |-> job[p].given,
                      result |-> IF bad = {} THEN "ok" ELSE IF r = "ok" THEN "error" ELSE r]
    OBVIOUS
  <2>2. job' = [job EXCEPT ![p] = NoJob] /\ last' = [last EXCEPT ![p] = l]
    BY <1>5, <1>8, <2>1 DEF NodeDone, Returns
  <2>3. l \in LastRun
    BY <1>1, <1>3, <2>1 DEF LastRun, EndResult
  <2>4. NoJob \in Job
    BY DEF NoJob, Job
  <2>5. l.verb = job[p].verb /\ l.given = job[p].given
        /\ l.result = IF bad = {} THEN "ok" ELSE IF r = "ok" THEN "error" ELSE r
    BY <2>1
  <2>6. DoneTo(p, r, bad, NoJob, l)
    BY <1>3, <1>4, <1>5, <1>6, <1>8, <2>2, <2>5 DEF DoneTo
  <2>7. QED
    BY <1>3, <2>3, <2>4, <2>6
<1>9. Len(s) > 1 \/ Len(s) = 1
  <2>1. PICK k : k = Len(s)
    OBVIOUS
  <2>2. k \in 1 .. N
    BY <1>11, <2>1
  <2>3. k > 1 \/ k = 1
    BY <1>2, <2>2
  <2>4. QED
    BY <2>1, <2>3
<1>10. QED
  BY <1>7, <1>8, <1>9

-----------------------------------------------------------------------------
(* The hypervisor.                                                         *)

(* What a request makes of machine v with snapshot s, by kinds of requests. *)
Outcome(req, v, s, w) ==
    /\ req = "create-vm" => w = Created
    /\ req = "delete-vm" => w = NoVM
    /\ req = "rollback" => w = Power(s, FALSE)
    /\ req \in {"start-vm", "reboot-vm"} => w \in Boots(v)
    /\ req = "put-first-boot" => w = BootFrom(WithKickstart(v), "iso-first")
    /\ req \in {"put-empty-ide3", "eject-ide3"} => w = Ejected(v, "ide3")
    /\ req = "eject-ide2" => w = Ejected(v, "ide2")
    /\ req = "attach-cdrom" => w = WithKickstart(v)
    /\ req = "set-boot-order" => w = BootFrom(v, "install")
    /\ req = "boot-from-disk" => w = BootFrom(v, "disk")
    /\ req \in {"shutdown-vm", "stop-vm"} => w = Power(v, FALSE)
    /\ req \in {"upload-iso", "verify-kickstart-iso", "snapshot", "delete-snapshot"} => w = v

LEMMA AfterIs ==
  ASSUME NEW req \in Sent, NEW n
  PROVE  \A w \in After(req, n) : Outcome(req, vm[n], snap[n], w)
BY DEF After, Effect, Outcome

(* Which machines a request is carried out on.                             *)
LEMMA TakesIs ==
  ASSUME NEW req \in Sent, NEW n, Takes(req, n)
  PROVE  /\ req = "create-vm" => ~Exists(vm[n])
         /\ req = "rollback" => Exists(snap[n])
         /\ req \notin {"create-vm", "rollback", "delete-snapshot", "upload-iso",
                        "verify-kickstart-iso"} => Exists(vm[n])
         /\ req \in {"start-vm", "delete-vm"} => ~vm[n].on
         /\ req = "reboot-vm" => vm[n].on
BY DEF Takes, Accepts, Sent

LEMMA SentKinds ==
  Sent = {"create-vm", "delete-vm", "rollback", "start-vm", "reboot-vm", "put-first-boot",
          "put-empty-ide3", "eject-ide3", "eject-ide2", "attach-cdrom", "set-boot-order",
          "boot-from-disk", "shutdown-vm", "stop-vm", "upload-iso",
          "verify-kickstart-iso", "snapshot", "delete-snapshot"}
BY DEF Sent, Request, VMRequest, BootPut, SnapPost

LEMMA MachineIs ==
  /\ \A v \in Machine : v \in VM
  /\ \A v \in Machine, w \in VM : Exists(v) /\ w.by = v.by => w \in Machine /\ Exists(w)
  /\ NoVM \in Machine /\ ~Exists(NoVM)
  /\ Created \in Machine /\ Exists(Created) /\ Created.by = "proxctl"
BY DEF Machine, Exists, NoVM, VM, Created

LEMMA ChangedMachine ==
  ASSUME NEW v \in VM
  PROVE  /\ \A b \in BOOLEAN : Power(v, b) \in VM /\ Power(v, b).by = v.by
         /\ \A w \in Boots(v) : w \in VM /\ w.by = v.by
         /\ WithKickstart(v) \in VM /\ WithKickstart(v).by = v.by
         /\ \A s \in {"ide2", "ide3"} : Ejected(v, s) \in VM /\ Ejected(v, s).by = v.by
         /\ \A o \in {"default", "install", "disk", "iso-first"} :
               BootFrom(v, o) \in VM /\ BootFrom(v, o).by = v.by
BY DEF VM, Power, Boots, WithKickstart, Ejected, BootFrom

LEMMA AfterType ==
  ASSUME Types, NEW n \in Nodes, NEW req \in Sent, Takes(req, n),
         NEW x \in After(req, n)
  PROVE  /\ x \in Machine
         /\ Exists(x) => (Exists(vm[n]) \/ req \in {"create-vm", "rollback"})
         /\ Exists(vm[n]) /\ req # "delete-vm" => Exists(x)
<1>1. vm[n] \in Machine /\ snap[n] \in Machine /\ vm[n] \in VM /\ snap[n] \in VM
  BY MachineIs DEF Types
<1>0. Outcome(req, vm[n], snap[n], x)
  BY AfterIs
<1>2. CASE req \in {"create-vm", "delete-vm"}
  BY <1>0, <1>2, MachineIs DEF Outcome
<1>3. CASE req = "rollback"
  <2>1. PICK v, w : v = snap[n] /\ w = Power(v, FALSE)
    OBVIOUS
  <2>2. Exists(v) /\ v \in Machine /\ v \in VM
    BY <1>1, <1>3, <2>1, TakesIs
  <2>3. w \in VM /\ w.by = v.by
    BY <2>1, <2>2, ChangedMachine
  <2>4. w \in Machine /\ Exists(w)
    BY <2>2, <2>3, MachineIs
  <2>5. x = w
    BY <1>0, <1>3, <2>1 DEF Outcome
  <2>6. QED
    BY <1>3, <2>4, <2>5
<1>4. CASE req \in {"upload-iso", "verify-kickstart-iso", "snapshot", "delete-snapshot"}
  BY <1>0, <1>1, <1>4 DEF Outcome
<1>5. CASE req \in {"start-vm", "reboot-vm", "put-first-boot", "put-empty-ide3", "eject-ide3",
                    "eject-ide2", "attach-cdrom", "set-boot-order", "boot-from-disk",
                    "shutdown-vm", "stop-vm"}
  <2>1. Exists(vm[n])
    BY <1>5, TakesIs
  <2>2. x \in VM /\ x.by = vm[n].by
    <3>1. CASE req \in {"start-vm", "reboot-vm"}
      BY <1>0, <1>1, <3>1, ChangedMachine DEF Outcome
    <3>2. CASE req = "put-first-boot"
      <4>1. WithKickstart(vm[n]) \in VM /\ WithKickstart(vm[n]).by = vm[n].by
        BY <1>1, ChangedMachine
      <4>2. PICK w : w = WithKickstart(vm[n])
        OBVIOUS
      <4>3. BootFrom(w, "iso-first") \in VM /\ BootFrom(w, "iso-first").by = w.by
        BY <4>1, <4>2, ChangedMachine
      <4>4. x = BootFrom(w, "iso-first")
        BY <1>0, <3>2, <4>2 DEF Outcome
      <4>5. QED
        BY <4>1, <4>2, <4>3, <4>4
    <3>3. CASE req \in {"put-empty-ide3", "eject-ide3", "eject-ide2"}
      <4>1. PICK v : v = vm[n]
        OBVIOUS
      <4>2. x \in {Ejected(v, "ide3"), Ejected(v, "ide2")}
        BY <1>0, <3>3, <4>1 DEF Outcome
      <4>3. \A s \in {"ide2", "ide3"} : Ejected(v, s) \in VM /\ Ejected(v, s).by = v.by
        BY <1>1, <4>1, ChangedMachine
      <4>4. QED
        BY <4>1, <4>2, <4>3
    <3>4. CASE req \in {"attach-cdrom", "set-boot-order", "boot-from-disk"}
      <4>1. PICK v : v = vm[n]
        OBVIOUS
      <4>2. x \in {WithKickstart(v), BootFrom(v, "install"), BootFrom(v, "disk")}
        BY <1>0, <3>4, <4>1 DEF Outcome
      <4>3. WithKickstart(v) \in VM /\ WithKickstart(v).by = v.by
        BY <1>1, <4>1, ChangedMachine
      <4>4. \A o \in {"install", "disk"} : BootFrom(v, o) \in VM /\ BootFrom(v, o).by = v.by
        BY <1>1, <4>1, ChangedMachine
      <4>5. QED
        BY <4>1, <4>2, <4>3, <4>4
    <3>5. CASE req \in {"shutdown-vm", "stop-vm"}
      <4>1. PICK v : v = vm[n]
        OBVIOUS
      <4>2. x = Power(v, FALSE)
        BY <1>0, <3>5, <4>1 DEF Outcome
      <4>3. Power(v, FALSE) \in VM /\ Power(v, FALSE).by = v.by
        BY <1>1, <4>1, ChangedMachine
      <4>4. QED
        BY <4>1, <4>2, <4>3
    <3>6. QED
      BY <1>5, <3>1, <3>2, <3>3, <3>4, <3>5
  <2>3. QED
    BY <1>1, <1>5, <2>1, <2>2, MachineIs
<1>6. QED
  BY <1>2, <1>3, <1>4, <1>5, SentKinds

LEMMA CarryOutTypes ==
  ASSUME Types, NEW n \in Nodes, NEW req \in Sent, NEW p \in Ops, CarryOut(req, n, p)
  PROVE  /\ vm' \in [Nodes -> Machine] /\ snap' \in [Nodes -> Machine]
         /\ maker' \in [Nodes -> Ops \cup {Nobody}]
<1>0. PICK x \in After(req, n) : vm' = [vm EXCEPT ![n] = x]
  BY DEF CarryOut
<1>1. x \in Machine /\ NoVM \in Machine
  BY AfterType, MachineIs DEF CarryOut
<1>2. vm' \in [Nodes -> Machine]
  BY <1>0, <1>1 DEF Types
<1>3. snap' \in [Nodes -> Machine]
  BY <1>1 DEF CarryOut, Types
<1>4. maker' \in [Nodes -> Ops \cup {Nobody}]
  BY DEF CarryOut, Types
<1>5. QED
  BY <1>2, <1>3, <1>4

-----------------------------------------------------------------------------
(* The invariant of the commands is kept.                                  *)

LEMMA TargetNodes ==
  ASSUME NEW verb, NEW nodes \in Targets(verb)
  PROVE  /\ nodes \in Seq(Nodes) /\ Len(nodes) \in 1 .. N /\ IsInjective(nodes)
         /\ ToSet(nodes) \subseteq Nodes
<1>0. N \in Nat
  BY CommandsAssumption
<1>1. \/ \E n \in Nodes : nodes = <<n>>
      \/ N > 1 /\ nodes = InOrder
      \/ N > 1 /\ nodes = Reverse(InOrder)
  BY DEF Targets
<1>2. CASE \E n \in Nodes : nodes = <<n>>
  <2>1. PICK n \in Nodes : nodes = <<n>>
    BY <1>2
  <2>2. 1 \in 1 .. N
    BY <1>0, <2>1 DEF Nodes
  <2>3. QED
    BY <2>1, <2>2 DEF IsInjective, ToSet
<1>3. CASE N > 1 /\ nodes = InOrder
  BY <1>0, <1>3 DEF InOrder, Nodes, IsInjective, ToSet
<1>4. CASE N > 1 /\ nodes = Reverse(InOrder)
  <2>1. InOrder \in Seq(Nodes) /\ Len(InOrder) = N /\ \A i \in 1 .. N : InOrder[i] = i
    BY <1>0 DEF InOrder, Nodes
  <2>2. nodes = [i \in 1 .. N |-> InOrder[(N - i) + 1]]
    BY <1>4, <2>1 DEF Reverse
  <2>3. nodes = [i \in 1 .. N |-> (N - i) + 1]
    <3>1. \A i \in 1 .. N : (N - i) + 1 \in 1 .. N
      BY <1>0
    <3>2. QED
      BY <2>1, <2>2, <3>1
  <2>4. nodes \in Seq(Nodes) /\ Len(nodes) = N
    BY <1>0, <2>3 DEF Nodes
  <2>5. IsInjective(nodes)
    BY <1>0, <2>3 DEF IsInjective
  <2>6. ToSet(nodes) \subseteq Nodes
    BY <1>0, <2>3 DEF ToSet, Nodes
  <2>7. QED
    BY <1>0, <1>4, <2>4, <2>5, <2>6
<1>5. QED
  BY <1>1, <1>2, <1>3, <1>4

(* A step of one operator leaves the others' commands alone.                *)
LEMMA Frame ==
  ASSUME IInv, NEW p \in Ops, NEW j \in Job, NEW c \in {"none", "sent", "carried-out"},
         NEW e \in SUBSET Nodes, NEW l \in LastRun,
         job' = [job EXCEPT ![p] = j], call' = [call EXCEPT ![p] = c],
         errs' = [errs EXCEPT ![p] = e], last' = [last EXCEPT ![p] = l],
         j = NoJob => c = "none" /\ e \subseteq l.given,
         j # NoJob => AtWork(j, c, e)
  PROVE  /\ job' \in [Ops -> Job] /\ call' \in [Ops -> {"none", "sent", "carried-out"}]
         /\ errs' \in [Ops -> SUBSET Nodes] /\ last' \in [Ops -> LastRun]
         /\ \A q \in Ops : Control(q)'
<1>1. /\ job \in [Ops -> Job] /\ call \in [Ops -> {"none", "sent", "carried-out"}]
      /\ errs \in [Ops -> SUBSET Nodes] /\ last \in [Ops -> LastRun]
  BY DEF IInv, Types
<1>2. /\ job' \in [Ops -> Job] /\ call' \in [Ops -> {"none", "sent", "carried-out"}]
      /\ errs' \in [Ops -> SUBSET Nodes] /\ last' \in [Ops -> LastRun]
  BY <1>1
<1>3. ASSUME NEW q \in Ops PROVE Control(q)'
  <2>1. CASE q = p
    <3>1. job'[q] = j /\ call'[q] = c /\ errs'[q] = e /\ last'[q] = l
      BY <1>1, <2>1
    <3>2. QED
      BY <3>1 DEF Control
  <2>2. CASE q # p
    <3>1. job'[q] = job[q] /\ call'[q] = call[q] /\ errs'[q] = errs[q] /\ last'[q] = last[q]
      BY <1>1, <2>2
    <3>2. QED
      BY <3>1 DEF IInv, Control
  <2>3. QED
    BY <2>1, <2>2
<1>4. QED
  BY <1>2, <1>3

(* Nothing changes on the operators' side.                                 *)
LEMMA Same ==
  ASSUME IInv, job' = job, call' = call, errs' = errs, last' = last
  PROVE  /\ job' \in [Ops -> Job] /\ call' \in [Ops -> {"none", "sent", "carried-out"}]
         /\ errs' \in [Ops -> SUBSET Nodes] /\ last' \in [Ops -> LastRun]
         /\ \A q \in Ops : Control(q)'
BY DEF IInv, Types, Control

LEMMA SameServer ==
  ASSUME Types, server' = server
  PROVE  /\ vm' \in [Nodes -> Machine] /\ snap' \in [Nodes -> Machine]
         /\ maker' \in [Nodes -> Ops \cup {Nobody}]
BY DEF Types, server

LEMMA BehindType ==
  ASSUME IInv, NEW p \in Ops, call[p] = "sent"
  PROVE  <<Node(p), Head(job[p].todo), p>> \in Late
<1>1. job[p] # NoJob /\ Head(job[p].todo) \in Sent
  BY InCall
<1>2. Node(p) \in Nodes
  BY <1>1, Here
<1>3. QED
  BY <1>1, <1>2 DEF Late

LEMMA MayLeaveType ==
  ASSUME IInv, NEW p \in Ops, MayLeave(p)
  PROVE  late' \subseteq Late
BY BehindType DEF MayLeave, IInv, Types

LEMMA NoJobIs ==
  ASSUME NEW j \in Job
  PROVE  /\ NoJob \in Job /\ NoJob.verb = Idle /\ NoJob.todo = <<>> /\ NoJob.nodes = <<>>
         /\ j.verb \in AllVerbs => j # NoJob
         /\ j.nodes # <<>> => j # NoJob
BY NotIdle DEF NoJob, Job

LEMMA BeginKeeps ==
  ASSUME IInv, NEW p \in Ops, Run(p)
  PROVE  IInv'
<1>0. PICK verb \in Verbs : \E nodes \in Targets(verb) : Begin(p, verb, nodes)
  BY DEF Run
<1>1. PICK nodes \in Targets(verb) : Begin(p, verb, nodes)
  BY <1>0
<1>2. /\ nodes \in Seq(Nodes) /\ Len(nodes) \in 1 .. N /\ IsInjective(nodes)
      /\ ToSet(nodes) \subseteq Nodes
  BY TargetNodes
<1>3. verb \in AllVerbs
  BY CommandsAssumption
<1>4. Program(verb) \in Seq(StepNames) /\ RestOf(Program(verb), Program(verb))
  BY <1>3, ProgramType
<1>5. PICK j : j = [verb |-> verb, given |-> ToSet(nodes), nodes |-> nodes,
                    todo |-> Program(verb)]
  OBVIOUS
<1>6. j \in Job /\ j # NoJob
  <2>1. j \in Job
    BY <1>2, <1>4, <1>5 DEF Job
  <2>2. QED
    BY <1>3, <1>5, <2>1, NoJobIs
<1>7. AtWork(j, "none", {})
  BY <1>2, <1>4, <1>5 DEF AtWork
<1>8. Types
  BY DEF IInv
<1>9. job' = [job EXCEPT ![p] = j] /\ call' = [call EXCEPT ![p] = "none"]
      /\ errs' = [errs EXCEPT ![p] = {}] /\ last' = [last EXCEPT ![p] = last[p]]
      /\ last[p] \in LastRun
  <2>1. call[p] = "none"
    BY <1>1 DEF IInv, Control, Begin
  <2>2. QED
    BY <1>1, <1>5, <1>8, <2>1 DEF Begin, Types
<1>10. /\ job' \in [Ops -> Job] /\ call' \in [Ops -> {"none", "sent", "carried-out"}]
       /\ errs' \in [Ops -> SUBSET Nodes] /\ last' \in [Ops -> LastRun]
       /\ \A q \in Ops : Control(q)'
  <2>1. {} \in SUBSET Nodes /\ last[p] \in LastRun
    BY <1>9
  <2>2. QED
    BY <1>6, <1>7, <1>9, <2>1, Frame
<1>11. /\ vm' \in [Nodes -> Machine] /\ snap' \in [Nodes -> Machine]
       /\ maker' \in [Nodes -> Ops \cup {Nobody}]
  BY <1>1, <1>8, SameServer DEF Begin
<1>12. quiet' \in [Ops -> BOOLEAN] /\ late' \subseteq Late
      /\ tornDown' \in BOOLEAN /\ rearmed' \in BOOLEAN
  BY <1>1, <1>8 DEF Begin, Types
<1>13. left' \in 0 .. MaxCommands
  BY <1>1, <1>8, CommandsAssumption DEF Begin, Types
<1>14. QED
  BY <1>10, <1>11, <1>12, <1>13 DEF IInv, Types

LEMMA NeedsNodeKeeps ==
  ASSUME IInv, NEW p \in Ops, NeedsNode(p)
  PROVE  IInv'
<1>1. PICK verb \in (Verbs \cap Workflow) \ {"create", "create-build"} :
          Returns(p, verb, {}, "usage")
  BY DEF NeedsNode
<1>2. PICK l : l = [verb |-> verb, given |-> {}, result |-> "usage"]
  OBVIOUS
<1>3. l \in LastRun /\ {} \subseteq l.given
  BY <1>1, <1>2 DEF LastRun
<1>8. Types
  BY DEF IInv
<1>9. job' = [job EXCEPT ![p] = NoJob] /\ call' = [call EXCEPT ![p] = "none"]
      /\ errs' = [errs EXCEPT ![p] = {}] /\ last' = [last EXCEPT ![p] = l]
  <2>1. call[p] = "none" /\ job[p] = NoJob
    BY DEF IInv, Control, NeedsNode
  <2>2. QED
    BY <1>1, <1>2, <1>8, <2>1 DEF NeedsNode, Returns, Types
<1>10. /\ job' \in [Ops -> Job] /\ call' \in [Ops -> {"none", "sent", "carried-out"}]
       /\ errs' \in [Ops -> SUBSET Nodes] /\ last' \in [Ops -> LastRun]
       /\ \A q \in Ops : Control(q)'
  <2>1. {} \in SUBSET Nodes /\ NoJob \in Job
    BY DEF NoJob, Job
  <2>2. QED
    BY <1>3, <1>9, <2>1, Frame
<1>11. /\ vm' \in [Nodes -> Machine] /\ snap' \in [Nodes -> Machine]
       /\ maker' \in [Nodes -> Ops \cup {Nobody}]
  BY <1>8, SameServer DEF NeedsNode
<1>12. quiet' \in [Ops -> BOOLEAN] /\ late' \subseteq Late
      /\ tornDown' \in BOOLEAN /\ rearmed' \in BOOLEAN
  BY <1>8 DEF NeedsNode, Types
<1>13. left' \in 0 .. MaxCommands
  BY <1>8, CommandsAssumption DEF NeedsNode, Types
<1>14. QED
  BY <1>10, <1>11, <1>12, <1>13 DEF IInv, Types

(* The parts of a command's state, typed.                                  *)
LEMMA Parts ==
  ASSUME IInv, NEW p \in Ops
  PROVE  /\ Types
         /\ job[p] \in Job /\ call[p] \in {"none", "sent", "carried-out"}
         /\ errs[p] \in SUBSET Nodes /\ last[p] \in LastRun
         /\ job = [job EXCEPT ![p] = job[p]] /\ call = [call EXCEPT ![p] = call[p]]
         /\ errs = [errs EXCEPT ![p] = errs[p]] /\ last = [last EXCEPT ![p] = last[p]]
BY DEF IInv, Types

LEMMA SendKeeps ==
  ASSUME IInv, NEW p \in Ops, Send(p)
  PROVE  IInv'
<1>1. PICK req \in Sent : At(p, req)
  BY DEF Send
<1>2. job[p] # NoJob /\ job[p].todo # <<>> /\ Head(job[p].todo) = req
  BY <1>1, AtStep
<1>3. AtWork(job[p], "sent", errs[p])
  BY <1>2, Here DEF AtWork
<1>4. Types
  BY DEF IInv
<1>5. /\ job' = [job EXCEPT ![p] = job[p]] /\ call' = [call EXCEPT ![p] = "sent"]
      /\ errs' = [errs EXCEPT ![p] = errs[p]] /\ last' = [last EXCEPT ![p] = last[p]]
  BY Parts DEF Send
<1>6. /\ job' \in [Ops -> Job] /\ call' \in [Ops -> {"none", "sent", "carried-out"}]
      /\ errs' \in [Ops -> SUBSET Nodes] /\ last' \in [Ops -> LastRun]
      /\ \A q \in Ops : Control(q)'
  <2>1. job[p] \in Job /\ errs[p] \in SUBSET Nodes /\ last[p] \in LastRun
    BY Parts
  <2>2. QED
    BY <1>2, <1>3, <1>5, <2>1, Frame
<1>7. /\ vm' \in [Nodes -> Machine] /\ snap' \in [Nodes -> Machine]
      /\ maker' \in [Nodes -> Ops \cup {Nobody}]
  BY <1>4, SameServer DEF Send
<1>8. quiet' \in [Ops -> BOOLEAN] /\ late' \subseteq Late
      /\ tornDown' \in BOOLEAN /\ rearmed' \in BOOLEAN
      /\ left' \in 0 .. MaxCommands
  BY <1>4 DEF Send, Types
<1>9. QED
  BY <1>6, <1>7, <1>8 DEF IInv, Types

(* The command after a step.                                               *)
LEMMA StepDoneIs ==
  ASSUME IInv, NEW p \in Ops, job[p] # NoJob, job[p].todo # <<>>, StepDone(p)
  PROVE  \E j \in Job : /\ job' = [job EXCEPT ![p] = j] /\ j # NoJob
                        /\ j.verb = job[p].verb /\ j.given = job[p].given
                        /\ j.nodes = job[p].nodes /\ j.todo = Tail(job[p].todo)
                        /\ AtWork(j, "none", errs[p])
<1>1. PICK t : t = Tail(job[p].todo)
  OBVIOUS
<1>2. PICK j : j = [job[p] EXCEPT !.todo = t]
  OBVIOUS
<1>3. job[p] \in Job /\ job \in [Ops -> Job]
  BY DEF IInv, Types
<1>4. RestOf(t, Program(job[p].verb)) /\ t \in Seq(StepNames)
  BY <1>1, HereStep DEF RestOf
<1>5. /\ j \in Job /\ j.verb = job[p].verb /\ j.given = job[p].given
      /\ j.nodes = job[p].nodes /\ j.todo = t
  BY <1>2, <1>3, <1>4 DEF Job
<1>6. job' = [job EXCEPT ![p] = j]
  BY <1>1, <1>2, <1>3 DEF StepDone, Job
<1>7. AtWork(j, "none", errs[p]) /\ job[p].verb \in AllVerbs
  BY <1>4, <1>5, Here DEF AtWork
<1>8. j # NoJob
  BY <1>5, <1>7, NoJobIs
<1>9. QED
  BY <1>1, <1>5, <1>6, <1>7, <1>8

LEMMA PassesKeeps ==
  ASSUME IInv, NEW p \in Ops, Passes(p)
  PROVE  IInv'
<1>1. PICK j \in Job : job' = [job EXCEPT ![p] = j] /\ AtWork(j, "none", errs[p]) /\ j # NoJob
  BY StepDoneIs DEF Passes
<1>4. Types
  BY DEF IInv
<1>5. /\ call' = [call EXCEPT ![p] = "none"]
      /\ errs' = [errs EXCEPT ![p] = errs[p]] /\ last' = [last EXCEPT ![p] = last[p]]
  BY Parts DEF Passes
<1>6. /\ job' \in [Ops -> Job] /\ call' \in [Ops -> {"none", "sent", "carried-out"}]
      /\ errs' \in [Ops -> SUBSET Nodes] /\ last' \in [Ops -> LastRun]
      /\ \A q \in Ops : Control(q)'
  <2>1. errs[p] \in SUBSET Nodes /\ last[p] \in LastRun
    BY Parts
  <2>2. QED
    BY <1>1, <1>5, <2>1, Frame
<1>7. /\ vm' \in [Nodes -> Machine] /\ snap' \in [Nodes -> Machine]
      /\ maker' \in [Nodes -> Ops \cup {Nobody}]
  BY <1>4, SameServer DEF Passes
<1>8. quiet' \in [Ops -> BOOLEAN] /\ left' \in 0 .. MaxCommands
      /\ tornDown' \in BOOLEAN /\ rearmed' \in BOOLEAN
  BY <1>4 DEF Passes, Types
<1>9. late' \subseteq Late
  <2>1. CASE late' = late
    BY <1>4, <2>1 DEF Types
  <2>2. CASE MayLeave(p)
    BY <2>2, MayLeaveType
  <2>3. QED
    BY <2>1, <2>2 DEF Passes
<1>10. QED
  BY <1>6, <1>7, <1>8, <1>9 DEF IInv, Types

LEMMA EndsKeeps ==
  ASSUME IInv, NEW p \in Ops, NEW r \in EndResult, Ends(p, r)
  PROVE  IInv'
<1>1. PICK e \in SUBSET Nodes, j \in Job, l \in LastRun :
        /\ errs' = [errs EXCEPT ![p] = e] /\ job' = [job EXCEPT ![p] = j]
        /\ last' = [last EXCEPT ![p] = l]
        /\ e \subseteq job[p].given
        /\ \/ j # NoJob /\ AtWork(j, "none", e)
           \/ j = NoJob /\ l.given = job[p].given
  <2>1. job[p] # NoJob /\ NodeDone(p, r)
    BY DEF Ends
  <2>2. PICK e \in SUBSET Nodes, j \in Job, l \in LastRun : DoneTo(p, r, e, j, l)
    BY <2>1, DoneEffect
  <2>3. QED
    BY <2>2 DEF DoneTo
<1>4. Types
  BY DEF IInv
<1>6. /\ job' \in [Ops -> Job] /\ call' \in [Ops -> {"none", "sent", "carried-out"}]
      /\ errs' \in [Ops -> SUBSET Nodes] /\ last' \in [Ops -> LastRun]
      /\ \A q \in Ops : Control(q)'
  <2>1. call' = [call EXCEPT ![p] = "none"]
    BY DEF Ends
  <2>2. j = NoJob => e \subseteq l.given
    BY <1>1
  <2>3. j # NoJob => AtWork(j, "none", e)
    BY <1>1
  <2>4. QED
    BY <1>1, <2>1, <2>2, <2>3, Frame
<1>7. /\ vm' \in [Nodes -> Machine] /\ snap' \in [Nodes -> Machine]
      /\ maker' \in [Nodes -> Ops \cup {Nobody}]
  BY <1>4, SameServer DEF Ends
<1>8. quiet' \in [Ops -> BOOLEAN] /\ left' \in 0 .. MaxCommands
      /\ tornDown' \in BOOLEAN /\ rearmed' \in BOOLEAN
  BY <1>4 DEF Ends, Types
<1>9. late' \subseteq Late
  BY MayLeaveType DEF Ends
<1>10. QED
  BY <1>6, <1>7, <1>8, <1>9 DEF IInv, Types

LEMMA ServeKeeps ==
  ASSUME IInv, NEW p \in Ops, Serve(p)
  PROVE  IInv'
<1>2. job[p] # NoJob /\ Head(job[p].todo) \in Sent /\ Head(job[p].todo) \notin SnapPost
  BY InCall DEF Serve
<1>3. AtWork(job[p], "carried-out", errs[p]) /\ Node(p) \in Nodes
  BY <1>2, Here, InCall DEF AtWork, Serve
<1>4. Types
  BY DEF IInv
<1>5. /\ job' = [job EXCEPT ![p] = job[p]] /\ call' = [call EXCEPT ![p] = "carried-out"]
      /\ errs' = [errs EXCEPT ![p] = errs[p]] /\ last' = [last EXCEPT ![p] = last[p]]
  BY Parts DEF Serve
<1>6. /\ job' \in [Ops -> Job] /\ call' \in [Ops -> {"none", "sent", "carried-out"}]
      /\ errs' \in [Ops -> SUBSET Nodes] /\ last' \in [Ops -> LastRun]
      /\ \A q \in Ops : Control(q)'
  <2>1. job[p] \in Job /\ errs[p] \in SUBSET Nodes /\ last[p] \in LastRun
    BY Parts
  <2>2. QED
    BY <1>2, <1>3, <1>5, <2>1, Frame
<1>7. /\ vm' \in [Nodes -> Machine] /\ snap' \in [Nodes -> Machine]
      /\ maker' \in [Nodes -> Ops \cup {Nobody}]
  BY <1>2, <1>3, <1>4, CarryOutTypes DEF Serve
<1>8. quiet' \in [Ops -> BOOLEAN] /\ late' \subseteq Late
      /\ tornDown' \in BOOLEAN /\ rearmed' \in BOOLEAN
      /\ left' \in 0 .. MaxCommands
  BY <1>4 DEF Serve, Types
<1>9. QED
  BY <1>6, <1>7, <1>8 DEF IInv, Types

LEMMA KillKeeps ==
  ASSUME IInv, NEW p \in Ops, Kill(p)
  PROVE  IInv'
<1>1. PICK l : l = [verb |-> job[p].verb, given |-> job[p].given, result |-> "killed"]
  OBVIOUS
<1>2. job[p] # NoJob /\ job[p] \in Job
  BY Parts DEF Kill
<1>3. l \in LastRun /\ errs[p] \subseteq l.given
  BY <1>1, <1>2, Here DEF LastRun, Job, AtWork
<1>4. Types
  BY DEF IInv
<1>5. /\ job' = [job EXCEPT ![p] = NoJob] /\ call' = [call EXCEPT ![p] = "none"]
      /\ errs' = [errs EXCEPT ![p] = errs[p]] /\ last' = [last EXCEPT ![p] = l]
  BY <1>1, Parts DEF Kill, Returns
<1>6. /\ job' \in [Ops -> Job] /\ call' \in [Ops -> {"none", "sent", "carried-out"}]
      /\ errs' \in [Ops -> SUBSET Nodes] /\ last' \in [Ops -> LastRun]
      /\ \A q \in Ops : Control(q)'
  <2>1. NoJob \in Job /\ errs[p] \in SUBSET Nodes
    BY <1>2, Parts, NoJobIs
  <2>2. QED
    BY <1>3, <1>5, <2>1, Frame
<1>7. /\ vm' \in [Nodes -> Machine] /\ snap' \in [Nodes -> Machine]
      /\ maker' \in [Nodes -> Ops \cup {Nobody}]
  BY <1>4, SameServer DEF Kill
<1>8. quiet' \in [Ops -> BOOLEAN] /\ left' \in 0 .. MaxCommands
      /\ tornDown' \in BOOLEAN /\ rearmed' \in BOOLEAN
  BY <1>4 DEF Kill, Types
<1>9. late' \subseteq Late
  <2>1. MayLeave(p)
    BY DEF Kill, Behind, MayLeave
  <2>2. QED
    BY <2>1, MayLeaveType
<1>10. QED
  BY <1>6, <1>7, <1>8, <1>9 DEF IInv, Types

LEMMA LateKeeps ==
  ASSUME IInv, LateEffect
  PROVE  IInv'
<1>1. PICK r \in late : CarryOut(r[2], r[1], r[3]) /\ late' = late \ {r} /\ UNCHANGED client
  BY DEF LateEffect
<1>2. Types
  BY DEF IInv
<1>3. r[1] \in Nodes /\ r[2] \in Sent /\ r[3] \in Ops
  BY <1>2 DEF Types, Late
<1>4. /\ vm' \in [Nodes -> Machine] /\ snap' \in [Nodes -> Machine]
      /\ maker' \in [Nodes -> Ops \cup {Nobody}]
  BY <1>1, <1>2, <1>3, CarryOutTypes
<1>5. /\ job' \in [Ops -> Job] /\ call' \in [Ops -> {"none", "sent", "carried-out"}]
      /\ errs' \in [Ops -> SUBSET Nodes] /\ last' \in [Ops -> LastRun]
      /\ \A q \in Ops : Control(q)'
  BY <1>1, Same DEF client
<1>6. quiet' \in [Ops -> BOOLEAN] /\ late' \subseteq Late
      /\ tornDown' \in BOOLEAN /\ rearmed' \in BOOLEAN
      /\ left' \in 0 .. MaxCommands
  BY <1>1, <1>2 DEF Types, client
<1>7. QED
  BY <1>4, <1>5, <1>6 DEF IInv, Types

LEMMA GuestKeeps ==
  ASSUME IInv, NEW n \in Nodes, GuestInstalls(n) \/ GuestReboots(n)
  PROVE  IInv'
<1>1. Types
  BY DEF IInv
<1>2. vm[n] \in Machine /\ vm[n] \in VM /\ Exists(vm[n])
  <2>1. vm[n] \in Machine /\ vm[n].on
    BY <1>1 DEF Types, GuestInstalls, GuestReboots, CanInstall, SSHUp
  <2>2. vm[n] # NoVM
    BY <2>1 DEF NoVM
  <2>3. QED
    BY <2>1, <2>2 DEF Machine
<1>3. PICK v \in Machine : vm' = [vm EXCEPT ![n] = v]
  <2>1. CASE GuestInstalls(n)
    <3>1. PICK w : w = [vm[n] EXCEPT !.disk = "installed"]
      OBVIOUS
    <3>2. w \in VM /\ w.by = vm[n].by
      BY <1>2, <3>1 DEF VM
    <3>3. w \in Machine
      BY <1>2, <3>2, MachineIs
    <3>4. vm' = [vm EXCEPT ![n] = w]
      BY <1>1, <2>1, <3>1 DEF Types, GuestInstalls
    <3>5. QED
      BY <3>3, <3>4
  <2>2. CASE GuestReboots(n)
    <3>1. PICK w \in Boots(vm[n]) : vm' = [vm EXCEPT ![n] = w]
      BY <2>2 DEF GuestReboots
    <3>2. w \in VM /\ w.by = vm[n].by
      BY <1>2, <3>1, ChangedMachine
    <3>3. w \in Machine
      BY <1>2, <3>2, MachineIs
    <3>4. QED
      BY <3>1, <3>3
  <2>3. QED
    BY <2>1, <2>2
<1>4. vm' \in [Nodes -> Machine]
  BY <1>1, <1>3 DEF Types
<1>5. /\ snap' \in [Nodes -> Machine] /\ maker' \in [Nodes -> Ops \cup {Nobody}]
      /\ quiet' \in [Ops -> BOOLEAN] /\ late' \subseteq Late
      /\ tornDown' \in BOOLEAN /\ rearmed' \in BOOLEAN
      /\ left' \in 0 .. MaxCommands
  BY <1>1 DEF Types, GuestInstalls, GuestReboots, client
<1>6. /\ job' \in [Ops -> Job] /\ call' \in [Ops -> {"none", "sent", "carried-out"}]
      /\ errs' \in [Ops -> SUBSET Nodes] /\ last' \in [Ops -> LastRun]
      /\ \A q \in Ops : Control(q)'
  <2>1. job' = job /\ call' = call /\ errs' = errs /\ last' = last
    BY DEF GuestInstalls, GuestReboots, client
  <2>2. QED
    BY <2>1, Same
<1>7. QED
  BY <1>4, <1>5, <1>6 DEF IInv, Types

(* What can happen next, by its effect on the commands.                    *)
LEMMA Steps ==
  ASSUME IInv, [Next]_vars
  PROVE  \/ UNCHANGED vars
         \/ \E p \in Ops : \/ Run(p) \/ NeedsNode(p) \/ Send(p) \/ Passes(p)
                           \/ \E r \in EndResult : Ends(p, r)
                           \/ Serve(p) \/ Kill(p)
         \/ LateEffect
         \/ \E n \in Nodes : GuestInstalls(n) \/ GuestReboots(n)
<1>1. CASE UNCHANGED vars \/ Stopped
  BY <1>1 DEF Stopped
<1>2. CASE \E p \in Ops : Client(p) \/ Serve(p) \/ Kill(p)
  BY <1>2, ClientSteps
<1>3. CASE LateEffect \/ \E n \in Nodes : GuestInstalls(n) \/ GuestReboots(n)
  BY <1>3
<1>4. QED
  BY <1>1, <1>2, <1>3 DEF Next

LEMMA Kept == IInv /\ [Next]_vars => IInv'
<1> SUFFICES ASSUME IInv, [Next]_vars PROVE IInv'
  OBVIOUS
<1>1. CASE UNCHANGED vars
  BY <1>1 DEF vars, client, server, IInv, Types, Control
<1>2. ASSUME NEW p \in Ops,
             \/ Run(p) \/ NeedsNode(p) \/ Send(p) \/ Passes(p)
             \/ \E r \in EndResult : Ends(p, r)
             \/ Serve(p) \/ Kill(p)
      PROVE  IInv'
  BY <1>2, BeginKeeps, NeedsNodeKeeps, SendKeeps, PassesKeeps, EndsKeeps, ServeKeeps,
     KillKeeps
<1>3. CASE LateEffect \/ \E n \in Nodes : GuestInstalls(n) \/ GuestReboots(n)
  BY <1>3, LateKeeps, GuestKeeps
<1>4. QED
  BY <1>1, <1>2, <1>3, Steps

LEMMA Starts == Init => IInv
<1> SUFFICES ASSUME Init PROVE IInv
  OBVIOUS
<1>1. NoJob \in Job /\ NoRun \in LastRun /\ NoVM \in Machine
  BY MachineIs DEF NoJob, Job, NoRun, LastRun
<1>2. Types
  <2>1. /\ job \in [Ops -> Job] /\ call \in [Ops -> {"none", "sent", "carried-out"}]
        /\ last \in [Ops -> LastRun] /\ errs \in [Ops -> SUBSET Nodes]
        /\ quiet \in [Ops -> BOOLEAN]
    BY <1>1 DEF Init
  <2>2. left \in 0 .. MaxCommands /\ late \subseteq Late
        /\ tornDown \in BOOLEAN /\ rearmed \in BOOLEAN
    <3>1. MaxCommands \in Nat /\ left = MaxCommands /\ late = {}
          /\ tornDown = FALSE /\ rearmed = FALSE
      BY CommandsAssumption DEF Init
    <3>2. left \in 0 .. MaxCommands
      BY <3>1
    <3>3. QED
      BY <3>1, <3>2
  <2>3. vm \in [Nodes -> Machine] /\ snap \in [Nodes -> Machine]
    BY <1>1 DEF Init
  <2>4. maker \in [Nodes -> Ops \cup {Nobody}]
    BY DEF Init
  <2>5. QED
    BY <2>1, <2>2, <2>3, <2>4 DEF Types
<1>3. \A p \in Ops : Control(p)
  BY DEF Init, Control
<1>4. QED
  BY <1>2, <1>3 DEF IInv

LEMMA Implies == IInv => TypeOK
<1> SUFFICES ASSUME IInv PROVE TypeOK
  OBVIOUS
<1>0. Types
  BY DEF IInv
<1>1. ASSUME NEW p \in Ops
      PROVE  /\ job[p].verb \in Verbs \cup {Idle}
             /\ job[p].nodes \in BoundedSeq(Nodes, N)
             /\ \A i \in DOMAIN job[p].todo : job[p].todo[i] \in Sent \cup Check \cup Step
             /\ (job[p].verb = Idle) <=> (job[p].nodes = <<>>)
             /\ last[p].result \in {"none", "ok", "error", "exists", "usage", "killed",
                                    "no-builder"}
             /\ errs[p] \subseteq job[p].given \cup last[p].given
  <2>1. job[p] \in Job /\ last[p] \in LastRun
    BY <1>0 DEF Types
  <2>2. /\ job[p].verb \in Verbs \cup {Idle} /\ job[p].todo \in Seq(StepNames)
        /\ job[p].nodes \in Seq(Nodes)
        /\ last[p].result \in {"none", "ok", "error", "exists", "usage", "killed",
                               "no-builder"}
    BY <2>1 DEF Job, LastRun
  <2>3. StepNames \subseteq Sent \cup Check \cup Step
    BY DEF StepNames, Step
  <2>4. \A i \in DOMAIN job[p].todo : job[p].todo[i] \in Sent \cup Check \cup Step
    BY <2>2, <2>3
  <2>5. errs[p] \subseteq job[p].given \cup last[p].given
    BY DEF IInv, Control, AtWork
  <2>6. (job[p].verb = Idle) <=> (job[p].nodes = <<>>)
    <3>1. CASE job[p] = NoJob
      BY <3>1 DEF NoJob
    <3>2. CASE job[p] # NoJob
      <4>1. job[p].verb \in AllVerbs /\ Len(job[p].nodes) \in 1 .. N
        BY <3>2, Here
      <4>2. job[p].nodes # <<>>
        BY <4>1
      <4>3. QED
        BY <4>1, <4>2, NotIdle
    <3>3. QED
      BY <3>1, <3>2
  <2>7. job[p].nodes \in BoundedSeq(Nodes, N)
    <3>1. PICK s, k : s = job[p].nodes /\ k = Len(s)
      OBVIOUS
    <3>2. s \in Seq(Nodes) /\ k \in 0 .. N
      <4>1. CASE job[p] = NoJob
        BY <3>1, <4>1, CommandsAssumption DEF NoJob
      <4>2. CASE job[p] # NoJob
        BY <3>1, <4>2, Here, CommandsAssumption
      <4>3. QED
        BY <4>1, <4>2
    <3>3. s \in [1 .. k -> Nodes]
      BY <3>1, <3>2
    <3>4. QED
      <4>1. k \in 0 .. N /\ s \in [1 .. k -> Nodes]
        BY <3>2, <3>3
      <4>2. BoundedSeq(Nodes, N) = UNION {[1 .. m -> Nodes] : m \in 0 .. N}
        BY DEF BoundedSeq, SeqOf
      <4>3. s \in BoundedSeq(Nodes, N)
        BY <4>1, <4>2
      <4>4. QED
        BY <3>1, <4>3
  <2>8. QED
    BY <2>2, <2>4, <2>5, <2>6, <2>7
<1>2. late \subseteq Nodes \X Sent \X Ops /\ Machine \subseteq VM
  BY <1>0, MachineIs DEF Types, Late
<1>3. vm \in [Nodes -> VM] /\ snap \in [Nodes -> VM]
  BY <1>0, <1>2 DEF Types
<1>4. QED
  BY <1>0, <1>1, <1>2, <1>3 DEF TypeOK, Types

(* The invariant of the commands.                                          *)
THEOREM Invariance == Spec => []IInv
<1>1. QED
  BY Starts, Kept, PTL DEF Spec

(* Every variable of Commands has its type.                                *)
THEOREM TypeCorrect == Spec => []TypeOK
<1>1. QED
  BY Invariance, Implies, PTL

-----------------------------------------------------------------------------
(* Several `up` on one VMID.                                               *)

(* Operator p's `up` has created its machine.                              *)
Past(p) ==
    /\ job[p].verb = "up"
    /\ \/ Len(job[p].todo) < 8
       \/ Len(job[p].todo) = 8 /\ call[p] = "carried-out"

(* While nobody tears machines down: no deletion is on its way, and the    *)
(* machine of an `up` past create-vm is its own.                           *)
MakerInv ==
    ~tornDown =>
       /\ \A p \in Ops : job[p].verb \notin TearDown
       /\ \A r \in late : r[2] # "delete-vm"
       /\ \A p \in Ops : Past(p) => Exists(vm[Node(p)]) /\ maker[Node(p)] = p

LEMMA IdleNotPast ==
  ASSUME NEW p, job[p] = NoJob
  PROVE  ~Past(p) /\ job[p].verb \notin TearDown
BY DEF Past, NoJob, Idle, TearDown

(* The length of what is left of an `up`.                                  *)
LEMMA UpAt ==
  ASSUME IInv, NEW p \in Ops, job[p].verb = "up", job[p].todo # <<>>
  PROVE  /\ Len(job[p].todo) \in Nat /\ job[p] # NoJob
         /\ Len(Tail(job[p].todo)) = Len(job[p].todo) - 1
         /\ (Head(job[p].todo) = "create-vm") <=> (Len(job[p].todo) = 8)
         /\ (Head(job[p].todo) \in {"check-free", "verify-kickstart-iso"})
               <=> (Len(job[p].todo) > 8)
<1>1. job[p] # NoJob
  BY DEF NoJob, Idle
<1>2. /\ Len(job[p].todo) \in Nat /\ Len(Tail(job[p].todo)) = Len(job[p].todo) - 1
      /\ UpList(job[p].verb, Len(job[p].todo), Head(job[p].todo))
  BY <1>1, HereStep DEF Facts
<1>3. QED
  BY <1>1, <1>2 DEF UpList

(* No deletion among the requests of a command that is not a teardown.      *)
LEMMA NoDelete ==
  ASSUME IInv, NEW p \in Ops, job[p].verb \notin TearDown, job[p] # NoJob,
         job[p].todo # <<>>
  PROVE  Head(job[p].todo) # "delete-vm"
<1>1. Kinds(job[p].verb, Len(job[p].todo), Head(job[p].todo))
  BY HereStep DEF Facts
<1>2. QED
  BY <1>1 DEF Kinds

(* What a request that is no deletion does to who made which machine.      *)
LEMMA MakerKept ==
  ASSUME Types, NEW n \in Nodes, NEW req \in Sent, NEW p \in Ops, CarryOut(req, n, p),
         req # "delete-vm", NEW m \in Nodes
  PROVE  /\ Exists(vm[m]) => Exists(vm'[m]) /\ maker'[m] = maker[m]
         /\ req = "create-vm" /\ m = n => Exists(vm'[m]) /\ maker'[m] = p
<1>1. /\ vm \in [Nodes -> Machine] /\ maker \in [Nodes -> Ops \cup {Nobody}]
  BY DEF Types
<1>2. CASE m # n
  BY <1>1, <1>2 DEF CarryOut
<1>3. CASE m = n
  <2>1. Takes(req, m) /\ \E x \in After(req, m) : vm'[m] = x
    BY <1>1, <1>3 DEF CarryOut
  <2>2. Exists(vm[m]) => Exists(vm'[m])
    BY <2>1, AfterType
  <2>3. req = "create-vm" => ~Exists(vm[m]) /\ Exists(vm'[m])
    <3>1. SUFFICES ASSUME req = "create-vm" PROVE ~Exists(vm[m]) /\ Exists(vm'[m])
      OBVIOUS
    <3>2. vm'[m] = Created
      BY <2>1, <3>1, AfterIs DEF Outcome
    <3>3. ~Exists(vm[m])
      BY <2>1, <3>1, TakesIs
    <3>4. QED
      BY <2>1, <3>2, <3>3, MachineIs
  <2>4. maker'[m] = IF req = "create-vm" THEN p ELSE maker[m]
    BY <1>1, <1>3 DEF CarryOut
  <2>5. QED
    BY <1>3, <2>2, <2>3, <2>4
<1>4. QED
  BY <1>2, <1>3

(* Nothing that others rely on changes on the hypervisor.                   *)
LEMMA MakerFrame ==
  ASSUME IInv, MakerInv, ~tornDown, NEW p \in Ops, UNCHANGED server,
         \A q \in Ops \ {p} : job'[q] = job[q] /\ call'[q] = call[q],
         job'[p].verb \notin TearDown,
         Past(p)' => Past(p) /\ Node(p)' = Node(p),
         \A r \in late' : r[2] # "delete-vm"
  PROVE  MakerInv'
<1>1. ASSUME NEW q \in Ops, Past(q)'
      PROVE  Exists(vm[Node(q)])' /\ maker'[Node(q)'] = q
  <2>1. Past(q) /\ Node(q)' = Node(q)
    <3>1. CASE q = p
      BY <1>1, <3>1
    <3>2. CASE q # p
      BY <1>1, <3>2 DEF Past, Node
    <3>3. QED
      BY <3>1, <3>2
  <2>2. Exists(vm[Node(q)]) /\ maker[Node(q)] = q
    BY <2>1 DEF MakerInv
  <2>3. QED
    BY <2>1, <2>2 DEF server
<1>2. \A q \in Ops : job'[q].verb \notin TearDown
  BY DEF MakerInv
<1>3. QED
  BY <1>1, <1>2 DEF MakerInv

LEMMA MakerLate ==
  ASSUME IInv, MakerInv, ~tornDown, NEW p \in Ops, MayLeave(p)
  PROVE  \A r \in late' : r[2] # "delete-vm"
<1>1. CASE late' = late
  BY <1>1 DEF MakerInv
<1>2. CASE call[p] = "sent" /\ late' = late \cup {<<Node(p), Head(job[p].todo), p>>}
  <2>1. job[p] # NoJob /\ job[p].todo # <<>>
    BY <1>2, InCall
  <2>2. Head(job[p].todo) # "delete-vm"
    BY <2>1, NoDelete DEF MakerInv
  <2>3. QED
    BY <1>2, <2>2 DEF MakerInv
<1>3. QED
  BY <1>1, <1>2 DEF MayLeave

LEMMA MakerPasses ==
  ASSUME IInv, MakerInv, ~tornDown, NEW p \in Ops, Passes(p)
  PROVE  MakerInv'
<1>1. job[p] # NoJob /\ job[p].todo # <<>> /\ UNCHANGED server
  BY DEF Passes, server
<1>2. PICK j \in Job : /\ job' = [job EXCEPT ![p] = j] /\ j.verb = job[p].verb
                       /\ j.nodes = job[p].nodes /\ j.todo = Tail(job[p].todo)
  BY <1>1, StepDoneIs DEF Passes
<1>3. /\ job' \in [Ops -> Job] /\ job'[p] = j
      /\ \A q \in Ops \ {p} : job'[q] = job[q] /\ call'[q] = call[q]
      /\ call'[p] = "none"
  BY <1>2, Parts DEF Passes, Types
<1>4. \A r \in late' : r[2] # "delete-vm"
  <2>1. late' = late \/ MayLeave(p)
    BY DEF Passes
  <2>2. QED
    BY <2>1, MakerLate DEF MayLeave
<1>5. Past(p)' => Past(p) /\ Node(p)' = Node(p)
  <2>1. SUFFICES ASSUME Past(p)' PROVE Past(p)
    BY <1>2, <1>3 DEF Node
  <2>2. job[p].verb = "up" /\ Len(Tail(job[p].todo)) < 8
    BY <1>2, <1>3, <2>1 DEF Past
  <2>3. /\ Len(job[p].todo) \in Nat
        /\ Len(Tail(job[p].todo)) = Len(job[p].todo) - 1
        /\ (Head(job[p].todo) = "create-vm") <=> (Len(job[p].todo) = 8)
    BY <1>1, <2>2, UpAt
  <2>4. Len(job[p].todo) < 8 \/ Len(job[p].todo) = 8
    <3>1. PICK k, m : k = Len(job[p].todo) /\ m = Len(Tail(job[p].todo))
      OBVIOUS
    <3>2. k \in Nat /\ m = k - 1 /\ m < 8
      BY <2>2, <2>3, <3>1
    <3>3. k < 8 \/ k = 8
      BY <3>2
    <3>4. QED
      BY <3>1, <3>3
  <2>5. CASE Len(job[p].todo) = 8
    <3>1. Head(job[p].todo) = "create-vm"
      BY <2>3, <2>5
    <3>2. call[p] = "carried-out"
      BY <3>1 DEF Passes, Check, LocalStep, SnapPost
    <3>3. QED
      BY <2>2, <2>5, <3>2 DEF Past
  <2>6. QED
    BY <2>2, <2>4, <2>5 DEF Past
<1>6. job'[p].verb \notin TearDown
  BY <1>2, <1>3 DEF MakerInv
<1>7. QED
  BY <1>1, <1>3, <1>4, <1>5, <1>6, MakerFrame

LEMMA MakerEnds ==
  ASSUME IInv, MakerInv, ~tornDown, NEW p \in Ops, NEW r \in EndResult, Ends(p, r)
  PROVE  MakerInv'
<1>1. job[p] # NoJob /\ NodeDone(p, r) /\ UNCHANGED server /\ MayLeave(p)
  BY DEF Ends, server
<1>2. PICK j \in Job : /\ job' = [job EXCEPT ![p] = j]
                       /\ \/ j = NoJob
                          \/ j.verb = job[p].verb /\ j.todo = Program(j.verb)
  <2>1. PICK e \in SUBSET Nodes, j \in Job, l \in LastRun : DoneTo(p, r, e, j, l)
    BY <1>1, DoneEffect
  <2>2. QED
    BY <2>1 DEF DoneTo
<1>3. /\ job'[p] = j
      /\ \A q \in Ops \ {p} : job'[q] = job[q] /\ call'[q] = call[q]
      /\ call'[p] = "none"
  BY <1>2, Parts DEF Ends, Types
<1>4. \A q \in late' : q[2] # "delete-vm"
  BY <1>1, MakerLate
<1>5. ~Past(p)'
  <2>1. CASE j = NoJob
    BY <1>3, <2>1 DEF Past, NoJob, Idle
  <2>2. CASE j.verb = "up" /\ j.todo = Program(j.verb)
    <3>1. Len(j.todo) = 10
      BY <2>2, UpProgram
    <3>2. QED
      BY <1>3, <3>1 DEF Past
  <2>3. CASE j.verb # "up"
    BY <1>3, <2>3 DEF Past
  <2>4. QED
    BY <1>2, <2>1, <2>2, <2>3
<1>6. job'[p].verb \notin TearDown
  BY <1>2, <1>3 DEF MakerInv, NoJob, Idle, TearDown
<1>7. QED
  BY <1>1, <1>3, <1>4, <1>5, <1>6, MakerFrame

LEMMA MakerServer ==
  ASSUME IInv, MakerInv, ~tornDown, NEW n \in Nodes, NEW req \in Sent, NEW p \in Ops,
         CarryOut(req, n, p), req # "delete-vm", job' = job, ~tornDown',
         \A q \in Ops : \/ Past(q)' => Past(q)
                        \/ q = p /\ req = "create-vm" /\ n = Node(p),
         \A r \in late' : r[2] # "delete-vm"
  PROVE  MakerInv'
<1>1. Types
  BY DEF IInv
<1>2. ASSUME NEW q \in Ops, Past(q)'
      PROVE  Exists(vm[Node(q)])' /\ maker'[Node(q)'] = q
  <2>1. Node(q)' = Node(q)
    BY DEF Node
  <2>2. Node(q) \in Nodes
    <3>1. job[q] # NoJob
      BY <1>2 DEF Past, NoJob, Idle
    <3>2. QED
      BY <3>1, Here
  <2>3. CASE Past(q)
    <3>1. Exists(vm[Node(q)]) /\ maker[Node(q)] = q
      BY <2>3 DEF MakerInv
    <3>2. Exists(vm'[Node(q)]) /\ maker'[Node(q)] = q
      BY <1>1, <2>2, <3>1, MakerKept
    <3>3. QED
      BY <2>1, <3>2
  <2>4. CASE q = p /\ req = "create-vm" /\ n = Node(p)
    <3>1. Exists(vm'[Node(q)]) /\ maker'[Node(q)] = q
      BY <1>1, <2>2, <2>4, MakerKept
    <3>2. QED
      BY <2>1, <3>1
  <2>5. QED
    BY <1>2, <2>3, <2>4
<1>3. \A q \in Ops : job'[q].verb \notin TearDown
  BY DEF MakerInv
<1>4. QED
  BY <1>2, <1>3 DEF MakerInv

LEMMA MakerBegin ==
  ASSUME IInv, MakerInv, ~tornDown, ~tornDown', NEW p \in Ops, Run(p)
  PROVE  MakerInv'
<1>1. PICK verb \in Verbs : \E nodes \in Targets(verb) : Begin(p, verb, nodes)
  BY DEF Run
<1>2. PICK nodes \in Targets(verb) : Begin(p, verb, nodes)
  BY <1>1
<1>3. Types
  BY DEF IInv
<1>4. /\ job'[p].verb = verb /\ job'[p].todo = Program(verb) /\ call'[p] = "none"
      /\ \A q \in Ops \ {p} : job'[q] = job[q] /\ call'[q] = call[q]
      /\ UNCHANGED server /\ late' = late
  BY <1>2, <1>3 DEF Begin, Types, IInv, Control
<1>5. verb \notin TearDown
  BY <1>2 DEF Begin
<1>6. ~Past(p)'
  <2>1. CASE verb = "up"
    <3>1. Len(Program(verb)) = 10
      BY <2>1, UpProgram
    <3>2. QED
      BY <1>4, <3>1 DEF Past
  <2>2. CASE verb # "up"
    BY <1>4, <2>2 DEF Past
  <2>3. QED
    BY <2>1, <2>2
<1>7. \A r \in late' : r[2] # "delete-vm"
  BY <1>4 DEF MakerInv
<1>8. QED
  BY <1>4, <1>5, <1>6, <1>7, MakerFrame

LEMMA MakerOther ==
  ASSUME IInv, MakerInv, ~tornDown, NEW p \in Ops, NeedsNode(p) \/ Send(p) \/ Kill(p)
  PROVE  MakerInv'
<1>1. Types
  BY DEF IInv
<1>2. MayLeave(p) /\ UNCHANGED server
  BY DEF NeedsNode, Send, Kill, Behind, MayLeave
<1>3. \A r \in late' : r[2] # "delete-vm"
  BY <1>2, MakerLate
<1>4. \A q \in Ops \ {p} : job'[q] = job[q] /\ call'[q] = call[q]
  BY <1>1 DEF NeedsNode, Send, Kill, Types
<1>5. /\ job'[p].verb \notin TearDown
      /\ Past(p)' => Past(p) /\ Node(p)' = Node(p)
  <2>1. CASE NeedsNode(p)
    BY <2>1, IdleNotPast DEF NeedsNode, Past, NoJob, Idle, TearDown
  <2>2. CASE Send(p)
    <3>1. job' = job /\ call'[p] = "sent"
      BY <1>1, <2>2 DEF Send, Types
    <3>2. QED
      BY <3>1 DEF Past, Node, MakerInv
  <2>3. CASE Kill(p)
    <3>1. job'[p] = NoJob
      BY <1>1, <2>3 DEF Kill, Types
    <3>2. QED
      BY <3>1 DEF Past, NoJob, Idle, TearDown
  <2>4. QED
    BY <2>1, <2>2, <2>3
<1>6. QED
  BY <1>2, <1>3, <1>4, <1>5, MakerFrame

LEMMA MakerServe ==
  ASSUME IInv, MakerInv, ~tornDown, NEW p \in Ops, Serve(p)
  PROVE  MakerInv'
<1>1. Types /\ ~tornDown'
  BY DEF IInv, Serve
<1>2. PICK req : req = Head(job[p].todo)
  OBVIOUS
<1>3. /\ job[p] # NoJob /\ job[p].todo # <<>> /\ req \in Sent /\ Node(p) \in Nodes
      /\ CarryOut(req, Node(p), p) /\ job' = job
      /\ call' = [call EXCEPT ![p] = "carried-out"] /\ late' = late
  BY <1>2, InCall, Here DEF Serve
<1>4. req # "delete-vm" /\ \A r \in late' : r[2] # "delete-vm"
  BY <1>2, <1>3, NoDelete DEF MakerInv
<1>5. ASSUME NEW q \in Ops
      PROVE  \/ Past(q)' => Past(q)
             \/ q = p /\ req = "create-vm"
  <2>1. CASE q # p
    <3>1. job'[q] = job[q] /\ call'[q] = call[q]
      BY <1>1, <1>3, <2>1 DEF Types
    <3>2. QED
      BY <3>1 DEF Past
  <2>2. CASE q = p
    <3>1. CASE Past(p)' /\ Len(job[p].todo) = 8
      <4>1. job[p].verb = "up"
        BY <1>3, <3>1 DEF Past
      <4>2. req = "create-vm"
        BY <1>2, <1>3, <3>1, <4>1, UpAt
      <4>3. QED
        BY <2>2, <4>2
    <3>2. CASE ~(Past(p)' /\ Len(job[p].todo) = 8)
      BY <1>3, <2>2, <3>2 DEF Past
    <3>3. QED
      BY <3>1, <3>2
  <2>3. QED
    BY <2>1, <2>2
<1>6. \A q \in Ops : \/ Past(q)' => Past(q)
                     \/ q = p /\ req = "create-vm" /\ Node(p) = Node(p)
  BY <1>5
<1>7. QED
  BY <1>1, <1>3, <1>4, <1>6, MakerServer

LEMMA MakerLater ==
  ASSUME IInv, MakerInv, ~tornDown, LateEffect
  PROVE  MakerInv'
<1>1. PICK r \in late : CarryOut(r[2], r[1], r[3]) /\ late' = late \ {r} /\ UNCHANGED client
  BY DEF LateEffect
<1>2. Types /\ ~tornDown' /\ job' = job /\ call' = call
  BY <1>1 DEF IInv, client
<1>3. r[1] \in Nodes /\ r[2] \in Sent /\ r[3] \in Ops
  BY <1>2 DEF Types, Late
<1>4. r[2] # "delete-vm" /\ \A q \in late' : q[2] # "delete-vm"
  BY <1>1 DEF MakerInv
<1>5. \A q \in Ops : \/ Past(q)' => Past(q)
                     \/ q = r[3] /\ r[2] = "create-vm" /\ r[1] = Node(r[3])
  BY <1>2 DEF Past
<1>6. QED
  BY <1>1, <1>2, <1>3, <1>4, <1>5, MakerServer

LEMMA MakerGuest ==
  ASSUME IInv, MakerInv, ~tornDown, NEW n \in Nodes, GuestInstalls(n) \/ GuestReboots(n)
  PROVE  MakerInv'
<1>1. Types /\ vm \in [Nodes -> Machine]
  BY DEF IInv, Types
<1>2. job' = job /\ call' = call /\ late' = late /\ maker' = maker
  BY DEF GuestInstalls, GuestReboots, client
<1>3. \A m \in Nodes : Exists(vm[m]) => Exists(vm'[m])
  <2>1. vm[n] \in VM
    BY <1>1, MachineIs
  <2>2. vm'[n].by = vm[n].by /\ \A m \in Nodes : m # n => vm'[m] = vm[m]
    <3>1. CASE GuestInstalls(n)
      BY <1>1, <2>1, <3>1 DEF GuestInstalls, VM
    <3>2. CASE GuestReboots(n)
      BY <1>1, <2>1, <3>2, ChangedMachine DEF GuestReboots
    <3>3. QED
      BY <3>1, <3>2
  <2>3. QED
    BY <2>2 DEF Exists
<1>4. ASSUME NEW q \in Ops, Past(q)'
      PROVE  Exists(vm[Node(q)])' /\ maker'[Node(q)'] = q
  <2>1. Past(q) /\ Node(q)' = Node(q) /\ job[q] # NoJob
    BY <1>2, <1>4, IdleNotPast DEF Past, Node
  <2>2. Exists(vm[Node(q)]) /\ maker[Node(q)] = q /\ Node(q) \in Nodes
    BY <2>1, Here DEF MakerInv
  <2>3. QED
    BY <1>2, <1>3, <2>1, <2>2
<1>5. (\A q \in Ops : job'[q].verb \notin TearDown) /\ \A r \in late' : r[2] # "delete-vm"
  BY <1>2 DEF MakerInv
<1>6. QED
  BY <1>4, <1>5 DEF MakerInv

LEMMA MakerStep == IInv /\ MakerInv /\ [Next]_vars => MakerInv'
<1> SUFFICES ASSUME IInv, MakerInv, [Next]_vars PROVE MakerInv'
  OBVIOUS
<1>1. CASE tornDown'
  BY <1>1 DEF MakerInv
<1>2. CASE UNCHANGED vars
  BY <1>2 DEF MakerInv, Past, Node, vars, client, server
<1>3. CASE ~tornDown' /\ ~UNCHANGED vars
  <2>1. ~tornDown
    <3>1. tornDown => tornDown'
      <4>1. ASSUME NEW p \in Ops, Run(p) PROVE tornDown => tornDown'
        BY <4>1 DEF Run, Begin
      <4>2. ASSUME NEW p \in Ops, \/ NeedsNode(p) \/ Send(p) \/ Passes(p)
                                  \/ \E r \in EndResult : Ends(p, r)
                                  \/ Serve(p) \/ Kill(p)
            PROVE  tornDown' = tornDown
        BY <4>2 DEF NeedsNode, Send, Passes, Ends, Serve, Kill
      <4>3. CASE LateEffect \/ \E n \in Nodes : GuestInstalls(n) \/ GuestReboots(n)
        BY <4>3 DEF LateEffect, GuestInstalls, GuestReboots, client
      <4>4. QED
        BY <1>3, <4>1, <4>2, <4>3, Steps
    <3>2. QED
      BY <1>3, <3>1
  <2>2. ASSUME NEW p \in Ops, \/ Run(p) \/ NeedsNode(p) \/ Send(p) \/ Passes(p)
                              \/ \E r \in EndResult : Ends(p, r)
                              \/ Serve(p) \/ Kill(p)
        PROVE  MakerInv'
    BY <1>3, <2>1, <2>2, MakerBegin, MakerOther, MakerPasses, MakerEnds, MakerServe
  <2>3. CASE LateEffect \/ \E n \in Nodes : GuestInstalls(n) \/ GuestReboots(n)
    BY <2>1, <2>3, MakerLater, MakerGuest
  <2>4. QED
    BY <1>3, <2>2, <2>3, Steps
<1>4. QED
  BY <1>1, <1>2, <1>3

LEMMA MakerImplies == IInv /\ MakerInv => SetUpByMaker
<1> SUFFICES ASSUME IInv, MakerInv, ~tornDown, NEW p \in Ops, job[p].verb = "up",
                    NEW req \in Request \ {"create-vm", "verify-kickstart-iso"}, At(p, req)
             PROVE  maker[Node(p)] = p
  BY DEF SetUpByMaker
<1>1. job[p].todo # <<>> /\ Head(job[p].todo) = req
  BY DEF At
<1>2. /\ Len(job[p].todo) \in Nat
      /\ (req = "create-vm") <=> (Len(job[p].todo) = 8)
      /\ (req \in {"check-free", "verify-kickstart-iso"}) <=> (Len(job[p].todo) > 8)
  BY <1>1, UpAt
<1>3. req \notin {"check-free", "verify-kickstart-iso", "create-vm"}
  BY DEF Request, VMRequest
<1>4. Len(job[p].todo) < 8
  <2>1. PICK k : k = Len(job[p].todo)
    OBVIOUS
  <2>2. k \in Nat /\ k # 8 /\ ~(k > 8)
    BY <1>2, <1>3, <2>1
  <2>3. k < 8
    BY <2>2
  <2>4. QED
    BY <2>1, <2>3
<1>5. QED
  BY <1>4 DEF Past, MakerInv

(* Of any number of `up` on one VMID only the one that created the machine *)
(* configures or starts it, whatever is killed, refused or late, as long as *)
(* no command that deletes machines has begun.                             *)
THEOREM OnlyItsMaker == Spec => []SetUpByMaker
<1>1. Init => MakerInv
  BY IdleNotPast DEF Init, MakerInv
<1>2. QED
  BY <1>1, MakerStep, MakerImplies, Invariance, PTL DEF Spec

-----------------------------------------------------------------------------
(* A command that nothing disturbs reaches its goal.                       *)

NoGoal == Snapshots \cup {"create-build"}

(* A request left behind that cannot spoil what the command is run for.    *)
Harmless(r, verb, bad) ==
    \/ r[1] \in bad
    \/ verb \in NoGoal
    \/ verb \in Downs /\ r[2] \in {"shutdown-vm", "stop-vm"}

(* How far a machine is when m steps of the program have still to take     *)
(* effect on it.                                                           *)
Progress(verb, m, v) ==
    IF verb \in Settles
    THEN /\ m <= 3 => SSHUp(v)
         /\ m <= 2 => ~v.ide3
         /\ m <= 1 => ~v.ide2
         /\ m = 0 => v.boot = "disk"
    ELSE m = 0 => Goal(verb, v)

ToGo(p) == IF call[p] = "carried-out" THEN Len(job[p].todo) - 1 ELSE Len(job[p].todo)

Alone(p) == \A q \in Ops \ {p} : job[q] = NoJob

Working(p) ==
    /\ Alone(p)
    /\ \A r \in late : Harmless(r, job[p].verb, errs[p])
    /\ \A n \in job[p].given \ (ToSet(job[p].nodes) \cup errs[p]) : Goal(job[p].verb, vm[n])
    /\ Progress(job[p].verb, ToGo(p), vm[Node(p)])

Reached(p) ==
    /\ Alone(p)
    /\ \A r \in late : Harmless(r, last[p].verb, errs[p])
    /\ \A n \in last[p].given \ errs[p] : Goal(last[p].verb, vm[n])
    /\ (last[p].result = "ok") = (errs[p] = {})

Ended(p) == job[p] = NoJob /\ last[p].result \in {"ok", "error"}

QuietInv ==
    \A p \in Ops : quiet[p] => /\ job[p] # NoJob => Working(p)
                               /\ Ended(p) => Reached(p)

-----------------------------------------------------------------------------

LEMMA GoalIs ==
  ASSUME NEW verb \in AllVerbs, NEW v
  PROVE  /\ verb \in Settles => Goal(verb, v) = Finalized(v)
         /\ verb \in Downs \cup {"delete"} => Goal(verb, v) = ~Exists(v)
         /\ verb \in {"start", "reboot"} => Goal(verb, v) = v.on
         /\ verb \in {"stop", "stop-force"} => Goal(verb, v) = ~v.on
         /\ verb = "configure-first-boot"
               => Goal(verb, v) = (v.ide3 /\ v.boot = "iso-first")
         /\ verb = "eject-iso" => Goal(verb, v) = ~v.ide3
         /\ verb \in NoGoal => Goal(verb, v)
BY DEF Goal, Settles, Downs, NoGoal, Snapshots

LEMMA VerbKinds ==
  ASSUME NEW verb \in AllVerbs
  PROVE  /\ \/ verb \in Settles \/ verb \in Downs \/ verb \in NoGoal
            \/ verb = "delete" \/ verb \in {"start", "reboot"}
            \/ verb \in {"stop", "stop-force"}
            \/ verb = "configure-first-boot" \/ verb = "eject-iso"
         /\ verb \in Workflow <=> verb \in Settles \cup Downs \cup {"create-build"}
         /\ verb \in NoGoal => verb \notin Settles /\ verb \notin Downs
         /\ verb \in Downs => verb \notin Settles
BY DEF AllVerbs, Workflow, PowerVerbs, Media, Snapshots, Settles, Downs, NoGoal

(* A program is long enough to promise nothing before its first step.      *)
LEMMA FreshProgress ==
  ASSUME NEW verb \in AllVerbs, NEW v
  PROVE  Progress(verb, Len(Program(verb)), v)
<1>1. Len(Program(verb)) \in Nat /\ Len(Program(verb)) >= 1
  BY ProgramType
<1>2. CASE verb \in Settles
  <2>1. Len(Program(verb)) >= 4
    <3>1. CASE verb \in {"up", "create"}
      <4>1. Len(Program(verb)) = 10
        BY <3>1, UpProgram
      <4>2. QED
        BY <4>1
    <3>2. CASE verb = "finalize"
      <4>1. Len(Program(verb)) = 4
        BY <3>2, FinalizeProgram, FinalizeList
      <4>2. QED
        BY <4>1
    <3>3. QED
      BY <1>2, <3>1, <3>2 DEF Settles
  <2>2. PICK m : m = Len(Program(verb))
    OBVIOUS
  <2>3. m \in Nat /\ ~(m <= 3) /\ ~(m <= 2) /\ ~(m <= 1) /\ m # 0
    BY <1>1, <2>1, <2>2
  <2>4. QED
    BY <1>2, <2>2, <2>3 DEF Progress
<1>3. CASE verb \notin Settles
  <2>1. Len(Program(verb)) # 0
    BY <1>1
  <2>2. QED
    BY <1>3, <2>1 DEF Progress
<1>4. QED
  BY <1>2, <1>3

(* With no step to go the goal is reached.                                 *)
LEMMA LastProgress ==
  ASSUME NEW verb \in AllVerbs, NEW v \in Machine, Progress(verb, 0, v)
  PROVE  Goal(verb, v)
<1>1. CASE verb \in Settles
  <2>1. SSHUp(v) /\ ~v.ide3 /\ ~v.ide2 /\ v.boot = "disk"
    BY <1>1 DEF Progress
  <2>2. v.on /\ v \in VM
    BY <2>1, MachineIs DEF SSHUp
  <2>3. v # NoVM
    BY <2>2 DEF NoVM
  <2>4. v.by = "proxctl"
    BY <2>2, <2>3 DEF Machine, Exists, VM
  <2>5. Finalized(v)
    BY <2>1, <2>4 DEF Finalized
  <2>6. QED
    BY <1>1, <2>5, GoalIs
<1>2. CASE verb \notin Settles
  BY <1>2 DEF Progress
<1>3. QED
  BY <1>1, <1>2

(* The effect of a step that a command waited for.                         *)
LEMMA ServedProgress ==
  ASSUME Types, NEW n \in Nodes, NEW verb \in AllVerbs, NEW k \in Nat, k >= 1,
         NEW req \in Sent, Facts(verb, k, req), Progress(verb, k, vm[n]),
         NEW w \in After(req, n)
  PROVE  Progress(verb, k - 1, w)
<1>1. PICK v, m : v = vm[n] /\ m = k - 1
  OBVIOUS
<1>0. Outcome(req, v, snap[n], w)
  BY <1>1, AfterIs
<1>2. v \in VM /\ m \in Nat /\ k = m + 1
  BY <1>1, MachineIs DEF Types
<1> SUFFICES Progress(verb, m, w)
  BY <1>1
<1>3. CASE verb \in Settles
  <2>1. /\ k = 4 => req = "wait-ssh"
        /\ k = 3 => req = "eject-ide3"
        /\ k = 2 => req = "eject-ide2"
        /\ k = 1 => req = "boot-from-disk"
    BY <1>3 DEF Facts, SettleTail
  <2>2. m # 3
    BY <1>2, <2>1, SentApart
  <2>3. /\ k <= 3 => SSHUp(v)
        /\ k <= 2 => ~v.ide3
        /\ k <= 1 => ~v.ide2
    BY <1>1, <1>3 DEF Progress
  <2>4. CASE m = 2
    <3>1. w = Ejected(v, "ide3")
      <4>1. req = "eject-ide3"
        BY <1>2, <2>1, <2>4
      <4>2. QED
        BY <1>0, <4>1 DEF Outcome
    <3>2. SSHUp(w) /\ ~w.ide3
      BY <1>2, <2>3, <2>4, <3>1 DEF Ejected, VM, SSHUp
    <3>3. QED
      BY <1>3, <2>4, <3>2 DEF Progress
  <2>5. CASE m = 1
    <3>1. w = Ejected(v, "ide2")
      <4>1. req = "eject-ide2"
        BY <1>2, <2>1, <2>5
      <4>2. QED
        BY <1>0, <4>1 DEF Outcome
    <3>2. SSHUp(w) /\ ~w.ide3 /\ ~w.ide2
      BY <1>2, <2>3, <2>5, <3>1 DEF Ejected, VM, SSHUp
    <3>3. QED
      BY <1>3, <2>5, <3>2 DEF Progress
  <2>6. CASE m = 0
    <3>1. w = BootFrom(v, "disk")
      <4>1. req = "boot-from-disk"
        BY <1>2, <2>1, <2>6
      <4>2. QED
        BY <1>0, <4>1 DEF Outcome
    <3>2. SSHUp(w) /\ ~w.ide3 /\ ~w.ide2 /\ w.boot = "disk"
      BY <1>2, <2>3, <2>6, <3>1 DEF BootFrom, VM, SSHUp
    <3>3. QED
      BY <1>3, <2>6, <3>2 DEF Progress
  <2>7. CASE m > 3
    BY <1>2, <1>3, <2>7 DEF Progress
  <2>8. QED
    BY <1>2, <2>2, <2>4, <2>5, <2>6, <2>7
<1>4. CASE verb \notin Settles /\ m # 0
  BY <1>4 DEF Progress
<1>5. CASE verb \notin Settles /\ m = 0
  <2>1. k = 1
    BY <1>2, <1>5
  <2>2. Goal(verb, w)
    <3>1. CASE verb \in Downs
      <4>1. req = "delete-vm"
        BY <2>1, <3>1 DEF Facts, DownTail
      <4>2. w = NoVM
        BY <1>0, <4>1 DEF Outcome
      <4>3. QED
        BY <3>1, <4>2, GoalIs, MachineIs
    <3>2. CASE verb \in NoGoal
      BY <3>2, GoalIs
    <3>3. CASE verb \notin Workflow
      <4>1. req = Only(verb)
        BY <3>3 DEF Facts
      <4>2. CASE verb = "delete"
        <5>1. w = NoVM
          BY <1>0, <3>3, <4>1, <4>2, OtherProgram DEF Outcome
        <5>2. QED
          BY <4>2, <5>1, GoalIs, MachineIs
      <4>3. CASE verb \in {"start", "reboot"}
        <5>1. w \in Boots(v)
          <6>1. req \in {"start-vm", "reboot-vm"}
            BY <3>3, <4>1, <4>3, OtherProgram
          <6>2. QED
            BY <1>0, <6>1 DEF Outcome
        <5>2. w.on
          BY <1>2, <5>1 DEF Boots, Power, VM
        <5>3. QED
          BY <4>3, <5>2, GoalIs
      <4>4. CASE verb \in {"stop", "stop-force"}
        <5>1. w = Power(v, FALSE)
          BY <1>0, <3>3, <4>1, <4>4, OtherProgram DEF Outcome
        <5>2. ~w.on
          BY <1>2, <5>1 DEF Power, VM
        <5>3. QED
          BY <4>4, <5>2, GoalIs
      <4>5. CASE verb = "configure-first-boot"
        <5>1. w = BootFrom(WithKickstart(v), "iso-first")
          BY <1>0, <3>3, <4>1, <4>5, OtherProgram DEF Outcome
        <5>2. w.ide3 /\ w.boot = "iso-first"
          BY <1>2, <5>1 DEF BootFrom, WithKickstart, VM
        <5>3. QED
          BY <4>5, <5>2, GoalIs
      <4>6. CASE verb = "eject-iso"
        <5>1. w = Ejected(v, "ide3")
          BY <1>0, <3>3, <4>1, <4>6, OtherProgram DEF Outcome
        <5>2. ~w.ide3
          BY <1>2, <5>1 DEF Ejected, VM
        <5>3. QED
          BY <4>6, <5>2, GoalIs
      <4>7. QED
        BY <1>5, <3>1, <3>2, <4>2, <4>3, <4>4, <4>5, <4>6, VerbKinds
    <3>4. QED
      BY <1>5, <3>1, <3>2, <3>3, VerbKinds DEF NoGoal
  <2>3. QED
    BY <1>5, <2>2 DEF Progress
<1>6. QED
  BY <1>3, <1>4, <1>5

QuietAt(p) == quiet[p] => /\ job[p] # NoJob => Working(p)
                          /\ Ended(p) => Reached(p)

(* An operator at work is alone with whom nothing disturbs.                 *)
LEMMA NotTwo ==
  ASSUME QuietInv, NEW p \in Ops, NEW q \in Ops, q # p, job[q] # NoJob, quiet[p]
  PROVE  job[p] = NoJob /\ ~Ended(p)
<1>1. ~Alone(p)
  BY DEF Alone
<1>2. QED
  BY <1>1 DEF QuietInv, Working, Reached, Ended

(* What another operator at work does leaves p's part of the invariant.     *)
LEMMA QuietOthers ==
  ASSUME QuietInv, NEW p \in Ops, NEW q \in Ops, q # p, job[q] # NoJob,
         quiet'[p] => quiet[p], job'[p] = job[p], last'[p] = last[p]
  PROVE  QuietAt(p)'
<1>1. SUFFICES ASSUME quiet'[p] PROVE job[p] = NoJob /\ ~Ended(p)
  BY DEF QuietAt, Ended
<1>2. QED
  BY <1>1, NotTwo

LEMMA QuietBegin ==
  ASSUME IInv, QuietInv, NEW p \in Ops, Run(p), NEW q \in Ops
  PROVE  QuietAt(q)'
<1>1. PICK verb \in Verbs : \E nodes \in Targets(verb) : Begin(p, verb, nodes)
  BY DEF Run
<1>2. PICK nodes \in Targets(verb) : Begin(p, verb, nodes)
  BY <1>1
<1>3. Types /\ verb \in AllVerbs
  BY CommandsAssumption DEF IInv
<1>4. CASE q # p
  <2>1. ~quiet'[q]
    BY <1>2, <1>4 DEF Begin
  <2>2. QED
    BY <2>1 DEF QuietAt
<1>5. CASE q = p
  <2>1. SUFFICES ASSUME quiet'[p] PROVE Working(p)' /\ ~Ended(p)'
    BY <1>5 DEF QuietAt
  <2>2. late = {} /\ \A o \in Ops \ {p} : job[o] = NoJob
    BY <1>2, <2>1 DEF Begin
  <2>3. /\ job'[p] = [verb |-> verb, given |-> ToSet(nodes), nodes |-> nodes,
                      todo |-> Program(verb)]
        /\ \A o \in Ops \ {p} : job'[o] = job[o]
        /\ call'[p] = "none" /\ late' = late
    BY <1>2, <1>3 DEF Begin, Types, IInv, Control
  <2>4. Alone(p)'
    BY <2>2, <2>3 DEF Alone
  <2>5. \A r \in late' : Harmless(r, job'[p].verb, errs'[p])
    BY <2>2, <2>3
  <2>6. job'[p].given \ (ToSet(job'[p].nodes) \cup errs'[p]) = {}
    BY <2>3
  <2>7. Progress(job'[p].verb, ToGo(p)', vm'[Node(p)'])
    <3>1. ToGo(p)' = Len(Program(verb)) /\ job'[p].verb = verb
      BY <2>3 DEF ToGo
    <3>2. QED
      BY <1>3, <3>1, FreshProgress
  <2>8. Working(p)'
    BY <2>4, <2>5, <2>6, <2>7 DEF Working
  <2>9. ~Ended(p)'
    <3>1. job'[p].verb \in AllVerbs
      BY <1>3, <2>3
    <3>2. job'[p] # NoJob
      BY <3>1, NotIdle DEF NoJob
    <3>3. QED
      BY <3>2 DEF Ended
  <2>10. QED
    BY <2>8, <2>9
<1>6. QED
  BY <1>4, <1>5

LEMMA QuietNeedsNode ==
  ASSUME IInv, QuietInv, NEW p \in Ops, NeedsNode(p), NEW q \in Ops
  PROVE  QuietAt(q)'
<1>1. Types
  BY DEF IInv
<1>2. PICK verb \in (Verbs \cap Workflow) \ {"create", "create-build"} :
          Returns(p, verb, {}, "usage")
  BY DEF NeedsNode
<1>3. CASE q = p
  <2>1. job'[p] = NoJob /\ last'[p].result = "usage"
    BY <1>1, <1>2 DEF NeedsNode, Returns, Types
  <2>2. QED
    BY <1>3, <2>1 DEF QuietAt, Ended
<1>4. CASE q # p
  <2>1. /\ job' = job /\ call' = call /\ quiet' = quiet /\ late' = late /\ vm' = vm
        /\ last'[q] = last[q] /\ errs'[q] = errs[q]
    BY <1>1, <1>2, <1>4 DEF NeedsNode, Returns, Types, server
  <2>2. QED
    BY <2>1 DEF QuietAt, QuietInv, Working, Reached, Alone, Ended, ToGo, Node
<1>5. QED
  BY <1>3, <1>4

LEMMA QuietSend ==
  ASSUME IInv, QuietInv, NEW p \in Ops, Send(p), NEW q \in Ops
  PROVE  QuietAt(q)'
<1>1. Types
  BY DEF IInv
<1>2. /\ job' = job /\ quiet' = quiet /\ late' = late /\ vm' = vm
      /\ last' = last /\ errs' = errs
      /\ (call'[q] = "carried-out") <=> (call[q] = "carried-out")
  BY <1>1 DEF Send, Types, server
<1>3. ToGo(q)' = ToGo(q)
  BY <1>2 DEF ToGo
<1>4. QED
  BY <1>2, <1>3 DEF QuietAt, QuietInv, Working, Reached, Alone, Ended, Node

(* Past a step that needed no effect the promise is the same.               *)
LEMMA PassProgress ==
  ASSUME IInv, NEW p \in Ops, Passes(p), Working(p)
  PROVE  Progress(job[p].verb, Len(job[p].todo) - 1, vm[Node(p)])
<1>1. PICK verb, k, s, v, m : /\ verb = job[p].verb /\ k = Len(job[p].todo)
                              /\ s = Head(job[p].todo) /\ v = vm[Node(p)] /\ m = k - 1
  OBVIOUS
<1>2. job[p] # NoJob /\ job[p].todo # <<>>
  BY DEF Passes
<1>3. k \in Nat /\ k >= 1 /\ Facts(verb, k, s) /\ verb \in AllVerbs /\ m \in Nat
      /\ k = m + 1
  BY <1>1, <1>2, HereStep, Here
<1>4. CASE call[p] = "carried-out"
  <2>1. ToGo(p) = k - 1
    BY <1>1, <1>4 DEF ToGo
  <2>2. QED
    BY <1>1, <2>1 DEF Working
<1>5. CASE call[p] # "carried-out"
  <2>1. Progress(verb, k, v)
    BY <1>1, <1>5 DEF ToGo, Working
  <2>2. \/ s \in Check \cup LocalStep
        \/ s = "wait-ssh" /\ SSHUp(v)
        \/ s \in SnapPost
        \/ verb \in Downs /\ s \in {"shutdown-vm", "stop-vm"}
    BY <1>1, <1>5 DEF Passes
  <2>3. CASE verb \in Settles
    <3>1. /\ k = 4 => s = "wait-ssh"
          /\ k = 3 => s = "eject-ide3"
          /\ k = 2 => s = "eject-ide2"
          /\ k = 1 => s = "boot-from-disk"
          /\ verb \notin Downs
      BY <1>3, <2>3, VerbKinds DEF Facts, SettleTail
    <3>2. ~(k \in {1, 2, 3})
      BY <2>2, <3>1 DEF Check, LocalStep, SnapPost
    <3>3. m = 3 => SSHUp(v)
      BY <1>3, <2>2, <3>1 DEF Check, LocalStep, SnapPost
    <3>4. m >= 3
      BY <1>3, <3>2
    <3>5. /\ m <= 3 => SSHUp(v)
          /\ ~(m <= 2) /\ ~(m <= 1) /\ m # 0
      <4>1. m <= 3 => m = 3
        BY <1>3, <3>4
      <4>2. ~(m <= 2) /\ ~(m <= 1) /\ m # 0
        BY <1>3, <3>4
      <4>3. QED
        BY <3>3, <4>1, <4>2
    <3>6. Progress(verb, m, v)
      BY <2>3, <3>5 DEF Progress
    <3>7. QED
      BY <1>1, <3>6
  <2>4. CASE verb \notin Settles
    <3>1. SUFFICES ASSUME m = 0 PROVE Goal(verb, v)
      BY <1>1, <2>4 DEF Progress
    <3>2. k = 1
      BY <1>3, <3>1
    <3>3. CASE verb \in NoGoal
      BY <1>3, <3>3, GoalIs
    <3>4. CASE verb \in Downs
      <4>1. s = "delete-vm"
        BY <1>3, <3>2, <3>4 DEF Facts, DownTail
      <4>2. QED
        BY <2>2, <4>1 DEF Check, LocalStep, SnapPost
    <3>5. CASE verb \notin Workflow /\ verb \notin NoGoal
      <4>1. s \in Sent /\ s \notin SnapPost /\ verb \notin Downs
        BY <1>3, <3>5, OtherProgram, VerbKinds DEF Facts, NoGoal
      <4>2. QED
        BY <2>2, <4>1, SentApart
    <3>6. QED
      BY <1>3, <2>4, <3>3, <3>4, <3>5, VerbKinds DEF NoGoal
  <2>5. QED
    BY <2>3, <2>4
<1>6. QED
  BY <1>4, <1>5

LEMMA QuietPasses ==
  ASSUME IInv, QuietInv, NEW p \in Ops, Passes(p), NEW q \in Ops
  PROVE  QuietAt(q)'
<1>1. job[p] # NoJob /\ job[p].todo # <<>> /\ Types
  BY DEF Passes, IInv
<1>2. PICK j \in Job : /\ job' = [job EXCEPT ![p] = j] /\ j # NoJob
                       /\ j.verb = job[p].verb /\ j.given = job[p].given
                       /\ j.nodes = job[p].nodes /\ j.todo = Tail(job[p].todo)
  BY <1>1, StepDoneIs DEF Passes
<1>3. /\ job'[p] = j /\ \A o \in Ops \ {p} : job'[o] = job[o]
      /\ last' = last /\ errs' = errs /\ quiet' = quiet /\ vm' = vm
      /\ call'[p] = "none"
  BY <1>1, <1>2 DEF Passes, Types, server
<1>4. CASE q # p
  BY <1>1, <1>3, <1>4, QuietOthers
<1>5. CASE q = p
  <2>1. SUFFICES ASSUME quiet[p] PROVE Working(p)'
    BY <1>2, <1>3, <1>5 DEF QuietAt, Ended
  <2>2. Working(p)
    BY <1>1, <2>1 DEF QuietInv
  <2>3. Alone(p)'
    BY <1>3, <2>2 DEF Working, Alone
  <2>4. \A r \in late' : Harmless(r, job'[p].verb, errs'[p])
    <3>1. \A r \in late : Harmless(r, job[p].verb, errs[p])
      BY <2>2 DEF Working
    <3>2. CASE late' = late
      BY <1>2, <1>3, <3>1, <3>2
    <3>3. CASE /\ late' = late \cup {<<Node(p), Head(job[p].todo), p>>}
               /\ \/ Head(job[p].todo) \in SnapPost
                  \/ job[p].verb \in Downs /\ Head(job[p].todo) \in {"shutdown-vm", "stop-vm"}
      <4>1. PICK r : r = <<Node(p), Head(job[p].todo), p>>
        OBVIOUS
      <4>2. r[2] = Head(job[p].todo)
        BY <4>1
      <4>3. Head(job[p].todo) \in SnapPost => job[p].verb \in NoGoal
        BY <1>1, HereStep DEF Facts, Kinds, NoGoal
      <4>4. Harmless(r, job[p].verb, errs[p])
        BY <3>3, <4>2, <4>3 DEF Harmless
      <4>5. QED
        BY <1>2, <1>3, <3>1, <3>3, <4>1, <4>4
    <3>4. QED
      BY <3>2, <3>3 DEF Passes, MayLeave
  <2>5. \A n \in job'[p].given \ (ToSet(job'[p].nodes) \cup errs'[p]) :
            Goal(job'[p].verb, vm'[n])
    BY <1>2, <1>3, <2>2 DEF Working
  <2>6. Progress(job'[p].verb, ToGo(p)', vm'[Node(p)'])
    <3>1. ToGo(p)' = Len(job[p].todo) - 1
      <4>1. Len(Tail(job[p].todo)) = Len(job[p].todo) - 1
        BY <1>1, HereStep
      <4>2. QED
        BY <1>2, <1>3, <4>1 DEF ToGo
    <3>2. Node(p)' = Node(p)
      BY <1>2, <1>3 DEF Node
    <3>3. QED
      BY <1>2, <1>3, <2>2, <3>1, <3>2, PassProgress
  <2>7. QED
    BY <2>3, <2>4, <2>5, <2>6 DEF Working
<1>6. QED
  BY <1>4, <1>5

(* With the steps of a node done, or the machine gone, its goal is reached. *)
LEMMA NodeReached ==
  ASSUME IInv, NEW p \in Ops, job[p] # NoJob, Working(p),
         \/ job[p].todo = <<>>
         \/ job[p].verb \in Downs /\ ~Exists(vm[Node(p)])
  PROVE  Goal(job[p].verb, vm[Node(p)])
<1>1. job[p].verb \in AllVerbs /\ vm[Node(p)] \in Machine
  BY Here DEF IInv, Types
<1>2. CASE job[p].todo = <<>>
  <2>1. call[p] = "none"
    BY <1>2, Here DEF AtWork
  <2>2. ToGo(p) = 0
    BY <1>2, <2>1 DEF ToGo
  <2>3. Progress(job[p].verb, 0, vm[Node(p)])
    BY <2>2 DEF Working
  <2>4. QED
    BY <1>1, <2>3, LastProgress
<1>3. CASE job[p].verb \in Downs /\ ~Exists(vm[Node(p)])
  BY <1>1, <1>3, GoalIs
<1>4. QED
  BY <1>2, <1>3

LEMMA QuietEnds ==
  ASSUME IInv, QuietInv, NEW p \in Ops, NEW r \in EndResult, Ends(p, r), NEW q \in Ops
  PROVE  QuietAt(q)'
<1>1. job[p] # NoJob /\ NodeDone(p, r) /\ Types
  BY DEF Ends, IInv
<1>2. PICK bad \in SUBSET Nodes, j \in Job, l \in LastRun : DoneTo(p, r, bad, j, l)
  BY <1>1, DoneEffect
<1>3. /\ bad = IF r = "ok" THEN errs[p] ELSE errs[p] \cup {Node(p)}
      /\ errs' = [errs EXCEPT ![p] = bad]
      /\ job' = [job EXCEPT ![p] = j]
      /\ last' = [last EXCEPT ![p] = l]
      /\ bad \subseteq job[p].given
      /\ \/ /\ l = last[p]
            /\ j.verb = job[p].verb /\ j.given = job[p].given
            /\ j.todo = Program(j.verb)
            /\ j # NoJob /\ j.nodes # <<>> /\ Head(j.nodes) # Node(p)
            /\ ToSet(j.nodes) = ToSet(job[p].nodes) \ {Node(p)}
            /\ Head(j.nodes) \in ToSet(j.nodes)
            /\ AtWork(j, "none", bad)
         \/ /\ j = NoJob
            /\ ToSet(job[p].nodes) = {Node(p)}
            /\ l.verb = job[p].verb /\ l.given = job[p].given
            /\ l.result = IF bad = {} THEN "ok" ELSE IF r = "ok" THEN "error" ELSE r
  BY <1>2 DEF DoneTo
<1>4. /\ \A o \in Ops \ {p} : job'[o] = job[o] /\ last'[o] = last[o]
      /\ job'[p] = j /\ last'[p] = l /\ errs'[p] = bad
      /\ quiet' = quiet /\ vm' = vm /\ call'[p] = "none"
  BY <1>1, <1>3 DEF Ends, Types, server
<1>5. CASE q # p
  BY <1>1, <1>4, <1>5, QuietOthers
<1>6. CASE q = p
  <2> SUFFICES ASSUME quiet[p] PROVE QuietAt(p)'
    BY <1>4, <1>6 DEF QuietAt
  <2>1. Working(p)
    BY <1>1 DEF QuietInv
  <2>2. PICK verb, m : verb = job[p].verb /\ m = Node(p)
    OBVIOUS
  <2>3. verb \in AllVerbs /\ m \in Nodes /\ m \notin errs[p] /\ m \in ToSet(job[p].nodes)
    BY <1>1, <2>2, Here
  <2>4. Alone(p)'
    BY <1>4, <2>1 DEF Working, Alone
  <2>5. \A x \in late' : Harmless(x, verb, bad)
    <3>1. \A x \in late : Harmless(x, verb, bad)
      <4>1. errs[p] \subseteq bad
        BY <1>3
      <4>2. QED
        BY <2>1, <2>2, <4>1 DEF Working, Harmless
    <3>2. CASE late' = late
      BY <3>1, <3>2
    <3>3. CASE /\ late' = late \cup {<<Node(p), Head(job[p].todo), p>>}
               /\ r # "ok"
      <4>1. PICK x : x = <<Node(p), Head(job[p].todo), p>>
        OBVIOUS
      <4>2. x[1] = m /\ m \in bad
        BY <1>3, <2>2, <3>3, <4>1
      <4>3. Harmless(x, verb, bad)
        BY <4>2 DEF Harmless
      <4>4. QED
        BY <3>1, <3>3, <4>1, <4>3
    <3>4. QED
      BY <3>2, <3>3 DEF Ends, MayLeave
  <2>6. ASSUME NEW n \in job[p].given \ bad, n \notin ToSet(job[p].nodes) \ {m}
        PROVE  Goal(verb, vm'[n])
    <3>1. vm'[n] = vm[n]
      BY <1>4
    <3>2. CASE n = m
      <4>1. r = "ok"
        BY <1>3, <2>2, <2>6, <3>2
      <4>2. \/ job[p].todo = <<>>
            \/ job[p].verb \in Downs /\ ~Exists(vm[Node(p)])
        BY <4>1 DEF Ends
      <4>3. Goal(verb, vm[m])
        BY <1>1, <2>1, <2>2, <4>2, NodeReached
      <4>4. QED
        BY <3>1, <3>2, <4>3
    <3>3. CASE n # m
      <4>1. n \notin ToSet(job[p].nodes) /\ n \notin errs[p]
        BY <1>3, <2>6, <3>3
      <4>2. n \in job[p].given \ (ToSet(job[p].nodes) \cup errs[p])
        BY <2>6, <4>1
      <4>3. Goal(verb, vm[n])
        BY <2>1, <2>2, <4>2 DEF Working
      <4>4. QED
        BY <3>1, <4>3
    <3>4. QED
      BY <3>2, <3>3
  <2>7. CASE j # NoJob
    <3>1. /\ j.verb = verb /\ j.given = job[p].given /\ j.todo = Program(verb)
          /\ ToSet(j.nodes) = ToSet(job[p].nodes) \ {m}
      BY <1>3, <2>2, <2>7
    <3>2. \A n \in j.given \ (ToSet(j.nodes) \cup bad) : Goal(verb, vm'[n])
      BY <2>6, <3>1
    <3>3. ToGo(p)' = Len(Program(verb))
      BY <1>4, <3>1 DEF ToGo
    <3>4. Progress(verb, ToGo(p)', vm'[Node(p)'])
      BY <2>3, <3>3, FreshProgress
    <3>5. Working(p)'
      BY <1>4, <2>4, <2>5, <3>1, <3>2, <3>4 DEF Working
    <3>6. ~Ended(p)'
      BY <1>4, <2>7 DEF Ended
    <3>7. QED
      BY <3>5, <3>6 DEF QuietAt
  <2>8. CASE j = NoJob
    <3>1. /\ ToSet(job[p].nodes) = {m} /\ l.verb = verb /\ l.given = job[p].given
          /\ l.result = IF bad = {} THEN "ok" ELSE IF r = "ok" THEN "error" ELSE r
      BY <1>3, <2>2, <2>8
    <3>2. \A n \in l.given \ bad : Goal(verb, vm'[n])
      BY <2>6, <3>1
    <3>3. (l.result = "ok") = (bad = {})
      BY <3>1
    <3>4. Reached(p)'
      BY <1>4, <2>4, <2>5, <3>1, <3>2, <3>3 DEF Reached
    <3>5. job'[p] = NoJob
      BY <1>4, <2>8
    <3>6. QED
      BY <3>4, <3>5 DEF QuietAt
  <2>9. QED
    BY <2>7, <2>8
<1>7. QED
  BY <1>5, <1>6

LEMMA QuietServe ==
  ASSUME IInv, QuietInv, NEW p \in Ops, Serve(p), NEW q \in Ops
  PROVE  QuietAt(q)'
<1>1. call[p] = "sent" /\ Types
  BY DEF Serve, IInv
<1>2. job[p] # NoJob /\ job[p].todo # <<>> /\ Head(job[p].todo) \in Sent
  BY <1>1, InCall
<1>3. job' = job /\ last' = last /\ errs' = errs /\ quiet' = quiet /\ late' = late
      /\ call'[p] = "carried-out"
  BY <1>1 DEF Serve, Types
<1>4. CASE q # p
  BY <1>2, <1>3, <1>4, QuietOthers
<1>5. CASE q = p
  <2>1. SUFFICES ASSUME quiet[p] PROVE Working(p)'
    BY <1>2, <1>3, <1>5 DEF QuietAt, Ended
  <2>2. Working(p)
    BY <1>2, <2>1 DEF QuietInv
  <2>3. PICK verb, k, req, n : /\ verb = job[p].verb /\ k = Len(job[p].todo)
                               /\ req = Head(job[p].todo) /\ n = Node(p)
    OBVIOUS
  <2>4. /\ verb \in AllVerbs /\ n \in Nodes /\ n \in ToSet(job[p].nodes)
        /\ k \in Nat /\ k >= 1 /\ Facts(verb, k, req) /\ req \in Sent
    BY <1>2, <2>3, Here, HereStep
  <2>5. PICK x \in After(req, n) : vm' = [vm EXCEPT ![n] = x]
    BY <2>3 DEF Serve, CarryOut
  <2>6. vm'[n] = x /\ \A o \in Nodes \ {n} : vm'[o] = vm[o]
    BY <1>1, <2>4, <2>5 DEF Types
  <2>7. Progress(verb, k, vm[n])
    <3>1. ToGo(p) = k
      BY <1>1, <2>3 DEF ToGo
    <3>2. QED
      BY <2>2, <2>3, <3>1 DEF Working
  <2>8. Progress(verb, k - 1, vm'[n])
    BY <1>1, <2>4, <2>6, <2>7, ServedProgress
  <2>9. ToGo(p)' = k - 1 /\ Node(p)' = n
    BY <1>3, <2>3 DEF ToGo, Node
  <2>10. \A o \in job[p].given \ (ToSet(job[p].nodes) \cup errs[p]) : Goal(verb, vm'[o])
    <3>1. job[p].given \subseteq Nodes
      BY <1>1 DEF Types, Job
    <3>2. QED
      BY <2>2, <2>3, <2>4, <2>6, <3>1 DEF Working
  <2>11. Alone(p)' /\ \A z \in late' : Harmless(z, job'[p].verb, errs'[p])
    BY <1>3, <2>2 DEF Working, Alone
  <2>12. QED
    BY <1>3, <2>3, <2>8, <2>9, <2>10, <2>11 DEF Working
<1>6. QED
  BY <1>4, <1>5

LEMMA QuietKill ==
  ASSUME IInv, QuietInv, NEW p \in Ops, Kill(p), NEW q \in Ops
  PROVE  QuietAt(q)'
<1>1. job[p] # NoJob /\ Types
  BY DEF Kill, IInv
<1>2. /\ \A o \in Ops \ {p} : job'[o] = job[o] /\ last'[o] = last[o]
      /\ job'[p] = NoJob /\ last'[p].result = "killed" /\ quiet' = quiet
  BY <1>1 DEF Kill, Returns, Types
<1>3. CASE q # p
  BY <1>1, <1>2, <1>3, QuietOthers
<1>4. CASE q = p
  BY <1>2, <1>4 DEF QuietAt, Ended
<1>5. QED
  BY <1>3, <1>4

(* A harmless request left behind takes nothing away that was reached.      *)
LEMMA LateGoal ==
  ASSUME Types, NEW verb \in AllVerbs, NEW bad, NEW r \in Late, Harmless(r, verb, bad),
         CarryOut(r[2], r[1], r[3]), NEW n \in Nodes, n \notin bad, Goal(verb, vm[n])
  PROVE  Goal(verb, vm'[n])
<1>1. r[1] \in Nodes /\ r[2] \in Sent
  BY DEF Late
<1>2. n # r[1] => vm'[n] = vm[n]
  BY <1>1 DEF CarryOut, Types
<1>3. CASE r[1] \in bad
  BY <1>2, <1>3
<1>4. CASE verb \in NoGoal
  BY <1>4, GoalIs
<1>5. CASE verb \in Downs /\ r[2] \in {"shutdown-vm", "stop-vm"}
  <2>1. Exists(vm[r[1]])
    BY <1>1, <1>5, TakesIs DEF CarryOut
  <2>2. ~Exists(vm[n])
    BY <1>5, GoalIs
  <2>3. QED
    BY <1>2, <2>1, <2>2
<1>6. QED
  BY <1>3, <1>4, <1>5 DEF Harmless

LEMMA LateProgress ==
  ASSUME Types, NEW verb \in AllVerbs, NEW bad, NEW r \in Late, Harmless(r, verb, bad),
         CarryOut(r[2], r[1], r[3]), NEW n \in Nodes, n \notin bad, NEW m,
         Progress(verb, m, vm[n])
  PROVE  Progress(verb, m, vm'[n])
<1>1. CASE verb \in Settles
  <2>1. r[1] \in bad
    BY <1>1, VerbKinds DEF Harmless
  <2>2. vm'[n] = vm[n]
    BY <2>1 DEF CarryOut, Types, Late
  <2>3. QED
    BY <2>2
<1>2. CASE verb \notin Settles
  <2>1. SUFFICES ASSUME m = 0 PROVE Goal(verb, vm'[n])
    BY <1>2 DEF Progress
  <2>2. Goal(verb, vm[n])
    BY <1>2, <2>1 DEF Progress
  <2>3. QED
    BY <2>2, LateGoal
<1>3. QED
  BY <1>1, <1>2

LEMMA IdleGoal ==
  ASSUME NEW v
  PROVE  Goal(Idle, v)
BY DEF Goal, Idle

LEMMA LastVerb ==
  ASSUME Types, NEW q \in Ops
  PROVE  /\ last[q].verb = Idle \/ last[q].verb \in AllVerbs
         /\ last[q].given \subseteq Nodes /\ job[q].given \subseteq Nodes
BY CommandsAssumption DEF Types, LastRun, Job

LEMMA QuietLate ==
  ASSUME IInv, QuietInv, LateEffect, NEW q \in Ops
  PROVE  QuietAt(q)'
<1>1. PICK r \in late : CarryOut(r[2], r[1], r[3]) /\ late' = late \ {r} /\ UNCHANGED client
  BY DEF LateEffect
<1>2. Types /\ r \in Late
  BY DEF IInv, Types
<1>3. job' = job /\ call' = call /\ last' = last /\ errs' = errs /\ quiet' = quiet
  BY <1>1 DEF client
<1>4. ASSUME quiet[q], job[q] # NoJob PROVE Working(q)'
  <2>1. Working(q)
    BY <1>4 DEF QuietInv
  <2>2. PICK verb, bad : verb = job[q].verb /\ bad = errs[q]
    OBVIOUS
  <2>3. verb \in AllVerbs /\ Node(q) \in Nodes /\ Node(q) \notin bad
        /\ job[q].given \subseteq Nodes
    BY <1>2, <1>4, <2>2, Here, LastVerb
  <2>4. Harmless(r, verb, bad)
    BY <2>1, <2>2 DEF Working
  <2>5. \A n \in job[q].given \ (ToSet(job[q].nodes) \cup bad) : Goal(verb, vm'[n])
    <3>1. SUFFICES ASSUME NEW n \in job[q].given \ (ToSet(job[q].nodes) \cup bad)
                   PROVE  Goal(verb, vm'[n])
      OBVIOUS
    <3>2. Goal(verb, vm[n])
      BY <2>1, <2>2 DEF Working
    <3>3. QED
      BY <1>1, <1>2, <2>3, <2>4, <3>2, LateGoal
  <2>6. Progress(verb, ToGo(q), vm'[Node(q)])
    <3>1. PICK m, n : m = ToGo(q) /\ n = Node(q)
      OBVIOUS
    <3>2. Progress(verb, m, vm[n])
      BY <2>1, <2>2, <3>1 DEF Working
    <3>3. Progress(verb, m, vm'[n])
      BY <1>1, <1>2, <2>3, <2>4, <3>1, <3>2, LateProgress
    <3>4. QED
      BY <3>1, <3>3
  <2>7. ToGo(q)' = ToGo(q) /\ Node(q)' = Node(q)
    BY <1>3 DEF ToGo, Node
  <2>8. Alone(q)' /\ \A x \in late' : Harmless(x, job'[q].verb, errs'[q])
    BY <1>1, <1>3, <2>1 DEF Working, Alone
  <2>9. QED
    BY <1>3, <2>2, <2>5, <2>6, <2>7, <2>8 DEF Working
<1>5. ASSUME quiet[q], Ended(q) PROVE Reached(q)'
  <2>1. Reached(q)
    BY <1>5 DEF QuietInv
  <2>2. PICK verb, bad : verb = last[q].verb /\ bad = errs[q]
    OBVIOUS
  <2>3. \A n \in last[q].given \ bad : Goal(verb, vm'[n])
    <3>1. SUFFICES ASSUME NEW n \in last[q].given \ bad PROVE Goal(verb, vm'[n])
      OBVIOUS
    <3>2. Goal(verb, vm[n]) /\ Harmless(r, verb, bad)
      BY <2>1, <2>2 DEF Reached
    <3>3. n \in Nodes /\ n \notin bad
      BY <1>2, LastVerb
    <3>4. CASE verb = Idle
      BY <3>4, IdleGoal
    <3>5. CASE verb \in AllVerbs
      BY <1>1, <1>2, <3>2, <3>3, <3>5, LateGoal
    <3>6. QED
      BY <1>2, <2>2, <3>4, <3>5, LastVerb
  <2>4. Alone(q)' /\ \A x \in late' : Harmless(x, last'[q].verb, errs'[q])
    BY <1>1, <1>3, <2>1 DEF Reached, Alone
  <2>5. (last'[q].result = "ok") = (errs'[q] = {})
    BY <1>3, <2>1 DEF Reached
  <2>6. QED
    BY <1>3, <2>2, <2>3, <2>4, <2>5 DEF Reached
<1>6. QED
  BY <1>3, <1>4, <1>5 DEF QuietAt, Ended

(* Nor does the installer.                                                 *)
LEMMA InstalledGoal ==
  ASSUME NEW v \in VM, CanInstall(v), NEW verb \in AllVerbs \cup {Idle}, NEW m,
         NEW w, w = [v EXCEPT !.disk = "installed"]
  PROVE  /\ Goal(verb, v) => Goal(verb, w)
         /\ Progress(verb, m, v) => Progress(verb, m, w)
<1>1. /\ w.on = v.on /\ w.ide3 = v.ide3 /\ w.ide2 = v.ide2 /\ w.boot = v.boot
      /\ w.by = v.by /\ w.disk = "installed" /\ v.on /\ v.disk = "blank"
  BY DEF VM, CanInstall
<1>2. Goal(verb, v) => Goal(verb, w)
  <2>1. CASE verb = Idle
    BY <2>1, IdleGoal
  <2>2. CASE verb \in AllVerbs
    <3>1. Exists(w) = Exists(v) /\ (Finalized(v) => Finalized(w))
      BY <1>1 DEF Exists, Finalized, SSHUp
    <3>2. /\ verb \in Settles => Goal(verb, v) = Finalized(v) /\ Goal(verb, w) = Finalized(w)
          /\ verb \in Downs \cup {"delete"}
                => Goal(verb, v) = ~Exists(v) /\ Goal(verb, w) = ~Exists(w)
          /\ verb \in {"start", "reboot"} => Goal(verb, v) = v.on /\ Goal(verb, w) = w.on
          /\ verb \in {"stop", "stop-force"}
                => Goal(verb, v) = ~v.on /\ Goal(verb, w) = ~w.on
          /\ verb = "eject-iso" => Goal(verb, v) = ~v.ide3 /\ Goal(verb, w) = ~w.ide3
          /\ verb \in NoGoal => Goal(verb, v) /\ Goal(verb, w)
      BY <2>2, GoalIs
    <3>3. verb = "configure-first-boot" =>
             /\ Goal(verb, v) = (v.ide3 /\ v.boot = "iso-first")
             /\ Goal(verb, w) = (w.ide3 /\ w.boot = "iso-first")
      BY <2>2, GoalIs
    <3>4. CASE verb \in Settles
      BY <3>1, <3>2, <3>4
    <3>5. CASE verb \in Downs \cup {"delete"}
      BY <3>1, <3>2, <3>5
    <3>6. CASE verb \in {"start", "reboot", "stop", "stop-force", "eject-iso"} \cup NoGoal
      BY <1>1, <3>2, <3>6
    <3>7. CASE verb = "configure-first-boot"
      BY <1>1, <3>3, <3>7
    <3>8. QED
      BY <2>2, <3>4, <3>5, <3>6, <3>7, VerbKinds
  <2>3. QED
    BY <2>1, <2>2
<1>3. Progress(verb, m, v) => Progress(verb, m, w)
  BY <1>1, <1>2 DEF Progress, SSHUp
<1>4. QED
  BY <1>2, <1>3

LEMMA QuietGuestInstalls ==
  ASSUME IInv, QuietInv, NEW g \in Nodes, GuestInstalls(g), NEW q \in Ops
  PROVE  QuietAt(q)'
<1>1. Types /\ vm[g] \in VM
  BY MachineIs DEF IInv, Types
<1>2. job' = job /\ call' = call /\ last' = last /\ errs' = errs /\ quiet' = quiet
      /\ late' = late
  BY DEF GuestInstalls, client
<1>3. ASSUME NEW verb \in AllVerbs \cup {Idle}, NEW n \in Nodes, NEW m
      PROVE  /\ Goal(verb, vm[n]) => Goal(verb, vm'[n])
             /\ Progress(verb, m, vm[n]) => Progress(verb, m, vm'[n])
  <2>1. CASE n = g
    <3>1. CanInstall(vm[g]) /\ vm'[g] = [vm[g] EXCEPT !.disk = "installed"]
      BY <1>1 DEF GuestInstalls, Types
    <3>2. QED
      BY <1>1, <2>1, <3>1, InstalledGoal
  <2>2. CASE n # g
    <3>1. vm'[n] = vm[n]
      BY <1>1, <2>2 DEF GuestInstalls, Types
    <3>2. QED
      BY <3>1
  <2>3. QED
    BY <2>1, <2>2
<1>4. ASSUME quiet[q], job[q] # NoJob PROVE Working(q)'
  <2>1. Working(q)
    BY <1>4 DEF QuietInv
  <2>2. PICK verb, m, n : verb = job[q].verb /\ m = ToGo(q) /\ n = Node(q)
    OBVIOUS
  <2>3. verb \in AllVerbs /\ n \in Nodes /\ job[q].given \subseteq Nodes
    BY <1>1, <1>4, <2>2, Here, LastVerb
  <2>4. Progress(verb, m, vm'[n])
    BY <1>3, <2>1, <2>2, <2>3 DEF Working
  <2>5. \A o \in job[q].given \ (ToSet(job[q].nodes) \cup errs[q]) : Goal(verb, vm'[o])
    BY <1>3, <2>1, <2>2, <2>3 DEF Working
  <2>6. ToGo(q)' = ToGo(q) /\ Node(q)' = Node(q)
    BY <1>2 DEF ToGo, Node
  <2>7. Alone(q)' /\ \A x \in late' : Harmless(x, job'[q].verb, errs'[q])
    BY <1>2, <2>1 DEF Working, Alone
  <2>8. QED
    BY <1>2, <2>2, <2>4, <2>5, <2>6, <2>7 DEF Working
<1>5. ASSUME quiet[q], Ended(q) PROVE Reached(q)'
  <2>1. Reached(q)
    BY <1>5 DEF QuietInv
  <2>2. \A n \in last[q].given \ errs[q] : Goal(last[q].verb, vm'[n])
    BY <1>1, <1>3, <2>1, LastVerb DEF Reached
  <2>3. QED
    BY <1>2, <2>1, <2>2 DEF Reached, Alone
<1>6. QED
  BY <1>2, <1>4, <1>5 DEF QuietAt, Ended

LEMMA QuietGuestReboots ==
  ASSUME NEW g \in Nodes, GuestReboots(g), NEW q \in Ops
  PROVE  QuietAt(q)'
<1>1. ~quiet'[q]
  BY DEF GuestReboots
<1>2. QED
  BY <1>1 DEF QuietAt

LEMMA QuietStep == IInv /\ QuietInv /\ [Next]_vars => QuietInv'
<1> SUFFICES ASSUME IInv, QuietInv, [Next]_vars PROVE QuietInv'
  OBVIOUS
<1>1. SUFFICES ASSUME NEW q \in Ops PROVE QuietAt(q)'
  BY DEF QuietInv, QuietAt
<1>2. CASE UNCHANGED vars
  <2>1. job' = job /\ call' = call /\ last' = last /\ errs' = errs /\ quiet' = quiet
        /\ late' = late /\ vm' = vm
    BY <1>2 DEF vars, client, server
  <2>2. QED
    BY <2>1 DEF QuietAt, QuietInv, Working, Reached, Alone, Ended, ToGo, Node
<1>3. ASSUME NEW p \in Ops,
             \/ Run(p) \/ NeedsNode(p) \/ Send(p) \/ Passes(p)
             \/ \E r \in EndResult : Ends(p, r)
             \/ Serve(p) \/ Kill(p)
      PROVE  QuietAt(q)'
  BY <1>3, QuietBegin, QuietNeedsNode, QuietSend, QuietPasses, QuietEnds, QuietServe, QuietKill
<1>4. CASE LateEffect
  BY <1>4, QuietLate
<1>5. CASE \E n \in Nodes : GuestInstalls(n) \/ GuestReboots(n)
  BY <1>5, QuietGuestInstalls, QuietGuestReboots
<1>6. QED
  BY <1>2, <1>3, <1>4, <1>5, Steps

(* A command that nothing disturbed and that returned has reached its goal  *)
(* on every node it reports no error for, and it reports success exactly    *)
(* when no node failed: for every number of operators and nodes, every set  *)
(* of commands and whatever state earlier commands left behind.            *)
THEOREM ReachesGoal == Spec => []GoalReached
<1>1. Init => QuietInv
  BY DEF Init, QuietInv
<1>2. QuietInv => GoalReached
  BY DEF QuietInv, Ended, Reached, GoalReached
<1>3. QED
  BY <1>1, <1>2, QuietStep, Invariance, PTL DEF Spec

-----------------------------------------------------------------------------
(* Finalize closes the install loop.                                       *)

(* The commands that may put a machine back before Finalize, and requests. *)
Undoing == TearDown \cup Rearming
Undone  == tornDown \/ rearmed
Undoes  == {"delete-vm", "rollback", "put-first-boot", "set-boot-order"}

(* An `up` or a `create` past the check that its machine is not there.     *)
SetsUp(p) == job[p].verb \in Ups /\ ~At(p, "check-free")

(* The guest boots from its disk and nothing under way changes that.       *)
Settled(n) ==
    /\ Exists(vm[n]) /\ vm[n].disk = "installed" /\ vm[n].boot = "disk"
    /\ \A p \in Ops : job[p].verb \notin Undoing /\ (SetsUp(p) => Node(p) # n)
    /\ \A r \in late : r[1] = n => r[2] \notin Undoes

LEMMA ChecksFirst ==
  ASSUME NEW verb \in Ups
  PROVE  Program(verb) # <<>> /\ Head(Program(verb)) = "check-free"
<1>1. PICK L : L = Program(verb)
  OBVIOUS
<1>2. L \in Seq(StepNames) /\ Len(L) > 0 /\ L[1] = "check-free"
  BY <1>1, UpProgram, BuildProgram DEF Ups
<1>3. QED
  BY <1>1, <1>2

LEMMA IdleNotUp == NoJob.verb \notin Ups /\ NoJob.verb \notin Undoing
BY DEF NoJob, Idle, Ups, Undoing, TearDown, Rearming

(* What a command may ask for of a settled machine.                        *)
LEMMA Asked ==
  ASSUME IInv, NEW n \in Nodes, Settled(n),
         NEW p \in Ops, call[p] # "none", Node(p) = n
  PROVE  Head(job[p].todo) \notin Undoes
<1>1. job[p] # NoJob /\ job[p].todo # <<>> /\ Head(job[p].todo) \in Sent
  BY InCall
<1>2. PICK k, s, v : k = Len(job[p].todo) /\ s = Head(job[p].todo) /\ v = job[p].verb
  OBVIOUS
<1>3. Kinds(v, k, s) /\ v \in Verbs
  BY <1>1, <1>2, HereStep, Here DEF Facts
<1>4. v \notin Undoing
  BY <1>2 DEF Settled
<1>5. s \notin {"delete-vm", "rollback", "put-first-boot"}
  BY <1>3, <1>4 DEF Kinds, Undoing, Rearming
<1>6. s # "set-boot-order"
  <2>1. SUFFICES ASSUME s = "set-boot-order" PROVE FALSE
    OBVIOUS
  <2>2. v \in Ups
    BY <1>3, <2>1 DEF Kinds
  <2>3. ~At(p, "check-free")
    BY <1>2, <2>1 DEF At
  <2>4. QED
    BY <1>2, <2>2, <2>3 DEF Settled, SetsUp
<1>7. QED
  BY <1>2, <1>5, <1>6 DEF Undoes

(* What such a request makes of it.                                        *)
LEMMA SettledAfter ==
  ASSUME Types, NEW n \in Nodes, NEW req \in Sent \ Undoes, Takes(req, n),
         Exists(vm[n]), vm[n].disk = "installed", vm[n].boot = "disk",
         NEW w \in After(req, n)
  PROVE  Exists(w) /\ w.disk = "installed" /\ w.boot = "disk"
<1>1. PICK v : v = vm[n]
  OBVIOUS
<1>2. v \in VM /\ v.disk = "installed" /\ v.boot = "disk"
  BY <1>1, MachineIs DEF Types
<1>3. Exists(w)
  BY AfterType DEF Undoes
<1>4. Outcome(req, v, snap[n], w) /\ req # "create-vm"
  BY <1>1, AfterIs, TakesIs
<1>5. /\ \A x \in Boots(v) : x.disk = v.disk /\ x.boot = v.boot
      /\ \A x \in {v, Ejected(v, "ide2"), Ejected(v, "ide3"), WithKickstart(v),
                   BootFrom(v, "disk"), Power(v, FALSE)} :
            x.disk = v.disk /\ x.boot = "disk"
  BY <1>2 DEF Boots, TriesMedia, Power, Ejected, WithKickstart, BootFrom, VM
<1>6. w \in Boots(v) \cup {v, Ejected(v, "ide2"), Ejected(v, "ide3"), WithKickstart(v),
                           BootFrom(v, "disk"), Power(v, FALSE)}
  BY <1>4, SentKinds DEF Outcome, Undoes
<1>7. QED
  BY <1>2, <1>3, <1>5, <1>6

LEMMA SettledCarried ==
  ASSUME Types, NEW n \in Nodes, Settled(n), NEW m \in Nodes, NEW req \in Sent, NEW p,
         CarryOut(req, m, p), m = n => req \notin Undoes
  PROVE  Exists(vm'[n]) /\ vm'[n].disk = "installed" /\ vm'[n].boot = "disk"
<1>1. vm \in [Nodes -> Machine]
  BY DEF Types
<1>2. PICK w \in After(req, m) : vm' = [vm EXCEPT ![m] = w]
  BY DEF CarryOut
<1>3. CASE m = n
  <2>1. Takes(req, n) /\ w \in After(req, n) /\ vm'[n] = w /\ req \notin Undoes
    BY <1>1, <1>2, <1>3 DEF CarryOut
  <2>2. QED
    BY <2>1, SettledAfter DEF Settled
<1>4. CASE m # n
  BY <1>1, <1>2, <1>4 DEF Settled
<1>5. QED
  BY <1>3, <1>4

(* A step of operator p that changes no machine.                           *)
LEMMA SettledFrame ==
  ASSUME IInv, NEW n \in Nodes, Settled(n), NEW p \in Ops,
         vm' = vm, MayLeave(p),
         \A q \in Ops \ {p} : job'[q] = job[q],
         job'[p].verb \notin Undoing, SetsUp(p)' => Node(p)' # n
  PROVE  Settled(n)'
<1>1. \A q \in Ops : job'[q].verb \notin Undoing /\ (SetsUp(q)' => Node(q)' # n)
  BY DEF Settled, SetsUp, At, Node
<1>2. \A r \in late' : r[1] = n => r[2] \notin Undoes
  <2>1. CASE late' = late
    BY <2>1 DEF Settled
  <2>2. CASE call[p] = "sent" /\ late' = late \cup {<<Node(p), Head(job[p].todo), p>>}
    <3>1. Node(p) = n => Head(job[p].todo) \notin Undoes
      BY <2>2, Asked
    <3>2. QED
      BY <2>2, <3>1 DEF Settled
  <2>3. QED
    BY <2>1, <2>2 DEF MayLeave
<1>3. QED
  BY <1>1, <1>2 DEF Settled

LEMMA SettledClient ==
  ASSUME IInv, NEW n \in Nodes, Settled(n), NEW p \in Ops, ~Undone',
         \/ Run(p) \/ NeedsNode(p) \/ Send(p) \/ Passes(p) \/ Kill(p)
         \/ \E r \in EndResult : Ends(p, r)
  PROVE  Settled(n)'
<1>0. Types /\ job \in [Ops -> Job]
  BY DEF IInv, Types
<1>1. MayLeave(p) /\ vm' = vm
  BY DEF Run, Begin, NeedsNode, Send, Passes, Kill, Behind, Ends, MayLeave, server
<1>2. job[p].verb \notin Undoing /\ (SetsUp(p) => Node(p) # n)
  BY DEF Settled
<1>3. CASE NeedsNode(p) \/ Send(p)
  <2>1. job' = job
    BY <1>3 DEF NeedsNode, Send
  <2>2. job'[p].verb \notin Undoing /\ (SetsUp(p)' => Node(p)' # n)
    BY <1>2, <2>1 DEF SetsUp, At, Node
  <2>3. QED
    BY <1>1, <2>1, <2>2, SettledFrame
<1>4. CASE Kill(p)
  <2>1. job' = [job EXCEPT ![p] = NoJob]
    BY <1>4 DEF Kill
  <2>2. job'[p] = NoJob /\ \A q \in Ops \ {p} : job'[q] = job[q]
    BY <1>0, <2>1
  <2>3. ~SetsUp(p)' /\ job'[p].verb \notin Undoing
    BY <2>2, IdleNotUp DEF SetsUp
  <2>4. QED
    BY <1>1, <2>2, <2>3, SettledFrame
<1>5. CASE Run(p)
  <2>1. PICK verb \in Verbs : \E nodes \in Targets(verb) : Begin(p, verb, nodes)
    BY <1>5 DEF Run
  <2>2. /\ job'[p].verb = verb /\ job'[p].todo = Program(verb)
        /\ \A q \in Ops \ {p} : job'[q] = job[q]
    BY <1>0, <2>1 DEF Begin
  <2>3. ~SetsUp(p)'
    BY <2>2, ChecksFirst DEF SetsUp, At
  <2>4. verb \notin Undoing
    BY <2>1 DEF Begin, Undone, Undoing
  <2>5. QED
    BY <1>1, <2>2, <2>3, <2>4, SettledFrame
<1>6. CASE \E r \in EndResult : Ends(p, r)
  <2>1. PICK r \in EndResult : Ends(p, r)
    BY <1>6
  <2>2. job[p] # NoJob /\ NodeDone(p, r)
    BY <2>1 DEF Ends
  <2>3. PICK j \in Job : /\ job' = [job EXCEPT ![p] = j]
                         /\ \/ j = NoJob
                            \/ j.verb = job[p].verb /\ j.todo = Program(j.verb)
    <3>1. PICK e \in SUBSET Nodes, j \in Job, l \in LastRun : DoneTo(p, r, e, j, l)
      BY <2>2, DoneEffect
    <3>2. QED
      BY <3>1 DEF DoneTo
  <2>4. job'[p] = j /\ \A q \in Ops \ {p} : job'[q] = job[q]
    BY <1>0, <2>3
  <2>5. ~SetsUp(p)' /\ job'[p].verb \notin Undoing
    BY <1>2, <2>3, <2>4, IdleNotUp, ChecksFirst DEF SetsUp, At
  <2>6. QED
    BY <1>1, <2>4, <2>5, SettledFrame
<1>7. CASE Passes(p)
  <2>1. job[p] # NoJob /\ job[p].todo # <<>>
    BY <1>7 DEF Passes
  <2>2. PICK j \in Job : /\ job' = [job EXCEPT ![p] = j] /\ j.verb = job[p].verb
                         /\ j.nodes = job[p].nodes /\ j.todo = Tail(job[p].todo)
    BY <1>7, <2>1, StepDoneIs DEF Passes
  <2>3. job'[p] = j /\ \A q \in Ops \ {p} : job'[q] = job[q]
    BY <1>0, <2>2
  <2>4. Node(p)' = Node(p)
    BY <2>2, <2>3 DEF Node
  <2>5. SetsUp(p)' => Node(p)' # n
    <3>1. CASE At(p, "check-free")
      <4>1. call[p] = "none"
        BY <3>1, AtStep, SentApart DEF Check
      <4>2. ~Exists(vm[Node(p)])
        BY <1>7, <3>1, <4>1 DEF Passes, At
      <4>3. QED
        BY <2>4, <4>2 DEF Settled
    <3>2. CASE ~At(p, "check-free")
      <4>1. SetsUp(p)' => SetsUp(p)
        BY <2>2, <2>3, <3>2 DEF SetsUp
      <4>2. QED
        BY <1>2, <2>4, <4>1
    <3>3. QED
      BY <3>1, <3>2
  <2>6. job'[p].verb \notin Undoing
    BY <1>2, <2>2, <2>3
  <2>7. QED
    BY <1>1, <2>3, <2>5, <2>6, SettledFrame
<1>8. QED
  BY <1>3, <1>4, <1>5, <1>6, <1>7

(* A settled machine stays settled until an undoing command begins, and    *)
(* that one has begun is never forgotten.                                  *)
LEMMA UndoneStays == IInv /\ Undone /\ [Next]_vars => Undone'
<1> SUFFICES ASSUME IInv, Undone, [Next]_vars, ~UNCHANGED vars PROVE Undone'
  BY DEF vars, client, Undone
<1>1. ASSUME NEW p \in Ops, Run(p) PROVE Undone'
  BY <1>1 DEF Run, Begin, Undone
<1>2. CASE UNCHANGED <<tornDown, rearmed>>
  BY <1>2 DEF Undone
<1>3. CASE \A p \in Ops : ~Run(p)
  <2>1. UNCHANGED <<tornDown, rearmed>>
    BY <1>3, Steps DEF NeedsNode, Send, Passes, Ends, Kill, Serve, LateEffect, GuestInstalls,
                       GuestReboots, client
  <2>2. QED
    BY <1>2, <2>1
<1>4. QED
  BY <1>1, <1>3

LEMMA StaysSettled ==
  ASSUME NEW n \in Nodes
  PROVE  IInv /\ Settled(n) /\ [Next]_vars => Undone' \/ Settled(n)'
<1> SUFFICES ASSUME IInv, Settled(n), [Next]_vars, ~Undone' PROVE Settled(n)'
  OBVIOUS
<1>0. Types /\ vm \in [Nodes -> Machine]
  BY DEF IInv, Types
<1>1. ASSUME job' = job, \A r \in late' : r \in late,
             Exists(vm'[n]), vm'[n].disk = "installed", vm'[n].boot = "disk"
      PROVE  Settled(n)'
  BY <1>1 DEF Settled, SetsUp, At, Node
<1>2. CASE UNCHANGED vars
  BY <1>1, <1>2 DEF vars, client, server, Settled
<1>3. CASE \E p \in Ops : \/ Run(p) \/ NeedsNode(p) \/ Send(p) \/ Passes(p) \/ Kill(p)
                          \/ \E r \in EndResult : Ends(p, r)
  BY <1>3, SettledClient
<1>4. ASSUME NEW p \in Ops, Serve(p)
      PROVE  Settled(n)'
  <2>1. /\ Node(p) \in Nodes /\ Head(job[p].todo) \in Sent /\ call[p] # "none"
        /\ CarryOut(Head(job[p].todo), Node(p), p) /\ job' = job /\ late' = late
    BY <1>4, InCall, Here DEF Serve
  <2>2. Node(p) = n => Head(job[p].todo) \notin Undoes
    BY <2>1, Asked
  <2>3. Exists(vm'[n]) /\ vm'[n].disk = "installed" /\ vm'[n].boot = "disk"
    BY <1>0, <2>1, <2>2, SettledCarried
  <2>4. QED
    BY <1>1, <2>1, <2>3
<1>5. CASE LateEffect
  <2>1. PICK r \in late : /\ CarryOut(r[2], r[1], r[3]) /\ late' = late \ {r}
                          /\ UNCHANGED client
    BY <1>5 DEF LateEffect
  <2>2. r[1] \in Nodes /\ r[2] \in Sent /\ (r[1] = n => r[2] \notin Undoes)
    BY <1>0 DEF Types, Late, Settled
  <2>3. Exists(vm'[n]) /\ vm'[n].disk = "installed" /\ vm'[n].boot = "disk"
    BY <1>0, <2>1, <2>2, SettledCarried
  <2>4. job' = job /\ \A q \in late' : q \in late
    BY <2>1 DEF client
  <2>5. QED
    BY <1>1, <2>3, <2>4
<1>6. ASSUME NEW g \in Nodes, GuestInstalls(g) \/ GuestReboots(g)
      PROVE  Settled(n)'
  <2>1. job' = job /\ late' = late
    BY <1>6 DEF GuestInstalls, GuestReboots, client
  <2>2. PICK v : v = vm[n]
    OBVIOUS
  <2>3. v \in VM /\ Exists(v) /\ v.disk = "installed" /\ v.boot = "disk"
    BY <1>0, <2>2, MachineIs DEF Settled
  <2>4. vm'[n] = v
    <3>1. CASE g # n
      BY <1>0, <1>6, <2>2, <3>1 DEF GuestInstalls, GuestReboots
    <3>2. CASE g = n
      <4>1. v.on /\ \E w \in Boots(v) : w # v
        BY <1>6, <2>2, <2>3, <3>2 DEF GuestInstalls, CanInstall, GuestReboots, SSHUp
      <4>2. \A w \in Boots(v) : w.disk = v.disk
        BY <2>3 DEF Boots, TriesMedia
      <4>3. \A w \in Boots(v) : w = v
        BY <2>3, <4>1, <4>2 DEF Boots, Power, VM
      <4>4. QED
        BY <4>1, <4>3
    <3>3. QED
      BY <3>1, <3>2
  <2>5. QED
    BY <1>1, <2>1, <2>2, <2>3, <2>4
<1>7. QED
  BY <1>2, <1>3, <1>4, <1>5, <1>6, Steps

(* What an undisturbed `up` or `finalize` is done with is settled.         *)
LEMMA CompletedSettled ==
  ASSUME NEW n \in Nodes
  PROVE  IInv /\ QuietInv /\ Completed(n) => Settled(n)
<1> SUFFICES ASSUME IInv, QuietInv, Completed(n) PROVE Settled(n)
  OBVIOUS
<1>1. PICK p \in Ops : /\ quiet[p] /\ Ended(p) /\ last[p].verb \in Settles
                       /\ n \in last[p].given \ errs[p]
  BY DEF Completed, Ended, Settles
<1>2. Reached(p) /\ job[p] = NoJob
  BY <1>1 DEF QuietInv, Ended
<1>3. Finalized(vm[n])
  <2>1. last[p].verb \in AllVerbs
    BY <1>1 DEF Settles, AllVerbs, Workflow
  <2>2. Goal(last[p].verb, vm[n])
    BY <1>1, <1>2 DEF Reached
  <2>3. QED
    BY <1>1, <2>1, <2>2, GoalIs
<1>4. \A q \in Ops : job[q].verb \notin Undoing /\ ~SetsUp(q)
  <2>1. \A q \in Ops : job[q] = NoJob
    BY <1>2 DEF Reached, Alone
  <2>2. QED
    BY <2>1, IdleNotUp DEF SetsUp
<1>5. \A r \in late : r[1] # n
  <2>1. \A r \in late : Harmless(r, last[p].verb, errs[p])
    BY <1>2 DEF Reached
  <2>2. last[p].verb \notin NoGoal /\ last[p].verb \notin Downs
    BY <1>1 DEF Settles, NoGoal, Snapshots, Downs
  <2>3. \A r \in late : r[1] \in errs[p]
    BY <2>1, <2>2 DEF Harmless
  <2>4. QED
    BY <1>1, <2>3
<1>6. QED
  BY <1>3, <1>4, <1>5 DEF Settled, Finalized, SSHUp, Exists

(* Once an undisturbed `up` or `finalize` has reported a node done, its     *)
(* guest stays installed and no boot gets to an installer again, whatever  *)
(* other commands do, until one begins that deletes machines, restores     *)
(* snapshots or puts an ISO first.                                         *)
THEOREM NeverReinstalled == Spec => InstalledStays
<1>1. Init => QuietInv
  BY DEF Init, QuietInv
<1>2. ASSUME NEW n \in Nodes
      PROVE  Spec => [](Completed(n) =>
                        [](tornDown \/ rearmed
                           \/ (vm[n].disk = "installed" /\ ~TriesMedia(vm[n]))))
  <2>1. IInv /\ (Undone \/ Settled(n)) /\ [Next]_vars => (Undone \/ Settled(n))'
    <3>1. (Undone \/ Settled(n))' <=> Undone' \/ Settled(n)'
      OBVIOUS
    <3>2. QED
      BY <3>1, StaysSettled, UndoneStays
  <2>2. IInv /\ QuietInv /\ Completed(n) => Undone \/ Settled(n)
    BY CompletedSettled
  <2>3. Undone \/ Settled(n)
        => tornDown \/ rearmed \/ (vm[n].disk = "installed" /\ ~TriesMedia(vm[n]))
    BY DEF Undone, Settled, TriesMedia
  <2>4. QED
    BY <1>1, <2>1, <2>2, <2>3, QuietStep, Invariance, PTL DEF Spec
<1>3. QED
  BY <1>2 DEF InstalledStays
=============================================================================
