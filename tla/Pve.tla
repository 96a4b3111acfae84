-------------------------------- MODULE Pve --------------------------------
(***************************************************************************)
(* The vocabulary shared by the workflow modules: the VM as the hypervisor *)
(* keeps it, the requests pkg/proxmox sends, what each does to the VM, and *)
(* the change list of pkg/workflow.  There is no state here.               *)
(*                                                                         *)
(* The hypervisor is external: Accepts and Effect say what the code of     *)
(* src/pkg/proxmox expects each endpoint to do.                            *)
(***************************************************************************)
EXTENDS Naturals, Sequences

(* The two storage volumes of a node: proxctl-<node>.iso, the name Apply   *)
(* uploads under, and <node>_kickstart.iso, the name it verifies and       *)
(* attaches.                                                               *)
Volume == {"proxctl", "kickstart"}
UploadedAs == "proxctl"
AttachedAs == "kickstart"

(* A virtual machine.  "by" is who created the machine that holds this     *)
(* VMID; "disk" tells an empty root disk from one with an installed guest; *)
(* boot "install" is scsi0;ide3;ide2, "disk" is scsi0 and "iso-first" is   *)
(* ide3;scsi0.                                                             *)
VM == [by   : {"nobody", "proxctl", "other"},
       on   : BOOLEAN,
       ide2 : BOOLEAN,
       ide3 : BOOLEAN,
       boot : {"default", "install", "disk", "iso-first"},
       disk : {"blank", "installed"}]

NoVM == [by |-> "nobody", on |-> FALSE, ide2 |-> FALSE, ide3 |-> FALSE,
         boot |-> "default", disk |-> "blank"]

OthersVM == [NoVM EXCEPT !.by = "other", !.on = TRUE, !.disk = "installed"]

Exists(v) == v.by # "nobody"

(* The guest answers on its SSH port once it is installed and powered on.  *)
SSHUp(v) == v.on /\ v.disk = "installed"

(* What Finalize leaves: a guest that is up, no ISO, boot from the disk.    *)
Finalized(v) ==
    /\ v.by = "proxctl" /\ SSHUp(v)
    /\ ~v.ide2 /\ ~v.ide3 /\ v.boot = "disk"

(* The installer can run: power is on and there is an ISO to boot from.    *)
CanInstall(v) == v.on /\ v.disk = "blank" /\ (v.ide2 \/ v.ide3)

-----------------------------------------------------------------------------
(* Steps of Apply and Finalize.  attach-kickstart-iso is one change in the *)
(* code and two requests: attach-cdrom, then set-boot-order.               *)
LocalStep    == {"render-kickstart", "build-iso"}
VMRequest    == {"create-vm", "attach-cdrom", "set-boot-order", "start-vm",
                 "eject-ide3", "eject-ide2", "boot-from-disk",
                 "shutdown-vm", "stop-vm", "delete-vm"}
Request      == VMRequest \cup {"upload-iso", "verify-kickstart-iso"}
Step         == LocalStep \cup Request \cup {"wait-ssh"}

(* SingleVMWorkflow.Plan: the change list, in order.                       *)
KickstartSteps(o) ==
    IF o.skipKickstart
    THEN IF o.kickstartStorage THEN <<"verify-kickstart-iso">> ELSE <<>>
    ELSE <<"render-kickstart", "build-iso">>
           \o (IF o.kickstartStorage THEN <<"upload-iso">> ELSE <<>>)

AttachSteps(o) ==
    IF o.kickstartStorage THEN <<"attach-cdrom", "set-boot-order">> ELSE <<>>

(* Mutant: the machine is started before its kickstart ISO is attached.    *)
ApplyStepsStartFirst(o) ==
    KickstartSteps(o) \o <<"create-vm", "start-vm">> \o AttachSteps(o)

ApplySteps(o) ==
    KickstartSteps(o) \o <<"create-vm">> \o AttachSteps(o) \o <<"start-vm">>

(* Mutant: Finalize does not wait for the guest.                           *)
FinalizeStepsNoWait == <<"eject-ide3", "eject-ide2", "boot-from-disk">>

(* SingleVMWorkflow.Finalize: wait for SSH, then FinalizeSingle's calls.   *)
FinalizeSteps == <<"wait-ssh", "eject-ide3", "eject-ide2", "boot-from-disk">>

-----------------------------------------------------------------------------
(* What the hypervisor does with a request.                                *)

(* The least a request needs to be carried out on machine v with the       *)
(* node's volumes vs; the hypervisor may refuse any request besides.       *)
Accepts(req, v, vs) ==
    CASE req = "create-vm"            -> ~Exists(v)
      [] req = "start-vm"             -> Exists(v) /\ ~v.on
      [] req = "delete-vm"            -> Exists(v) /\ ~v.on
      [] req = "verify-kickstart-iso" -> AttachedAs \in vs
      [] req = "upload-iso"           -> TRUE
      [] OTHER                        -> Exists(v)

(* The machine buildCreateOpts asks for: the install ISO in ide2, powered  *)
(* off, and no boot order, so the disk comes first.                        *)
Created == [NoVM EXCEPT !.by = "proxctl", !.ide2 = TRUE]

WithKickstart(v)    == [v EXCEPT !.ide3 = TRUE]
Ejected(v, slot)    == [v EXCEPT ![slot] = FALSE]
BootFrom(v, order)  == [v EXCEPT !.boot = order]
Power(v, on)        == [v EXCEPT !.on = on]

(* The machine after the request.                                          *)
Effect(req, v) ==
    CASE req = "create-vm"      -> Created
      [] req = "attach-cdrom"   -> WithKickstart(v)
      [] req = "set-boot-order" -> BootFrom(v, "install")
      [] req = "start-vm"       -> Power(v, TRUE)
      [] req = "eject-ide3"     -> Ejected(v, "ide3")
      [] req = "eject-ide2"     -> Ejected(v, "ide2")
      [] req = "boot-from-disk" -> BootFrom(v, "disk")
      [] req \in {"shutdown-vm", "stop-vm"} -> Power(v, FALSE)
      [] req = "delete-vm"      -> NoVM
      [] OTHER                  -> v

(* The node's volumes after the request.                                   *)
Stored(req, vs) == IF req = "upload-iso" THEN vs \cup {UploadedAs} ELSE vs
=============================================================================
