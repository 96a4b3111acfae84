---------------------------- MODULE Validators ----------------------------
(***************************************************************************)
(* Validate (src/pkg/config/validators.go), the last step of Load: the     *)
(* struct tags, then five rules across the manifest, each a loop over the  *)
(* nodes in the order of a Go map that ends at the first violation, with   *)
(* the errors of all five joined.  What buildCreateOpts of                 *)
(* src/pkg/workflow/single_vm.go and CreateVM of src/pkg/proxmox/vm.go     *)
(* make of the disks of a manifest that passes is Form.                    *)
(***************************************************************************)
EXTENDS Integers, Sequences

CONSTANTS Names,     \* node names
          Words,     \* MACs, zones, addresses, classes, storages and tags
          Manifests  \* the manifests to consider

None == ""           \* an optional string that is not there

(* A Disk names a storage, a class of the catalogue, both or neither, and  *)
(* k for the interface scsi<k>, or Default.  A NIC's address is a CIDR:    *)
(* the host's address, None if the NIC has no address, and its prefix.     *)
Default == -1
Text == Words \cup {None}
NIC  == [mac : Text \cup {"auto"}, network : Text, address : [ip : Text, prefix : Nat],
         usage : {"public", "private", "vip", "scan", "management"}]
Disk == [interface : 0..9 \cup {Default}, class : Text, storage : Text, tag : Text]
Node == [vmid : Nat, nics : Seq(NIC), disks : Seq(Disk)]

(* cluster is the type that the RAC rule looks at, or any other, or none;  *)
(* additional is linux.disk_layout.additional, empty where there is none.  *)
IsManifest(m) ==
    /\ m.malformed \in BOOLEAN
    /\ DOMAIN m.nodes \subseteq Names
    /\ \A n \in DOMAIN m.nodes : m.nodes[n] \in Node
    /\ m.zones \subseteq Words /\ m.classes \subseteq Words
    /\ m.cluster \in {"oracle-rac", "other"} /\ m.scanIPs \in Nat
    /\ m.additional \in Seq(Text)

ASSUME ManifestAssumption == \A m \in Manifests : IsManifest(m)
ASSUME WordsAssumption == None \notin Words /\ "auto" \notin Words

VARIABLES
    manifest,   \* the manifest under validation
    rule,       \* the rule being checked
    left,       \* nodes its loop has not visited
    vmIDs, macs, ipByZone, tags,  \* the maps the rules fill
    errs,       \* rules that returned an error
    ret         \* what Validate returned

maps == <<vmIDs, macs, ipByZone, tags>>
vars == <<manifest, rule, left, maps, errs, ret>>

Rules == {"uniqueness", "rac", "nics", "disks", "tags"}
After == [struct |-> "uniqueness", uniqueness |-> "rac", rac |-> "nics",
          nics |-> "disks", disks |-> "tags", tags |-> "join"]

AllNodes == DOMAIN manifest.nodes
NICs(n)  == manifest.nodes[n].nics
Disks(n) == manifest.nodes[n].disks

TypeOK ==
    /\ IsManifest(manifest)
    /\ rule \in Rules \cup {"struct", "join"}
    /\ left \in SUBSET AllNodes
    /\ vmIDs \in SUBSET Nat
    /\ macs \in SUBSET Words
    /\ ipByZone \in SUBSET (Words \X Words)
    /\ tags \in SUBSET Words
    /\ errs \in SUBSET (Rules \ {rule})
    /\ ret \in {"running", "ok", "error"}

Init ==
    /\ manifest \in Manifests
    /\ rule = "struct"
    /\ left = {}
    /\ vmIDs = {} /\ macs = {} /\ ipByZone = {} /\ tags = {}
    /\ errs = {}
    /\ ret = "running"

-----------------------------------------------------------------------------
(* Mutant: an error is noted and the rule goes on.                          *)
LeaveNoting(failed) ==
    /\ rule' = IF failed THEN rule ELSE After[rule]
    /\ left' = AllNodes
    /\ errs' = IF failed THEN errs \cup {rule} ELSE errs

(* The rule returns, with an error or without, and the next one begins.    *)
Leave(failed) ==
    /\ rule' = After[rule]
    /\ left' = AllNodes
    /\ errs' = IF failed THEN errs \cup {rule} ELSE errs

StructTags ==
    /\ rule = "struct" /\ ret = "running"
    /\ IF manifest.malformed
       THEN ret' = "error" /\ UNCHANGED <<rule, left, errs>>
       ELSE Leave(FALSE) /\ ret' = ret
    /\ UNCHANGED <<manifest, maps>>

(* One turn of the loop of rule r, at node n; broken ends it.              *)
Turn(r, n, broken) ==
    /\ rule = r
    /\ n \in left
    /\ IF broken THEN Leave(TRUE)
       ELSE left' = left \ {n} /\ UNCHANGED <<rule, errs>>
    /\ UNCHANGED <<manifest, ret>>

(* Mutant: addresses are compared with their prefix.                        *)
AddressOfCIDR(nic) == <<nic.network, nic.address>>

AddressOf(nic) == <<nic.network, nic.address.ip>>

Pinned(nic) == nic.mac \notin {None, "auto"}
Static(nic) == nic.network # None /\ nic.address.ip # None

MacsOf(n)      == {NICs(n)[i].mac : i \in {j \in DOMAIN NICs(n) : Pinned(NICs(n)[j])}}
AddressesOf(n) == {AddressOf(NICs(n)[i]) : i \in {j \in DOMAIN NICs(n) : Static(NICs(n)[j])}}

(* The NICs of a node are entered one by one, so they are compared with    *)
(* each other as well as with those of the nodes before.                   *)
RepeatsOwn(n) ==
    \E i, j \in DOMAIN NICs(n) :
        /\ i < j
        /\ LET a == NICs(n)[i] b == NICs(n)[j] IN
           \/ Pinned(a) /\ Pinned(b) /\ a.mac = b.mac
           \/ Static(a) /\ Static(b) /\ AddressOf(a) = AddressOf(b)

Uniqueness(n) ==
    /\ Turn("uniqueness", n,
            \/ manifest.nodes[n].vmid \in vmIDs
            \/ MacsOf(n) \cap macs # {}
            \/ AddressesOf(n) \cap ipByZone # {}
            \/ RepeatsOwn(n))
    /\ vmIDs' = vmIDs \cup {manifest.nodes[n].vmid}
    /\ macs' = macs \cup MacsOf(n)
    /\ ipByZone' = ipByZone \cup AddressesOf(n)
    /\ tags' = tags

HasUsage(n, usage) == \E i \in DOMAIN NICs(n) : NICs(n)[i].usage = usage

TooFewScanIPs == manifest.scanIPs < 3

RACInvariants(n) ==
    /\ manifest.cluster = "oracle-rac" /\ ~TooFewScanIPs
    /\ Turn("rac", n, ~HasUsage(n, "public") \/ ~HasUsage(n, "private"))
    /\ UNCHANGED maps

NICNetworkRefs(n) ==
    /\ Turn("nics", n, \E i \in DOMAIN NICs(n) :
                          NICs(n)[i].network \notin manifest.zones \cup {None})
    /\ UNCHANGED maps

(* Mutant: only the first disk, the one to install on, is looked at.        *)
DiskStorageRefsFirst(n) ==
    /\ Turn("disks", n, \E i \in DOMAIN Disks(n) :
                          i = 1 /\ Disks(n)[i].class \notin manifest.classes \cup {None})
    /\ UNCHANGED maps

DiskStorageRefs(n) ==
    /\ Turn("disks", n, \E i \in DOMAIN Disks(n) :
                          Disks(n)[i].class \notin manifest.classes \cup {None})
    /\ UNCHANGED maps

TagsOf(n) == {Disks(n)[i].tag : i \in DOMAIN Disks(n)} \ {None}

DiskTags(n) ==
    /\ manifest.additional # <<>>
    /\ Turn("tags", n, FALSE)
    /\ tags' = tags \cup TagsOf(n)
    /\ UNCHANGED <<vmIDs, macs, ipByZone>>

(* A rule ends without an error of a node: it does not apply, or it does   *)
(* and what comes before or after its loop decides.                        *)
EndRule ==
    /\ CASE rule = "rac"  -> manifest.cluster = "other" \/ TooFewScanIPs \/ left = {}
         [] rule = "tags" -> manifest.additional = <<>> \/ left = {}
         [] OTHER         -> rule \in Rules /\ left = {}
    /\ Leave(\/ rule = "rac" /\ manifest.cluster = "oracle-rac" /\ TooFewScanIPs
             \/ rule = "tags" /\ \E i \in DOMAIN manifest.additional :
                                   manifest.additional[i] \notin tags \cup {None})
    /\ UNCHANGED <<manifest, maps, ret>>

Join ==
    /\ rule = "join" /\ ret = "running"
    /\ ret' = IF errs = {} THEN "ok" ELSE "error"
    /\ UNCHANGED <<manifest, rule, left, maps, errs>>

Returned == ret # "running" /\ UNCHANGED vars

Next ==
    \/ StructTags \/ EndRule \/ Join \/ Returned
    \/ \E n \in left :
          \/ Uniqueness(n) \/ RACInvariants(n) \/ NICNetworkRefs(n)
          \/ DiskStorageRefs(n) \/ DiskTags(n)

Spec == Init /\ [][Next]_vars

-----------------------------------------------------------------------------
(* What a rule says of a manifest, whatever the order it is read in.       *)
SameMac(a, b) == a.mac = b.mac /\ a.mac \notin {None, "auto"}

SameAddress(a, b) ==
    /\ a.network = b.network /\ a.network # None
    /\ a.address.ip = b.address.ip /\ a.address.ip # None

Breaks(r) ==
    CASE r = "uniqueness" ->
            \/ \E a, b \in AllNodes :
                  a # b /\ manifest.nodes[a].vmid = manifest.nodes[b].vmid
            \/ \E a, b \in AllNodes : \E i \in DOMAIN NICs(a), j \in DOMAIN NICs(b) :
                  /\ a # b \/ i # j
                  /\ SameMac(NICs(a)[i], NICs(b)[j]) \/ SameAddress(NICs(a)[i], NICs(b)[j])
      [] r = "rac" ->
            /\ manifest.cluster = "oracle-rac"
            /\ \/ manifest.scanIPs < 3
               \/ \E n \in AllNodes : ~HasUsage(n, "public") \/ ~HasUsage(n, "private")
      [] r = "nics" ->
            \E n \in AllNodes : \E i \in DOMAIN NICs(n) :
                NICs(n)[i].network \notin manifest.zones \cup {None}
      [] r = "disks" ->
            \E n \in AllNodes : \E i \in DOMAIN Disks(n) :
                Disks(n)[i].class \notin manifest.classes \cup {None}
      [] r = "tags" ->
            \E i \in DOMAIN manifest.additional :
                /\ manifest.additional[i] # None
                /\ \A n \in AllNodes : \A k \in DOMAIN Disks(n) :
                       Disks(n)[k].tag # manifest.additional[i]

(* Whatever order Go's maps are read in, and wherever a loop stops, the    *)
(* rules reported are exactly those the manifest breaks, and Validate      *)
(* returns nil exactly if there is none and the struct tags hold.          *)
VerdictIsRight ==
    /\ rule = "join" => errs = {r \in Rules : Breaks(r)}
    /\ ret = "ok" => rule = "join" /\ errs = {}
    /\ ret = "error" => manifest.malformed \/ errs # {}

(* buildCreateOpts: the storage a disk is created on.  A class stands for  *)
(* the backend the catalogue gives it.                                     *)
PlacedOn(d) ==
    CASE d.storage # None              -> <<"storage", d.storage>>
      [] d.storage = None /\ d.class \in manifest.classes -> <<"class", d.class>>
      [] OTHER                         -> <<"storage", "local-lvm">>

(* The i-th disk is scsi<i - 1> if it names no interface.  CreateVM sets   *)
(* the field of each disk's interface in one form, so that of two disks on *)
(* one interface the later one stays.                                      *)
InterfaceOf(n, i) == IF Disks(n)[i].interface = Default THEN i - 1 ELSE Disks(n)[i].interface

Replaced(n, i) == \E j \in DOMAIN Disks(n) : j > i /\ InterfaceOf(n, j) = InterfaceOf(n, i)

Form(n) == [s \in {InterfaceOf(n, i) : i \in DOMAIN Disks(n)} |->
               PlacedOn(Disks(n)[CHOOSE i \in DOMAIN Disks(n) :
                                    InterfaceOf(n, i) = s /\ ~Replaced(n, i)])]

(* What the workflows take for granted of a manifest that Load returned:   *)
(* each node has a machine of its own; no two guests are given the same    *)
(* text for a MAC, though two texts may spell one MAC; every disk that     *)
(* names a class or a storage, and is not replaced by a later disk on its  *)
(* interface, is created there and not on the fallback; and every tag of   *)
(* linux.disk_layout.additional is on a disk of the stack.  No rule keeps  *)
(* two disks off one interface.                                            *)
ValidatedIsBuildable ==
    ret = "ok" =>
        /\ \A a, b \in AllNodes : a # b =>
              /\ manifest.nodes[a].vmid # manifest.nodes[b].vmid
              /\ MacsOf(a) \cap MacsOf(b) = {}
        /\ \A n \in AllNodes : \A i \in DOMAIN Disks(n) :
              LET d == Disks(n)[i] IN
              ~Replaced(n, i) /\ (d.class # None \/ d.storage # None)
              => Form(n)[InterfaceOf(n, i)] = IF d.storage # None THEN <<"storage", d.storage>>
                                              ELSE <<"class", d.class>>
        /\ \A i \in DOMAIN manifest.additional :
              manifest.additional[i] = None
              \/ \E n \in AllNodes : manifest.additional[i] \in TagsOf(n)
=============================================================================
