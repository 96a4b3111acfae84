------------------------- MODULE ValidatorsProofs -------------------------
(***************************************************************************)
(* For every set of manifests, of any number of nodes, NICs and disks, and *)
(* every order in which Go reads their maps: Validate reports exactly the  *)
(* rules that a manifest breaks, and what it accepts can be built.         *)
(***************************************************************************)
EXTENDS Validators, TLAPS

(* The rules that are done with when a rule begins.                        *)
Before == [struct |-> {}, uniqueness |-> {}, rac |-> {"uniqueness"},
           nics |-> {"uniqueness", "rac"}, disks |-> {"uniqueness", "rac", "nics"},
           tags |-> {"uniqueness", "rac", "nics", "disks"}, join |-> Rules]

(* The nodes the loop of the current rule has visited.                     *)
Seen == AllNodes \ left

VMID(n) == manifest.nodes[n].vmid

Clash(a, b) ==
    \/ VMID(a) = VMID(b)
    \/ MacsOf(a) \cap MacsOf(b) # {}
    \/ AddressesOf(a) \cap AddressesOf(b) # {}

(* Node n by itself breaks rule r.                                         *)
Bad(r, n) ==
    CASE r = "rac"   -> ~HasUsage(n, "public") \/ ~HasUsage(n, "private")
      [] r = "nics"  -> \E i \in DOMAIN NICs(n) :
                            NICs(n)[i].network \notin manifest.zones \cup {None}
      [] r = "disks" -> \E i \in DOMAIN Disks(n) :
                            Disks(n)[i].class \notin manifest.classes \cup {None}

(* The maps hold what the nodes visited so far have, without a repetition.  *)
MapInv ==
    /\ rule = "struct" => vmIDs = {} /\ macs = {} /\ ipByZone = {}
    /\ rule = "uniqueness" =>
          /\ vmIDs = {VMID(n) : n \in Seen}
          /\ macs = UNION {MacsOf(n) : n \in Seen}
          /\ ipByZone = UNION {AddressesOf(n) : n \in Seen}
          /\ \A a, b \in Seen : a # b => ~Clash(a, b)
          /\ \A a \in Seen : ~RepeatsOwn(a)
    /\ rule \notin {"tags", "join"} => tags = {}
    /\ rule = "tags" /\ manifest.additional # <<>> => tags = UNION {TagsOf(n) : n \in Seen}

(* No node visited so far breaks the rule.                                 *)
LoopInv ==
    rule \in {"rac", "nics", "disks"} /\ (rule = "rac" => manifest.cluster = "oracle-rac")
    => \A n \in Seen : ~Bad(rule, n)

VerdictInv ==
    /\ errs = {r \in Before[rule] : Breaks(r)}
    /\ ret = "ok" => rule = "join" /\ errs = {}
    /\ ret = "error" => manifest.malformed \/ errs # {}

IInv == TypeOK /\ MapInv /\ LoopInv /\ VerdictInv

-----------------------------------------------------------------------------
(* Texts.                                                                  *)
LEMMA NICType ==
  ASSUME IsManifest(manifest), NEW n \in AllNodes
  PROVE  /\ VMID(n) \in Nat
         /\ NICs(n) \in Seq(NIC) /\ Disks(n) \in Seq(Disk)
         /\ MacsOf(n) \subseteq Words
         /\ AddressesOf(n) \subseteq Words \X Words
         /\ TagsOf(n) \subseteq Words
<1>1. manifest.nodes[n] \in Node
  BY DEF IsManifest, AllNodes
<1>2. VMID(n) \in Nat /\ NICs(n) \in Seq(NIC) /\ Disks(n) \in Seq(Disk)
  BY <1>1 DEF Node, VMID, NICs, Disks
<1>3. ASSUME NEW i \in DOMAIN NICs(n)
      PROVE  NICs(n)[i] \in NIC
  BY <1>2
<1>4. MacsOf(n) \subseteq Words
  BY <1>3 DEF MacsOf, Pinned, NIC, Text
<1>5. ASSUME NEW i \in DOMAIN NICs(n), Static(NICs(n)[i])
      PROVE  AddressOf(NICs(n)[i]) \in Words \X Words
  BY <1>3, <1>5 DEF AddressOf, Static, NIC, Text
<1>6. AddressesOf(n) \subseteq Words \X Words
  BY <1>5 DEF AddressesOf
<1>7. ASSUME NEW i \in DOMAIN Disks(n)
      PROVE  Disks(n)[i] \in Disk
  BY <1>2
<1>8. TagsOf(n) \subseteq Words
  BY <1>7 DEF TagsOf, Disk, Text
<1>9. QED
  BY <1>2, <1>4, <1>6, <1>8

(* What the reference says of one pair of NICs is what the maps say.       *)
LEMMA SharedByTwo ==
  ASSUME NEW a, NEW b
  PROVE  (\E i \in DOMAIN NICs(a), j \in DOMAIN NICs(b) :
             SameMac(NICs(a)[i], NICs(b)[j]) \/ SameAddress(NICs(a)[i], NICs(b)[j]))
         <=> \/ MacsOf(a) \cap MacsOf(b) # {}
             \/ AddressesOf(a) \cap AddressesOf(b) # {}
<1>1. ASSUME NEW i \in DOMAIN NICs(a), NEW j \in DOMAIN NICs(b),
             SameMac(NICs(a)[i], NICs(b)[j])
      PROVE  MacsOf(a) \cap MacsOf(b) # {}
  <2>1. NICs(a)[i].mac \in MacsOf(a) /\ NICs(b)[j].mac \in MacsOf(b)
    BY <1>1 DEF SameMac, MacsOf, Pinned
  <2>2. QED
    BY <1>1, <2>1 DEF SameMac
<1>2. ASSUME NEW i \in DOMAIN NICs(a), NEW j \in DOMAIN NICs(b),
             SameAddress(NICs(a)[i], NICs(b)[j])
      PROVE  AddressesOf(a) \cap AddressesOf(b) # {}
  <2>1. AddressOf(NICs(a)[i]) \in AddressesOf(a) /\ AddressOf(NICs(b)[j]) \in AddressesOf(b)
    BY <1>2 DEF SameAddress, AddressesOf, Static
  <2>2. AddressOf(NICs(a)[i]) = AddressOf(NICs(b)[j])
    BY <1>2 DEF SameAddress, AddressOf
  <2>3. QED
    BY <2>1, <2>2
<1>3. ASSUME NEW m \in MacsOf(a) \cap MacsOf(b)
      PROVE  \E i \in DOMAIN NICs(a), j \in DOMAIN NICs(b) :
                 SameMac(NICs(a)[i], NICs(b)[j])
  BY <1>3 DEF SameMac, MacsOf, Pinned
<1>4. ASSUME NEW x \in AddressesOf(a) \cap AddressesOf(b)
      PROVE  \E i \in DOMAIN NICs(a), j \in DOMAIN NICs(b) :
                 SameAddress(NICs(a)[i], NICs(b)[j])
  <2>1. PICK i \in DOMAIN NICs(a) : Static(NICs(a)[i]) /\ x = AddressOf(NICs(a)[i])
    BY <1>4 DEF AddressesOf
  <2>2. PICK j \in DOMAIN NICs(b) : Static(NICs(b)[j]) /\ x = AddressOf(NICs(b)[j])
    BY <1>4 DEF AddressesOf
  <2>3. SameAddress(NICs(a)[i], NICs(b)[j])
    BY <2>1, <2>2 DEF SameAddress, Static, AddressOf
  <2>4. QED
    BY <2>3
<1>5. QED
  BY <1>1, <1>2, <1>3, <1>4

LEMMA RepeatedInOne ==
  ASSUME IsManifest(manifest), NEW a \in AllNodes
  PROVE  RepeatsOwn(a)
         <=> \E i, j \in DOMAIN NICs(a) :
                 /\ i # j
                 /\ SameMac(NICs(a)[i], NICs(a)[j]) \/ SameAddress(NICs(a)[i], NICs(a)[j])
<1>1. ASSUME NEW x, NEW y
      PROVE  /\ SameMac(x, y) <=> Pinned(x) /\ Pinned(y) /\ x.mac = y.mac
             /\ SameAddress(x, y) <=> Static(x) /\ Static(y) /\ AddressOf(x) = AddressOf(y)
             /\ SameMac(x, y) <=> SameMac(y, x)
             /\ SameAddress(x, y) <=> SameAddress(y, x)
  BY DEF SameMac, SameAddress, Pinned, Static, AddressOf
<1>2. \A i, j \in DOMAIN NICs(a) : i # j <=> i < j \/ j < i
  BY NICType
<1>3. QED
  BY <1>1, <1>2 DEF RepeatsOwn

(* The rule on uniqueness, node by node.                                   *)
LEMMA UniquenessBroken ==
  ASSUME IsManifest(manifest)
  PROVE  Breaks("uniqueness")
         <=> \/ \E a, b \in AllNodes : a # b /\ Clash(a, b)
             \/ \E a \in AllNodes : RepeatsOwn(a)
<1>1. Breaks("uniqueness")
      <=> \/ \E a, b \in AllNodes : a # b /\ VMID(a) = VMID(b)
          \/ \E a, b \in AllNodes : \E i \in DOMAIN NICs(a), j \in DOMAIN NICs(b) :
                /\ a # b \/ i # j
                /\ SameMac(NICs(a)[i], NICs(b)[j]) \/ SameAddress(NICs(a)[i], NICs(b)[j])
  BY DEF Breaks, VMID
<1>2. \A a, b \in AllNodes : a # b =>
         (Clash(a, b) <=>
            \/ VMID(a) = VMID(b)
            \/ \E i \in DOMAIN NICs(a), j \in DOMAIN NICs(b) :
                  SameMac(NICs(a)[i], NICs(b)[j]) \/ SameAddress(NICs(a)[i], NICs(b)[j]))
  BY SharedByTwo DEF Clash
<1>3. QED
  BY <1>1, <1>2, RepeatedInOne

LEMMA LoopBroken ==
  /\ Breaks("rac") <=> /\ manifest.cluster = "oracle-rac"
                       /\ TooFewScanIPs \/ \E n \in AllNodes : Bad("rac", n)
  /\ Breaks("nics") <=> \E n \in AllNodes : Bad("nics", n)
  /\ Breaks("disks") <=> \E n \in AllNodes : Bad("disks", n)
BY DEF Breaks, Bad, TooFewScanIPs

LEMMA TagsBroken ==
  Breaks("tags")
  <=> \E i \in DOMAIN manifest.additional :
         manifest.additional[i] \notin (UNION {TagsOf(n) : n \in AllNodes}) \cup {None}
<1>1. Breaks("tags")
      <=> \E i \in DOMAIN manifest.additional :
             /\ manifest.additional[i] # None
             /\ \A n \in AllNodes : \A k \in DOMAIN Disks(n) :
                    Disks(n)[k].tag # manifest.additional[i]
  BY DEF Breaks
<1>2. \A t : t # None =>
         (t \notin UNION {TagsOf(n) : n \in AllNodes}
          <=> \A n \in AllNodes : \A k \in DOMAIN Disks(n) : Disks(n)[k].tag # t)
  BY DEF TagsOf
<1>3. QED
  BY <1>1, <1>2

(* A manifest does not change.                                             *)
LEMMA Constant ==
  ASSUME manifest' = manifest
  PROVE  /\ \A r \in Rules : Breaks(r)' <=> Breaks(r)
         /\ AllNodes' = AllNodes
         /\ \A n : VMID(n)' = VMID(n)
         /\ \A n : MacsOf(n)' = MacsOf(n)
         /\ \A n : AddressesOf(n)' = AddressesOf(n)
         /\ \A n : TagsOf(n)' = TagsOf(n)
         /\ \A n : RepeatsOwn(n)' <=> RepeatsOwn(n)
         /\ \A a, b : Clash(a, b)' <=> Clash(a, b)
         /\ \A r \in {"rac", "nics", "disks"} : \A n : Bad(r, n)' <=> Bad(r, n)
<1>1. AllNodes' = AllNodes
  BY DEF AllNodes
<1>2. ASSUME NEW n
      PROVE  /\ VMID(n)' = VMID(n) /\ NICs(n)' = NICs(n) /\ Disks(n)' = Disks(n)
             /\ MacsOf(n)' = MacsOf(n) /\ AddressesOf(n)' = AddressesOf(n)
             /\ TagsOf(n)' = TagsOf(n) /\ (RepeatsOwn(n)' <=> RepeatsOwn(n))
  BY DEF VMID, NICs, Disks, MacsOf, AddressesOf, TagsOf, RepeatsOwn
<1>3. \A a, b : Clash(a, b)' <=> Clash(a, b)
  BY <1>2 DEF Clash
<1>4. \A r \in {"rac", "nics", "disks"} : \A n : Bad(r, n)' <=> Bad(r, n)
  BY DEF Bad, HasUsage, NICs, Disks
<1>5. \A r \in Rules : Breaks(r)' <=> Breaks(r)
  BY DEF Rules, Breaks, AllNodes, HasUsage, NICs, Disks
<1>6. QED
  BY <1>1, <1>2, <1>3, <1>4, <1>5

LEMMA Maps ==
  ASSUME TypeOK, NEW n \in left, Uniqueness(n)
  PROVE  /\ vmIDs' \in SUBSET Nat /\ macs' \in SUBSET Words
         /\ ipByZone' \in SUBSET (Words \X Words)
<1>1. n \in AllNodes /\ IsManifest(manifest)
  BY DEF TypeOK
<1>2. VMID(n) \in Nat /\ MacsOf(n) \subseteq Words /\ AddressesOf(n) \subseteq Words \X Words
  BY <1>1, NICType
<1>3. QED
  BY <1>2 DEF TypeOK, Uniqueness, VMID

-----------------------------------------------------------------------------
(* A rule that returns an error exactly if the manifest breaks it leaves   *)
(* the verdict on the rules so far as it should be.                        *)
LEMMA Leaves ==
  ASSUME IInv, rule \in Rules, NEW failed \in BOOLEAN, Leave(failed),
         failed <=> Breaks(rule),
         manifest' = manifest, ret' = ret, tags' = tags,
         vmIDs' \in SUBSET Nat, macs' \in SUBSET Words,
         ipByZone' \in SUBSET (Words \X Words)
  PROVE  IInv'
<1>1. AllNodes' = AllNodes /\ \A r \in Rules : Breaks(r)' <=> Breaks(r)
  BY Constant
<1>2. /\ rule' = After[rule] /\ left' = AllNodes
      /\ errs' = IF failed THEN errs \cup {rule} ELSE errs
  BY DEF Leave
<1>3. /\ rule' \in Rules \cup {"join"} /\ rule' # "uniqueness" /\ rule' # "struct"
      /\ Before[rule'] = Before[rule] \cup {rule}
      /\ Before[rule] \subseteq Rules
      /\ rule' \notin Before[rule] /\ rule' # rule
      /\ rule' \notin {"tags", "join"} => rule \notin {"tags", "join"}
      /\ rule' = "tags" => rule = "disks"
  BY <1>2 DEF Rules, After, Before
<1>4. errs = {r \in Before[rule] : Breaks(r)}
  BY DEF IInv, VerdictInv
<1>5. TypeOK'
  <2>1. errs' \in SUBSET (Rules \ {rule'})
    BY <1>2, <1>3, <1>4
  <2>2. left' \in SUBSET AllNodes'
    BY <1>1, <1>2
  <2>3. tags' \in SUBSET Words /\ ret' \in {"running", "ok", "error"} /\ IsManifest(manifest')
    BY DEF IInv, TypeOK
  <2>4. QED
    BY <1>3, <2>1, <2>2, <2>3 DEF TypeOK
<1>6. Seen' = {}
  BY <1>1, <1>2 DEF Seen
<1>7. MapInv'
  <2>1. rule' \notin {"tags", "join"} => tags' = {}
    BY <1>3 DEF IInv, MapInv
  <2>2. rule' = "tags" => tags' = UNION {TagsOf(n)' : n \in Seen'}
    BY <1>3, <1>6 DEF IInv, MapInv
  <2>3. QED
    BY <1>3, <2>1, <2>2 DEF MapInv
<1>8. LoopInv'
  BY <1>6 DEF LoopInv
<1>9. VerdictInv'
  <2>1. errs' = {r \in Before[rule'] : Breaks(r)'}
    BY <1>1, <1>2, <1>3, <1>4
  <2>2. ret' = "error" => manifest.malformed \/ errs' # {}
    BY <1>2 DEF IInv, VerdictInv
  <2>3. ret' # "ok"
    BY DEF IInv, VerdictInv, Rules
  <2>4. QED
    BY <2>1, <2>2, <2>3 DEF VerdictInv
<1>10. QED
  BY <1>5, <1>7, <1>8, <1>9 DEF IInv

(* A loop that goes on past node n.                                        *)
LEMMA Stays ==
  ASSUME IInv, rule \in Rules, NEW n \in left, left' = left \ {n},
         rule' = rule, errs' = errs, manifest' = manifest, ret' = ret,
         vmIDs' \in SUBSET Nat, macs' \in SUBSET Words,
         ipByZone' \in SUBSET (Words \X Words), tags' \in SUBSET Words,
         MapInv',
         rule \in {"rac", "nics", "disks"} => ~Bad(rule, n)
  PROVE  IInv'
<1>1. /\ AllNodes' = AllNodes /\ \A r \in Rules : Breaks(r)' <=> Breaks(r)
      /\ \A r \in {"rac", "nics", "disks"} : \A m : Bad(r, m)' <=> Bad(r, m)
  BY Constant
<1>2. TypeOK'
  BY <1>1 DEF IInv, TypeOK
<1>3. Seen' = Seen \cup {n}
  BY <1>1 DEF Seen, IInv, TypeOK
<1>4. LoopInv'
  BY <1>1, <1>3 DEF IInv, LoopInv
<1>5. VerdictInv'
  <2>1. Before[rule] \subseteq Rules
    BY DEF Rules, Before
  <2>2. QED
    BY <1>1, <2>1 DEF IInv, VerdictInv
<1>6. QED
  BY <1>2, <1>4, <1>5 DEF IInv

LEMMA InitInv == Init => IInv
<1> SUFFICES ASSUME Init PROVE IInv
  OBVIOUS
<1>1. IsManifest(manifest) /\ rule = "struct" /\ errs = {} /\ ret = "running" /\ left = {}
  BY ManifestAssumption DEF Init
<1>2. TypeOK
  BY <1>1 DEF Init, TypeOK, Rules
<1>3. MapInv /\ LoopInv
  BY <1>1 DEF Init, MapInv, LoopInv
<1>4. VerdictInv
  BY <1>1 DEF VerdictInv, Before
<1>5. QED
  BY <1>2, <1>3, <1>4 DEF IInv

LEMMA StepStruct == IInv /\ StructTags => IInv'
<1> SUFFICES ASSUME IInv, StructTags PROVE IInv'
  OBVIOUS
<1>1. /\ rule = "struct" /\ manifest' = manifest /\ AllNodes' = AllNodes
      /\ vmIDs' = vmIDs /\ macs' = macs /\ ipByZone' = ipByZone /\ tags' = tags
  BY Constant DEF StructTags, maps
<1>2. errs = {}
  BY <1>1 DEF IInv, VerdictInv, Before
<1>3. CASE manifest.malformed
  <2>1. ret' = "error" /\ rule' = rule /\ left' = left /\ errs' = errs
    BY <1>3 DEF StructTags
  <2>2. TypeOK'
    BY <1>1, <2>1 DEF IInv, TypeOK
  <2>3. MapInv' /\ LoopInv'
    BY <1>1, <2>1 DEF IInv, MapInv, LoopInv
  <2>4. VerdictInv'
    BY <1>1, <1>2, <1>3, <2>1 DEF VerdictInv, Before
  <2>5. QED
    BY <2>2, <2>3, <2>4 DEF IInv
<1>4. CASE ~manifest.malformed
  <2>1. /\ ret' = "running" /\ rule' = "uniqueness" /\ left' = AllNodes /\ errs' = {}
    BY <1>1, <1>2, <1>4 DEF StructTags, Leave, After
  <2>2. TypeOK'
    BY <1>1, <2>1 DEF IInv, TypeOK, Rules
  <2>3. Seen' = {}
    BY <1>1, <2>1 DEF Seen
  <2>4. MapInv'
    BY <1>1, <2>1, <2>3 DEF IInv, MapInv
  <2>5. LoopInv' /\ VerdictInv'
    BY <2>1 DEF LoopInv, VerdictInv, Before
  <2>6. QED
    BY <2>2, <2>4, <2>5 DEF IInv
<1>5. QED
  BY <1>3, <1>4

(* A node breaks the rule on uniqueness if it clashes with one before it.  *)
LEMMA StepUniqueness == ASSUME IInv, NEW n \in left, Uniqueness(n) PROVE IInv'
<1> DEFINE broken == \/ VMID(n) \in vmIDs
                     \/ MacsOf(n) \cap macs # {}
                     \/ AddressesOf(n) \cap ipByZone # {}
                     \/ RepeatsOwn(n)
<1>1. /\ rule = "uniqueness" /\ manifest' = manifest /\ ret' = ret /\ tags' = tags
      /\ vmIDs' = vmIDs \cup {VMID(n)} /\ macs' = macs \cup MacsOf(n)
      /\ ipByZone' = ipByZone \cup AddressesOf(n)
      /\ IF broken THEN Leave(TRUE) ELSE left' = left \ {n} /\ rule' = rule /\ errs' = errs
  BY DEF Uniqueness, Turn, VMID
<1>2. IsManifest(manifest) /\ n \in AllNodes /\ n \notin Seen /\ Seen \subseteq AllNodes
  BY DEF IInv, TypeOK, Seen
<1>3. /\ vmIDs = {VMID(a) : a \in Seen}
      /\ macs = UNION {MacsOf(a) : a \in Seen}
      /\ ipByZone = UNION {AddressesOf(a) : a \in Seen}
      /\ \A a, b \in Seen : a # b => ~Clash(a, b)
      /\ \A a \in Seen : ~RepeatsOwn(a)
  BY <1>1 DEF IInv, MapInv
<1>4. broken <=> (\E a \in Seen : Clash(n, a)) \/ RepeatsOwn(n)
  <2>1. VMID(n) \in vmIDs <=> \E a \in Seen : VMID(n) = VMID(a)
    BY <1>3
  <2>2. MacsOf(n) \cap macs # {} <=> \E a \in Seen : MacsOf(n) \cap MacsOf(a) # {}
    BY <1>3
  <2>3. AddressesOf(n) \cap ipByZone # {}
        <=> \E a \in Seen : AddressesOf(n) \cap AddressesOf(a) # {}
    BY <1>3
  <2>4. QED
    BY <2>1, <2>2, <2>3 DEF Clash
<1>5. /\ vmIDs' \in SUBSET Nat /\ macs' \in SUBSET Words
      /\ ipByZone' \in SUBSET (Words \X Words)
  BY Maps DEF IInv
<1>6. CASE broken
  <2>1. Breaks("uniqueness")
    BY <1>2, <1>4, <1>6, UniquenessBroken
  <2>2. rule \in Rules /\ Leave(TRUE)
    BY <1>1, <1>6 DEF Rules
  <2>3. QED
    BY <1>1, <1>5, <2>1, <2>2, Leaves
<1>7. CASE ~broken
  <2>1. left' = left \ {n} /\ rule' = rule /\ errs' = errs
    BY <1>1, <1>7
  <2>2. Seen' = Seen \cup {n}
    BY <1>1, <1>2, <2>1, Constant DEF Seen
  <2>3. \A a, b \in Seen \cup {n} : a # b => ~Clash(a, b)
    <3>1. \A a, b : Clash(a, b) <=> Clash(b, a)
      BY DEF Clash
    <3>2. QED
      BY <1>3, <1>4, <1>7, <3>1
  <2>4. /\ vmIDs' = {VMID(a) : a \in Seen \cup {n}}
        /\ macs' = UNION {MacsOf(a) : a \in Seen \cup {n}}
        /\ ipByZone' = UNION {AddressesOf(a) : a \in Seen \cup {n}}
    BY <1>1, <1>3
  <2>5. MapInv'
    <3>1. /\ vmIDs' = {VMID(a)' : a \in Seen'}
          /\ macs' = UNION {MacsOf(a)' : a \in Seen'}
          /\ ipByZone' = UNION {AddressesOf(a)' : a \in Seen'}
      BY <1>1, <2>2, <2>4, Constant
    <3>2. /\ \A a, b \in Seen' : a # b => ~Clash(a, b)'
          /\ \A a \in Seen' : ~RepeatsOwn(a)'
      BY <1>1, <1>3, <1>4, <1>7, <2>2, <2>3, Constant
    <3>3. tags' = {}
      BY <1>1 DEF IInv, MapInv
    <3>4. QED
      BY <1>1, <2>1, <3>1, <3>2, <3>3 DEF MapInv
  <2>6. rule \in Rules /\ rule \notin {"rac", "nics", "disks"} /\ tags' \in SUBSET Words
    BY <1>1 DEF Rules, IInv, TypeOK
  <2>7. QED
    BY <1>1, <1>5, <2>1, <2>5, <2>6, Stays
<1>8. QED
  BY <1>6, <1>7

(* The three rules that look at each node for itself.                      *)
LEMMA StepByNode ==
  ASSUME IInv, NEW n \in left, rule \in {"rac", "nics", "disks"},
         rule = "rac" => manifest.cluster = "oracle-rac",
         Turn(rule, n, Bad(rule, n)), UNCHANGED maps
  PROVE  IInv'
<1>1. /\ rule \in Rules /\ manifest' = manifest /\ ret' = ret
      /\ vmIDs' = vmIDs /\ macs' = macs /\ ipByZone' = ipByZone /\ tags' = tags
      /\ IF Bad(rule, n) THEN Leave(TRUE)
         ELSE left' = left \ {n} /\ rule' = rule /\ errs' = errs
  BY DEF Turn, maps, Rules
<1>2. /\ vmIDs' \in SUBSET Nat /\ macs' \in SUBSET Words
      /\ ipByZone' \in SUBSET (Words \X Words) /\ tags' \in SUBSET Words
      /\ n \in AllNodes
  BY <1>1 DEF IInv, TypeOK
<1>3. CASE Bad(rule, n)
  <2>1. Breaks(rule)
    BY <1>2, <1>3, LoopBroken
  <2>2. Leave(TRUE)
    BY <1>1, <1>3
  <2>3. QED
    BY <1>1, <1>2, <2>1, <2>2, Leaves
<1>4. CASE ~Bad(rule, n)
  <2>1. left' = left \ {n} /\ rule' = rule /\ errs' = errs
    BY <1>1, <1>4
  <2>2. MapInv'
    BY <1>1, <2>1 DEF IInv, MapInv
  <2>3. QED
    BY <1>1, <1>2, <1>4, <2>1, <2>2, Stays
<1>5. QED
  BY <1>3, <1>4

LEMMA StepTags == ASSUME IInv, NEW n \in left, DiskTags(n) PROVE IInv'
<1>1. /\ rule = "tags" /\ manifest' = manifest /\ ret' = ret
      /\ vmIDs' = vmIDs /\ macs' = macs /\ ipByZone' = ipByZone
      /\ tags' = tags \cup TagsOf(n) /\ manifest.additional # <<>>
      /\ left' = left \ {n} /\ rule' = rule /\ errs' = errs
  BY DEF DiskTags, Turn
<1>2. IsManifest(manifest) /\ n \in AllNodes
  BY DEF IInv, TypeOK
<1>3. tags' \in SUBSET Words
  BY <1>1, <1>2, NICType DEF IInv, TypeOK
<1>4. Seen' = Seen \cup {n}
  BY <1>1, <1>2, Constant DEF Seen
<1>5. tags' = UNION {TagsOf(a)' : a \in Seen'}
  <2>1. tags = UNION {TagsOf(a) : a \in Seen}
    BY <1>1 DEF IInv, MapInv
  <2>2. \A a : TagsOf(a)' = TagsOf(a)
    BY <1>1, Constant
  <2>3. QED
    BY <1>1, <1>4, <2>1, <2>2
<1>6. MapInv'
  BY <1>1, <1>5 DEF MapInv
<1>7. QED
  <2>1. /\ rule \in Rules /\ rule \notin {"rac", "nics", "disks"}
        /\ vmIDs' \in SUBSET Nat /\ macs' \in SUBSET Words
        /\ ipByZone' \in SUBSET (Words \X Words)
    BY <1>1 DEF IInv, TypeOK, Rules
  <2>2. QED
    BY <1>1, <1>3, <1>6, <2>1, Stays

(* A rule that no node ends reports exactly what the manifest breaks.      *)
LEMMA StepEnd == IInv /\ EndRule => IInv'
<1> SUFFICES ASSUME IInv, EndRule PROVE IInv'
  OBVIOUS
<1> DEFINE scan == rule = "rac" /\ manifest.cluster = "oracle-rac" /\ TooFewScanIPs
           untagged == /\ rule = "tags"
                       /\ \E i \in DOMAIN manifest.additional :
                             manifest.additional[i] \notin tags \cup {None}
           failed == scan \/ untagged
<1>1. /\ rule \in Rules /\ Leave(failed) /\ manifest' = manifest /\ ret' = ret
      /\ vmIDs' = vmIDs /\ macs' = macs /\ ipByZone' = ipByZone /\ tags' = tags
  BY DEF EndRule, maps, Rules
<1>2. IsManifest(manifest)
  BY DEF IInv, TypeOK
<1>3. left = {} => Seen = AllNodes
  BY DEF Seen
<1>4. failed <=> Breaks(rule)
  <2>1. CASE rule = "uniqueness"
    <3>1. left = {} /\ ~failed
      BY <2>1 DEF EndRule
    <3>2. ~Breaks("uniqueness")
      BY <1>2, <1>3, <2>1, <3>1, UniquenessBroken DEF IInv, MapInv
    <3>3. QED
      BY <2>1, <3>1, <3>2
  <2>2. CASE rule = "rac"
    <3>1. manifest.cluster = "other" \/ TooFewScanIPs \/ left = {}
      BY <2>2 DEF EndRule
    <3>2. manifest.cluster \in {"oracle-rac", "other"}
      BY <1>2 DEF IsManifest
    <3>3. manifest.cluster = "oracle-rac" /\ left = {} => \A n \in AllNodes : ~Bad("rac", n)
      BY <1>3, <2>2 DEF IInv, LoopInv
    <3>4. QED
      BY <2>2, <3>1, <3>2, <3>3, LoopBroken
  <2>3. CASE rule \in {"nics", "disks"}
    <3>1. left = {} /\ ~failed
      BY <2>3 DEF EndRule
    <3>2. \A n \in AllNodes : ~Bad(rule, n)
      BY <1>3, <2>3, <3>1 DEF IInv, LoopInv
    <3>3. QED
      BY <2>3, <3>1, <3>2, LoopBroken
  <2>4. CASE rule = "tags"
    <3>1. manifest.additional = <<>> \/ left = {}
      BY <2>4 DEF EndRule
    <3>2. CASE manifest.additional = <<>>
      BY <2>4, <3>2, TagsBroken
    <3>3. CASE manifest.additional # <<>>
      <4>1. tags = UNION {TagsOf(n) : n \in AllNodes}
        BY <1>3, <2>4, <3>1, <3>3 DEF IInv, MapInv
      <4>2. QED
        BY <2>4, <4>1, TagsBroken
    <3>4. QED
      BY <3>2, <3>3
  <2>5. QED
    BY <1>1, <2>1, <2>2, <2>3, <2>4 DEF Rules
<1>5. /\ vmIDs' \in SUBSET Nat /\ macs' \in SUBSET Words
      /\ ipByZone' \in SUBSET (Words \X Words)
  BY <1>1 DEF IInv, TypeOK
<1>6. failed \in BOOLEAN
  OBVIOUS
<1>7. QED
  BY <1>1, <1>4, <1>5, <1>6, Leaves

LEMMA StepJoin == IInv /\ Join => IInv'
<1> SUFFICES ASSUME IInv, Join PROVE IInv'
  OBVIOUS
<1>1. /\ rule = "join" /\ rule' = rule /\ left' = left /\ errs' = errs
      /\ manifest' = manifest /\ AllNodes' = AllNodes
      /\ ret' = IF errs = {} THEN "ok" ELSE "error"
      /\ vmIDs' = vmIDs /\ macs' = macs /\ ipByZone' = ipByZone /\ tags' = tags
  BY Constant DEF Join, maps
<1>2. TypeOK'
  BY <1>1 DEF IInv, TypeOK
<1>3. MapInv' /\ LoopInv'
  BY <1>1 DEF IInv, MapInv, LoopInv
<1>4. VerdictInv'
  <2>1. errs' = {r \in Before[rule'] : Breaks(r)'}
    BY <1>1, Constant DEF IInv, VerdictInv, Before
  <2>2. QED
    BY <1>1, <2>1 DEF VerdictInv
<1>5. QED
  BY <1>2, <1>3, <1>4 DEF IInv

LEMMA StepInv == IInv /\ [Next]_vars => IInv'
<1> SUFFICES ASSUME IInv, [Next]_vars PROVE IInv'
  OBVIOUS
<1>1. CASE StructTags
  BY <1>1, StepStruct
<1>2. CASE EndRule
  BY <1>2, StepEnd
<1>3. CASE Join
  BY <1>3, StepJoin
<1>4. ASSUME NEW n \in left, Uniqueness(n) PROVE IInv'
  BY <1>4, StepUniqueness
<1>5. ASSUME NEW n \in left, RACInvariants(n) PROVE IInv'
  <2>1. Turn(rule, n, Bad(rule, n)) /\ rule = "rac"
    BY <1>5 DEF RACInvariants, Turn, Bad
  <2>2. QED
    BY <1>5, <2>1, StepByNode DEF RACInvariants
<1>6. ASSUME NEW n \in left, NICNetworkRefs(n) PROVE IInv'
  <2>1. Turn(rule, n, Bad(rule, n)) /\ rule = "nics"
    BY <1>6 DEF NICNetworkRefs, Turn, Bad
  <2>2. QED
    BY <1>6, <2>1, StepByNode DEF NICNetworkRefs
<1>7. ASSUME NEW n \in left, DiskStorageRefs(n) PROVE IInv'
  <2>1. Turn(rule, n, Bad(rule, n)) /\ rule = "disks"
    BY <1>7 DEF DiskStorageRefs, Turn, Bad
  <2>2. QED
    BY <1>7, <2>1, StepByNode DEF DiskStorageRefs
<1>8. ASSUME NEW n \in left, DiskTags(n) PROVE IInv'
  BY <1>8, StepTags
<1>9. CASE UNCHANGED vars
  <2>1. /\ manifest' = manifest /\ rule' = rule /\ left' = left /\ errs' = errs /\ ret' = ret
        /\ vmIDs' = vmIDs /\ macs' = macs /\ ipByZone' = ipByZone /\ tags' = tags
    BY <1>9 DEF vars, maps
  <2>2. TypeOK'
    BY <2>1, Constant DEF IInv, TypeOK
  <2>3. Seen' = Seen
    BY <2>1, Constant DEF Seen
  <2>4. MapInv'
    <3>1. /\ \A n : VMID(n)' = VMID(n) /\ MacsOf(n)' = MacsOf(n)
          /\ \A n : AddressesOf(n)' = AddressesOf(n) /\ TagsOf(n)' = TagsOf(n)
          /\ \A n : RepeatsOwn(n)' <=> RepeatsOwn(n)
          /\ \A a, b : Clash(a, b)' <=> Clash(a, b)
      BY <2>1, Constant
    <3>2. rule = "uniqueness" =>
             /\ vmIDs' = {VMID(n)' : n \in Seen'}
             /\ macs' = UNION {MacsOf(n)' : n \in Seen'}
             /\ ipByZone' = UNION {AddressesOf(n)' : n \in Seen'}
             /\ \A a, b \in Seen' : a # b => ~Clash(a, b)'
             /\ \A a \in Seen' : ~RepeatsOwn(a)'
      BY <2>1, <2>3, <3>1 DEF IInv, MapInv
    <3>3. rule = "tags" /\ manifest.additional # <<>> =>
             tags' = UNION {TagsOf(n)' : n \in Seen'}
      BY <2>1, <2>3, <3>1 DEF IInv, MapInv
    <3>4. QED
      BY <2>1, <3>2, <3>3 DEF IInv, MapInv
  <2>5. LoopInv'
    BY <2>1, <2>3, Constant DEF IInv, LoopInv
  <2>6. VerdictInv'
    <3>1. errs' = {r \in Before[rule'] : Breaks(r)'}
      <4>1. Before[rule] \subseteq Rules
        BY DEF IInv, TypeOK, Before, Rules
      <4>2. QED
        BY <2>1, <4>1, Constant DEF IInv, VerdictInv
    <3>2. QED
      BY <2>1, <3>1 DEF IInv, VerdictInv
  <2>7. QED
    BY <2>2, <2>4, <2>5, <2>6 DEF IInv
<1>10. QED
  BY <1>1, <1>2, <1>3, <1>4, <1>5, <1>6, <1>7, <1>8, <1>9 DEF Next, Returned

-----------------------------------------------------------------------------
(* The inductive invariant holds of every manifest and every map order.    *)
THEOREM Invariance == Spec => []IInv
BY InitInv, StepInv, PTL DEF Spec

(* Every variable keeps its type, for every set of manifests.              *)
THEOREM TypeCorrect == Spec => []TypeOK
<1>1. IInv => TypeOK
  BY DEF IInv
<1>2. QED
  BY <1>1, Invariance, PTL

(* Validate returns nil exactly if the manifest breaks no rule, and its    *)
(* error names exactly the rules the manifest breaks, in whatever order Go *)
(* reads the map of the nodes and wherever a rule's loop stops.            *)
THEOREM RightVerdict == Spec => []VerdictIsRight
<1>1. Before["join"] = Rules
  BY DEF Before
<1>2. IInv => VerdictIsRight
  BY <1>1 DEF IInv, VerdictInv, VerdictIsRight
<1>3. QED
  BY <1>2, Invariance, PTL

(* Of the disks on one interface CreateVM's form has the last one.         *)
LEMMA LastStays ==
  ASSUME IsManifest(manifest), NEW n \in AllNodes, NEW i \in DOMAIN Disks(n), ~Replaced(n, i)
  PROVE  Form(n)[InterfaceOf(n, i)] = PlacedOn(Disks(n)[i])
<1> DEFINE s == InterfaceOf(n, i)
           last(k) == InterfaceOf(n, k) = s /\ ~Replaced(n, k)
<1>1. \A j, k \in DOMAIN Disks(n) : j > k \/ k > j \/ j = k
  BY NICType
<1>2. ASSUME NEW k \in DOMAIN Disks(n), last(k) PROVE k = i
  BY <1>1, <1>2 DEF Replaced
<1>3. (CHOOSE k \in DOMAIN Disks(n) : last(k)) = i
  BY <1>2
<1>4. s \in {InterfaceOf(n, k) : k \in DOMAIN Disks(n)}
  OBVIOUS
<1>5. QED
  BY <1>3, <1>4 DEF Form

(* What Validate accepts can be built: VMIDs are not shared, nor the text  *)
(* of a MAC; a disk that no later one replaces is put where the manifest   *)
(* says; and every tag of disk_layout.additional is on some disk.          *)
THEOREM Buildable == Spec => []ValidatedIsBuildable
<1>1. ASSUME IInv, ret = "ok" PROVE ValidatedIsBuildable
  <2>1. /\ ~Breaks("uniqueness") /\ ~Breaks("disks") /\ ~Breaks("tags")
        /\ IsManifest(manifest)
    BY <1>1 DEF IInv, TypeOK, VerdictInv, Before, Rules
  <2>2. \A a, b \in AllNodes : a # b => ~Clash(a, b)
    BY <2>1, UniquenessBroken
  <2>3. ASSUME NEW n \in AllNodes, NEW i \in DOMAIN Disks(n), ~Replaced(n, i),
               Disks(n)[i].class # None \/ Disks(n)[i].storage # None
        PROVE  Form(n)[InterfaceOf(n, i)] =
                   IF Disks(n)[i].storage # None THEN <<"storage", Disks(n)[i].storage>>
                   ELSE <<"class", Disks(n)[i].class>>
    <3>1. Disks(n)[i].class \in manifest.classes \cup {None}
      BY <2>1 DEF Breaks
    <3>2. Form(n)[InterfaceOf(n, i)] = PlacedOn(Disks(n)[i])
      BY <2>1, <2>3, LastStays
    <3>3. QED
      BY <2>3, <3>1, <3>2 DEF PlacedOn
  <2>4. ASSUME NEW i \in DOMAIN manifest.additional, manifest.additional[i] # None
        PROVE  \E n \in AllNodes : manifest.additional[i] \in TagsOf(n)
    BY <2>1, <2>4, TagsBroken
  <2>5. QED
    BY <2>2, <2>3, <2>4 DEF ValidatedIsBuildable, Clash, VMID
<1>2. IInv => ValidatedIsBuildable
  BY <1>1 DEF ValidatedIsBuildable
<1>3. QED
  BY <1>2, Invariance, PTL
=============================================================================
