--------------------------- MODULE MCValidators ---------------------------
(* Manifests of up to two nodes for TLC: those that differ in what the     *)
(* rules on NICs look at, and those that differ in what the others do.     *)
EXTENDS Validators

Nic(mac, network, usage, address) ==
    [mac |-> mac, network |-> network, usage |-> usage, address |-> address]

NoAddress == [ip |-> None, prefix |-> 0]
Address == {NoAddress, [ip |-> "a", prefix |-> 16], [ip |-> "a", prefix |-> 24]}

NicLists ==
    LET nic == {Nic(m, z, "public", a) :
                   m \in {"auto", "m"}, z \in {None, "z", "y"}, a \in Address}
    IN {<<>>} \cup {<<x>> : x \in nic} \cup {<<x, y>> : x, y \in nic}

UsageLists ==
    LET u(x) == Nic(None, None, x, NoAddress)
    IN {<<>>, <<u("vip")>>, <<u("public")>>, <<u("public"), u("private")>>}

DiskLists ==
    LET on(i, c, s, t) == [interface |-> i, class |-> c, storage |-> s, tag |-> t]
        d(c, s, t) == on(Default, c, s, t)
    IN {<<>>, <<d(None, None, "t")>>, <<d("c", None, None), d("b", None, "t")>>,
        <<d("c", "s", "u")>>,
        <<on(1, "c", None, "u"), on(0, None, "s", None)>>,
        <<on(1, "c", None, None), d(None, "s", "t")>>}

Make(nodes, cluster, scanIPs, additional) ==
    [malformed |-> FALSE, nodes |-> nodes, zones |-> {"z"}, classes |-> {"c"},
     cluster |-> cluster, scanIPs |-> scanIPs, additional |-> additional]

Machine(id, nics, disks) == [vmid |-> id, nics |-> nics, disks |-> disks]

InNics ==
    {Make([n \in {"p", "q"} |-> IF n = "p" THEN Machine(100, x, <<>>)
                                ELSE Machine(101, y, <<>>)],
          "other", 0, <<>>) :
        x \in NicLists, y \in {l \in NicLists : Len(l) < 2}}

InTheRest ==
    {Make([n \in {"p", "q"} |-> IF n = "p" THEN Machine(100, u, d)
                                ELSE Machine(id, v, e)], c[1], c[2], t) :
        id \in {100, 101}, u, v \in UsageLists, d, e \in DiskLists,
        c \in {<<"other", 0>>, <<"oracle-rac", 2>>, <<"oracle-rac", 3>>},
        t \in {<<>>, <<None, "t">>, <<"u">>}}

Malformed == {[m EXCEPT !.malformed = TRUE] :
                 m \in {Make([n \in {"p"} |-> Machine(100, <<>>, d)], "other", 0, <<>>) :
                           d \in DiskLists}}

AllManifests == InNics \cup InTheRest \cup Malformed
=============================================================================
