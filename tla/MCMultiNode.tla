---------------------------- MODULE MCMultiNode ----------------------------
(* Instances of MultiNode for TLC, and what the documentation says of it.  *)
EXTENDS MultiNode

JustFirst == {1}
NoNodes == {}

(* Two nodes share one token or have one each; the second may lack an IP.  *)
AllOptions ==
    [continueOnError : BOOLEAN, skipKickstart : BOOLEAN,
     kickstartStorage : BOOLEAN, skipFinalize : BOOLEAN, dryRun : BOOLEAN,
     maxConc : {1, 2}, addressed : {Nodes, JustFirst}]

(* Build, upload and attach the kickstart ISO: the longest Apply.          *)
BuildOptions ==
    {o \in AllOptions : ~o.skipKickstart /\ o.kickstartStorage /\ ~o.dryRun
                        /\ o.maxConc = 2 /\ o.addressed = Nodes}

-----------------------------------------------------------------------------
(* A statement of the documentation that the code does not keep: the run   *)
(* of this property expects a counterexample.                              *)

(* docs/user-guide.md, "up internally calls": the ISO that was uploaded is *)
(* the one attached, so what ide3 names is in storage.                     *)
AttachedIsoIsStored ==
    \A n \in Nodes :
        vm[n].by = "proxctl" /\ vm[n].ide3 => AttachedAs \in vols[n]
=============================================================================
