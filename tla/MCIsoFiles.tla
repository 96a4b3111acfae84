---------------------------- MODULE MCIsoFiles ----------------------------
(* An instance of IsoFiles for TLC: workers are alike, and so are nodes.   *)
EXTENDS IsoFiles, TLC

Alike == Permutations(Workers) \cup Permutations(Names)
=============================================================================
