----------------------------- MODULE MCHarvester -----------------------------
(* A small tree for Harvester: a chain g, a1, .., a5 and a dead branch      *)
(* b2, .., b4 that leaves it after block 1, cut off at MaxHeight.           *)
EXTENDS Harvester, TLC

CONSTANTS g, a1, a2, a3, a4, a5, b2, b3, b4, null

Trunk == 0 :> g @@ 1 :> a1 @@ 2 :> a2 @@ 3 :> a3 @@ 4 :> a4 @@ 5 :> a5
Branch == 0 :> g @@ 1 :> a1 @@ 2 :> b2 @@ 3 :> b3 @@ 4 :> b4

MCBlock == UNION {{p[n] : n \in Height \cap DOMAIN p} : p \in {Trunk, Branch}}

MCNumber ==
  g :> 0 @@ a1 :> 1 @@ a2 :> 2 @@ a3 :> 3 @@ a4 :> 4 @@ a5 :> 5
    @@ b2 :> 2 @@ b3 :> 3 @@ b4 :> 4

MCParent ==
  g :> null @@ a1 :> g @@ a2 :> a1 @@ a3 :> a2 @@ a4 :> a3 @@ a5 :> a4
    @@ b2 :> a1 @@ b3 :> b2 @@ b4 :> b3

MCPaths ==
  UNION {{[i \in 0 .. n |-> p[i]] : n \in Height \cap DOMAIN p} : p \in {Trunk, Branch}}
==============================================================================
