---------------------------- MODULE MCPlacement ----------------------------
(* Two clusters that compete for one management cluster, or one cluster and *)
(* two management clusters.                                                 *)
EXTENDS Placement

CompetitionOrChoice ==
    {[clusters |-> {"c1", "c2"}, eligible |-> {"m1"}],
     [clusters |-> {"c1"}, eligible |-> {"m1", "m2"}]}
=============================================================================
