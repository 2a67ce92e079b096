----------------------------- MODULE MCNntpGroup -----------------------------
(* Budgets of mishaps for the runs of NntpGroup. *)
EXTENDS NntpGroup

Allow(kinds) == [k \in Mishaps |-> IF k \in kinds THEN 1 ELSE 0]

AllOnce     == Allow(Mishaps)
NetTwice    == [Allow({"stop"}) EXCEPT !["net"] = 2]
=============================================================================
