----------------------------- MODULE MCScheduler -----------------------------
(* Instances for the runs of Scheduler: three lists, two indexes of each.  *)
EXTENDS Scheduler

ThreeLists == <<"a", "b", "c">>
TwoIndexes == <<1, 3>>
AllModes == {"once", "loop", "range"}
=============================================================================
