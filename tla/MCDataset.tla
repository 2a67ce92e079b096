------------------------------ MODULE MCDataset ------------------------------
(* Instances for the runs of Dataset: emails that have everything or       *)
(* nothing, one that cannot be decoded, one with a broken lineage.         *)
EXTENDS Dataset

AllDated == [decodes |-> TRUE, has |-> ListColumns, date |-> 2020,
             received |-> 2021, x_received |-> 2022, lineage |-> TRUE]
Bare   == [AllDated EXCEPT !.has = {}, !.date = None, !.x_received = None,
                           !.lineage = FALSE]
Broken == [AllDated EXCEPT !.decodes = FALSE]

In(a, b) == [l \in Lists |-> IF l = "a" THEN a ELSE b]
Archived == {In(<<AllDated, Bare, Broken>>, <<>>),
             In(<<Broken, Bare, Broken>>, <<AllDated, Torn>>),
             In(<<AllDated, AllDated, Torn>>, <<Bare, Broken>>)}

Single == {[l \in Lists |-> <<AllDated>>]}
Arriving == {AllDated}
=============================================================================
