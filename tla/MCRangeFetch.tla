----------------------------- MODULE MCRangeFetch -----------------------------
(* Range texts for the run of RangeFetch. *)
EXTENDS RangeFetch

CONSTANTS w1, w2

P(lo, hi) == [lo |-> lo, hi |-> hi]

(* "9-10", "120,9", "9,9", "9,,": article 10 is not there. *)
MCTexts == {<<P(9, 10)>>, <<P(120, 120), P(9, 9)>>, <<P(9, 9), P(9, 9)>>,
            <<P(9, 9), P(1, 0)>>}

(* A descending text only behind a progress of 10: the other one shows     *)
(* nothing new and many states.                                            *)
FewInit == Init /\ (old = 0 => text[1].lo = 9)
FewSpec ==
  /\ FewInit /\ [][Next]_vars
  /\ WF_vars(Produce) /\ \A w \in Workers : WF_vars(Work(w))
=============================================================================
