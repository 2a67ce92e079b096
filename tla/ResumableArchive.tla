--------------------------- MODULE ResumableArchive ---------------------------
(***************************************************************************)
(* What archiving a list promises, without writers, files or servers:      *)
(* articles become settled (archived, or known to be gone) and stay so,    *)
(* and the mark that __progress.yaml keeps moves forward only, over        *)
(* settled articles only.  So whoever resumes behind the mark misses       *)
(* nothing.                                                                *)
(***************************************************************************)
EXTENDS Integers

VARIABLES settled, mark

Init == settled \subseteq Nat /\ mark = 0

(* Articles are archived, or disappear from the source. *)
Settle == settled \subseteq settled' /\ settled' \subseteq Nat /\ mark' = mark

(* Progress is recorded. *)
Advance ==
  /\ mark' \in Nat /\ mark' >= mark
  /\ 1..mark' \subseteq settled
  /\ settled' = settled

Next == Settle \/ Advance

Spec == Init /\ [][Next]_<<settled, mark>>
=============================================================================
