--------------------------- MODULE MCArchiveWriter ---------------------------
(* The budget of mishaps for the run of ArchiveWriter. *)
EXTENDS ArchiveWriter

OneCrash == [k \in Mishaps |-> IF k = "crash" THEN 1 ELSE 0]
=============================================================================
