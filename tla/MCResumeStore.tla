---------------------------- MODULE MCResumeStore ----------------------------
(* The instances of ResumeStore that TLC checks. *)
EXTENDS ResumeStoreProps, TLC

CONSTANTS f1, f2, p1, p2

ShortAndLong == f1 :> 1 @@ f2 :> 2
Processes == {p1, p2}
Alike == Permutations(Processes)
=============================================================================
