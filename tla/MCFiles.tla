------------------------------- MODULE MCFiles -------------------------------
(* Files for TLC; the files are interchangeable. *)
EXTENDS Files, TLC

InoSymmetry == Permutations(Inos)
==============================================================================
