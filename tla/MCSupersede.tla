---------------------------- MODULE MCSupersede ----------------------------
(* Supersede on a small instance: interchangeable superseding threads.     *)
EXTENDS Supersede, TLC

SupersederSymmetry == Permutations(Superseders)
=============================================================================
