------------------------------ MODULE MCSession ------------------------------
(* Symmetry for the safety runs of Session. *)
EXTENDS Session, TLC

Symmetry == Permutations(Thread) \cup Permutations(Module)
=============================================================================
