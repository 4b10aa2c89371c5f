----------------------------- MODULE MCFileStore ------------------------------
(* Model values and bounds for FileStore. *)
EXTENDS FileStore, TLC

Symmetry == Permutations(Pushes)
===============================================================================
