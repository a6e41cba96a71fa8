-------------------------- MODULE MCLibraryManager --------------------------
(* Small instances of LibraryManager for TLC. *)
EXTENDS LibraryManager, TLC

(* Slots of goroutines are interchangeable; so are directories.  Sound for *)
(* the runs without liveness properties only.                              *)
Symmetry == Permutations(Jobs) \cup Permutations(Roots)

=============================================================================
