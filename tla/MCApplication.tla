--------------------------- MODULE MCApplication ---------------------------
(***************************************************************************)
(* The application's parts for TLC: clerks, staff and goroutines are       *)
(* interchangeable.                                                        *)
(***************************************************************************)
EXTENDS Application, TLC

Symmetry == Permutations(Clerk) \cup Permutations(Staff) \cup Permutations(Job)
=============================================================================
