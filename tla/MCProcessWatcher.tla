--------------------------- MODULE MCProcessWatcher ---------------------------
(***************************************************************************)
(* ProcessWatcher for TLC: pids and executables are interchangeable in the *)
(* runs that check safety.                                                 *)
(***************************************************************************)
EXTENDS ProcessWatcher, TLC

HostSymmetry == Permutations(Pids) \cup Permutations(Exes)
=============================================================================
