------------------------------ MODULE MCTracker ------------------------------
(***************************************************************************)
(* A tracker with a few listeners and clients, which are interchangeable.  *)
(* (Liveness is checked without symmetry.)                                 *)
(***************************************************************************)
EXTENDS Tracker, TLC

Symmetry == Permutations(Conn) \cup Permutations(Listener)
=============================================================================
