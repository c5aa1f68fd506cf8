---------------------------- MODULE MCBlocktank ----------------------------
(* Instances of Blocktank for TLC.                                         *)
EXTENDS Blocktank, TLC

\* Tasks and orders are interchangeable (only used without liveness).
Symmetry == Permutations(Tasks) \cup Permutations(Orders)
=============================================================================
