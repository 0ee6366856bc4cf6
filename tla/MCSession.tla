------------------------------- MODULE MCSession -------------------------------
(* Instances of MobileSession for TLC. *)
EXTENDS MobileSession, TLC

SlotSymmetry == Permutations(Req)

=============================================================================
