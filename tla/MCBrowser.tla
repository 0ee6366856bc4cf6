------------------------------- MODULE MCBrowser -------------------------------
(* Instances of WebSession for TLC. *)
EXTENDS WebSession, TLC

WebSymmetry == Permutations(Req) \cup Permutations(Tab) \cup Permutations(Instance)

=============================================================================
