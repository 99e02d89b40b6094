---------------------------- MODULE MCClaimGate ----------------------------
(* Model-checking instances of ClaimGate.                                  *)
EXTENDS ClaimGate, TLC

Ids == Permutations(Workers)

=============================================================================
