--------------------------- MODULE MCEncodeBudget ---------------------------
(* Instances of EncodeBudget for TLC. *)
EXTENDS EncodeBudget

=============================================================================
