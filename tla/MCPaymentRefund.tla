-------------------------- MODULE MCPaymentRefund --------------------------
(* Small instances of PaymentRefund for TLC. *)
EXTENDS PaymentRefund, TLC

Symmetry == Permutations(Admins)
=============================================================================
