------------------------ MODULE MCPaymentFulfillment ------------------------
(* Small instances of PaymentFulfillment for TLC. *)
EXTENDS PaymentFulfillment, TLC

Symmetry == Permutations(Workers)
=============================================================================
