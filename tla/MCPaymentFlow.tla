--------------------------- MODULE MCPaymentFlow ---------------------------
(* Instances of PaymentFlow for TLC. *)
EXTENDS PaymentFlow, TLC

Symmetry == Permutations(Call) \cup Permutations(Ref) \cup Permutations(Flow)
=============================================================================
