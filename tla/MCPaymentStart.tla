--------------------------- MODULE MCPaymentStart ---------------------------
(* Instances of PaymentStart for TLC: every constant is a model value or a   *)
(* set of them, given by the configuration.                                  *)
EXTENDS PaymentStart, TLC

=============================================================================
