-------------------------- MODULE MCChargePayments --------------------------
(* A finite instance of ChargePayments for TLC. *)
EXTENDS ChargePayments

\* From nothing to more than is due on a charge of 2.
UpToTooMuch == 0..3
=============================================================================
