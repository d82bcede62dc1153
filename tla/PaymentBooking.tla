---------------------------- MODULE PaymentBooking ----------------------------
(***************************************************************************)
(* What billing promises about the provider's payments, with nothing said  *)
(* of notifications, events, charges, amounts or transactions: a payment   *)
(* is unknown, then recorded, then approved.  It may skip a stage and be   *)
(* recorded again, but never goes back, and no step books two payments.    *)
(* It is the seam of two modules: WebhookPipeline runs a booking as one    *)
(* step in the middle of its notifications (WebhookPipeline!Booking), and  *)
(* ChargePayments runs the same booking as a transaction that races others *)
(* (ChargePayments!Booking).                                               *)
(***************************************************************************)
CONSTANT Payments       \* the provider's payments, each on a charge

VARIABLE stage          \* stage[p]: what billing holds of payment p

Stages == {"NONE", "PENDING", "APPROVED"}

BookingInit == stage = [p \in Payments |-> "NONE"]

\* A record is created, or reconciled with a report that does not take it back.
Book(p) ==
    /\ stage[p] # "APPROVED"
    /\ \E s \in Stages \ {"NONE"} : stage' = [stage EXCEPT ![p] = s]

BookingNext == \E p \in Payments : Book(p)

BookingSpec == BookingInit /\ [][BookingNext]_stage
=============================================================================
