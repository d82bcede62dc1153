------------------------- MODULE MCWebhookPipeline -------------------------
(* Finite instances of WebhookPipeline for TLC. *)
EXTENDS WebhookPipeline, TLC

Symmetry ==
    Permutations(Notifications) \cup Permutations(Retries)
        \cup Permutations(Deliveries) \cup Permutations(Payments)
=============================================================================
