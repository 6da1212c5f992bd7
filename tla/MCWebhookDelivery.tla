------------------------- MODULE MCWebhookDelivery -------------------------
(* Threads that share two keys, with status codes at the ends of their ranges. *)
EXTENDS WebhookDelivery, TLC

MCCodes == {299, 429, 600}
MCDeliveryIds == 1..3
Symmetry == Permutations(Clients) \cup Permutations(Keys) \cup Permutations(Requests)
=============================================================================
