------------------------- MODULE MCWebhookDelivery -------------------------
(***************************************************************************)
(* WebhookDelivery on small instances.  Ann's scan is run; she has two     *)
(* webhooks and Bob has one.                                               *)
(***************************************************************************)
EXTENDS WebhookDelivery

CONSTANTS ann1, ann2, bob1, ann, bob, s1, r1, r2, hook, bad  \* model values

MCHookUser == [h \in Hooks |-> IF h = bob1 THEN bob ELSE ann]
MCScanUser == [s \in Scans |-> ann]

\* One of Ann's webhooks has a URL that httpx rejects; Bob has the same as her other.
MCOneBad == [h \in Hooks |-> IF h = ann2 THEN bad ELSE hook]

\* Every run is of the same scan, as after a redelivery.
MCRerun == [r \in Runs |-> s1]
=============================================================================
