----------------------------- MODULE MCDelivery -----------------------------
(* Small instances of completion delivery for TLC.                           *)
EXTENDS DeliveryProps
=============================================================================
