-------------------------- MODULE MCDeliveryPipeline --------------------------
(* Small instances of DeliveryPipeline for TLC.                             *)
EXTENDS DeliveryPipeline

=============================================================================
