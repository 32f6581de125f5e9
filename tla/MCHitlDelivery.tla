--------------------------- MODULE MCHitlDelivery ---------------------------
(***************************************************************************)
(* Small instances of HitlDelivery for TLC.                                *)
(***************************************************************************)
EXTENDS HitlDelivery

MCQueueTypes == OutboundQueueTypes

\* The inbox reply (no type, no dedupe_key).
MCReply == {[type |-> "", dedupe_key |-> "", source |-> "inbox_mas"]}

MCSnapshots == 0 .. MaxMessages
=============================================================================
