-------------------------- MODULE MCDeliveryOutbox --------------------------
(***************************************************************************)
(* DeliveryOutbox for TLC.                                                 *)
(***************************************************************************)
EXTENDS DeliveryOutbox, TLC

=============================================================================
