----------------------- MODULE MCOrderReconciliation -----------------------
(***************************************************************************)
(* OrderReconciliation for TLC.                                            *)
(***************************************************************************)
EXTENDS OrderReconciliation, TLC

=============================================================================
