------------------------ MODULE MCReceiptProjection ------------------------
(***************************************************************************)
(* Instances of ReceiptProjection for TLC.                                 *)
(***************************************************************************)
EXTENDS ReceiptProjection, TLC

NoDamage == {}
AnyDamage == {"prefix", "unterminated"}
FirstDecides == {1}
=============================================================================
