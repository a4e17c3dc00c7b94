------------------------------ MODULE MCAiField ------------------------------
(* AiField on all small maps.                                              *)
EXTENDS AiField
=============================================================================
