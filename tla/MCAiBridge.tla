----------------------------- MODULE MCAiBridge -----------------------------
(* AiBridge for a few ticks.                                               *)
EXTENDS AiBridge
=============================================================================
