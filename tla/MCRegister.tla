----------------------------- MODULE MCRegister -----------------------------
(* Register for TLC. *)
EXTENDS Register
=============================================================================
