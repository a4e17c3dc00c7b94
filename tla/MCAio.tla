-------------------------------- MODULE MCAio --------------------------------
(* Aio with a ring of two bytes, which wraps and grows within six bytes.   *)
EXTENDS Aio
=============================================================================
