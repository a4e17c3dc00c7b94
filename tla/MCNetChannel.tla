---------------------------- MODULE MCNetChannel ----------------------------
(* An instance of NetChannel for TLC. *)
EXTENDS NetChannel, TLC

Bounds(c, s) == ("client" :> c) @@ ("server" :> s)
WrapStart == Bounds(4, 5)
WrapMaxSent == Bounds(6, 6)
WrapNetCap == Bounds(1, 0)
=============================================================================
