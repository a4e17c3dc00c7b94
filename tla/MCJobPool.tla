------------------------------ MODULE MCJobPool ------------------------------
(* JobPool with a few jobs and two worker threads.                         *)
EXTENDS JobPool
=============================================================================
