------------------------------- MODULE MCJob --------------------------------
(* Job with a few machines and attempts. *)
EXTENDS Job

MCClients == 0..N - 1
=============================================================================
