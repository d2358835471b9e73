---------------------------- MODULE MCGlobalSync ----------------------------
(***************************************************************************)
(* Two learners that share a vocabulary; the sampler moves tokens of the   *)
(* first word, the other words only keep the window busy.                  *)
(***************************************************************************)
EXTENDS GlobalSync, TLC

MCInitialCount == [c \in Clients |-> [w \in Entities |-> IF w = 0 THEN 1 ELSE 0]]

MCChanging == {0}

Symmetric == Permutations(Clients)
=============================================================================
