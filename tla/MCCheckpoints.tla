--------------------------- MODULE MCCheckpoints ---------------------------
(* The iterations of one learner for TLC; the cfg gives all constants. *)
EXTENDS Checkpoints
=============================================================================
