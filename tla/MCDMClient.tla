----------------------------- MODULE MCDMClient -----------------------------
(***************************************************************************)
(* One client whose window of MAX_MSGS messages goes round several times   *)
(* in a pass.                                                              *)
(***************************************************************************)
EXTENDS DMClient
=============================================================================
