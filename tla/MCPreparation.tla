---------------------------- MODULE MCPreparation ----------------------------
(***************************************************************************)
(* Instance for TLC.                                                       *)
(***************************************************************************)
EXTENDS Preparation
=============================================================================
