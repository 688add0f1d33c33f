---------------------------- MODULE MCCoreSetup -----------------------------
(* The instance of CoreSetup that TLC checks; the .cfg file gives the      *)
(* constants.                                                              *)
EXTENDS CoreSetup
=============================================================================
