--------------------------- MODULE MCDesktopShell ---------------------------
(* The instance of DesktopShell that TLC checks; the .cfg files give the   *)
(* constants.                                                              *)
EXTENDS DesktopShell
=============================================================================
