----------------------------- MODULE MCCapture -----------------------------
(* Capture with the bounds of the configuration; there is nothing to permute. *)
EXTENDS Capture

=============================================================================
