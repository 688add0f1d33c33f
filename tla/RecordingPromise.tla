-------------------------- MODULE RecordingPromise --------------------------
(***************************************************************************)
(* What the capture component of the desktop application promises of each  *)
(* recording (desktop/README.md, "Capture"), whatever windows, pages and   *)
(* timers it needs: recordings come one at a time; each has one outcome,   *)
(* which does not change; "saved" only if the whole file is at the         *)
(* destination; another program's file is never replaced; and what was     *)
(* written is never taken away.                                            *)
(***************************************************************************)

VARIABLES
  active,    \* a recording is under way
  outcome,   \* outcome of the last recording begun, "none" until it is decided
  file       \* what is on disk of it

vars == <<active, outcome, file>>

Outcome == {"canceled", "saved", "failed"}

(* "partial": only the .partial file; "both": it and the complete           *)
(* destination; "final": the complete destination alone; "foreign": the     *)
(* destination is somebody else's, without or with a .partial file.         *)
File == {"nothing", "partial", "both", "final", "foreign", "foreign_partial"}

Init == active = FALSE /\ outcome = "none" /\ file = "nothing"

\* A new recording has a new name.
Begin == ~active /\ active' = TRUE /\ outcome' = "none" /\ file' = "nothing"

Grow(from, to) == active /\ file = from /\ file' = to /\ UNCHANGED <<active, outcome>>

\* The recording is written, published, and loses its .partial name.
Write ==
  outcome = "none" /\ (Grow("nothing", "partial") \/ Grow("partial", "both") \/ Grow("both", "final"))

\* Another program takes the name while it is free.
Foreign == Grow("nothing", "foreign") \/ Grow("partial", "foreign_partial")

\* A recording that is canceled is over at once.
Settle(o) ==
  /\ active /\ outcome = "none" /\ outcome' = o
  /\ o = "saved" => file = "final"
  /\ o = "canceled" => file \in {"nothing", "foreign"}
  /\ active' = (o # "canceled")
  /\ UNCHANGED file

Rest == active /\ outcome # "none" /\ active' = FALSE /\ UNCHANGED <<outcome, file>>

Next == Begin \/ Write \/ Foreign \/ Rest \/ \E o \in Outcome : Settle(o)

Spec == Init /\ [][Next]_vars

=============================================================================
