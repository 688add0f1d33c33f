--------------------------- MODULE MCAgentControl ---------------------------
(* AgentControl on small sets of model values; the bounds are in the .cfg   *)
(* files.                                                                   *)
EXTENDS AgentControl

\* Bound: after a viewer has detached, its next attachment is a short one.
ShortAgain ==
  \A v \in Viewer : agent[v].binding > 1 => agent[v].epoch <= 2 /\ agent[v].pver <= 1
=============================================================================
