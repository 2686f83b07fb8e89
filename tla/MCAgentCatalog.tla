--------------------------- MODULE MCAgentCatalog ---------------------------
(***************************************************************************)
(* Instances of AgentCatalog for TLC.  Two machines are enough for one to  *)
(* be new while another is listed; with Keep = 1 and three days a job can  *)
(* expire and come back.                                                   *)
(***************************************************************************)
EXTENDS AgentCatalog, TLC

\* Machines and exporters are interchangeable.
Symmetry == Permutations(Machines) \cup Permutations(Exporters)
=============================================================================
