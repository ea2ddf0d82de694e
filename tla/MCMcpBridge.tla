----------------------------- MODULE MCMcpBridge -----------------------------
(***************************************************************************)
(* Instances of McpBridge for TLC.  Views and stream handlers are          *)
(* interchangeable; calls are not, they are numbered.                      *)
(***************************************************************************)
EXTENDS McpBridge, TLC

Symmetry == Permutations(Views) \union Permutations(Streams)
=============================================================================
