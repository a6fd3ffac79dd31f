----------------------------- MODULE MCPipeline ------------------------------
(* Instance of Pipeline; the cfg gives the bounds. *)
EXTENDS Pipeline
=============================================================================
