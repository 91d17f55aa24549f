----------------------------- MODULE MCPipeline ------------------------------
(* The pipeline for TLC, with room for one chunk in each channel. *)
EXTENDS Pipeline
=============================================================================
