----------------------------- MODULE MCPipeline -----------------------------
(* The pipeline under TLC: the bounds are given in the cfg files. *)
EXTENDS PipelineInv
=============================================================================
