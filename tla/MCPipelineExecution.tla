------------------------ MODULE MCPipelineExecution -------------------------
(* Instances of PipelineExecution for TLC. *)
EXTENDS PipelineExecution, TLC

CONSTANTS t1, t2, i1, i2
=============================================================================
