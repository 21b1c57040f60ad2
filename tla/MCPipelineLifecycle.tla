------------------------ MODULE MCPipelineLifecycle ------------------------
(* Instances of PipelineLifecycle for TLC.                                 *)
EXTENDS PipelineLifecycle
=============================================================================
