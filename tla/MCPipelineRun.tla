---------------------------- MODULE MCPipelineRun ----------------------------
(* A custody name and a metadata name; two pages and two sections.          *)
EXTENDS PipelineRun
=============================================================================
