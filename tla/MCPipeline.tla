----------------------------- MODULE MCPipeline -----------------------------
(* Every plan of three stages over two facts, each stage with its own check. *)
EXTENDS Pipeline

MCAttests == [s \in Stages |-> {s}]
=============================================================================
