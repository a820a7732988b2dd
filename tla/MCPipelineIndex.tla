-------------------------- MODULE MCPipelineIndex --------------------------
(* A small instance of PipelineIndex for TLC. *)
EXTENDS PipelineIndex, TLC

\* Nothing tells one id, platform or digest from another.
Alike == Permutations(Ids) \cup Permutations(Platforms) \cup Permutations(Digests)
=============================================================================
