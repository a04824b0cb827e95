-------------------------- MODULE MCPipelineActivation --------------------------
EXTENDS PipelineActivation, TLC

\* Every request asks for one reading.
One == {{r} : r \in Reading}

Symmetry ==
  Permutations(Controller) \cup Permutations(Activation \ Deployed) \cup Permutations(Reading)
=============================================================================
