-------------------------- MODULE MCCheckpointWriter --------------------------
EXTENDS CheckpointWriter, TLC

Symmetry == Permutations(Worker)
=============================================================================
