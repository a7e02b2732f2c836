--------------------------- MODULE MCChunkStorage ---------------------------
EXTENDS ChunkStorage, TLC

CONSTANTS a1, a2, c1, c2

Symmetry == Permutations(Arrays) \cup Permutations(Coords)
=============================================================================
