-------------------------------- MODULE MCHub --------------------------------
\* A personal group of b, set up by a, who has two devices.
EXTENDS Hub, TLC

CONSTANTS a, b

MCLeaf == {<<a, 1>>, <<a, 2>>, <<b, 1>>}
MCFounders == {<<a, 1>>}
MCSymmetry == Permutations(Digest)
=============================================================================
