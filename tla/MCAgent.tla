------------------------------ MODULE MCAgent -------------------------------
EXTENDS Agent, TLC

CONSTANTS c, b, h1, h2, spare

One == c :> 1 @@ b :> 1
More == c :> 2 @@ b :> 1

Symmetry == Permutations({h1, h2})
=============================================================================
