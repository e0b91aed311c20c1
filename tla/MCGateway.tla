----------------------------- MODULE MCGateway -----------------------------
EXTENDS Gateway, TLC
Permuted == Permutations(Requests) \cup Permutations(Injectors)
=============================================================================
