-------------------------- MODULE MCClientProvider --------------------------
EXTENDS ClientProvider, TLC

\* Contexts are only compared.
MCSymmetry == Permutations(Contexts)
=============================================================================
