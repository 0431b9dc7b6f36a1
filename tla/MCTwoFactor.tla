---------------------------- MODULE MCTwoFactor ----------------------------
\* TLC instances of TwoFactor.
EXTENDS TwoFactor, TLC

SymRequests == Permutations(Requests)
=============================================================================
