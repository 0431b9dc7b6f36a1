----------------------------- MODULE MCSessions -----------------------------
(* Instances of Sessions for TLC. *)
EXTENDS Sessions, TLC

CONSTANTS t1, t2, t3, p1, p2

SymTokens == Permutations(Tokens)
SymRequests == Permutations(Requests)
SymBoth == SymTokens \cup SymRequests

=============================================================================
