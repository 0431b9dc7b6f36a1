----------------------------- MODULE MCApiKeys -----------------------------
(* Instances of ApiKeys for TLC. *)
EXTENDS ApiKeys, TLC

CONSTANTS p1, p2, p3, p4, p5

MCNoExpiry == NoExpiry
MCManagers == {<<"ann", "org">>}

SymRequests == Permutations(Requests)

=============================================================================
