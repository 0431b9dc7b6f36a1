-------------------------- MODULE MCOrganizations --------------------------
(* Model values, the roles requests ask for and symmetry for Organizations. *)
EXTENDS Organizations, TLC

CONSTANTS o1, m1, m2, m3, m4, i1, i2, i3, p1, p2, p3

MCAllRoles == {{"owner"}, {"admin"}, {"member"}}
MCMember == {{"member"}}

SymAll == Permutations(Members) \cup Permutations(Invites)
            \cup Permutations(Requests)

=============================================================================
