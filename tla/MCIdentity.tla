----------------------------- MODULE MCIdentity -----------------------------
\* TLC instances of Identity.
EXTENDS Identity, TLC

\* Nobody has an account at the provider.
MCNoReports == {}
\* Account 10 comes with a new address or that of user 5, account 11 with user 5's or
\* the administrator's.
MCReports == [who : {10}, email : {"c", "b"}, vouched : {TRUE}]
               \cup [who : {10}, email : {"c"}, vouched : {FALSE}]
               \cup [who : {11}, email : {"b"}, vouched : BOOLEAN]
               \cup [who : {11}, email : {"a"}, vouched : {TRUE}]

SymRequests == Permutations(Requests)
=============================================================================
