----------------------------- MODULE MCIdpToken -----------------------------
EXTENDS IdpToken, TLC

\* Two requests of one client, with two verifiers.
MCFlow == [client : {"marvel"}, uri : {"callback"}, challenge : {1, 2}]

Symmetric == Permutations(Worker) \cup Permutations(Account)
             \cup Permutations(Key) \cup Permutations(Admin)
============================================================================
