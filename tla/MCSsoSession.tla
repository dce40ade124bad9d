---- MODULE MCSsoSession ----
EXTENDS SsoSession, TLC
Symm == Permutations(Worker) \cup Permutations(Sid)
====
