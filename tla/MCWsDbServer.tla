---------------------------- MODULE MCWsDbServer ----------------------------
EXTENDS WsDbServer, TLC

Symm == Permutations(Conn) \cup Permutations(Req)

\* All the connections or all the calls, not both at once; without inner TLS not
\* all the connections.
Narrow ==
  \/ \E c \in Conn : sock[c] = "new"
  \/ innerTls /\ \E r \in Req : pc[r] = "idle"
=============================================================================
