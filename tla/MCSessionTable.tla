--------------------------- MODULE MCSessionTable ---------------------------
(* An instance of SessionTable for TLC. *)
EXTENDS SessionTable

Addr(s, p, d) == [saddr |-> s, sport |-> p, daddr |-> d, dport |-> 25]

\* A client, a connection from its server's port 25 back to its host, in the
\* same bucket, and a second client in another.
MCConns == {Addr("a", 1000, "b"), Addr("b", 25, "a"), Addr("a", 1001, "b")}
MCHashIndex == [c \in Conns |-> IF c.sport = 1001 THEN 5 ELSE 7]
=============================================================================
