----------------------------- MODULE MCTcpServer -----------------------------
\* Connections are interchangeable in safety runs.
EXTENDS TcpServer, TLC

Symmetry == Permutations(Conns)
=============================================================================
