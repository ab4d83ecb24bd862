--------------------------- MODULE MCConnections ----------------------------
EXTENDS Connections, TLC

Symmetric == Permutations(Device) \cup Permutations(Worker)
=============================================================================
