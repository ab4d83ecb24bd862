---------------------------- MODULE MCDiscovery -----------------------------
EXTENDS Discovery
=============================================================================
