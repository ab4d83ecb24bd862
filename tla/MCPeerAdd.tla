----------------------------- MODULE MCPeerAdd ------------------------------
EXTENDS PeerAdd
=============================================================================
