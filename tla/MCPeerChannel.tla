---------------------------- MODULE MCPeerChannel ----------------------------
EXTENDS PeerChannel

MCMaxMsgs == 2
MCMaxSends == 2
=============================================================================
