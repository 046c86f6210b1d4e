------------------------------ MODULE MCMethod3 ------------------------------
EXTENDS Method3

\* one fault of each kind: enough for a lost SYN, a duplicated SYN_ACK
\* read after success, and a reflected packet of either type
MCMaxLoss == 1
MCMaxDup == 1
MCMaxHairpin == 1
=============================================================================
