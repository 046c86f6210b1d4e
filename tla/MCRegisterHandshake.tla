------------------------- MODULE MCRegisterHandshake -------------------------
EXTENDS RegisterHandshake

CONSTANTS c1, c2

\* two clients registering at once: the sessions interleave
MCClients == {c1, c2}
=============================================================================
