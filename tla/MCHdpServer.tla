------------------------------ MODULE MCHdpServer ------------------------------
EXTENDS HdpServer

CONSTANTS k1, k2

\* two kernel tasks sharing the remote, two calls each: tickets 1..4 and
\* every interleaving of their ticket and push steps
MCKernels == {k1, k2}
MCMaxRequests == 2
\* one inbound connection, accepted before or after the shutdown
MCMaxAccepts == 1
\* wider than the 4 tickets the calls draw, as usize is in practice: the
\* counter does not wrap
MCTicketSpace == 8
=============================================================================
