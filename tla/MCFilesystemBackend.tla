-------------------------- MODULE MCFilesystemBackend --------------------------
EXTENDS FilesystemBackend

CONSTANTS c1, c2, u1, u2

MCCIDs == {c1, c2}
MCUpdates == {u1, u2}

\* two updates of one account, a peer registration between the two
\* accounts, and the deletion of one of them
MCOps ==
    <<[kind |-> "update", cid |-> c1, upd |-> u1],
      [kind |-> "update", cid |-> c1, upd |-> u2],
      [kind |-> "p2p", cid |-> c1, peer |-> c2],
      [kind |-> "delete", cid |-> c2]>>

\* every kind of call: the above, the client side of a registration and
\* of a deregistration, a deregistration and a purge
MCOpsAll ==
    MCOps \o <<[kind |-> "p2p_client", cid |-> c2, peer |-> c1],
               [kind |-> "p2p_client_dereg", cid |-> c1, peer |-> c2],
               [kind |-> "p2p_dereg", cid |-> c2, peer |-> c1],
               [kind |-> "purge"]>>
=============================================================================
