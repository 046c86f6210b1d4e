------------------------------- MODULE Method3 -------------------------------
(***************************************************************************)
(* UDP hole punching, method three, of citadel_wire                        *)
(* (src/citadel_wire/src/udp_traversal/linear/method3.rs).                 *)
(*                                                                         *)
(* Both nodes run Method3::execute_either at about the same time.  Each    *)
(* joins two tasks over one UdpSocket:                                     *)
(*   - the sender task, send_syn_barrage: `count` = 2 rounds, one SYN      *)
(*     (carrying the round's TTL) per round to the peer's endpoint;        *)
(*   - the receiver task, recv_until under a 2000 ms timeout: the first    *)
(*     SYN from the peer is recorded in observed_addrs_on_syn and answered *)
(*     by three SYN_ACKs (TTL 4, 60, 120, sent one tick apart while the    *)
(*     loop does not read); a SYN_ACK that follows a received SYN is the   *)
(*     success, which also stops the socket's outgoing traffic.            *)
(* Writes go through UdpWrapper, whose lock holds a flag that              *)
(* stop_outgoing_traffic clears; a send with the flag cleared is skipped   *)
(* and the barrage ends early.                                             *)
(*                                                                         *)
(* The network is UDP between two NATs: packets are reordered, may be lost *)
(* (at most MaxLoss), duplicated (at most MaxDup) or reflected back to     *)
(* their sender by a hairpinning NAT (at most MaxHairpin), and a NAT drops *)
(* what arrives before its own node has sent anything outward (the         *)
(* mapping is not open yet).  The timer of recv_until may fire at any      *)
(* point before it returns when Timeouts is TRUE.                          *)
(*                                                                         *)
(* Abstractions: a node's HolePunchID and its NAT-translated address are   *)
(* the node itself; encryption (EncryptedConfigContainer) is an            *)
(* authenticated identity map, so packets that fail to decrypt or decode  *)
(* are never produced; endpoints is one predicted address.                 *)
(***************************************************************************)
EXTENDS Naturals, Sequences, Bags, BagsExt, FiniteSets

CONSTANTS
    Initiator, Receiver,   \* RelativeNodeType, one per node
    MaxLoss,               \* packets the network may lose
    MaxDup,                \* packets the network may duplicate
    MaxHairpin,            \* packets a NAT may reflect to their sender
    Timeouts,              \* whether the 2000 ms recv timer may fire
    None                   \* model value

Nodes == {Initiator, Receiver}

Peer(n) == IF n = Initiator THEN Receiver ELSE Initiator

\* send_syn_barrage(ttl_init = 20, delta_ttl = Some(60), count = 2, ...)
SynTtls == <<20, 80>>
\* recv_until answers a SYN with SYN_ACKs at these TTLs
SynAckTtls == <<4, 60, 120>>

Msg ==
    [type: {"Syn"}, id: Nodes, ttl: {20, 80}, from: Nodes, to: Nodes]
    \cup [type: {"SynAck"}, id: Nodes, from: Nodes, to: Nodes]

VARIABLES
    synsLeft,    \* sender task: barrage rounds not yet sent
    rpc,         \* receiver task: "listen", "synack" (answering) or "done"
    acksLeft,    \* receiver task: SYN_ACKs still to send in the answer loop
    hasSyn,      \* recv_until's has_received_syn
    observed,    \* keys of observed_addrs_on_syn
    sendable,    \* the flag behind UdpWrapper's lock
    result,      \* what recv_until returned: "pending", "success", "timeout"
    punched,     \* the TargettedSocketAddr's unique_id on success
    natOpen,     \* the node's NAT has a mapping toward the peer
    net,         \* bag of packets in flight
    faults       \* [loss, dup, hairpin] faults used so far

nodeVars == <<synsLeft, rpc, acksLeft, hasSyn, observed, sendable, result, punched>>
vars == <<nodeVars, natOpen, net, faults>>

\* Putting a packet on the wire through n's NAT opens n's mapping.
Emit(n, m) ==
    /\ net' = BagAdd(net, m)
    /\ natOpen' = [natOpen EXCEPT ![n] = TRUE]

Consume(m) == net' = BagRemove(net, m)

-----------------------------------------------------------------------------
(* Sender task                                                              *)

\* send_syn_barrage, one iteration of the TTL loop: after the interval
\* tick, UdpWrapper::send the SYN of this round; if the wrapper reports the
\* traffic stopped, the barrage returns early.
SendSynBarrage(n) ==
    /\ synsLeft[n] > 0
    /\ IF sendable[n]
       THEN LET round == Len(SynTtls) - synsLeft[n] + 1
            IN  /\ Emit(n, [type |-> "Syn", id |-> n, ttl |-> SynTtls[round],
                            from |-> n, to |-> Peer(n)])
                /\ synsLeft' = [synsLeft EXCEPT ![n] = @ - 1]
       ELSE /\ synsLeft' = [synsLeft EXCEPT ![n] = 0]
            /\ UNCHANGED <<net, natOpen>>
    /\ UNCHANGED <<rpc, acksLeft, hasSyn, observed, sendable, result, punched, faults>>

-----------------------------------------------------------------------------
(* Receiver task: recv_until                                                *)

\* NatPacket::Syn: discard a loopback packet (same node type) and any SYN
\* after the first; otherwise record the peer's address under its id in
\* observed_addrs_on_syn, set has_received_syn and enter the SYN_ACK loop.
RecvSyn(n, m) ==
    IF m.from = n \/ hasSyn[n]
    THEN UNCHANGED <<rpc, acksLeft, hasSyn, observed>>
    ELSE /\ observed' = [observed EXCEPT ![n] = @ \cup {m.id}]
         /\ hasSyn' = [hasSyn EXCEPT ![n] = TRUE]
         /\ rpc' = [rpc EXCEPT ![n] = "synack"]
         /\ acksLeft' = [acksLeft EXCEPT ![n] = Len(SynAckTtls)]

\* A plausible bug in recv_until's SYN_ACK branch: the hairpin test
\* dropped, so a node's own reflected SYN_ACK completes its hole punch.
RecvSynAckNoHairpinCheck(n, m) ==
    IF ~hasSyn[n]
    THEN UNCHANGED <<rpc, result, punched, sendable>>
    ELSE /\ result' = [result EXCEPT ![n] = "success"]
         /\ punched' = [punched EXCEPT ![n] = m.id]
         /\ sendable' = [sendable EXCEPT ![n] = FALSE]
         /\ rpc' = [rpc EXCEPT ![n] = "done"]

\* NatPacket::SynAck: discard a hairpin packet (same node type) and an
\* early SYN_ACK (no SYN received yet); otherwise it is the success:
\* stop_outgoing_traffic, and return the TargettedSocketAddr with the
\* adjacent unique id.  A SYN_ACK from an address other than the expected
\* one is only logged ("[will allow]").
RecvSynAck(n, m) ==
    IF m.from = n \/ ~hasSyn[n]
    THEN UNCHANGED <<rpc, result, punched, sendable>>
    ELSE /\ result' = [result EXCEPT ![n] = "success"]
         /\ punched' = [punched EXCEPT ![n] = m.id]
         /\ sendable' = [sendable EXCEPT ![n] = FALSE]
         /\ rpc' = [rpc EXCEPT ![n] = "done"]

\* One iteration of recv_until's loop: recv_from returns a packet that
\* reached n through its NAT; it is consumed and dispatched by type.
RecvUntil(n, m) ==
    /\ rpc[n] = "listen"
    /\ natOpen[n]
    /\ BagIn(m, net)
    /\ m.to = n
    /\ Consume(m)
    /\ IF m.type = "Syn"
       THEN RecvSyn(n, m) /\ UNCHANGED <<result, punched, sendable>>
       ELSE RecvSynAck(n, m) /\ UNCHANGED <<acksLeft, hasSyn, observed>>
    /\ UNCHANGED <<synsLeft, natOpen, faults>>

\* A plausible bug in the SYN_ACK loop: one iteration too many (the loop
\* bound taken as <= the number of TTLs).
SendSynAckOverrun(n) ==
    /\ rpc[n] = "synack"
    /\ IF sendable[n]
       THEN Emit(n, [type |-> "SynAck", id |-> n, from |-> n, to |-> Peer(n)])
       ELSE UNCHANGED <<net, natOpen>>
    /\ acksLeft' = [acksLeft EXCEPT ![n] = @ - 1]
    /\ rpc' = [rpc EXCEPT ![n] = IF acksLeft[n] = 0 THEN "listen" ELSE "synack"]
    /\ UNCHANGED <<synsLeft, hasSyn, observed, sendable, result, punched, faults>>

\* One iteration of the [4, 60, 120] loop after a SYN: tick, then send a
\* SYN_ACK carrying n's unique id back to the address the SYN came from;
\* the loop ends after the third, and recv_until reads again.
SendSynAck(n) ==
    /\ rpc[n] = "synack"
    /\ IF sendable[n]
       THEN Emit(n, [type |-> "SynAck", id |-> n, from |-> n, to |-> Peer(n)])
       ELSE UNCHANGED <<net, natOpen>>
    /\ acksLeft' = [acksLeft EXCEPT ![n] = @ - 1]
    /\ rpc' = [rpc EXCEPT ![n] = IF acksLeft[n] = 1 THEN "listen" ELSE "synack"]
    /\ UNCHANGED <<synsLeft, hasSyn, observed, sendable, result, punched, faults>>

\* tokio::time::timeout(2000 ms, recv_until(..)) elapses: the future is
\* dropped wherever it is (also inside the SYN_ACK loop) and the receiver
\* task yields "No UDP penetration detected".
RecvTimeout(n) ==
    /\ Timeouts
    /\ rpc[n] # "done"
    /\ rpc' = [rpc EXCEPT ![n] = "done"]
    /\ result' = [result EXCEPT ![n] = "timeout"]
    /\ UNCHANGED <<synsLeft, acksLeft, hasSyn, observed, sendable, punched,
                   natOpen, net, faults>>

-----------------------------------------------------------------------------
(* Network and NATs                                                         *)

\* n's NAT drops a packet that arrives before n opened a mapping.
NatDrop(m) ==
    /\ BagIn(m, net)
    /\ ~natOpen[m.to]
    /\ Consume(m)
    /\ UNCHANGED <<nodeVars, natOpen, faults>>

Lose(m) ==
    /\ BagIn(m, net)
    /\ faults.loss < MaxLoss
    /\ Consume(m)
    /\ faults' = [faults EXCEPT !.loss = @ + 1]
    /\ UNCHANGED <<nodeVars, natOpen>>

Duplicate(m) ==
    /\ BagIn(m, net)
    /\ faults.dup < MaxDup
    /\ net' = BagAdd(net, m)
    /\ faults' = [faults EXCEPT !.dup = @ + 1]
    /\ UNCHANGED <<nodeVars, natOpen>>

\* A hairpinning NAT turns a packet back to the node that sent it.
Hairpin(m) ==
    /\ BagIn(m, net)
    /\ faults.hairpin < MaxHairpin
    /\ net' = BagAdd(BagRemove(net, m), [m EXCEPT !.to = m.from])
    /\ faults' = [faults EXCEPT !.hairpin = @ + 1]
    /\ UNCHANGED <<nodeVars, natOpen>>

-----------------------------------------------------------------------------

Init ==
    /\ synsLeft = [n \in Nodes |-> Len(SynTtls)]
    /\ rpc = [n \in Nodes |-> "listen"]
    /\ acksLeft = [n \in Nodes |-> 0]
    /\ hasSyn = [n \in Nodes |-> FALSE]
    /\ observed = [n \in Nodes |-> {}]
    /\ sendable = [n \in Nodes |-> TRUE]
    /\ result = [n \in Nodes |-> "pending"]
    /\ punched = [n \in Nodes |-> None]
    /\ natOpen = [n \in Nodes |-> FALSE]
    /\ net = EmptyBag
    /\ faults = [loss |-> 0, dup |-> 0, hairpin |-> 0]

Next ==
    \/ \E n \in Nodes :
          \/ SendSynBarrage(n)
          \/ SendSynAck(n)
          \/ RecvTimeout(n)
          \/ \E m \in BagToSet(net) : RecvUntil(n, m)
    \/ \E m \in BagToSet(net) :
          NatDrop(m) \/ Lose(m) \/ Duplicate(m) \/ Hairpin(m)

Spec == Init /\ [][Next]_vars

-----------------------------------------------------------------------------
(* Properties                                                               *)

TypeOK ==
    /\ synsLeft \in [Nodes -> 0 .. Len(SynTtls)]
    /\ rpc \in [Nodes -> {"listen", "synack", "done"}]
    /\ acksLeft \in [Nodes -> 0 .. Len(SynAckTtls)]
    /\ hasSyn \in [Nodes -> BOOLEAN]
    /\ observed \in [Nodes -> SUBSET Nodes]
    /\ sendable \in [Nodes -> BOOLEAN]
    /\ result \in [Nodes -> {"pending", "success", "timeout"}]
    /\ punched \in [Nodes -> Nodes \cup {None}]
    /\ natOpen \in [Nodes -> BOOLEAN]
    /\ BagToSet(net) \subseteq Msg
    /\ faults \in [loss: 0 .. MaxLoss, dup: 0 .. MaxDup, hairpin: 0 .. MaxHairpin]

\* A node reports success only with the peer's id, and only once the peer
\* has recorded this node's address in its observed_addrs_on_syn: the
\* SYN_ACK that completes a hole punch proves traffic in both directions
\* (comment at method3.rs:261), and the peer can then recover the address
\* even if its own recv_until fails (comment at method3.rs:24).  Losses,
\* duplicates, hairpinned packets and timeouts of either task do not
\* change this.
SuccessKnownToPeer ==
    \A n \in Nodes :
        result[n] = "success" =>
            /\ punched[n] = Peer(n)
            /\ n \in observed[Peer(n)]

=============================================================================
