--------------------------- MODULE OrderedChannel ---------------------------
(***************************************************************************)
(* The reorder buffer of hyxe_net (src/hyxe_net/src/hdp/misc/              *)
(* ordered_channel.rs).  Packets carry a u64 id; OrderedChannel forwards   *)
(* them to its sink in id order, holding early arrivals in a HashMap until *)
(* the gap before them is filled.                                          *)
(*                                                                         *)
(* The sender numbers its messages 0, 1, 2, ...; message n travels with    *)
(* id n % IdSpace (the u64 wrapping arithmetic of the code, IdSpace =      *)
(* 2^64 in the build).  The payload of a packet is abstracted to n, the    *)
(* message's position in the sender's stream, so that the sink's contents  *)
(* can be compared with the order the sender meant.                        *)
(*                                                                         *)
(* The packets reach on_packet_received in any order (they are produced by *)
(* concurrently running packet-processing tasks); if MaxDups > 0 a packet  *)
(* may also be handed over more than once.  Each call runs under the       *)
(* caller's lock (the tests wrap the channel in an RwLock), so one call is *)
(* one atomic step.                                                        *)
(***************************************************************************)
EXTENDS Naturals, Sequences, FiniteSets, Functions

CONSTANTS
    MaxMsgs,    \* number of messages the sender emits
    IdSpace,    \* 2^w for the width w of the id (u64 in the code)
    MaxDups,    \* how many times the transport may hand over a copy
    None        \* model value: last_message_received = None

ASSUME MaxMsgs \in Nat /\ IdSpace \in Nat \ {0} /\ MaxDups \in Nat

VARIABLES
    map,        \* OrderedChannel.map : id -> buffered packet
    last,       \* OrderedChannel.last_message_received : None or an id
    sink,       \* what has been pushed into the UnboundedSender, in order
    open,       \* the sink's receiver still exists
    inflight,   \* messages the transport has yet to hand over
    dups        \* copies handed over so far

vars == <<map, last, sink, open, inflight, dups>>

Msgs == 0 .. (MaxMsgs - 1)
Ids  == 0 .. (IdSpace - 1)

IdOf(n) == n % IdSpace

\* wrapping_add(1) on the id
WrapInc(id) == (id + 1) % IdSpace

\* map with one key removed (HashMap::remove)
RemoveKey(m, k) == Restrict(m, DOMAIN m \ {k})

\* map with one key set (HashMap::insert; overwrites an existing value)
InsertKey(m, k, v) == [x \in DOMAIN m \cup {k} |-> IF x = k THEN v ELSE m[x]]

-----------------------------------------------------------------------------
(* Code: the channel and its helpers                                        *)

\* next_expected_message_id: last_message_received + 1, or 0 before any
NextExpected == IF last = None THEN 0 ELSE WrapInc(last)

\* The ids scan_send removes from the map, in order, starting at cur:
\* it stops at the first id not present (the discontinuity).
RECURSIVE ScanIds(_, _)
ScanIds(m, cur) ==
    IF cur \in DOMAIN m THEN <<cur>> \o ScanIds(RemoveKey(m, cur), WrapInc(cur))
                        ELSE <<>>

\* A plausible bug in scan_send: `if let` in place of the loop, so only the
\* packet right after last_arrived_id is forwarded.
ScanSendOnce(newId) ==
    IF WrapInc(newId) \in DOMAIN map THEN <<WrapInc(newId)>> ELSE <<>>

\* scan_send(last_arrived_id): the buffered ids that follow without a gap,
\* each removed from the map and then sent, in order.
ScanSend(newId) == ScanIds(map, WrapInc(newId))

\* A plausible bug in send_then_scan: the emptiness test written as
\* len() > 1, so a single buffered successor is never flushed.
SendThenScanSkipsSingle(id) ==
    <<id>> \o (IF Cardinality(DOMAIN map) > 1 THEN ScanSend(id) ELSE <<>>)

\* send_then_scan(new_id, packet): the ids it sends, in order: new_id,
\* then, if the map is not empty, those scan_send takes from the map.
SendThenScan(id) ==
    <<id>> \o (IF DOMAIN map # {} THEN ScanSend(id) ELSE <<>>)

\* A plausible bug in send_unconditional: last_message_received set before
\* the push, so the send that fails still advances it.
SendUnconditionalLastFirst(ids, pkts, k) ==
    /\ sink' = sink \o SubSeq(pkts, 1, k)
    /\ last' = IF k < Len(ids) THEN ids[k + 1] ELSE ids[k]

\* send_unconditional, once per id of ids: push the packet into the sink,
\* then set last_message_received.  The first k pushes land; a push after
\* the receiver is gone is an Err that the ? returns at once, before the
\* assignment.
SendUnconditional(ids, pkts, k) ==
    /\ sink' = sink \o SubSeq(pkts, 1, k)
    /\ last' = IF k = 0 THEN last ELSE ids[k]

\* store_received_packet: buffer the packet under its id
StoreReceivedPacket(id, p) ==
    /\ map' = InsertKey(map, id, p)
    /\ UNCHANGED <<sink, last, open>>

\* on_packet_received(id, packet): forward and scan if id is the next
\* expected one, otherwise buffer it.  The consumer may drop the sink's
\* receiver at any point of the call (it runs in another task): then only
\* the first k sends land, scan_send has already removed the id whose send
\* failed, and the call returns Err.  A receiver gone before the call
\* makes the first send fail.
OnPacketReceived(id, p) ==
    IF id = NextExpected
    THEN LET ids  == SendThenScan(id)
             pkts == [i \in 1 .. Len(ids) |-> IF i = 1 THEN p ELSE map[ids[i]]]
             removed(k) == {ids[i] : i \in 2 .. (IF k < Len(ids) THEN k + 1 ELSE k)}
         IN  \E k \in (IF open THEN 0 .. Len(ids) ELSE {0}) :
                /\ SendUnconditional(ids, pkts, k)
                /\ map' = Restrict(map, DOMAIN map \ removed(k))
                /\ open' = (open /\ k = Len(ids))
    ELSE StoreReceivedPacket(id, p)

-----------------------------------------------------------------------------
(* Environment: the transport hands over message n, once or (while the      *)
(* duplication budget lasts) keeping a copy in flight.                      *)

Deliver(n) ==
    /\ n \in inflight
    /\ \/ /\ inflight' = inflight \ {n}
          /\ dups' = dups
       \/ /\ dups < MaxDups
          /\ inflight' = inflight
          /\ dups' = dups + 1
    /\ OnPacketReceived(IdOf(n), n)

\* The consumer drops the sink's receiver between two calls.
CloseSink ==
    /\ open
    /\ open' = FALSE
    /\ UNCHANGED <<map, last, sink, inflight, dups>>

Init ==
    /\ map = <<>>
    /\ open = TRUE
    /\ last = None
    /\ sink = <<>>
    /\ inflight = Msgs
    /\ dups = 0

Next == (\E n \in Msgs : Deliver(n)) \/ CloseSink

\* The processing tasks keep running: a packet still in flight is
\* eventually handed to the channel.
Fairness == \A n \in Msgs : WF_vars(Deliver(n))

Spec == Init /\ [][Next]_vars /\ Fairness

-----------------------------------------------------------------------------
(* Properties                                                               *)

TypeOK ==
    /\ DOMAIN map \subseteq Ids
    /\ \A id \in DOMAIN map : map[id] \in Msgs
    /\ last \in Ids \cup {None}
    /\ NextExpected \in Ids
    /\ sink \in Seq(Msgs)
    /\ open \in BOOLEAN
    /\ inflight \subseteq Msgs
    /\ dups \in 0 .. MaxDups

\* Every packet held in the map is one the sink has not yet received: the
\* buffer holds only packets waiting for a gap before them to be filled
\* (comment at ordered_channel.rs:41), never a packet already forwarded.
BufferedAreAhead == \A id \in DOMAIN map : map[id] >= Len(sink)

\* Every message the sender emits eventually reaches the sink, whatever the
\* arrival order, unless the consumer drops the receiver: a buffered packet
\* is released as soon as its predecessor arrives.
AllEventuallyDelivered == <>(Len(sink) = MaxMsgs \/ ~open)

\* last_message_received names the last packet that reached the sink (None
\* before any), also after a call that failed half-way because the
\* receiver went: next_expected_message_id is then the first id the sink
\* has not received, never one past a packet that was lost.
LastIsLastForwarded ==
    /\ (last = None) <=> (sink = <<>>)
    /\ sink # <<>> => last = IdOf(sink[Len(sink)])

-----------------------------------------------------------------------------
(* Refinement of OrderedStream.  The messages that have arrived are those  *)
(* forwarded to the sink or held in the map: a packet handed over is       *)
(* either sent by send_then_scan/scan_send or stored.                      *)

Arrived == {sink[i] : i \in 1 .. Len(sink)} \cup {map[id] : id \in DOMAIN map}

Stream == INSTANCE OrderedStream WITH arrived <- Arrived, sink <- sink, open <- open

\* OrderedChannel implements OrderedStream: after every on_packet_received
\* the sink holds exactly the gap-free prefix of what has arrived, so a
\* packet is forwarded in the very call that completes its prefix (by
\* send_then_scan and the scan_send loop), never earlier and never twice;
\* a packet is lost only in the call during which the receiver goes.
ImplementsOrderedStream == Stream!Spec

=============================================================================
