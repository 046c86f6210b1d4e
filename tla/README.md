# TLA+ models of the Citadel Protocol networking code

This directory holds TLA+ specifications of the concurrent and distributed parts of
the repository's `src/` tree, and the TLC configurations that check them. Every
module is written from the Rust source: each definition names the function it
models, and `PROJECT.json` maps it to its lines.

## The system and its parts

The repository is a slice of a post-quantum networking stack. Its parts, and how they
interact:

| Part | Source | State | Operations | Talks to |
|---|---|---|---|---|
| OrderedChannel | `hyxe_net/src/hdp/misc/ordered_channel.rs` | map id→packet, `last_message_received`, sink | `on_packet_received`, `send_then_scan`, `scan_send` | fed by packet processors that run concurrently; feeds an unbounded sink |
| UDP hole punching, method 3 | `citadel_wire/src/udp_traversal/linear/method3.rs` | `observed_addrs_on_syn`, per run: `has_received_syn`, UdpWrapper stop flag | `execute_either` = sender task ‖ receiver task, `send_syn_barrage`, `recv_until`, `stop_outgoing_traffic` | the peer's Method3 through two NATs |
| DO_REGISTER handshake | `hyxe_net/src/hdp/packet_processor/register_packet.rs` | `register_state.last_stage`, constructor, created ratchet, session state | STAGE0 (Bob), STAGE1 (Alice), STAGE2 (Bob), SUCCESS (Alice), FAILURE | the peer session over TCP; account managers; the kernel |
| HdpServer | `hyxe_net/src/hdp/hdp_server.rs` | request channel, ticket counter, shutdown signaller, opened ports | `load`, `outbound_kernel_request_handler`, `HdpServerRemote::unbounded_send / shutdown / send_with_custom_ticket`, its `Sink` | kernel → server requests; session manager |
| PeerChannel | `hyxe_net/src/hdp/peer/channel.rs` | `is_alive`, receiver, waker oneshot, sink readiness | `send_unbounded`, `poll_next`, `poll_ready`, `start_send`, `poll_shutdown` | the session's virtual connection; HdpServerRemote |
| FilesystemBackend | `citadel_user/src/backend/filesystem_backend.rs` | CNAC files on disk + the in-memory map | `connect`, `save_cnac`, `save_cnac_by_cid`, `delete_cnac_by_cid`, `purge`, `register_p2p_as_server/client`, `deregister_p2p_as_server/client`, the byte-map calls | account manager (register handshake) |
| netbeam multiplexer | `netbeam/src/multiplex.rs` | `id_gen` and `current_latest_subscribed` counters, pre-reserved ids, subscriber map | `get_next_prereserved`, `subscribe`, `get_next_id` | the two ends of a multiplexed connection |
| FCM group-header ACK | `hyxe_user/.../group_header_ack.rs` | the FCM toolset | `update_sync_safe`, `deregister_oldest_hyper_ratchet` | Toolset |
| Toolset (spec + `citadel_crypt/tests/primary.rs`) | not under `src/` | version window `oldest..most_recent` | `update_from`, `deregister_oldest_hyper_ratchet` | sessions, FCM |
| Misc | logging, FFI, SDK prefabs, `server_sym3` example, `EncryptedConfigContainer`, `TargettedSocketAddr`, `hole_punch.rs` forwarder | none of their own | glue | — |

What makes these parts hard to test are their concurrency and delivery behaviours:
- packets reach OrderedChannel in any order and may arrive twice;
- the hole-punch packets cross NATs that drop early traffic, lose and reflect packets, while two tasks per node share one socket and a 2000 ms timer can cut the receiver off mid-loop;
- registration is a four-message protocol whose stage guards decide which replies are heard;
- the server's request loop can be shut down with requests still queued;
- persistence writes two stores (disk, memory) in sequences a crash or a concurrent call can cut;
- a PeerChannel's stream must end when its vconn goes, through a waker handed over on the first poll;
- the multiplexer's two id counters must stay in step across tasks that share one connection.

## Modules

### `OrderedChannel.tla` (+ `MCOrderedChannel.tla`, `OrderedStream.tla`)

- **State.** `map`, `last` and `sink` are the struct's fields. `inflight` and `dups` describe the transport. A packet's payload is its position `n` in the sender's stream, and its id is `n % IdSpace`. `IdSpace` stands for the u64 width (2^64). The model can wrap the ids, but the passing run does not (see the bounds).
- **Action.** `Deliver(n)` hands one packet to `OnPacketReceived`. That is the whole of `on_packet_received`: the equality test, then either `store_received_packet` or `send_then_scan`. `SendThenScan` lists the ids it sends: the new one, then those `scan_send` takes from the map (`ScanIds` is the scan loop, RECURSIVE). `SendUnconditional` pushes them and sets `last`. One call is one step, because the channel is used under its owner's lock.
- **Closed sink.** `open` says whether the consumer still holds the sink's receiver. `CloseSink` drops it between calls. The consumer runs in another task, so it can also drop the receiver during a call. Then only the first k pushes land, the id whose push failed has already been removed from the map, and the `?` returns before `last` is set.
- **Fairness.** Weak fairness on every `Deliver(n)`: the processing tasks keep handing packets over.
- **Refinement.** `OrderedStream.tla` is the abstract specification: what the channel promises, with no ids and no buffer. Its state is the set of messages that have `arrived`, the `sink` and `open`. While open, `Arrive(n)` sets the sink to the longest gap-free prefix of what has arrived (`PrefixOf`, with the RECURSIVE `RunFrom`). `Close` may leave the sink part-way to the prefix the arriving message completes. After it, the sink never grows. `OrderedChannel` instantiates it with `arrived <- Arrived`, the payloads in the sink or in the map. `ImplementsOrderedStream == Stream!Spec` is checked as a property: every `on_packet_received` while the receiver is held is an `Arrive` step. So a packet is forwarded in the very call that completes its prefix, never earlier and never twice, and a packet is lost only in the call during which the receiver goes.

### `Method3.tla` (+ `MCMethod3.tla`)

Two nodes (`Initiator`, `Receiver`) each run the two tasks of `execute_either`:
- `SendSynBarrage` is one round of the barrage (TTL 20, then 80). If the UdpWrapper flag is off, it early-terminates.
- `RecvUntil` reads one packet and handles it with `RecvSyn` (loopback check, first-SYN-only, record in `observed_addrs_on_syn`) or `RecvSynAck` (hairpin check, early-SYN_ACK discard, success, which stops outgoing traffic).
- `SendSynAck` is one iteration of the 3-packet SYN_ACK loop (TTL 4/60/120). While it runs, the loop does not read.
- `RecvTimeout` is the 2000 ms timeout. It can fire anywhere before the receiver returns.

The network is a bag of packets, so that three equal SYN_ACKs are kept apart. A NAT drops whatever reaches a node that has not yet sent anything (`NatDrop`). Loss, duplication and hairpin reflection each have a named budget (`MaxLoss`, `MaxDup`, `MaxHairpin`).

No fairness is assumed: the only property checked is a safety property. That the receivers return is not checked, because with the timer fair it would hold whatever `recv_until` does.

### `RegisterHandshake.tla` (+ `MCRegisterHandshake.tla`)

For each client `c` there is Alice's session and Bob's server-side session for her. Each side's `last_stage` gates its handlers, exactly as in `process`:
- `BobStage0` replies STAGE1, or FAILURE when a passwordless registration is not allowed. In the FAILURE case it does not advance.
- `AliceStage1` advances to STAGE2 and sends the credentials.
- `BobStage2` tries to register the CNAC and replies SUCCESS or FAILURE.
- `AliceSuccess` registers locally, then reports RegisterOkay or RegisterFailure, or begins to connect.
- `AliceFailure` is accepted only past STAGE0.

The two streams are TCP FIFOs. Three things are inputs, because the code branches on them: whether Alice asks for passwordless (`Init`), Bob's `allow_passwordless` (`AllowPasswordless`), and each account manager's outcome (`\E ok`). Fairness: every session keeps processing its stream.

### `HdpServer.tla` (+ `MCHdpServer.tla`)

The model has three parts:
- **Kernel tasks** (`Kernels`) share one `HdpServerRemote`. `unbounded_send` and `shutdown` take two steps each, so clones used from several tasks can interleave between them:
  - `TakeTicket`/`GetNextTicket` is the `fetch_add` on the shared counter. The counter starts at 1 (`FirstTicket`) and wraps at `TicketSpace`, the width of usize;
  - `PushRequest` pushes into the unbounded channel. It returns Ok while the loop holds the receiver, and Err after.
  - `SinkStartSend`/`SendWithCustomTicket` is the remote's `Sink::start_send`, which is `send_with_custom_ticket`: one push under a ticket the caller already holds, with no ticket drawn. A PeerChannel's send half calls it with its `channel_id`, so the ticket is one whose conversation has had its outcome (`answered`). `poll_ready`, `poll_flush` and `poll_close` are always Ok and change nothing.
- **The request loop.** `HandleRequest` is one iteration of `outbound_kernel_request_handler`:
  - every request kind except Shutdown is dispatched, or refused with `InternalServerError(Some(ticket))` (`ReportError`);
  - if the kernel's receiver is gone, the loop returns `Err` (`DropReceiver`);
  - `HandleShutdown` takes and fires the `shutdown_signaller` and breaks.
- **`listen_primary`** is a `try_join!` of the timer (`PrimaryTimer`) and the accept loop (`AcceptConnection`). The NTP updater never returns.

`KernelExit` is the kernel dropping its receiver. Fairness: a task that took a ticket completes the push, because both steps are one synchronous call, and the runtime keeps polling the loop and the timer.

### `FilesystemBackend.tla` (+ `MCFilesystemBackend.tla`)

`inMap` is the set of CIDs in the MemoryBackend's map, `obj` the account object of each CID, and `disk` the CNAC files, from CID to the account serialized in them; `torn` are files truncated and not yet written. `ClientNetworkAccount` is not in the repository; a clone is taken to share the account's state (an Arc), so the map and every clone of a CID see one `obj`. An account is abstracted to the set of updates applied to it and its set of peers. `Ops` is the list of calls the account manager makes, and each call has a `pc`. A call takes these steps:
- `StartCall` is the memory half, dispatched on the call's kind:
  - `UpdateMemory` is the `memory_backend` call of an update (`store_byte_map_value`, `remove_byte_map_value`) and of `register_p2p_as_client` and `deregister_p2p_as_client` (`Apply`, `DeregisterP2PAsClient`).
  - `P2PMemory` (with `Link`) is the memory half of `register_p2p_as_server` and `deregister_p2p_as_server`, on both accounts.
  - `DeleteMemory` is the lookup and memory remove of `delete_cnac_by_cid`, as one step (no two calls delete one CID).
  - `PurgeDrain` is `purge` draining the map and keeping the drained CIDs (`toRemove`).
  A missing CID is `ClientNonExists`.
- `CloneForSave` is the clone under the read lock, in `save_cnac_by_cid` or in the read block of `register_p2p_as_server`.
- `save_cnac` is three steps, once per account of the call: `SaveCnacCreate` serializes the account (`generate_proper_bytes`) and runs `fs::write`'s `File::create`, which truncates the file; `SaveCnacWrite` writes the bytes; `SaveCnacMemory` inserts the clone into the map. Without the home directory the create fails.
- `RemoveCnacFile` is `fs::remove_file` of a delete; a missing file is its Err.
- `PurgeRemoveFile` removes one drained CID's file; a file already gone fails the purge with its error. `PurgeRemoveHome` removes the directory and returns Ok.

Every file operation can also return an Err (`IOError`, at most `MaxIOErrors`; the TODO at line 48 says the write fails). The `?` after it ends the call with the Err, leaving memory as the earlier steps changed it and the file as the failed operation left it. `Crash` can occur between any two steps; it empties the map and kills the running calls. `Connect` is `connect()`: the home directory is set up again and `load_cnac_files` (not in the repository) loads every file; a truncated file is taken to be skipped. `Init` is `FilesystemBackend::from`: nothing loaded, not connected, the files of an earlier run on disk.

Each step holds the map's lock only for itself, so up to `MaxInFlight` calls interleave between them. There is no fairness: the property is a safety property.

### `PeerChannel.tla` (+ `MCPeerChannel.tla`)

This module models the two halves of one vconn's channel. They share `alive` (`is_alive`). Its state and actions map to the code as follows:
- **Receive half (`PollNext`):** one poll by the consumer task, with a branch for each of the three cases of `poll_next`.
  - `PollClosed`: `is_alive` is false, so it returns Ready(None).
  - `PollHandOver`: the first poll sends the waker over the oneshot. If the oneshot's receiver is gone, it clears `is_alive` and ends.
  - `PollTryNext`: `try_next`. An item is returned and the consumer polls again; an empty or a closed channel is Pending.
- **Send half (`SendHalf`, `PollShutdown`):**
  - `SendUnbounded` sends only while alive.
  - `PollReady` is Ok only while alive.
  - `StartSend` sends unchecked.
  - `PollShutdown` clears `is_alive` and wakes nobody.
- **Environment:** the state container that feeds the receiver is not under `src/`. It is taken from channel.rs's comments:
  - `Forward` pushes a message only once the waker is stored, and wakes it.
  - `RemoveVconn` clears `is_alive`, closes the receiver and wakes the stored waker.
  - `DropContainer` closes the receiver and drops the waker unwoken.

Fairness: `WF_vars(PollNext)`, since the executor polls a woken task. Nothing else is assumed to happen.

### `Multiplex.tla` (+ `MCMultiplex.tla`)

This module models one netbeam `MultiplexedConn`.
- **State:**
  - `idGen` is `id_gen`, and `latest` is `current_latest_subscribed`.
  - `subs` is the subscribers map, recording for each id whether its pre-reserved receiver is still there.
- **Actions:**
  - `Init` is `MultiplexedConn::new`: ids 1..`Cap` are drawn from `id_gen` and pre-reserved.
  - `GetNextPrereserved` hands out the next pre-reserved id under the write lock, or returns None.
  - `GetNextId` is `get_next_id`.
  - `Subscribe` is `subscribe` with both of its asserts. Each failed assert is a panic of the calling task, after the insert and the counter advance before it have taken effect. The lock is not poisoned.
- **Environment:** the code that opens subscriptions (`initiate_subscription`) is not in the repository. `Tasks` stand in for it: each takes a pre-reserved stream while one is left, and otherwise calls `get_next_id` and then `subscribe` of that id, with nothing ordering two tasks between the two calls.

## Runs

| run | cfg | expect | what it shows |
|---|---|---|---|
| ordered_dup | `OrderedChannelDup.cfg` | pass | 6 packets in every arrival order, with up to 2 duplicate hand-overs (id space 8). The consumer may drop the receiver between calls or during one. OrderedChannel refines OrderedStream (`ImplementsOrderedStream`): after every call the sink is exactly the gap-free prefix of what has arrived. `last_message_received` always names the last packet forwarded, even after a call that failed half-way (`LastIsLastForwarded`). Unless the receiver goes, all packets reach the sink (`AllEventuallyDelivered`). |
| ordered_leak | `OrderedChannelLeak.cfg` | violation | 3 packets, 1 duplicate: the copy of an already-forwarded id is stored and never leaves the map (finding). |
| method3 | `Method3.cfg` | pass | One loss, one duplicate and one hairpin reflection, with the timer. A success is always toward the peer, after the peer recorded this node on SYN, so the peer can recover (`SuccessKnownToPeer`). 357k states. |
| register | `RegisterHandshake.cfg` | pass | 2 concurrent clients, passwordless allowed. An okay only after both sides registered (`OkayMeansRegisteredAtBob`). Every Alice learns her outcome (`AliceLearnsOutcome`). |
| register_passwordless_refused | `RegisterHandshakeNoPasswordless.cfg` | violation | Passwordless refused: Bob's FAILURE is dropped by Alice at STAGE0, and she never learns the outcome (finding). |
| hdp_server | `HdpServer.cfg` | pass | 2 kernel tasks × 2 calls, each `unbounded_send`, `shutdown` or a Sink send under a held ticket. Nothing is handled after the shutdown signal (`NothingHandledAfterShutdown`, an action property). A request accepted with Ok(ticket) is answered under that ticket unless the loop ended (`AcceptedAnsweredOrStopped`). |
| hdp_server_shutdown | `HdpServerShutdown.cfg` | violation | After Shutdown, the listener keeps running (finding). |
| fs_backend | `FilesystemBackend.cfg` | pass | Calls one at a time, with one crash and one failed file operation anywhere: two updates of one account, a p2p registration, a delete, the client side of a registration and of a deregistration, a server-side deregistration and a purge. A delete or purge that returned Ok is never undone: the account is in neither the map nor a file, through later crashes, reloads and calls (`DeletedStaysDeleted`). 2.9M states. The run stops when every call has ended, so deadlock is not checked. |
| fs_backend_concurrent | `FilesystemBackendConcurrent.cfg` | violation | Two calls at once: a save whose clone was taken before a delete writes the deleted account back after the delete returned (finding 4). |
| peer_channel | `PeerChannel.cfg` | pass | Every forwarded message is yielded unless the stream ended (`EveryForwardYielded`). Removing the vconn ends the stream (`RemovalEndsStream`). The stream ends only once `is_alive` is false, so sends are refused after (`TypeOK`). Both are liveness properties under the executor's fairness. |
| peer_channel_closed | `PeerChannelClosed.cfg` | violation | A receiver closed without `is_alive` being cleared (the container dropped) never ends the stream (finding). |
| multiplex | `Multiplex.cfg` | violation | Three tasks share one connection. After the five pre-reserved ids, two tasks draw ids from `get_next_id` and subscribe them in the opposite order, and the assert in `subscribe` panics (`SubscribeAssertsHold`, finding 6). |

Every property of a passing run has a mutant in `PROJECT.json`. A mutant is an operator next to the definition it replaces, modelling a plausible bug (a dropped guard, an off-by-one, a forgotten update), and TLC finds the property violated when it is substituted.

### Findings

1. **OrderedChannel keeps a duplicate forever** (`ordered_channel.rs:23`). Equality is the only test, so a second copy of an already-forwarded id is buffered. Later scans start past it, and it leaks until the ids wrap (2^64 packets later).
2. **A refused passwordless registration hangs** (`register_packet.rs:43` vs `:232`). Bob's FAILURE reply to STAGE0 reaches Alice at STAGE0, where failures are dropped ("A failure can be sent at any stage greater than the zeroth"). Alice gets no RegisterFailure.
3. **Shutdown does not stop the listener** (`hdp_server.rs:277` vs the comment at `:227`). The shutdown signal makes `primary_timer` return `Ok(())`, and `try_join!` ends only on an error. The accept loop keeps creating sessions after Shutdown; only a session-manager error reported while the kernel is gone (`:252-253`) stops it.
4. **A stale clone undoes a returned call** (`filesystem_backend.rs:49-50`, with the clone at `:380`). `save_cnac` writes a clone taken earlier, first to the file and then back into the map ("save to filesystem, then, synchronize to memory"). TLC's trace: `register_p2p_as_client` clones an account, then `delete_cnac_by_cid` removes it and returns Ok. The save then writes the deleted account back to disk and into the map.
5. **A closed PeerChannel receiver never ends its stream** (`channel.rs:181` vs the comment at `:145`). `poll_next` ends only on `is_alive` being false. A closed receiver makes `try_next` return Ok(None), which is answered with Pending, and no waker is registered. When the sender goes without `is_alive` being cleared (the state container dropped), the consumer waits forever.
6. **`get_next_id` then `subscribe` can race** (`multiplex.rs:292`). `subscribe` asserts that the id it is given is the next of `current_latest_subscribed`, so ids must be subscribed in the order drawn, and nothing orders two callers between the two calls. TLC's trace: two tasks draw 6 and 7, the one holding 7 subscribes first, and the assert panics after the entry was inserted and the counter advanced. The callers (`initiate_subscription`) are not in the repository, so whether they serialize the two calls cannot be seen here.

Also seen while modelling, but without a run:
- **An interrupted save loses the whole account** (`filesystem_backend.rs:49`). `std::fs::write` truncates the file before writing it. A crash or a write Err in between leaves an empty file, which the next `connect` cannot load, so every update that had already returned Ok is lost with the account. With a property that a returned update stays loaded, TLC finds this in 12 steps (two updates of one account, a crash inside the second write). The filesystem runs are given to the delete race of finding 4.
- **A PeerChannel send reports success after the server is gone** (`channel.rs:100`). `send_unchecked` drops the Result of `send_with_custom_ticket` and returns Ok(()). Once the request loop has ended, `send_unbounded` and `start_send` report success for messages that were never queued. HdpServer models that push's Err, and PeerChannel models the send half. No model joins the two, so this has no run.

### Bounds and why they suffice

- **OrderedChannel:** every arrival order of 6 packets is explored, with the receiver dropped before, between or during any call. Two duplicates give both "duplicate of a forwarded packet" and "duplicate of a buffered packet". The ids do not wrap, which takes 2^64 packets. The leak run is the smallest case that shows the leak: 3 packets, 1 duplicate.
- **Method3:** the real barrage sizes (2 SYN rounds, 3 SYN_ACKs) are kept. One fault of each kind is enough to hit each discard branch (loopback, hairpin, early SYN_ACK, duplicate SYN) and each NAT timing.
- **HdpServer:** two tasks with two calls each give every interleaving of two ticket/push pairs. The ticket space (8) is wider than the 4 tickets drawn, as usize is in practice. That includes a Shutdown queued ahead of, or behind, the other task's request, and the kernel leaving at any point. One inbound connection is enough to see the listener accept after the shutdown.
- **FilesystemBackend:** two accounts, with two updates of one of them, so that concurrent saves hit the same file. A p2p registration between the two accounts and a delete of the second mean that every call kind meets every other and one fails with ClientNonExists. One crash and one failed file operation can land at any step. Two calls in flight are the least that can race; that run has no faults, so its trace is the race alone.
- **FilesystemBackend, all calls:** the serial run adds a `register_p2p_as_client`, a `deregister_p2p_as_client` and a `deregister_p2p_as_server` that undo registrations, and a final purge, so each kind meets a crash and an Err at every step.
- **PeerChannel:** 2 messages and 2 sends. One message shows the hand-over and the wake, and the second shows that a Ready(Some) is followed by another poll. Every step can meet a removal or a drop.
- **Multiplex:** 5 pre-reserved ids over 3 tasks give every order of the lock-protected hand-out. Two ids past them are the least that two `get_next_id`/`subscribe` pairs need to interleave.
- **RegisterHandshake:** two clients are enough to interleave independent sessions at one server. Each session's inputs are enumerated in full.

## Plan for the remaining parts (in order of importance)

1. (done) HdpServer request loop, with `send_with_custom_ticket` and the remote's Sink. Still left: a composed model of PeerChannel's send half with the request loop, which needs the session manager (not under `src/`) to say what a SendMessage for a removed vconn does.
2. (done) FilesystemBackend, with `purge`, `deregister_p2p_as_server` and `register_p2p_as_client/deregister_p2p_as_client`. Still left: the `*_by_key` calls and `synchronize_hyperlan_peer_list_as_client`, which add no new step shapes.
3. **Toolset** (`ToolsetSpec.tla`, abstract window, and `Toolset.tla`, detailed, with `INSTANCE ToolsetSpec WITH` as refinement, u32 wrap as `% 2^w`), plus the FCM group-header ACK driving it. Spec-modelled, with the tests in `citadel_crypt/tests/primary.rs` as reference.
4. (done) PeerChannel.
5. (done) netbeam multiplexer ids, for one connection. Both ends together need `initiate_subscription`'s PreCreate exchange, which is not in the repository.
6. **GroupReceiver** (spec-modelled): at-most-once slot filling, WAVE/GROUP completion independent of arrival order.
7. A composition of OrderedChannel with Method3's socket is not planned: they do not share state.

## Not modelled

- Cryptography (ratchets, AEAD cascades, `EncryptedConfigContainer`): these are pure data transforms outside TLC's reach. They appear as "validates or not".
- OS and network I/O (firewall ports, sockets, NTP resync).
- `hdp/packet_processor/file_packet.rs`: it only dispatches into the state container's file-transfer code, which is not in the repository.
- The netbeam subscription protocol (`sync/subscription.rs`, `network_application.rs`) and the drop of a subscription: not in the repository.
- Logging, FFI conversions, SDK prefabs and examples: they have no protocol state.
