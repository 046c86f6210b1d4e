----------------------------- MODULE PeerChannel -----------------------------
(***************************************************************************)
(* The two halves of a PeerChannel (src/hyxe_net/src/hdp/peer/channel.rs), *)
(* one per virtual connection, sharing the is_alive flag.                  *)
(*                                                                         *)
(* The receive half is a Stream polled by one consumer task.  Its first    *)
(* poll hands the task's waker over a oneshot to the state container;     *)
(* later polls try_next on the unbounded receiver.  The send half pushes   *)
(* SendMessage requests to the server while is_alive holds.               *)
(*                                                                         *)
(* The state container is not under src/; its part is the environment,     *)
(* taken from the comments of channel.rs: it forwards messages only once   *)
(* it holds the waker (line 163) and wakes the task with each; removing   *)
(* the vconn flips is_alive (line 93) and closes the receiver (line 145). *)
(* Dropping the container closes the receiver and drops the waker without  *)
(* waking it.  Messages are numbered; the channel is FIFO, so the queue is *)
(* the messages pushed and not yet yielded.                                *)
(***************************************************************************)
EXTENDS Naturals

CONSTANTS
    MaxMsgs,    \* messages the container forwards
    MaxSends    \* send attempts of the application on the send half

VARIABLES
    alive,      \* is_alive, shared by both halves
    wakerSent,  \* waker_send has been taken (the first poll happened)
    wakerRxOpen,\* the container still holds the oneshot's receiver
    stored,     \* the container holds the consumer task's waker
    scheduled,  \* the consumer task is woken and will poll the stream
    ended,      \* poll_next returned Ready(None)
    closed,     \* every sender of the unbounded channel is dropped
    removed,    \* the container removed the vconn
    pushed,     \* messages pushed into the unbounded channel
    yielded,    \* messages returned by poll_next as Ready(Some)
    sinkReady,  \* poll_ready returned Ok, start_send not yet called
    attempts,   \* send attempts made (send_unbounded, poll_ready)
    sent        \* SendMessage requests handed to the server remote

vars == <<alive, wakerSent, wakerRxOpen, stored, scheduled, ended, closed,
          removed, pushed, yielded, sinkReady, attempts, sent>>

sendVars == <<sinkReady, attempts, sent>>

-----------------------------------------------------------------------------
(* The receive half: poll_next, one poll by the consumer task              *)

\* A closed stream (is_alive false) returns Ready(None).
PollClosed ==
    /\ ~alive
    /\ ended' = TRUE
    /\ scheduled' = FALSE
    /\ UNCHANGED <<alive, wakerSent, stored, yielded>>

\* A plausible bug in the first poll: a failed waker handover ends the
\* stream without storing false into is_alive (line 167 missing).
PollHandOverKeepsAlive ==
    /\ alive
    /\ ~wakerSent
    /\ wakerSent' = TRUE
    /\ scheduled' = FALSE
    /\ IF wakerRxOpen
       THEN /\ stored' = TRUE
            /\ UNCHANGED <<alive, ended>>
       ELSE /\ ended' = TRUE
            /\ UNCHANGED <<alive, stored>>
    /\ UNCHANGED yielded

\* The first poll sends the task's waker over the oneshot and is Pending.
\* If the oneshot's receiver is gone, it stores false into is_alive and
\* returns Ready(None).
PollHandOver ==
    /\ alive
    /\ ~wakerSent
    /\ wakerSent' = TRUE
    /\ scheduled' = FALSE
    /\ IF wakerRxOpen
       THEN /\ stored' = TRUE
            /\ UNCHANGED <<alive, ended>>
       ELSE /\ alive' = FALSE
            /\ ended' = TRUE
            /\ UNCHANGED stored
    /\ UNCHANGED yielded

\* A plausible bug in later polls: the is_alive test dropped, so they only
\* ever look at the receiver.
PollTryNextNoAliveCheck ==
    /\ wakerSent
    /\ IF pushed > yielded
       THEN /\ yielded' = yielded + 1
            /\ UNCHANGED scheduled
       ELSE /\ scheduled' = FALSE
            /\ UNCHANGED yielded
    /\ UNCHANGED <<alive, wakerSent, stored, ended>>

\* A plausible bug in later polls: try_next's result is ignored and every
\* poll is Pending.
PollTryNextDropsItem ==
    /\ alive
    /\ wakerSent
    /\ scheduled' = FALSE
    /\ UNCHANGED <<alive, wakerSent, stored, ended, yielded>>

\* Later polls call try_next.  Ok(Some) is returned, and the consumer
\* polls again at once.  An empty channel (Err) and a closed one
\* (Ok(None)) are both Pending.
PollTryNext ==
    /\ alive
    /\ wakerSent
    /\ IF pushed > yielded
       THEN /\ yielded' = yielded + 1
            /\ UNCHANGED scheduled
       ELSE /\ scheduled' = FALSE
            /\ UNCHANGED yielded
    /\ UNCHANGED <<alive, wakerSent, stored, ended>>

PollNext ==
    /\ scheduled
    /\ ~ended
    /\ PollClosed \/ PollHandOver \/ PollTryNext
    /\ UNCHANGED <<wakerRxOpen, closed, removed, pushed>>
    /\ UNCHANGED sendVars

(* The send half                                                            *)

\* send_unbounded (and poll_write): send_with_custom_ticket under the
\* channel's ticket while is_alive holds, Err("Server closed") otherwise.
SendUnbounded ==
    /\ attempts < MaxSends
    /\ ~sinkReady
    /\ attempts' = attempts + 1
    /\ sent' = IF alive THEN sent + 1 ELSE sent
    /\ UNCHANGED sinkReady

\* Sink::poll_ready: Ok while is_alive holds, Err("Server closed") after.
PollReady ==
    /\ attempts < MaxSends
    /\ ~sinkReady
    /\ IF alive
       THEN /\ sinkReady' = TRUE
            /\ UNCHANGED attempts
       ELSE /\ attempts' = attempts + 1
            /\ UNCHANGED sinkReady
    /\ UNCHANGED sent

\* Sink::start_send: send_unchecked, with no test of is_alive.
StartSend ==
    /\ sinkReady
    /\ sinkReady' = FALSE
    /\ attempts' = attempts + 1
    /\ sent' = sent + 1

\* AsyncWrite::poll_shutdown stores false into is_alive; it wakes nobody.
PollShutdown ==
    /\ alive' = FALSE
    /\ UNCHANGED <<wakerSent, wakerRxOpen, stored, scheduled, ended, closed,
                   removed, pushed, yielded>>
    /\ UNCHANGED sendVars

SendHalf ==
    /\ SendUnbounded \/ PollReady \/ StartSend
    /\ UNCHANGED <<alive, wakerSent, wakerRxOpen, stored, scheduled, ended,
                   closed, removed, pushed, yielded>>

-----------------------------------------------------------------------------
(* The state container (environment)                                        *)

\* A message for this vconn: pushed into the unbounded channel, then the
\* stored waker is woken.  Per the comment at line 163 nothing is queued
\* before the container holds the waker.
Forward ==
    /\ ~closed
    /\ stored
    /\ pushed < MaxMsgs
    /\ pushed' = pushed + 1
    /\ scheduled' = TRUE
    /\ UNCHANGED <<alive, wakerSent, wakerRxOpen, stored, ended, closed,
                   removed, yielded>>
    /\ UNCHANGED sendVars

\* The vconn is removed: is_alive flipped off (line 93), the sender dropped
\* so the receiver is closed (line 145), and the stored waker woken.
RemoveVconn ==
    /\ ~closed
    /\ alive' = FALSE
    /\ closed' = TRUE
    /\ removed' = TRUE
    /\ scheduled' = (scheduled \/ stored)
    /\ stored' = FALSE
    /\ wakerRxOpen' = FALSE
    /\ UNCHANGED <<wakerSent, ended, pushed, yielded>>
    /\ UNCHANGED sendVars

\* The container is dropped as a whole: the sender, the oneshot receiver
\* and the stored waker go with it.  Dropping a waker does not wake it.
DropContainer ==
    /\ ~closed
    /\ closed' = TRUE
    /\ stored' = FALSE
    /\ wakerRxOpen' = FALSE
    /\ UNCHANGED <<alive, wakerSent, scheduled, ended, removed, pushed, yielded>>
    /\ UNCHANGED sendVars

-----------------------------------------------------------------------------

\* PeerChannel::new: is_alive set, the waker's oneshot created, no message
\* queued; the consumer task is spawned, so it will poll once.
Init ==
    /\ alive = TRUE
    /\ wakerSent = FALSE
    /\ wakerRxOpen = TRUE
    /\ stored = FALSE
    /\ scheduled = TRUE
    /\ ended = FALSE
    /\ closed = FALSE
    /\ removed = FALSE
    /\ pushed = 0
    /\ yielded = 0
    /\ sinkReady = FALSE
    /\ attempts = 0
    /\ sent = 0

Next ==
    \/ PollNext
    \/ SendHalf
    \/ PollShutdown
    \/ Forward
    \/ RemoveVconn
    \/ DropContainer

\* The executor polls a woken task; nothing else is assumed fair.
Spec == Init /\ [][Next]_vars /\ WF_vars(PollNext)

-----------------------------------------------------------------------------
(* Properties                                                               *)

\* Types, and: the stream ends only once is_alive is false, so after the
\* receive half has ended the send half refuses to send.
TypeOK ==
    /\ {alive, wakerSent, wakerRxOpen, stored, scheduled, ended, closed,
        removed, sinkReady} \subseteq BOOLEAN
    /\ pushed \in 0 .. MaxMsgs
    /\ yielded \in 0 .. pushed
    /\ attempts \in 0 .. MaxSends
    /\ sent \in 0 .. attempts
    /\ ended => ~alive

\* Every message the container forwards is returned by poll_next, unless
\* the stream has ended: the waker handed over on the first poll is woken
\* with each message, and after a Ready(Some) the consumer polls again
\* until try_next finds the channel empty.
EveryForwardYielded ==
    \A i \in 1 .. MaxMsgs : (pushed >= i) ~> (yielded >= i \/ ended)

\* Removing the vconn ends the receive half's stream (the comment at
\* line 145), whatever the stream was doing.
RemovalEndsStream == removed ~> ended

\* Once the unbounded receiver is closed (the comment at line 145: the
\* state container closes it when the vconn goes), the stream ends.
ClosedEndsStream == closed ~> ended

=============================================================================
