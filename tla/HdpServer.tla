------------------------------ MODULE HdpServer ------------------------------
(***************************************************************************)
(* The request path and the primary listener of hyxe_net's HdpServer      *)
(* (src/hyxe_net/src/hdp/hdp_server.rs).                                   *)
(*                                                                         *)
(* Kernel tasks hold clones of one HdpServerRemote.  unbounded_send and    *)
(* shutdown first take a ticket from the shared AtomicUsize               *)
(* (get_next_ticket, fetch_add, starting at 1) and then push (request,     *)
(* ticket) into the unbounded channel; clones used from several tasks can  *)
(* interleave between the two steps.  outbound_kernel_request_handler      *)
(* takes the requests in channel order: each request kind goes to the      *)
(* session manager, which accepts it or returns an error that is reported  *)
(* to the kernel as InternalServerError(Some(ticket)); if the kernel's     *)
(* receiver is gone, the loop returns Err.  Shutdown fires the             *)
(* shutdown_signaller and breaks the loop; either way the loop's receiver  *)
(* is dropped and later sends fail.                                        *)
(*                                                                         *)
(* listen_primary try_join!s the primary_timer (awaits the shutdown        *)
(* signal), the accept loop and the NTP updater (which never ends).        *)
(*                                                                         *)
(* Request kinds other than Shutdown (SendMessage, ConnectToHypernode,     *)
(* ...) differ only in what the session manager does with them: they are  *)
(* one kind, "Request", whose outcome is an input.  send_with_custom_ticket *)
(* and the remote's Sink (used by a PeerChannel's send half, channel.rs)  *)
(* push a request under a ticket the caller already holds, the ticket of  *)
(* the conversation it continues, in one step and with no ticket drawn.   *)
(***************************************************************************)
EXTENDS Naturals, Sequences, FiniteSets, Functions

CONSTANTS
    Kernels,        \* tasks holding a clone of the HdpServerRemote
    MaxRequests,    \* calls of unbounded_send/shutdown per task
    MaxAccepts,     \* inbound TCP connections offered to the listener
    TicketSpace,    \* 2^w for w the width of usize (AtomicUsize counter)
    None            \* model value

Kinds == {"Request", "Shutdown"}

MaxTicket == 1 + Cardinality(Kernels) * MaxRequests

\* HdpServerRemote::new: the counter starts at 1, ticket 0 is reserved.
FirstTicket == 1

VARIABLES
    ticketCounter,  \* HdpServerRemote.ticket_counter
    held,           \* per task: the request whose ticket it took, not yet pushed
    issued,         \* per task: calls made so far
    chan,           \* the outbound request channel's queue
    rxAlive,        \* the loop still owns the channel's receiver
    accepted,       \* tickets whose push returned Ok(ticket)
    refused,        \* tickets whose push returned Err (receiver dropped)
    answered,       \* tickets the kernel gets an outcome for
    signaller,      \* HdpServer.shutdown_signaller: "some" or "none"
    signalled,      \* the shutdown signal was sent
    timer,          \* primary_timer: "waiting" or "done"
    listening,      \* listen_primary's try_join is still running
    accepts,        \* inbound connections taken by the accept loop
    kernelAlive     \* the kernel still holds the to_kernel receiver

vars == <<ticketCounter, held, issued, chan, rxAlive, accepted, refused,
          answered, signaller, signalled, timer, listening, accepts, kernelAlive>>

listenerVars == <<signaller, signalled, timer, listening, accepts>>

-----------------------------------------------------------------------------
(* HdpServerRemote                                                          *)

\* unbounded_send(request) / shutdown(), first step: get_next_ticket, a
\* fetch_add that wraps at the width of usize.
GetNextTicket(k, kind) ==
    /\ held[k] = None
    /\ issued[k] < MaxRequests
    /\ held' = [held EXCEPT ![k] = [kind |-> kind, ticket |-> ticketCounter]]
    /\ issued' = [issued EXCEPT ![k] = @ + 1]
    /\ ticketCounter' = (ticketCounter + 1) % TicketSpace

\* A caller takes a ticket for a request or for a shutdown.
TakeTicket(k) ==
    /\ \E kind \in Kinds : GetNextTicket(k, kind)
    /\ UNCHANGED <<chan, rxAlive, accepted, refused, answered, listenerVars, kernelAlive>>

\* unbounded_send(request) / shutdown(), second step: push (request,
\* ticket); Ok(ticket) while the loop holds the receiver, Err otherwise.
PushRequest(k) ==
    /\ held[k] # None
    /\ IF rxAlive
       THEN /\ chan' = Append(chan, held[k])
            /\ accepted' = accepted \cup {held[k].ticket}
            /\ UNCHANGED refused
       ELSE /\ refused' = refused \cup {held[k].ticket}
            /\ UNCHANGED <<chan, accepted>>
    /\ held' = [held EXCEPT ![k] = None]
    /\ UNCHANGED <<ticketCounter, issued, rxAlive, answered, listenerVars, kernelAlive>>

\* send_with_custom_ticket(ticket, request): push (request, ticket) under
\* the caller's ticket; Ok(()) while the loop holds the receiver, Err
\* otherwise.  No ticket is drawn, so the call does not show in
\* accepted or refused.
SendWithCustomTicket(k, t, kind) ==
    /\ held[k] = None
    /\ issued[k] < MaxRequests
    /\ issued' = [issued EXCEPT ![k] = @ + 1]
    /\ chan' = IF rxAlive THEN Append(chan, [kind |-> kind, ticket |-> t]) ELSE chan
    /\ UNCHANGED <<ticketCounter, held, rxAlive, accepted, refused,
                   answered, listenerVars, kernelAlive>>

\* Sink<(Ticket, HdpServerRequest)>: poll_ready, poll_flush and poll_close
\* are always Ready(Ok); start_send is send_with_custom_ticket.  The
\* ticket is one whose conversation has an outcome (a PeerChannel's
\* channel_id is the ticket of the connection it belongs to).
SinkStartSend(k) ==
    \E t \in answered, kind \in Kinds : SendWithCustomTicket(k, t, kind)

-----------------------------------------------------------------------------
(* outbound_kernel_request_handler                                          *)

\* The loop ends: outbound_send_request_rx is dropped with whatever it
\* still queues.
DropReceiver ==
    /\ rxAlive' = FALSE
    /\ chan' = <<>>

\* A plausible bug in the error path: the error reported as
\* InternalServerError(None, ..), without the ticket.
ReportErrorNoTicket(t) ==
    IF kernelAlive
    THEN /\ chan' = Tail(chan)
         /\ UNCHANGED <<answered, rxAlive>>
    ELSE DropReceiver /\ UNCHANGED answered

\* The session manager refused request t: InternalServerError(Some(t), ..)
\* to the kernel; if the kernel is gone, return Err (the loop ends).
ReportError(t) ==
    IF kernelAlive
    THEN /\ answered' = answered \cup {t}
         /\ chan' = Tail(chan)
         /\ UNCHANGED rxAlive
    ELSE DropReceiver /\ UNCHANGED answered

\* A plausible bug in the Shutdown arm: the signal is sent but the loop
\* goes on (no break).
HandleShutdownNoBreak ==
    /\ signaller' = "none"
    /\ signalled' = (signalled \/ signaller = "some")
    /\ chan' = Tail(chan)
    /\ UNCHANGED rxAlive

\* HdpServerRequest::Shutdown: take the shutdown_signaller, send on it if
\* it was still there, break.
HandleShutdown ==
    /\ signaller' = "none"
    /\ signalled' = (signalled \/ signaller = "some")
    /\ DropReceiver

\* One iteration of the loop on the request at the head of the channel.
HandleRequest ==
    /\ rxAlive
    /\ chan # <<>>
    /\ LET r == Head(chan) IN
       IF r.kind = "Shutdown"
       THEN HandleShutdown /\ UNCHANGED answered
       ELSE /\ \/ /\ answered' = answered \cup {r.ticket}
                  /\ chan' = Tail(chan)
                  /\ UNCHANGED rxAlive
               \/ ReportError(r.ticket)
            /\ UNCHANGED <<signaller, signalled>>
    /\ UNCHANGED <<ticketCounter, held, issued, accepted, refused,
                   timer, listening, accepts, kernelAlive>>

-----------------------------------------------------------------------------
(* listen_primary and the kernel                                            *)

\* primary_session_creator_loop takes one inbound connection: the session
\* manager accepts it, or its error goes to the kernel; if the kernel is
\* gone, the ? returns Err and try_join! ends the listener.
AcceptConnection ==
    /\ listening
    /\ accepts < MaxAccepts
    /\ accepts' = accepts + 1
    /\ \/ UNCHANGED listening
       \/ /\ ~kernelAlive
          /\ listening' = FALSE
    /\ UNCHANGED <<ticketCounter, held, issued, chan, rxAlive, accepted,
                   refused, answered, signaller, signalled, timer, kernelAlive>>

\* primary_timer: the shutdown receiver yields (); the timer future
\* completes with Ok(()), and try_join! keeps polling the accept loop and
\* the NTP updater.
PrimaryTimer ==
    /\ listening
    /\ timer = "waiting"
    /\ signalled
    /\ timer' = "done"
    /\ UNCHANGED <<ticketCounter, held, issued, chan, rxAlive, accepted,
                   refused, answered, signaller, signalled, listening, accepts,
                   kernelAlive>>

\* The kernel drops its end of the to_kernel channel.
KernelExit ==
    /\ kernelAlive
    /\ kernelAlive' = FALSE
    /\ UNCHANGED <<ticketCounter, held, issued, chan, rxAlive, accepted,
                   refused, answered, listenerVars>>

-----------------------------------------------------------------------------

\* A plausible bug in HdpServerRemote::new: the counter starts at 0, the
\* reserved ticket.
InitTicketZero ==
    /\ ticketCounter = 0
    /\ held = [k \in Kernels |-> None]
    /\ issued = [k \in Kernels |-> 0]
    /\ chan = <<>>
    /\ rxAlive = TRUE
    /\ accepted = {}
    /\ refused = {}
    /\ answered = {}
    /\ signaller = "some"
    /\ signalled = FALSE
    /\ timer = "waiting"
    /\ listening = TRUE
    /\ accepts = 0
    /\ kernelAlive = TRUE

\* HdpServer::load has run: both loops are spawned, the remote's counter
\* is at 1 (ticket 0 is reserved).
Init ==
    /\ ticketCounter = FirstTicket
    /\ held = [k \in Kernels |-> None]
    /\ issued = [k \in Kernels |-> 0]
    /\ chan = <<>>
    /\ rxAlive = TRUE
    /\ accepted = {}
    /\ refused = {}
    /\ answered = {}
    /\ signaller = "some"
    /\ signalled = FALSE
    /\ timer = "waiting"
    /\ listening = TRUE
    /\ accepts = 0
    /\ kernelAlive = TRUE

Next ==
    \/ \E k \in Kernels : TakeTicket(k) \/ PushRequest(k) \/ SinkStartSend(k)
    \/ HandleRequest
    \/ AcceptConnection
    \/ PrimaryTimer
    \/ KernelExit

\* A task that took a ticket goes on to push (the two steps are one
\* synchronous call); the runtime keeps polling the loop and the timer.
Fairness ==
    /\ \A k \in Kernels : WF_vars(PushRequest(k))
    /\ WF_vars(HandleRequest)
    /\ WF_vars(PrimaryTimer)

Spec == Init /\ [][Next]_vars /\ Fairness

-----------------------------------------------------------------------------
(* Properties                                                               *)

TypeOK ==
    /\ ticketCounter \in 0 .. (TicketSpace - 1)
    /\ held \in [Kernels -> [kind: Kinds, ticket: 1 .. MaxTicket] \cup {None}]
    /\ issued \in [Kernels -> 0 .. MaxRequests]
    /\ chan \in Seq([kind: Kinds, ticket: 1 .. MaxTicket])
    /\ rxAlive \in BOOLEAN
    /\ {accepted, refused, answered} \subseteq SUBSET (1 .. MaxTicket)
    /\ signaller \in {"some", "none"}
    /\ signalled \in BOOLEAN
    /\ timer \in {"waiting", "done"}
    /\ listening \in BOOLEAN
    /\ accepts \in 0 .. MaxAccepts
    /\ kernelAlive \in BOOLEAN

\* Once the shutdown signal has been sent, the request loop handles no
\* further request: the Shutdown arm breaks out of the loop.
NothingHandledAfterShutdown ==
    [][signalled => UNCHANGED answered]_vars

\* A request whose unbounded_send returned Ok(ticket) is eventually
\* answered under that ticket (dispatched, or InternalServerError(Some(
\* ticket))) unless the request loop has ended.
AcceptedAnsweredOrStopped ==
    \A t \in 1 .. MaxTicket : t \in accepted ~> (t \in answered \/ ~rxAlive)

\* Shutdown stops the server: once the shutdown signal is sent, the
\* primary listener ends (comment at hdp_server.rs:227, "the timer ...
\* will return an error, thus causing the try_join to end the future").
ShutdownStopsListener == signalled ~> ~listening

=============================================================================
