------------------------------ MODULE Multiplex ------------------------------
(***************************************************************************)
(* The stream ids of a netbeam MultiplexedConn (src/netbeam/src/          *)
(* multiplex.rs) with SymmetricConvID keys.                                *)
(*                                                                         *)
(* MultiplexedConn::new draws the ids 1..INITIAL_CAPACITY from id_gen and  *)
(* pre-reserves a receiver for each.  Two AtomicU64 counters follow:       *)
(* id_gen (get_next_id) and current_latest_subscribed, which both          *)
(* get_next_prereserved and subscribe advance under the subscribers'       *)
(* write lock, asserting that it equals the id they hand out.              *)
(*                                                                         *)
(* The code that opens subscriptions (initiate_subscription, in            *)
(* sync/subscription.rs) is not in the repository.  Its part is played by  *)
(* Tasks, each opening subscriptions on a clone of the same connection the *)
(* way the asserts require: a pre-reserved stream while one is left, and   *)
(* otherwise get_next_id followed by subscribe of that id.  A failed       *)
(* assert panics the task that called it; parking_lot's lock is not        *)
(* poisoned, so the other clones go on with the state it left.             *)
(***************************************************************************)
EXTENDS Naturals

CONSTANTS
    Cap,    \* INITIAL_CAPACITY, the pre-reserved ids
    MaxId,  \* bound on the ids id_gen hands out
    Tasks   \* tasks opening subscriptions on clones of the connection

ASSUME Cap \in Nat /\ MaxId \in Nat /\ Cap <= MaxId

Ids == 1 .. MaxId

VARIABLES
    idGen,  \* the id_gen counter
    latest, \* the current_latest_subscribed counter
    subs,   \* subscribers: id -> pre_reserved_rx is still Some
    pc,     \* each task's place in opening a subscription
    tid,    \* the id a task got from get_next_id (0: none)
    handed  \* ids of the subscriptions returned to tasks

vars == <<idGen, latest, subs, pc, tid, handed>>

-----------------------------------------------------------------------------

\* IDGen::generate_next is 1 + fetch_add(1): the counter's new value.
\* IDGen::get_proposed_next is 1 + load: the same value, nothing advanced.
ProposedNext(counter) == counter + 1

\* get_next_prereserved, under the write lock.  The proposed key's entry
\* must exist and still hold its pre-reserved receiver (both `?`), which is
\* taken; generate_next inside the assert advances the counter.  Otherwise
\* it returns None and changes nothing.
GetNextPrereserved(t) ==
    LET next == ProposedNext(latest) IN
    /\ pc[t] \in {"idle", "open"}
    /\ IF next \in DOMAIN subs /\ subs[next]
       THEN /\ subs' = [subs EXCEPT ![next] = FALSE]
            /\ latest' = latest + 1
            /\ handed' = handed \cup {next}
            /\ pc' = [pc EXCEPT ![t] = "open"]
       ELSE /\ pc' = [pc EXCEPT ![t] = "none"]
            /\ UNCHANGED <<subs, latest, handed>>
    /\ UNCHANGED <<idGen, tid>>

\* get_next_id: generate_next on id_gen.
GetNextId(t) ==
    /\ pc[t] = "none"
    /\ idGen < MaxId
    /\ idGen' = idGen + 1
    /\ tid' = [tid EXCEPT ![t] = idGen + 1]
    /\ pc' = [pc EXCEPT ![t] = "got"]
    /\ UNCHANGED <<latest, subs, handed>>

\* subscribe(id), under the write lock: a fresh entry is inserted (with no
\* pre-reserved receiver) and must not replace one, then generate_next on
\* current_latest_subscribed must equal id.  Each failed assert panics
\* after the steps before it took effect.
Subscribe(t) ==
    LET id == tid[t] IN
    /\ pc[t] = "got"
    /\ subs' = [i \in DOMAIN subs \cup {id} |-> IF i = id THEN FALSE ELSE subs[i]]
    /\ IF id \in DOMAIN subs
       THEN /\ pc' = [pc EXCEPT ![t] = "panicked"]
            /\ UNCHANGED <<latest, handed>>
       ELSE /\ latest' = latest + 1
            /\ IF ProposedNext(latest) = id
               THEN /\ handed' = handed \cup {id}
                    /\ pc' = [pc EXCEPT ![t] = "open"]
               ELSE /\ pc' = [pc EXCEPT ![t] = "panicked"]
                    /\ UNCHANGED handed
    /\ tid' = [tid EXCEPT ![t] = 0]
    /\ UNCHANGED idGen

\* MultiplexedConn::new: ids 1..Cap drawn from id_gen, each with a
\* pre-reserved receiver; current_latest_subscribed starts at 0.
Init ==
    /\ idGen = Cap
    /\ latest = 0
    /\ subs = [i \in 1 .. Cap |-> TRUE]
    /\ pc = [t \in Tasks |-> "idle"]
    /\ tid = [t \in Tasks |-> 0]
    /\ handed = {}

\* The ids up to MaxId are used up: no task can open another subscription.
IdsExhausted ==
    /\ \A t \in Tasks : pc[t] \in {"none", "panicked"}
    /\ idGen = MaxId
    /\ UNCHANGED vars

Next ==
    \/ \E t \in Tasks : GetNextPrereserved(t) \/ GetNextId(t) \/ Subscribe(t)
    \/ IdsExhausted

Spec == Init /\ [][Next]_vars

-----------------------------------------------------------------------------
(* Properties                                                               *)

\* Neither assert of subscribe fires: each task subscribes the id that
\* get_next_id gave it while it is still the next of
\* current_latest_subscribed and has no entry yet.
SubscribeAssertsHold == \A t \in Tasks : pc[t] # "panicked"

=============================================================================
