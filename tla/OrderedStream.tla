---------------------------- MODULE OrderedStream ----------------------------
(***************************************************************************)
(* What OrderedChannel promises its sink, with no buffer and no ids: the   *)
(* sender's messages 0, 1, 2, ... arrive in any order, possibly more than  *)
(* once, and the sink always holds exactly the longest gap-free prefix of  *)
(* the messages that have arrived.  A message is forwarded as soon as all  *)
(* its predecessors are in, and never before; nothing is forwarded twice.  *)
(* The consumer may drop its receiver; from then on nothing reaches the    *)
(* sink, and what the channel still holds is nobody's concern.             *)
(***************************************************************************)
EXTENDS Naturals, Sequences

CONSTANT MaxMsgs

VARIABLES
    arrived,    \* messages handed to the channel at least once
    sink,       \* what the consumer has received, in order
    open        \* the consumer still holds its receiver

Msgs == 0 .. (MaxMsgs - 1)

\* The length of the gap-free run of arrived messages starting at k.
RECURSIVE RunFrom(_, _)
RunFrom(A, k) == IF k \in A THEN RunFrom(A, k + 1) ELSE k

\* The sink for a set of arrived messages: 0, 1, ... up to the first gap.
PrefixOf(A) == [i \in 1 .. RunFrom(A, 0) |-> i - 1]

Init ==
    /\ arrived = {}
    /\ sink = <<>>
    /\ open = TRUE

\* Message n arrives (again, perhaps); the sink catches up with the prefix.
Arrive(n) ==
    /\ open
    /\ arrived' = arrived \cup {n}
    /\ sink' = PrefixOf(arrived')
    /\ UNCHANGED open

\* The consumer drops its receiver, perhaps while message n arrives: the
\* sink may have caught up with part of the prefix n completes, and the
\* messages held no longer matter.
Close ==
    /\ open
    /\ open' = FALSE
    /\ \E n \in Msgs, k \in Len(sink) .. MaxMsgs :
          /\ k <= Len(PrefixOf(arrived \cup {n}))
          /\ sink' = SubSeq(PrefixOf(arrived \cup {n}), 1, k)
    /\ arrived' \in SUBSET Msgs

\* After the close the sink never grows.
Closed ==
    /\ ~open
    /\ UNCHANGED <<sink, open>>
    /\ arrived' \in SUBSET Msgs

Next == (\E n \in Msgs : Arrive(n)) \/ Close \/ Closed

Spec == Init /\ [][Next]_<<arrived, sink, open>>

=============================================================================
