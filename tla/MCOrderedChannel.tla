------------------------- MODULE MCOrderedChannel -------------------------
(* Model-checking instance of OrderedChannel.                               *)
EXTENDS OrderedChannel

\* Duplicating transport: six messages, up to two copies handed over, ids
\* wide enough not to wrap (as u64 ids do not in practice).
MCDupMsgs == 6
MCIdSpace == 8
MCTwoDups == 2
\* The smallest case that shows a duplicate left in the buffer.
MCLeakMsgs == 3
MCOneDup   == 1
=============================================================================
