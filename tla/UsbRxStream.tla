---------------------------- MODULE UsbRxStream ----------------------------
(***************************************************************************)
(* What the receive half of the CDC driver promises its reader: it reads   *)
(* the host's bytes in the order they were sent, each once.  Of a packet   *)
(* that meets a queue without room for all of it, exactly the first bytes  *)
(* that fit are kept.  A bus reset empties the queue.                      *)
(***************************************************************************)
EXTENDS Naturals, Sequences

CONSTANTS PktMax, Capacity

VARIABLES sent,      \* number of the last byte the driver took from the wire
          queue,     \* bytes kept and not yet read
          received   \* bytes read in this session

vars == <<sent, queue, received>>

Init == sent = 0 /\ queue = <<>> /\ received = <<>>

Room == Capacity - Len(queue)

\* A packet of n bytes; those the host lost with an earlier reset or
\* flush leave a gap before it.
Arrive == \E n \in 1..PktMax :
            /\ sent' >= sent + n
            /\ LET kept == IF n < Room THEN n ELSE Room
               IN  queue' = queue \o [i \in 1..kept |-> sent' - n + i]
            /\ UNCHANGED received

Read == /\ queue # <<>>
        /\ received' = Append(received, Head(queue))
        /\ queue' = Tail(queue)
        /\ UNCHANGED sent

Reset == queue' = <<>> /\ received' = <<>> /\ UNCHANGED sent

Next == Arrive \/ Read \/ Reset

Spec == Init /\ [][Next]_vars
=============================================================================
