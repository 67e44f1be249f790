---------------------------- MODULE UsbTxStream ----------------------------
(***************************************************************************)
(* What the transmit half of the CDC driver promises its caller: the bytes *)
(* a write has accepted reach the host in order, none twice and none lost  *)
(* on the way, in packets of at most PktMax bytes, and never more than     *)
(* Backlog of them are on the way.  A bus reset ends the session and drops *)
(* what was still on the way.                                              *)
(***************************************************************************)
EXTENDS Naturals, Sequences

CONSTANTS PktMax, Backlog

VARIABLES accepted,   \* bytes the writes of this session have accepted
          delivered   \* bytes of this session the host has acknowledged

vars == <<accepted, delivered>>

Init == accepted = <<>> /\ delivered = <<>>

\* A write publishes a nonempty run of bytes at once.
Accept == /\ Len(accepted') > Len(accepted)
          /\ SubSeq(accepted', 1, Len(accepted)) = accepted
          /\ Len(accepted') - Len(delivered) <= Backlog
          /\ UNCHANGED delivered

\* The host acknowledges one packet, the oldest bytes it has not seen.
Deliver == /\ \E n \in 1..PktMax :
                /\ Len(delivered) + n <= Len(accepted)
                /\ delivered' = SubSeq(accepted, 1, Len(delivered) + n)
           /\ UNCHANGED accepted

\* A bus reset: nothing of the old session is delivered any more.
Reset == accepted' = <<>> /\ delivered' = <<>>

Next == Accept \/ Deliver \/ Reset

Spec == Init /\ [][Next]_vars
=============================================================================
