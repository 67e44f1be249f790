-------------------------- MODULE DownloadTransfer --------------------------
(***************************************************************************)
(* What the UART download protocol promises the tool that uses it: the     *)
(* blocks it sends arrive at the chip once each and in order, a call       *)
(* returns only when its own block has arrived, and a reply it receives is *)
(* the reply to the command before it.  A block and a reply are known by   *)
(* their place in the script of calls.                                     *)
(***************************************************************************)
EXTENDS Naturals, Sequences

CONSTANT Script   \* the calls, each "send" or "recv"

VARIABLES returned,   \* calls that have returned
          arrived,    \* blocks the chip has taken
          got         \* replies the tool has been handed

vars == <<returned, arrived, got>>

Init == returned = 0 /\ arrived = <<>> /\ got = <<>>

Call == returned + 1

Pending(op) == Call \in DOMAIN Script /\ Script[Call] = op

HasArrived == arrived # <<>> /\ arrived[Len(arrived)] = Call

Arrive == /\ Pending("send") /\ ~HasArrived
          /\ arrived' = Append(arrived, Call)
          /\ UNCHANGED <<returned, got>>

ReturnSend == /\ Pending("send") /\ HasArrived
              /\ returned' = Call
              /\ UNCHANGED <<arrived, got>>

ReturnReceive == /\ Pending("recv")
                 /\ returned' = Call
                 /\ got' = Append(got, Call)
                 /\ UNCHANGED arrived

Next == Arrive \/ ReturnSend \/ ReturnReceive

Spec == Init /\ [][Next]_vars
=============================================================================
