------------------------------ MODULE Ep0Proofs ------------------------------
(***************************************************************************)
(* The safety of Ep0Control, for every set of addresses and line codings   *)
(* and every bound.  What makes the properties inductive is how far the    *)
(* handler's stage, the packet behind RxPktRdy, the answer and the host's  *)
(* transfer may be apart: Apart below, one conjunct for each pair.  On it  *)
(* rests AnswerHeld, that the answer is the one the request calls for.     *)
(***************************************************************************)
EXTENDS Ep0Control, FiniteSetTheorems, TLAPS

\* Under a bus reset that is not yet handled all but the stage is at rest.
ResetIsQuiet == "reset" \in flags =>
  phase = "idle" /\ answer.do = "none" /\ rx = NoPacket

\* The last word of a transfer leaves the handler in the SETUP stage.
AnswerStage ==
  /\ answer.do \in {"done", "reply", "stall"} => stage = "SETUP"
  /\ answer.do = "more" => stage = "DATA_OUT"

\* A packet is the one of the host's transfer, and not yet answered.
PacketOfHost ==
  /\ rx.type = "setup" => rx.of = req /\ phase = "setup" /\ answer.do = "none"
  /\ rx.type = "data"  => /\ rx.of = req /\ req.kind = "SetLineCoding"
                          /\ phase = "data" /\ stage = "DATA_OUT" /\ answer.do = "none"

\* The data stage is the host's, or the leftover of one it gave up.
DataStageHeld == stage = "DATA_OUT" /\ "reset" \notin flags =>
  /\ phase # "idle"
  /\ \/ Lost
     \/ req.kind = "SetLineCoding" /\ decoded = req /\ rx.type # "setup"

\* A pending address waits for the end of its status stage; after that, or
\* once it is given up, for the next event.
PendingHeld == pending # 0 /\ "reset" \notin flags =>
  \/ /\ answer.do = "none"
     /\ \/ pending = hostAddr
        \/ \E r \in abandoned : r.kind = "SetAddress" /\ r.value = pending
  \/ /\ phase = "setup" /\ req.kind = "SetAddress" /\ req.value = pending
     /\ answer.do = "done" /\ "ep0" \notin flags

Apart == /\ ResetIsQuiet /\ AnswerStage /\ PacketOfHost
         /\ DataStageHeld /\ AnswerFitsUnlessLost /\ PendingHeld

IInv == TypeOK /\ Apart

-----------------------------------------------------------------------------
(* What the handler's helpers return.                                      *)

LEMMA RequestShape ==
  ASSUME NEW r \in Requests
  PROVE  /\ r.kind = "SetAddress" => r.value \in Addresses
         /\ r.kind = "SetLineCoding" => r.value \in Codings
         /\ r # NoRequest
  BY DEF Requests, Request, NoRequest

LEMMA DispatchAnswers ==
  ASSUME NEW r \in Requests
  PROVE  /\ Dispatch(r).do \in {"more", "done", "reply", "stall"}
         /\ Dispatch(r).do = "more" <=> r.kind = "SetLineCoding"
         /\ r.kind = "SetAddress" => Dispatch(r).do = "done"
  BY DEF Dispatch, DispatchDescriptor, Answer, Reply

LEMMA PacketShape ==
  ASSUME NEW p \in Packets
  PROVE  /\ p.type \in {"none", "setup", "data"}
         /\ p.type # "none" => p.of \in Requests
         /\ p.type = "none" => p = NoPacket
  BY DEF Packets, Packet, NoPacket

LEMMA MadePacket ==
  ASSUME NEW r \in Requests, NEW t \in {"setup", "data"}
  PROVE  /\ Packet(t, r) \in Packets
         /\ Packet(t, r).type = t /\ Packet(t, r).of = r
  BY DEF Packets, Packet

LEMMA NoPacketShape == NoPacket \in Packets /\ NoPacket.type = "none"
  BY DEF Packets, NoPacket, Packet

LEMMA AnswerShape == \A d : Answer(d).do = d
  BY DEF Answer

-----------------------------------------------------------------------------
LEMMA InitIInv == Init => IInv
<1> SUFFICES ASSUME Init PROVE IInv
  OBVIOUS
<1>1. rx.type = "none" /\ rx \in Packets /\ answer.do = "none"
  BY NoPacketShape, AnswerShape DEF Init
<1>2. TypeOK
  <2>1. transfers \in 0..MaxTransfers /\ abandons \in 0..MaxAbandons /\ resets \in 0..MaxResets
    BY Ep0Assumption DEF Init
  <2>. QED  BY <1>1, <2>1 DEF Init, TypeOK, Answers
<1>3. Apart
  BY <1>1 DEF Init, Apart, ResetIsQuiet, AnswerStage, PacketOfHost,
              DataStageHeld, AnswerFitsUnlessLost, AnswerFitsRequest, PendingHeld
<1>. QED  BY <1>2, <1>3 DEF IInv

-----------------------------------------------------------------------------
(* The handler's branches.                                                 *)

LEMMA NoPacketStep == ASSUME IInv, IsrNoPacket PROVE IInv'
<1> USE DEF IInv, Apart
<1>1. TypeOK'
  BY DEF TypeOK, IsrNoPacket, Latch, host, history, bounds
<1>2. ResetIsQuiet' /\ AnswerStage' /\ PacketOfHost'
  BY DEF ResetIsQuiet, AnswerStage, PacketOfHost, IsrNoPacket, host, history
<1>3. DataStageHeld' /\ AnswerFitsUnlessLost'
  BY DEF DataStageHeld, AnswerFitsUnlessLost, AnswerFitsRequest, Lost,
         IsrNoPacket, host, history
<1>4. PendingHeld'
  BY DEF PendingHeld, IsrNoPacket
<1>. QED  BY <1>1, <1>2, <1>3, <1>4

LEMMA DataOutStep == ASSUME IInv, IsrDataOut PROVE IInv'
<1> USE DEF IInv, Apart
<1>1. rx.type \in {"setup", "data"} /\ rx' = NoPacket /\ rx'.type = "none"
        /\ rx' \in Packets /\ answer'.do = "done"
  BY PacketShape, NoPacketShape, AnswerShape DEF TypeOK, IsrDataOut
<1>2. Stored(rx) \in Codings \cup {Default, Misread}
  BY <1>1, RequestShape, PacketShape DEF Stored, TypeOK, PacketOfHost
<1>3. TypeOK'
  BY <1>1, <1>2 DEF TypeOK, IsrDataOut, Latch, host, history, bounds, Answers
<1>4. ResetIsQuiet' /\ AnswerStage' /\ PacketOfHost' /\ DataStageHeld' /\ PendingHeld'
  BY <1>1 DEF ResetIsQuiet, AnswerStage, PacketOfHost, DataStageHeld, PendingHeld,
              IsrDataOut
<1>5. decoded = req \/ Lost
  BY <1>1 DEF IsrDataOut, DataStageHeld
<1>6. AnswerFitsUnlessLost'
  BY <1>5 DEF AnswerFitsUnlessLost, AnswerFitsRequest, Lost, IsrDataOut, host, history
<1>. QED  BY <1>3, <1>4, <1>6

LEMMA SetupStep == ASSUME IInv, IsrSetup PROVE IInv'
<1> USE DEF IInv, Apart
<1>1. /\ rx.of \in Requests /\ rx.of = req /\ phase = "setup"
      /\ rx' = NoPacket /\ rx'.type = "none" /\ rx' \in Packets
  BY PacketShape, NoPacketShape DEF TypeOK, IsrSetup, PacketOfHost
<1>2. /\ answer'.do \in {"more", "done", "reply", "stall"}
      /\ answer'.do = "more" <=> req.kind = "SetLineCoding"
      /\ req.kind = "SetAddress" => answer'.do = "done"
  BY <1>1, DispatchAnswers DEF IsrSetup
<1>3. TypeOK'
  BY <1>1, <1>2, RequestShape
  DEF TypeOK, IsrSetup, Latch, StageAfter, host, bounds, Answers
<1>4. decoded' = req' /\ req' = req /\ phase' = "setup" /\ flags' = {}
        /\ stage' = StageAfter(req.kind)
  BY <1>1 DEF IsrSetup, host
<1>5. ResetIsQuiet' /\ AnswerStage' /\ PacketOfHost' /\ DataStageHeld'
  BY <1>1, <1>2, <1>4
  DEF ResetIsQuiet, AnswerStage, PacketOfHost, DataStageHeld, StageAfter
<1>6. AnswerFitsUnlessLost'
  BY <1>4 DEF AnswerFitsUnlessLost, AnswerFitsRequest
<1>7. PendingHeld'
  BY <1>1, <1>2, <1>4 DEF PendingHeld, IsrSetup
<1>. QED  BY <1>3, <1>5, <1>6, <1>7

LEMMA ResetStep == ASSUME IInv, IsrReset PROVE IInv'
<1> USE DEF IInv, Apart
<1>1. rx' = NoPacket /\ rx'.type = "none" /\ rx' \in Packets
        /\ stage' = "SETUP" /\ answer' = answer /\ answer.do = "none"
  BY NoPacketShape DEF IsrReset, StageAtReset, ResetIsQuiet
<1>2. TypeOK'
  BY <1>1 DEF TypeOK, IsrReset, host, history, bounds
<1>3. ResetIsQuiet' /\ AnswerStage' /\ PacketOfHost' /\ DataStageHeld'
        /\ AnswerFitsUnlessLost' /\ PendingHeld'
  BY <1>1 DEF ResetIsQuiet, AnswerStage, PacketOfHost, DataStageHeld,
              AnswerFitsUnlessLost, AnswerFitsRequest, PendingHeld, IsrReset
<1>. QED  BY <1>2, <1>3

-----------------------------------------------------------------------------
(* The host's actions and the bus.                                         *)

LEMMA SetupTypes ==
  ASSUME IInv, NEW r \in Requests, Setup(r), abandons' \in 0..MaxAbandons,
         abandoned' \subseteq Requests
  PROVE  /\ TypeOK'
         /\ rx' = Packet("setup", r) /\ rx'.type = "setup" /\ rx'.of = r
         /\ answer'.do = "none" /\ req' = r /\ phase' = "setup"
         /\ "reset" \notin flags /\ "reset" \notin flags'
         /\ UNCHANGED <<stage, decoded, pending, hostAddr>>
<1>1. rx' \in Packets /\ rx'.type = "setup" /\ rx'.of = r /\ answer'.do = "none"
  BY MadePacket, AnswerShape DEF Setup
<1>2. transfers' \in 0..MaxTransfers
  BY Ep0Assumption DEF IInv, TypeOK, Setup
<1>. QED  BY <1>1, <1>2 DEF IInv, TypeOK, Setup, device, Answers

LEMMA HostSetupStep ==
  ASSUME IInv, NEW r \in Requests, HostSetup(r) PROVE IInv'
<1>1. UNCHANGED <<abandons, abandoned>> /\ Setup(r) /\ phase = "idle"
  BY DEF HostSetup
<1>2. /\ TypeOK'
      /\ rx'.type = "setup" /\ rx'.of = r
      /\ answer'.do = "none" /\ req' = r /\ phase' = "setup"
      /\ "reset" \notin flags /\ "reset" \notin flags'
      /\ UNCHANGED <<stage, decoded, pending, hostAddr>>
  BY <1>1, SetupTypes DEF IInv, TypeOK
<1>3. stage = "SETUP"
  BY <1>1, <1>2 DEF IInv, TypeOK, Apart, DataStageHeld
<1>4. pending # 0 => \/ pending = hostAddr
                    \/ \E q \in abandoned : q.kind = "SetAddress" /\ q.value = pending
  BY <1>1, <1>2 DEF IInv, Apart, PendingHeld
<1>. QED  BY <1>1, <1>2, <1>3, <1>4
          DEF IInv, Apart, ResetIsQuiet, AnswerStage, PacketOfHost, DataStageHeld,
              AnswerFitsUnlessLost, AnswerFitsRequest, PendingHeld

LEMMA HostAbandonStep ==
  ASSUME IInv, NEW r \in Requests, HostAbandon(r) PROVE IInv'
<1> DEFINE gaveUp == req.kind \in {"SetAddress", "SetLineCoding"}
<1>1. /\ phase # "idle" /\ Setup(r)
      /\ abandoned' = abandoned \cup IF gaveUp THEN {req} ELSE {}
      /\ req \in Requests \cup {NoRequest} /\ NoRequest.kind = "None"
      /\ abandons' \in 0..MaxAbandons
  BY Ep0Assumption DEF HostAbandon, IInv, TypeOK, NoRequest, Request
<1>2. abandoned' \subseteq Requests
  BY <1>1 DEF IInv, TypeOK
<1>3. /\ TypeOK'
      /\ rx'.type = "setup" /\ rx'.of = r
      /\ answer'.do = "none" /\ req' = r /\ phase' = "setup"
      /\ "reset" \notin flags /\ "reset" \notin flags'
      /\ UNCHANGED <<stage, decoded, pending, hostAddr>>
  BY <1>1, <1>2, SetupTypes
<1>4. stage = "DATA_OUT" => Lost'
  BY <1>1, <1>3 DEF IInv, Apart, DataStageHeld, Lost
<1>5. pending # 0 => \/ pending = hostAddr
                    \/ \E q \in abandoned' : q.kind = "SetAddress" /\ q.value = pending
  BY <1>1, <1>3 DEF IInv, Apart, PendingHeld
<1>. QED  BY <1>3, <1>4, <1>5
          DEF IInv, Apart, ResetIsQuiet, AnswerStage, PacketOfHost, DataStageHeld,
              AnswerFitsUnlessLost, AnswerFitsRequest, PendingHeld

LEMMA HostDataStep == ASSUME IInv, HostData PROVE IInv'
<1>1. /\ req \in Requests /\ rx' = Packet("data", req) /\ answer' = Answer("none")
      /\ stage = "DATA_OUT"
  BY DEF HostData, IInv, TypeOK, Apart, AnswerStage, NoRequest, Request
<1>2. rx' \in Packets /\ rx'.type = "data" /\ rx'.of = req /\ answer'.do = "none"
  BY <1>1, MadePacket, AnswerShape
<1>3. /\ answer.do # "none" /\ phase' = "data" /\ "reset" \notin flags
      /\ UNCHANGED <<stage, decoded, pending, hostAddr, req, abandoned>>
      /\ flags' = flags \cup {"ep0"} /\ req.kind = "SetLineCoding" /\ answer.do = "more"
  BY DEF HostData, device, history, IInv, Apart, ResetIsQuiet
<1>4. pending = 0
  BY <1>3 DEF IInv, Apart, PendingHeld
<1>5. TypeOK'
  BY <1>2 DEF HostData, IInv, TypeOK, device, history, bounds, Answers
<1>. QED  BY <1>1, <1>2, <1>3, <1>4, <1>5
          DEF IInv, Apart, ResetIsQuiet, AnswerStage, PacketOfHost, DataStageHeld,
              AnswerFitsUnlessLost, AnswerFitsRequest, PendingHeld, Lost

\* The two ends of a transfer have the same effect on all but the address.
LEMMA EndStep ==
  ASSUME IInv, HostEnd, answer.do \in {"done", "reply", "stall"},
         hostAddr' \in Addresses \cup {0}, hostCoding' \in Codings \cup {Default},
         pending # 0 => hostAddr' = pending
  PROVE  IInv'
<1>1. /\ stage' = "SETUP" /\ rx.type = "none" /\ rx' = rx /\ answer'.do = "none"
      /\ "reset" \notin flags /\ "reset" \notin flags' /\ pending' = pending
  BY AnswerShape, PacketShape
  DEF HostEnd, device, IInv, TypeOK, Apart, AnswerStage, ResetIsQuiet, PacketOfHost
<1>2. TypeOK'
  BY <1>1 DEF HostEnd, IInv, TypeOK, device, bounds, Answers
<1>. QED  BY <1>1, <1>2
          DEF IInv, Apart, ResetIsQuiet, AnswerStage, PacketOfHost, DataStageHeld,
              AnswerFitsUnlessLost, AnswerFitsRequest, PendingHeld

LEMMA HostCompleteStep == ASSUME IInv, HostComplete PROVE IInv'
<1>1. /\ answer.do \in {"done", "reply"} /\ HostEnd /\ phase # "idle"
      /\ req \in Requests \cup {NoRequest} /\ NoRequest.kind = "None"
  BY DEF HostComplete, IInv, TypeOK, NoRequest, Request
<1>2. /\ hostAddr' \in Addresses \cup {0}
      /\ hostCoding' \in Codings \cup {Default}
  BY <1>1, RequestShape DEF HostComplete, IInv, TypeOK
<1>3. pending # 0 => hostAddr' = pending
  BY <1>1 DEF HostComplete, IInv, Apart, PendingHeld, ResetIsQuiet
<1>. QED  BY <1>1, <1>2, <1>3, EndStep

LEMMA HostFailStep == ASSUME IInv, HostFail PROVE IInv'
<1>1. answer.do \in {"done", "reply", "stall"} /\ HostEnd
  BY DEF HostFail, Overrun
<1>2. pending = 0
  BY <1>1 DEF HostFail, Overrun, IInv, Apart, PendingHeld, ResetIsQuiet, Reads
<1>3. hostAddr' \in Addresses \cup {0} /\ hostCoding' \in Codings \cup {Default}
  BY DEF HostFail, IInv, TypeOK
<1>. QED  BY <1>1, <1>2, <1>3, EndStep

LEMMA BusResetStep == ASSUME IInv, BusReset PROVE IInv'
<1>1. rx' = NoPacket /\ rx'.type = "none" /\ rx' \in Packets /\ answer'.do = "none"
  BY NoPacketShape, AnswerShape DEF BusReset
<1>2. resets' \in 0..MaxResets
  BY Ep0Assumption DEF IInv, TypeOK, BusReset
<1>3. TypeOK'
  BY <1>1, <1>2 DEF BusReset, IInv, TypeOK, device, Answers
<1>. QED  BY <1>1, <1>3
          DEF BusReset, device, IInv, Apart, ResetIsQuiet, AnswerStage, PacketOfHost,
              DataStageHeld, AnswerFitsUnlessLost, AnswerFitsRequest, PendingHeld

LEMMA Stutter == ASSUME IInv, UNCHANGED vars PROVE IInv'
  BY DEF IInv, TypeOK, Apart, ResetIsQuiet, AnswerStage, PacketOfHost, DataStageHeld,
         AnswerFitsUnlessLost, AnswerFitsRequest, PendingHeld, Lost,
         vars, device, core, host, history, bounds

-----------------------------------------------------------------------------
(* The invariant holds of every behaviour.                                 *)
THEOREM Invariance == Spec => []IInv
<1>1. ASSUME IInv, [Next]_vars PROVE IInv'
  <2>1. CASE IsrStep
    BY <1>1, <2>1, NoPacketStep, DataOutStep, SetupStep, ResetStep DEF IsrStep
  <2>2. CASE HostAnswer
    BY <1>1, <2>2, HostDataStep, HostCompleteStep, HostFailStep DEF HostAnswer
  <2>3. CASE \E r \in Requests : HostSetup(r) \/ HostAbandon(r)
    BY <1>1, <2>3, HostSetupStep, HostAbandonStep
  <2>4. CASE BusReset
    BY <1>1, <2>4, BusResetStep
  <2>5. CASE UNCHANGED vars
    BY <1>1, <2>5, Stutter
  <2>. QED  BY <1>1, <2>1, <2>2, <2>3, <2>4, <2>5 DEF Next
<1>. QED  BY <1>1, InitIInv, PTL DEF Spec

(* The driver's and the core's state keep their types: no address is ever  *)
(* loaded that the host did not assign.                                    *)
THEOREM TypeCorrect == Spec => []TypeOK
  BY Invariance, PTL DEF IInv

(* An answer is to the host's request, but for the one that a given up     *)
(* SET_LINE_CODING swallows (stage DATA_OUT of bt_usb_isr).                *)
THEOREM AnswerFits == Spec => []AnswerFitsUnlessLost
  BY Invariance, PTL DEF IInv, Apart

(* No data packet is ever left behind RxPktRdy in the SETUP stage.         *)
THEOREM DataMet == Spec => []DataMeetsDataStage
<1>1. IInv => DataMeetsDataStage
  BY DEF IInv, Apart, PacketOfHost, DataMeetsDataStage
<1>. QED  BY <1>1, Invariance, PTL

(* The handler is back in the SETUP stage whenever the host is between two *)
(* transfers, whatever it gave up before.                                  *)
THEOREM IdleIsSetup == Spec => []IdleMeansSetup
<1>1. IInv => IdleMeansSetup
  BY DEF IInv, TypeOK, Apart, DataStageHeld, IdleMeansSetup
<1>. QED  BY <1>1, Invariance, PTL

(* The address the device takes is 0 at a reset, the one whose status      *)
(* stage the host has seen, or one whose transfer the host gave up.        *)
THEOREM AddressFollows == Spec => AddressFollowsStatus
<1> DEFINE A == ufaddr' # ufaddr =>
       \/ ufaddr' \in {0, hostAddr}
       \/ \E r \in abandoned : r.kind = "SetAddress" /\ ufaddr' = r.value
<1>1. ASSUME IInv, Next PROVE A
  <2>1. CASE IsrReset
    BY <2>1 DEF IsrReset
  <2>2. CASE IsrNoPacket \/ IsrDataOut \/ IsrSetup
    <3>1. flags = {"ep0"} /\ Latch
      BY <2>2 DEF IsrNoPacket, IsrDataOut, IsrSetup
    <3>. QED  BY <1>1, <3>1 DEF Latch, IInv, Apart, PendingHeld
  <2>3. CASE HostAnswer \/ BusReset \/ \E r \in Requests : HostSetup(r) \/ HostAbandon(r)
    BY <2>3 DEF HostAnswer, HostData, HostComplete, HostFail, HostEnd, BusReset,
                HostSetup, HostAbandon, Setup
  <2>. QED  BY <1>1, <2>1, <2>2, <2>3 DEF Next, IsrStep
<1>2. ASSUME UNCHANGED vars PROVE A
  BY <1>2 DEF vars, core
<1>. QED  BY <1>1, <1>2, Invariance, PTL DEF Spec, AddressFollowsStatus

-----------------------------------------------------------------------------
(* The lengths of the tables.  The sum over the parts is a recursive       *)
(* function: for a given table it is the one that has the values below.    *)

AddsUp(t, f) == f = [i \in 0..Len(t) |-> IF i = 0 THEN 0 ELSE f[i - 1] + t[i].len]
Sums(t) == CHOOSE f : AddsUp(t, f)

\* A function that satisfies the recursion shows that the sum does.
LEMMA SumsExist ==
  ASSUME NEW t, NEW g, AddsUp(t, g)
  PROVE  AddsUp(t, Sums(t)) /\ \A k : LengthTo(t, k) = Sums(t)[k]
<1>1. AddsUp(t, Sums(t))
  BY DEF Sums
<1>2. \A k : LengthTo(t, k) = Sums(t)[k]
  BY DEF LengthTo, Sums, AddsUp
<1>. QED  BY <1>1, <1>2

LEMMA OnePart ==
  ASSUME NEW t, Len(t) = 1, t[1].len \in Nat
  PROVE  LengthTo(t, 1) = t[1].len
<1> DEFINE g == [i \in 0..1 |-> IF i = 0 THEN 0 ELSE t[1].len]
<1>1. AddsUp(t, g)
  BY DEF AddsUp
<1> HIDE DEF g
<1>2. LengthTo(t, 1) = Sums(t)[1] /\ AddsUp(t, Sums(t))
  BY <1>1, SumsExist
<1>. QED  BY <1>2 DEF AddsUp

\* The configuration: its parts, and where each of them ends.
LEMMA ConfParts ==
  /\ Len(ConfDesc) = 9
  /\ ConfDesc[1].len = 9 /\ ConfDesc[1].kind = "config"
  /\ ConfDesc[2].len = 9 /\ ConfDesc[2].kind = "interface"
  /\ ConfDesc[3].len = 5 /\ ConfDesc[3].kind = "cdc_header"
  /\ ConfDesc[4].len = 4 /\ ConfDesc[4].kind = "cdc_acm"
  /\ ConfDesc[5].len = 5 /\ ConfDesc[5].kind = "cdc_union"
  /\ ConfDesc[6].len = 7 /\ ConfDesc[6].kind = "endpoint"
  /\ ConfDesc[7].len = 9 /\ ConfDesc[7].kind = "interface"
  /\ ConfDesc[8].len = 7 /\ ConfDesc[8].kind = "endpoint"
  /\ ConfDesc[9].len = 7 /\ ConfDesc[9].kind = "endpoint"
  /\ ConfDesc[1].announces = 2 /\ ConfDesc[2].announces = 1 /\ ConfDesc[7].announces = 2
  BY DEF ConfDesc, ConfigPart, InterfacePart, EndpointPart, Plain, Part

LEMMA ConfEnds ==
  /\ LengthTo(ConfDesc, 1) = 9 /\ LengthTo(ConfDesc, 2) = 18 /\ LengthTo(ConfDesc, 3) = 23
  /\ LengthTo(ConfDesc, 4) = 27 /\ LengthTo(ConfDesc, 5) = 32 /\ LengthTo(ConfDesc, 6) = 39
  /\ LengthTo(ConfDesc, 7) = 48 /\ LengthTo(ConfDesc, 8) = 55 /\ LengthTo(ConfDesc, 9) = 62
<1> DEFINE g == [i \in 0..9 |-> CASE i = 0 -> 0 [] i = 1 -> 9 [] i = 2 -> 18 [] i = 3 -> 23
                                   [] i = 4 -> 27 [] i = 5 -> 32 [] i = 6 -> 39 [] i = 7 -> 48
                                   [] i = 8 -> 55 [] i = 9 -> 62]
<1>1. ASSUME NEW i \in 0..9
      PROVE  g[i] = IF i = 0 THEN 0 ELSE g[i - 1] + ConfDesc[i].len
  <2>1. i \in {0, 1, 2, 3, 4, 5, 6, 7, 8, 9}
    OBVIOUS
  <2>. QED  BY <2>1, ConfParts
<1> HIDE DEF g
<1>2. Len(ConfDesc) = 9
  BY ConfParts
<1>3. g = [i \in 0..9 |-> g[i]]
  BY DEF g
<1>4. AddsUp(ConfDesc, g)
  BY <1>1, <1>2, <1>3 DEF AddsUp
<1>5. AddsUp(ConfDesc, Sums(ConfDesc)) /\ \A k : LengthTo(ConfDesc, k) = Sums(ConfDesc)[k]
  BY <1>4, SumsExist
<1>6. \A i \in 0..9 : Sums(ConfDesc)[i] =
        IF i = 0 THEN 0 ELSE Sums(ConfDesc)[i - 1] + ConfDesc[i].len
  BY <1>2, <1>5 DEF AddsUp
<1>7. /\ Sums(ConfDesc)[0] = 0 /\ Sums(ConfDesc)[1] = 9 /\ Sums(ConfDesc)[2] = 18
      /\ Sums(ConfDesc)[3] = 23 /\ Sums(ConfDesc)[4] = 27 /\ Sums(ConfDesc)[5] = 32
  BY <1>6, ConfParts
<1>8. /\ Sums(ConfDesc)[6] = 39 /\ Sums(ConfDesc)[7] = 48
      /\ Sums(ConfDesc)[8] = 55 /\ Sums(ConfDesc)[9] = 62
  BY <1>6, <1>7, ConfParts
<1>. QED  BY <1>5, <1>7, <1>8

\* Every table fits in one packet of EP0.
LEMMA TablesFit ==
  ASSUME NEW d \in Descriptors PROVE TableLength(d) \in Nat /\ TableLength(d) <= 64
<1>1. CASE d = "config"
  <2>1. Table(d) = ConfDesc
    BY <1>1 DEF Table
  <2>. QED  BY <2>1, ConfParts, ConfEnds DEF TableLength
<1>2. CASE d # "config"
  <2>1. Len(Table(d)) = 1 /\ Table(d)[1].len \in 0..64
    BY <1>2 DEF Descriptors, Table, DeviceDesc, LangDesc, MfrDesc, ProdDesc, Plain, Part
  <2>2. LengthTo(Table(d), 1) = Table(d)[1].len
    BY <2>1, OnePart
  <2>. QED  BY <2>1, <2>2 DEF TableLength
<1>. QED  BY <1>1, <1>2

\* A host that asks for the configuration and gets all of it can use it.
LEMMA ConfUsable == Usable(ConfDesc, PartsIn(ConfDesc, 62))
<1>1. PartsIn(ConfDesc, 62) = 1..9
  <2>1. \A k \in 1..9 : LengthTo(ConfDesc, k) <= 62
    <3>1. ASSUME NEW k \in 1..9 PROVE k \in {1, 2, 3, 4, 5, 6, 7, 8, 9}
      OBVIOUS
    <3>. QED  BY <3>1, ConfEnds
  <2>. QED  BY <2>1, ConfParts DEF PartsIn
<1> DEFINE Interfaces == {k \in 1..9 : ConfDesc[k].kind = "interface"}
           Within(k) == {j \in 1..9 : /\ j > k /\ ConfDesc[j].kind = "endpoint"
                                      /\ \A i \in Interfaces : i > k => j < i}
<1>2. 1..9 = {1, 2, 3, 4, 5, 6, 7, 8, 9}
  OBVIOUS
<1>3. Interfaces = {2, 7}
  BY <1>2, ConfParts
<1>4. Within(2) = {6}
  BY <1>2, <1>3, ConfParts
<1>5. Within(7) = {8, 9}
  BY <1>2, <1>3, ConfParts
<1>6. Cardinality({2, 7}) = 2 /\ Cardinality({6}) = 1 /\ Cardinality({8, 9}) = 2
  <2>1. ASSUME NEW a \in Nat, NEW b \in Nat, a # b PROVE Cardinality({a, b}) = 2
    <3>1. IsFiniteSet({a}) /\ Cardinality({a}) = 1
      BY FS_Singleton
    <3>2. Cardinality({a} \cup {b}) = 2
      BY <2>1, <3>1, FS_AddElement
    <3>3. {a} \cup {b} = {a, b}
      OBVIOUS
    <3>. QED  BY <3>2, <3>3
  <2>2. Cardinality({6}) = 1
    BY FS_Singleton
  <2>3. Cardinality({2, 7}) = 2
    BY <2>1
  <2>4. Cardinality({8, 9}) = 2
    BY <2>1
  <2>. QED  BY <2>2, <2>3, <2>4
<1>7. \A k \in Interfaces : Cardinality(Within(k)) = ConfDesc[k].announces
  BY <1>3, <1>4, <1>5, <1>6, ConfParts
<1>8. 1 \in 1..9 /\ Cardinality(Interfaces) = ConfDesc[1].announces
  BY <1>3, <1>6, ConfParts
<1> HIDE DEF Interfaces, Within
<1>. QED  BY <1>1, <1>7, <1>8 DEF Usable, Interfaces, Within

-----------------------------------------------------------------------------
(* What an answer stands for while the host has not taken it: nothing of   *)
(* what it reports can change under it, as no event is pending.            *)

Done(r) == /\ r.kind = "SetAddress" => pending = r.value
           /\ r.kind = "SetLineCoding" => lineCoding = r.value
           /\ r.kind = "SetConfiguration" /\ r.value # 0 => configured

AnswerHeld ==
  /\ answer.do # "none" => "ep0" \notin flags
  /\ answer.do = "reply" => phase = "setup" /\ answer = Dispatch(req)
  /\ answer.do = "done" => Done(req) \/ Lost
  /\ phase = "data" => req.kind = "SetLineCoding"

CInv == IInv /\ AnswerHeld

LEMMA DispatchDone ==
  ASSUME NEW r \in Requests
  PROVE  /\ Dispatch(r).do = "done" <=>
              r.kind \in {"SetAddress", "SetConfiguration", "SetControlLineState"}
         /\ r.kind \in Reads /\ Dispatch(r).do # "reply" => Dispatch(r).do = "stall"
  BY DEF Dispatch, DispatchDescriptor, Answer, Reply, Requests, Request, Reads

\* Only a GET_LINE_CODING is answered from the driver's state.
LEMMA DispatchSame ==
  ASSUME NEW r, UNCHANGED lineCoding PROVE Dispatch(r)' = Dispatch(r)
  BY DEF Dispatch

LEMMA HeldSetup == ASSUME CInv, IsrSetup PROVE AnswerHeld'
<1>1. /\ rx.of = req /\ req \in Requests /\ phase = "setup"
      /\ UNCHANGED <<lineCoding, phase, req>> /\ flags' = {}
      /\ answer' = Dispatch(req)
      /\ pending' = IF req.kind = "SetAddress" THEN req.value ELSE 0
      /\ configured' = (configured \/ req.kind = "SetConfiguration")
  BY PacketShape DEF IsrSetup, CInv, IInv, Apart, PacketOfHost, TypeOK, host
<1>2. Dispatch(req)' = Dispatch(req)
  BY <1>1 DEF Dispatch
<1>3. answer'.do = "done" => Done(req)'
  BY <1>1, DispatchDone DEF Done
<1>. QED  BY <1>1, <1>2, <1>3 DEF AnswerHeld

LEMMA HeldDataOut == ASSUME CInv, IsrDataOut PROVE AnswerHeld'
<1>1. /\ rx.type \in {"setup", "data"} /\ answer'.do = "done" /\ flags' = {}
      /\ "reset" \notin flags /\ stage = "DATA_OUT"
      /\ UNCHANGED <<phase, req, abandoned>> /\ lineCoding' = Stored(rx)
  BY PacketShape, AnswerShape DEF IsrDataOut, CInv, IInv, TypeOK, host, history
<1>2. Lost' \/ (req.kind = "SetLineCoding" /\ rx.type = "data" /\ rx.of = req)
  BY <1>1 DEF CInv, IInv, Apart, DataStageHeld, PacketOfHost, Lost
<1>3. Done(req)' \/ Lost'
  BY <1>1, <1>2 DEF Done, Stored
<1>. QED  BY <1>1, <1>3 DEF AnswerHeld, CInv

LEMMA HeldHost ==
  ASSUME CInv, HostAnswer \/ BusReset \/ \E r \in Requests : HostSetup(r) \/ HostAbandon(r)
  PROVE  AnswerHeld'
<1>1. answer'.do = "none" /\ (phase' = "data" => req' = req /\ req.kind = "SetLineCoding")
  BY AnswerShape DEF HostAnswer, HostData, HostComplete, HostFail, HostEnd, BusReset,
                     HostSetup, HostAbandon, Setup
<1>. QED  BY <1>1 DEF AnswerHeld

LEMMA HeldOther == ASSUME CInv, IsrNoPacket \/ IsrReset \/ UNCHANGED vars PROVE AnswerHeld'
<1>1. CASE IsrNoPacket \/ IsrReset
  <2>1. answer.do = "none" /\ UNCHANGED <<answer, phase, req>>
    BY <1>1 DEF IsrNoPacket, IsrReset, CInv, IInv, Apart, ResetIsQuiet, AnswerHeld, host
  <2>. QED  BY <2>1 DEF CInv, AnswerHeld
<1>2. CASE UNCHANGED vars
  <2>1. UNCHANGED <<answer, flags, phase, req, pending, lineCoding, configured, abandoned>>
    BY <1>2 DEF vars, device, core, host, history
  <2>2. Dispatch(req)' = Dispatch(req) /\ Done(req)' = Done(req) /\ Lost' = Lost
    BY <2>1 DEF Dispatch, Done, Lost
  <2>. QED  BY <2>1, <2>2 DEF CInv, AnswerHeld
<1>. QED  BY <1>1, <1>2

(* An answer holds until the host takes it.                                *)
THEOREM AnswersHold == Spec => []CInv
<1>1. Init => AnswerHeld
  BY AnswerShape DEF Init, AnswerHeld
<1>2. ASSUME CInv, [Next]_vars PROVE AnswerHeld'
  BY <1>2, HeldSetup, HeldDataOut, HeldHost, HeldOther DEF Next, IsrStep
<1>3. CInv /\ [Next]_vars /\ IInv' => CInv'
  BY <1>2 DEF CInv
<1>. QED  BY <1>1, <1>3, InitIInv, Invariance, PTL DEF Spec, CInv

(* A host is never sent more of a descriptor than it asked for:            *)
(* bt_usb_ep0_tx is given the shorter of wLength and the table, and every  *)
(* table fits in its one packet.  Status and line coding come whole.       *)
THEOREM RepliesFit == Spec => []ReplyWithinLength
<1>1. ASSUME CInv, Overrun
      PROVE  \/ req.kind = "GetStatus" /\ answer.len = 2
             \/ req.kind = "GetLineCoding" /\ answer.len = 7
  <2>1. req \in Requests /\ answer = Dispatch(req) /\ answer.do = "reply"
    BY <1>1 DEF Overrun, CInv, AnswerHeld, IInv, TypeOK, Dispatch, NoRequest, Request, Answer
  <2>2. CASE req.kind = "GetDescriptor"
    <3>1. req.length \in Nat
      BY <2>1, <2>2, Ep0Assumption DEF Requests, Request
    <3>2. req.value \in Descriptors /\ answer = Reply(req.value, Shorter(req.length, TableLength(req.value)))
      BY <2>1, <2>2 DEF Dispatch, DispatchDescriptor, Answer
    <3>3. TableLength(req.value) \in Nat /\ TableLength(req.value) <= 64
      BY <3>2, TablesFit
    <3>4. answer.len <= req.length
      BY <3>1, <3>2, <3>3 DEF Reply, Shorter
    <3>5. answer.len \in Nat
      BY <3>1, <3>2, <3>3 DEF Reply, Shorter
    <3>. QED  BY <1>1, <3>1, <3>4, <3>5 DEF Overrun
  <2>3. CASE req.kind \in {"GetStatus", "GetLineCoding"}
    BY <2>1, <2>3 DEF Dispatch, Reply
  <2>. QED  BY <2>1, <2>2, <2>3 DEF Dispatch, Requests, Request, Answer
<1>. QED  BY <1>1, AnswersHold, PTL DEF ReplyWithinLength

(* What the host is told is done is done, a descriptor it has is the one   *)
(* it asked for and whole as far as it asked, and the configuration among  *)
(* them one it can use.                                                    *)
THEOREM CompletedCarriedOut == Spec => CompletedIsCarriedOut
<1> DEFINE A == HostComplete => CarriedOut(req) \/ Lost
<1>1. ASSUME CInv, HostComplete PROVE CarriedOut(req) \/ Lost
  <2>1. req.kind = "GetDescriptor" => req \in Requests
    BY <1>1 DEF CInv, IInv, TypeOK, NoRequest, Request
  <2>2. CASE req.kind \in {"SetAddress", "SetLineCoding", "SetConfiguration"}
    <3>1. answer.do = "done"
      BY <1>1, <2>2 DEF HostComplete, Reads
    <3>. QED  BY <1>1, <2>2, <3>1 DEF CInv, AnswerHeld, Done, CarriedOut
  <2>3. CASE req.kind \in {"GetLineCoding", "GetDescriptor"}
    <3>1. answer.do = "reply" /\ answer = Dispatch(req)
      BY <1>1, <2>3 DEF HostComplete, Reads, CInv, AnswerHeld
    <3>2. CASE req.kind = "GetLineCoding"
      BY <3>1, <3>2 DEF Dispatch, Reply, CarriedOut
    <3>3. CASE req.kind = "GetDescriptor"
      <4>1. /\ req.value \in Descriptors /\ req.length \in Nat
            /\ answer = Reply(req.value, Shorter(req.length, TableLength(req.value)))
        BY <2>1, <3>1, <3>3, Ep0Assumption
        DEF Dispatch, DispatchDescriptor, Answer, Requests, Request
      <4>2. TableLength(req.value) \in Nat /\ TableLength(req.value) <= 64
        BY <4>1, TablesFit
      <4>3. answer.of = req.value /\ answer.len = Shorter(req.length, TableLength(req.value))
        BY <4>1, <4>2 DEF Reply, Shorter
      <4>4. req = Request("GetDescriptor", "config", 255) => answer.len = 62
        <5>1. TableLength("config") = 62
          BY ConfParts, ConfEnds DEF TableLength, Table
        <5>. QED  BY <4>3, <5>1 DEF Request, Shorter
      <4>5. req = Request("GetDescriptor", "config", 255) =>
              Usable(ConfDesc, PartsIn(ConfDesc, answer.len))
        BY <4>4, ConfUsable
      <4>. QED  BY <3>3, <4>3, <4>5 DEF CarriedOut
    <3>. QED  BY <2>3, <3>2, <3>3
  <2>4. CASE req.kind \notin {"SetAddress", "SetLineCoding", "SetConfiguration",
                             "GetLineCoding", "GetDescriptor"}
    BY <2>4 DEF CarriedOut
  <2>. QED  BY <2>2, <2>3, <2>4
<1>2. CInv /\ [Next]_vars => A
  BY <1>1
<1>3. CInv /\ [Next]_vars => [A]_vars
  BY <1>2
<1>. QED  BY <1>3, AnswersHold, PTL DEF Spec, CompletedIsCarriedOut
=============================================================================
