----------------------------- MODULE Ep0Control -----------------------------
(***************************************************************************)
(* Control transfers on endpoint 0, bluetrum_usb.h: the EP0 and bus reset  *)
(* branches of bt_usb_isr, with the host that drives them and the EP0 core *)
(* in between.  The handler runs to its end before the host's next token   *)
(* is answered, so that a branch is one step.                              *)
(*                                                                         *)
(* A request is its kind, a value (address, line coding, configuration or  *)
(* descriptor) and wLength.  Misread is what the line coding becomes when  *)
(* the bytes of a SETUP packet are stored in it.                           *)
(***************************************************************************)
EXTENDS UsbDescriptors

CONSTANTS Addresses,    \* addresses the host assigns, without 0
          Codings,      \* line codings the host sends
          Default,      \* g_line_coding as initialised
          Misread,      \* not a line coding
          Lengths,      \* wLength of the host's GET_DESCRIPTORs
          MaxTransfers, \* bound: SETUP packets in a behaviour
          MaxAbandons,  \* bound: transfers the host gives up half way
          MaxResets     \* bound: bus resets

ASSUME Ep0Assumption ==
  /\ Addresses \subseteq Nat \ {0} /\ Lengths \subseteq Nat
  /\ Default \notin Codings /\ Misread \notin Codings \cup {Default}
  /\ MaxTransfers \in Nat /\ MaxAbandons \in Nat /\ MaxResets \in Nat

VARIABLES
  stage,        \* g_ep0_stage
  pending,      \* g_pending_address, 0 when there is none
  lineCoding,   \* g_line_coding
  configured,   \* g_usb_configured
  ufaddr,       \* UFADDR
  rx,           \* packet behind RxPktRdy, or NoPacket
  answer,       \* what the handler last told the core to do
  flags,        \* pending interrupt causes
  phase, req,   \* the host's transfer: how far it is, its request
  hostAddr, hostCoding,        \* what the host's completed transfers set
  decoded,      \* history: the request the handler last dispatched
  abandoned,    \* history: line codings and addresses whose transfers the
                \* host has given up since it was last between two transfers
  transfers, abandons, resets  \* counters of the bounds

device == <<stage, pending, lineCoding, configured>>
core == <<ufaddr, rx, answer, flags>>
host == <<phase, req, hostAddr, hostCoding>>
history == <<decoded, abandoned>>
bounds == <<transfers, abandons, resets>>
vars == <<device, core, host, history, bounds>>

Request(k, v, n) == [kind |-> k, value |-> v, length |-> n]

NoRequest == Request("None", 0, 0)

\* A host asks for two bytes of status, or one, and for the seven of a line
\* coding, or the first.
Requests ==
  {Request("SetAddress", a, 0) : a \in Addresses}
  \cup {Request("SetLineCoding", c, 7) : c \in Codings}
  \cup {Request("SetConfiguration", v, 0) : v \in {0, 1}}
  \cup {Request("GetDescriptor", d, n) : d \in Descriptors \cup Missing, n \in Lengths}
  \cup {Request("GetStatus", 0, n) : n \in {1, 2}}
  \cup {Request("GetLineCoding", 0, n) : n \in {1, 7}}
  \cup {Request("SetControlLineState", 0, 0), Request("Unsupported", 0, 0)}

Reads == {"GetStatus", "GetDescriptor", "GetLineCoding"}

Packet(t, r) == [type |-> t, of |-> r]
NoPacket == Packet("none", NoRequest)
Packets == {NoPacket} \cup {Packet("setup", r) : r \in Requests}
                      \cup {Packet("data", r) : r \in Requests}

\* UCSR0: none, 0x40 (go on to the data stage), 0x48 (done), 0x20 (stall),
\* 0x0A (reply), with what is sent and its length.
Answers == {"none", "more", "done", "reply", "stall"}
Answer(d) == [do |-> d, of |-> "nothing", len |-> 0]

\* bt_usb_ep0_tx: one packet of EP0.
Reply(what, n) == [do |-> "reply", of |-> what, len |-> IF n > 64 THEN 64 ELSE n]

Init ==
  /\ stage = "SETUP" /\ pending = 0 /\ lineCoding = Default /\ configured = FALSE
  /\ ufaddr = 0 /\ rx = NoPacket /\ answer = Answer("none") /\ flags = {}
  /\ phase = "idle" /\ req = NoRequest /\ hostAddr = 0 /\ hostCoding = Default
  /\ decoded = NoRequest /\ abandoned = {}
  /\ transfers = 0 /\ abandons = 0 /\ resets = 0

-----------------------------------------------------------------------------
(* bt_usb_isr.  Every EP0 event first latches a pending address.           *)

Latch_EnableTwice == ufaddr' = IF pending # 0 THEN pending + 128 ELSE ufaddr \* mutant
Latch_Late == ufaddr' = IF pending' # 0 THEN pending' ELSE ufaddr             \* mutant
Latch == ufaddr' = IF pending # 0 THEN pending ELSE ufaddr

\* An event without a packet: the end of a status stage, or a stall sent.
IsrNoPacket ==
  /\ flags = {"ep0"} /\ rx.type = "none"
  /\ pending' = 0
  /\ Latch
  /\ flags' = {}
  /\ UNCHANGED <<stage, lineCoding, configured, rx, answer, host, history, bounds>>

Stored_Kept(p) == lineCoding                                  \* mutant
\* The first seven bytes of any packet are taken for the line coding.
Stored(p) == IF p.type = "data" THEN p.of.value ELSE Misread

IsrDataOut ==
  /\ flags = {"ep0"} /\ rx.type # "none" /\ stage = "DATA_OUT"
  /\ pending' = 0
  /\ Latch
  /\ lineCoding' = Stored(rx)
  /\ stage' = "SETUP"
  /\ rx' = NoPacket /\ answer' = Answer("done") /\ flags' = {}
  /\ UNCHANGED <<configured, host, history, bounds>>

Shorter(a, b) == IF a < b THEN a ELSE b

\* The answer to a SETUP packet: the request's branch, stall by default.
DispatchDescriptor_Whole(r) ==                                \* mutant
  IF r.value \in Descriptors
    THEN Reply(r.value, TableLength(r.value)) ELSE Answer("stall")
DispatchDescriptor(r) ==
  IF r.value \in Descriptors
    THEN Reply(r.value, Shorter(r.length, TableLength(r.value)))
    ELSE Answer("stall")

Dispatch_NoStall(r) == Answer("none")                         \* mutant
Dispatch(r) ==
  CASE r.kind \in {"SetAddress", "SetConfiguration",
                   "SetControlLineState"} -> Answer("done")
    [] r.kind = "SetLineCoding"           -> Answer("more")
    [] r.kind = "GetStatus"               -> Reply("status", 2)
    [] r.kind = "GetDescriptor"           -> DispatchDescriptor(r)
    [] r.kind = "GetLineCoding"           -> Reply(lineCoding, 7)
    [] OTHER                              -> Answer("stall")

StageAfter_Setup(k) == "SETUP"                                \* mutant
StageAfter(k) == IF k = "SetLineCoding" THEN "DATA_OUT" ELSE "SETUP"

IsrSetup ==
  /\ flags = {"ep0"} /\ rx.type = "setup" /\ stage = "SETUP"
  /\ LET r == rx.of IN
       /\ decoded' = r
       /\ answer' = Dispatch(r)
       /\ pending' = IF r.kind = "SetAddress" THEN r.value ELSE 0
       /\ configured' = (configured \/ r.kind = "SetConfiguration")
       /\ stage' = StageAfter(r.kind)
  /\ Latch
  /\ rx' = NoPacket /\ flags' = {}
  /\ UNCHANGED <<lineCoding, host, abandoned, bounds>>

StageAtReset_Kept == stage' = stage                           \* mutant
StageAtReset == stage' = "SETUP"

IsrReset ==
  /\ "reset" \in flags
  /\ ufaddr' = 0
  /\ pending' = 0 /\ StageAtReset /\ configured' = FALSE
  /\ rx' = NoPacket           \* UCSR0 = 0x48
  /\ flags' = {}
  /\ UNCHANGED <<lineCoding, answer, host, history, bounds>>

-----------------------------------------------------------------------------
(* The core and the host.  A SETUP packet always gets through at the       *)
(* device's address: it ends whatever transfer the core was in.            *)

Reached == ufaddr = hostAddr

Setup(r) ==
  /\ Reached /\ "reset" \notin flags
  /\ transfers < MaxTransfers
  /\ transfers' = transfers + 1
  /\ rx' = Packet("setup", r) /\ answer' = Answer("none")
  /\ flags' = flags \cup {"ep0"}
  /\ req' = r /\ phase' = "setup"
  /\ UNCHANGED <<device, ufaddr, hostAddr, hostCoding, decoded, resets>>

HostSetup(r) == phase = "idle" /\ Setup(r) /\ UNCHANGED <<abandons, abandoned>>

\* The host times out and starts over with another request.
HostAbandon(r) ==
  /\ phase # "idle" /\ abandons < MaxAbandons
  /\ abandons' = abandons + 1
  /\ abandoned' = abandoned \cup
       IF req.kind \in {"SetAddress", "SetLineCoding"} THEN {req} ELSE {}
  /\ Setup(r)

\* The data stage of SET_LINE_CODING.
HostData ==
  /\ Reached
  /\ phase = "setup" /\ req.kind = "SetLineCoding" /\ answer.do = "more"
  /\ rx' = Packet("data", req) /\ answer' = Answer("none")
  /\ flags' = flags \cup {"ep0"}
  /\ phase' = "data"
  /\ UNCHANGED <<device, ufaddr, req, hostAddr, hostCoding, history, bounds>>

Overrun == answer.do = "reply" /\ answer.len > req.length

HostEnd ==
  /\ Reached
  /\ phase' = "idle" /\ req' = NoRequest /\ abandoned' = {}
  /\ answer' = Answer("none")
  /\ flags' = flags \cup {"ep0"}
  /\ UNCHANGED <<device, ufaddr, rx, decoded, bounds>>

\* The transfer ends: its status stage, or the reply and the status stage
\* the core answers by itself.
HostComplete ==
  /\ \/ phase = "setup" /\ req.kind \in Reads /\ answer.do = "reply" /\ ~Overrun
     \/ phase = "setup" /\ req.kind \notin Reads \cup {"SetLineCoding"} /\ answer.do = "done"
     \/ phase = "data" /\ answer.do = "done"
  /\ hostAddr' = IF req.kind = "SetAddress" THEN req.value ELSE hostAddr
  /\ hostCoding' = IF req.kind = "SetLineCoding" THEN req.value ELSE hostCoding
  /\ HostEnd

\* The transfer fails: the core stalls it, told to or because the answer
\* does not fit the request, or the host is sent more than it asked for.
HostFail ==
  /\ phase = "setup"
  /\ \/ answer.do = "stall"
     \/ answer.do = "done" /\ req.kind \in Reads \cup {"SetLineCoding"}
     \/ Overrun
  /\ UNCHANGED <<hostAddr, hostCoding>>
  /\ HostEnd

BusReset ==
  /\ "reset" \notin flags /\ resets < MaxResets
  /\ resets' = resets + 1
  /\ rx' = NoPacket /\ answer' = Answer("none")
  /\ flags' = flags \cup {"reset"}
  /\ phase' = "idle" /\ req' = NoRequest /\ hostAddr' = 0 /\ abandoned' = {}
  /\ UNCHANGED <<device, ufaddr, hostCoding, decoded, transfers, abandons>>

-----------------------------------------------------------------------------
IsrStep == IsrNoPacket \/ IsrDataOut \/ IsrSetup \/ IsrReset
HostAnswer == HostData \/ HostComplete \/ HostFail

Next == \/ IsrStep \/ HostAnswer
        \/ \E r \in Requests : HostSetup(r) \/ HostAbandon(r)
        \/ BusReset

Spec == Init /\ [][Next]_vars

\* A pending interrupt is taken; the host goes on with an answered stage.
FairSpec == Spec /\ WF_vars(IsrStep) /\ WF_vars(HostAnswer)

-----------------------------------------------------------------------------
(* Properties.                                                             *)

TypeOK ==
  /\ stage \in {"SETUP", "DATA_OUT"}
  /\ pending \in Addresses \cup {0}
  /\ lineCoding \in Codings \cup {Default, Misread}
  /\ configured \in BOOLEAN
  /\ ufaddr \in Addresses \cup {0}
  /\ rx \in Packets /\ answer.do \in Answers
  /\ flags \subseteq {"reset", "ep0"}
  /\ phase \in {"idle", "setup", "data"} /\ req \in Requests \cup {NoRequest}
  /\ hostAddr \in Addresses \cup {0} /\ hostCoding \in Codings \cup {Default}
  /\ decoded \in Requests \cup {NoRequest} /\ abandoned \subseteq Requests
  /\ transfers \in 0..MaxTransfers /\ abandons \in 0..MaxAbandons
  /\ resets \in 0..MaxResets

(* The handler answers the request the host is in: every SETUP packet is   *)
(* decoded, whatever transfer it ends.                                     *)
AnswerFitsRequest == answer.do # "none" => decoded = req

\* A SET_LINE_CODING was given up: a SETUP packet may be lost to it.
Lost == \E r \in abandoned : r.kind = "SetLineCoding"

(* An answer is to another request than the host's only while the host has *)
(* not finished a transfer since it gave up a SET_LINE_CODING.             *)
AnswerFitsUnlessLost == AnswerFitsRequest \/ Lost

(* The handler takes a data packet only where it expects one, and never    *)
(* leaves one behind RxPktRdy as too short for a SETUP packet.             *)
DataMeetsDataStage == rx.type = "data" => stage = "DATA_OUT"

(* A host between two transfers finds the handler waiting for a SETUP      *)
(* packet: what an abandoned transfer costs ends with the next one.        *)
IdleMeansSetup == phase = "idle" /\ "reset" \notin flags => stage = "SETUP"

(* A host is sent more than it asked for only of its status and its line   *)
(* coding, which the handler sends whole whatever wLength is: a descriptor *)
(* is cut to it, and fits in the one packet there is.                      *)
ReplyWithinLength ==
  Overrun => \/ req.kind = "GetStatus" /\ answer.len = 2
             \/ req.kind = "GetLineCoding" /\ answer.len = 7

(* The device keeps its address until the host has seen the status stage   *)
(* of SET_ADDRESS, and then takes the one it was given; but that of a      *)
(* SET_ADDRESS the host gives up is taken with the next packet.            *)
AddressFollowsStatus ==
  [][ufaddr' # ufaddr =>
       \/ ufaddr' \in {0, hostAddr}
       \/ \E r \in abandoned : r.kind = "SetAddress" /\ ufaddr' = r.value]_vars

\* What the host may conclude from a completed request: of a descriptor it
\* has what it asked for or all there is, and a configuration it can use.
\* That value 0 takes the configuration away is more than the handler does.
CarriedOut(r) ==
  CASE r.kind = "SetAddress"       -> pending = r.value
    [] r.kind = "SetLineCoding"    -> lineCoding = r.value
    [] r.kind = "SetConfiguration" -> r.value # 0 => configured
    [] r.kind = "GetLineCoding"    -> answer.of = lineCoding
    [] r.kind = "GetDescriptor"    ->
         /\ answer.of = r.value
         /\ answer.len = Shorter(r.length, TableLength(r.value))
         /\ r = Request("GetDescriptor", "config", 255) =>
              Usable(ConfDesc, PartsIn(ConfDesc, answer.len))
    [] OTHER -> TRUE

(* What the host is told is done is done, unless a SET_LINE_CODING was     *)
(* given up just before; but for SET_CONFIGURATION(0), which is not.       *)
CompletedIsCarriedOut == [][HostComplete => CarriedOut(req) \/ Lost]_vars

(* Every transfer ends, answered or stalled, or the device has left the    *)
(* address the host knows.                                                 *)
TransferEnds == phase # "idle" ~> phase = "idle" \/ ~Reached
=============================================================================
