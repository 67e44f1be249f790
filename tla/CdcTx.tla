-------------------------------- MODULE CdcTx --------------------------------
(***************************************************************************)
(* The transmit half of the CDC-ACM driver, bluetrum_usb.h: the main       *)
(* thread's bt_cdc_write_char and bt_cdc_write, the bt_usb_ep1_kick both   *)
(* contexts call, the branches of bt_usb_isr that touch the transmit path, *)
(* and the endpoint hardware they drive.                                   *)
(*                                                                         *)
(* One core runs both contexts.  An interrupt is taken between two steps   *)
(* of the main thread as soon as it is pending and PICEN lets it through,  *)
(* and the main thread resumes only when the handler has returned.  The    *)
(* endpoint hardware and the host move between any two steps.  A step of   *)
(* the main thread is one access to a shared location, so that a           *)
(* read-modify-write is two steps; neighbouring loads are one step where   *)
(* nothing but a bus reset could come between them and matter.             *)
(*                                                                         *)
(* A byte is its serial number: 1 is the first byte ever written.          *)
(***************************************************************************)
EXTENDS Integers, Sequences, FiniteSets

CONSTANTS TxSize,     \* BT_CDC_TX_BUF_SIZE, 256 in the code
          PktMax,     \* FIFO bytes per packet, 32 in the code
          TxTimeout,  \* BT_CDC_TX_TIMEOUT, 100000 in the code
          TornResets, \* may a bus reset arrive in the middle of a write?
          MaxWrite,   \* bound: the longest bt_cdc_write
          MaxBytes,   \* bound: bytes written in a behaviour
          MaxEvents   \* bound: bus resets, and events of the other endpoints

ASSUME SizeAssumption ==
  /\ TxSize \in Nat /\ TxSize > 1
  /\ \E k \in 1..TxSize : TxSize = 2^k   \* "& (SIZE - 1)" is "% SIZE"
  /\ PktMax \in Nat \ {0}
  /\ TxTimeout \in Nat \ {0}
ASSUME BoundAssumption ==
  /\ TornResets \in BOOLEAN
  /\ MaxWrite \in Nat /\ MaxBytes \in Nat /\ MaxEvents \in Nat

VARIABLES
  head, tail, buf,           \* g_cdc_tx_head, g_cdc_tx_tail, g_cdc_tx_buf
  busy,                      \* g_ep1_tx_busy
  configured,                \* g_usb_configured
  epbuf,                     \* ep1_tx_buf, what the DMA reads
  picen, uindex,             \* USB bit of PICEN, UINDEX
  fifo, txrdy,               \* EP1 hardware FIFO, TxPktRdy of UTXCSR1
  flags,                     \* pending interrupt causes
  pc,                        \* where each context is
  timeout, todo, slot, chunk, single,      \* locals of the write calls
  count, next, savedPic, savedIdx,         \* locals of bt_usb_ep1_kick
  seen, isrIdx,              \* locals of bt_usb_isr
  written, events,           \* counters of the bounds
  accepted, delivered        \* history of the session

ring == <<head, tail, buf>>
registers == <<picen, uindex>>
endpoint == <<fifo, txrdy, flags>>
writeLocals == <<timeout, todo, slot, chunk, single>>
kickLocals == <<count, next, savedPic, savedIdx>>
isrLocals == <<seen, isrIdx>>
history == <<accepted, delivered>>
vars == <<ring, busy, configured, epbuf, registers, endpoint, pc, writeLocals,
          kickLocals, isrLocals, written, events, history>>

Contexts == {"main", "isr"}
Index == 0..(TxSize - 1)

\* The causes of EP0: SET_CONFIGURATION, and any other of its events.
Ep0Causes == {"setconf", "control"}
Causes == {"reset", "rx", "tx"} \cup Ep0Causes

\* The labels of bt_usb_ep1_kick; a context in Loading owns the endpoint.
Loading == {"copy", "advance", "store", "check", "mask", "dma", "ready"}
Masked == {"dma", "ready", "restore"}
KickLabels == Loading \cup Masked
WriteLabels == {"head", "space", "slot", "fill", "next", "publish", "test", "claim"}

MainLabels == {"idle"} \cup WriteLabels \cup KickLabels
IsrLabels == {"off", "reset", "ep0", "request", "flush", "leave"} \cup KickLabels

Inc_Unmasked(i) == i + 1                                      \* mutant
Inc(i) == (i + 1) % TxSize
FreeFrom_NoGap(h) == ((tail - h - 1) % TxSize) + 1            \* mutant
FreeFrom(h) == (tail - h - 1) % TxSize
Lesser(a, b) == IF a < b THEN a ELSE b

\* Reset signalling has begun and the handler has not dealt with it yet.
InReset == "reset" \in flags \cup seen

\* The main thread runs only when no interrupt is taken in its place.
MainAt(l) == /\ pc["main"] = l
             /\ pc["isr"] = "off"
             /\ ~(picen /\ flags # {})

At(a, l) == IF a = "main" THEN MainAt(l) ELSE pc["isr"] = l

Goto(a, l) == pc' = [pc EXCEPT ![a] = l]

\* After bt_usb_init and the PIC set-up of main().
Init ==
  /\ head = 0 /\ tail = 0 /\ buf = [i \in Index |-> 0]
  /\ busy = FALSE /\ configured = FALSE
  /\ epbuf = [i \in 1..PktMax |-> 0]
  /\ picen = TRUE /\ uindex = 0
  /\ fifo = <<>> /\ txrdy = FALSE /\ flags = {}
  /\ pc = [a \in Contexts |-> IF a = "main" THEN "idle" ELSE "off"]
  /\ timeout = 0 /\ todo = 0 /\ slot = 0 /\ chunk = 0 /\ single = FALSE
  /\ count = [a \in Contexts |-> 0] /\ next = [a \in Contexts |-> 0]
  /\ savedPic = [a \in Contexts |-> FALSE] /\ savedIdx = [a \in Contexts |-> 0]
  /\ seen = {} /\ isrIdx = 0
  /\ written = 0 /\ events = 0
  /\ accepted = <<>> /\ delivered = <<>>

\* A write call returns; its locals are gone.
EndCall == /\ Goto("main", "idle")
           /\ timeout' = 0 /\ todo' = 0 /\ slot' = 0 /\ chunk' = 0
           /\ single' = FALSE

-----------------------------------------------------------------------------
(* bt_cdc_write_char (single) and bt_cdc_write.  A call on an unconfigured *)
(* device returns at once and changes nothing.                             *)

Call(n, s) ==
  /\ MainAt("idle")
  /\ configured
  /\ written + n <= MaxBytes
  /\ todo' = n /\ single' = s /\ timeout' = TxTimeout
  /\ Goto("main", "head")
  /\ UNCHANGED <<ring, busy, configured, epbuf, registers, endpoint, slot, chunk,
                 kickLocals, isrLocals, written, events, history>>

CallWriteChar == Call(1, TRUE)
CallWrite == \E n \in 1..MaxWrite : Call(n, FALSE)

\* Both calls load head first.  write_char loads it again for the store.
LoadHead ==
  /\ \/ MainAt("head") /\ Goto("main", "space")
     \/ MainAt("slot") /\ Goto("main", "fill")
  /\ slot' = head
  /\ UNCHANGED <<ring, busy, configured, epbuf, registers, endpoint, timeout, todo,
                 chunk, single, kickLocals, isrLocals, written, events, history>>

\* A turn of the wait for room.
WaitTurn_Endless == /\ Goto("main", "head")                   \* mutant
                    /\ UNCHANGED writeLocals
WaitTurn == /\ timeout' = timeout - 1
            /\ Goto("main", "head")
            /\ UNCHANGED <<todo, slot, chunk, single>>

\* ... then tail, and compare.  A full ring costs one of the timeout's
\* turns; the last turn gives up and the bytes that are left are lost.
TestSpace ==
  /\ MainAt("space")
  /\ LET free == FreeFrom(slot) IN
       \/ free = 0 /\ timeout = 1 /\ EndCall
       \/ free = 0 /\ timeout > 1 /\ WaitTurn
       \/ /\ free > 0
          /\ chunk' = Lesser(todo, free)
          /\ Goto("main", IF single THEN "slot" ELSE "fill")
          /\ UNCHANGED <<timeout, todo, slot, single>>
  /\ UNCHANGED <<ring, busy, configured, epbuf, registers, endpoint, kickLocals,
                 isrLocals, written, events, history>>

\* The bytes go behind head, where no one reads until head is published.
Fill ==
  /\ MainAt("fill")
  /\ buf' = [i \in Index |-> LET d == (i - slot) % TxSize
                             IN  IF d < chunk THEN written + d + 1 ELSE buf[i]]
  /\ written' = written + chunk
  /\ slot' = IF single THEN slot ELSE (slot + chunk) % TxSize
  /\ Goto("main", IF single THEN "next" ELSE "publish")
  /\ UNCHANGED <<head, tail, busy, configured, epbuf, registers, endpoint, timeout,
                 todo, chunk, single, kickLocals, isrLocals, events, history>>

\* write_char computes the new head from a third load of the old one.
NextHead ==
  /\ MainAt("next")
  /\ slot' = Inc(head)
  /\ Goto("main", "publish")
  /\ UNCHANGED <<ring, busy, configured, epbuf, registers, endpoint, timeout, todo,
                 chunk, single, kickLocals, isrLocals, written, events, history>>

Publish ==
  /\ MainAt("publish")
  /\ head' = slot
  /\ accepted' = accepted \o [i \in 1..chunk |-> written - chunk + i]
  /\ Goto("main", "test")
  /\ UNCHANGED <<tail, buf, busy, configured, epbuf, registers, endpoint,
                 writeLocals, kickLocals, isrLocals, written, events, delivered>>

\* What a call does once its chunk is in the ring and the endpoint awake.
ChunkDone ==
  IF todo = chunk
  THEN EndCall
  ELSE /\ todo' = todo - chunk
       /\ timeout' = TxTimeout
       /\ Goto("main", "head")
       /\ UNCHANGED <<slot, chunk, single>>

TestBusy_Unread ==                                            \* mutant
  /\ MainAt("test")
  /\ Goto("main", "claim")
  /\ UNCHANGED <<ring, busy, configured, epbuf, registers, endpoint, writeLocals,
                 kickLocals, isrLocals, written, events, history>>

TestBusy ==
  /\ MainAt("test")
  /\ IF busy THEN ChunkDone
             ELSE Goto("main", "claim") /\ UNCHANGED writeLocals
  /\ UNCHANGED <<ring, busy, configured, epbuf, registers, endpoint, kickLocals,
                 isrLocals, written, events, history>>

Claim ==
  /\ MainAt("claim")
  /\ busy' = TRUE
  /\ count' = [count EXCEPT !["main"] = 0]
  /\ Goto("main", "copy")
  /\ UNCHANGED <<ring, configured, epbuf, registers, endpoint, writeLocals, next,
                 savedPic, savedIdx, isrLocals, written, events, history>>

-----------------------------------------------------------------------------
(* bt_usb_ep1_kick in context a: back to the write call, or on to the EP0  *)
(* branch of the handler.                                                  *)

Return(a) == IF a = "main"
             THEN ChunkDone
             ELSE Goto("isr", "ep0") /\ UNCHANGED writeLocals

KickCopy(a) ==
  /\ At(a, "copy")
  /\ IF head # tail /\ count[a] < PktMax
     THEN /\ epbuf' = [epbuf EXCEPT ![count[a] + 1] = buf[tail]]
          /\ count' = [count EXCEPT ![a] = @ + 1]
          /\ Goto(a, "advance")
     ELSE Goto(a, "check") /\ UNCHANGED <<epbuf, count>>
  /\ UNCHANGED <<ring, busy, configured, registers, endpoint, writeLocals, next,
                 savedPic, savedIdx, isrLocals, written, events, history>>

\* tail = (tail + 1) & mask: the load ...
KickAdvance(a) ==
  /\ At(a, "advance")
  /\ next' = [next EXCEPT ![a] = Inc(tail)]
  /\ Goto(a, "store")
  /\ UNCHANGED <<ring, busy, configured, epbuf, registers, endpoint, writeLocals,
                 count, savedPic, savedIdx, isrLocals, written, events, history>>

\* ... and the store.
KickStore(a) ==
  /\ At(a, "store")
  /\ tail' = next[a]
  /\ next' = [next EXCEPT ![a] = 0]
  /\ Goto(a, "copy")
  /\ UNCHANGED <<head, buf, busy, configured, epbuf, registers, endpoint,
                 writeLocals, count, savedPic, savedIdx, isrLocals, written, events,
                 history>>

KickCheck_StaysBusy(a) ==                                     \* mutant
  /\ At(a, "check")
  /\ IF count[a] = 0 THEN Return(a) ELSE Goto(a, "mask") /\ UNCHANGED writeLocals
  /\ UNCHANGED <<ring, busy, configured, epbuf, registers, endpoint, kickLocals,
                 isrLocals, written, events, history>>

\* Nothing to send: the endpoint goes to sleep.
KickCheck(a) ==
  /\ At(a, "check")
  /\ IF count[a] = 0
     THEN busy' = FALSE /\ Return(a)
     ELSE Goto(a, "mask") /\ UNCHANGED <<busy, writeLocals>>
  /\ UNCHANGED <<ring, configured, epbuf, registers, endpoint, kickLocals, isrLocals, written,
                 events, history>>

KickMask_NotSelected(a) ==                                    \* mutant
  /\ At(a, "mask")
  /\ savedPic' = [savedPic EXCEPT ![a] = picen] /\ picen' = FALSE
  /\ savedIdx' = [savedIdx EXCEPT ![a] = uindex] /\ uindex' = uindex
  /\ Goto(a, "dma")
  /\ UNCHANGED <<ring, busy, configured, epbuf, endpoint, writeLocals, count, next,
                 isrLocals, written, events, history>>

\* The interrupt is masked, then EP1's register window selected.
KickMask(a) ==
  /\ At(a, "mask")
  /\ savedPic' = [savedPic EXCEPT ![a] = picen] /\ picen' = FALSE
  /\ savedIdx' = [savedIdx EXCEPT ![a] = uindex] /\ uindex' = 1
  /\ Goto(a, "dma")
  /\ UNCHANGED <<ring, busy, configured, epbuf, endpoint, writeLocals, count, next,
                 isrLocals, written, events, history>>

\* The DMA copies the packet into the FIFO; the code waits for it.
KickDma(a) ==
  /\ At(a, "dma")
  /\ fifo' = [i \in 1..count[a] |-> epbuf[i]]
  /\ Goto(a, "ready")
  /\ UNCHANGED <<ring, busy, configured, epbuf, registers, txrdy, flags, writeLocals,
                 kickLocals, isrLocals, written, events, history>>

\* UTXCSR1 = TxPktRdy, a write that goes to whatever window is selected.
KickReady(a) ==
  /\ At(a, "ready")
  /\ txrdy' = (txrdy \/ uindex = 1)
  /\ Goto(a, "restore")
  /\ UNCHANGED <<ring, busy, configured, epbuf, registers, fifo, flags, writeLocals,
                 kickLocals, isrLocals, written, events, history>>

KickRestore(a) ==
  /\ At(a, "restore")
  /\ uindex' = savedIdx[a]
  /\ picen' = savedPic[a]
  /\ Return(a)
  /\ UNCHANGED <<ring, busy, configured, epbuf, endpoint, kickLocals, isrLocals, written,
                 events, history>>

Kick(a) == \/ KickCopy(a) \/ KickAdvance(a) \/ KickStore(a) \/ KickCheck(a)
           \/ KickMask(a) \/ KickDma(a) \/ KickReady(a) \/ KickRestore(a)

-----------------------------------------------------------------------------
(* bt_usb_isr.  Reading the interrupt registers clears them.  It saves     *)
(* UINDEX, selects windows as its branches need them, and puts UINDEX back *)
(* where it leaves.  Of the RX and EP0 branches only that, and the         *)
(* SET_CONFIGURATION of an enumeration, is kept.                           *)

\* The entry, and the RX branch, which comes before the kick and leaves EP1
\* selected.
IsrEnter ==
  /\ pc["isr"] = "off" /\ picen /\ flags # {}
  /\ isrIdx' = uindex
  /\ seen' = flags
  /\ flags' = {}
  /\ uindex' = IF "rx" \in flags /\ "reset" \notin flags THEN 1 ELSE uindex
  /\ count' = [count EXCEPT !["isr"] = 0]
  /\ Goto("isr", IF "reset" \in flags THEN "reset"
                 ELSE IF "tx" \in flags THEN "copy" ELSE "ep0")
  /\ UNCHANGED <<ring, busy, configured, epbuf, picen, fifo, txrdy, writeLocals,
                 next, savedPic, savedIdx, written, events, history>>

IsrReset_KeepsRing ==                                         \* mutant
  /\ pc["isr"] = "reset"
  /\ configured' = FALSE /\ busy' = FALSE
  /\ uindex' = 0
  /\ seen' = {}
  /\ accepted' = <<>> /\ delivered' = <<>>
  /\ Goto("isr", "leave")
  /\ UNCHANGED <<ring, epbuf, picen, endpoint, writeLocals, kickLocals, isrIdx,
                 written, events>>

\* The bus reset branch skips the others: causes it has read are dropped.
IsrReset ==
  /\ pc["isr"] = "reset"
  /\ configured' = FALSE /\ busy' = FALSE
  /\ head' = 0 /\ tail' = 0
  /\ uindex' = 0
  /\ seen' = {}
  /\ accepted' = <<>> /\ delivered' = <<>>
  /\ Goto("isr", "leave")
  /\ UNCHANGED <<buf, epbuf, picen, endpoint, writeLocals, kickLocals, isrIdx,
                 written, events>>

\* What the steps of the handler outside its kick and its reset leave alone.
OutsideKick == UNCHANGED <<ring, busy, epbuf, picen, endpoint, writeLocals, kickLocals,
                           isrIdx, written, events, history>>

\* The EP0 branch selects EP0, ...
IsrEp0 ==
  /\ pc["isr"] = "ep0"
  /\ IF seen \cap Ep0Causes = {} THEN Goto("isr", "leave") /\ UNCHANGED uindex
                                  ELSE Goto("isr", "request") /\ uindex' = 0
  /\ UNCHANGED <<configured, seen>> /\ OutsideKick

\* ... SET_CONFIGURATION EP1, to flush its receiver; every answer is given on
\* EP0, bt_usb_ep0_tx and bt_usb_ep0_stall selecting it again.
IsrRequest ==
  /\ pc["isr"] = "request"
  /\ IF "setconf" \in seen
     THEN configured' = TRUE /\ uindex' = 1 /\ Goto("isr", "flush")
     ELSE uindex' = 0 /\ Goto("isr", "leave") /\ UNCHANGED configured
  /\ UNCHANGED seen /\ OutsideKick

IsrFlush ==
  /\ pc["isr"] = "flush"
  /\ uindex' = 0 /\ Goto("isr", "leave")
  /\ UNCHANGED <<configured, seen>> /\ OutsideKick

IsrLeave_Unrestored ==                                        \* mutant
  /\ pc["isr"] = "leave"
  /\ Goto("isr", "off") /\ seen' = {}
  /\ UNCHANGED <<configured, uindex>> /\ OutsideKick

IsrLeave ==
  /\ pc["isr"] = "leave"
  /\ uindex' = isrIdx
  /\ Goto("isr", "off") /\ seen' = {}
  /\ UNCHANGED configured /\ OutsideKick

IsrBranches == IsrEp0 \/ IsrRequest \/ IsrFlush \/ IsrLeave

-----------------------------------------------------------------------------
(* The endpoint hardware and the host.                                     *)

\* A packet goes out and is acknowledged.
HostIn ==
  /\ txrdy /\ configured /\ ~InReset
  /\ delivered' = delivered \o fifo
  /\ fifo' = <<>> /\ txrdy' = FALSE
  /\ flags' = flags \cup {"tx"}
  /\ UNCHANGED <<ring, busy, configured, epbuf, registers, pc, writeLocals,
                 kickLocals, isrLocals, written, events, accepted>>

\* The host raises a cause of another endpoint; EP0 does one at a time.
Raise(c) ==
  /\ ~InReset /\ c \notin flags
  /\ c \in Ep0Causes => (flags \cup seen) \cap Ep0Causes = {}
  /\ flags' = flags \cup {c}
  /\ UNCHANGED <<ring, busy, configured, epbuf, registers, fifo, txrdy, pc,
                 writeLocals, kickLocals, isrLocals, written, history>>

\* The SET_CONFIGURATION that enumeration ends with.
HostConfigure == ~configured /\ Raise("setconf") /\ UNCHANGED events

\* Data for the receiver, and control transfers.
HostOther ==
  /\ events < MaxEvents /\ events' = events + 1
  /\ \/ configured /\ (Raise("rx") \/ Raise("setconf"))
     \/ Raise("control")

\* Reset signalling flushes the endpoint and raises the reset cause.
BusReset ==
  /\ ~InReset /\ events < MaxEvents
  /\ TornResets \/ (pc["main"] = "idle" /\ pc["isr"] = "off")
  /\ fifo' = <<>> /\ txrdy' = FALSE
  /\ flags' = flags \cup {"reset"}
  /\ events' = events + 1
  /\ UNCHANGED <<ring, busy, configured, epbuf, registers, pc, writeLocals,
                 kickLocals, isrLocals, written, history>>

-----------------------------------------------------------------------------
\* What a call does once it has begun.
MainStep == \/ LoadHead \/ TestSpace \/ Fill \/ NextHead \/ Publish
            \/ TestBusy \/ Claim \/ Kick("main")
IsrStep == IsrEnter \/ IsrReset \/ IsrBranches \/ Kick("isr")
HostStep == HostIn \/ HostConfigure \/ HostOther \/ BusReset

Next == CallWriteChar \/ CallWrite \/ MainStep \/ IsrStep \/ HostStep

Spec == Init /\ [][Next]_vars

(* Running code runs on: a context that can take a step takes it.          *)
CodeFairness == WF_vars(MainStep) /\ WF_vars(IsrStep)

\* Nothing is assumed of the host.
CodeSpec == Spec /\ CodeFairness

\* A host with an open port that keeps polling the IN endpoint.
ReadingHostSpec == CodeSpec /\ WF_vars(HostIn) /\ WF_vars(HostConfigure)

-----------------------------------------------------------------------------
(* Properties.                                                             *)

RingType == /\ head \in Index /\ tail \in Index /\ buf \in [Index -> Nat]
            /\ epbuf \in [1..PktMax -> Nat]
FlagType == {busy, configured, picen, txrdy, single} \subseteq BOOLEAN
HardwareType == uindex \in {0, 1} /\ fifo \in Seq(Nat) /\ flags \subseteq Causes
PcType == /\ pc \in [Contexts -> MainLabels \cup IsrLabels]
          /\ pc["main"] \in MainLabels /\ pc["isr"] \in IsrLabels
WriteType == /\ timeout \in 0..TxTimeout /\ todo \in Nat
             /\ slot \in Index /\ chunk \in Index
KickType == /\ count \in [Contexts -> 0..PktMax] /\ next \in [Contexts -> Index]
            /\ savedPic \in [Contexts -> BOOLEAN]
            /\ savedIdx \in [Contexts -> {0, 1}]
IsrType == seen \subseteq Causes /\ isrIdx \in {0, 1}
HistoryType == /\ written \in Nat /\ events \in Nat
               /\ accepted \in Seq(Nat) /\ delivered \in Seq(Nat)

TypeOK == /\ RingType /\ FlagType /\ HardwareType /\ PcType
          /\ WriteType /\ KickType /\ IsrType /\ HistoryType

\* Who will move the next packet: the host (a packet is in the FIFO), a
\* transmit event not yet handled, or a context inside bt_usb_ep1_kick.
Owns(o) == CASE o = "host"  -> txrdy
             [] o = "event" -> "tx" \in flags
             [] OTHER       -> pc[o] \in Loading

Owners == {o \in {"host", "event", "main", "isr"} : Owns(o)}

(* The claim protocol of g_ep1_tx_busy: two packets are never on their way *)
(* through ep1_tx_buf and the FIFO at once, whatever the write call and    *)
(* the handler's kick do to each other.                                    *)
ClaimIsExclusive == InReset \/ \A o, p \in Owners : o = p

(* g_ep1_tx_busy is never left set with no one to clear it: the endpoint   *)
(* cannot be wedged, not even by a bus reset in the middle of a write.     *)
BusyIsOwned == busy => InReset \/ Owners # {}

(* No lost wakeup: bytes in the ring have an owner that will send them, or *)
(* the write that put them there is about to look at g_ep1_tx_busy.        *)
NoLostWakeup ==
  head # tail => \/ InReset
                 \/ Owners # {}
                 \/ pc["main"] \in {"test", "claim"}

(* A register behind UINDEX is written in the window it belongs to:        *)
(* UTXCSR1 by a kick, whichever context it runs in and whatever window the *)
(* handler had selected; UCSR0 and URXCSR1 by the handler's EP0 branch.    *)
(* Outside the handler and the masked part of a kick UINDEX is 0, as the   *)
(* interrupted code left it, and outside kicks PICEN lets the interrupt    *)
(* through: the saves and restores of the kick and the handler nest.       *)
WindowIsSelected ==
  /\ \A a \in Contexts : pc[a] = "ready" => uindex = 1
  /\ pc["isr"] = "request" => uindex = 0
  /\ pc["isr"] = "flush" => uindex = 1
  /\ pc["isr"] = "off" /\ pc["main"] \notin Masked => uindex = 0
  /\ (\A a \in Contexts : pc[a] \notin Masked) => picen

(* The whole transmit half implements the byte stream.                     *)
Stream == INSTANCE UsbTxStream WITH Backlog <- TxSize - 1 + PktMax
ImplementsStream == Stream!Spec

(* Every byte a write has put in the ring reaches the host, or a bus reset *)
(* ends the session.                                                       *)
AcceptedIsDelivered ==
  \A n \in 1..MaxBytes :
    Len(accepted) >= n ~> Len(delivered) >= n \/ accepted = <<>>

(* A write call returns, whether or not the host reads: the timeout ends   *)
(* the wait for room, and handlers do not hold the call up for ever.       *)
WriteReturns == pc["main"] # "idle" ~> pc["main"] = "idle"
=============================================================================
