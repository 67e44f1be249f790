-------------------------------- MODULE CdcRx --------------------------------
(***************************************************************************)
(* The receive half of the CDC-ACM driver, bluetrum_usb.h: the EP1 receive *)
(* branch of bt_usb_isr with its two DMA banks, the bus reset and          *)
(* SET_CONFIGURATION branches as far as they touch it, and the main        *)
(* thread's lock-free bt_cdc_read_char.                                    *)
(*                                                                         *)
(* Contexts and steps are those of CdcTx: the handler runs between two     *)
(* accesses of the main thread, the hardware between any two steps.        *)
(* A byte is its serial number, 1 is the first byte the host ever sends.   *)
(***************************************************************************)
EXTENDS Integers, Sequences

CONSTANTS RxSize,     \* BT_CDC_RX_BUF_SIZE, 256 in the code
          PktMax,     \* bytes in a bank, 32 in the code
          TornResets, \* may a bus reset arrive in the middle of a read?
          MaxBytes,   \* bound: bytes the host sends in a behaviour
          MaxEvents   \* bound: bus resets and SET_CONFIGURATIONs

ASSUME RxAssumption ==
  /\ RxSize \in Nat /\ RxSize > 1
  /\ \E k \in 1..RxSize : RxSize = 2^k
  /\ PktMax \in Nat \ {0}
  /\ TornResets \in BOOLEAN
  /\ MaxBytes \in Nat /\ MaxEvents \in Nat

VARIABLES
  head, tail, buf,       \* g_cdc_rx_head, g_cdc_rx_tail, g_cdc_rx_buf
  bank,                  \* g_rx_bank
  configured,            \* g_usb_configured
  banks, hwBank,         \* ep1_rx_buf as the DMA fills it, the DMA's next bank
  rxrdy, rxcount,        \* RxPktRdy of URXCSR1, URXCOUNT1
  flags,                 \* pending interrupt causes
  mainPc, ch, next,      \* the main thread in bt_cdc_read_char
  isrPc, seen,           \* the handler
  sent, events,          \* counters of the bounds
  taken, received        \* history: last byte taken, bytes read

ring == <<head, tail, buf>>
hardware == <<banks, hwBank, rxrdy, rxcount>>
mainVars == <<mainPc, ch, next>>
isrVars == <<isrPc, seen>>
vars == <<ring, bank, configured, hardware, flags, mainVars, isrVars, sent, events,
          taken, received>>

Index == 0..(RxSize - 1)
Inc_Unmasked(i) == i + 1                                      \* mutant
Inc(i) == (i + 1) % RxSize
Causes == {"reset", "rx", "ep0"}

InReset == "reset" \in flags \cup seen

Quiet == mainPc = "idle" /\ isrPc = "off"

MainAt(l) == mainPc = l /\ isrPc = "off" /\ flags = {}

Init ==
  /\ head = 0 /\ tail = 0 /\ buf = [i \in Index |-> 0]
  /\ bank = 0 /\ configured = FALSE
  /\ banks = [b \in {0, 1} |-> <<>>] /\ hwBank = 0
  /\ rxrdy = FALSE /\ rxcount = 0 /\ flags = {}
  /\ mainPc = "idle" /\ ch = 0 /\ next = 0
  /\ isrPc = "off" /\ seen = {}
  /\ sent = 0 /\ events = 0 /\ taken = 0 /\ received = <<>>

-----------------------------------------------------------------------------
(* bt_cdc_read_char, as the shell's read callback calls it.                *)

Empty_AllButOne == head \in {tail, Inc(tail)}                  \* mutant
Empty == head = tail

\* An empty ring returns -1 and changes nothing.
ReadChar ==
  /\ MainAt("idle") /\ configured
  /\ ~Empty
  /\ mainPc' = "fetch"
  /\ UNCHANGED <<ring, bank, configured, hardware, flags, ch, next, isrVars, sent,
                 events, taken, received>>

Fetch ==
  /\ MainAt("fetch")
  /\ ch' = buf[tail]
  /\ mainPc' = "advance"
  /\ UNCHANGED <<ring, bank, configured, hardware, flags, next, isrVars, sent, events,
                 taken, received>>

\* tail = (tail + 1) & mask: the load ...
Advance ==
  /\ MainAt("advance")
  /\ next' = Inc(tail)
  /\ mainPc' = "store"
  /\ UNCHANGED <<ring, bank, configured, hardware, flags, ch, isrVars, sent, events,
                 taken, received>>

\* ... and the store; then the byte is returned.
Store ==
  /\ MainAt("store")
  /\ tail' = next
  /\ received' = Append(received, ch)
  /\ mainPc' = "idle" /\ ch' = 0 /\ next' = 0
  /\ UNCHANGED <<head, buf, bank, configured, hardware, flags, isrVars, sent, events,
                 taken>>

-----------------------------------------------------------------------------
(* bt_usb_isr.                                                             *)

IsrEnter ==
  /\ isrPc = "off" /\ flags # {}
  /\ seen' = flags
  /\ flags' = {}
  /\ isrPc' = IF "reset" \in flags THEN "reset" ELSE "rx"
  /\ UNCHANGED <<ring, bank, configured, hardware, mainVars, sent, events, taken,
                 received>>

IsrReset ==
  /\ isrPc = "reset"
  /\ configured' = FALSE /\ bank' = 0
  /\ head' = 0 /\ tail' = 0
  /\ received' = <<>>
  /\ isrPc' = "off" /\ seen' = {}
  /\ UNCHANGED <<buf, hardware, flags, mainVars, sent, events, taken>>

\* URXCSR1 = 0x10: the endpoint is free for the next packet.
Rearm_Forgotten == rxrdy' = rxrdy                             \* mutant
Rearm == rxrdy' = FALSE

Room_NoGap == ((tail - head - 1) % RxSize) + 1                \* mutant
Room == (tail - head - 1) % RxSize

\* The bytes of a packet that are pushed: one that meets a full ring is
\* skipped, and so is every one after it.
Kept(pkt) == SubSeq(pkt, 1, IF Len(pkt) < Room THEN Len(pkt) ELSE Room)

IsrRx ==
  /\ isrPc = "rx"
  /\ IF "rx" \in seen /\ rxrdy
     THEN LET kept == Kept(SubSeq(banks[bank], 1, rxcount)) IN
          /\ bank' = 1 - bank
          /\ head' = (head + Len(kept)) % RxSize
          /\ buf' = [i \in Index |-> LET d == (i - head) % RxSize
                                     IN  IF d < Len(kept) THEN kept[d + 1] ELSE buf[i]]
          /\ Rearm
          /\ taken' = sent
     ELSE UNCHANGED <<head, buf, bank, rxrdy, taken>>
  /\ isrPc' = "ep0"
  /\ UNCHANGED <<tail, configured, banks, hwBank, rxcount, flags, mainVars, seen, sent,
                 events, received>>

BankAtFlush_Kept == bank' = bank                              \* mutant
BankAtFlush == bank' = 0

\* SET_CONFIGURATION flushes the endpoint, which puts the DMA back on
\* bank 0, and so does the driver's own tracker.
IsrEp0 ==
  /\ isrPc = "ep0"
  /\ IF "ep0" \in seen
     THEN configured' = TRUE /\ BankAtFlush /\ Rearm /\ hwBank' = 0
     ELSE UNCHANGED <<configured, bank, rxrdy, hwBank>>
  /\ isrPc' = "off" /\ seen' = {}
  /\ UNCHANGED <<ring, banks, rxcount, flags, mainVars, sent, events, taken, received>>

-----------------------------------------------------------------------------
(* The endpoint hardware and the host.                                     *)

\* A packet of n bytes is received: the DMA writes it to its next bank.
HostOut(n) ==
  /\ configured /\ ~InReset /\ ~rxrdy
  /\ sent + n <= MaxBytes
  /\ banks' = [banks EXCEPT ![hwBank] = [i \in 1..n |-> sent + i]]
  /\ hwBank' = 1 - hwBank
  /\ rxrdy' = TRUE /\ rxcount' = n
  /\ sent' = sent + n
  /\ flags' = flags \cup {"rx"}
  /\ UNCHANGED <<ring, bank, configured, mainVars, isrVars, events, taken, received>>

\* The host enumerates the device, or configures it again.
HostConfigure ==
  /\ ~InReset /\ "ep0" \notin flags \cup seen
  /\ ~configured \/ events < MaxEvents
  /\ events' = IF configured THEN events + 1 ELSE events
  /\ flags' = flags \cup {"ep0"}
  /\ UNCHANGED <<ring, bank, configured, hardware, mainVars, isrVars, sent, taken,
                 received>>

BusReset ==
  /\ ~InReset /\ events < MaxEvents
  /\ TornResets \/ Quiet
  /\ rxrdy' = FALSE /\ hwBank' = 0
  /\ flags' = flags \cup {"reset"}
  /\ events' = events + 1
  /\ UNCHANGED <<ring, bank, configured, banks, rxcount, mainVars, isrVars, sent,
                 taken, received>>

-----------------------------------------------------------------------------
MainStep == ReadChar \/ Fetch \/ Advance \/ Store
IsrStep == IsrEnter \/ IsrReset \/ IsrRx \/ IsrEp0

Next == \/ MainStep \/ IsrStep
        \/ \E n \in 1..PktMax : HostOut(n)
        \/ HostConfigure \/ BusReset

Spec == Init /\ [][Next]_vars

\* main() polls the shell, and with it the ring, for ever; a pending
\* interrupt is taken and its handler runs to its end.  The host comes
\* back after a reset.
FairSpec == /\ Spec
            /\ WF_vars(MainStep) /\ WF_vars(IsrStep) /\ WF_vars(HostConfigure)

-----------------------------------------------------------------------------
(* Properties.                                                             *)

TypeOK ==
  /\ head \in Index /\ tail \in Index /\ buf \in [Index -> Nat]
  /\ bank \in {0, 1} /\ hwBank \in {0, 1}
  /\ configured \in BOOLEAN /\ rxrdy \in BOOLEAN
  /\ banks \in [{0, 1} -> Seq(Nat)] /\ rxcount \in 0..PktMax
  /\ flags \subseteq Causes /\ seen \subseteq Causes
  /\ mainPc \in {"idle", "fetch", "advance", "store"}
  /\ isrPc \in {"off", "reset", "rx", "ep0"}
  /\ ch \in Nat /\ next \in Index
  /\ sent \in Nat /\ events \in Nat /\ taken \in Nat /\ received \in Seq(Nat)

(* The driver reads a packet from the bank the DMA wrote it to, across     *)
(* resets, flushes and repeated SET_CONFIGURATIONs.                        *)
BankInSync == InReset \/ hwBank = IF rxrdy THEN 1 - bank ELSE bank

(* A packet in the endpoint has an interrupt pending or in progress that   *)
(* will take it: the host is not held off for ever.                        *)
PacketIsAnnounced == rxrdy => "rx" \in flags \/ (isrPc = "rx" /\ "rx" \in seen)

(* The bytes between tail and head.                                        *)
Held == LET n == (head - tail) % RxSize
        IN  [i \in 1..n |-> buf[(tail + i - 1) % RxSize]]

(* The receive half implements the byte stream of the reader: order, no    *)
(* duplicate, and overflow drops the end of a packet and nothing else.     *)
Stream == INSTANCE UsbRxStream WITH Capacity <- RxSize - 1, sent <- taken,
                                    queue <- Held
ImplementsStream == Stream!Spec

(* What a bus reset dropped does not come back: until the host configures  *)
(* the device again nothing is sent, and nothing is there to be read.      *)
EmptyUntilConfigured == ~configured /\ ~InReset => head = tail

(* A byte the driver has put in the ring is read, or a reset drops it.     *)
HeldIsRead == \A n \in 1..MaxBytes :
  (\E i \in DOMAIN Held : Held[i] = n) ~> ~(\E i \in DOMAIN Held : Held[i] = n)
=============================================================================
