----------------------------- MODULE CdcRxProofs -----------------------------
(***************************************************************************)
(* The safety of CdcRx, for every ring and bank size and torn resets       *)
(* included: the driver follows the DMA's banks, a packet in the endpoint  *)
(* is announced, and the ring's indices stay in the ring.  Then, for       *)
(* resets between two calls, the refinement of the byte stream.            *)
(***************************************************************************)
EXTENDS CdcRx, SequenceTheorems, TLAPS

\* Under a reset that is not yet handled the endpoint is empty and the DMA
\* at its first bank.
ResetIsQuiet == InReset => ~rxrdy /\ hwBank = 0

\* What the handler has read of the interrupt causes decides its branch.
HandlerAtBranch ==
  /\ isrPc = "off" => seen = {}
  /\ isrPc = "reset" => "reset" \in seen /\ "reset" \notin flags
  /\ isrPc \in {"rx", "ep0"} => "reset" \notin seen

\* The packet in the endpoint fills the bank the DMA has left.
PacketInBank == rxrdy => rxcount = Len(banks[1 - hwBank])

IInv == /\ TypeOK /\ BankInSync /\ PacketIsAnnounced
        /\ ResetIsQuiet /\ HandlerAtBranch /\ PacketInBank

-----------------------------------------------------------------------------
LEMMA IncType == \A i \in Index : Inc(i) \in Index
  BY RxAssumption DEF Inc, Index

\* What is kept of a packet is a sequence of bytes.
LEMMA KeptType ==
  ASSUME TypeOK, NEW pkt \in Seq(Nat)
  PROVE  /\ Kept(pkt) \in Seq(Nat) /\ Len(Kept(pkt)) \in Nat
<1> DEFINE m == IF Len(pkt) < Room THEN Len(pkt) ELSE Room
<1>1. Room \in Nat
  BY RxAssumption DEF TypeOK, Index, Room
<1>2. Len(pkt) \in Nat
  BY LenProperties
<1>3. m \in Int /\ m <= Len(pkt)
  BY <1>1, <1>2
<1>4. \A i \in 1..m : pkt[i] \in Nat
  BY <1>2, <1>3, ElementOfSeq
<1>5. SubSeq(pkt, 1, m) \in Seq(Nat)
  BY <1>3, <1>4, SubSeqProperties
<1>. QED  BY <1>5, LenProperties DEF Kept

LEMMA InitIInv == Init => IInv
<1> SUFFICES ASSUME Init PROVE IInv
  OBVIOUS
<1>1. head \in Index /\ tail \in Index /\ next \in Index /\ buf \in [Index -> Nat]
  BY RxAssumption DEF Init, Index
<1>2. banks \in [{0, 1} -> Seq(Nat)] /\ received \in Seq(Nat) /\ rxcount \in 0..PktMax
  BY RxAssumption DEF Init
<1>3. TypeOK
  BY <1>1, <1>2 DEF Init, TypeOK
<1>. QED
  BY <1>3 DEF Init, IInv, BankInSync, PacketIsAnnounced, ResetIsQuiet, InReset,
              HandlerAtBranch, PacketInBank

-----------------------------------------------------------------------------
(* The main thread's accesses move tail alone.                             *)

LEMMA MainSteps == ASSUME IInv, MainStep PROVE IInv'
<1> USE DEF IInv
<1>1. CASE ReadChar
  BY <1>1 DEF ReadChar, MainAt, TypeOK, BankInSync, PacketIsAnnounced, ResetIsQuiet,
              InReset, HandlerAtBranch, PacketInBank, ring, hardware, isrVars
<1>2. CASE Fetch
  <2>1. ch' \in Nat
    BY <1>2 DEF Fetch, TypeOK
  <2>. QED
    BY <1>2, <2>1 DEF Fetch, MainAt, TypeOK, BankInSync, PacketIsAnnounced, ResetIsQuiet,
              InReset, HandlerAtBranch, PacketInBank, ring, hardware, isrVars
<1>3. CASE Advance
  BY <1>3, IncType DEF Advance, MainAt, TypeOK, BankInSync, PacketIsAnnounced,
              ResetIsQuiet, InReset, HandlerAtBranch, PacketInBank, ring, hardware, isrVars
<1>4. CASE Store
  <2>1. received' \in Seq(Nat) /\ next' \in Index
    BY <1>4, RxAssumption DEF Store, TypeOK, Index
  <2>. QED
    BY <1>4, <2>1 DEF Store, MainAt, TypeOK, BankInSync, PacketIsAnnounced, ResetIsQuiet,
              InReset, HandlerAtBranch, PacketInBank, hardware, isrVars
<1>. QED  BY <1>1, <1>2, <1>3, <1>4 DEF MainStep

-----------------------------------------------------------------------------
(* The handler.                                                            *)

LEMMA EnterStep == ASSUME IInv, IsrEnter PROVE IInv'
  BY DEF IInv, IsrEnter, TypeOK, BankInSync, PacketIsAnnounced, ResetIsQuiet, InReset,
         HandlerAtBranch, PacketInBank, ring, hardware, mainVars

LEMMA ResetStep == ASSUME IInv, IsrReset PROVE IInv'
<1>1. head' \in Index /\ tail' \in Index /\ received' \in Seq(Nat)
  BY RxAssumption DEF IsrReset, Index
<1>2. TypeOK'
  BY <1>1 DEF IInv, TypeOK, IsrReset, hardware, mainVars
<1>. QED
  BY <1>2 DEF IInv, IsrReset, BankInSync, PacketIsAnnounced, ResetIsQuiet, InReset,
              HandlerAtBranch, PacketInBank, hardware

LEMMA RxStep == ASSUME IInv, IsrRx PROVE IInv'
<1>1. /\ isrPc = "rx" /\ isrPc' = "ep0" /\ "reset" \notin seen
      /\ UNCHANGED <<tail, configured, banks, hwBank, rxcount, flags, mainVars, seen,
                     sent, events, received>>
  BY DEF IInv, IsrRx, HandlerAtBranch
<1>2. CASE "rx" \in seen /\ rxrdy
  <2> DEFINE kept == Kept(SubSeq(banks[bank], 1, rxcount))
  <2>1. /\ bank' = 1 - bank /\ head' = (head + Len(kept)) % RxSize
        /\ buf' = [i \in Index |-> LET d == (i - head) % RxSize
                                   IN  IF d < Len(kept) THEN kept[d + 1] ELSE buf[i]]
        /\ rxrdy' = FALSE /\ taken' = sent
    BY <1>2 DEF IsrRx, Rearm
  <2>2. ~InReset /\ hwBank = 1 - bank /\ rxcount = Len(banks[bank]) /\ banks[bank] \in Seq(Nat)
    BY <1>2 DEF IInv, ResetIsQuiet, BankInSync, PacketInBank, TypeOK
  <2>3. SubSeq(banks[bank], 1, rxcount) \in Seq(Nat)
    <3>1. rxcount \in Nat /\ \A i \in 1..rxcount : banks[bank][i] \in Nat
      BY <2>2, ElementOfSeq, LenProperties
    <3>. QED  BY <3>1, SubSeqProperties
  <2>4. kept \in Seq(Nat) /\ Len(kept) \in Nat
    BY <2>3, KeptType DEF IInv
  <2>5. head' \in Index
    <3> HIDE DEF kept
    <3>1. head + Len(kept) \in Nat
      BY <2>4 DEF IInv, TypeOK, Index
    <3>. QED  BY <2>1, <3>1, RxAssumption DEF Index
  <2>6. \A i \in Index : LET d == (i - head) % RxSize
                         IN  (IF d < Len(kept) THEN kept[d + 1] ELSE buf[i]) \in Nat
    <3> TAKE i \in Index
    <3> DEFINE d == (i - head) % RxSize
    <3>1. d \in Nat /\ buf[i] \in Nat
      BY RxAssumption DEF IInv, TypeOK, Index
    <3> HIDE DEF kept, d
    <3>2. d < Len(kept) => kept[d + 1] \in Nat
      BY <2>4, <3>1, ElementOfSeq
    <3>. QED  BY <3>1, <3>2 DEF d
  <2>7. buf' \in [Index -> Nat]
    <3> HIDE DEF kept
    <3>. QED  BY <2>1, <2>6
  <2>8. TypeOK'
    <3> HIDE DEF kept
    <3>0. bank \in {0, 1} /\ sent \in Nat
      BY DEF IInv, TypeOK
    <3>1. bank' \in {0, 1} /\ taken' \in Nat
      BY <2>1, <3>0
    <3>b. rxrdy' \in BOOLEAN
      BY <2>1
    <3>2. TypeOK /\ isrPc' = "ep0"
      BY <1>1 DEF IInv
    <3>3. UNCHANGED <<tail, configured, banks, hwBank, rxcount, flags, mainPc, ch, next,
                      seen, sent, events, received>>
      BY <1>1 DEF mainVars
    <3>. QED  BY <2>5, <2>7, <3>1, <3>b, <3>2, <3>3 DEF TypeOK
  <2>. QED
    BY <1>1, <2>1, <2>2, <2>8
    DEF IInv, TypeOK, BankInSync, PacketIsAnnounced, ResetIsQuiet, InReset, HandlerAtBranch,
        PacketInBank
<1>3. CASE ~("rx" \in seen /\ rxrdy)
  <2>1. UNCHANGED <<head, buf, bank, rxrdy, taken>>
    BY <1>3 DEF IsrRx
  <2>2. TypeOK'
    BY <1>1, <2>1 DEF IInv, TypeOK, mainVars
  <2>. QED
    BY <1>1, <1>3, <2>1, <2>2
    DEF IInv, BankInSync, PacketIsAnnounced, ResetIsQuiet, InReset, HandlerAtBranch,
        PacketInBank
<1>. QED  BY <1>2, <1>3

LEMMA Ep0Step == ASSUME IInv, IsrEp0 PROVE IInv'
<1>1. /\ isrPc = "ep0" /\ isrPc' = "off" /\ seen' = {} /\ "reset" \notin seen
      /\ UNCHANGED <<ring, banks, rxcount, flags, mainVars, sent, events, taken, received>>
  BY DEF IInv, IsrEp0, HandlerAtBranch
<1>2. CASE "ep0" \in seen
  <2>1. configured' = TRUE /\ bank' = 0 /\ rxrdy' = FALSE /\ hwBank' = 0
    BY <1>2 DEF IsrEp0, BankAtFlush, Rearm
  <2>. QED
    BY <1>1, <2>1
    DEF IInv, TypeOK, BankInSync, PacketIsAnnounced, ResetIsQuiet, InReset, HandlerAtBranch,
        PacketInBank, ring, mainVars
<1>3. CASE "ep0" \notin seen
  <2>1. UNCHANGED <<configured, bank, rxrdy, hwBank>>
    BY <1>3 DEF IsrEp0
  <2>. QED
    BY <1>1, <2>1
    DEF IInv, TypeOK, BankInSync, PacketIsAnnounced, ResetIsQuiet, InReset, HandlerAtBranch,
        PacketInBank, ring, mainVars
<1>. QED  BY <1>2, <1>3

-----------------------------------------------------------------------------
(* The hardware and the host.                                              *)

LEMMA OutStep == ASSUME IInv, NEW n \in 1..PktMax, HostOut(n) PROVE IInv'
<1> DEFINE pkt == [i \in 1..n |-> sent + i]
<1>1. n \in Nat /\ sent \in Nat /\ n \in 0..PktMax
  BY RxAssumption DEF IInv, TypeOK
<1>2. pkt \in Seq(Nat) /\ Len(pkt) = n
  BY <1>1
<1>3. /\ banks' = [banks EXCEPT ![hwBank] = pkt] /\ hwBank' = 1 - hwBank
      /\ rxrdy' = TRUE /\ rxcount' = n /\ sent' = sent + n
      /\ flags' = flags \cup {"rx"} /\ ~InReset /\ ~rxrdy
      /\ UNCHANGED <<ring, bank, configured, mainVars, isrVars, events, taken, received>>
  BY DEF HostOut
<1> HIDE DEF pkt
<1>4. hwBank \in {0, 1} /\ banks \in [{0, 1} -> Seq(Nat)]
  BY DEF IInv, TypeOK
<1>5. banks' \in [{0, 1} -> Seq(Nat)] /\ Len(banks'[1 - hwBank']) = n
  BY <1>2, <1>3, <1>4
<1>6. TypeOK'
  BY <1>1, <1>3, <1>5 DEF IInv, TypeOK, ring, mainVars, isrVars, Causes
<1>. QED
  BY <1>3, <1>5, <1>6
  DEF IInv, TypeOK, BankInSync, PacketIsAnnounced, ResetIsQuiet, InReset, HandlerAtBranch,
      PacketInBank, isrVars

LEMMA ConfigureStep == ASSUME IInv, HostConfigure PROVE IInv'
  BY DEF IInv, HostConfigure, TypeOK, BankInSync, PacketIsAnnounced, ResetIsQuiet, InReset,
         HandlerAtBranch, PacketInBank, Causes, ring, hardware, mainVars, isrVars

LEMMA BusResetStep == ASSUME IInv, BusReset PROVE IInv'
<1>1. TypeOK'
  <2>0. flags \subseteq Causes /\ events \in Nat
    BY DEF IInv, TypeOK
  <2>1. hwBank' \in {0, 1} /\ flags' \subseteq Causes /\ events' \in Nat
    BY <2>0 DEF BusReset, Causes
  <2>b. rxrdy' \in BOOLEAN
    BY DEF BusReset
  <2>2. UNCHANGED <<head, tail, buf, bank, configured, banks, rxcount, mainPc, ch, next,
                    isrPc, seen, sent, taken, received>>
    BY DEF BusReset, ring, mainVars, isrVars
  <2>. QED  BY <2>1, <2>b, <2>2 DEF IInv, TypeOK
<1>. QED
  BY <1>1 DEF IInv, BusReset, BankInSync, PacketIsAnnounced, ResetIsQuiet, InReset,
              HandlerAtBranch, PacketInBank, isrVars

LEMMA Stutter == ASSUME IInv, UNCHANGED vars PROVE IInv'
  BY DEF IInv, TypeOK, BankInSync, PacketIsAnnounced, ResetIsQuiet, InReset,
         HandlerAtBranch, PacketInBank, vars, ring, hardware, mainVars, isrVars

-----------------------------------------------------------------------------
(* The invariant holds of every behaviour.                                 *)
THEOREM Invariance == Spec => []IInv
<1>1. ASSUME IInv, [Next]_vars PROVE IInv'
  <2>1. CASE MainStep
    BY <1>1, <2>1, MainSteps
  <2>2. CASE IsrStep
    BY <1>1, <2>2, EnterStep, ResetStep, RxStep, Ep0Step DEF IsrStep
  <2>3. CASE (\E n \in 1..PktMax : HostOut(n)) \/ HostConfigure \/ BusReset
    BY <1>1, <2>3, OutStep, ConfigureStep, BusResetStep
  <2>4. CASE UNCHANGED vars
    BY <1>1, <2>4, Stutter
  <2>. QED  BY <1>1, <2>1, <2>2, <2>3, <2>4 DEF Next
<1>. QED  BY <1>1, InitIInv, PTL DEF Spec

(* The ring's indices, the bank and the packet length keep their ranges.   *)
THEOREM TypeCorrect == Spec => []TypeOK
  BY Invariance, PTL DEF IInv

(* The handler reads each packet from the bank the DMA wrote it to, across *)
(* resets and repeated SET_CONFIGURATIONs (g_rx_bank of bt_usb_isr).       *)
THEOREM BanksInSync == Spec => []BankInSync
  BY Invariance, PTL DEF IInv

(* No packet is left in the endpoint without an interrupt to take it.      *)
THEOREM PacketsAnnounced == Spec => []PacketIsAnnounced
  BY Invariance, PTL DEF IInv

-----------------------------------------------------------------------------
(* The byte stream, for resets that arrive between two calls: the handler  *)
(* of any other finds the main thread's tail in its hands.                 *)

\* A reset that is pending finds no read under way.
NoReadInReset == InReset => mainPc = "idle"

\* A read under way holds the byte at tail, and the index after it.
ReadAtTail ==
  /\ mainPc # "idle" => head # tail
  /\ mainPc \in {"advance", "store"} => ch = buf[tail]
  /\ mainPc = "store" => next = Inc(tail)

\* The packet in the endpoint: the last bytes sent, none of them taken.
PacketIsNew ==
  /\ taken <= sent
  /\ rxrdy => /\ rxcount \in 1..PktMax /\ taken + rxcount <= sent
              /\ banks[1 - hwBank] = [i \in 1..rxcount |-> sent - rxcount + i]

StreamInv == NoReadInReset /\ ReadAtTail /\ PacketIsNew

LEMMA RingSize == RxSize \in Nat /\ RxSize > 1
  BY RxAssumption

\* Sums and differences of two indices, masked.
LEMMA Wrap ==
  \A i \in Int : -RxSize <= i /\ i < 2 * RxSize =>
    i % RxSize = IF i < 0 THEN i + RxSize
                 ELSE IF i < RxSize THEN i ELSE i - RxSize
  BY RingSize

LEMMA StreamInit == Init => StreamInv
  BY DEF Init, StreamInv, NoReadInReset, ReadAtTail, PacketIsNew, InReset

\* The reader: it runs with no interrupt pending, so under no reset.
LEMMA ReaderKeeps == ASSUME IInv, StreamInv, MainStep PROVE StreamInv'
<1> USE DEF StreamInv
<1>1. isrPc = "off" /\ flags = {} /\ UNCHANGED <<flags, isrVars>>
  BY DEF MainStep, ReadChar, Fetch, Advance, Store, MainAt
<1>2. ~InReset'
  BY <1>1 DEF IInv, HandlerAtBranch, InReset, isrVars
<1>3. UNCHANGED <<head, buf, hardware, sent, taken>>
  BY DEF MainStep, ReadChar, Fetch, Advance, Store, ring
<1>4. PacketIsNew'
  BY <1>3 DEF PacketIsNew, hardware
<1>5. ReadAtTail'
  BY DEF MainStep, ReadChar, Fetch, Advance, Store, MainAt, Empty, ReadAtTail, ring
<1>. QED  BY <1>2, <1>4, <1>5 DEF NoReadInReset

-----------------------------------------------------------------------------
(* A packet in the ring.                                                   *)

\* The bytes in the ring; they and the free slots make it up, but for one.
Used == (head - tail) % RxSize

LEMMA RoomAndUsed ==
  ASSUME TypeOK
  PROVE  /\ head \in Nat /\ tail \in Nat /\ head < RxSize /\ tail < RxSize
         /\ Used = (IF head < tail THEN head - tail + RxSize ELSE head - tail)
         /\ Used \in Nat /\ Used < RxSize
         /\ Room = RxSize - 1 - Used /\ Room \in Nat
<1>1. /\ head \in Nat /\ tail \in Nat /\ head < RxSize /\ tail < RxSize
  BY RingSize DEF TypeOK, Index
<1>2. Used = IF head < tail THEN head - tail + RxSize ELSE head - tail
  BY <1>1, Wrap, RingSize DEF Used
<1>3. Room = IF tail - head - 1 < 0 THEN tail - head - 1 + RxSize ELSE tail - head - 1
  BY <1>1, Wrap, RingSize DEF Room
<1>. QED
  BY <1>1, <1>2, <1>3, RingSize

\* The handler takes the packet: m of its n bytes, those that fit.
PacketTaken(n, m) ==
  /\ m = (IF n < Room THEN n ELSE Room)
  /\ taken' = sent
  /\ head' = (head + m) % RxSize
  /\ buf' = [i \in Index |-> LET d == (i - head) % RxSize
                             IN  IF d < m THEN sent - n + d + 1 ELSE buf[i]]

LEMMA PacketIsTaken ==
  ASSUME IInv, StreamInv, IsrRx, "rx" \in seen, rxrdy
  PROVE  rxcount \in 1..PktMax /\ taken + rxcount <= sent
         /\ \E m \in Nat : PacketTaken(rxcount, m)
<1> DEFINE pkt == SubSeq(banks[bank], 1, rxcount)
           m == IF rxcount < Room THEN rxcount ELSE Room
<1>1. /\ rxcount \in 1..PktMax /\ taken + rxcount <= sent /\ rxcount \in Nat
      /\ banks[1 - hwBank] = [i \in 1..rxcount |-> sent - rxcount + i]
  BY RxAssumption DEF StreamInv, PacketIsNew
<1>2. bank = 1 - hwBank
  BY DEF IInv, BankInSync, ResetIsQuiet, TypeOK
<1>3. sent \in Nat /\ banks[bank] = [i \in 1..rxcount |-> sent - rxcount + i]
  BY <1>1, <1>2 DEF IInv, TypeOK
<1>4. \A i \in 1..rxcount : sent - rxcount + i \in Int
  BY <1>1, <1>3
<1>5. pkt = [i \in 1..rxcount |-> sent - rxcount + i] /\ Len(pkt) = rxcount
  BY <1>1, <1>3, <1>4, SubSeqProperties
<1>6. Room \in Nat
  BY RoomAndUsed DEF IInv
<1>7. m \in Nat /\ m <= rxcount
  BY <1>1, <1>6
<1>8. Kept(pkt) = [i \in 1..m |-> sent - rxcount + i] /\ Len(Kept(pkt)) = m
  <2>1. pkt \in Seq(Int)
    BY <1>1, <1>4, <1>5
  <2>2. Kept(pkt) = SubSeq(pkt, 1, m)
    BY <1>5 DEF Kept
  <2> HIDE DEF pkt, m
  <2>3. \A i \in 1..m : pkt[i] = sent - rxcount + i
    BY <1>1, <1>5, <1>7
  <2>. QED  BY <1>1, <1>5, <1>7, <2>1, <2>2, <2>3, SubSeqProperties
<1>9. /\ head' = (head + Len(Kept(pkt))) % RxSize /\ taken' = sent
      /\ buf' = [i \in Index |-> LET d == (i - head) % RxSize
                                 IN  IF d < Len(Kept(pkt)) THEN Kept(pkt)[d + 1] ELSE buf[i]]
  BY DEF IsrRx
<1> HIDE DEF pkt, m
<1>10. \A i \in Index : LET d == (i - head) % RxSize
         IN  (IF d < Len(Kept(pkt)) THEN Kept(pkt)[d + 1] ELSE buf[i])
             = (IF d < m THEN sent - rxcount + d + 1 ELSE buf[i])
  <2> TAKE i \in Index
  <2> DEFINE d == (i - head) % RxSize
  <2>1. d \in Nat
    BY RingSize DEF IInv, TypeOK, Index
  <2> HIDE DEF d
  <2>2. d < m => Kept(pkt)[d + 1] = sent - rxcount + d + 1
    BY <1>1, <1>3, <1>7, <1>8, <2>1
  <2>. QED  BY <1>8, <2>2 DEF d
<1>11. PacketTaken(rxcount, m)
  BY <1>8, <1>9, <1>10 DEF PacketTaken, m
<1>. QED  BY <1>1, <1>7, <1>11

\* The ring after it: what was held, then the bytes that were kept.
LEMMA HeldGrows ==
  ASSUME TypeOK, tail' = tail, NEW n \in Nat \ {0}, NEW m \in Nat, PacketTaken(n, m)
  PROVE  Held' = Held \o [i \in 1..m |-> sent - n + i]
<1> DEFINE u == Used
<1>1. /\ head \in Nat /\ tail \in Nat /\ head < RxSize /\ tail < RxSize
      /\ u = (IF head < tail THEN head - tail + RxSize ELSE head - tail)
      /\ u \in Nat /\ u + m <= RxSize - 1
  BY RoomAndUsed, RingSize DEF PacketTaken
<1> HIDE DEF u
<1>2. Used' = u + m
  <2>1. head' = (head + m) % RxSize
    BY DEF PacketTaken
  <2>2. head' = IF head + m < RxSize THEN head + m ELSE head + m - RxSize
    BY <1>1, <2>1, Wrap, RingSize
  <2>3. head' - tail \in Int /\ -RxSize <= head' - tail /\ head' - tail < RxSize
    BY <1>1, <2>2, RingSize
  <2>4. Used' = IF head' - tail < 0 THEN head' - tail + RxSize ELSE head' - tail
    BY <2>3, Wrap, RingSize DEF Used
  <2>. QED  BY <1>1, <2>2, <2>4, RingSize
<1>3. ASSUME NEW i \in 1..(u + m)
      PROVE  buf'[(tail + i - 1) % RxSize]
               = IF i <= u THEN buf[(tail + i - 1) % RxSize] ELSE sent - n + (i - u)
  <2> DEFINE j == (tail + i - 1) % RxSize
             d == (j - head) % RxSize
  <2>1. i \in Nat /\ 1 <= i /\ i <= u + m /\ i < RxSize
    BY <1>1, RingSize
  <2>2. j = IF tail + i - 1 < RxSize THEN tail + i - 1 ELSE tail + i - 1 - RxSize
    BY <1>1, <2>1, Wrap, RingSize
  <2> HIDE DEF j
  <2>4. j \in Index
    BY <1>1, <2>1, <2>2, RingSize DEF Index
  <2>5. d = IF j < head THEN j - head + RxSize ELSE j - head
    BY <1>1, <2>4, Wrap, RingSize DEF Index
  <2>6. buf'[j] = IF d < m THEN sent - n + d + 1 ELSE buf[j]
    BY <2>4 DEF PacketTaken
  <2> HIDE DEF d
  <2>7. i <= u => d >= m
    BY <1>1, <2>1, <2>2, <2>5, RingSize
  <2>8. i > u => d = i - 1 - u /\ d < m
    BY <1>1, <2>1, <2>2, <2>5, RingSize
  <2>9. sent \in Nat /\ d \in Int
    BY <1>1, <2>4, <2>5, RingSize DEF TypeOK, Index
  <2>10. i <= u => buf'[j] = buf[j]
    BY <1>1, <2>1, <2>6, <2>7, <2>9
  <2>11. i > u => buf'[j] = sent - n + (i - u)
    BY <1>1, <2>1, <2>6, <2>8, <2>9
  <2>. QED  BY <1>1, <2>1, <2>10, <2>11 DEF j
<1> DEFINE old == [i \in 1..u |-> buf[(tail + i - 1) % RxSize]]
           new == [i \in 1..m |-> sent - n + i]
           all == [i \in 1..(u + m) |-> buf'[(tail + i - 1) % RxSize]]
<1>4. Held = old /\ Held' = all
  BY <1>2 DEF Held, Used, u
<1>5. old \in Seq(Int) /\ Len(old) = u
  <2>1. \A i \in 1..u : buf[(tail + i - 1) % RxSize] \in Int
    <3> TAKE i \in 1..u
    <3>1. (tail + i - 1) % RxSize \in Index
      BY <1>1, RingSize DEF Index
    <3>. QED  BY <3>1 DEF TypeOK
  <2>. QED  BY <1>1, <2>1
<1>6. new \in Seq(Int) /\ Len(new) = m
  BY DEF TypeOK
<1>7. ASSUME NEW i \in 1..(u + m)
      PROVE  all[i] = IF i <= u THEN old[i] ELSE new[i - u]
  <2>1. all[i] = IF i <= u THEN buf[(tail + i - 1) % RxSize] ELSE sent - n + (i - u)
    BY <1>3
  <2>2. i <= u => old[i] = buf[(tail + i - 1) % RxSize]
    BY <1>1
  <2>3. i > u => new[i - u] = sent - n + (i - u)
    BY <1>1
  <2> HIDE DEF old, new, all
  <2>. QED  BY <2>1, <2>2, <2>3, <1>1
<1>8. all \in Seq(Int) /\ Len(all) = u + m
  <2>1. ASSUME NEW i \in 1..(u + m) PROVE all[i] \in Int
    <3> HIDE DEF old, new, all
    <3>0. i \in Nat
      BY <1>1
    <3>1. i <= u => old[i] \in Int
      BY <1>1, <1>5, ElementOfSeq
    <3>2. i > u => new[i - u] \in Int
      BY <1>1, <1>6, ElementOfSeq
    <3>3. all[i] = IF i <= u THEN old[i] ELSE new[i - u]
      BY <1>7
    <3>. QED  BY <1>1, <3>0, <3>1, <3>2, <3>3
  <2>2. u + m \in Nat
    BY <1>1
  <2>3. \A i \in 1..(u + m) : buf'[(tail + i - 1) % RxSize] \in Int
    BY <2>1
  <2>. QED  BY <2>2, <2>3
<1> HIDE DEF old, new, all
<1>9. all = old \o new
  <2>1. old \o new \in Seq(Int) /\ Len(old \o new) = u + m
    BY <1>5, <1>6, ConcatProperties
  <2>2. \A i \in 1..(u + m) : (old \o new)[i] = IF i <= u THEN old[i] ELSE new[i - u]
    BY <1>5, <1>6, ConcatProperties
  <2>3. \A i \in 1..Len(all) : all[i] = (old \o new)[i]
    BY <1>7, <1>8, <2>2
  <2>. QED  BY <1>8, <2>1, <2>3, SeqEqual
<1>. QED  BY <1>4, <1>9 DEF new

-----------------------------------------------------------------------------
(* The handler and the hardware keep the packet and the reader apart.      *)

LEMMA HandlerKeeps ==
  ASSUME IInv, StreamInv, IsrEnter \/ IsrReset \/ IsrEp0
  PROVE  StreamInv'
<1> USE DEF StreamInv
<1>1. CASE IsrEnter
  BY <1>1 DEF IsrEnter, NoReadInReset, ReadAtTail, PacketIsNew, InReset, ring, hardware,
              mainVars
<1>2. CASE IsrReset
  <2>1. mainPc' = "idle" /\ UNCHANGED <<hardware, sent, taken>>
    BY <1>2 DEF IInv, HandlerAtBranch, IsrReset, NoReadInReset, InReset, mainVars
  <2>. QED  BY <2>1 DEF NoReadInReset, ReadAtTail, PacketIsNew, hardware
<1>3. CASE IsrEp0
  <2>1. /\ UNCHANGED <<ring, banks, rxcount, flags, mainVars, sent, taken>>
        /\ seen' = {} /\ isrPc = "ep0"
    BY <1>3 DEF IsrEp0
  <2>2. rxrdy' => rxrdy /\ hwBank' = hwBank
    BY <1>3 DEF IsrEp0, Rearm
  <2>. QED
    BY <2>1, <2>2 DEF NoReadInReset, ReadAtTail, PacketIsNew, InReset, ring, mainVars
<1>. QED  BY <1>1, <1>2, <1>3

\* A packet that is taken goes behind head, away from the reader.
LEMMA TakingKeeps == ASSUME IInv, StreamInv, IsrRx PROVE StreamInv'
<1> USE DEF StreamInv
<1>1. /\ UNCHANGED <<tail, banks, hwBank, rxcount, flags, mainPc, ch, next, seen, sent>>
      /\ TypeOK
  BY DEF IInv, IsrRx, mainVars
<1>2. CASE ~("rx" \in seen /\ rxrdy)
  BY <1>1, <1>2 DEF IsrRx, NoReadInReset, ReadAtTail, PacketIsNew, InReset
<1>3. CASE "rx" \in seen /\ rxrdy
  <2>1. PICK m \in Nat : PacketTaken(rxcount, m)
    BY <1>3, PacketIsTaken
  <2>2. /\ head \in Nat /\ tail \in Nat /\ head < RxSize /\ tail < RxSize
        /\ Used = (IF head < tail THEN head - tail + RxSize ELSE head - tail)
        /\ Used + m <= RxSize - 1
    <3>1. m <= Room
      BY <2>1, <1>1, RoomAndUsed DEF PacketTaken, TypeOK
    <3>. QED  BY <1>1, <3>1, RoomAndUsed, RingSize
  <2>3. head # tail => head' # tail
    <3>1. head' = (head + m) % RxSize
      BY <2>1 DEF PacketTaken
    <3>2. head' = IF head + m < RxSize THEN head + m ELSE head + m - RxSize
      BY <2>2, <3>1, Wrap, RingSize
    <3>. QED  BY <2>2, <3>2, RingSize
  <2>4. head # tail => buf'[tail] = buf[tail]
    <3> SUFFICES ASSUME head # tail PROVE buf'[tail] = buf[tail]
      OBVIOUS
    <3>1. tail \in Index
      BY <1>1 DEF TypeOK
    <3>2. (tail - head) % RxSize = IF tail < head THEN tail - head + RxSize ELSE tail - head
      BY <2>2, Wrap, RingSize
    <3>3. ~((tail - head) % RxSize < m)
      BY <2>2, <3>2, RingSize
    <3>. QED  BY <2>1, <3>1, <3>3 DEF PacketTaken
  <2>5. ReadAtTail'
    BY <1>1, <2>3, <2>4 DEF ReadAtTail, Inc
  <2>6. PacketIsNew'
    <3>1. taken' = sent /\ rxrdy' = FALSE /\ sent \in Nat
      BY <1>1, <1>3, <2>1 DEF PacketTaken, IsrRx, Rearm, TypeOK
    <3>. QED  BY <1>1, <3>1 DEF PacketIsNew
  <2>. QED  BY <1>1, <2>5, <2>6 DEF NoReadInReset, InReset
<1>. QED  BY <1>2, <1>3

LEMMA HostKeeps ==
  ASSUME IInv, StreamInv, TornResets = FALSE,
         (\E n \in 1..PktMax : HostOut(n)) \/ HostConfigure \/ BusReset \/ UNCHANGED vars
  PROVE  StreamInv'
<1> USE DEF StreamInv
<1>1. ASSUME NEW n \in 1..PktMax, HostOut(n) PROVE StreamInv'
  <2>1. /\ banks' = [banks EXCEPT ![hwBank] = [i \in 1..n |-> sent + i]]
        /\ hwBank' = 1 - hwBank /\ rxrdy' = TRUE /\ rxcount' = n /\ sent' = sent + n
        /\ flags' = flags \cup {"rx"}
        /\ UNCHANGED <<ring, mainVars, seen, taken>>
    BY <1>1 DEF HostOut, isrVars
  <2>2. /\ hwBank \in {0, 1} /\ DOMAIN banks = {0, 1} /\ sent \in Nat /\ taken \in Nat
        /\ taken <= sent /\ n \in Nat
    BY RxAssumption DEF IInv, TypeOK, PacketIsNew
  <2>3. banks'[1 - hwBank'] = [i \in 1..n |-> sent' - n + i]
    <3>1. banks'[1 - hwBank'] = [i \in 1..n |-> sent + i]
      BY <2>1, <2>2
    <3>2. \A i \in 1..n : sent + i = sent' - n + i
      BY <2>1, <2>2
    <3>. QED  BY <3>1, <3>2
  <2>4. PacketIsNew'
    BY <2>1, <2>2, <2>3 DEF PacketIsNew
  <2>. QED
    BY <2>1, <2>4 DEF NoReadInReset, ReadAtTail, InReset, Inc, ring, mainVars
<1>2. CASE HostConfigure
  BY <1>2 DEF HostConfigure, NoReadInReset, ReadAtTail, PacketIsNew, InReset, ring, hardware,
              mainVars, isrVars
<1>3. CASE BusReset
  BY <1>3 DEF BusReset, Quiet, NoReadInReset, ReadAtTail, PacketIsNew, InReset, ring,
              mainVars, isrVars
<1>4. CASE UNCHANGED vars
  BY <1>4 DEF vars, NoReadInReset, ReadAtTail, PacketIsNew, InReset, Inc, ring, hardware,
              mainVars, isrVars
<1>. QED  BY <1>1, <1>2, <1>3, <1>4

-----------------------------------------------------------------------------
(* The refinement.                                                         *)

\* A step that leaves the ring and the histories alone is a stutter.
LEMMA HeldKept == ASSUME UNCHANGED <<ring, taken, received>> PROVE UNCHANGED Stream!vars
<1>1. Held' = Held
  BY DEF Held, ring
<1>. QED  BY <1>1 DEF Stream!vars

LEMMA StoreReads == ASSUME IInv, StreamInv, Store PROVE Stream!Read
<1>1. /\ mainPc = "store" /\ tail' = next /\ received' = Append(received, ch)
      /\ UNCHANGED <<head, buf, taken>>
  BY DEF Store, MainAt
<1>2. head # tail /\ ch = buf[tail] /\ next = Inc(tail)
  BY <1>1 DEF StreamInv, ReadAtTail
<1>3. /\ head \in Nat /\ tail \in Nat /\ head < RxSize /\ tail < RxSize
      /\ Used = (IF head < tail THEN head - tail + RxSize ELSE head - tail)
      /\ Used \in Nat /\ Used < RxSize
  BY RoomAndUsed DEF IInv
<1>4. tail' = (tail + 1) % RxSize
  BY <1>1, <1>2 DEF Inc
<1>5. tail' = IF tail + 1 < RxSize THEN tail + 1 ELSE 0
  BY <1>3, <1>4, Wrap, RingSize
<1>6. Used' = Used - 1 /\ Used > 0
  <2>1. head - tail' \in Int /\ -RxSize <= head - tail' /\ head - tail' < RxSize
    BY <1>3, <1>5, RingSize
  <2>2. Used' = IF head - tail' < 0 THEN head - tail' + RxSize ELSE head - tail'
    BY <1>1, <2>1, Wrap, RingSize DEF Used
  <2>. QED  BY <1>2, <1>3, <1>5, <2>2, RingSize
<1>7. \A i \in 1..Used : buf[(tail + i - 1) % RxSize] \in Nat
  <2> TAKE i \in 1..Used
  <2>1. (tail + i - 1) % RxSize \in Index
    BY <1>3, RingSize DEF Index
  <2>. QED  BY <2>1 DEF IInv, TypeOK
<1>8. Held = [i \in 1..Used |-> buf[(tail + i - 1) % RxSize]]
  BY DEF Held, Used
<1>9. Held' = [i \in 1..(Used - 1) |-> buf[(tail' + i - 1) % RxSize]]
  BY <1>1, <1>6 DEF Held, Used
<1>10. Held \in Seq(Nat) /\ Len(Held) = Used /\ Held # <<>>
  <2>1. Used \in Nat
    BY <1>3
  <2>2. Held \in Seq(Nat) /\ Len(Held) = Used
    BY <1>7, <1>8, <2>1
  <2>. QED  BY <1>6, <2>2
<1>11. Head(Held) = ch
  <2>1. tail % RxSize = tail
    BY <1>3, RingSize
  <2>2. Held[1] = buf[(tail + 1 - 1) % RxSize]
    BY <1>3, <1>6, <1>8
  <2>. QED  BY <1>2, <1>3, <1>10, <2>1, <2>2
<1>12. ASSUME NEW i \in 1..(Used - 1)
       PROVE  (tail' + i - 1) % RxSize = (tail + (i + 1) - 1) % RxSize
  <2>1. i \in Nat /\ 1 <= i /\ i + 1 <= Used
    BY <1>3
  <2>2. (tail' + i - 1) % RxSize
          = IF tail' + i - 1 < RxSize THEN tail' + i - 1 ELSE tail' + i - 1 - RxSize
    BY <1>3, <1>5, <2>1, Wrap, RingSize
  <2>3. (tail + i) % RxSize = IF tail + i < RxSize THEN tail + i ELSE tail + i - RxSize
    BY <1>3, <2>1, Wrap, RingSize
  <2>4. tail + (i + 1) - 1 = tail + i
    BY <1>3, <2>1
  <2>. QED  BY <1>3, <1>5, <2>1, <2>2, <2>3, <2>4, RingSize
<1>13. Held' = Tail(Held)
  <2>1. Tail(Held) \in Seq(Nat) /\ Len(Tail(Held)) = Used - 1
        /\ \A i \in 1..(Used - 1) : Tail(Held)[i] = Held[i + 1]
    BY <1>10, HeadTailProperties
  <2>2. \A i \in 1..(Used - 1) :
          Held[i + 1] = buf[(tail + (i + 1) - 1) % RxSize] /\ Held[i + 1] \in Nat
    BY <1>3, <1>7, <1>8
  <2>3. \A i \in 1..(Used - 1) : buf[(tail' + i - 1) % RxSize] = Tail(Held)[i]
    BY <1>12, <2>1, <2>2
  <2>4. \A i \in 1..(Used - 1) : Tail(Held)[i] \in Nat
    BY <2>1, <2>2
  <2>5. Used - 1 \in Nat
    BY <1>3, <1>6
  <2>6. Held' \in Seq(Nat) /\ Len(Held') = Used - 1
    <3>1. \A i \in 1..(Used - 1) : buf[(tail' + i - 1) % RxSize] \in Nat
      BY <2>3, <2>4
    <3>. QED  BY <1>9, <2>5, <3>1
  <2>7. \A i \in 1..Len(Held') : Held'[i] = Tail(Held)[i]
    BY <1>9, <2>3, <2>6
  <2>. QED  BY <2>1, <2>6, <2>7, SeqEqual
<1>. QED
  BY <1>1, <1>10, <1>11, <1>13 DEF Stream!Read

LEMMA ResetEmpties == ASSUME IsrReset PROVE Stream!Reset
<1>1. head' = 0 /\ tail' = 0 /\ received' = <<>> /\ taken' = taken
  BY DEF IsrReset
<1>2. (head' - tail') % RxSize = 0
  BY <1>1, RingSize
<1>3. Held' = [i \in 1..0 |-> buf'[(tail' + i - 1) % RxSize]]
  BY <1>2 DEF Held
<1>. QED  BY <1>1, <1>3 DEF Stream!Reset

LEMMA PacketArrives ==
  ASSUME IInv, StreamInv, IsrRx, "rx" \in seen, rxrdy
  PROVE  Stream!Arrive
<1>1. /\ rxcount \in 1..PktMax /\ taken + rxcount <= sent /\ rxcount \in Nat \ {0}
  BY PacketIsTaken, RxAssumption
<1>2. PICK m \in Nat : PacketTaken(rxcount, m)
  BY PacketIsTaken
<1>3. TypeOK /\ tail' = tail /\ received' = received
  BY DEF IInv, IsrRx
<1>4. Held' = Held \o [i \in 1..m |-> sent - rxcount + i]
  BY <1>1, <1>2, <1>3, HeldGrows
<1>5. taken' = sent /\ m = IF rxcount < Room THEN rxcount ELSE Room
  BY <1>2 DEF PacketTaken
<1>6. Room = RxSize - 1 - Len(Held)
  <2>1. Held = [i \in 1..Used |-> buf[(tail + i - 1) % RxSize]]
    BY DEF Held, Used
  <2>2. Used \in Nat /\ Room = RxSize - 1 - Used
    BY <1>3, RoomAndUsed
  <2>. QED  BY <2>1, <2>2
<1>7. Stream!Room = Room
  BY <1>6 DEF Stream!Room
<1>. QED  BY <1>1, <1>3, <1>4, <1>5, <1>7 DEF Stream!Arrive

(* The receive half is the byte stream of UsbRxStream: order, no duplicate *)
(* and no loss but the end of a packet that meets a full ring, for resets  *)
(* that arrive between two calls of bt_cdc_read_char.                      *)
THEOREM StreamImplemented ==
  ASSUME TornResets = FALSE
  PROVE  Spec => ImplementsStream
<1>1. Init => IInv /\ StreamInv /\ Stream!Init
  <2>1. Init => Stream!Init
    <3> SUFFICES ASSUME Init PROVE Stream!Init
      OBVIOUS
    <3>1. (head - tail) % RxSize = 0
      BY RingSize DEF Init
    <3>2. Held = [i \in 1..0 |-> buf[(tail + i - 1) % RxSize]]
      BY <3>1 DEF Held
    <3>. QED  BY <3>2 DEF Init, Stream!Init
  <2>. QED  BY <2>1, InitIInv, StreamInit
<1>2. ASSUME IInv, StreamInv, [Next]_vars
      PROVE  StreamInv' /\ [Stream!Next]_Stream!vars
  <2>1. CASE MainStep
    <3>1. CASE Store
      BY <1>2, <2>1, <3>1, ReaderKeeps, StoreReads DEF Stream!Next
    <3>2. CASE ReadChar \/ Fetch \/ Advance
      <4>1. UNCHANGED <<ring, taken, received>>
        BY <3>2 DEF ReadChar, Fetch, Advance
      <4>. QED  BY <1>2, <2>1, <4>1, ReaderKeeps, HeldKept
    <3>. QED  BY <2>1, <3>1, <3>2 DEF MainStep
  <2>2. CASE IsrRx
    <3>1. CASE "rx" \in seen /\ rxrdy
      BY <1>2, <2>2, <3>1, TakingKeeps, PacketArrives DEF Stream!Next
    <3>2. CASE ~("rx" \in seen /\ rxrdy)
      <4>1. UNCHANGED <<ring, taken, received>>
        BY <2>2, <3>2 DEF IsrRx, ring
      <4>. QED  BY <1>2, <2>2, <4>1, TakingKeeps, HeldKept
    <3>. QED  BY <3>1, <3>2
  <2>3. CASE IsrReset
    BY <1>2, <2>3, HandlerKeeps, ResetEmpties DEF Stream!Next
  <2>4. CASE IsrEnter \/ IsrEp0
    <3>1. UNCHANGED <<ring, taken, received>>
      BY <2>4 DEF IsrEnter, IsrEp0
    <3>. QED  BY <1>2, <2>4, <3>1, HandlerKeeps, HeldKept
  <2>5. CASE (\E n \in 1..PktMax : HostOut(n)) \/ HostConfigure \/ BusReset \/ UNCHANGED vars
    <3>1. UNCHANGED <<ring, taken, received>>
      BY <2>5 DEF HostOut, HostConfigure, BusReset, vars
    <3>. QED  BY <1>2, <2>5, <3>1, HostKeeps, HeldKept
  <2>. QED  BY <1>2, <2>1, <2>2, <2>3, <2>4, <2>5 DEF Next, IsrStep
<1>3. Spec => []IInv
  BY Invariance
<1>. QED
  BY <1>1, <1>2, <1>3, PTL DEF Spec, ImplementsStream, Stream!Spec
=============================================================================
