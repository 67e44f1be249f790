------------------------- MODULE CdcTxStreamProofs -------------------------
(***************************************************************************)
(* The transmit half implements the byte stream, for every ring and packet *)
(* size and for bus resets between two calls.                              *)
(*                                                                         *)
(* The argument counts bytes.  Sent is how many bytes of the session have  *)
(* left the ring; tail is its place, head that of the number accepted, and *)
(* the ring holds the bytes between the two.  The lock of CdcTxProofs says *)
(* who has the bytes that have left the ring and not reached the host: one *)
(* context in the kick, the FIFO, or nobody.                               *)
(***************************************************************************)
EXTENDS CdcTxProofs, SequenceTheorems

-----------------------------------------------------------------------------
(* Places in the ring.                                                     *)

\* The ring has a size.
LEMMA SizeFact == TxSize \in Int /\ TxSize > 0 /\ TxSize \in Nat /\ TxSize > 1
BY SizeAssumption

\* A remainder is what a multiple leaves ...
LEMMA ModIs ==
  ASSUME NEW m \in Int, m > 0, NEW k \in Int, NEW d \in 0..(m - 1)
  PROVE  (k * m + d) % m = d
OBVIOUS

\* ... and every number is a multiple and a remainder.
LEMMA DivMod ==
  ASSUME NEW m \in Int, m > 0, NEW n \in Int
  PROVE  \E k \in Int : n = k * m + (n % m) /\ n % m \in 0..(m - 1)
<1>1. n \div m \in Int /\ n = (n \div m) * m + (n % m) /\ n % m \in 0..(m - 1)
      OBVIOUS
<1>2. QED BY <1>1

\* A masked term of a sum may be masked before or after.
LEMMA ModAdds ==
  ASSUME NEW m \in Int, m > 0, NEW n \in Int, NEW d \in Int
  PROVE  ((n % m) + d) % m = (n + d) % m
<1> DEFINE r == n % m
           q == (r + d) % m
<1>1. PICK k \in Int : n = k * m + r /\ r \in 0..(m - 1)
      BY DivMod
<1>2. r \in Int /\ r + d \in Int
      BY <1>1
<1>3. PICK j \in Int : r + d = j * m + q /\ q \in 0..(m - 1)
      BY <1>2, DivMod
<1> HIDE DEF r, q
<1>4. n + d = (k + j) * m + q /\ k + j \in Int
      BY <1>1, <1>2, <1>3
<1>5. (n + d) % m = q
      BY <1>3, <1>4, ModIs
<1>6. QED BY <1>5 DEF r, q

\* The distance between two places is that of the positions.
LEMMA Distance ==
  ASSUME NEW m \in Int, m > 0, NEW n \in Int, NEW p \in Int
  PROVE  ((p % m) - (n % m)) % m = (p - n) % m
<1> DEFINE there == p % m
           here == n % m
           far == (there - here) % m
<1>1. PICK j \in Int : p = j * m + there /\ there \in 0..(m - 1)
      BY DivMod
<1>2. PICK i \in Int : n = i * m + here /\ here \in 0..(m - 1)
      BY DivMod
<1>3. there - here \in Int
      BY <1>1, <1>2
<1>4. PICK k \in Int : there - here = k * m + far /\ far \in 0..(m - 1)
      BY <1>3, DivMod
<1> HIDE DEF there, here, far
<1>5. p - n = (k + j - i) * m + far /\ k + j - i \in Int
      BY <1>1, <1>2, <1>4
<1>6. (p - n) % m = far
      BY <1>4, <1>5, ModIs
<1>7. QED BY <1>6 DEF there, here, far

\* A distance of less than a ring, either way.
LEMMA ShortWay ==
  ASSUME NEW m \in Int, m > 0, NEW d \in 0..(m - 1)
  PROVE  d % m = d /\ (d - m) % m = d
<1>1. d = 0 * m + d /\ d - m = (0 - 1) * m + d /\ 0 - 1 \in Int
      OBVIOUS
<1>2. (0 * m + d) % m = d /\ ((0 - 1) * m + d) % m = d
      BY <1>1, ModIs
<1>3. QED BY <1>1, <1>2

-----------------------------------------------------------------------------
(* The ring.                                                               *)

\* The ring holds the bytes of A after the first s of them, head is the
\* place of the next byte and tail that of byte s + 1.
RingHolds(A, s, h, t, b) ==
  /\ h = Len(A) % TxSize /\ t = s % TxSize
  /\ s <= Len(A) /\ Len(A) < s + TxSize
  /\ \A i \in (s + 1)..Len(A) : b[(i - 1) % TxSize] = A[i]

\* The n cells of s are the n bytes of A after the first from.
Copied(A, from, s, n) ==
  from + n <= Len(A) /\ \A i \in 1..n : s[i] = A[from + i]

\* The ring has room for c bytes more ...
HasRoom(A, s, c) == Len(A) + c < s + TxSize

\* ... and the c bytes after byte w of all are there already.
Stored(A, b, c, w) == \A j \in 1..c : b[(Len(A) + j - 1) % TxSize] = w + j

\* A ring whose indices differ holds a byte, and tail is its place.
LEMMA RingFirst ==
  ASSUME NEW A \in Seq(Nat), NEW s \in Nat, NEW h, NEW t, NEW b,
         RingHolds(A, s, h, t, b), h # t
  PROVE  s + 1 <= Len(A) /\ b[t] = A[s + 1]
<1>1. s <= Len(A) /\ Len(A) \in Nat /\ s # Len(A)
      BY DEF RingHolds
<1>2. s + 1 \in (s + 1)..Len(A) /\ (s + 1) - 1 = s
      BY <1>1
<1>3. b[((s + 1) - 1) % TxSize] = A[s + 1]
      BY <1>2 DEF RingHolds
<1>4. QED BY <1>2, <1>3 DEF RingHolds

\* The masked difference is the room that is left, one slot kept free.
LEMMA RingRoom ==
  ASSUME NEW A \in Seq(Nat), NEW s \in Nat, NEW h, NEW t, NEW b,
         RingHolds(A, s, h, t, b)
  PROVE  (t - h - 1) % TxSize = s + TxSize - 1 - Len(A)
<1> DEFINE n == Len(A)
           d == s + TxSize - 1 - n
<1>1. n \in Nat /\ s <= n /\ n < s + TxSize /\ TxSize \in Int /\ TxSize > 0
      BY SizeFact DEF RingHolds
<1>2. d \in 0..(TxSize - 1)
      BY <1>1
<1>3. h = n % TxSize /\ t = s % TxSize
      BY DEF RingHolds
<1> HIDE DEF n
<1>a. s \in Int /\ n \in Int /\ TxSize \in Int /\ TxSize > 0
      BY <1>1, SizeFact
<1>4. PICK i \in Int : s = i * TxSize + t /\ t \in 0..(TxSize - 1)
      BY <1>a, <1>3, DivMod
<1>5. PICK j \in Int : n = j * TxSize + h /\ h \in 0..(TxSize - 1)
      BY <1>a, <1>3, DivMod
<1>6. t - h - 1 = (j - i - 1) * TxSize + d /\ j - i - 1 \in Int
      BY <1>1, <1>4, <1>5
<1> HIDE DEF d
<1>7. (t - h - 1) % TxSize = d
      BY <1>1, <1>2, <1>6, ModIs
<1>8. QED BY <1>7 DEF d, n

\* tail moves past the oldest byte.
LEMMA RingPops ==
  ASSUME NEW A \in Seq(Nat), NEW s \in Nat, NEW h, NEW t, NEW b,
         RingHolds(A, s, h, t, b), s + 1 <= Len(A)
  PROVE  RingHolds(A, s + 1, h, Inc(t), b)
<1>1. Len(A) \in Nat /\ TxSize \in Int /\ TxSize > 0
      BY SizeFact
<1>2. Len(A) < (s + 1) + TxSize
      BY <1>1 DEF RingHolds
<1>3. Inc(t) = (s + 1) % TxSize
  <2>1. ((s % TxSize) + 1) % TxSize = (s + 1) % TxSize
    <3>1. s \in Int /\ 1 \in Int
          OBVIOUS
    <3>2. QED BY <1>1, <3>1, ModAdds
  <2>2. QED BY <2>1 DEF RingHolds, Inc
<1>4. \A i \in ((s + 1) + 1)..Len(A) : i \in (s + 1)..Len(A)
      BY <1>1
<1>5. QED BY <1>2, <1>3, <1>4 DEF RingHolds

\* head moves past c bytes that were put behind it.
LEMMA RingPushes ==
  ASSUME NEW A \in Seq(Nat), NEW s \in Nat, NEW h, NEW t, NEW b,
         RingHolds(A, s, h, t, b),
         NEW c \in Nat, HasRoom(A, s, c), NEW w \in Nat, Stored(A, b, c, w),
         NEW q, q = [j \in 1..c |-> w + j]
  PROVE  RingHolds(A \o q, s, (Len(A) + c) % TxSize, t, b)
<1>0. q \in Seq(Nat) /\ Len(q) = c /\ \A j \in 1..c : q[j] = w + j
      OBVIOUS
<1> DEFINE all == A \o q
<1>1. /\ Len(all) = Len(A) + Len(q) /\ Len(A) \in Nat /\ Len(q) \in Nat
      /\ \A i \in 1..Len(all) : all[i] = IF i <= Len(A) THEN A[i] ELSE q[i - Len(A)]
      BY <1>0
<1> HIDE DEF all
<1>2. ASSUME NEW i \in (s + 1)..Len(all) PROVE b[(i - 1) % TxSize] = all[i]
  <2>1. i \in 1..Len(all)
        BY <1>1
  <2>2. CASE i <= Len(A)
    <3>1. i \in (s + 1)..Len(A)
          BY <1>1, <2>2
    <3>2. QED BY <1>1, <2>1, <2>2, <3>1 DEF RingHolds
  <2>3. CASE ~(i <= Len(A))
    <3>1. i - Len(A) \in 1..c /\ Len(A) + (i - Len(A)) - 1 = i - 1
          BY <1>0, <1>1, <2>1, <2>3
    <3>2. b[(Len(A) + (i - Len(A)) - 1) % TxSize] = q[i - Len(A)]
          BY <1>0, <3>1 DEF Stored
    <3>3. QED BY <1>1, <2>1, <2>3, <3>1, <3>2
  <2>4. QED BY <2>2, <2>3
<1>3. s <= Len(all)
      BY <1>1 DEF RingHolds
<1>4. Len(all) = Len(A) + c /\ Len(all) < s + TxSize
      BY <1>0, <1>1 DEF HasRoom
<1>5. QED BY <1>2, <1>3, <1>4 DEF RingHolds, all

\* The ring with c bytes more behind h.
Filled(b, h, c, w) ==
  [i \in Index |-> LET d == (i - h) % TxSize IN IF d < c THEN w + d + 1 ELSE b[i]]

\* They do not disturb those the ring holds.
LEMMA RingFilled ==
  ASSUME NEW A \in Seq(Nat), NEW s \in Nat, NEW h, NEW t, NEW b,
         RingHolds(A, s, h, t, b),
         NEW c \in Nat, HasRoom(A, s, c), NEW w \in Nat
  PROVE  /\ RingHolds(A, s, h, t, Filled(b, h, c, w))
         /\ Stored(A, Filled(b, h, c, w), c, w)
<1> DEFINE n == Len(A)
           new == Filled(b, h, c, w)
<1>1. n \in Nat /\ s <= n /\ n < s + TxSize /\ TxSize \in Int /\ TxSize > 0 /\ n + c < s + TxSize
      BY SizeFact DEF RingHolds, HasRoom
<1>2. h = n % TxSize
      BY DEF RingHolds
<1>3. ASSUME NEW p \in Int PROVE p % TxSize \in Index
      BY ModInRing
<1> HIDE DEF n
<1>4. ASSUME NEW i \in (s + 1)..n PROVE new[(i - 1) % TxSize] = b[(i - 1) % TxSize]
  <2> DEFINE d == i - 1 - n + TxSize
  <2>1. i - 1 \in Int /\ n \in Int /\ d \in 0..(TxSize - 1) /\ ~(d < c)
        BY <1>1
  <2>2. (i - 1) - n = d - TxSize
        BY <1>1
  <2> HIDE DEF d
  <2>3. (((i - 1) % TxSize) - (n % TxSize)) % TxSize = d
    <3>1. (((i - 1) % TxSize) - (n % TxSize)) % TxSize = ((i - 1) - n) % TxSize
          BY <1>1, <2>1, Distance
    <3>2. (d - TxSize) % TxSize = d
          BY <1>1, <2>1, ShortWay
    <3>3. QED BY <2>2, <3>1, <3>2
  <2>4. (i - 1) % TxSize \in Index
        BY <2>1, <1>3
  <2>5. QED BY <1>2, <2>1, <2>3, <2>4 DEF Filled
<1>5. ASSUME NEW j \in 1..c PROVE new[(n + j - 1) % TxSize] = w + j
  <2>1. /\ n + j - 1 \in Int /\ n \in Int /\ j - 1 \in 0..(TxSize - 1)
        /\ j - 1 < c /\ w + (j - 1) + 1 = w + j
        BY <1>1
  <2>2. (n + j - 1) - n = j - 1
        BY <1>1
  <2>3. (((n + j - 1) % TxSize) - (n % TxSize)) % TxSize = j - 1
    <3>1. (((n + j - 1) % TxSize) - (n % TxSize)) % TxSize = ((n + j - 1) - n) % TxSize
          BY <1>1, <2>1, Distance
    <3>2. (j - 1) % TxSize = j - 1
          BY <1>1, <2>1, ShortWay
    <3>3. QED BY <2>2, <3>1, <3>2
  <2>4. (n + j - 1) % TxSize \in Index
        BY <2>1, <1>3
  <2>5. QED BY <1>2, <2>1, <2>3, <2>4 DEF Filled
<1> HIDE DEF new
<1>6. RingHolds(A, s, h, t, new)
      BY <1>4 DEF RingHolds, n
<1>7. QED BY <1>5, <1>6 DEF new, n, Stored

\* A copy stays one when bytes are added behind it.
LEMMA CopiedStays ==
  ASSUME NEW A \in Seq(Nat), NEW q \in Seq(Nat), NEW from \in Nat, NEW s, NEW n \in Nat,
         Copied(A, from, s, n)
  PROVE  Copied(A \o q, from, s, n)
<1> DEFINE all == A \o q
<1>1. /\ Len(all) = Len(A) + Len(q) /\ Len(A) \in Nat /\ Len(q) \in Nat
      /\ \A i \in 1..Len(all) : all[i] = IF i <= Len(A) THEN A[i] ELSE q[i - Len(A)]
      OBVIOUS
<1> HIDE DEF all
<1>2. from + n <= Len(A)
      BY DEF Copied
<1>3. ASSUME NEW i \in 1..n PROVE s[i] = all[from + i]
  <2>1. from + i \in 1..Len(all) /\ from + i <= Len(A)
        BY <1>1, <1>2
  <2>2. QED BY <1>1, <2>1 DEF Copied
<1>4. from + n <= Len(all)
      BY <1>1, <1>2
<1>5. QED BY <1>3, <1>4 DEF Copied, all

\* A sequence that agrees with the beginning of another is its beginning.
LEMMA Beginning ==
  ASSUME NEW A \in Seq(Nat), NEW B \in Seq(Nat), Len(B) <= Len(A),
         \A i \in 1..Len(B) : B[i] = A[i]
  PROVE  SubSeq(A, 1, Len(B)) = B
<1> DEFINE n == Len(B)
           sub == SubSeq(A, 1, n)
<1>1. n \in Nat /\ Len(A) \in Nat /\ n <= Len(A)
      OBVIOUS
<1>2. sub \in Seq(Nat) /\ Len(sub) = n /\ \A i \in 1..n : sub[i] = A[i]
      BY <1>1, SubSeqProperties
<1>3. QED BY <1>2, SeqEqual

\* A sequence begins with what something was added to ...
LEMMA Prefix ==
  ASSUME NEW A \in Seq(Nat), NEW q \in Seq(Nat)
  PROVE  SubSeq(A \o q, 1, Len(A)) = A
<1> DEFINE all == A \o q
<1>1. /\ all \in Seq(Nat) /\ Len(all) = Len(A) + Len(q) /\ Len(A) \in Nat /\ Len(q) \in Nat
      /\ \A i \in 1..Len(A) : all[i] = A[i]
      OBVIOUS
<1> HIDE DEF all
<1>2. SubSeq(all, 1, Len(A)) = A
      BY <1>1, Beginning
<1>3. QED BY <1>2 DEF all

-----------------------------------------------------------------------------
(* The stream, wherever its bytes are: delivered, in the FIFO, in          *)
(* ep1_tx_buf, in the ring or behind head.                                 *)

\* The bytes of a's packet that have left the ring: tail follows the copy.
Behind(a) == IF pc[a] \in {"advance", "store"} THEN count[a] - 1 ELSE count[a]

OnTheWay == IF txrdy THEN Len(fifo)
            ELSE IF pc["main"] \in Loading THEN Behind("main")
            ELSE IF pc["isr"] \in Loading THEN Behind("isr")
            ELSE 0

\* How many bytes of the session have left the ring.
Sent == Len(delivered) + OnTheWay

RingInv == RingHolds(accepted, Sent, head, tail, buf)

\* ep1_tx_buf holds the bytes that follow the delivered ones.
PacketOf(a) ==
  pc[a] \in Loading =>
    /\ Copied(accepted, Len(delivered), epbuf, count[a])
    /\ pc[a] \in {"advance", "store", "mask", "dma", "ready"} => count[a] # 0
    /\ pc[a] = "store" => next[a] = Inc(tail)
    /\ pc[a] = "ready" => fifo = [i \in 1..count[a] |-> epbuf[i]]

PacketInv == \A a \in Contexts : PacketOf(a)

FifoInv == txrdy => /\ Len(fifo) \in 1..PktMax
                    /\ Copied(accepted, Len(delivered), fifo, Len(fifo))

DeliveredInv == Copied(accepted, 0, delivered, Len(delivered))

Parts == RingInv /\ PacketInv /\ FifoInv /\ DeliveredInv

\* From the test for room to the store of head: the write has room for its
\* chunk, fills it behind head and moves head past it.
RoomInv ==
  /\ pc["main"] \in {"space", "fill"} => slot = head
  /\ pc["main"] \in {"slot", "fill", "next", "publish"} =>
       chunk >= 1 /\ HasRoom(accepted, Sent, chunk)
  /\ pc["main"] \in {"next", "publish"} =>
       Stored(accepted, buf, chunk, written - chunk)
  /\ pc["main"] = "publish" => slot = (Len(accepted) + chunk) % TxSize

\* bt_cdc_write_char writes one byte; only it loads head again.
CallInv ==
  /\ pc["main"] # "idle" => todo >= 1
  /\ single => todo = 1 /\ (pc["main"] \notin {"head", "space"} => chunk = 1)
  /\ pc["main"] \in {"slot", "next"} => single

StreamInv == ~InReset => Parts

IInv == ControlInv /\ QuietInv /\ ClaimInv /\ CallInv /\ RoomInv /\ StreamInv

\* No context owns the endpoint.
Resting == \A a \in Contexts : pc[a] \notin Loading

-----------------------------------------------------------------------------
(* Control.                                                                *)

\* A write call keeps its own count of the bytes that are left.
LEMMA CallStep == ASSUME TypeOK, ChunkInv, CallInv, RoomInv, Next PROVE CallInv'
<1> USE SizeAssumption DEF CallInv, TypeOK, PcType, WriteType, Contexts, MainAt, At, Goto,
            ring, writeLocals, Loading, Masked, KickLabels, WriteLabels, MainLabels
<1>1. ASSUME NEW n \in Nat, n >= 1, NEW s \in BOOLEAN, s => n = 1, Call(n, s) PROVE CallInv'
      BY <1>1 DEF Call
<1>2. CASE LoadHead
      BY <1>2 DEF LoadHead
<1>3. CASE TestSpace
  <2>1. FreeFrom(slot) \in Nat
        BY SizeFact DEF FreeFrom, RingType, Index
  <2>2. CASE FreeFrom(slot) > 0
    <3>1. /\ pc["main"] = "space" /\ chunk' = Lesser(todo, FreeFrom(slot))
          /\ pc' = [pc EXCEPT !["main"] = IF single THEN "slot" ELSE "fill"]
          /\ UNCHANGED <<timeout, todo, slot, single>>
          BY <1>3, <2>2 DEF TestSpace
    <3>2. single => chunk' = 1
          BY <2>1, <2>2, <3>1 DEF Lesser
    <3>3. QED BY <3>1, <3>2
  <2>3. CASE ~(FreeFrom(slot) > 0)
        BY <1>3, <2>3 DEF TestSpace, WaitTurn, EndCall
  <2>4. QED BY <2>2, <2>3
<1>4. CASE Fill
      BY <1>4 DEF Fill
<1>5. CASE NextHead
      BY <1>5 DEF NextHead
<1>6. CASE Publish
      BY <1>6 DEF Publish
<1>a. ASSUME ChunkDone, pc["main"] \in {"test"} \cup KickLabels PROVE CallInv'
  <2>1. CASE todo = chunk
        BY <1>a, <2>1 DEF ChunkDone, EndCall
  <2>2. CASE todo # chunk
    <3>1. todo - chunk >= 1 /\ ~single
          BY <1>a, <2>2 DEF ChunkInv, Index
    <3>2. QED BY <1>a, <2>2, <3>1 DEF ChunkDone
  <2>3. QED BY <2>1, <2>2
<1>7. CASE TestBusy
  <2>1. CASE busy
        BY <1>7, <2>1, <1>a DEF TestBusy
  <2>2. CASE ~busy
        BY <1>7, <2>2 DEF TestBusy
  <2>3. QED BY <2>1, <2>2
<1>8. CASE Claim
      BY <1>8 DEF Claim
<1>b. ASSUME NEW a \in Contexts, Return(a), pc[a] \in KickLabels PROVE CallInv'
  <2>1. CASE a = "main"
        BY <1>a, <1>b, <2>1 DEF Return
  <2>2. CASE a = "isr"
        BY <1>b, <2>2 DEF Return
  <2>3. QED BY <2>1, <2>2
<1>9. ASSUME NEW a \in Contexts, KickCopy(a) PROVE CallInv'
      BY <1>9 DEF KickCopy
<1>10. ASSUME NEW a \in Contexts, KickAdvance(a) PROVE CallInv'
      BY <1>10 DEF KickAdvance
<1>11. ASSUME NEW a \in Contexts, KickStore(a) PROVE CallInv'
      BY <1>11 DEF KickStore
<1>12. ASSUME NEW a \in Contexts, KickCheck(a) PROVE CallInv'
  <2>1. CASE count[a] = 0
        BY <1>12, <1>b, <2>1 DEF KickCheck
  <2>2. CASE count[a] # 0
        BY <1>12, <2>2 DEF KickCheck
  <2>3. QED BY <2>1, <2>2
<1>13. ASSUME NEW a \in Contexts, KickMask(a) PROVE CallInv'
      BY <1>13 DEF KickMask
<1>14. ASSUME NEW a \in Contexts, KickDma(a) PROVE CallInv'
      BY <1>14 DEF KickDma
<1>15. ASSUME NEW a \in Contexts, KickReady(a) PROVE CallInv'
      BY <1>15 DEF KickReady
<1>16. ASSUME NEW a \in Contexts, KickRestore(a) PROVE CallInv'
      BY <1>16, <1>b DEF KickRestore
<1>17. CASE IsrStep
  <2>1. CASE IsrEnter \/ IsrReset
        BY <2>1 DEF IsrEnter, IsrReset
  <2>2. CASE IsrBranches
        BY <2>2 DEF IsrBranches, IsrEp0, IsrRequest, IsrFlush, IsrLeave, OutsideKick
  <2>3. QED BY <1>17, <2>1, <2>2, <1>9, <1>10, <1>11, <1>12, <1>13, <1>14, <1>15, <1>16
            DEF IsrStep, Kick
<1>18. CASE HostStep
      BY <1>18 DEF HostStep, HostIn, HostConfigure, HostOther, Raise, BusReset
<1>19. CASE CallWriteChar \/ CallWrite
  <2>1. CASE CallWriteChar
    <3>1. Call(1, TRUE)
          BY <2>1 DEF CallWriteChar
    <3>2. 1 \in Nat /\ 1 >= 1 /\ (TRUE => 1 = 1)
          OBVIOUS
    <3>3. QED BY <1>1, <3>1, <3>2, Zenon
  <2>2. CASE CallWrite
    <3>1. PICK n \in 1..MaxWrite : Call(n, FALSE)
          BY <2>2 DEF CallWrite
    <3>2. n \in Nat /\ n >= 1
          BY BoundAssumption
    <3>3. QED BY <1>1, <3>1, <3>2
  <2>3. QED BY <1>19, <2>1, <2>2
<1>20. QED BY <1>2, <1>3, <1>4, <1>5, <1>6, <1>7, <1>8, <1>9, <1>10, <1>11, <1>12,
              <1>13, <1>14, <1>15, <1>16, <1>17, <1>18, <1>19
           DEF Next, MainStep, Kick

-----------------------------------------------------------------------------
(* Steps of the stream.                                                    *)

\* No more than one packet has left the ring and not reached the host.
LEMMA SentType ==
  ASSUME TypeOK, PacketInv, FifoInv
  PROVE  Sent \in Nat /\ Len(delivered) \in Nat /\ Sent <= Len(delivered) + PktMax
<1>1. Len(delivered) \in Nat /\ Len(fifo) \in Nat
      BY DEF TypeOK, HistoryType, HardwareType
<1>2. PktMax \in Nat /\ \A a \in Contexts : count[a] \in 0..PktMax
      BY SizeAssumption DEF TypeOK, KickType
<1>3. ASSUME NEW a \in Contexts, pc[a] \in Loading PROVE Behind(a) \in 0..PktMax
      BY <1>2, <1>3 DEF Behind, PacketInv, PacketOf
<1>4. txrdy => Len(fifo) <= PktMax
      BY <1>2 DEF FifoInv
<1>5. OnTheWay \in 0..PktMax
      BY <1>1, <1>2, <1>3, <1>4 DEF OnTheWay, Contexts
<1>6. QED BY <1>1, <1>2, <1>5 DEF Sent

\* A context moves, the other stays where it is.
LEMMA Moves ==
  ASSUME TypeOK, NEW a \in Contexts, NEW l, Goto(a, l)
  PROVE  pc'[a] = l /\ \A b \in Contexts : b # a => pc'[b] = pc[b]
BY DEF TypeOK, PcType, Goto

\* A context takes a step of the label it is at.
LEMMA AtLabel == ASSUME NEW a \in Contexts, NEW l, At(a, l) PROVE pc[a] = l
<1>1. CASE a = "main"
      BY <1>1 DEF At, MainAt
<1>2. CASE a # "main"
      BY <1>2 DEF At, Contexts
<1>3. QED BY <1>1, <1>2

\* Where the endpoint stays, and no byte moves, the stream stays.
LEMMA StillKeeps ==
  ASSUME Parts, UNCHANGED <<ring, fifo, txrdy, history>>, Sent' = Sent
  PROVE  RingInv' /\ FifoInv' /\ DeliveredInv'
<1>1. UNCHANGED <<head, tail, buf, fifo, txrdy, accepted, delivered>>
      BY DEF ring, history
<1>2. RingInv'
      BY <1>1 DEF Parts, RingInv
<1>3. FifoInv' /\ DeliveredInv'
      BY <1>1 DEF Parts, FifoInv, DeliveredInv
<1>4. QED BY <1>2, <1>3

\* So it does where a context moves outside the packet it has no part in.
LEMMA OutsideKeeps ==
  ASSUME Parts, UNCHANGED <<ring, epbuf, fifo, txrdy, history>>,
         \A a \in Contexts :
           \/ pc'[a] = pc[a] /\ count'[a] = count[a] /\ next'[a] = next[a]
           \/ pc[a] \notin Loading /\ pc'[a] \notin Loading
  PROVE  Parts' /\ Sent' = Sent
<1>1. UNCHANGED <<tail, accepted, delivered>>
      BY DEF ring, history
<1>2. \A a \in Contexts : pc'[a] \in Loading <=> pc[a] \in Loading
      OBVIOUS
<1>3. \A a \in Contexts : pc[a] \in Loading =>
        pc'[a] = pc[a] /\ count'[a] = count[a] /\ next'[a] = next[a]
      OBVIOUS
<1>4. \A a \in Contexts : pc[a] \in Loading => Behind(a)' = Behind(a)
      BY <1>3 DEF Behind
<1>5. Sent' = Sent
      BY <1>1, <1>2, <1>4 DEF Sent, OnTheWay, Contexts
<1>6. ASSUME NEW a \in Contexts PROVE PacketOf(a)'
  <2>1. CASE pc'[a] \in Loading
    <3>1. pc[a] \in Loading /\ PacketOf(a)
          BY <1>2, <2>1 DEF Parts, PacketInv
    <3>2. pc'[a] = pc[a] /\ count'[a] = count[a] /\ next'[a] = next[a]
          BY <1>3, <3>1
    <3>3. QED BY <1>1, <3>1, <3>2 DEF PacketOf, Inc
  <2>2. CASE pc'[a] \notin Loading
        BY <2>2 DEF PacketOf
  <2>3. QED BY <2>1, <2>2
<1>7. QED BY <1>5, <1>6, StillKeeps DEF Parts, PacketInv

\* A context in the kick is alone with the endpoint.
LEMMA Alone ==
  ASSUME ClaimInv, ~InReset, NEW a \in Contexts, pc[a] \in Loading
  PROVE  /\ ~txrdy /\ \A b \in Contexts : b # a => pc[b] \notin Loading
         /\ Sent = Len(delivered) + Behind(a)
<1>1. ~txrdy /\ \A b \in Contexts : b # a => pc[b] \notin Loading
      BY DEF ClaimInv, Contexts
<1>2. QED BY <1>1 DEF Sent, OnTheWay, Contexts

\* ... and after a step that leaves it there.
LEMMA AloneNext ==
  ASSUME NEW a \in Contexts, ~txrdy', pc'[a] \in Loading,
         \A b \in Contexts : b # a => pc'[b] \notin Loading
  PROVE  /\ Sent' = Len(delivered') + Behind(a)'
         /\ PacketOf(a)' => PacketInv'
<1>1. Sent' = Len(delivered') + Behind(a)'
      BY DEF Sent, OnTheWay, Contexts
<1>2. ASSUME NEW b \in Contexts, b # a PROVE PacketOf(b)'
      BY <1>2 DEF PacketOf
<1>3. QED BY <1>1, <1>2 DEF PacketInv

\* A kick begins on an endpoint at rest, with no byte yet.
LEMMA KickBegins ==
  ASSUME TypeOK, Parts, ~txrdy, Resting, UNCHANGED <<ring, fifo, txrdy, history>>,
         NEW a \in Contexts, pc'[a] = "copy", count'[a] = 0,
         \A b \in Contexts : b # a => pc'[b] = pc[b]
  PROVE  Parts' /\ Sent' = Sent
<1>1. UNCHANGED <<tail, accepted, delivered>>
      BY DEF ring, history
<1>2. Len(delivered) \in Nat /\ Len(accepted) \in Nat
      BY DEF TypeOK, HistoryType
<1>3. /\ Sent' = Len(delivered') + Behind(a)'
      /\ PacketOf(a)' => PacketInv'
      BY AloneNext DEF Resting, Loading
<1>4. Behind(a)' = 0
      BY DEF Behind
<1>5. Sent = Len(delivered) + 0
      BY DEF Sent, OnTheWay, Resting, Contexts
<1>6. Sent' = Sent
      BY <1>1, <1>3, <1>4, <1>5
<1>7. Len(delivered) <= Len(accepted)
      BY <1>2 DEF Parts, DeliveredInv, Copied
<1>8. Copied(accepted, Len(delivered), epbuf', 0)
      BY <1>2, <1>7 DEF Copied
<1>9. PacketOf(a)'
      BY <1>1, <1>8 DEF PacketOf
<1>10. QED BY <1>3, <1>6, <1>9, StillKeeps DEF Parts

\* KickCopy copies the oldest byte of the ring behind the packet's others.
LEMMA CopyStep ==
  ASSUME TypeOK, ClaimInv, ~InReset, Parts, NEW a \in Contexts, KickCopy(a)
  PROVE  Parts' /\ Sent' = Sent
<1>1. pc[a] = "copy" /\ pc[a] \in Loading
  <2>1. At(a, "copy")
        BY DEF KickCopy
  <2>2. QED BY <2>1, AtLabel DEF Loading
<1>2. /\ UNCHANGED <<ring, fifo, txrdy, history, next>>
      /\ UNCHANGED <<head, tail, buf, accepted, delivered>>
      BY DEF KickCopy, endpoint, ring, history
<1>3. /\ ~txrdy /\ \A b \in Contexts : b # a => pc[b] \notin Loading
      /\ Sent = Len(delivered) + count[a]
      BY <1>1, Alone DEF Behind
<1>4. /\ Sent \in Nat /\ Len(delivered) \in Nat /\ accepted \in Seq(Nat)
      /\ count[a] \in 0..PktMax /\ PktMax \in Nat
      BY SizeAssumption, SentType DEF Parts, TypeOK, HistoryType, KickType
<1>5. Copied(accepted, Len(delivered), epbuf, count[a])
      BY <1>1 DEF Parts, PacketInv, PacketOf
<1>6. CASE head # tail /\ count[a] < PktMax
  <2>1. /\ epbuf' = [epbuf EXCEPT ![count[a] + 1] = buf[tail]]
        /\ count' = [count EXCEPT ![a] = count[a] + 1]
        /\ Goto(a, "advance")
        BY <1>6 DEF KickCopy
  <2>2. Sent + 1 <= Len(accepted) /\ buf[tail] = accepted[Sent + 1]
        BY <1>4, <1>6, RingFirst DEF Parts, RingInv
  <2>3. count'[a] = count[a] + 1 /\ count[a] + 1 \in 1..PktMax
        BY <1>4, <1>6, <2>1 DEF TypeOK, KickType
  <2>4. pc'[a] = "advance" /\ \A b \in Contexts : b # a => pc'[b] = pc[b]
        BY <2>1, Moves
  <2>5. Copied(accepted, Len(delivered), epbuf', count[a] + 1)
    <3>1. DOMAIN epbuf = 1..PktMax
          BY DEF TypeOK, RingType
    <3>2. ASSUME NEW i \in 1..(count[a] + 1)
          PROVE  epbuf'[i] = accepted[Len(delivered) + i]
      <4>1. CASE i = count[a] + 1
        <5>1. Len(delivered) + i = Sent + 1
              BY <1>3, <1>4, <4>1
        <5>2. QED BY <2>1, <2>2, <2>3, <3>1, <4>1, <5>1
      <4>2. CASE i # count[a] + 1
        <5>1. i \in 1..count[a] /\ i \in 1..PktMax
              BY <1>4, <4>2
        <5>2. QED BY <1>5, <2>1, <3>1, <4>2, <5>1 DEF Copied
      <4>3. QED BY <4>1, <4>2
    <3>3. Len(delivered) + (count[a] + 1) <= Len(accepted)
          BY <1>3, <1>4, <2>2
    <3>4. QED BY <3>2, <3>3 DEF Copied
  <2>6. PacketOf(a)'
        BY <1>2, <2>3, <2>4, <2>5 DEF PacketOf
  <2>7. Behind(a)' = count[a]
        BY <1>4, <2>3, <2>4 DEF Behind
  <2>8. PacketInv' /\ Sent' = Sent
        BY <1>2, <1>3, <2>4, <2>6, <2>7, AloneNext DEF Loading
  <2>9. QED BY <1>2, <2>8, StillKeeps DEF Parts
<1>7. CASE ~(head # tail /\ count[a] < PktMax)
  <2>1. Goto(a, "check") /\ UNCHANGED <<epbuf, count>>
        BY <1>7 DEF KickCopy
  <2>2. pc'[a] = "check" /\ \A b \in Contexts : b # a => pc'[b] = pc[b]
        BY <2>1, Moves
  <2>3. PacketOf(a)'
        BY <1>2, <1>5, <2>1, <2>2 DEF PacketOf
  <2>4. Behind(a)' = count[a]
        BY <2>1, <2>2 DEF Behind
  <2>5. PacketInv' /\ Sent' = Sent
        BY <1>2, <1>3, <2>2, <2>3, <2>4, AloneNext DEF Loading
  <2>6. QED BY <1>2, <2>5, StillKeeps DEF Parts
<1>8. QED BY <1>6, <1>7

\* KickAdvance computes the next tail, which no one else moves ...
LEMMA AdvanceStep ==
  ASSUME TypeOK, ClaimInv, ~InReset, Parts, NEW a \in Contexts, KickAdvance(a)
  PROVE  Parts' /\ Sent' = Sent
<1>1. /\ pc[a] = "advance" /\ pc[a] \in Loading /\ Goto(a, "store")
      /\ next' = [next EXCEPT ![a] = Inc(tail)]
  <2>1. At(a, "advance") /\ Goto(a, "store") /\ next' = [next EXCEPT ![a] = Inc(tail)]
        BY DEF KickAdvance
  <2>2. QED BY <2>1, AtLabel DEF Loading
<1>2. /\ UNCHANGED <<ring, fifo, txrdy, history, epbuf, count>>
      /\ UNCHANGED <<tail, accepted, delivered>>
      BY DEF KickAdvance, endpoint, ring, history
<1>3. /\ ~txrdy /\ \A b \in Contexts : b # a => pc[b] \notin Loading
      /\ Sent = Len(delivered) + (count[a] - 1)
      BY <1>1, Alone DEF Behind
<1>4. pc'[a] = "store" /\ \A b \in Contexts : b # a => pc'[b] = pc[b]
      BY <1>1, Moves
<1>5. next'[a] = Inc(tail)
      BY <1>1 DEF TypeOK, KickType
<1>6. PacketOf(a)
      BY DEF Parts, PacketInv
<1>7. PacketOf(a)'
      BY <1>1, <1>2, <1>4, <1>5, <1>6 DEF PacketOf, Inc
<1>8. Behind(a)' = count[a] - 1
      BY <1>2, <1>4 DEF Behind
<1>9. PacketInv' /\ Sent' = Sent
      BY <1>2, <1>3, <1>4, <1>7, <1>8, AloneNext DEF Loading
<1>10. QED BY <1>2, <1>9, StillKeeps DEF Parts

\* ... until KickStore moves tail past the byte that was copied.
LEMMA StoreStep ==
  ASSUME TypeOK, ClaimInv, ~InReset, Parts, NEW a \in Contexts, KickStore(a)
  PROVE  Parts' /\ Sent' = Sent + 1
<1>1. pc[a] = "store" /\ pc[a] \in Loading /\ Goto(a, "copy") /\ tail' = next[a]
  <2>1. At(a, "store") /\ Goto(a, "copy") /\ tail' = next[a]
        BY DEF KickStore
  <2>2. QED BY <2>1, AtLabel DEF Loading
<1>2. UNCHANGED <<head, buf, fifo, txrdy, accepted, delivered, epbuf, count>>
      BY DEF KickStore, endpoint, history
<1>3. /\ ~txrdy /\ \A b \in Contexts : b # a => pc[b] \notin Loading
      /\ Sent = Len(delivered) + (count[a] - 1)
      BY <1>1, Alone DEF Behind
<1>4. pc'[a] = "copy" /\ \A b \in Contexts : b # a => pc'[b] = pc[b]
      BY <1>1, Moves
<1>5. /\ Copied(accepted, Len(delivered), epbuf, count[a])
      /\ count[a] # 0 /\ next[a] = Inc(tail)
      BY <1>1 DEF Parts, PacketInv, PacketOf
<1>6. /\ Sent \in Nat /\ Len(delivered) \in Nat /\ accepted \in Seq(Nat)
      /\ count[a] \in Nat
      BY SizeAssumption, SentType DEF Parts, TypeOK, HistoryType, KickType
<1>7. PacketOf(a)'
      BY <1>2, <1>4, <1>5 DEF PacketOf
<1>8. Behind(a)' = count[a]
      BY <1>2, <1>4 DEF Behind
<1>9. PacketInv' /\ Sent' = Len(delivered) + count[a]
      BY <1>2, <1>3, <1>4, <1>7, <1>8, AloneNext DEF Loading
<1>10. Sent' = Sent + 1
      BY <1>3, <1>6, <1>9
<1>11. Sent + 1 <= Len(accepted)
      BY <1>3, <1>5, <1>6 DEF Copied
<1>12. RingHolds(accepted, Sent + 1, head, Inc(tail), buf)
      BY <1>6, <1>11, RingPops DEF Parts, RingInv
<1>13. RingInv'
      BY <1>1, <1>2, <1>5, <1>10, <1>12 DEF RingInv
<1>14. FifoInv' /\ DeliveredInv'
      BY <1>2 DEF Parts, FifoInv, DeliveredInv
<1>15. QED BY <1>9, <1>10, <1>13, <1>14 DEF Parts

\* A kick that returns has let go of the endpoint.
LEMMA ReturnRests ==
  ASSUME TypeOK, NEW a \in Contexts, Return(a)
  PROVE  pc'[a] \notin Loading /\ \A b \in Contexts : b # a => pc'[b] = pc[b]
<1>1. CASE a = "main"
  <2>1. Goto("main", "idle") \/ Goto("main", "head")
        BY <1>1 DEF Return, ChunkDone, EndCall
  <2>2. CASE Goto("main", "idle")
        BY <1>1, <2>2, Moves DEF Loading
  <2>3. CASE Goto("main", "head")
        BY <1>1, <2>3, Moves DEF Loading
  <2>4. QED BY <2>1, <2>2, <2>3
<1>2. CASE a = "isr"
  <2>1. Goto("isr", "ep0")
        BY <1>2 DEF Return
  <2>2. QED BY <1>2, <2>1, Moves DEF Loading
<1>3. QED BY <1>1, <1>2 DEF Contexts

\* KickCheck and KickMask: the packet is complete, or there is none.
LEMMA CheckStep ==
  ASSUME TypeOK, ClaimInv, ~InReset, Parts, NEW a \in Contexts, KickCheck(a)
  PROVE  Parts' /\ Sent' = Sent
<1>1. pc[a] = "check" /\ pc[a] \in Loading
  <2>1. At(a, "check")
        BY DEF KickCheck
  <2>2. QED BY <2>1, AtLabel DEF Loading
<1>2. /\ UNCHANGED <<ring, epbuf, fifo, txrdy, history, count, next>>
      /\ UNCHANGED <<tail, accepted, delivered>>
      BY DEF KickCheck, endpoint, ring, history, kickLocals
<1>3. /\ ~txrdy /\ \A b \in Contexts : b # a => pc[b] \notin Loading
      /\ Sent = Len(delivered) + count[a]
      BY <1>1, Alone DEF Behind
<1>4. CASE count[a] = 0
  <2>1. Return(a)
        BY <1>4 DEF KickCheck
  <2>2. Resting'
        BY <1>3, <2>1, ReturnRests DEF Resting
  <2>3. PacketInv'
        BY <2>2 DEF PacketInv, PacketOf, Resting
  <2>4. Sent' = Len(delivered) + 0
        BY <1>2, <1>3, <2>2 DEF Sent, OnTheWay, Resting, Contexts
  <2>5. QED BY <1>2, <1>3, <1>4, <2>3, <2>4, StillKeeps DEF Parts
<1>5. CASE count[a] # 0
  <2>1. Goto(a, "mask")
        BY <1>5 DEF KickCheck
  <2>2. pc'[a] = "mask" /\ \A b \in Contexts : b # a => pc'[b] = pc[b]
        BY <2>1, Moves
  <2>3. PacketOf(a)
        BY DEF Parts, PacketInv
  <2>4. PacketOf(a)'
        BY <1>1, <1>2, <1>5, <2>2, <2>3 DEF PacketOf
  <2>5. Behind(a)' = count[a]
        BY <1>2, <2>2 DEF Behind
  <2>6. PacketInv' /\ Sent' = Sent
        BY <1>2, <1>3, <2>2, <2>4, <2>5, AloneNext DEF Loading
  <2>7. QED BY <1>2, <2>6, StillKeeps DEF Parts
<1>6. QED BY <1>4, <1>5

\* ... and its bytes stay where they are.
LEMMA MaskStep ==
  ASSUME TypeOK, ClaimInv, ~InReset, Parts, NEW a \in Contexts, KickMask(a)
  PROVE  Parts' /\ Sent' = Sent
<1>1. pc[a] = "mask" /\ pc[a] \in Loading
  <2>1. At(a, "mask")
        BY DEF KickMask
  <2>2. QED BY <2>1, AtLabel DEF Loading
<1>2. /\ UNCHANGED <<ring, epbuf, fifo, txrdy, history, count, next>>
      /\ UNCHANGED <<tail, accepted, delivered>> /\ Goto(a, "dma")
      BY DEF KickMask, endpoint, ring, history
<1>3. /\ ~txrdy /\ \A b \in Contexts : b # a => pc[b] \notin Loading
      /\ Sent = Len(delivered) + count[a]
      BY <1>1, Alone DEF Behind
<1>4. pc'[a] = "dma" /\ \A b \in Contexts : b # a => pc'[b] = pc[b]
      BY <1>2, Moves
<1>5. PacketOf(a)
      BY DEF Parts, PacketInv
<1>6. PacketOf(a)'
      BY <1>1, <1>2, <1>4, <1>5 DEF PacketOf
<1>7. Behind(a)' = count[a]
      BY <1>2, <1>4 DEF Behind
<1>8. PacketInv' /\ Sent' = Sent
      BY <1>2, <1>3, <1>4, <1>6, <1>7, AloneNext DEF Loading
<1>9. QED BY <1>2, <1>8, StillKeeps DEF Parts

\* KickDma fills the FIFO, which is empty: nobody else's packet is in it.
LEMMA DmaStep ==
  ASSUME TypeOK, ClaimInv, ~InReset, Parts, NEW a \in Contexts, KickDma(a)
  PROVE  Parts' /\ Sent' = Sent
<1>1. pc[a] = "dma" /\ pc[a] \in Loading
  <2>1. At(a, "dma")
        BY DEF KickDma
  <2>2. QED BY <2>1, AtLabel DEF Loading
<1>2. /\ UNCHANGED <<head, tail, buf, epbuf, txrdy, accepted, delivered, count, next>>
      /\ Goto(a, "ready") /\ fifo' = [i \in 1..count[a] |-> epbuf[i]]
      BY DEF KickDma, ring, history, kickLocals
<1>3. /\ ~txrdy /\ \A b \in Contexts : b # a => pc[b] \notin Loading
      /\ Sent = Len(delivered) + count[a]
      BY <1>1, Alone DEF Behind
<1>4. pc'[a] = "ready" /\ \A b \in Contexts : b # a => pc'[b] = pc[b]
      BY <1>2, Moves
<1>5. PacketOf(a)
      BY DEF Parts, PacketInv
<1>6. PacketOf(a)'
      BY <1>1, <1>2, <1>4, <1>5 DEF PacketOf
<1>7. Behind(a)' = count[a]
      BY <1>2, <1>4 DEF Behind
<1>8. PacketInv' /\ Sent' = Sent
      BY <1>2, <1>3, <1>4, <1>6, <1>7, AloneNext DEF Loading
<1>9. RingInv' /\ DeliveredInv'
      BY <1>2, <1>8 DEF Parts, RingInv, DeliveredInv
<1>10. FifoInv'
      BY <1>2, <1>3 DEF FifoInv
<1>11. QED BY <1>8, <1>9, <1>10 DEF Parts

\* KickReady hands the packet to the host.
LEMMA ReadyStep ==
  ASSUME TypeOK, WindowInv, ClaimInv, ~InReset, Parts, NEW a \in Contexts, KickReady(a)
  PROVE  Parts' /\ Sent' = Sent
<1>1. pc[a] = "ready" /\ pc[a] \in Loading /\ pc[a] \in Masked
  <2>1. At(a, "ready")
        BY DEF KickReady
  <2>2. QED BY <2>1, AtLabel DEF Loading, Masked
<1>2. /\ UNCHANGED <<head, tail, buf, epbuf, fifo, accepted, delivered, count, next>>
      /\ Goto(a, "restore") /\ txrdy' = (txrdy \/ uindex = 1)
      BY DEF KickReady, ring, history, kickLocals
<1>3. /\ ~txrdy /\ \A b \in Contexts : b # a => pc[b] \notin Loading
      /\ Sent = Len(delivered) + count[a]
      BY <1>1, Alone DEF Behind
<1>4. uindex = 1
      BY <1>1 DEF WindowInv
<1>5. pc'[a] = "restore" /\ \A b \in Contexts : b # a => pc'[b] = pc[b]
      BY <1>2, Moves
<1>6. Resting' /\ txrdy'
      BY <1>2, <1>3, <1>4, <1>5 DEF Resting, Loading
<1>7. PacketInv'
      BY <1>6 DEF PacketInv, PacketOf, Resting
<1>8. /\ count[a] \in 1..PktMax /\ fifo = [i \in 1..count[a] |-> epbuf[i]]
      /\ Copied(accepted, Len(delivered), epbuf, count[a])
      BY <1>1 DEF Parts, PacketInv, PacketOf, TypeOK, KickType
<1>9. Len(fifo) = count[a]
      BY <1>8, SizeAssumption
<1>10. Sent' = Sent
      BY <1>2, <1>3, <1>6, <1>9 DEF Sent, OnTheWay
<1>11. Copied(accepted, Len(delivered), fifo, count[a])
      BY <1>8 DEF Copied
<1>12. FifoInv'
      BY <1>2, <1>8, <1>9, <1>11 DEF FifoInv
<1>13. RingInv' /\ DeliveredInv'
      BY <1>2, <1>10 DEF Parts, RingInv, DeliveredInv
<1>14. QED BY <1>7, <1>10, <1>12, <1>13 DEF Parts

\* A write fills its chunk behind head, where the kick does not look.
LEMMA FillStep ==
  ASSUME TypeOK, ~InReset, Parts, CallInv, RoomInv, Fill
  PROVE  /\ Parts' /\ Sent' = Sent
         /\ Stored(accepted, buf', chunk, written)
<1>1. /\ pc["main"] = "fill" /\ pc["isr"] = "off"
      /\ UNCHANGED <<head, tail, epbuf, fifo, txrdy, accepted, delivered>>
      /\ buf' = Filled(buf, slot, chunk, written)
      /\ Goto("main", "next") \/ Goto("main", "publish")
      BY DEF Fill, Filled, MainAt, endpoint, history
<1>2. slot = head /\ HasRoom(accepted, Sent, chunk)
      BY <1>1 DEF RoomInv
<1>3. Sent \in Nat /\ accepted \in Seq(Nat) /\ chunk \in Nat /\ written \in Nat
      BY SentType, IndexIsNat DEF Parts, TypeOK, HistoryType, WriteType
<1>4. /\ RingHolds(accepted, Sent, head, tail, buf')
      /\ Stored(accepted, buf', chunk, written)
  <2>1. RingHolds(accepted, Sent, head, tail, buf)
        BY DEF Parts, RingInv
  <2>2. buf' = Filled(buf, head, chunk, written)
        BY <1>1, <1>2
  <2>3. /\ RingHolds(accepted, Sent, head, tail, Filled(buf, head, chunk, written))
        /\ Stored(accepted, Filled(buf, head, chunk, written), chunk, written)
        BY <1>2, <1>3, <2>1, RingFilled
  <2>4. QED BY <2>2, <2>3
<1>5. Resting /\ Resting'
  <2>1. CASE Goto("main", "next")
        BY <1>1, <2>1, Moves DEF Resting, Contexts, Loading
  <2>2. CASE Goto("main", "publish")
        BY <1>1, <2>2, Moves DEF Resting, Contexts, Loading
  <2>3. QED BY <1>1, <2>1, <2>2
<1>6. Sent' = Sent
      BY <1>1, <1>5 DEF Sent, OnTheWay, Resting, Contexts
<1>7. PacketInv'
      BY <1>5 DEF PacketInv, PacketOf, Resting
<1>8. FifoInv' /\ DeliveredInv'
      BY <1>1 DEF Parts, FifoInv, DeliveredInv
<1>9. RingInv'
      BY <1>1, <1>4, <1>6 DEF RingInv
<1>10. QED BY <1>4, <1>6, <1>7, <1>8, <1>9 DEF Parts

\* A write moves head past its chunk: the stream accepts the bytes.
LEMMA PublishStep ==
  ASSUME TypeOK, ChunkInv, ~InReset, Parts, RoomInv, Publish
  PROVE  Parts' /\ Sent' = Sent /\ Stream!Accept
<1> DEFINE q == [i \in 1..chunk |-> (written - chunk) + i]
           all == accepted \o q
<1>1. /\ pc["main"] = "publish" /\ pc["isr"] = "off" /\ Goto("main", "test")
      /\ UNCHANGED <<tail, buf, epbuf, fifo, txrdy, delivered>>
      /\ head' = slot /\ accepted' = all
      BY DEF Publish, MainAt, endpoint
<1>2. /\ chunk >= 1 /\ HasRoom(accepted, Sent, chunk)
      /\ Stored(accepted, buf, chunk, written - chunk)
      /\ slot = (Len(accepted) + chunk) % TxSize
      BY <1>1 DEF RoomInv
<1>3. /\ Sent \in Nat /\ accepted \in Seq(Nat) /\ chunk \in Nat /\ written \in Nat
      /\ Len(delivered) \in Nat /\ Sent <= Len(delivered) + PktMax /\ delivered \in Seq(Nat)
      BY SentType, IndexIsNat DEF Parts, TypeOK, HistoryType, WriteType
<1>4. written - chunk \in Nat
      BY <1>1, <1>3 DEF ChunkInv
<1>5. q \in Seq(Nat) /\ Len(q) = chunk
  <2>1. \A i \in 1..chunk : (written - chunk) + i \in Nat
        BY <1>3, <1>4
  <2>2. QED BY <1>3, <2>1
<1>6. RingHolds(all, Sent, slot, tail, buf)
  <2>1. RingHolds(accepted, Sent, head, tail, buf)
        BY DEF Parts, RingInv
  <2>2. RingHolds(accepted \o q, Sent, (Len(accepted) + chunk) % TxSize, tail, buf)
        BY <1>2, <1>3, <1>4, <2>1, RingPushes
  <2>3. QED BY <1>2, <2>2
<1>7. Resting /\ Resting'
      BY <1>1, Moves DEF Resting, Contexts, Loading
<1>8. Sent' = Sent
      BY <1>1, <1>7 DEF Sent, OnTheWay, Resting, Contexts
<1>9. RingInv'
      BY <1>1, <1>6, <1>8 DEF RingInv
<1>10. PacketInv'
      BY <1>7 DEF PacketInv, PacketOf, Resting
<1> HIDE DEF q
<1>11. FifoInv'
  <2>1. CASE txrdy
    <3>1. /\ Len(fifo) \in 1..PktMax /\ Len(fifo) \in Nat
          /\ Copied(accepted, Len(delivered), fifo, Len(fifo))
          BY <2>1 DEF Parts, FifoInv, TypeOK, HardwareType
    <3>2. Copied(all, Len(delivered), fifo, Len(fifo))
          BY <1>3, <1>5, <3>1, CopiedStays
    <3>3. QED BY <1>1, <3>1, <3>2 DEF FifoInv
  <2>2. CASE ~txrdy
        BY <1>1, <2>2 DEF FifoInv
  <2>3. QED BY <2>1, <2>2
<1>12. DeliveredInv'
  <2>1. Copied(accepted, 0, delivered, Len(delivered))
        BY DEF Parts, DeliveredInv
  <2>2. 0 \in Nat
        OBVIOUS
  <2>3. Copied(all, 0, delivered, Len(delivered))
        BY <1>3, <1>5, <2>1, <2>2, CopiedStays
  <2>4. QED BY <1>1, <2>3 DEF DeliveredInv
<1>13. Stream!Accept
  <2>0. Len(accepted \o q) = Len(accepted) + Len(q) /\ Len(accepted) \in Nat
    <3>1. accepted \in Seq(Nat) /\ q \in Seq(Nat)
          BY <1>3, <1>5
    <3> HIDE DEF all
    <3>2. QED BY <3>1, ConcatProperties
  <2>1. Len(all) = Len(accepted) + chunk
        BY <1>5, <2>0
  <2>2. SubSeq(all, 1, Len(accepted)) = accepted
        BY <1>3, <1>5, Prefix
  <2>3. Len(all) - Len(delivered) <= TxSize - 1 + PktMax
        BY <1>2, <1>3, <2>0, <2>1, SizeAssumption DEF HasRoom
  <2>4. Len(all) > Len(accepted)
        BY <1>2, <1>3, <2>0, <2>1
  <2> HIDE DEF all
  <2>5. Len(accepted') > Len(accepted) /\ SubSeq(accepted', 1, Len(accepted)) = accepted
        BY <1>1, <2>2, <2>4
  <2>6. Len(accepted') - Len(delivered) <= TxSize - 1 + PktMax
        BY <1>1, <2>3
  <2>7. QED BY <1>1, <2>5, <2>6 DEF Stream!Accept
<1>14. QED BY <1>8, <1>9, <1>10, <1>11, <1>12, <1>13 DEF Parts

\* The host takes the packet: it is the oldest bytes it has not seen.
LEMMA HostInStep ==
  ASSUME TypeOK, ClaimInv, ~InReset, Parts, HostIn
  PROVE  Parts' /\ Sent' = Sent /\ Stream!Deliver
<1> DEFINE all == delivered \o fifo
<1>1. /\ txrdy /\ ~txrdy' /\ delivered' = all
      /\ UNCHANGED <<head, tail, buf, epbuf, pc, accepted>>
      BY DEF HostIn, ring
<1>2. Resting /\ Resting'
      BY <1>1 DEF ClaimInv, Resting
<1>3. /\ Len(fifo) \in 1..PktMax
      /\ Copied(accepted, Len(delivered), fifo, Len(fifo))
      /\ Copied(accepted, 0, delivered, Len(delivered))
      BY <1>1 DEF Parts, FifoInv, DeliveredInv
<1>4. fifo \in Seq(Nat) /\ delivered \in Seq(Nat) /\ accepted \in Seq(Nat)
      BY DEF TypeOK, HardwareType, HistoryType
<1>5. /\ all \in Seq(Nat) /\ Len(all) = Len(delivered) + Len(fifo)
      /\ Len(delivered) \in Nat /\ Len(fifo) \in Nat /\ Len(accepted) \in Nat
      /\ \A i \in 1..Len(all) :
           all[i] = IF i <= Len(delivered) THEN delivered[i] ELSE fifo[i - Len(delivered)]
      BY <1>4
<1> HIDE DEF all
<1>6. Sent = Len(all)
      BY <1>1, <1>5 DEF Sent, OnTheWay
<1>7. Sent' = Sent
  <2>1. Sent' = Len(all) + 0
        BY <1>1, <1>2 DEF Sent, OnTheWay, Resting, Contexts
  <2>2. QED BY <1>5, <1>6, <2>1
<1>8. Len(all) <= Len(accepted)
      BY <1>3, <1>5 DEF Copied
<1>9. ASSUME NEW i \in 1..Len(all) PROVE all[i] = accepted[i]
  <2>1. CASE i <= Len(delivered)
    <3>1. i \in 1..Len(delivered) /\ 0 + i = i
          BY <1>5, <2>1
    <3>2. delivered[i] = accepted[0 + i]
          BY <1>3, <3>1 DEF Copied
    <3>3. QED BY <1>5, <2>1, <3>1, <3>2
  <2>2. CASE ~(i <= Len(delivered))
    <3>1. i - Len(delivered) \in 1..Len(fifo) /\ Len(delivered) + (i - Len(delivered)) = i
          BY <1>5, <2>2
    <3>2. fifo[i - Len(delivered)] = accepted[Len(delivered) + (i - Len(delivered))]
          BY <1>3, <3>1 DEF Copied
    <3>3. QED BY <1>5, <2>2, <3>1, <3>2
  <2>3. QED BY <2>1, <2>2
<1>10. DeliveredInv'
  <2>1. \A i \in 1..Len(all) : 0 + i = i
        BY <1>5
  <2>2. 0 + Len(all) <= Len(accepted)
        BY <1>5, <1>8
  <2>3. Copied(accepted, 0, all, Len(all))
        BY <1>9, <2>1, <2>2 DEF Copied
  <2>4. QED BY <1>1, <2>3 DEF DeliveredInv
<1>11. RingInv'
      BY <1>1, <1>7 DEF Parts, RingInv
<1>12. PacketInv' /\ FifoInv'
      BY <1>1, <1>2 DEF PacketInv, PacketOf, FifoInv, Resting
<1>13. Stream!Deliver
  <2>1. SubSeq(accepted, 1, Len(all)) = all
        BY <1>4, <1>5, <1>8, <1>9, Beginning
  <2>2. Len(delivered) + Len(fifo) <= Len(accepted) /\ UNCHANGED accepted
        BY <1>1, <1>5, <1>8
  <2>3. delivered' = SubSeq(accepted, 1, Len(delivered) + Len(fifo))
        BY <1>1, <1>5, <2>1
  <2>4. QED BY <1>3, <2>2, <2>3 DEF Stream!Deliver
<1>14. QED BY <1>7, <1>10, <1>11, <1>12, <1>13 DEF Parts

\* The bus reset empties everything.
LEMMA ResetStep ==
  ASSUME TypeOK, SeenInv, QuietInv, IsrReset
  PROVE  Parts' /\ Stream!Reset
<1>1. /\ pc["isr"] = "reset" /\ Goto("isr", "leave") /\ UNCHANGED <<buf, txrdy>>
      /\ head' = 0 /\ tail' = 0 /\ accepted' = <<>> /\ delivered' = <<>>
      BY DEF IsrReset, endpoint
<1>2. pc["main"] = "idle" /\ ~txrdy
      BY <1>1 DEF SeenInv, QuietInv, InReset
<1>3. Resting'
      BY <1>1, <1>2, Moves DEF Resting, Contexts, Loading
<1>4. Len(<<>>) = 0
      OBVIOUS
<1>5. Sent' = 0
      BY <1>1, <1>2, <1>3, <1>4 DEF Sent, OnTheWay, Resting, Contexts
<1>6. 0 % TxSize = 0 /\ 0 < 0 + TxSize
      BY SizeFact
<1>7. RingInv'
      BY <1>1, <1>4, <1>5, <1>6 DEF RingInv, RingHolds
<1>8. PacketInv' /\ FifoInv'
      BY <1>1, <1>2, <1>3 DEF PacketInv, PacketOf, FifoInv, Resting
<1>9. DeliveredInv'
      BY <1>1, <1>4 DEF DeliveredInv, Copied
<1>10. QED BY <1>1, <1>7, <1>8, <1>9 DEF Parts, Stream!Reset

-----------------------------------------------------------------------------
(* Room for the write.                                                     *)

\* Only from the test for room to the store of head does a write rely on it.
LEMMA RoomNotNeeded ==
  ASSUME pc'["main"] \notin {"space", "slot", "fill", "next", "publish"}
  PROVE  RoomInv'
BY DEF RoomInv

\* While the write stands still the room does not shrink: the others only
\* take bytes out of the ring.
LEMMA RoomKeeps ==
  ASSUME TypeOK, Parts, RoomInv, UNCHANGED <<head, buf, accepted, written, slot, chunk>>,
         pc'["main"] = pc["main"], Sent' \in {Sent, Sent + 1}
  PROVE  RoomInv'
<1>1. Sent \in Nat /\ Len(accepted) \in Nat /\ chunk \in Nat /\ TxSize \in Nat
      BY SentType, SizeFact, IndexIsNat DEF Parts, TypeOK, HistoryType, WriteType
<1>2. HasRoom(accepted, Sent, chunk) => HasRoom(accepted, Sent', chunk)
      BY <1>1 DEF HasRoom
<1>3. pc["main"] \in {"slot", "fill", "next", "publish"} =>
        chunk' >= 1 /\ HasRoom(accepted, Sent', chunk)
      BY <1>2 DEF RoomInv
<1>4. pc["main"] \in {"next", "publish"} => Stored(accepted, buf, chunk, written - chunk)
      BY DEF RoomInv
<1>5. /\ pc["main"] \in {"space", "fill"} => slot' = head'
      /\ pc["main"] = "publish" => slot' = (Len(accepted') + chunk') % TxSize
      BY DEF RoomInv
<1>6. QED BY <1>3, <1>4, <1>5 DEF RoomInv

\* The test for room finds no more than there is ...
LEMMA RoomFound ==
  ASSUME TypeOK, Parts, CallInv, RoomInv, TestSpace, Sent' = Sent
  PROVE  RoomInv'
<1>1. pc["main"] = "space" /\ UNCHANGED <<head, accepted>>
      BY DEF TestSpace, MainAt, ring, history
<1>2. /\ Sent \in Nat /\ accepted \in Seq(Nat) /\ Len(accepted) \in Nat
      /\ TxSize \in Nat /\ todo \in Nat /\ todo >= 1
      BY <1>1, SentType, SizeFact DEF Parts, TypeOK, HistoryType, WriteType, CallInv
<1>3. slot = head /\ FreeFrom(slot) = Sent + TxSize - 1 - Len(accepted)
  <2>1. slot = head
        BY <1>1 DEF RoomInv
  <2>2. RingHolds(accepted, Sent, head, tail, buf)
        BY DEF Parts, RingInv
  <2>3. (tail - head - 1) % TxSize = Sent + TxSize - 1 - Len(accepted)
        BY <1>2, <2>2, RingRoom
  <2>4. QED BY <2>1, <2>3 DEF FreeFrom
<1>4. CASE FreeFrom(slot) > 0
  <2>1. /\ chunk' = Lesser(todo, FreeFrom(slot)) /\ slot' = slot
        /\ Goto("main", "slot") \/ Goto("main", "fill")
        BY <1>2, <1>3, <1>4 DEF TestSpace
  <2>2. pc'["main"] \in {"slot", "fill"}
        BY <2>1, Moves DEF Contexts
  <2>3. chunk' >= 1 /\ chunk' <= FreeFrom(slot) /\ chunk' \in Nat
        BY <1>2, <1>3, <1>4, <2>1 DEF Lesser
  <2>4. HasRoom(accepted, Sent, chunk')
        BY <1>2, <1>3, <2>3 DEF HasRoom
  <2>5. QED BY <1>1, <1>3, <2>1, <2>2, <2>3, <2>4 DEF RoomInv
<1>5. CASE ~(FreeFrom(slot) > 0)
  <2>1. Goto("main", "idle") \/ Goto("main", "head")
        BY <1>5 DEF TestSpace, WaitTurn, EndCall
  <2>2. pc'["main"] \in {"idle", "head"}
        BY <2>1, Moves DEF Contexts
  <2>3. QED BY <2>2, RoomNotNeeded
<1>6. QED BY <1>4, <1>5

\* ... bt_cdc_write_char's second load of head finds the same one ...
LEMMA RoomLoaded ==
  ASSUME TypeOK, RoomInv, LoadHead, Sent' = Sent
  PROVE  RoomInv'
<1>1. UNCHANGED <<head, buf, accepted, written, chunk>> /\ slot' = head
      BY DEF LoadHead, ring, history
<1>2. CASE pc["main"] = "head" /\ Goto("main", "space")
  <2>1. pc'["main"] = "space"
        BY <1>2, Moves DEF Contexts
  <2>2. QED BY <1>1, <2>1 DEF RoomInv
<1>3. CASE pc["main"] = "slot" /\ Goto("main", "fill")
  <2>1. pc'["main"] = "fill"
        BY <1>3, Moves DEF Contexts
  <2>2. chunk >= 1 /\ HasRoom(accepted, Sent, chunk)
        BY <1>3 DEF RoomInv
  <2>3. QED BY <1>1, <2>1, <2>2 DEF RoomInv
<1>4. QED BY <1>2, <1>3 DEF LoadHead, MainAt

\* ... the chunk is put behind it ...
LEMMA RoomUsed ==
  ASSUME TypeOK, ~InReset, Parts, CallInv, RoomInv, Fill
  PROVE  RoomInv'
<1>1. /\ pc["main"] = "fill" /\ UNCHANGED <<head, accepted, chunk>>
      /\ written' = written + chunk
      /\ IF single THEN Goto("main", "next")
                   ELSE Goto("main", "publish") /\ slot' = (slot + chunk) % TxSize
  <2>1. single \in BOOLEAN
        BY DEF TypeOK, FlagType
  <2>2. QED BY <2>1 DEF Fill, MainAt, history
<1>2. Sent' = Sent /\ Stored(accepted, buf', chunk, written)
      BY FillStep
<1>3. chunk \in Nat /\ written \in Nat /\ Len(accepted) \in Nat
      BY IndexIsNat DEF TypeOK, HistoryType, WriteType
<1>4. written' - chunk' = written
      BY <1>1, <1>3
<1>5. chunk >= 1 /\ HasRoom(accepted, Sent, chunk) /\ slot = head
      BY <1>1 DEF RoomInv
<1>6. CASE single
  <2>1. pc'["main"] = "next"
        BY <1>1, <1>6, Moves DEF Contexts
  <2>2. QED BY <1>1, <1>2, <1>4, <1>5, <2>1 DEF RoomInv
<1>7. CASE ~single
  <2>1. pc'["main"] = "publish" /\ slot' = (slot + chunk) % TxSize
        BY <1>1, <1>7, Moves DEF Contexts
  <2>2. ((Len(accepted) % TxSize) + chunk) % TxSize = (Len(accepted) + chunk) % TxSize
    <3>1. Len(accepted) \in Int /\ chunk \in Int
          BY <1>3
    <3>2. QED BY <3>1, SizeFact, ModAdds
  <2>3. head = Len(accepted) % TxSize
        BY DEF Parts, RingInv, RingHolds
  <2>4. slot' = (Len(accepted) + chunk) % TxSize
        BY <1>5, <2>1, <2>2, <2>3
  <2>5. QED BY <1>1, <1>2, <1>4, <1>5, <2>1, <2>4 DEF RoomInv
<1>8. QED BY <1>6, <1>7

\* ... and its third load gives the place after the byte.
LEMMA RoomNext ==
  ASSUME TypeOK, Parts, CallInv, RoomInv, NextHead, Sent' = Sent
  PROVE  RoomInv'
<1>1. /\ pc["main"] = "next" /\ UNCHANGED <<buf, accepted, chunk, written>>
      /\ Goto("main", "publish") /\ slot' = Inc(head)
      BY DEF NextHead, MainAt, ring, history
<1>2. pc'["main"] = "publish"
      BY <1>1, Moves DEF Contexts
<1>3. chunk = 1
      BY <1>1 DEF CallInv
<1>4. /\ chunk >= 1 /\ HasRoom(accepted, Sent, chunk)
      /\ Stored(accepted, buf, chunk, written - chunk)
      BY <1>1 DEF RoomInv
<1>5. Inc(head) = (Len(accepted) + 1) % TxSize
  <2>1. Len(accepted) \in Int /\ 1 \in Int
        BY DEF TypeOK, HistoryType
  <2>2. ((Len(accepted) % TxSize) + 1) % TxSize = (Len(accepted) + 1) % TxSize
        BY <2>1, SizeFact, ModAdds
  <2>3. head = Len(accepted) % TxSize
        BY DEF Parts, RingInv, RingHolds
  <2>4. QED BY <2>2, <2>3 DEF Inc
<1>6. slot' = (Len(accepted') + chunk') % TxSize
      BY <1>1, <1>3, <1>5
<1>7. QED BY <1>1, <1>2, <1>4, <1>6 DEF RoomInv

-----------------------------------------------------------------------------
(* The stream, step by step.                                               *)

\* What a step does to the stream: it keeps it, or it is one of its steps.
StreamGoes == StreamInv' /\ RoomInv' /\ [Stream!Next]_(Stream!vars)

\* Neither context runs the transmit code under a reset that is not inside
\* a write.
LEMMA RunsOutsideReset ==
  ASSUME ControlInv, QuietInv
  PROVE  /\ \A l : MainAt(l) => ~InReset
         /\ \A a \in Contexts : pc[a] \in KickLabels => ~InReset
<1>1. ASSUME NEW l, MainAt(l) PROVE ~InReset
  <2>1. pc["main"] = l /\ pc["isr"] = "off" /\ ~(picen /\ flags # {})
        BY <1>1 DEF MainAt
  <2>2. seen = {}
        BY <2>1 DEF ControlInv, SeenInv
  <2>3. CASE l = "idle"
    <3>1. picen
          BY <2>1, <2>3 DEF ControlInv, WindowInv, Contexts, Masked
    <3>2. QED BY <2>1, <2>2, <3>1 DEF InReset
  <2>4. CASE l # "idle"
        BY <2>1, <2>4 DEF QuietInv
  <2>5. QED BY <2>3, <2>4
<1>2. ASSUME NEW a \in Contexts, pc[a] \in KickLabels PROVE ~InReset
      BY <1>2 DEF QuietInv, Contexts, KickLabels, Loading, Masked
<1>3. QED BY <1>1, <1>2

\* A write call outside the ring, the endpoint and the FIFO.
LEMMA CallerStep ==
  ASSUME IInv, TestSpace \/ LoadHead \/ NextHead \/ TestBusy \/ \E n, s : Call(n, s)
  PROVE  StreamGoes
<1>1. ~InReset /\ Parts /\ TypeOK
  <2>1. \E l : MainAt(l)
        BY DEF TestSpace, LoadHead, NextHead, TestBusy, Call
  <2>2. QED BY <2>1, RunsOutsideReset DEF IInv, ControlInv, StreamInv
<1>2. /\ UNCHANGED <<ring, epbuf, fifo, txrdy, history, count, next>>
      BY DEF TestSpace, LoadHead, NextHead, TestBusy, Call, endpoint, kickLocals
<1>3. pc["main"] \in {"idle", "head", "space", "slot", "next", "test"}
      BY DEF TestSpace, LoadHead, NextHead, TestBusy, Call, MainAt
<1>4. PICK l \in {"idle", "head", "space", "slot", "fill", "publish", "claim"} :
        Goto("main", l)
  <2>1. CASE TestSpace
    <3>1. \/ Goto("main", "idle") \/ Goto("main", "head")
          \/ Goto("main", IF single THEN "slot" ELSE "fill")
          BY <2>1 DEF TestSpace, WaitTurn, EndCall
    <3>2. QED BY <3>1
  <2>2. CASE TestBusy
        BY <2>2 DEF TestBusy, ChunkDone, EndCall
  <2>3. QED BY <2>1, <2>2 DEF LoadHead, NextHead, Call
<1>5. pc'["main"] = l /\ pc'["isr"] = pc["isr"]
      BY <1>1, <1>4, Moves DEF Contexts
<1>6. Parts' /\ Sent' = Sent
  <2>1. \A a \in Contexts :
          \/ pc'[a] = pc[a] /\ count'[a] = count[a] /\ next'[a] = next[a]
          \/ pc[a] \notin Loading /\ pc'[a] \notin Loading
        BY <1>2, <1>3, <1>4, <1>5 DEF Contexts, Loading
  <2>2. QED BY <1>1, <1>2, <2>1, OutsideKeeps
<1>7. RoomInv'
  <2>1. CASE TestSpace
        BY <1>1, <1>6, <2>1, RoomFound DEF IInv
  <2>2. CASE LoadHead
        BY <1>1, <1>6, <2>2, RoomLoaded DEF IInv
  <2>3. CASE NextHead
        BY <1>1, <1>6, <2>3, RoomNext DEF IInv
  <2>4. CASE TestBusy \/ \E n, s : Call(n, s)
    <3>1. Goto("main", "idle") \/ Goto("main", "head") \/ Goto("main", "claim")
          BY <2>4 DEF TestBusy, Call, ChunkDone, EndCall
    <3>2. pc'["main"] \in {"idle", "head", "claim"}
          BY <1>1, <3>1, Moves DEF Contexts
    <3>3. QED BY <3>2, RoomNotNeeded
  <2>5. QED BY <2>1, <2>2, <2>3, <2>4
<1>8. UNCHANGED Stream!vars
      BY <1>2 DEF history, Stream!vars
<1>9. QED BY <1>6, <1>7, <1>8 DEF StreamGoes, StreamInv

\* A write call at the ring and at the endpoint.
LEMMA WriterStep ==
  ASSUME IInv, Fill \/ Publish \/ Claim
  PROVE  StreamGoes
<1>1. ~InReset /\ Parts /\ TypeOK /\ ChunkInv /\ CallInv /\ RoomInv /\ ClaimInv
  <2>1. \E l : MainAt(l)
        BY DEF Fill, Publish, Claim
  <2>2. QED BY <2>1, RunsOutsideReset DEF IInv, ControlInv, StreamInv
<1>2. CASE Fill
  <2>1. Parts' /\ RoomInv'
        BY <1>1, <1>2, FillStep, RoomUsed
  <2>2. UNCHANGED Stream!vars
        BY <1>2 DEF Fill, history, Stream!vars
  <2>3. QED BY <2>1, <2>2 DEF StreamGoes, StreamInv
<1>3. CASE Publish
  <2>1. Parts' /\ Stream!Accept
        BY <1>1, <1>3, PublishStep
  <2>2. Goto("main", "test")
        BY <1>3 DEF Publish
  <2>3. pc'["main"] = "test"
        BY <1>1, <2>2, Moves DEF Contexts
  <2>4. RoomInv'
        BY <2>3, RoomNotNeeded
  <2>5. QED BY <2>1, <2>4 DEF StreamGoes, StreamInv, Stream!Next
<1>4. CASE Claim
  <2>1. /\ pc["main"] = "claim" /\ pc["isr"] = "off" /\ Goto("main", "copy")
        /\ count' = [count EXCEPT !["main"] = 0]
        /\ UNCHANGED <<ring, fifo, txrdy, history>>
        BY <1>4 DEF Claim, MainAt, endpoint
  <2>2. ~txrdy /\ Resting
        BY <1>1, <2>1 DEF ClaimInv, Owned, Resting
  <2>3. pc'["main"] = "copy" /\ \A b \in Contexts : b # "main" => pc'[b] = pc[b]
        BY <1>1, <2>1, Moves DEF Contexts
  <2>4. count'["main"] = 0
        BY <1>1, <2>1 DEF TypeOK, KickType, Contexts
  <2>5. "main" \in Contexts
        BY DEF Contexts
  <2>6. Parts'
        BY <1>1, <2>1, <2>2, <2>3, <2>4, <2>5, KickBegins
  <2>7. RoomInv'
        BY <2>3, RoomNotNeeded
  <2>8. UNCHANGED Stream!vars
        BY <2>1 DEF history, Stream!vars
  <2>9. QED BY <2>6, <2>7, <2>8 DEF StreamGoes, StreamInv
<1>5. QED BY <1>2, <1>3, <1>4

\* Where a step of the kick leaves the write call.
LEMMA KickLeaves ==
  ASSUME TypeOK, NEW a \in Contexts, Kick(a)
  PROVE  /\ pc[a] \in KickLabels /\ UNCHANGED <<head, buf, accepted, delivered, written>>
         /\ a = "main" => pc'["main"] \in KickLabels \cup {"idle", "head"}
         /\ a # "main" => pc'["main"] = pc["main"] /\ UNCHANGED <<slot, chunk>>
<1>1. /\ UNCHANGED <<head, buf, accepted, delivered, written>>
      /\ \E l \in KickLabels : At(a, l)
      BY DEF Kick, KickCopy, KickAdvance, KickStore, KickCheck, KickMask, KickDma,
             KickReady, KickRestore, ring, history, KickLabels, Loading, Masked
<1>2. \/ Return(a)
      \/ (\E l \in KickLabels : Goto(a, l)) /\ UNCHANGED writeLocals
      BY DEF Kick, KickCopy, KickAdvance, KickStore, KickCheck, KickMask, KickDma,
             KickReady, KickRestore, KickLabels, Loading, Masked
<1>3. pc[a] \in KickLabels
      BY <1>1, AtLabel
<1>4. CASE Return(a)
  <2>1. CASE a = "main"
    <3>1. Goto("main", "idle") \/ Goto("main", "head")
          BY <1>4, <2>1 DEF Return, ChunkDone, EndCall
    <3>2. pc'["main"] \in {"idle", "head"}
          BY <3>1, Moves DEF Contexts
    <3>3. QED BY <1>1, <1>3, <2>1, <3>2
  <2>2. CASE a # "main"
    <3>1. pc'["main"] = pc["main"]
          BY <1>4, <2>2, ReturnRests DEF Contexts
    <3>2. UNCHANGED <<slot, chunk>>
          BY <1>4, <2>2 DEF Return, writeLocals
    <3>3. QED BY <1>1, <1>3, <2>2, <3>1, <3>2
  <2>3. QED BY <2>1, <2>2
<1>5. CASE (\E l \in KickLabels : Goto(a, l)) /\ UNCHANGED writeLocals
  <2>1. PICK l \in KickLabels : Goto(a, l)
        BY <1>5
  <2>2. pc'[a] = l /\ \A b \in Contexts : b # a => pc'[b] = pc[b]
        BY <2>1, Moves
  <2>3. UNCHANGED <<slot, chunk>>
        BY <1>5 DEF writeLocals
  <2>4. QED BY <1>1, <1>3, <2>2, <2>3 DEF Contexts
<1>6. QED BY <1>2, <1>4, <1>5

\* bt_usb_ep1_kick, in either context.
LEMMA KickStep ==
  ASSUME IInv, NEW a \in Contexts, Kick(a)
  PROVE  StreamGoes
<1>1. TypeOK /\ WindowInv /\ ClaimInv /\ RoomInv
      BY DEF IInv, ControlInv
<1>2. /\ pc[a] \in KickLabels /\ UNCHANGED <<head, buf, accepted, delivered, written>>
      /\ a = "main" => pc'["main"] \in KickLabels \cup {"idle", "head"}
      /\ a # "main" => pc'["main"] = pc["main"] /\ UNCHANGED <<slot, chunk>>
      BY <1>1, KickLeaves
<1>3. ~InReset /\ Parts
      BY <1>2, RunsOutsideReset DEF IInv, StreamInv
<1>4. ASSUME KickRestore(a) PROVE Parts' /\ Sent' = Sent
  <2>1. /\ pc[a] = "restore" /\ Return(a)
        /\ UNCHANGED <<ring, epbuf, fifo, txrdy, history, count, next>>
    <3>1. At(a, "restore") /\ Return(a) /\ UNCHANGED <<ring, epbuf, endpoint, kickLocals, history>>
          BY <1>4 DEF KickRestore
    <3>2. QED BY <3>1, AtLabel DEF endpoint, kickLocals
  <2>2. pc'[a] \notin Loading /\ \A b \in Contexts : b # a => pc'[b] = pc[b]
        BY <1>1, <2>1, ReturnRests
  <2>3. \A b \in Contexts :
          \/ pc'[b] = pc[b] /\ count'[b] = count[b] /\ next'[b] = next[b]
          \/ pc[b] \notin Loading /\ pc'[b] \notin Loading
        BY <2>1, <2>2 DEF Loading
  <2>4. QED BY <1>3, <2>1, <2>3, OutsideKeeps
<1>5. Parts' /\ Sent' \in {Sent, Sent + 1}
  <2>1. CASE KickCopy(a)
        BY <1>1, <1>3, <2>1, CopyStep
  <2>2. CASE KickAdvance(a)
        BY <1>1, <1>3, <2>2, AdvanceStep
  <2>3. CASE KickStore(a)
        BY <1>1, <1>3, <2>3, StoreStep
  <2>4. CASE KickCheck(a)
        BY <1>1, <1>3, <2>4, CheckStep
  <2>5. CASE KickMask(a)
        BY <1>1, <1>3, <2>5, MaskStep
  <2>6. CASE KickDma(a)
        BY <1>1, <1>3, <2>6, DmaStep
  <2>7. CASE KickReady(a)
        BY <1>1, <1>3, <2>7, ReadyStep
  <2>8. QED BY <1>4, <2>1, <2>2, <2>3, <2>4, <2>5, <2>6, <2>7 DEF Kick
<1>6. RoomInv'
  <2>1. CASE a = "main"
        BY <1>2, <2>1, RoomNotNeeded DEF KickLabels, Loading, Masked
  <2>2. CASE a # "main"
        BY <1>1, <1>2, <1>3, <1>5, <2>2, RoomKeeps
  <2>3. QED BY <2>1, <2>2
<1>7. UNCHANGED Stream!vars
      BY <1>2 DEF Stream!vars
<1>8. QED BY <1>5, <1>6, <1>7 DEF StreamGoes, StreamInv

\* bt_usb_isr, but for the kick.
LEMMA HandlerStep ==
  ASSUME IInv, IsrEnter \/ IsrReset \/ IsrBranches
  PROVE  StreamGoes
<1>1. TypeOK /\ SeenInv /\ QuietInv /\ ClaimInv /\ RoomInv
      BY DEF IInv, ControlInv
<1>2. CASE IsrReset
  <2>1. Parts' /\ Stream!Reset
        BY <1>1, <1>2, ResetStep
  <2>2. pc["main"] = "idle" /\ Goto("isr", "leave")
        BY <1>1, <1>2 DEF IsrReset, SeenInv, QuietInv, InReset
  <2>3. pc'["main"] = "idle"
        BY <1>1, <2>2, Moves DEF Contexts
  <2>4. RoomInv'
        BY <2>3, RoomNotNeeded
  <2>5. QED BY <2>1, <2>4 DEF StreamGoes, StreamInv, Stream!Next
<1>3. CASE IsrEnter
  <2>1. /\ pc["isr"] = "off" /\ flags # {} /\ seen' = flags /\ flags' = {}
        /\ count' = [count EXCEPT !["isr"] = 0]
        /\ Goto("isr", IF "reset" \in flags THEN "reset"
                       ELSE IF "tx" \in flags THEN "copy" ELSE "ep0")
        /\ UNCHANGED <<ring, epbuf, fifo, txrdy, history, next, writeLocals, written>>
        /\ UNCHANGED <<head, buf, accepted, delivered, slot, chunk>>
        BY <1>3 DEF IsrEnter, ring, history, writeLocals
  <2>2. UNCHANGED Stream!vars
        BY <2>1 DEF Stream!vars
  <2>3. pc'["main"] = pc["main"]
        BY <1>1, <2>1, Moves DEF Contexts
  <2>4. seen = {}
        BY <1>1, <2>1 DEF SeenInv
  <2>5. InReset' <=> InReset
        BY <2>1, <2>4 DEF InReset
  <2>6. CASE InReset
    <3>1. pc'["main"] = "idle"
          BY <1>1, <2>3, <2>6 DEF QuietInv
    <3>2. RoomInv'
          BY <3>1, RoomNotNeeded
    <3>3. QED BY <2>2, <2>5, <2>6, <3>2 DEF StreamGoes, StreamInv
  <2>7. CASE ~InReset
    <3>1. Parts /\ "reset" \notin flags
          BY <2>7 DEF IInv, StreamInv, InReset
    <3>2. Parts' /\ Sent' = Sent
      <4>1. CASE "tx" \in flags
        <5>1. ~txrdy /\ Resting
              BY <1>1, <2>7, <4>1 DEF ClaimInv, Resting
        <5>2. Goto("isr", "copy") /\ "isr" \in Contexts
              BY <2>1, <3>1, <4>1 DEF Contexts
        <5>3. pc'["isr"] = "copy" /\ \A b \in Contexts : b # "isr" => pc'[b] = pc[b]
              BY <1>1, <5>2, Moves
        <5>4. count'["isr"] = 0
              BY <1>1, <2>1, <5>2 DEF TypeOK, KickType
        <5>5. UNCHANGED <<ring, fifo, txrdy, history>>
              BY <2>1
        <5>6. QED BY <1>1, <3>1, <5>1, <5>2, <5>3, <5>4, <5>5, KickBegins
      <4>2. CASE "tx" \notin flags
        <5>1. Goto("isr", "ep0")
              BY <2>1, <3>1, <4>2
        <5>2. pc'["isr"] = "ep0"
              BY <1>1, <5>1, Moves DEF Contexts
        <5>3. count'["main"] = count["main"] /\ UNCHANGED next
              BY <1>1, <2>1 DEF TypeOK, KickType, Contexts
        <5>4. \A b \in Contexts :
                \/ pc'[b] = pc[b] /\ count'[b] = count[b] /\ next'[b] = next[b]
                \/ pc[b] \notin Loading /\ pc'[b] \notin Loading
              BY <2>1, <2>3, <5>2, <5>3 DEF Contexts, Loading
        <5>5. UNCHANGED <<ring, epbuf, fifo, txrdy, history>>
              BY <2>1
        <5>6. QED BY <3>1, <5>4, <5>5, OutsideKeeps
      <4>3. QED BY <4>1, <4>2
    <3>3. RoomInv'
          BY <1>1, <2>1, <2>3, <3>1, <3>2, RoomKeeps
    <3>4. QED BY <2>2, <3>2, <3>3 DEF StreamGoes, StreamInv
  <2>8. QED BY <2>6, <2>7
<1>4. CASE IsrBranches
  <2>a. /\ pc["isr"] \in {"ep0", "request", "flush", "leave"} /\ OutsideKick
        /\ \E l \in {"request", "flush", "leave", "off"} : Goto("isr", l)
        BY <1>4 DEF IsrBranches, IsrEp0, IsrRequest, IsrFlush, IsrLeave, OutsideKick
  <2>1. /\ UNCHANGED <<ring, epbuf, fifo, txrdy, history, count, next>>
        /\ UNCHANGED <<head, buf, accepted, delivered, written, slot, chunk>>
        BY <2>a DEF OutsideKick, endpoint, kickLocals, ring, history, writeLocals
  <2>2. ~InReset /\ Parts
        BY <1>1, <2>a DEF QuietInv, IInv, StreamInv
  <2>3. pc'["isr"] \in {"request", "flush", "leave", "off"} /\ pc'["main"] = pc["main"]
        BY <1>1, <2>a, Moves DEF Contexts
  <2>4. \A b \in Contexts :
          \/ pc'[b] = pc[b] /\ count'[b] = count[b] /\ next'[b] = next[b]
          \/ pc[b] \notin Loading /\ pc'[b] \notin Loading
        BY <2>a, <2>1, <2>3 DEF Contexts, Loading
  <2>5. Parts' /\ Sent' = Sent
        BY <2>1, <2>2, <2>4, OutsideKeeps
  <2>6. RoomInv'
        BY <1>1, <2>1, <2>2, <2>3, <2>5, RoomKeeps
  <2>7. UNCHANGED Stream!vars
        BY <2>1 DEF Stream!vars
  <2>8. QED BY <2>5, <2>6, <2>7 DEF StreamGoes, StreamInv
<1>5. QED BY <1>2, <1>3, <1>4

\* The endpoint hardware and the host.
LEMMA BusStep ==
  ASSUME TornResets = FALSE, IInv, HostStep
  PROVE  StreamGoes
<1>1. TypeOK /\ SeenInv /\ QuietInv /\ ClaimInv /\ RoomInv
      BY DEF IInv, ControlInv
<1>2. /\ UNCHANGED <<head, buf, accepted, written, slot, chunk>>
      /\ pc' = pc
      BY DEF HostStep, HostIn, HostConfigure, HostOther, Raise, BusReset, ring,
             writeLocals, history
<1>3. CASE HostIn
  <2>1. ~InReset /\ Parts
        BY <1>3 DEF HostIn, IInv, StreamInv
  <2>2. Parts' /\ Sent' = Sent /\ Stream!Deliver
        BY <1>1, <1>3, <2>1, HostInStep
  <2>3. RoomInv'
        BY <1>1, <1>2, <2>1, <2>2, RoomKeeps
  <2>4. QED BY <2>2, <2>3 DEF StreamGoes, StreamInv, Stream!Next
<1>4. CASE HostConfigure \/ HostOther
  <2>1. ~InReset /\ Parts
        BY <1>4 DEF HostConfigure, HostOther, Raise, IInv, StreamInv
  <2>2. UNCHANGED <<ring, epbuf, fifo, txrdy, history, count, next>>
        BY <1>4 DEF HostConfigure, HostOther, Raise, kickLocals
  <2>3. Parts' /\ Sent' = Sent
        BY <1>2, <2>1, <2>2, OutsideKeeps
  <2>4. RoomInv'
        BY <1>1, <1>2, <2>1, <2>3, RoomKeeps
  <2>5. UNCHANGED Stream!vars
        BY <2>2 DEF history, Stream!vars
  <2>6. QED BY <2>3, <2>4, <2>5 DEF StreamGoes, StreamInv
<1>5. CASE BusReset
  <2>1. pc["main"] = "idle" /\ "reset" \in flags' /\ UNCHANGED history
        BY <1>5 DEF BusReset
  <2>2. InReset'
        BY <2>1 DEF InReset
  <2>3. RoomInv'
        BY <1>2, <2>1, RoomNotNeeded
  <2>4. UNCHANGED Stream!vars
        BY <2>1 DEF history, Stream!vars
  <2>5. QED BY <2>2, <2>3, <2>4 DEF StreamGoes, StreamInv
<1>6. QED BY <1>3, <1>4, <1>5 DEF HostStep

\* A stutter.
LEMMA StutterStep == ASSUME IInv, UNCHANGED vars PROVE StreamGoes /\ CallInv'
<1>1. /\ UNCHANGED <<ring, epbuf, fifo, txrdy, history, count, next, pc>>
      /\ UNCHANGED <<head, buf, accepted, delivered, written, slot, chunk, todo, single>>
      /\ UNCHANGED <<flags, seen>>
      BY DEF vars, ring, endpoint, history, kickLocals, writeLocals, isrLocals
<1>2. CallInv'
      BY <1>1 DEF IInv, CallInv
<1>3. UNCHANGED Stream!vars
      BY <1>1 DEF Stream!vars
<1>4. InReset' <=> InReset
      BY <1>1 DEF InReset
<1>5. CASE InReset
  <2>1. pc'["main"] = "idle"
        BY <1>1, <1>5 DEF IInv, QuietInv
  <2>2. QED BY <1>2, <1>3, <1>4, <1>5, <2>1, RoomNotNeeded DEF StreamGoes, StreamInv
<1>6. CASE ~InReset
  <2>1. TypeOK /\ Parts /\ RoomInv
        BY <1>6 DEF IInv, ControlInv, StreamInv
  <2>2. Parts' /\ Sent' = Sent
        BY <1>1, <2>1, OutsideKeeps
  <2>3. RoomInv'
        BY <1>1, <2>1, <2>2, RoomKeeps
  <2>4. QED BY <1>2, <1>3, <2>2, <2>3 DEF StreamGoes, StreamInv
<1>7. QED BY <1>5, <1>6

\* Power-on: nothing accepted, nothing delivered.
LEMMA StreamBegins == Init => CallInv /\ RoomInv /\ StreamInv /\ Stream!Init
<1> SUFFICES ASSUME Init PROVE CallInv /\ RoomInv /\ StreamInv /\ Stream!Init
    OBVIOUS
<1>1. /\ pc["main"] = "idle" /\ pc["isr"] = "off" /\ ~txrdy /\ single = FALSE
      /\ head = 0 /\ tail = 0 /\ accepted = <<>> /\ delivered = <<>>
      BY DEF Init, Contexts
<1>2. Resting
      BY <1>1 DEF Resting, Contexts, Loading
<1>3. Len(<<>>) = 0 /\ 0 % TxSize = 0 /\ 0 < 0 + TxSize
      BY SizeFact
<1>4. Sent = 0
      BY <1>1, <1>2, <1>3 DEF Sent, OnTheWay, Resting, Contexts
<1>5. RingInv
      BY <1>1, <1>3, <1>4 DEF RingInv, RingHolds
<1>6. PacketInv /\ FifoInv
      BY <1>1, <1>2 DEF PacketInv, PacketOf, FifoInv, Resting
<1>7. DeliveredInv
      BY <1>1, <1>3 DEF DeliveredInv, Copied
<1>8. CallInv /\ RoomInv
      BY <1>1 DEF CallInv, RoomInv
<1>9. QED BY <1>1, <1>5, <1>6, <1>7, <1>8 DEF StreamInv, Parts, Stream!Init

(* The transmit half implements the byte stream: whatever the write calls, *)
(* the handler, the endpoint and the host do to each other, the host gets  *)
(* the bytes the writes accepted, in order, none twice and none lost, in   *)
(* packets the endpoint can hold, for every size of the ring and of the    *)
(* packets, as long as no bus reset arrives in the middle of a write.      *)
THEOREM TxStreamImplemented ==
  ASSUME TornResets = FALSE
  PROVE  Spec => ImplementsStream
<1> DEFINE Data == CallInv /\ RoomInv /\ StreamInv
           Lock == ControlInv /\ QuietInv /\ ClaimInv
<1>1. Init => Data /\ Stream!Init
      BY StreamBegins
<1>2. Lock /\ Data /\ [Next]_vars => Data' /\ [Stream!Next]_(Stream!vars)
  <2> SUFFICES ASSUME IInv, [Next]_vars PROVE StreamGoes /\ CallInv'
      BY DEF IInv, StreamGoes
  <2>1. CASE UNCHANGED vars
        BY <2>1, StutterStep
  <2>2. CASE Next
    <3>1. CallInv'
          BY <2>2, CallStep DEF IInv, ControlInv
    <3>2. CASE MainStep
      <4>1. "main" \in Contexts
            BY DEF Contexts
      <4>2. QED BY <3>1, <3>2, <4>1, CallerStep, WriterStep, KickStep DEF MainStep
    <3>3. CASE IsrStep
      <4>1. "isr" \in Contexts
            BY DEF Contexts
      <4>2. QED BY <3>1, <3>3, <4>1, HandlerStep, KickStep DEF IsrStep
    <3>4. CASE HostStep
          BY <3>1, <3>4, BusStep
    <3>5. CASE CallWriteChar \/ CallWrite
      <4>1. \E n, s : Call(n, s)
            BY <3>5 DEF CallWriteChar, CallWrite
      <4>2. QED BY <3>1, <4>1, CallerStep
    <3>6. QED BY <2>2, <3>2, <3>3, <3>4, <3>5 DEF Next
  <2>3. QED BY <2>1, <2>2
<1>3. Spec => []Lock
      BY ClaimHolds
<1> HIDE DEF Data, Lock
<1>4. QED BY <1>1, <1>2, <1>3, PTL DEF Spec, ImplementsStream, Stream!Spec
=============================================================================
