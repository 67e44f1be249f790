---------------------------- MODULE CdcTxProofs ----------------------------
(***************************************************************************)
(* Theorems of CdcTx, for every ring size, packet size and timeout.        *)
(***************************************************************************)
EXTENDS CdcTx, TLAPS

-----------------------------------------------------------------------------
(* Arithmetic of the ring.                                                 *)

\* Any masked sum or difference is an index of the ring.
LEMMA ModInRing == ASSUME NEW i \in Int PROVE i % TxSize \in Index
  BY SizeAssumption DEF Index

\* So is the masked increment.
LEMMA IncInRing == ASSUME NEW i \in Index PROVE Inc(i) \in Index
  BY SizeAssumption, ModInRing DEF Inc, Index

\* And zero.
LEMMA ZeroInRing == 0 \in Index
  BY SizeAssumption DEF Index

\* An index is a natural number.
LEMMA IndexIsNat == Index \subseteq Nat
  BY SizeAssumption DEF Index

-----------------------------------------------------------------------------
(* Types.                                                                  *)

\* From the test for room to the end of the chunk, the chunk is part of
\* what is left of the call, and once stored part of what was written.
ChunkInv ==
  /\ pc["main"] \notin {"idle", "head", "space"} => chunk <= todo
  /\ pc["main"] \in {"next", "publish"} => chunk <= written

\* A context moves to a label of its own, the other stays where it is.
LEMMA GotoType ==
  ASSUME PcType, NEW a \in Contexts, NEW l, Goto(a, l),
         a = "main" => l \in MainLabels, a = "isr" => l \in IsrLabels
  PROVE  /\ PcType'
         /\ pc'[a] = l
         /\ \A b \in Contexts : b # a => pc'[b] = pc[b]
<1>1. pc' = [pc EXCEPT ![a] = l]
      BY DEF Goto
<1>2. l \in MainLabels \cup IsrLabels
      BY DEF Contexts
<1>3. pc' \in [Contexts -> MainLabels \cup IsrLabels]
      BY <1>1, <1>2 DEF PcType
<1>4. pc'[a] = l /\ \A b \in Contexts : b # a => pc'[b] = pc[b]
      BY <1>1 DEF PcType
<1>5. pc'["main"] \in MainLabels /\ pc'["isr"] \in IsrLabels
      BY <1>4 DEF PcType, Contexts
<1>6. QED BY <1>3, <1>4, <1>5 DEF PcType

\* Power-on: every variable has its type and no call is under way.
LEMMA TypeInit == Init => TypeOK /\ ChunkInv
<1> SUFFICES ASSUME Init PROVE TypeOK /\ ChunkInv
    OBVIOUS
<1>1. RingType
      BY ZeroInRing DEF Init, RingType
<1>2. HardwareType
      BY DEF Init, HardwareType
<1>3. PcType /\ ChunkInv
  <2>1. pc["main"] = "idle" /\ pc["isr"] = "off"
        BY DEF Init, Contexts
  <2>2. "idle" \in MainLabels /\ "off" \in IsrLabels
        BY DEF MainLabels, IsrLabels
  <2>3. pc \in [Contexts -> MainLabels \cup IsrLabels]
        BY <2>2 DEF Init
  <2>4. QED BY <2>1, <2>2, <2>3 DEF PcType, ChunkInv
<1>4. WriteType
      BY ZeroInRing, SizeAssumption DEF Init, WriteType
<1>5. KickType
      BY ZeroInRing, SizeAssumption DEF Init, KickType
<1>6. IsrType
      BY DEF Init, IsrType
<1>7. HistoryType
      BY DEF Init, HistoryType
<1>8. FlagType
      BY DEF Init, FlagType
<1>9. QED BY <1>1, <1>2, <1>3, <1>4, <1>5, <1>6, <1>7, <1>8 DEF TypeOK

-----------------------------------------------------------------------------
\* The end of a chunk, and with it perhaps of the call.
LEMMA EndCallType ==
  ASSUME PcType, EndCall
  PROVE  PcType' /\ WriteType' /\ ChunkInv' /\ single' \in BOOLEAN
<1>1. PcType' /\ pc'["main"] = "idle"
      BY GotoType DEF EndCall, Contexts, MainLabels
<1>2. WriteType'
      BY ZeroInRing, SizeAssumption DEF EndCall, WriteType
<1>3. single' \in BOOLEAN
      BY DEF EndCall
<1>4. QED BY <1>1, <1>2, <1>3 DEF ChunkInv

\* A chunk that is done leaves the rest of the call, or ends it.
LEMMA ChunkDoneType ==
  ASSUME PcType, WriteType, single \in BOOLEAN, ChunkInv, ChunkDone,
         pc["main"] \in {"test"} \cup KickLabels
  PROVE  PcType' /\ WriteType' /\ ChunkInv' /\ single' \in BOOLEAN
<1>1. CASE todo = chunk
  <2>1. EndCall
        BY <1>1 DEF ChunkDone
  <2>2. QED BY <2>1, EndCallType
<1>2. CASE todo # chunk
  <2>1. /\ todo' = todo - chunk /\ timeout' = TxTimeout
        /\ Goto("main", "head") /\ UNCHANGED <<slot, chunk, single>>
        BY <1>2 DEF ChunkDone
  <2>2. PcType' /\ pc'["main"] = "head"
        BY <2>1, GotoType DEF Contexts, MainLabels, WriteLabels
  <2>3. chunk <= todo
        BY DEF ChunkInv, KickLabels, Loading, Masked
  <2>4. todo' \in Nat
        BY <2>1, <2>3 DEF WriteType, Index
  <2>5. timeout' \in 0..TxTimeout
        BY <2>1, SizeAssumption
  <2>6. WriteType'
        BY <2>1, <2>4, <2>5 DEF WriteType
  <2>7. QED BY <2>1, <2>2, <2>6 DEF ChunkInv
<1>3. QED BY <1>1, <1>2

\* bt_usb_ep1_kick returns to the write, which ends its chunk, or to the handler.
LEMMA ReturnType ==
  ASSUME PcType, WriteType, single \in BOOLEAN, ChunkInv, written' = written,
         NEW a \in Contexts, Return(a), pc[a] \in KickLabels
  PROVE  PcType' /\ WriteType' /\ ChunkInv' /\ single' \in BOOLEAN
<1>1. CASE a = "main"
  <2>1. ChunkDone
        BY <1>1 DEF Return
  <2>2. QED BY <1>1, <2>1, ChunkDoneType
<1>2. CASE a = "isr"
  <2>1. Goto("isr", "ep0") /\ UNCHANGED writeLocals
        BY <1>2 DEF Return
  <2>2. PcType' /\ pc'["main"] = pc["main"]
        BY <2>1, GotoType DEF Contexts, IsrLabels
  <2>3. WriteType' /\ ChunkInv'
        BY <2>1, <2>2 DEF WriteType, ChunkInv, writeLocals
  <2>4. single' \in BOOLEAN
        BY <2>1 DEF writeLocals
  <2>5. QED BY <2>2, <2>3, <2>4
<1>3. QED BY <1>1, <1>2 DEF Contexts

\* A step from one label of the kick to another leaves the write call alone.
LEMMA KickGotoType ==
  ASSUME PcType, WriteType, single \in BOOLEAN, ChunkInv,
         written' = written, UNCHANGED writeLocals,
         NEW a \in Contexts, pc[a] \in KickLabels, NEW l \in KickLabels, Goto(a, l)
  PROVE  PcType' /\ WriteType' /\ ChunkInv' /\ single' \in BOOLEAN
<1>1. l \in MainLabels /\ l \in IsrLabels
      BY DEF MainLabels, IsrLabels
<1>2. PcType' /\ pc'[a] = l /\ \A b \in Contexts : b # a => pc'[b] = pc[b]
      BY <1>1, GotoType
<1>3. WriteType'
      BY DEF WriteType, writeLocals
<1>4. single' \in BOOLEAN
      BY DEF writeLocals
<1>5. chunk' = chunk /\ todo' = todo
      BY DEF writeLocals
<1>6. pc'["main"] = pc["main"] \/ (pc["main"] \in KickLabels /\ pc'["main"] \in KickLabels)
      BY <1>2 DEF Contexts
<1>7. ChunkInv'
      BY <1>5, <1>6 DEF ChunkInv, KickLabels, Loading, Masked
<1>8. QED BY <1>2, <1>3, <1>4, <1>7

\* The steps of bt_usb_ep1_kick, in either context.
LEMMA KickStepType ==
  ASSUME TypeOK, ChunkInv, NEW a \in Contexts, Kick(a)
  PROVE  TypeOK' /\ ChunkInv'
<1> USE DEF TypeOK, At, MainAt
<1>0. /\ single \in BOOLEAN /\ busy \in BOOLEAN /\ txrdy \in BOOLEAN
      /\ configured \in BOOLEAN /\ picen \in BOOLEAN
      BY DEF FlagType
<1>a. {"copy", "advance", "store", "check", "mask", "dma", "ready", "restore"}
        \subseteq KickLabels
      BY DEF KickLabels, Loading, Masked
<1>1. CASE KickCopy(a)
  <2>1. /\ UNCHANGED <<ring, busy, configured, registers, endpoint, writeLocals, next,
                       savedPic, savedIdx, isrLocals, written, events, history>>
        /\ pc[a] \in KickLabels
        BY <1>1, <1>a DEF KickCopy, Contexts
  <2>2. RingType' /\ KickType'
    <3>1. CASE head # tail /\ count[a] < PktMax
      <4>1. buf[tail] \in Nat
            BY DEF RingType
      <4>2. count[a] + 1 \in 1..PktMax /\ count[a] + 1 \in 0..PktMax
        <5>1. count[a] \in 0..PktMax /\ count[a] < PktMax
              BY <3>1 DEF KickType
        <5>2. QED BY <5>1, SizeAssumption
      <4>3. /\ epbuf' = [epbuf EXCEPT ![count[a] + 1] = buf[tail]]
            /\ count' = [count EXCEPT ![a] = count[a] + 1]
            BY <1>1, <3>1 DEF KickCopy
      <4>4. epbuf' \in [1..PktMax -> Nat]
            BY <4>1, <4>2, <4>3 DEF RingType
      <4>5. count' \in [Contexts -> 0..PktMax]
            BY <4>2, <4>3 DEF KickType
      <4>6. QED BY <2>1, <4>4, <4>5 DEF RingType, KickType, ring
    <3>2. CASE ~(head # tail /\ count[a] < PktMax)
          BY <1>1, <2>1, <3>2 DEF KickCopy, RingType, KickType, ring
    <3>3. QED BY <3>1, <3>2
  <2>3. PcType' /\ WriteType' /\ ChunkInv' /\ single' \in BOOLEAN
    <3>1. CASE Goto(a, "advance")
          BY <1>0, <1>a, <2>1, <3>1, KickGotoType
    <3>2. CASE Goto(a, "check")
          BY <1>0, <1>a, <2>1, <3>2, KickGotoType
    <3>3. QED BY <1>1, <3>1, <3>2 DEF KickCopy
  <2>4. HardwareType' /\ IsrType' /\ HistoryType'
        BY <2>1 DEF HardwareType, IsrType, HistoryType, registers, endpoint, isrLocals,
                    history
  <2>5. FlagType'
        BY <2>1, <2>3 DEF FlagType, registers, endpoint
  <2>6. QED BY <2>2, <2>3, <2>4, <2>5
<1>2. CASE KickAdvance(a)
  <2>1. /\ UNCHANGED <<ring, busy, configured, epbuf, registers, endpoint, writeLocals,
                       count, savedPic, savedIdx, isrLocals, written, events, history>>
        /\ next' = [next EXCEPT ![a] = Inc(tail)]
        /\ pc[a] \in KickLabels /\ Goto(a, "store")
        BY <1>2, <1>a DEF KickAdvance, Contexts
  <2>2. PcType' /\ WriteType' /\ ChunkInv' /\ single' \in BOOLEAN
        BY <1>0, <1>a, <2>1, KickGotoType
  <2>3. RingType' /\ KickType'
        BY <2>1, IncInRing DEF RingType, KickType, ring
  <2>4. HardwareType' /\ IsrType' /\ HistoryType'
        BY <2>1 DEF HardwareType, IsrType, HistoryType, registers, endpoint, isrLocals,
                    history
  <2>5. FlagType'
        BY <2>1, <2>2 DEF FlagType, registers, endpoint
  <2>6. QED BY <2>2, <2>3, <2>4, <2>5
<1>3. CASE KickStore(a)
  <2>1. /\ UNCHANGED <<head, buf, busy, configured, epbuf, registers, endpoint,
                       writeLocals, count, savedPic, savedIdx, isrLocals, written,
                       events, history>>
        /\ tail' = next[a] /\ next' = [next EXCEPT ![a] = 0]
        /\ pc[a] \in KickLabels /\ Goto(a, "copy")
        BY <1>3, <1>a DEF KickStore, Contexts
  <2>2. PcType' /\ WriteType' /\ ChunkInv' /\ single' \in BOOLEAN
        BY <1>0, <1>a, <2>1, KickGotoType
  <2>3. RingType' /\ KickType'
        BY <2>1, ZeroInRing DEF RingType, KickType
  <2>4. HardwareType' /\ IsrType' /\ HistoryType'
        BY <2>1 DEF HardwareType, IsrType, HistoryType, registers, endpoint, isrLocals,
                    history
  <2>5. FlagType'
        BY <2>1, <2>2 DEF FlagType, registers, endpoint
  <2>6. QED BY <2>2, <2>3, <2>4, <2>5
<1>4. CASE KickCheck(a)
  <2>1. /\ UNCHANGED <<ring, configured, epbuf, registers, endpoint, kickLocals,
                       isrLocals, written, events, history>>
        /\ pc[a] \in KickLabels
        BY <1>4, <1>a DEF KickCheck, Contexts
  <2>2. /\ PcType' /\ WriteType' /\ ChunkInv'
        /\ single' \in BOOLEAN /\ busy' \in BOOLEAN
    <3>1. CASE count[a] = 0
      <4>1. busy' = FALSE /\ Return(a)
            BY <1>4, <3>1 DEF KickCheck
      <4>2. QED BY <1>0, <2>1, <4>1, ReturnType
    <3>2. CASE count[a] # 0
      <4>1. busy' = busy /\ Goto(a, "mask") /\ UNCHANGED writeLocals
            BY <1>4, <3>2 DEF KickCheck
      <4>2. QED BY <1>0, <1>a, <2>1, <4>1, KickGotoType
    <3>3. QED BY <3>1, <3>2
  <2>3. RingType' /\ KickType'
        BY <2>1 DEF RingType, KickType, ring, kickLocals
  <2>4. HardwareType' /\ IsrType' /\ HistoryType'
        BY <2>1 DEF HardwareType, IsrType, HistoryType, registers, endpoint, isrLocals,
                    history
  <2>5. FlagType'
        BY <2>1, <2>2 DEF FlagType, registers, endpoint
  <2>6. QED BY <2>2, <2>3, <2>4, <2>5
<1>5. CASE KickMask(a)
  <2>1. /\ UNCHANGED <<ring, busy, configured, epbuf, endpoint, writeLocals, count,
                       next, isrLocals, written, events, history>>
        /\ savedPic' = [savedPic EXCEPT ![a] = picen] /\ picen' = FALSE
        /\ savedIdx' = [savedIdx EXCEPT ![a] = uindex] /\ uindex' = 1
        /\ pc[a] \in KickLabels /\ Goto(a, "dma")
        BY <1>5, <1>a DEF KickMask, Contexts
  <2>2. PcType' /\ WriteType' /\ ChunkInv' /\ single' \in BOOLEAN
        BY <1>0, <1>a, <2>1, KickGotoType
  <2>3. RingType' /\ IsrType' /\ HistoryType'
        BY <2>1 DEF RingType, IsrType, HistoryType, ring, isrLocals, history
  <2>4. savedPic' \in [Contexts -> BOOLEAN]
        BY <1>0, <2>1 DEF KickType
  <2>5. KickType' /\ HardwareType'
        BY <2>1, <2>4 DEF KickType, HardwareType, endpoint
  <2>6. FlagType'
        BY <2>1, <2>2 DEF FlagType, endpoint
  <2>7. QED BY <2>2, <2>3, <2>5, <2>6
<1>6. CASE KickDma(a)
  <2>1. /\ UNCHANGED <<ring, busy, configured, epbuf, registers, txrdy, flags,
                       writeLocals, kickLocals, isrLocals, written, events, history>>
        /\ fifo' = [i \in 1..count[a] |-> epbuf[i]]
        /\ pc[a] \in KickLabels /\ Goto(a, "ready")
        BY <1>6, <1>a DEF KickDma, Contexts
  <2>2. PcType' /\ WriteType' /\ ChunkInv' /\ single' \in BOOLEAN
        BY <1>0, <1>a, <2>1, KickGotoType
  <2>3. RingType' /\ KickType' /\ IsrType' /\ HistoryType'
        BY <2>1 DEF RingType, KickType, IsrType, HistoryType, ring, kickLocals,
                    isrLocals, history
  <2>4. fifo' \in Seq(Nat)
    <3>1. /\ count[a] \in Nat /\ count[a] <= PktMax
          BY SizeAssumption DEF KickType
    <3>2. \A i \in 1..count[a] : epbuf[i] \in Nat
          BY <3>1, SizeAssumption DEF RingType
    <3>3. QED BY <2>1, <3>1, <3>2
  <2>5. HardwareType'
        BY <2>1, <2>4 DEF HardwareType, registers
  <2>6. FlagType'
        BY <2>1, <2>2 DEF FlagType, registers
  <2>7. QED BY <2>2, <2>3, <2>5, <2>6
<1>7. CASE KickReady(a)
  <2>1. /\ UNCHANGED <<ring, busy, configured, epbuf, registers, fifo, flags,
                       writeLocals, kickLocals, isrLocals, written, events, history>>
        /\ txrdy' = (txrdy \/ uindex = 1)
        /\ pc[a] \in KickLabels /\ Goto(a, "restore")
        BY <1>7, <1>a DEF KickReady, Contexts
  <2>2. PcType' /\ WriteType' /\ ChunkInv' /\ single' \in BOOLEAN
        BY <1>0, <1>a, <2>1, KickGotoType
  <2>3. RingType' /\ KickType' /\ IsrType' /\ HistoryType'
        BY <2>1 DEF RingType, KickType, IsrType, HistoryType, ring, kickLocals,
                    isrLocals, history
  <2>4. HardwareType'
        BY <2>1 DEF HardwareType, registers
  <2>5. txrdy' \in BOOLEAN
        BY <2>1
  <2>6. FlagType'
        BY <2>1, <2>2, <2>5 DEF FlagType, registers
  <2>7. QED BY <2>2, <2>3, <2>4, <2>6
<1>8. CASE KickRestore(a)
  <2>1. /\ UNCHANGED <<ring, busy, configured, epbuf, endpoint, kickLocals, isrLocals,
                       written, events, history>>
        /\ uindex' = savedIdx[a] /\ picen' = savedPic[a]
        /\ pc[a] \in KickLabels /\ Return(a)
        BY <1>8, <1>a DEF KickRestore, Contexts
  <2>2. PcType' /\ WriteType' /\ ChunkInv' /\ single' \in BOOLEAN
        BY <1>0, <2>1, ReturnType
  <2>3. RingType' /\ KickType' /\ IsrType' /\ HistoryType'
        BY <2>1 DEF RingType, KickType, IsrType, HistoryType, ring, kickLocals,
                    isrLocals, history
  <2>4. HardwareType'
        BY <2>1 DEF HardwareType, KickType, endpoint
  <2>5. picen' \in BOOLEAN
        BY <2>1 DEF KickType
  <2>6. FlagType'
        BY <2>1, <2>2, <2>5 DEF FlagType, endpoint
  <2>7. QED BY <2>2, <2>3, <2>4, <2>6
<1>9. QED BY <1>1, <1>2, <1>3, <1>4, <1>5, <1>6, <1>7, <1>8 DEF Kick

-----------------------------------------------------------------------------
\* The steps of the write calls.
LEMMA WriteStepType ==
  ASSUME TypeOK, ChunkInv,
         \/ CallWriteChar \/ CallWrite \/ LoadHead \/ TestSpace \/ Fill \/ NextHead
         \/ Publish \/ TestBusy \/ Claim
  PROVE  TypeOK' /\ ChunkInv'
<1> USE DEF TypeOK, MainAt
<1>0. /\ single \in BOOLEAN /\ busy \in BOOLEAN /\ txrdy \in BOOLEAN
      /\ configured \in BOOLEAN /\ picen \in BOOLEAN
      BY DEF FlagType
<1>a. /\ {"idle", "head", "space", "slot", "fill", "next", "publish", "test", "claim",
           "copy"} \subseteq MainLabels
      /\ "main" \in Contexts
      BY DEF MainLabels, WriteLabels, KickLabels, Loading, Contexts
<1>1. ASSUME NEW n \in Nat, NEW s \in BOOLEAN, Call(n, s)
      PROVE  TypeOK' /\ ChunkInv'
  <2>1. /\ UNCHANGED <<ring, busy, configured, epbuf, registers, endpoint, slot, chunk,
                       kickLocals, isrLocals, written, events, history>>
        /\ todo' = n /\ single' = s /\ timeout' = TxTimeout /\ Goto("main", "head")
        BY <1>1 DEF Call
  <2>2. PcType' /\ ChunkInv'
        BY <1>a, <2>1, GotoType DEF ChunkInv
  <2>3. WriteType'
        BY <2>1, SizeAssumption DEF WriteType
  <2>4. RingType' /\ HardwareType' /\ KickType' /\ IsrType' /\ HistoryType'
        BY <2>1 DEF RingType, HardwareType, KickType, IsrType, HistoryType, ring,
                    registers, endpoint, kickLocals, isrLocals, history
  <2>5. FlagType'
        BY <2>1 DEF FlagType, registers, endpoint
  <2>6. QED BY <2>2, <2>3, <2>4, <2>5
<1>2. CASE LoadHead
  <2>1. /\ UNCHANGED <<ring, busy, configured, epbuf, registers, endpoint, timeout, todo,
                       chunk, single, kickLocals, isrLocals, written, events, history>>
        /\ slot' = head
        BY <1>2 DEF LoadHead
  <2>2. PcType' /\ ChunkInv'
    <3>1. CASE pc["main"] = "head" /\ Goto("main", "space")
          BY <1>a, <3>1, GotoType DEF ChunkInv
    <3>2. CASE pc["main"] = "slot" /\ Goto("main", "fill")
      <4>1. PcType' /\ pc'["main"] = "fill"
            BY <1>a, <3>2, GotoType
      <4>2. chunk <= todo
            BY <3>2 DEF ChunkInv
      <4>3. QED BY <2>1, <4>1, <4>2 DEF ChunkInv
    <3>3. QED BY <1>2, <3>1, <3>2 DEF LoadHead
  <2>3. WriteType' /\ RingType'
        BY <2>1 DEF WriteType, RingType, ring
  <2>4. HardwareType' /\ KickType' /\ IsrType' /\ HistoryType'
        BY <2>1 DEF HardwareType, KickType, IsrType, HistoryType,
                    registers, endpoint, kickLocals, isrLocals, history
  <2>5. FlagType'
        BY <2>1 DEF FlagType, registers, endpoint
  <2>6. QED BY <2>2, <2>3, <2>4, <2>5
<1>3. CASE TestSpace
  <2>1. UNCHANGED <<ring, busy, configured, epbuf, registers, endpoint, kickLocals,
                    isrLocals, written, events, history>>
        BY <1>3 DEF TestSpace
  <2>2. FreeFrom(slot) \in Index
    <3>1. tail \in Nat /\ slot \in Nat
          BY IndexIsNat DEF RingType, WriteType
    <3>2. tail - slot - 1 \in Int
          BY <3>1
    <3>3. QED BY <3>2, ModInRing DEF FreeFrom
  <2>3. PcType' /\ WriteType' /\ ChunkInv' /\ single' \in BOOLEAN
    <3>1. CASE EndCall
          BY <3>1, EndCallType
    <3>2. CASE /\ timeout > 1 /\ timeout' = timeout - 1 /\ Goto("main", "head")
               /\ UNCHANGED <<todo, slot, chunk, single>>
      <4>1. PcType' /\ pc'["main"] = "head"
            BY <1>a, <3>2, GotoType
      <4>2. timeout' \in 0..TxTimeout
            BY <3>2, SizeAssumption DEF WriteType
      <4>3. WriteType' /\ ChunkInv'
            BY <3>2, <4>1, <4>2 DEF WriteType, ChunkInv
      <4>4. single' \in BOOLEAN
            BY <1>0, <3>2
      <4>5. QED BY <4>1, <4>3, <4>4
    <3>3. CASE /\ chunk' = Lesser(todo, FreeFrom(slot))
               /\ Goto("main", IF single THEN "slot" ELSE "fill")
               /\ UNCHANGED <<timeout, todo, slot, single>>
      <4>1. PcType' /\ pc'["main"] \in {"slot", "fill"}
        <5>1. (IF single THEN "slot" ELSE "fill") \in {"slot", "fill"}
              OBVIOUS
        <5>2. QED BY <1>a, <3>3, <5>1, GotoType
      <4>2. chunk' \in Index /\ chunk' <= todo
            BY <2>2, <3>3, SizeAssumption DEF Lesser, WriteType, Index
      <4>3. WriteType' /\ ChunkInv'
            BY <3>3, <4>1, <4>2 DEF WriteType, ChunkInv
      <4>4. single' \in BOOLEAN
            BY <1>0, <3>3
      <4>5. QED BY <4>1, <4>3, <4>4
    <3>4. QED BY <1>3, <3>1, <3>2, <3>3 DEF TestSpace, WaitTurn
  <2>4. RingType' /\ HardwareType' /\ KickType' /\ IsrType' /\ HistoryType'
        BY <2>1 DEF RingType, HardwareType, KickType, IsrType, HistoryType, ring,
                    registers, endpoint, kickLocals, isrLocals, history
  <2>5. FlagType'
        BY <2>1, <2>3 DEF FlagType, registers, endpoint
  <2>6. QED BY <2>3, <2>4, <2>5
<1>4. CASE Fill
  <2>1. /\ UNCHANGED <<head, tail, busy, configured, epbuf, registers, endpoint, timeout,
                       todo, chunk, single, kickLocals, isrLocals, events, history>>
        /\ written' = written + chunk
        /\ pc["main"] = "fill"
        /\ Goto("main", IF single THEN "next" ELSE "publish")
        BY <1>4 DEF Fill
  <2>2. PcType' /\ pc'["main"] \in {"next", "publish"}
    <3>1. (IF single THEN "next" ELSE "publish") \in {"next", "publish"}
          OBVIOUS
    <3>2. QED BY <1>a, <2>1, <3>1, GotoType
  <2>3. written' \in Nat /\ chunk' <= written'
        BY <2>1 DEF WriteType, HistoryType, Index
  <2>4. chunk' <= todo'
        BY <2>1 DEF ChunkInv
  <2>5. ChunkInv' /\ HistoryType'
        BY <2>1, <2>2, <2>3, <2>4 DEF ChunkInv, HistoryType, history
  <2>6. WriteType'
    <3>1. (slot + chunk) % TxSize \in Index
          BY ModInRing DEF WriteType, Index
    <3>2. slot' \in Index
          BY <1>4, <3>1 DEF Fill, WriteType
    <3>3. QED BY <2>1, <3>2 DEF WriteType
  <2>7. RingType'
    <3> DEFINE Byte(i, d) == IF d < chunk THEN written + d + 1 ELSE buf[i]
    <3>1. ASSUME NEW i \in Index PROVE Byte(i, (i - slot) % TxSize) \in Nat
      <4>1. i - slot \in Int
            BY IndexIsNat DEF WriteType
      <4>2. (i - slot) % TxSize \in Nat
            BY <4>1, ModInRing, IndexIsNat
      <4>3. buf[i] \in Nat /\ written \in Nat
            BY DEF RingType, HistoryType
      <4>4. \A d \in Nat : Byte(i, d) \in Nat
            BY <4>3
      <4> HIDE DEF Byte
      <4>5. QED BY <4>2, <4>4
    <3>2. buf' = [i \in Index |-> Byte(i, (i - slot) % TxSize)]
          BY <1>4 DEF Fill
    <3> HIDE DEF Byte
    <3>3. buf' \in [Index -> Nat]
          BY <3>1, <3>2
    <3>4. QED BY <2>1, <3>3 DEF RingType
  <2>8. HardwareType' /\ KickType' /\ IsrType'
        BY <2>1 DEF HardwareType, KickType, IsrType, registers, endpoint, kickLocals,
                    isrLocals
  <2>9. FlagType'
        BY <2>1 DEF FlagType, registers, endpoint
  <2>10. QED BY <2>2, <2>5, <2>6, <2>7, <2>8, <2>9
<1>5. CASE NextHead
  <2>1. /\ UNCHANGED <<ring, busy, configured, epbuf, registers, endpoint, timeout, todo,
                       chunk, single, kickLocals, isrLocals, written, events, history>>
        /\ pc["main"] = "next" /\ slot' = Inc(head) /\ Goto("main", "publish")
        BY <1>5 DEF NextHead
  <2>2. PcType' /\ pc'["main"] = "publish"
        BY <1>a, <2>1, GotoType
  <2>3. chunk <= todo /\ chunk <= written
        BY <2>1 DEF ChunkInv
  <2>4. WriteType' /\ ChunkInv'
        BY <2>1, <2>2, <2>3, IncInRing DEF WriteType, ChunkInv, RingType
  <2>5. RingType' /\ HardwareType' /\ KickType' /\ IsrType' /\ HistoryType'
        BY <2>1 DEF RingType, HardwareType, KickType, IsrType, HistoryType, ring,
                    registers, endpoint, kickLocals, isrLocals, history
  <2>6. FlagType'
        BY <2>1 DEF FlagType, registers, endpoint
  <2>7. QED BY <2>2, <2>4, <2>5, <2>6
<1>6. CASE Publish
  <2>1. /\ UNCHANGED <<tail, buf, busy, configured, epbuf, registers, endpoint,
                       writeLocals, kickLocals, isrLocals, written, events, delivered>>
        /\ accepted' = accepted \o [i \in 1..chunk |-> written - chunk + i]
        /\ pc["main"] = "publish" /\ head' = slot /\ Goto("main", "test")
        BY <1>6 DEF Publish
  <2>2. chunk <= todo /\ chunk <= written
        BY <2>1 DEF ChunkInv
  <2>3. PcType' /\ pc'["main"] = "test"
        BY <1>a, <2>1, GotoType
  <2>4. WriteType'
        BY <2>1 DEF WriteType, writeLocals
  <2>5. chunk' = chunk /\ todo' = todo
        BY <2>1 DEF writeLocals
  <2>6. ChunkInv'
        BY <2>2, <2>3, <2>5 DEF ChunkInv
  <2>7. HistoryType'
    <3>1. [i \in 1..chunk |-> written - chunk + i] \in Seq(Nat)
          BY <2>2 DEF WriteType, HistoryType, Index
    <3>2. accepted' \in Seq(Nat)
          BY <2>1, <3>1 DEF HistoryType
    <3>3. QED BY <2>1, <3>2 DEF HistoryType
  <2>8. RingType' /\ HardwareType' /\ KickType' /\ IsrType'
        BY <2>1 DEF RingType, HardwareType, KickType, IsrType, WriteType,
                    registers, endpoint, kickLocals, isrLocals
  <2>9. FlagType'
        BY <2>1 DEF FlagType, registers, endpoint, writeLocals
  <2>10. QED BY <2>3, <2>4, <2>6, <2>7, <2>8, <2>9
<1>7. CASE TestBusy
  <2>1. /\ UNCHANGED <<ring, busy, configured, epbuf, registers, endpoint, kickLocals,
                       isrLocals, written, events, history>>
        /\ pc["main"] = "test"
        BY <1>7 DEF TestBusy
  <2>2. PcType' /\ WriteType' /\ ChunkInv' /\ single' \in BOOLEAN
    <3>1. CASE ChunkDone
          BY <1>0, <2>1, <3>1, ChunkDoneType
    <3>2. CASE Goto("main", "claim") /\ UNCHANGED writeLocals
      <4>1. PcType' /\ pc'["main"] = "claim"
            BY <1>a, <3>2, GotoType
      <4>2. chunk' = chunk /\ todo' = todo /\ single' = single
            BY <3>2 DEF writeLocals
      <4>3. WriteType'
            BY <3>2 DEF WriteType, writeLocals
      <4>4. ChunkInv'
            BY <2>1, <4>1, <4>2 DEF ChunkInv
      <4>5. QED BY <1>0, <4>1, <4>2, <4>3, <4>4
    <3>3. QED BY <1>7, <3>1, <3>2 DEF TestBusy
  <2>3. RingType' /\ HardwareType' /\ KickType' /\ IsrType' /\ HistoryType'
        BY <2>1 DEF RingType, HardwareType, KickType, IsrType, HistoryType, ring,
                    registers, endpoint, kickLocals, isrLocals, history
  <2>4. FlagType'
        BY <2>1, <2>2 DEF FlagType, registers, endpoint
  <2>5. QED BY <2>2, <2>3, <2>4
<1>8. CASE Claim
  <2>1. /\ UNCHANGED <<ring, configured, epbuf, registers, endpoint, writeLocals, next,
                       savedPic, savedIdx, isrLocals, written, events, history>>
        /\ pc["main"] = "claim" /\ busy' = TRUE
        /\ count' = [count EXCEPT !["main"] = 0] /\ Goto("main", "copy")
        BY <1>8 DEF Claim
  <2>2. PcType' /\ pc'["main"] = "copy"
        BY <1>a, <2>1, GotoType
  <2>3. chunk' = chunk /\ todo' = todo
        BY <2>1 DEF writeLocals
  <2>4. ChunkInv'
        BY <2>1, <2>2, <2>3 DEF ChunkInv
  <2>5. KickType'
    <3>1. 0 \in 0..PktMax
          BY SizeAssumption
    <3>2. count' \in [Contexts -> 0..PktMax]
          BY <2>1, <3>1 DEF KickType
    <3>3. QED BY <2>1, <3>2 DEF KickType
  <2>6. WriteType' /\ RingType' /\ HardwareType' /\ IsrType' /\ HistoryType'
        BY <2>1 DEF WriteType, RingType, HardwareType, IsrType, HistoryType, ring,
                    writeLocals, registers, endpoint, isrLocals, history
  <2>7. FlagType'
        BY <2>1 DEF FlagType, registers, endpoint, writeLocals
  <2>8. QED BY <2>2, <2>4, <2>5, <2>6, <2>7
<1>9. CASE CallWriteChar
      BY <1>1, <1>9 DEF CallWriteChar
<1>10. CASE CallWrite
  <2>1. PICK n \in 1..MaxWrite : Call(n, FALSE)
        BY <1>10 DEF CallWrite
  <2>2. n \in Nat
        BY BoundAssumption
  <2>3. QED BY <1>1, <2>1, <2>2
<1>11. QED BY <1>2, <1>3, <1>4, <1>5, <1>6, <1>7, <1>8, <1>9, <1>10

-----------------------------------------------------------------------------
\* The handler outside its kick, the hardware and the host.
LEMMA OtherStepType ==
  ASSUME TypeOK, ChunkInv, IsrEnter \/ IsrReset \/ IsrBranches \/ HostStep
  PROVE  TypeOK' /\ ChunkInv'
<1> USE DEF TypeOK
<1>0. /\ single \in BOOLEAN /\ busy \in BOOLEAN /\ txrdy \in BOOLEAN
      /\ configured \in BOOLEAN /\ picen \in BOOLEAN
      BY DEF FlagType
<1>a. /\ {"off", "reset", "ep0", "request", "flush", "leave", "copy"} \subseteq IsrLabels
      /\ "isr" \in Contexts /\ "main" \in Contexts
      BY DEF IsrLabels, KickLabels, Loading, Contexts
<1>b. ASSUME NEW l \in IsrLabels, Goto("isr", l), UNCHANGED <<chunk, todo, written>>
      PROVE  PcType' /\ ChunkInv'
  <2>1. PcType' /\ pc'["main"] = pc["main"]
        BY <1>a, <1>b, GotoType
  <2>2. QED BY <1>b, <2>1 DEF ChunkInv
<1>1. CASE IsrEnter
  <2>1. /\ UNCHANGED <<ring, busy, configured, epbuf, picen, fifo, txrdy, writeLocals,
                       next, savedPic, savedIdx, written, events, history>>
        /\ isrIdx' = uindex /\ seen' = flags /\ flags' = {}
        /\ uindex' \in {uindex, 1}
        /\ count' = [count EXCEPT !["isr"] = 0]
        BY <1>1 DEF IsrEnter
  <2>2. PICK l \in IsrLabels : Goto("isr", l)
    <3>1. (IF "reset" \in flags THEN "reset"
           ELSE IF "tx" \in flags THEN "copy" ELSE "ep0") \in IsrLabels
          BY <1>a
    <3>2. QED BY <1>1, <3>1 DEF IsrEnter
  <2>3. PcType' /\ ChunkInv'
        BY <1>b, <2>1, <2>2 DEF writeLocals
  <2>4. KickType'
    <3>1. 0 \in 0..PktMax
          BY SizeAssumption
    <3>2. count' \in [Contexts -> 0..PktMax]
          BY <2>1, <3>1 DEF KickType
    <3>3. QED BY <2>1, <3>2 DEF KickType
  <2>5. RingType' /\ HardwareType' /\ WriteType' /\ IsrType' /\ HistoryType'
        BY <2>1 DEF RingType, HardwareType, WriteType, IsrType, HistoryType, ring,
                    registers, writeLocals, history
  <2>6. FlagType'
        BY <2>1 DEF FlagType, registers, writeLocals
  <2>7. QED BY <2>3, <2>4, <2>5, <2>6
<1>2. CASE IsrReset
  <2>1. /\ UNCHANGED <<buf, epbuf, picen, endpoint, writeLocals, kickLocals, isrIdx,
                       written, events>>
        /\ configured' = FALSE /\ busy' = FALSE /\ head' = 0 /\ tail' = 0
        /\ uindex' = 0 /\ seen' = {} /\ accepted' = <<>> /\ delivered' = <<>>
        /\ Goto("isr", "leave")
        BY <1>2 DEF IsrReset
  <2>2. PcType' /\ ChunkInv'
        BY <1>a, <1>b, <2>1 DEF writeLocals
  <2>3. /\ RingType' /\ HardwareType' /\ WriteType' /\ KickType' /\ IsrType'
        /\ HistoryType'
        BY <2>1, ZeroInRing DEF RingType, HardwareType, WriteType, KickType, IsrType,
                                HistoryType, endpoint, writeLocals, kickLocals
  <2>4. FlagType'
        BY <2>1 DEF FlagType, endpoint, writeLocals
  <2>5. QED BY <2>2, <2>3, <2>4
<1>3. CASE IsrBranches
  <2>1. OutsideKick
        BY <1>3 DEF IsrBranches, IsrEp0, IsrRequest, IsrFlush, IsrLeave
  <2>2. /\ configured' \in {configured, TRUE}
        /\ uindex' \in {uindex, isrIdx, 0, 1}
        /\ seen' \in {seen, {}}
        /\ \E l \in IsrLabels : Goto("isr", l)
    <3>1. CASE IsrEp0
          BY <1>a, <3>1 DEF IsrEp0
    <3>2. CASE IsrRequest
          BY <1>a, <3>2 DEF IsrRequest
    <3>3. CASE IsrFlush
          BY <1>a, <3>3 DEF IsrFlush
    <3>4. CASE IsrLeave
          BY <1>a, <3>4 DEF IsrLeave, OutsideKick
    <3>5. QED BY <1>3, <3>1, <3>2, <3>3, <3>4 DEF IsrBranches
  <2>3. PcType' /\ ChunkInv'
        BY <1>b, <2>1, <2>2 DEF OutsideKick, writeLocals
  <2>4. /\ RingType' /\ HardwareType' /\ WriteType' /\ KickType' /\ IsrType'
        /\ HistoryType'
        BY <2>1, <2>2 DEF OutsideKick, RingType, HardwareType, WriteType, KickType,
                          IsrType, HistoryType, ring, endpoint, writeLocals, kickLocals,
                          history
  <2>5. configured' \in BOOLEAN
        BY <1>0, <2>2
  <2>6. FlagType'
        BY <2>1, <2>5 DEF OutsideKick, FlagType, endpoint, writeLocals
  <2>7. QED BY <2>3, <2>4, <2>6
<1>4. CASE HostStep
  <2>1. /\ UNCHANGED <<ring, busy, configured, epbuf, registers, pc, writeLocals,
                       kickLocals, isrLocals, written>>
        /\ txrdy' = txrdy \/ txrdy' = FALSE
        /\ fifo' = fifo \/ fifo' = <<>>
        /\ delivered' = delivered \/ delivered' = delivered \o fifo
        /\ accepted' = accepted
        /\ events' = events \/ events' = events + 1
        /\ \E f \in Causes : flags' = flags \cup {f}
    <3>1. CASE HostIn
          BY <3>1 DEF HostIn, Causes, history
    <3>2. CASE HostConfigure \/ HostOther
          BY <3>2 DEF HostConfigure, HostOther, Raise, Causes, Ep0Causes, history
    <3>3. CASE BusReset
          BY <3>3 DEF BusReset, Causes, history
    <3>4. QED BY <1>4, <3>1, <3>2, <3>3 DEF HostStep
  <2>2. HardwareType'
    <3>1. uindex' = uindex
          BY <2>1 DEF registers
    <3>2. fifo' \in Seq(Nat)
      <4>1. fifo' = fifo \/ fifo' = <<>>
            BY <2>1
      <4>2. fifo \in Seq(Nat) /\ <<>> \in Seq(Nat)
            BY DEF HardwareType
      <4>3. QED BY <4>1, <4>2, Zenon
    <3>3. flags' \subseteq Causes
      <4>1. \E f \in Causes : flags' = flags \cup {f}
            BY <2>1
      <4>2. QED BY <4>1 DEF HardwareType
    <3>4. QED BY <3>1, <3>2, <3>3 DEF HardwareType
  <2>3. HistoryType'
    <3>1. delivered' = delivered \/ delivered' = delivered \o fifo
          BY <2>1
    <3>2. delivered' \in Seq(Nat)
      <4>1. delivered \in Seq(Nat) /\ delivered \o fifo \in Seq(Nat)
            BY DEF HistoryType, HardwareType
      <4>2. QED BY <3>1, <4>1, Zenon
    <3>3. written' = written /\ accepted' = accepted
          BY <2>1
    <3>4. events' = events \/ events' = events + 1
          BY <2>1
    <3>5. QED BY <3>2, <3>3, <3>4 DEF HistoryType
  <2>4. RingType' /\ PcType' /\ WriteType' /\ KickType' /\ IsrType' /\ ChunkInv'
        BY <2>1 DEF RingType, PcType, WriteType, KickType, IsrType, ChunkInv, ring,
                    writeLocals, kickLocals, isrLocals
  <2>5. FlagType'
        BY <2>1 DEF FlagType, registers, writeLocals
  <2>6. QED BY <2>2, <2>3, <2>4, <2>5
<1>5. QED BY <1>1, <1>2, <1>3, <1>4

\* Every step of the system preserves the types.
LEMMA TypeStep == TypeOK /\ ChunkInv /\ [Next]_vars => TypeOK' /\ ChunkInv'
<1> SUFFICES ASSUME TypeOK, ChunkInv, [Next]_vars PROVE TypeOK' /\ ChunkInv'
    OBVIOUS
<1>1. CASE UNCHANGED vars
  <2>1. /\ UNCHANGED <<head, tail, buf, epbuf, uindex, fifo, flags, pc>>
        /\ UNCHANGED <<timeout, todo, slot, chunk, count, next, savedPic, savedIdx>>
        /\ UNCHANGED <<seen, isrIdx, written, events, accepted, delivered>>
        /\ UNCHANGED <<busy, configured, picen, txrdy, single>>
        BY <1>1 DEF vars, ring, registers, endpoint, writeLocals, kickLocals, isrLocals,
                    history
  <2>2. FlagType'
        BY <2>1 DEF TypeOK, FlagType
  <2>3. /\ RingType' /\ HardwareType' /\ PcType' /\ WriteType' /\ KickType'
        /\ IsrType' /\ HistoryType' /\ ChunkInv'
        BY <2>1 DEF TypeOK, RingType, HardwareType, PcType, WriteType, KickType,
                    IsrType, HistoryType, ChunkInv
  <2>4. QED BY <2>2, <2>3 DEF TypeOK
<1>2. ASSUME NEW a \in Contexts, Kick(a) PROVE TypeOK' /\ ChunkInv'
      BY <1>2, KickStepType
<1>3. CASE \/ CallWriteChar \/ CallWrite \/ LoadHead \/ TestSpace \/ Fill \/ NextHead
           \/ Publish \/ TestBusy \/ Claim
      BY <1>3, WriteStepType
<1>4. CASE IsrEnter \/ IsrReset \/ IsrBranches \/ HostStep
      BY <1>4, OtherStepType
<1>5. QED BY <1>1, <1>2, <1>3, <1>4 DEF Next, MainStep, IsrStep, Contexts

(* Every variable of the transmit path keeps its type: in particular no    *)
(* interleaving takes an index out of the ring, the packet length over the *)
(* FIFO, or a write's remaining length below zero.                         *)
THEOREM TypeCorrect == Spec => []TypeOK
<1>1. Init => TypeOK /\ ChunkInv
      BY TypeInit
<1>2. (TypeOK /\ ChunkInv) /\ [Next]_vars => (TypeOK /\ ChunkInv)'
      BY TypeStep
<1>3. QED BY <1>1, <1>2, PTL DEF Spec

-----------------------------------------------------------------------------
(* The register window and the interrupt mask.                             *)

\* The interrupt is masked exactly while a context is in the masked part of
\* a kick, EP1 selected there, and the handler outside when the main thread is
\* there; so the handler, and every kick of the main thread, finds UINDEX 0.
WindowInv ==
  /\ picen <=> \A a \in Contexts : pc[a] \notin Masked
  /\ \A a \in Contexts : pc[a] \in Masked => savedPic[a] /\ uindex = 1
  /\ pc["main"] \in Masked => pc["isr"] = "off" /\ savedIdx["main"] = 0
  /\ pc["isr"] = "off" /\ pc["main"] \notin Masked => uindex = 0
  /\ pc["isr"] = "request" => uindex = 0
  /\ pc["isr"] = "flush" => uindex = 1
  /\ isrIdx = 0

\* The registers of UINDEX and PICEN and their saved copies follow the labels.
LEMMA WindowStep == ASSUME TypeOK, WindowInv, Next PROVE WindowInv'
<1> USE DEF WindowInv, TypeOK, PcType, KickType, Contexts, Masked, MainAt, At, Goto,
            registers, kickLocals, isrLocals
<1>1. ASSUME NEW n, NEW s, Call(n, s) PROVE WindowInv'
      BY <1>1 DEF Call
<1>2. CASE LoadHead
      BY <1>2 DEF LoadHead
<1>3. CASE TestSpace
      BY <1>3 DEF TestSpace, WaitTurn, EndCall
<1>4. CASE Fill
      BY <1>4 DEF Fill
<1>5. CASE NextHead
      BY <1>5 DEF NextHead
<1>6. CASE Publish
      BY <1>6 DEF Publish
<1>7. CASE TestBusy
      BY <1>7 DEF TestBusy, ChunkDone, EndCall
<1>8. CASE Claim
      BY <1>8 DEF Claim
<1>9. ASSUME NEW a \in Contexts, KickCopy(a) PROVE WindowInv'
      BY <1>9 DEF KickCopy
<1>10. ASSUME NEW a \in Contexts, KickAdvance(a) PROVE WindowInv'
      BY <1>10 DEF KickAdvance
<1>11. ASSUME NEW a \in Contexts, KickStore(a) PROVE WindowInv'
      BY <1>11 DEF KickStore
<1>12. ASSUME NEW a \in Contexts, KickCheck(a) PROVE WindowInv'
      BY <1>12 DEF KickCheck, Return, ChunkDone, EndCall
<1>13. ASSUME NEW a \in Contexts, KickMask(a) PROVE WindowInv'
      BY <1>13 DEF KickMask
<1>14. ASSUME NEW a \in Contexts, KickDma(a) PROVE WindowInv'
      BY <1>14 DEF KickDma
<1>15. ASSUME NEW a \in Contexts, KickReady(a) PROVE WindowInv'
      BY <1>15 DEF KickReady
<1>16. ASSUME NEW a \in Contexts, KickRestore(a) PROVE WindowInv'
      BY <1>16 DEF KickRestore, Return, ChunkDone, EndCall
<1>17. CASE IsrEnter
      BY <1>17 DEF IsrEnter
<1>18. CASE IsrReset
      BY <1>18 DEF IsrReset
<1>19. CASE IsrBranches
      BY <1>19 DEF IsrBranches, IsrEp0, IsrRequest, IsrFlush, IsrLeave, OutsideKick, Ep0Causes
<1>20. CASE HostIn
      BY <1>20 DEF HostIn
<1>21. CASE HostConfigure \/ HostOther
      BY <1>21 DEF HostConfigure, HostOther, Raise, Ep0Causes
<1>22. CASE BusReset
      BY <1>22 DEF BusReset
<1>23. QED BY <1>1, <1>2, <1>3, <1>4, <1>5, <1>6, <1>7, <1>8, <1>9, <1>10,
              <1>11, <1>12, <1>13, <1>14, <1>15, <1>16, <1>17, <1>18, <1>19,
              <1>20, <1>21, <1>22
          DEF Next, CallWriteChar, CallWrite, MainStep, Kick, IsrStep, HostStep, Contexts

-----------------------------------------------------------------------------
(* Who moves the next packet.                                              *)

\* The handler holds the causes it has read until it returns, and is at its
\* reset branch exactly if they include a reset.
SeenInv ==
  /\ pc["isr"] = "off" => seen = {}
  /\ "reset" \in seen <=> pc["isr"] = "reset"

\* The flags the handler has read but not acted on are those it was entered with.
LEMMA SeenStep == ASSUME TypeOK, SeenInv, Next PROVE SeenInv'
<1> USE DEF SeenInv, TypeOK, PcType, Contexts, MainAt, At, Goto, isrLocals, Loading,
            Masked, KickLabels
<1>1. ASSUME NEW n, NEW s, Call(n, s) PROVE SeenInv'
      BY <1>1 DEF Call
<1>2. CASE LoadHead
      BY <1>2 DEF LoadHead
<1>3. CASE TestSpace
      BY <1>3 DEF TestSpace, WaitTurn, EndCall
<1>4. CASE Fill
      BY <1>4 DEF Fill
<1>5. CASE NextHead
      BY <1>5 DEF NextHead
<1>6. CASE Publish
      BY <1>6 DEF Publish
<1>7. CASE TestBusy
      BY <1>7 DEF TestBusy, ChunkDone, EndCall
<1>8. CASE Claim
      BY <1>8 DEF Claim
<1>9. ASSUME NEW a \in Contexts, KickCopy(a) PROVE SeenInv'
      BY <1>9 DEF KickCopy
<1>10. ASSUME NEW a \in Contexts, KickAdvance(a) PROVE SeenInv'
      BY <1>10 DEF KickAdvance
<1>11. ASSUME NEW a \in Contexts, KickStore(a) PROVE SeenInv'
      BY <1>11 DEF KickStore
<1>12. ASSUME NEW a \in Contexts, KickCheck(a) PROVE SeenInv'
      BY <1>12 DEF KickCheck, Return, ChunkDone, EndCall
<1>13. ASSUME NEW a \in Contexts, KickMask(a) PROVE SeenInv'
      BY <1>13 DEF KickMask
<1>14. ASSUME NEW a \in Contexts, KickDma(a) PROVE SeenInv'
      BY <1>14 DEF KickDma
<1>15. ASSUME NEW a \in Contexts, KickReady(a) PROVE SeenInv'
      BY <1>15 DEF KickReady
<1>16. ASSUME NEW a \in Contexts, KickRestore(a) PROVE SeenInv'
      BY <1>16 DEF KickRestore, Return, ChunkDone, EndCall
<1>17. CASE IsrEnter
      BY <1>17 DEF IsrEnter
<1>18. CASE IsrReset
      BY <1>18 DEF IsrReset
<1>19. CASE IsrBranches
      BY <1>19 DEF IsrBranches, IsrEp0, IsrRequest, IsrFlush, IsrLeave, OutsideKick, Ep0Causes
<1>20. CASE HostIn
      BY <1>20 DEF HostIn
<1>21. CASE HostConfigure \/ HostOther
      BY <1>21 DEF HostConfigure, HostOther, Raise, Ep0Causes
<1>22. CASE BusReset
      BY <1>22 DEF BusReset
<1>23. QED BY <1>1, <1>2, <1>3, <1>4, <1>5, <1>6, <1>7, <1>8, <1>9, <1>10,
              <1>11, <1>12, <1>13, <1>14, <1>15, <1>16, <1>17, <1>18, <1>19,
              <1>20, <1>21, <1>22
          DEF Next, CallWriteChar, CallWrite, MainStep, Kick, IsrStep, HostStep, Contexts

\* Someone owns the next packet.
Owned == \/ txrdy \/ "tx" \in flags
         \/ \E a \in Contexts : pc[a] \in Loading

\* The proofs speak of Owned, the properties of the set Owners.
LEMMA OwnedIsOwners == Owned <=> Owners # {}
  BY DEF Owned, Owners, Owns, Contexts

\* The inductive form of BusyIsOwned.
OwnedInv == busy => InReset \/ Owned

\* Whatever sets g_ep1_tx_busy, or finds it set, leaves the endpoint an owner.
LEMMA OwnedStep ==
  ASSUME TypeOK, WindowInv, SeenInv, OwnedInv, Next PROVE OwnedInv'
<1> USE DEF OwnedInv, Owned, InReset, SeenInv, WindowInv, TypeOK, PcType, Contexts, MainAt,
            At, Goto, registers, endpoint, isrLocals, Loading, Masked, KickLabels,
            WriteLabels, MainLabels
<1>1. ASSUME NEW n, NEW s, Call(n, s) PROVE OwnedInv'
      BY <1>1 DEF Call
<1>2. CASE LoadHead
      BY <1>2 DEF LoadHead
<1>3. CASE TestSpace
      BY <1>3 DEF TestSpace, WaitTurn, EndCall
<1>4. CASE Fill
      BY <1>4 DEF Fill
<1>5. CASE NextHead
      BY <1>5 DEF NextHead
<1>6. CASE Publish
      BY <1>6 DEF Publish
<1>7. CASE TestBusy
      BY <1>7 DEF TestBusy, ChunkDone, EndCall
<1>8. CASE Claim
      BY <1>8 DEF Claim
<1>9. ASSUME NEW a \in Contexts, KickCopy(a) PROVE OwnedInv'
      BY <1>9 DEF KickCopy
<1>10. ASSUME NEW a \in Contexts, KickAdvance(a) PROVE OwnedInv'
      BY <1>10 DEF KickAdvance
<1>11. ASSUME NEW a \in Contexts, KickStore(a) PROVE OwnedInv'
      BY <1>11 DEF KickStore
<1>12. ASSUME NEW a \in Contexts, KickCheck(a) PROVE OwnedInv'
      BY <1>12 DEF KickCheck, Return, ChunkDone, EndCall
<1>13. ASSUME NEW a \in Contexts, KickMask(a) PROVE OwnedInv'
      BY <1>13 DEF KickMask
<1>14. ASSUME NEW a \in Contexts, KickDma(a) PROVE OwnedInv'
      BY <1>14 DEF KickDma
<1>15. ASSUME NEW a \in Contexts, KickReady(a) PROVE OwnedInv'
      BY <1>15 DEF KickReady
<1>16. ASSUME NEW a \in Contexts, KickRestore(a) PROVE OwnedInv'
      BY <1>16 DEF KickRestore, Return, ChunkDone, EndCall
<1>17. CASE IsrEnter
      BY <1>17 DEF IsrEnter
<1>18. CASE IsrReset
      BY <1>18 DEF IsrReset
<1>19. CASE IsrBranches
      BY <1>19 DEF IsrBranches, IsrEp0, IsrRequest, IsrFlush, IsrLeave, OutsideKick, Ep0Causes
<1>20. CASE HostIn
      BY <1>20 DEF HostIn
<1>21. CASE HostConfigure \/ HostOther
      BY <1>21 DEF HostConfigure, HostOther, Raise, Ep0Causes
<1>22. CASE BusReset
      BY <1>22 DEF BusReset
<1>23. QED BY <1>1, <1>2, <1>3, <1>4, <1>5, <1>6, <1>7, <1>8, <1>9, <1>10,
              <1>11, <1>12, <1>13, <1>14, <1>15, <1>16, <1>17, <1>18, <1>19,
              <1>20, <1>21, <1>22
          DEF Next, CallWriteChar, CallWrite, MainStep, Kick, IsrStep, HostStep, Contexts

-----------------------------------------------------------------------------
(* Lost wakeups.                                                           *)

\* The handler moves tail past a byte only where there is one, and a kick
\* that finds nothing to send has seen the ring empty.
EmptyInv ==
  /\ pc["isr"] \in {"advance", "store"} => head # tail
  /\ \A a \in Contexts : pc[a] = "check" /\ count[a] = 0 => head = tail

\* The copy loop's test of head against tail stays true up to its use.
LEMMA EmptyStep == ASSUME TypeOK, EmptyInv, Next PROVE EmptyInv'
<1> USE SizeAssumption DEF EmptyInv, TypeOK, PcType, KickType, Contexts, MainAt, At, Goto,
            ring, kickLocals, Loading, Masked, KickLabels, WriteLabels, MainLabels
<1>1. ASSUME NEW n, NEW s, Call(n, s) PROVE EmptyInv'
      BY <1>1 DEF Call
<1>2. CASE LoadHead
      BY <1>2 DEF LoadHead
<1>3. CASE TestSpace
      BY <1>3 DEF TestSpace, WaitTurn, EndCall
<1>4. CASE Fill
      BY <1>4 DEF Fill
<1>5. CASE NextHead
      BY <1>5 DEF NextHead
<1>6. CASE Publish
      BY <1>6 DEF Publish
<1>7. CASE TestBusy
      BY <1>7 DEF TestBusy, ChunkDone, EndCall
<1>8. CASE Claim
      BY <1>8 DEF Claim
<1>9. ASSUME NEW a \in Contexts, KickCopy(a) PROVE EmptyInv'
      BY <1>9 DEF KickCopy
<1>10. ASSUME NEW a \in Contexts, KickAdvance(a) PROVE EmptyInv'
      BY <1>10 DEF KickAdvance
<1>11. ASSUME NEW a \in Contexts, KickStore(a) PROVE EmptyInv'
      BY <1>11 DEF KickStore
<1>12. ASSUME NEW a \in Contexts, KickCheck(a) PROVE EmptyInv'
      BY <1>12 DEF KickCheck, Return, ChunkDone, EndCall
<1>13. ASSUME NEW a \in Contexts, KickMask(a) PROVE EmptyInv'
      BY <1>13 DEF KickMask
<1>14. ASSUME NEW a \in Contexts, KickDma(a) PROVE EmptyInv'
      BY <1>14 DEF KickDma
<1>15. ASSUME NEW a \in Contexts, KickReady(a) PROVE EmptyInv'
      BY <1>15 DEF KickReady
<1>16. ASSUME NEW a \in Contexts, KickRestore(a) PROVE EmptyInv'
      BY <1>16 DEF KickRestore, Return, ChunkDone, EndCall
<1>17. CASE IsrEnter
      BY <1>17 DEF IsrEnter
<1>18. CASE IsrReset
      BY <1>18 DEF IsrReset
<1>19. CASE IsrBranches
      BY <1>19 DEF IsrBranches, IsrEp0, IsrRequest, IsrFlush, IsrLeave, OutsideKick, Ep0Causes
<1>20. CASE HostIn
      BY <1>20 DEF HostIn
<1>21. CASE HostConfigure \/ HostOther
      BY <1>21 DEF HostConfigure, HostOther, Raise, Ep0Causes
<1>22. CASE BusReset
      BY <1>22 DEF BusReset
<1>23. QED BY <1>1, <1>2, <1>3, <1>4, <1>5, <1>6, <1>7, <1>8, <1>9, <1>10,
              <1>11, <1>12, <1>13, <1>14, <1>15, <1>16, <1>17, <1>18, <1>19,
              <1>20, <1>21, <1>22
          DEF Next, CallWriteChar, CallWrite, MainStep, Kick, IsrStep, HostStep, Contexts

\* The inductive form of NoLostWakeup.
WakeInv == head # tail => InReset \/ Owned \/ pc["main"] \in {"test", "claim"}

\* No step puts the endpoint to sleep over bytes that nobody is about to send.
LEMMA WakeStep ==
  ASSUME TypeOK, WindowInv, SeenInv, OwnedInv, EmptyInv, WakeInv, Next PROVE WakeInv'
<1> USE DEF WakeInv, OwnedInv, Owned, EmptyInv, InReset, SeenInv, WindowInv, TypeOK, PcType,
            Contexts, MainAt, At, Goto, ring, registers, endpoint, isrLocals, Loading,
            Masked, KickLabels, WriteLabels, MainLabels
<1>1. ASSUME NEW n, NEW s, Call(n, s) PROVE WakeInv'
      BY <1>1 DEF Call
<1>2. CASE LoadHead
      BY <1>2 DEF LoadHead
<1>3. CASE TestSpace
      BY <1>3 DEF TestSpace, WaitTurn, EndCall
<1>4. CASE Fill
      BY <1>4 DEF Fill
<1>5. CASE NextHead
      BY <1>5 DEF NextHead
<1>6. CASE Publish
      BY <1>6 DEF Publish
<1>7. CASE TestBusy
      BY <1>7 DEF TestBusy, ChunkDone, EndCall
<1>8. CASE Claim
      BY <1>8 DEF Claim
<1>9. ASSUME NEW a \in Contexts, KickCopy(a) PROVE WakeInv'
      BY <1>9 DEF KickCopy
<1>10. ASSUME NEW a \in Contexts, KickAdvance(a) PROVE WakeInv'
      BY <1>10 DEF KickAdvance
<1>11. ASSUME NEW a \in Contexts, KickStore(a) PROVE WakeInv'
      BY <1>11 DEF KickStore
<1>12. ASSUME NEW a \in Contexts, KickCheck(a) PROVE WakeInv'
      BY <1>12 DEF KickCheck, Return, ChunkDone, EndCall
<1>13. ASSUME NEW a \in Contexts, KickMask(a) PROVE WakeInv'
      BY <1>13 DEF KickMask
<1>14. ASSUME NEW a \in Contexts, KickDma(a) PROVE WakeInv'
      BY <1>14 DEF KickDma
<1>15. ASSUME NEW a \in Contexts, KickReady(a) PROVE WakeInv'
      BY <1>15 DEF KickReady
<1>16. ASSUME NEW a \in Contexts, KickRestore(a) PROVE WakeInv'
      BY <1>16 DEF KickRestore, Return, ChunkDone, EndCall
<1>17. CASE IsrEnter
      BY <1>17 DEF IsrEnter
<1>18. CASE IsrReset
      BY <1>18 DEF IsrReset
<1>19. CASE IsrBranches
      BY <1>19 DEF IsrBranches, IsrEp0, IsrRequest, IsrFlush, IsrLeave, OutsideKick, Ep0Causes
<1>20. CASE HostIn
      BY <1>20 DEF HostIn
<1>21. CASE HostConfigure \/ HostOther
      BY <1>21 DEF HostConfigure, HostOther, Raise, Ep0Causes
<1>22. CASE BusReset
      BY <1>22 DEF BusReset
<1>23. QED BY <1>1, <1>2, <1>3, <1>4, <1>5, <1>6, <1>7, <1>8, <1>9, <1>10,
              <1>11, <1>12, <1>13, <1>14, <1>15, <1>16, <1>17, <1>18, <1>19,
              <1>20, <1>21, <1>22
          DEF Next, CallWriteChar, CallWrite, MainStep, Kick, IsrStep, HostStep, Contexts

\* The control state of every bus: the strengthening the properties share.
ControlInv == /\ TypeOK /\ ChunkInv /\ WindowInv /\ SeenInv
              /\ OwnedInv /\ EmptyInv /\ WakeInv

\* Power-on satisfies the strengthening.
LEMMA ControlInit == Init => ControlInv
<1>1. Init => WindowInv /\ SeenInv /\ EmptyInv
      BY DEF Init, WindowInv, SeenInv, EmptyInv, Contexts, Masked
<1>2. Init => OwnedInv /\ WakeInv
      BY DEF Init, OwnedInv, WakeInv
<1>3. QED BY <1>1, <1>2, TypeInit DEF ControlInv

\* Every step, and every stutter, keeps it.
LEMMA ControlStep == ControlInv /\ [Next]_vars => ControlInv'
<1> SUFFICES ASSUME ControlInv, [Next]_vars PROVE ControlInv'
    OBVIOUS
<1>1. CASE Next
      BY <1>1, TypeStep, WindowStep, SeenStep, OwnedStep, EmptyStep, WakeStep
      DEF ControlInv
<1>2. CASE UNCHANGED vars
  <2>1. TypeOK' /\ ChunkInv'
        BY TypeStep DEF ControlInv
  <2>2. WindowInv' /\ SeenInv' /\ EmptyInv'
        BY <1>2 DEF ControlInv, WindowInv, SeenInv, EmptyInv, vars, ring, registers,
                    kickLocals, isrLocals
  <2>3. OwnedInv' /\ WakeInv'
        BY <1>2 DEF ControlInv, OwnedInv, WakeInv, Owned, InReset, vars, ring, endpoint,
                    isrLocals
  <2>4. QED BY <2>1, <2>2, <2>3 DEF ControlInv
<1>3. QED BY <1>1, <1>2

\* So it holds in every behaviour, under every kind of bus reset.
LEMMA ControlHolds == Spec => []ControlInv
<1>1. QED BY ControlInit, ControlStep, PTL DEF Spec

(* UINDEX and PICEN are saved, set and restored in pairs, by the kick in   *)
(* either context and by the handler around its own branches, in every     *)
(* interleaving of the write calls, the handler's causes and the bus:      *)
(* UTXCSR1 is written in EP1's window whatever window the handler had      *)
(* selected, its EP0 branch writes in the windows it means, the            *)
(* interrupted code gets its window back, and the mask is never left set.  *)
THEOREM WindowSelected == Spec => []WindowIsSelected
<1>1. ControlInv => WindowIsSelected
      BY DEF ControlInv, TypeOK, PcType, WindowInv, WindowIsSelected, Contexts, Masked
<1>2. QED BY <1>1, ControlHolds, PTL

(* g_ep1_tx_busy never wedges the endpoint, whatever the bus does: while   *)
(* it is set someone is there who will clear it or send.                   *)
THEOREM BusyOwned == Spec => []BusyIsOwned
<1>1. ControlInv => BusyIsOwned
      BY OwnedIsOwners DEF ControlInv, OwnedInv, BusyIsOwned
<1>2. QED BY <1>1, ControlHolds, PTL

(* Bytes left in the ring are never forgotten, whatever the bus does.      *)
THEOREM NoWakeupLost == Spec => []NoLostWakeup
<1>1. ControlInv => NoLostWakeup
      BY OwnedIsOwners DEF ControlInv, WakeInv, NoLostWakeup
<1>2. QED BY <1>1, ControlHolds, PTL

-----------------------------------------------------------------------------
(* The claim.                                                              *)

\* A bus reset that is not in the middle of a write finds, and leaves, the
\* transmit path at rest until the handler has dealt with it.
QuietInv ==
  /\ InReset => pc["main"] = "idle" /\ ~txrdy /\ pc["isr"] \in {"off", "reset"}
  /\ pc["isr"] = "reset" => flags = {}

\* Between a clean reset and the handler's answer to it no write begins.
LEMMA QuietStep ==
  ASSUME TornResets = FALSE, TypeOK, WindowInv, SeenInv, QuietInv, Next PROVE QuietInv'
<1> USE DEF QuietInv, InReset, SeenInv, WindowInv, TypeOK, PcType, Contexts, MainAt,
            At, Goto, registers, endpoint, isrLocals, Loading, Masked, KickLabels,
            WriteLabels, MainLabels
<1>1. ASSUME NEW n, NEW s, Call(n, s) PROVE QuietInv'
      BY <1>1 DEF Call
<1>2. CASE LoadHead
      BY <1>2 DEF LoadHead
<1>3. CASE TestSpace
      BY <1>3 DEF TestSpace, WaitTurn, EndCall
<1>4. CASE Fill
      BY <1>4 DEF Fill
<1>5. CASE NextHead
      BY <1>5 DEF NextHead
<1>6. CASE Publish
      BY <1>6 DEF Publish
<1>7. CASE TestBusy
      BY <1>7 DEF TestBusy, ChunkDone, EndCall
<1>8. CASE Claim
      BY <1>8 DEF Claim
<1>9. ASSUME NEW a \in Contexts, KickCopy(a) PROVE QuietInv'
      BY <1>9 DEF KickCopy
<1>10. ASSUME NEW a \in Contexts, KickAdvance(a) PROVE QuietInv'
      BY <1>10 DEF KickAdvance
<1>11. ASSUME NEW a \in Contexts, KickStore(a) PROVE QuietInv'
      BY <1>11 DEF KickStore
<1>12. ASSUME NEW a \in Contexts, KickCheck(a) PROVE QuietInv'
      BY <1>12 DEF KickCheck, Return, ChunkDone, EndCall
<1>13. ASSUME NEW a \in Contexts, KickMask(a) PROVE QuietInv'
      BY <1>13 DEF KickMask
<1>14. ASSUME NEW a \in Contexts, KickDma(a) PROVE QuietInv'
      BY <1>14 DEF KickDma
<1>15. ASSUME NEW a \in Contexts, KickReady(a) PROVE QuietInv'
      BY <1>15 DEF KickReady
<1>16. ASSUME NEW a \in Contexts, KickRestore(a) PROVE QuietInv'
      BY <1>16 DEF KickRestore, Return, ChunkDone, EndCall
<1>17. CASE IsrEnter
      BY <1>17 DEF IsrEnter
<1>18. CASE IsrReset
      BY <1>18 DEF IsrReset
<1>19. CASE IsrBranches
      BY <1>19 DEF IsrBranches, IsrEp0, IsrRequest, IsrFlush, IsrLeave, OutsideKick, Ep0Causes
<1>20. CASE HostIn
      BY <1>20 DEF HostIn
<1>21. CASE HostConfigure \/ HostOther
      BY <1>21 DEF HostConfigure, HostOther, Raise, Ep0Causes
<1>22. CASE BusReset
      BY <1>22 DEF BusReset
<1>23. QED BY <1>1, <1>2, <1>3, <1>4, <1>5, <1>6, <1>7, <1>8, <1>9, <1>10,
              <1>11, <1>12, <1>13, <1>14, <1>15, <1>16, <1>17, <1>18, <1>19,
              <1>20, <1>21, <1>22
          DEF Next, CallWriteChar, CallWrite, MainStep, Kick, IsrStep, HostStep, Contexts

\* g_ep1_tx_busy is set as long as the endpoint has an owner, it has at most
\* one, and a write that is about to claim it has found it asleep.
ClaimInv ==
  ~InReset =>
    /\ ~(txrdy /\ "tx" \in flags)
    /\ \A a \in Contexts : pc[a] \in Loading => ~txrdy /\ "tx" \notin flags
    /\ ~(pc["main"] \in Loading /\ pc["isr"] \in Loading)
    /\ Owned => busy
    /\ pc["main"] = "claim" => ~busy

\* The owner passes from the write to the host, the event and the handler, one at a time.
LEMMA ClaimStep ==
  ASSUME TypeOK, WindowInv, SeenInv, OwnedInv, QuietInv, ClaimInv, Next PROVE ClaimInv'
<1> USE DEF ClaimInv, OwnedInv, Owned, QuietInv, InReset, SeenInv, WindowInv, TypeOK, PcType,
            Contexts, MainAt, At, Goto, registers, endpoint, isrLocals, Loading,
            Masked, KickLabels, WriteLabels, MainLabels
<1>1. ASSUME NEW n, NEW s, Call(n, s) PROVE ClaimInv'
      BY <1>1 DEF Call
<1>2. CASE LoadHead
      BY <1>2 DEF LoadHead
<1>3. CASE TestSpace
      BY <1>3 DEF TestSpace, WaitTurn, EndCall
<1>4. CASE Fill
      BY <1>4 DEF Fill
<1>5. CASE NextHead
      BY <1>5 DEF NextHead
<1>6. CASE Publish
      BY <1>6 DEF Publish
<1>7. CASE TestBusy
      BY <1>7 DEF TestBusy, ChunkDone, EndCall
<1>8. CASE Claim
      BY <1>8 DEF Claim
<1>9. ASSUME NEW a \in Contexts, KickCopy(a) PROVE ClaimInv'
      BY <1>9 DEF KickCopy
<1>10. ASSUME NEW a \in Contexts, KickAdvance(a) PROVE ClaimInv'
      BY <1>10 DEF KickAdvance
<1>11. ASSUME NEW a \in Contexts, KickStore(a) PROVE ClaimInv'
      BY <1>11 DEF KickStore
<1>12. ASSUME NEW a \in Contexts, KickCheck(a) PROVE ClaimInv'
      BY <1>12 DEF KickCheck, Return, ChunkDone, EndCall
<1>13. ASSUME NEW a \in Contexts, KickMask(a) PROVE ClaimInv'
      BY <1>13 DEF KickMask
<1>14. ASSUME NEW a \in Contexts, KickDma(a) PROVE ClaimInv'
      BY <1>14 DEF KickDma
<1>15. ASSUME NEW a \in Contexts, KickReady(a) PROVE ClaimInv'
      BY <1>15 DEF KickReady
<1>16. ASSUME NEW a \in Contexts, KickRestore(a) PROVE ClaimInv'
      BY <1>16 DEF KickRestore, Return, ChunkDone, EndCall
<1>17. CASE IsrEnter
      BY <1>17 DEF IsrEnter
<1>18. CASE IsrReset
      BY <1>18 DEF IsrReset
<1>19. CASE IsrBranches
      BY <1>19 DEF IsrBranches, IsrEp0, IsrRequest, IsrFlush, IsrLeave, OutsideKick, Ep0Causes
<1>20. CASE HostIn
      BY <1>20 DEF HostIn
<1>21. CASE HostConfigure \/ HostOther
      BY <1>21 DEF HostConfigure, HostOther, Raise, Ep0Causes
<1>22. CASE BusReset
      BY <1>22 DEF BusReset
<1>23. QED BY <1>1, <1>2, <1>3, <1>4, <1>5, <1>6, <1>7, <1>8, <1>9, <1>10,
              <1>11, <1>12, <1>13, <1>14, <1>15, <1>16, <1>17, <1>18, <1>19,
              <1>20, <1>21, <1>22
          DEF Next, CallWriteChar, CallWrite, MainStep, Kick, IsrStep, HostStep, Contexts

\* The claim's invariant in every behaviour without a reset inside a write.
LEMMA ClaimHolds == ASSUME TornResets = FALSE
                    PROVE  Spec => [](ControlInv /\ QuietInv /\ ClaimInv)
<1>1. Init => ControlInv /\ QuietInv /\ ClaimInv
  <2>1. Init => QuietInv /\ ClaimInv
        BY DEF Init, QuietInv, ClaimInv, Owned, InReset, Contexts, Loading
  <2>2. QED BY <2>1, ControlInit
<1>2. (ControlInv /\ QuietInv /\ ClaimInv) /\ [Next]_vars
        => (ControlInv /\ QuietInv /\ ClaimInv)'
  <2> SUFFICES ASSUME ControlInv, QuietInv, ClaimInv, [Next]_vars
               PROVE  ControlInv' /\ QuietInv' /\ ClaimInv'
      OBVIOUS
  <2>1. ControlInv'
        BY ControlStep
  <2>2. CASE Next
        BY <2>1, <2>2, QuietStep, ClaimStep DEF ControlInv
  <2>3. CASE UNCHANGED vars
        BY <2>1, <2>3 DEF QuietInv, ClaimInv, Owned, InReset, vars, endpoint, isrLocals
  <2>4. QED BY <2>2, <2>3
<1>3. QED BY <1>1, <1>2, PTL DEF Spec

(* g_ep1_tx_busy is a lock on the endpoint as long as no bus reset arrives *)
(* in the middle of a write: ep1_tx_buf and the FIFO are never filled      *)
(* under a packet that is still on its way.                                *)
THEOREM ClaimExclusive == ASSUME TornResets = FALSE
                          PROVE  Spec => []ClaimIsExclusive
<1>1. ControlInv /\ ClaimInv => ClaimIsExclusive
  <2> SUFFICES ASSUME ControlInv, ClaimInv, ~InReset,
                      NEW o \in Owners, NEW p \in Owners
               PROVE  o = p
      BY DEF ClaimIsExclusive
  <2>1. /\ o \in {"host", "event", "main", "isr"} /\ Owns(o)
        /\ p \in {"host", "event", "main", "isr"} /\ Owns(p)
        BY DEF Owners
  <2>2. QED BY <2>1 DEF ClaimInv, Owns, Contexts
<1>2. QED BY <1>1, ClaimHolds, PTL
=============================================================================
