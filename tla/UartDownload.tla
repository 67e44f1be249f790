---------------------------- MODULE UartDownload ----------------------------
(***************************************************************************)
(* The UART download protocol: the host side, uart.py, as the upload tool  *)
(* upload_fw_to_ram.py drives it, over the single wire that echoes what    *)
(* the host writes, to the boot ROM of the chip.  The ROM is external: it  *)
(* is modelled from what uart.py expects of it.                            *)
(*                                                                         *)
(* The wire carries units of two bytes: a token with its counter, a data   *)
(* length, a CRC; the body of a block, however long, is one unit too.      *)
(* Packets to the chip may be lost, packets from it may be lost, cut short *)
(* or corrupted in the body, and an answer may come after the host's       *)
(* timeout.  Noise that turns one token into another is left out.          *)
(***************************************************************************)
EXTENDS Integers, Sequences

CONSTANTS Blocks,      \* blocks of the firmware image, 0 for none
          CounterMod,  \* the counter is a byte: 256 in the code
          MaxTries,    \* 10 in the code
          SyncTries,   \* sync tokens before a hard reset, 10 in the code
          Space,       \* blocks the chip can hold
          MaxLost,     \* bound: packets lost or spoilt
          MaxLate      \* bound: timeouts with an answer still to come

ASSUME DownloadAssumption ==
  /\ Blocks \in Nat /\ MaxTries \in Nat
  /\ CounterMod \in Nat /\ CounterMod > 1
  /\ SyncTries \in Nat \ {0} /\ Space \in Nat \ {0}
  /\ MaxLost \in Nat /\ MaxLate \in Nat

VARIABLES
  pc, call,              \* where the tool is, and in which call of the script
  num,                   \* sync tokens since the last hard reset
  counter, pingFirst,    \* self.counter, self.ping_before_send
  doPing, tries,         \* locals of send_packet and recv_packet
  got, error,            \* replies received, why the upload failed
  inbuf,                 \* units received and not yet read
  toChip, fromChip,      \* packets under way
  lastCounter, answer,   \* the chip: counter and answer of the last packet
  accepted, held,        \* blocks it has accepted, those it has not processed
  offered,               \* the reply it last sent
  lost, late             \* counters of the bounds

tool == <<pc, call, num, counter, pingFirst, doPing, tries, got, error>>
wire == <<inbuf, toChip, fromChip>>
chip == <<lastCounter, answer, accepted, held, offered>>
vars == <<tool, wire, chip, lost, late>>

-----------------------------------------------------------------------------
(* The calls of an upload: GET_INFO and AUTHORIZE with their replies, then *)
(* MEM_WRITE with the image, SET_CMD_HANDLER and the command that starts.  *)

Script == <<"send", "recv", "send", "recv">>
          \o IF Blocks = 0 THEN <<>> ELSE [i \in 1..(1 + Blocks + 2) |-> "send"]

Sending == Script[call] = "send"

Unit(t, n) == [type |-> t, n |-> n]

\* A block or a reply: length, body, CRC.
Payload(b) == <<Unit("length", 1), Unit("body", b), Unit("crc", b)>>

PayloadIsGood(u) == u = Payload(u[2].n)

Requests == {"DATA_TOKEN", "DATA_REQUEST", "PING_TOKEN"}

Sync(t) == <<Unit(t, 1), Unit(t, 2)>>

\* The packet of the current call.
Packet == IF ~Sending THEN <<Unit("DATA_REQUEST", counter)>>
          ELSE IF doPing THEN <<Unit("PING_TOKEN", counter)>>
          ELSE <<Unit("DATA_TOKEN", counter)>> \o Payload(call)

Lesser(a, b) == IF a < b THEN a ELSE b

Drop(s, n) == SubSeq(s, Lesser(n, Len(s)) + 1, Len(s))

Init ==
  /\ pc = "sync" /\ call = 1 /\ num = 0
  /\ counter = 0 /\ pingFirst = FALSE
  /\ doPing = FALSE /\ tries = 0
  /\ got = <<>> /\ error = "none"
  /\ inbuf = <<>> /\ toChip = <<>> /\ fromChip = <<>>
  /\ lastCounter = 0 /\ answer = <<>>
  /\ accepted = <<>> /\ held = 0 /\ offered = 0
  /\ lost = 0 /\ late = 0

-----------------------------------------------------------------------------
(* The wire.                                                               *)

\* A packet goes out, or is lost on the way.
Transmit(p) == \/ toChip' = Append(toChip, p) /\ UNCHANGED lost
               \/ lost < MaxLost /\ lost' = lost + 1 /\ UNCHANGED toChip

\* port_write: what is written comes back behind what was there already,
\* and as much is read, unseen, as was written.
PortWrite_KeepsEcho(p) == inbuf' = inbuf \o p /\ Transmit(p)  \* mutant
PortWrite(p) == inbuf' = Drop(inbuf \o p, Len(p)) /\ Transmit(p)

\* A read has waited in vain: nothing more is on its way, or it is late.
TimedOut == \/ toChip = <<>> /\ fromChip = <<>> /\ UNCHANGED late
            \/ toChip \o fromChip # <<>> /\ late < MaxLate /\ late' = late + 1

\* An answer arrives whole, cut short, or with its body spoilt.
Arrivals(p) == {SubSeq(p, 1, n) : n \in 0..(Len(p) - 1)}
               \cup IF Len(p) = 4 THEN {[p EXCEPT ![3] = Unit("body", 0)]} ELSE {}

Deliver ==
  /\ fromChip # <<>>
  /\ LET p == Head(fromChip) IN
       \/ inbuf' = inbuf \o p /\ UNCHANGED lost
       \/ /\ lost < MaxLost /\ lost' = lost + 1
          /\ \E q \in Arrivals(p) : inbuf' = inbuf \o q
  /\ fromChip' = Tail(fromChip)
  /\ UNCHANGED <<tool, toChip, chip, late>>

-----------------------------------------------------------------------------
(* The boot ROM.  A packet with the counter of the one before is a retry:  *)
(* it is answered as before and not carried out again.  Only a request it  *)
(* had no reply for is looked at afresh: the host repeats those as polls.  *)

NextReply == CHOOSE r \in DOMAIN Script :
  /\ Script[r] = "recv" /\ r > offered
  /\ \A s \in DOMAIN Script : Script[s] = "recv" /\ s > offered => r <= s

ReplyIsReady ==
  /\ \E r \in DOMAIN Script : Script[r] = "recv" /\ r > offered
  /\ \E k \in 1..(Len(accepted) - held) : accepted[k] = NextReply - 1

Answer(u) == answer' = u /\ fromChip' = Append(fromChip, u)

Refuse(c) == Answer(<<Unit("NAK", c)>>) /\ UNCHANGED <<accepted, held, offered>>

\* A block is taken if there is room for it and it is not spoilt.
ChipData(p) ==
  LET c == p[1].n IN
  IF held < Space
  THEN \/ /\ accepted' = Append(accepted, p[3].n)
          /\ held' = held + 1
          /\ Answer(<<Unit(IF held + 1 < Space THEN "ACK" ELSE "NYET", c)>>)
          /\ UNCHANGED <<offered, lost>>
       \/ lost < MaxLost /\ lost' = lost + 1 /\ Refuse(c)
  ELSE Refuse(c) /\ UNCHANGED lost

ChipPing(p) ==
  LET c == p[1].n IN
  IF held < Space
  THEN Answer(<<Unit("ACK", c)>>) /\ UNCHANGED <<accepted, held, offered>>
  ELSE Refuse(c)

ChipRequest(p) ==
  LET c == p[1].n IN
  IF ReplyIsReady
  THEN /\ offered' = NextReply
       /\ Answer(<<Unit("DATA_TOKEN", c)>> \o Payload(NextReply))
       /\ UNCHANGED <<accepted, held>>
  ELSE /\ fromChip' = Append(fromChip, <<Unit("NAK", c)>>)
       /\ answer' = <<>>
       /\ UNCHANGED <<accepted, held, offered>>

ChipSync == /\ fromChip' = Append(fromChip, Sync("SYNC_RESP"))
            /\ UNCHANGED <<chip, lost>>

ChipPacket(p) ==
  IF p[1].n = lastCounter /\ answer # <<>>
  THEN fromChip' = Append(fromChip, answer) /\ UNCHANGED <<chip, lost>>
  ELSE /\ lastCounter' = p[1].n
       /\ CASE p[1].type = "DATA_TOKEN"   -> ChipData(p)
            [] p[1].type = "PING_TOKEN"   -> ChipPing(p) /\ UNCHANGED lost
            [] p[1].type = "DATA_REQUEST" -> ChipRequest(p) /\ UNCHANGED lost

ChipReceive ==
  /\ toChip # <<>>
  /\ LET p == Head(toChip) IN
       IF p[1].type \in Requests THEN ChipPacket(p) ELSE ChipSync
  /\ toChip' = Tail(toChip)
  /\ UNCHANGED <<tool, inbuf, late>>

ChipProcess ==
  /\ held > 0 /\ held' = held - 1
  /\ UNCHANGED <<tool, wire, lastCounter, answer, accepted, offered, lost, late>>

-----------------------------------------------------------------------------
(* main(): synchronisation.                                                *)

\* The receive buffer is emptied and a sync token sent; its echo stays.
SendSync ==
  /\ pc = "sync" /\ num < SyncTries
  /\ inbuf' = Sync("SYNC_TOKEN")
  /\ Transmit(Sync("SYNC_TOKEN"))
  /\ num' = num + 1
  /\ pc' = "listen"
  /\ UNCHANGED <<call, counter, pingFirst, doPing, tries, got, error, fromChip, chip, late>>

\* send_reset(True): RESET_TOKEN and SYNC_TOKEN restart the chip, which
\* has nothing to forget yet and does not answer.
HardReset ==
  /\ pc = "sync" /\ num = SyncTries
  /\ inbuf' = Drop(inbuf \o Sync("SYNC_TOKEN"), 2)
  /\ num' = 0 /\ counter' = 0 /\ pingFirst' = FALSE
  /\ UNCHANGED <<pc, call, doPing, tries, got, error, toChip, fromChip, chip, lost, late>>

\* Four bytes are read at a time until nothing comes or they are SYNC_RESP.
Listen ==
  /\ pc = "listen" /\ inbuf # <<>>
  /\ inbuf' = Drop(inbuf, 2)
  /\ pc' = IF SubSeq(inbuf, 1, Lesser(2, Len(inbuf))) = Sync("SYNC_RESP")
           THEN "ready" ELSE "listen"
  /\ UNCHANGED <<call, num, counter, pingFirst, doPing, tries, got, error, toChip,
                 fromChip, chip, lost, late>>

ListenTimeout ==
  /\ pc = "listen" /\ inbuf = <<>>
  /\ TimedOut
  /\ pc' = "sync"
  /\ UNCHANGED <<call, num, counter, pingFirst, doPing, tries, got, error, wire, chip,
                 lost>>

-----------------------------------------------------------------------------
(* send_packet and recv_packet, as execcmd calls them.                     *)

\* A new packet takes the next counter value, and its tries start at 0.
NewPacket_Unmasked(ping) ==                                   \* mutant
  /\ counter' = counter + 1
  /\ doPing' = ping /\ tries' = 0
  /\ pc' = "write"
NewPacket(ping) ==
  /\ counter' = (counter + 1) % CounterMod
  /\ doPing' = ping /\ tries' = 0
  /\ pc' = "write"

Begin ==
  /\ pc = "ready"
  /\ NewPacket(Sending /\ pingFirst)
  /\ UNCHANGED <<call, num, pingFirst, got, error, wire, chip, lost, late>>

Write ==
  /\ pc = "write"
  /\ PortWrite(Packet)
  /\ pc' = "await"
  /\ UNCHANGED <<call, num, counter, pingFirst, doPing, tries, got, error, fromChip, chip,
                 late>>

Return == /\ call' = call + 1
          /\ pc' = IF call = Len(Script) THEN "done" ELSE "ready"

Fail(e) == pc' = "failed" /\ error' = e

Retry == pc' = "write" /\ tries' = tries + 1

AwaitTimeout ==
  /\ pc = "await" /\ inbuf = <<>>
  /\ TimedOut
  /\ \/ tries > MaxTries /\ Fail("timeout") /\ UNCHANGED tries
     \/ tries <= MaxTries /\ Retry /\ UNCHANGED error
  /\ UNCHANGED <<call, num, counter, pingFirst, doPing, got, wire, chip, lost>>

SendToken_PingsOn(t) ==                                       \* mutant
  CASE doPing /\ t \in {"ACK", "NAK"} ->
         NewPacket(TRUE) /\ UNCHANGED <<call, pingFirst, error>>
    [] ~doPing /\ t \in {"ACK", "NYET"} ->
         /\ pingFirst' = (t = "NYET")
         /\ Return
         /\ UNCHANGED <<counter, doPing, tries, error>>
    [] ~doPing /\ t = "NAK" -> NewPacket(TRUE) /\ UNCHANGED <<call, pingFirst, error>>
    [] OTHER -> Fail("token") /\ UNCHANGED <<call, counter, pingFirst, doPing, tries>>

\* What a token with the right counter does to each call.
SendToken(t) ==
  CASE doPing /\ t = "ACK" -> NewPacket(FALSE) /\ UNCHANGED <<call, pingFirst, error>>
    [] doPing /\ t = "NAK" -> NewPacket(TRUE) /\ UNCHANGED <<call, pingFirst, error>>
    [] ~doPing /\ t \in {"ACK", "NYET"} ->
         /\ pingFirst' = (t = "NYET")
         /\ Return
         /\ UNCHANGED <<counter, doPing, tries, error>>
    [] ~doPing /\ t = "NAK" -> NewPacket(TRUE) /\ UNCHANGED <<call, pingFirst, error>>
    [] OTHER -> Fail("token") /\ UNCHANGED <<call, counter, pingFirst, doPing, tries>>

ReceiveToken(t) ==
  /\ CASE t = "DATA_TOKEN" -> pc' = "payload" /\ tries' = 0 /\ UNCHANGED error
       [] t = "NAK"        -> pc' = "write" /\ tries' = 0 /\ UNCHANGED error
       [] OTHER            -> Fail("token") /\ tries' = 0
  /\ UNCHANGED <<call, counter, pingFirst, doPing>>

\* The answer to a mismatch is a ValueError, returned and not raised; the
\* comparison with every token then fails, and formatting it raises.
Mismatch == Fail("mismatch") /\ UNCHANGED <<call, counter, pingFirst, doPing, tries>>

Tokens == Requests \cup {"ACK", "NAK", "NYET"}

ReadToken_AnyCounter ==                                       \* mutant
  /\ pc = "await" /\ inbuf # <<>>
  /\ LET u == Head(inbuf) IN
       IF u.type \in Tokens
       THEN IF Sending THEN SendToken(u.type) ELSE ReceiveToken(u.type)
       ELSE Mismatch
  /\ inbuf' = Tail(inbuf)
  /\ UNCHANGED <<num, got, toChip, fromChip, chip, lost, late>>

ReadToken ==
  /\ pc = "await" /\ inbuf # <<>>
  /\ LET u == Head(inbuf) IN
       IF u.type \in Tokens /\ u.n = counter
       THEN IF Sending THEN SendToken(u.type) ELSE ReceiveToken(u.type)
       ELSE Mismatch
  /\ inbuf' = Tail(inbuf)
  /\ UNCHANGED <<num, got, toChip, fromChip, chip, lost, late>>

\* A payload that is short, or whose CRC does not fit, is requested again.
ReadPayload ==
  /\ pc = "payload"
  /\ IF Len(inbuf) >= 3 THEN UNCHANGED late ELSE TimedOut
  /\ IF Len(inbuf) >= 3 /\ PayloadIsGood(SubSeq(inbuf, 1, 3))
     THEN got' = Append(got, inbuf[2].n) /\ Return /\ UNCHANGED tries
     ELSE Retry /\ UNCHANGED <<call, got>>
  /\ inbuf' = Drop(inbuf, 3)
  /\ UNCHANGED <<num, counter, pingFirst, doPing, error, toChip, fromChip, chip, lost>>

-----------------------------------------------------------------------------
ToolStep == \/ SendSync \/ HardReset \/ Listen \/ ListenTimeout
            \/ Begin \/ Write \/ AwaitTimeout \/ ReadToken \/ ReadPayload

Next == ToolStep \/ ChipReceive \/ ChipProcess \/ Deliver

Spec == Init /\ [][Next]_vars

\* The tool runs, the chip answers and processes what it holds, and what
\* is on the wire arrives or is lost.
FairSpec == /\ Spec
            /\ WF_vars(ToolStep) /\ WF_vars(Deliver)
            /\ WF_vars(ChipReceive) /\ WF_vars(ChipProcess)

-----------------------------------------------------------------------------
(* Properties.                                                             *)

Units == [type : Tokens \cup {"length", "body", "crc", "SYNC_TOKEN", "SYNC_RESP"}, n : Nat]

TypeOK ==
  /\ pc \in {"sync", "listen", "ready", "write", "await", "payload", "done", "failed"}
  /\ call \in 1..(Len(Script) + 1) /\ num \in 0..SyncTries
  /\ counter \in 0..(CounterMod - 1) /\ lastCounter \in 0..(CounterMod - 1)
  /\ pingFirst \in BOOLEAN /\ doPing \in BOOLEAN /\ tries \in 0..(MaxTries + 1)
  /\ got \in Seq(Nat) /\ error \in {"none", "timeout", "token", "mismatch"}
  /\ inbuf \in Seq(Units) /\ toChip \in Seq(Seq(Units)) /\ fromChip \in Seq(Seq(Units))
  /\ answer \in Seq(Units)
  /\ accepted \in Seq(DOMAIN Script) /\ held \in 0..Space
  /\ offered \in DOMAIN Script \cup {0}
  /\ lost \in 0..MaxLost /\ late \in 0..MaxLate

(* Retries, duplicates and late answers do not show: each block arrives    *)
(* once and in order, before its call returns, and each reply is the one   *)
(* its command asked for.                                                  *)
Transfer == INSTANCE DownloadTransfer
              WITH returned <- call - 1, arrived <- accepted
ImplementsTransfer == Transfer!Spec

(* An upload that meets no late answer gives up only when packets were     *)
(* lost once more than the retries of one packet make up for; it never     *)
(* trips over a leftover of an earlier exchange.                           *)
FailsForCause ==
  pc = "failed" => late > 0 \/ (error = "timeout" /\ lost > MaxTries + 1)

(* An upload ends: the chip's NAKs, the pings and the re-requests come to  *)
(* an end as the chip processes what it holds.                             *)
UploadEnds == <>(pc \in {"done", "failed"})
=============================================================================
